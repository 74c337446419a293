------------------------- MODULE DatabaseInvariant --------------------------
(***************************************************************************)
(* The inductive invariant behind StatsFresh and IndexExact: the shapes of *)
(* the catalog, the statistics and the indexes between two calls.          *)
(***************************************************************************)
EXTENDS Database

Index == [vectors : Seq(Scalars), dead : SUBSET Nat, rowIds : Seq(Nat),
          idToRow : Seq(Nat \cup {Tombstone})]

\* A table has statistics, current or marked stale.
CatalogInv ==
  /\ catalog = [t \in DOMAIN catalog |-> catalog[t]]
  /\ stats = [t \in DOMAIN catalog |-> stats[t]]
  /\ \A t \in DOMAIN catalog : catalog[t] \in Table

\* An index is over a table that has keys, and tombstones only ids it gave.
IndexInv ==
  /\ indexes = [t \in DOMAIN indexes |-> indexes[t]]
  /\ \A t \in DOMAIN indexes :
       /\ t \in DOMAIN catalog /\ catalog[t].key # "none"
       /\ indexes[t] \in Index
       /\ indexes[t].dead \subseteq DOMAIN indexes[t].vectors

\* What is outdated has its two parts.
Recorded == outdated = [views |-> outdated.views, indexes |-> outdated.indexes]

DbInv == Recorded /\ CatalogInv /\ IndexInv /\ StatsFresh /\ IndexExact
=============================================================================
