--------------------------- MODULE JoinInvariant ----------------------------
(***************************************************************************)
(* The inductive invariant behind ChainExact: what the buckets of the      *)
(* streaming join hold, in terms of the tuples that have arrived.          *)
(***************************************************************************)
EXTENDS Joins

JoinTypeInv == /\ rIn \in Seq(JoinKeys) /\ tIn \in Seq(JoinKeys)
               /\ sIn \in Seq(JoinKeys \X JoinKeys)
               /\ emitted \in Nat

\* The positions of a key in a column.
Holding(column, k) == {i \in DOMAIN column : column[i] = k}

\* One of the two columns of S.
SColumn(s, n) == [j \in DOMAIN s |-> s[j][n]]

\* A counter of R or T is the number of tuples that came with its key.
CountersInv == /\ rByB = [k \in JoinKeys |-> Cardinality(Holding(rIn, k))]
               /\ tByC = [k \in JoinKeys |-> Cardinality(Holding(tIn, k))]

\* A bucket of S is the other column, at the tuples that came with its key, in order.
BucketsInv ==
  /\ sByB = [b \in JoinKeys |-> Select(SColumn(sIn, 2), Holding(SColumn(sIn, 1), b))]
  /\ sByC = [c \in JoinKeys |-> Select(SColumn(sIn, 1), Holding(SColumn(sIn, 2), c))]

JoinInv == /\ JoinTypeInv /\ CountersInv /\ BucketsInv
           /\ IsFiniteSet(ChainMatches(rIn, sIn, tIn)) /\ ChainExact
=============================================================================
