--------------------------- MODULE MC_FactServer ----------------------------
(* Small instances of FactServer for TLC. *)
EXTENDS FactServer, TLC

\* Safety only: facts, and owners, are interchangeable.
Symmetry == Permutations(Ids) \cup Permutations(Owners)
=============================================================================
