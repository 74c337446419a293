---------------------------- MODULE MC_KvMemory -----------------------------
(* Small instances of KvMemory for TLC. *)
EXTENDS KvInvariant

\* Each file has its own audit file.
OwnStem(p) == p

\* Safety only: facts, and owners, are interchangeable.
Symmetry == Permutations(Ids) \cup Permutations(Owners)
=============================================================================
