---------------------------- MODULE MC_CdcDaemon ----------------------------
(* Small instances of CdcDaemon for TLC. *)
EXTENDS CdcInvariant, TLC

\* Safety only: the keys, and the row contents, are interchangeable.
Symmetry == Permutations(Keys) \cup Permutations(Vals)
=============================================================================
