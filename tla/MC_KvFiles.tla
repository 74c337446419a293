----------------------------- MODULE MC_KvFiles -----------------------------
(* An instance of KvMemory for TLC in which the paths differ in their      *)
(* extension alone, and so have one audit file between them.               *)
EXTENDS KvMemory

CONSTANT stem

OneStem(p) == stem
=============================================================================
