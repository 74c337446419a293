----------------------------- MODULE Selection ------------------------------
(***************************************************************************)
(* The subsequence of s at a set of its positions, in order.  It is what   *)
(* SelectSeq gives for the positions whose elements pass a test, defined   *)
(* by the rank of each position instead of by recursion along s, so that   *)
(* the properties that filter a sequence can be proved and not only run.   *)
(***************************************************************************)
EXTENDS Naturals, Sequences, FiniteSets

Rank(K, n) == Cardinality({k \in K : k <= n})

Select(s, K) == [r \in 1..Cardinality(K) |-> s[CHOOSE n \in K : Rank(K, n) = r]]
=============================================================================
