-------------------------- MODULE SelectionProofs ---------------------------
(***************************************************************************)
(* What Select gives for a sequence with one element more, and the least   *)
(* element of a set of numbers, by which a claim about every number is     *)
(* proved without an induction rule: a least counterexample has none.      *)
(***************************************************************************)
EXTENDS Selection, FiniteSetTheorems, FunctionTheorems, SequenceTheorems, TLAPS

\* A set of numbers that is not empty has a least element.
LEMMA LeastNumber ==
  ASSUME NEW S \in SUBSET Nat, S # {}
  PROVE  \E n \in S : \A k \in S : n <= k
<1> DEFINE R == OpToRel(<, Nat)
<1>1. IsWellFoundedOn(R, Nat)
  BY NatLessThanWellFounded
<1>2. \A a, b \in Nat : a < b => << a, b >> \in R
  BY DEF OpToRel
<1> HIDE DEF R
<1>3. PICK n \in S : \A k \in S : ~ (<< k, n >> \in R)
  BY <1>1, WFMin
<1>4. \A k \in S : k \in Nat /\ ~ (k < n)
  BY <1>2, <1>3
<1> QED BY <1>4

\* The rank of a position in a set of positions.
LEMMA RankFacts ==
  ASSUME NEW m \in Nat, NEW K \in SUBSET (1..m)
  PROVE  /\ IsFiniteSet(K) /\ Cardinality(K) \in Nat
         /\ \A n \in K : Rank(K, n) \in 1..Cardinality(K)
         /\ \A n, k \in K : Rank(K, n) = Rank(K, k) => n = k
         /\ \A r \in 1..Cardinality(K) : \E n \in K : Rank(K, n) = r
<1>1. IsFiniteSet(K) /\ Cardinality(K) \in Nat
  <2>1. IsFiniteSet(1..m)
    BY FS_Interval
  <2>2. IsFiniteSet(K)
    BY <2>1, FS_Subset
  <2> QED BY <2>2, FS_CardinalityType
<1> DEFINE upTo(n) == {k \in K : k <= n}
<1>2. ASSUME NEW n \in K
      PROVE  IsFiniteSet(upTo(n)) /\ Cardinality(upTo(n)) \in 1..Cardinality(K)
  <2>1. upTo(n) \in SUBSET K /\ n \in upTo(n)
    OBVIOUS
  <2>2. IsFiniteSet(upTo(n)) /\ Cardinality(upTo(n)) <= Cardinality(K)
    BY <1>1, <2>1, FS_Subset
  <2>3. Cardinality(upTo(n)) \in Nat /\ Cardinality(upTo(n)) # 0
    BY <2>1, <2>2, FS_CardinalityType, FS_EmptySet
  <2> QED BY <1>1, <2>2, <2>3
<1>3. ASSUME NEW n \in K, NEW k \in K, n < k
      PROVE  Rank(K, n) # Rank(K, k)
  <2>1. upTo(n) \in SUBSET upTo(k) /\ k \in upTo(k) /\ k \notin upTo(n)
    <3>1. \A j \in K : j \in Int
      OBVIOUS
    <3>2. \A j \in K : j <= n => j <= k
      BY <1>3, <3>1
    <3>3. k <= k /\ ~ (k <= n)
      BY <1>3, <3>1
    <3> QED BY <3>2, <3>3
  <2>2. upTo(n) # upTo(k)
    BY <2>1
  <2> QED BY <1>2, <2>1, <2>2, FS_Subset DEF Rank
<1>4. \A n, k \in K : Rank(K, n) = Rank(K, k) => n = k
  BY <1>3
<1>5. \A n \in K : Rank(K, n) \in 1..Cardinality(K)
  BY <1>2 DEF Rank
<1> DEFINE rank == [n \in K |-> Rank(K, n)]
<1>6. rank \in Injection(K, 1..Cardinality(K))
  BY <1>4, <1>5 DEF Injection, IsInjective
<1>7. IsFiniteSet(1..Cardinality(K)) /\ Cardinality(1..Cardinality(K)) = Cardinality(K)
  BY <1>1, FS_Interval
<1>8. rank \in Surjection(K, 1..Cardinality(K))
  BY <1>1, <1>6, <1>7, FS_Injection
<1>9. \A r \in 1..Cardinality(K) : \E n \in K : Rank(K, n) = r
  BY <1>8 DEF Surjection
<1> QED BY <1>1, <1>4, <1>5, <1>9

\* A selection is a sequence of the same kind, of as many elements as positions.
LEMMA SelectType ==
  ASSUME NEW S, NEW s \in Seq(S), NEW K \in SUBSET (DOMAIN s)
  PROVE  Select(s, K) \in Seq(S) /\ Len(Select(s, K)) = Cardinality(K)
<1>1. K \in SUBSET (1..Len(s)) /\ Len(s) \in Nat
  BY LenProperties
<1>2. Cardinality(K) \in Nat
  BY <1>1, RankFacts
<1>3. ASSUME NEW r \in 1..Cardinality(K)
      PROVE  s[CHOOSE n \in K : Rank(K, n) = r] \in S
  <2>1. \E n \in K : Rank(K, n) = r
    BY <1>1, RankFacts
  <2>2. (CHOOSE n \in K : Rank(K, n) = r) \in K
    BY <2>1
  <2> QED BY <1>1, <2>2, ElementOfSeq
<1>4. Select(s, K) \in [1..Cardinality(K) -> S]
  BY <1>3 DEF Select
<1> QED BY <1>2, <1>4

\* Nothing is selected of an empty sequence.
LEMMA SelectEmpty == Select(<< >>, {}) = << >>
<1>1. 1..Cardinality({}) = {}
  BY FS_EmptySet
<1>2. Select(<< >>, {}) = [r \in {} |-> << >>[CHOOSE n \in {} : Rank({}, n) = r]]
  BY <1>1 DEF Select
<1> QED BY <1>2

\* A scan that has nothing left has been through the sequence.
LEMMA NothingLeft ==
  ASSUME NEW S, NEW s \in Seq(S), NEW done \in 0..Len(s),
         SubSeq(s, done + 1, Len(s)) = << >>
  PROVE  done = Len(s)
<1>1. PICK m \in Nat : m = Len(s)
  BY LenProperties
<1>2. Len(<< >>) = 0 /\ done \in 0..m
  BY <1>1
<1>3. ASSUME done < m
      PROVE  Len(SubSeq(s, done + 1, m)) = m - done
  <2>1. /\ done + 1 \in 1..(m + 1) /\ m \in (done + 1) - 1..m /\ done + 1 <= m
        /\ (m - (done + 1)) + 1 = m - done
    BY <1>2, <1>3
  <2> QED BY <1>1, <2>1, SubSeqProperties
<1>4. done < m => m - done = 0
  BY <1>1, <1>2, <1>3
<1>5. done = m
  BY <1>2, <1>4
<1> QED BY <1>1, <1>5

\* An element at the end that is not selected changes nothing.
LEMMA SelectWithout ==
  ASSUME NEW S, NEW s \in Seq(S), NEW e \in S, NEW K \in SUBSET (DOMAIN s)
  PROVE  Select(Append(s, e), K) = Select(s, K)
<1>1. K \in SUBSET (1..Len(s)) /\ Len(s) \in Nat
  BY LenProperties
<1> DEFINE at(r) == CHOOSE n \in K : Rank(K, n) = r
<1>2. ASSUME NEW r \in 1..Cardinality(K)
      PROVE  at(r) \in 1..Len(s)
  BY <1>1, RankFacts
<1>3. PICK t : t = Append(s, e)
  OBVIOUS
<1>7. \A n \in 1..Len(s) : t[n] = s[n]
  BY <1>3, AppendProperties
<1>4. Select(t, K) = [r \in 1..Cardinality(K) |-> t[at(r)]]
  BY DEF Select
<1>5. Select(s, K) = [r \in 1..Cardinality(K) |-> s[at(r)]]
  BY DEF Select
<1> HIDE DEF at
<1>6. \A r \in 1..Cardinality(K) : t[at(r)] = s[at(r)]
  BY <1>2, <1>7
<1> QED BY <1>3, <1>4, <1>5, <1>6

\* An element at the end that is selected comes last.
LEMMA SelectWith ==
  ASSUME NEW S, NEW s \in Seq(S), NEW e \in S, NEW K \in SUBSET (DOMAIN s)
  PROVE  Select(Append(s, e), K \cup {Len(s) + 1}) = Append(Select(s, K), e)
<1> DEFINE m == Len(s) + 1
           L == K \cup {m}
           t == Append(s, e)
           at(r)  == CHOOSE n \in K : Rank(K, n) = r
           att(r) == CHOOSE n \in L : Rank(L, n) = r
<1>1. K \in SUBSET (1..Len(s)) /\ Len(s) \in Nat /\ m \in Nat /\ m \notin K
  BY LenProperties
<1>2. L \in SUBSET (1..m)
  BY <1>1
<1> HIDE DEF L
<1>3. /\ \A n \in L : Rank(L, n) \in 1..Cardinality(L)
      /\ \A n, k \in L : Rank(L, n) = Rank(L, k) => n = k
      /\ \A r \in 1..Cardinality(L) : \E n \in L : Rank(L, n) = r
  BY <1>1, <1>2, RankFacts
<1>4. K \subseteq L /\ m \in L
  BY DEF L
<1>5. /\ IsFiniteSet(K) /\ Cardinality(K) \in Nat /\ Cardinality(L) = Cardinality(K) + 1
  BY <1>1, RankFacts, FS_AddElement DEF L
<1>6. \A n \in K : Rank(L, n) = Rank(K, n)
  <2> TAKE n \in K
  <2>1. {k \in L : k <= n} = {k \in K : k <= n}
    BY <1>1 DEF L
  <2> QED BY <2>1 DEF Rank
<1>7. Rank(L, m) = Cardinality(L)
  <2>1. {k \in L : k <= m} = L
    <3>1. \A k \in L : k <= m
      BY <1>1, <1>2
    <3> QED BY <3>1
  <2> QED BY <2>1 DEF Rank
<1>8. ASSUME NEW r \in 1..Cardinality(K)
      PROVE  att(r) = at(r) /\ at(r) \in 1..Len(s)
  <2>1. at(r) \in K /\ Rank(K, at(r)) = r
    BY <1>1, RankFacts
  <2>2. r \in 1..Cardinality(L)
    BY <1>5
  <2>3. att(r) \in L /\ Rank(L, att(r)) = r
    <3>1. \E n \in L : Rank(L, n) = r
      BY <1>3, <2>2
    <3> QED BY <3>1
  <2>4. Rank(L, at(r)) = r /\ at(r) \in L
    BY <1>6, <1>4, <2>1
  <2>5. att(r) = at(r)
    BY <1>3, <2>3, <2>4
  <2> QED BY <1>1, <2>1, <2>5
<1>9. att(Cardinality(L)) = m
  <2>1. Cardinality(L) \in 1..Cardinality(L)
    BY <1>5
  <2>2. att(Cardinality(L)) \in L /\ Rank(L, att(Cardinality(L))) = Cardinality(L)
    BY <1>3, <2>1
  <2> QED BY <1>7, <1>3, <1>4, <2>2
<1>10. /\ \A n \in 1..Len(s) : t[n] = s[n]
       /\ t[m] = e
  BY AppendProperties
<1>11. Select(s, K) \in Seq(S) /\ Len(Select(s, K)) = Cardinality(K)
  BY SelectType
<1>12. t \in Seq(S) /\ L \in SUBSET (DOMAIN t)
  BY <1>2, AppendProperties, LenProperties
<1>13. Select(t, L) \in Seq(S) /\ Len(Select(t, L)) = Cardinality(K) + 1
  BY <1>5, <1>12, SelectType
<1>14. /\ Append(Select(s, K), e) \in Seq(S)
       /\ Len(Append(Select(s, K), e)) = Cardinality(K) + 1
       /\ \A r \in 1..Cardinality(K) : Append(Select(s, K), e)[r] = Select(s, K)[r]
       /\ Append(Select(s, K), e)[Cardinality(K) + 1] = e
  BY <1>11, AppendProperties
<1>15. \A r \in 1..Cardinality(K) : Select(s, K)[r] = s[at(r)]
  BY DEF Select
<1>16. \A r \in 1..(Cardinality(K) + 1) : Select(t, L)[r] = t[att(r)]
  BY <1>5 DEF Select
<1>17. ASSUME NEW r \in 1..(Cardinality(K) + 1)
       PROVE  Select(t, L)[r] = Append(Select(s, K), e)[r]
  <2>1. CASE r \in 1..Cardinality(K)
    <3>1. t[att(r)] = s[at(r)]
      BY <1>8, <1>10, <2>1
    <3> QED BY <1>14, <1>15, <1>16, <2>1, <3>1
  <2>2. CASE r = Cardinality(K) + 1
    <3>1. att(r) = m
      BY <1>5, <1>9, <2>2
    <3> QED BY <1>10, <1>14, <1>16, <2>2, <3>1
  <2>3. r \in 1..Cardinality(K) \/ r = Cardinality(K) + 1
    BY <1>5
  <2> QED BY <2>1, <2>2, <2>3
<1> HIDE DEF t
<1>18. Select(t, L) = Append(Select(s, K), e)
  BY <1>13, <1>14, <1>17, SeqEqual
<1> QED BY <1>18 DEF t, L

-----------------------------------------------------------------------------
(* Where the elements of a selection come from.                             *)

\* The position the r-th element of a selection at K was at.
Place(K, r) == CHOOSE n \in K : Rank(K, n) = r

\* The places of a selection are the positions of K, each once.
LEMMA PlacesOfSet ==
  ASSUME NEW m \in Nat, NEW K \in SUBSET (1..m)
  PROVE  /\ \A r \in 1..Cardinality(K) : Place(K, r) \in K
         /\ \A r, q \in 1..Cardinality(K) : Place(K, r) = Place(K, q) => r = q
         /\ \A n \in K : \E r \in 1..Cardinality(K) : Place(K, r) = n
<1>1. /\ \A n \in K : Rank(K, n) \in 1..Cardinality(K)
      /\ \A n, k \in K : Rank(K, n) = Rank(K, k) => n = k
      /\ \A r \in 1..Cardinality(K) : \E n \in K : Rank(K, n) = r
  BY RankFacts
<1>2. ASSUME NEW r \in 1..Cardinality(K)
      PROVE  Place(K, r) \in K /\ Rank(K, Place(K, r)) = r
  <2>1. \E n \in K : Rank(K, n) = r
    BY <1>1
  <2> QED BY <2>1 DEF Place
<1>3. ASSUME NEW n \in K
      PROVE  Rank(K, n) \in 1..Cardinality(K) /\ Place(K, Rank(K, n)) = n
  BY <1>1, <1>2
<1> QED BY <1>2, <1>3

\* A selection has the elements at its places.
LEMMA SelectPlaces ==
  ASSUME NEW S, NEW s \in Seq(S), NEW K \in SUBSET (DOMAIN s)
  PROVE  /\ DOMAIN Select(s, K) = 1..Cardinality(K)
         /\ \A r \in 1..Cardinality(K) : Select(s, K)[r] = s[Place(K, r)]
BY DEF Select, Place
=============================================================================
