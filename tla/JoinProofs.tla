----------------------------- MODULE JoinProofs -----------------------------
(***************************************************************************)
(* Proofs about Joins: in whatever order the tuples of R, S and T come,    *)
(* the count kept per arrival is the size of their chain join, and each    *)
(* batch join gives each match of its columns once.                        *)
(***************************************************************************)
EXTENDS JoinInvariant, SelectionProofs

-----------------------------------------------------------------------------
(* What the sum over a bucket is.                                           *)

\* s is the sum of f over each of the first m prefixes of bucket.
Sums(s, f, bucket, m) == s = [n \in 0..m |-> IF n = 0 THEN 0 ELSE s[n - 1] + f[bucket[n]]]

\* There are such sums for every bucket,
LEMMA SumsExist ==
  ASSUME NEW f, NEW bucket, NEW m \in Nat
  PROVE  \E s : Sums(s, f, bucket, m)
<1> DEFINE bad == {k \in Nat : ~ \E s : Sums(s, f, bucket, k)}
<1>1. ASSUME bad # {}
      PROVE  FALSE
  <2>1. bad \in SUBSET Nat
    OBVIOUS
  <2> HIDE DEF bad
  <2>2. PICK k \in bad : \A j \in bad : k <= j
    BY <1>1, <2>1, LeastNumber
  <2>3. k \in Nat /\ (\A j \in 0..(k - 1) : j \notin bad)
    BY <2>1, <2>2
  <2>4. CASE k = 0
    <3>1. Sums([n \in 0..0 |-> 0], f, bucket, 0)
      BY DEF Sums
    <3> QED BY <2>4, <3>1, <2>2 DEF bad
  <2>5. CASE k # 0
    <3>1. k - 1 \in Nat /\ k - 1 \notin bad
      BY <2>3, <2>5
    <3>2. PICK s : Sums(s, f, bucket, k - 1)
      BY <3>1 DEF bad
    <3> DEFINE g == [n \in 0..k |-> IF n = k THEN s[k - 1] + f[bucket[k]] ELSE s[n]]
    <3>3. ASSUME NEW n \in 0..k
          PROVE  g[n] = IF n = 0 THEN 0 ELSE g[n - 1] + f[bucket[n]]
      <4>1. CASE n = k
        <5>1. g[n] = s[k - 1] + f[bucket[k]]
          BY <4>1
        <5>2. k - 1 \in 0..k /\ k - 1 # k
          BY <3>1, <2>3
        <5>3. g[k - 1] = s[k - 1]
          BY <5>2
        <5> HIDE DEF g
        <5> QED BY <4>1, <5>1, <5>3, <2>5
      <4>2. CASE n # k
        <5>1. n \in 0..(k - 1)
          BY <4>2, <2>3
        <5>2. g[n] = s[n]
          BY <4>2
        <5>3. s[n] = IF n = 0 THEN 0 ELSE s[n - 1] + f[bucket[n]]
          BY <3>2, <5>1 DEF Sums
        <5>4. n # 0 => n - 1 \in 0..k /\ n - 1 # k
          BY <5>1, <2>3
        <5>5. n # 0 => g[n - 1] = s[n - 1]
          BY <5>4
        <5> HIDE DEF g
        <5> QED BY <5>2, <5>3, <5>5
      <4> QED BY <4>1, <4>2
    <3>4. g = [n \in 0..k |-> g[n]]
      OBVIOUS
    <3> HIDE DEF g
    <3>5. Sums(g, f, bucket, k)
      BY <3>3, <3>4 DEF Sums
    <3> QED BY <3>5, <2>2 DEF bad
  <2> QED BY <2>4, <2>5
<1> QED BY <1>1

\* and the last is the sum over the bucket.
LEMMA SumIsLast ==
  ASSUME NEW f, NEW S, NEW bucket \in Seq(S)
  PROVE  \E s : Sums(s, f, bucket, Len(bucket)) /\ SumOf(f, bucket) = s[Len(bucket)]
<1>1. \E s : Sums(s, f, bucket, Len(bucket))
  BY SumsExist, LenProperties
<1>2. \E s : s = [n \in 0..Len(bucket) |-> IF n = 0 THEN 0 ELSE s[n - 1] + f[bucket[n]]]
  BY <1>1 DEF Sums
<1> DEFINE upTo == CHOOSE s : s = [n \in 0..Len(bucket) |->
                              IF n = 0 THEN 0 ELSE s[n - 1] + f[bucket[n]]]
<1>3. upTo = [n \in 0..Len(bucket) |-> IF n = 0 THEN 0 ELSE upTo[n - 1] + f[bucket[n]]]
  BY <1>2
<1>4. SumOf(f, bucket) = upTo[Len(bucket)]
  BY DEF SumOf
<1> HIDE DEF upTo
<1> QED BY <1>3, <1>4 DEF Sums

\* Two disjoint sets hold together what they hold.
LEMMA DisjointUnion ==
  ASSUME NEW A, NEW B, IsFiniteSet(A), IsFiniteSet(B), A \cap B = {}
  PROVE  IsFiniteSet(A \cup B) /\ Cardinality(A \cup B) = Cardinality(A) + Cardinality(B)
<1>1. /\ IsFiniteSet(A \cup B)
      /\ Cardinality(A \cup B) = Cardinality(A) + Cardinality(B) - Cardinality(A \cap B)
  BY FS_Union
<1>2. Cardinality(A \cap B) = 0
  BY FS_EmptySet
<1>3. Cardinality(A) \in Nat /\ Cardinality(B) \in Nat
  BY FS_CardinalityType
<1> QED BY <1>1, <1>2, <1>3

\* Disjoint sets, one for each entry of a bucket and of the size f has there, hold together as
\* many elements as the sum says.
LEMMA SumCounts ==
  ASSUME NEW S, NEW f \in [S -> Nat], NEW bucket \in Seq(S), NEW G,
         \A n \in 1..Len(bucket) : IsFiniteSet(G[n]) /\ Cardinality(G[n]) = f[bucket[n]],
         \A n, p \in 1..Len(bucket) : n # p => G[n] \cap G[p] = {},
         NEW all, \A x : x \in all <=> \E n \in 1..Len(bucket) : x \in G[n]
  PROVE  IsFiniteSet(all) /\ Cardinality(all) = SumOf(f, bucket)
<1>1. PICK m \in Nat : m = Len(bucket)
  BY LenProperties
<1>2. PICK s : Sums(s, f, bucket, m) /\ SumOf(f, bucket) = s[m]
  BY <1>1, SumIsLast
<1> DEFINE U(k) == UNION {G[n] : n \in 1..k}
           counted(k) == IsFiniteSet(U(k)) /\ Cardinality(U(k)) = s[k]
           bad == {k \in 0..m : ~ counted(k)}
<1>3. ASSUME bad # {}
      PROVE  FALSE
  <2>1. bad \in SUBSET Nat
    OBVIOUS
  <2>2. \A k \in bad : k \in 0..m /\ ~ counted(k)
    OBVIOUS
  <2>3. \A k \in 0..m : k \notin bad => counted(k)
    OBVIOUS
  <2> HIDE DEF bad
  <2>4. PICK k \in bad : \A j \in bad : k <= j
    BY <1>3, <2>1, LeastNumber
  <2>5. k \in Nat /\ k \in 0..m /\ (k # 0 => k \in 1..m /\ k - 1 \in 0..m /\ k - 1 \notin bad)
    <3>1. k \in Nat /\ k \in 0..m
      BY <2>1, <2>2, <2>4
    <3>2. k - 1 \notin bad
      BY <2>4, <3>1
    <3> QED BY <3>1, <3>2
  <2>6. CASE k = 0
    <3>1. U(0) = {}
      OBVIOUS
    <3>2. s[0] = 0
      BY <1>2 DEF Sums
    <3>3. counted(0)
      BY <3>1, <3>2, FS_EmptySet
    <3> QED BY <2>2, <2>4, <2>6, <3>3
  <2>7. CASE k # 0
    <3>1. counted(k - 1)
      BY <2>3, <2>5, <2>7
    <3>2. s[k] = s[k - 1] + f[bucket[k]]
      BY <1>2, <2>5, <2>7 DEF Sums
    <3>3. IsFiniteSet(G[k]) /\ Cardinality(G[k]) = f[bucket[k]]
      BY <1>1, <2>5, <2>7
    <3>4. U(k) = U(k - 1) \cup G[k]
      <4>1. \A n \in 1..k : n \in 1..(k - 1) \/ n = k
        BY <2>5
      <4>2. \A n \in 1..(k - 1) : n \in 1..k
        BY <2>5
      <4>3. k \in 1..k
        BY <2>5, <2>7
      <4> QED BY <4>1, <4>2, <4>3
    <3>5. U(k - 1) \cap G[k] = {}
      <4>1. \A n \in 1..(k - 1) : n \in 1..m /\ n # k
        BY <2>5
      <4>2. \A n \in 1..(k - 1) : G[n] \cap G[k] = {}
        BY <1>1, <2>5, <2>7, <4>1
      <4> QED BY <4>2
    <3> HIDE DEF U
    <3>6. /\ IsFiniteSet(U(k - 1) \cup G[k])
          /\ Cardinality(U(k - 1) \cup G[k]) = Cardinality(U(k - 1)) + Cardinality(G[k])
      BY <3>1, <3>3, <3>5, DisjointUnion
    <3>7. counted(k)
      BY <3>1, <3>2, <3>3, <3>4, <3>6
    <3> QED BY <2>2, <2>4, <3>7
  <2> QED BY <2>6, <2>7
<1>4. counted(m)
  <2>1. m \in 0..m
    OBVIOUS
  <2> QED BY <1>3, <2>1
<1>5. all = U(m)
  BY <1>1
<1> QED BY <1>2, <1>4, <1>5

\* Disjoint sets, one for each position in K and of the size f has for the key there, which
\* together hold all.
Blocks(B, f, col, K, all) ==
  /\ \A j \in K : IsFiniteSet(B[j]) /\ Cardinality(B[j]) = f[col[j]]
  /\ \A j, i \in K : j # i => B[j] \cap B[i] = {}
  /\ \A x : x \in all <=> \E j \in K : x \in B[j]

\* The same of sets named by the positions of a column where the bucket has its entries.
LEMMA BlocksCount ==
  ASSUME NEW S, NEW f \in [S -> Nat], NEW col \in Seq(S), NEW K \in SUBSET (DOMAIN col),
         NEW B, NEW all
  PROVE  Blocks(B, f, col, K, all) =>
           IsFiniteSet(all) /\ Cardinality(all) = SumOf(f, Select(col, K))
<1>1. PICK l \in Nat : l = Len(col) /\ DOMAIN col = 1..l
  BY LenProperties
<1>2. l \in Nat /\ K \in SUBSET (1..l)
  BY <1>1
<1>3. Cardinality(K) \in Nat
  BY <1>2, RankFacts
<1>4. PICK bucket : bucket = Select(col, K)
  OBVIOUS
<1>5. bucket \in Seq(S) /\ Len(bucket) = Cardinality(K)
  BY <1>4, SelectType
<1>6. \A n \in 1..Cardinality(K) : bucket[n] = col[Place(K, n)]
  BY <1>4, SelectPlaces
<1>7. /\ \A n \in 1..Cardinality(K) : Place(K, n) \in K
      /\ \A n, p \in 1..Cardinality(K) : Place(K, n) = Place(K, p) => n = p
      /\ \A j \in K : \E n \in 1..Cardinality(K) : Place(K, n) = j
  BY <1>2, PlacesOfSet, ZenonT(60)
<1>8. PICK G : G = [n \in 1..Cardinality(K) |-> B[Place(K, n)]]
  OBVIOUS
<1>9. (/\ \A n \in 1..Len(bucket) : IsFiniteSet(G[n]) /\ Cardinality(G[n]) = f[bucket[n]]
       /\ \A n, p \in 1..Len(bucket) : n # p => G[n] \cap G[p] = {}
       /\ \A x : x \in all <=> \E n \in 1..Len(bucket) : x \in G[n])
      => IsFiniteSet(all) /\ Cardinality(all) = SumOf(f, bucket)
  <2>1. f \in [S -> Nat] /\ bucket \in Seq(S)
    BY <1>5
  <2> QED BY <2>1, SumCounts, ZenonT(60)
<1> SUFFICES ASSUME \A j \in K : IsFiniteSet(B[j]) /\ Cardinality(B[j]) = f[col[j]],
                    \A j, i \in K : j # i => B[j] \cap B[i] = {},
                    \A x : x \in all <=> \E j \in K : x \in B[j]
             PROVE  IsFiniteSet(all) /\ Cardinality(all) = SumOf(f, Select(col, K))
  BY DEF Blocks
<1>10. \A n \in 1..Len(bucket) : IsFiniteSet(G[n]) /\ Cardinality(G[n]) = f[bucket[n]]
  BY <1>5, <1>6, <1>7, <1>8
<1>11. \A n, p \in 1..Len(bucket) : n # p => G[n] \cap G[p] = {}
  BY <1>5, <1>7, <1>8
<1>12. \A x : x \in all <=> \E n \in 1..Len(bucket) : x \in G[n]
  BY <1>5, <1>7, <1>8
<1> QED BY <1>4, <1>9, <1>10, <1>11, <1>12

-----------------------------------------------------------------------------
(* What an arrival adds to the join.                                        *)

\* The matches of one tuple of S with tuples of R and T.
Block(I, j, K) == {<< p[1], j, p[2] >> : p \in I \X K}

\* Its elements,
LEMMA BlockIn ==
  ASSUME NEW I, NEW j, NEW K, NEW x
  PROVE  x \in Block(I, j, K) <=> \E i \in I, k \in K : x = << i, j, k >>
<1>1. ASSUME x \in Block(I, j, K)
      PROVE  \E i \in I, k \in K : x = << i, j, k >>
  <2>1. PICK p \in I \X K : x = << p[1], j, p[2] >>
    BY <1>1 DEF Block
  <2> QED BY <2>1
<1>2. ASSUME NEW i \in I, NEW k \in K, x = << i, j, k >>
      PROVE  x \in Block(I, j, K)
  <2>1. << i, k >> \in I \X K /\ << i, k >>[1] = i /\ << i, k >>[2] = k
    OBVIOUS
  <2> QED BY <1>2, <2>1 DEF Block
<1> QED BY <1>1, <1>2

\* and how many they are.
LEMMA BlockSize ==
  ASSUME NEW I, NEW j, NEW K, IsFiniteSet(I), IsFiniteSet(K)
  PROVE  /\ IsFiniteSet(Block(I, j, K))
         /\ Cardinality(Block(I, j, K)) = Cardinality(I) * Cardinality(K)
<1>1. IsFiniteSet(I \X K) /\ Cardinality(I \X K) = Cardinality(I) * Cardinality(K)
  BY FS_Product
<1> DEFINE h == [p \in I \X K |-> << p[1], j, p[2] >>]
<1>2. h \in [I \X K -> Block(I, j, K)]
  BY DEF Block
<1>3. \A p, q \in I \X K : h[p] = h[q] => p = q
  <2> SUFFICES ASSUME NEW p \in I \X K, NEW q \in I \X K, h[p] = h[q] PROVE p = q
    OBVIOUS
  <2>1. << p[1], j, p[2] >> = << q[1], j, q[2] >>
    OBVIOUS
  <2>2. p[1] = q[1] /\ p[2] = q[2]
    BY <2>1
  <2> QED BY <2>2
<1>4. \A x \in Block(I, j, K) : \E p \in I \X K : h[p] = x
  BY DEF Block
<1> HIDE DEF h
<1>5. h \in Bijection(I \X K, Block(I, j, K))
  BY <1>2, <1>3, <1>4 DEF Bijection, Injection, Surjection, IsInjective
<1>6. ExistsBijection(I \X K, Block(I, j, K))
  BY <1>5 DEF ExistsBijection
<1> QED BY <1>1, <1>6, FS_Bijection

\* The matches of a join.
LEMMA MatchIn ==
  ASSUME NEW r, NEW s, NEW t, NEW x
  PROVE  x \in ChainMatches(r, s, t) <=>
           \E i \in DOMAIN r, j \in DOMAIN s, k \in DOMAIN t :
             x = << i, j, k >> /\ r[i] = s[j][1] /\ s[j][2] = t[k]
<1>1. ASSUME x \in ChainMatches(r, s, t)
      PROVE  \E i \in DOMAIN r, j \in DOMAIN s, k \in DOMAIN t :
               x = << i, j, k >> /\ r[i] = s[j][1] /\ s[j][2] = t[k]
  <2>1. /\ x \in (DOMAIN r) \X (DOMAIN s) \X (DOMAIN t)
        /\ r[x[1]] = s[x[2]][1] /\ s[x[2]][2] = t[x[3]]
    BY <1>1 DEF ChainMatches
  <2>2. /\ x[1] \in DOMAIN r /\ x[2] \in DOMAIN s /\ x[3] \in DOMAIN t
        /\ x = << x[1], x[2], x[3] >>
    BY <2>1
  <2> QED BY <2>1, <2>2
<1>2. ASSUME NEW i \in DOMAIN r, NEW j \in DOMAIN s, NEW k \in DOMAIN t,
             x = << i, j, k >>, r[i] = s[j][1], s[j][2] = t[k]
      PROVE  x \in ChainMatches(r, s, t)
  <2>1. x \in (DOMAIN r) \X (DOMAIN s) \X (DOMAIN t) /\ x[1] = i /\ x[2] = j /\ x[3] = k
    BY <1>2
  <2> QED BY <1>2, <2>1 DEF ChainMatches
<1> QED BY <1>1, <1>2

\* The positions of a key in a column are finitely many,
LEMMA HoldingFacts ==
  ASSUME NEW col \in Seq(JoinKeys), NEW k
  PROVE  /\ Holding(col, k) \in SUBSET (DOMAIN col)
         /\ IsFiniteSet(Holding(col, k)) /\ Cardinality(Holding(col, k)) \in Nat
<1>1. Len(col) \in Nat /\ DOMAIN col = 1..Len(col)
  BY LenProperties
<1>2. Holding(col, k) \in SUBSET (1..Len(col))
  BY <1>1 DEF Holding
<1> QED BY <1>1, <1>2, RankFacts

\* and a key at the end is one more of its own and of no other.
LEMMA HoldingNext ==
  ASSUME NEW col \in Seq(JoinKeys), NEW x \in JoinKeys, NEW k
  PROVE  /\ Holding(Append(col, x), k) =
              IF x = k THEN Holding(col, k) \cup {Len(col) + 1} ELSE Holding(col, k)
         /\ Cardinality(Holding(Append(col, x), k)) =
              IF x = k THEN Cardinality(Holding(col, k)) + 1 ELSE Cardinality(Holding(col, k))
<1>1. PICK l \in Nat : l = Len(col) /\ DOMAIN col = 1..l
  BY LenProperties
<1>2. PICK next : next = Append(col, x)
  OBVIOUS
<1>3. /\ DOMAIN next = 1..(l + 1) /\ next[l + 1] = x
      /\ \A n \in 1..l : next[n] = col[n]
  BY <1>1, <1>2, AppendProperties
<1>4. \A n : n \in 1..(l + 1) <=> n \in 1..l \/ n = l + 1
  BY <1>1
<1>5. Holding(next, k) = IF x = k THEN Holding(col, k) \cup {l + 1} ELSE Holding(col, k)
  BY <1>1, <1>3, <1>4 DEF Holding
<1>6. l + 1 \notin Holding(col, k)
  BY <1>1 DEF Holding
<1>7. Cardinality(Holding(col, k) \cup {l + 1}) = Cardinality(Holding(col, k)) + 1
  BY <1>6, HoldingFacts, FS_AddElement
<1> QED BY <1>1, <1>2, <1>5, <1>7

\* The two columns of S, and what a tuple at the end makes of them.
LEMMA ColumnFacts ==
  ASSUME NEW s \in Seq(JoinKeys \X JoinKeys), NEW n \in {1, 2}
  PROVE  /\ SColumn(s, n) \in Seq(JoinKeys) /\ DOMAIN SColumn(s, n) = DOMAIN s
         /\ Len(SColumn(s, n)) = Len(s)
         /\ \A j \in DOMAIN s : s[j][n] \in JoinKeys /\ SColumn(s, n)[j] = s[j][n]
<1>1. PICK l \in Nat : l = Len(s) /\ DOMAIN s = 1..l
  BY LenProperties
<1>2. \A j \in 1..l : s[j] \in JoinKeys \X JoinKeys
  BY <1>1, ElementOfSeq
<1>3. \A j \in 1..l : s[j][n] \in JoinKeys
  BY <1>2
<1>4. SColumn(s, n) \in [1..l -> JoinKeys]
  BY <1>1, <1>3 DEF SColumn
<1> QED BY <1>1, <1>3, <1>4 DEF SColumn

\* A column of S, after a tuple at the end.
LEMMA ColumnNext ==
  ASSUME NEW s \in Seq(JoinKeys \X JoinKeys), NEW e \in JoinKeys \X JoinKeys, NEW n \in {1, 2}
  PROVE  SColumn(Append(s, e), n) = Append(SColumn(s, n), e[n])
<1>1. PICK l \in Nat : l = Len(s) /\ DOMAIN s = 1..l
  BY LenProperties
<1>2. PICK next : next = Append(s, e)
  OBVIOUS
<1>3. /\ DOMAIN next = 1..(l + 1) /\ next[l + 1] = e
      /\ \A j \in 1..l : next[j] = s[j]
  BY <1>1, <1>2, AppendProperties
<1>4. PICK col \in Seq(JoinKeys) : /\ col = SColumn(s, n) /\ DOMAIN col = 1..l /\ Len(col) = l
                                   /\ \A j \in 1..l : col[j] = s[j][n]
  BY <1>1, ColumnFacts
<1>5. e[n] \in JoinKeys
  OBVIOUS
<1>6. PICK after : after = Append(col, e[n])
  OBVIOUS
<1>7. /\ after = [j \in 1..(l + 1) |-> after[j]] /\ after[l + 1] = e[n]
      /\ \A j \in 1..l : after[j] = col[j]
  <2>1. after \in Seq(JoinKeys) /\ Len(after) = l + 1
    BY <1>4, <1>5, <1>6, AppendProperties
  <2> QED BY <1>4, <1>5, <1>6, <2>1, AppendProperties
<1>8. \A j \in 1..(l + 1) : after[j] = next[j][n]
  <2>1. \A j \in 1..(l + 1) : j \in 1..l \/ j = l + 1
    BY <1>1
  <2> QED BY <1>3, <1>4, <1>7, <2>1
<1>9. SColumn(next, n) = [j \in 1..(l + 1) |-> next[j][n]]
  BY <1>3 DEF SColumn
<1> QED BY <1>2, <1>4, <1>6, <1>7, <1>8, <1>9

\* How many tuples of a column have each key.
Counts(col) == [k \in JoinKeys |-> Cardinality(Holding(col, k))]

\* The matches of a tuple of R, at i, with the entries of S at the positions K, whose keys for
\* T are in col; and those of a tuple of T, at k.
FromR(all, i, K, col, t) ==
  \A x : x \in all <=> \E j \in K : \E k \in Holding(t, col[j]) : x = << i, j, k >>
FromT(all, r, K, col, k) ==
  \A x : x \in all <=> \E j \in K : \E i \in Holding(r, col[j]) : x = << i, j, k >>

\* What a tuple adds to the join, named by its own position.
NewR(all, i, b, s, t) ==
  \A x : x \in all <=> \E j \in DOMAIN s, k \in DOMAIN t :
                         x = << i, j, k >> /\ b = s[j][1] /\ s[j][2] = t[k]
NewS(all, r, j, e, t) ==
  \A x : x \in all <=> \E i \in DOMAIN r, k \in DOMAIN t :
                         x = << i, j, k >> /\ r[i] = e[1] /\ e[2] = t[k]
NewT(all, r, s, c, k) ==
  \A x : x \in all <=> \E i \in DOMAIN r, j \in DOMAIN s :
                         x = << i, j, k >> /\ r[i] = s[j][1] /\ s[j][2] = c

\* The matches of a new tuple of R, at i, with entries of S at the positions K, whose keys for
\* T are in col: as many as the sum over the bucket.
LEMMA BlocksOfR ==
  ASSUME NEW col \in Seq(JoinKeys), NEW K \in SUBSET (DOMAIN col), NEW t \in Seq(JoinKeys), NEW i
  PROVE  \E all : /\ FromR(all, i, K, col, t)
                  /\ IsFiniteSet(all) /\ Cardinality(all) = SumOf(Counts(t), Select(col, K))
<1>1. Counts(t) \in [JoinKeys -> Nat]
  BY HoldingFacts DEF Counts
<1>2. PICK B : B = [j \in K |-> Block({i}, j, Holding(t, col[j]))]
  OBVIOUS
<1>3. PICK all : \A x : x \in all <=> \E j \in K : x \in B[j]
  <2>1. \A x : x \in UNION {B[j] : j \in K} <=> \E j \in K : x \in B[j]
    OBVIOUS
  <2> QED BY <2>1
<1>4. Blocks(B, Counts(t), col, K, all) =>
        IsFiniteSet(all) /\ Cardinality(all) = SumOf(Counts(t), Select(col, K))
  BY <1>1, BlocksCount
<1>5. \A j \in K : \A x : x \in B[j] <=> \E k \in Holding(t, col[j]) : x = << i, j, k >>
  BY <1>2, BlockIn
<1>6. ASSUME NEW j \in K
      PROVE  IsFiniteSet(B[j]) /\ Cardinality(B[j]) = Counts(t)[col[j]]
  <2>1. PICK H : H = Holding(t, col[j])
    OBVIOUS
  <2>2. IsFiniteSet(H) /\ Cardinality(H) \in Nat
    BY <2>1, HoldingFacts
  <2>3. IsFiniteSet({i}) /\ Cardinality({i}) = 1
    BY FS_Singleton
  <2>4. B[j] = Block({i}, j, H)
    BY <1>2, <2>1
  <2>5. IsFiniteSet(B[j]) /\ Cardinality(B[j]) = 1 * Cardinality(H)
    BY <2>2, <2>3, <2>4, BlockSize
  <2>6. col[j] \in JoinKeys
    BY ElementOfSeq, LenProperties
  <2>7. Counts(t)[col[j]] = Cardinality(H)
    BY <2>1, <2>6 DEF Counts
  <2> QED BY <2>2, <2>5, <2>7
<1>7. \A j, n \in K : j # n => B[j] \cap B[n] = {}
  <2>1. \A j \in K : \A x \in B[j] : x[2] = j
    BY <1>5
  <2> QED BY <2>1
<1>8. IsFiniteSet(all) /\ Cardinality(all) = SumOf(Counts(t), Select(col, K))
  BY <1>3, <1>4, <1>6, <1>7 DEF Blocks
<1>9. FromR(all, i, K, col, t)
  BY <1>3, <1>5 DEF FromR
<1> QED BY <1>8, <1>9

\* And those of a new tuple of T, at k.
LEMMA BlocksOfT ==
  ASSUME NEW col \in Seq(JoinKeys), NEW K \in SUBSET (DOMAIN col), NEW r \in Seq(JoinKeys), NEW k
  PROVE  \E all : /\ FromT(all, r, K, col, k)
                  /\ IsFiniteSet(all) /\ Cardinality(all) = SumOf(Counts(r), Select(col, K))
<1>1. Counts(r) \in [JoinKeys -> Nat]
  BY HoldingFacts DEF Counts
<1>2. PICK B : B = [j \in K |-> Block(Holding(r, col[j]), j, {k})]
  OBVIOUS
<1>3. PICK all : \A x : x \in all <=> \E j \in K : x \in B[j]
  <2>1. \A x : x \in UNION {B[j] : j \in K} <=> \E j \in K : x \in B[j]
    OBVIOUS
  <2> QED BY <2>1
<1>4. Blocks(B, Counts(r), col, K, all) =>
        IsFiniteSet(all) /\ Cardinality(all) = SumOf(Counts(r), Select(col, K))
  BY <1>1, BlocksCount
<1>5. \A j \in K : \A x : x \in B[j] <=> \E i \in Holding(r, col[j]) : x = << i, j, k >>
  BY <1>2, BlockIn
<1>6. ASSUME NEW j \in K
      PROVE  IsFiniteSet(B[j]) /\ Cardinality(B[j]) = Counts(r)[col[j]]
  <2>1. PICK H : H = Holding(r, col[j])
    OBVIOUS
  <2>2. IsFiniteSet(H) /\ Cardinality(H) \in Nat
    BY <2>1, HoldingFacts
  <2>3. IsFiniteSet({k}) /\ Cardinality({k}) = 1
    BY FS_Singleton
  <2>4. B[j] = Block(H, j, {k})
    BY <1>2, <2>1
  <2>5. IsFiniteSet(B[j]) /\ Cardinality(B[j]) = Cardinality(H) * 1
    BY <2>2, <2>3, <2>4, BlockSize
  <2>6. col[j] \in JoinKeys
    BY ElementOfSeq, LenProperties
  <2>7. Counts(r)[col[j]] = Cardinality(H)
    BY <2>1, <2>6 DEF Counts
  <2> QED BY <2>2, <2>5, <2>7
<1>7. \A j, n \in K : j # n => B[j] \cap B[n] = {}
  <2>1. \A j \in K : \A x \in B[j] : x[2] = j
    BY <1>5
  <2> QED BY <2>1
<1>8. IsFiniteSet(all) /\ Cardinality(all) = SumOf(Counts(r), Select(col, K))
  BY <1>3, <1>4, <1>6, <1>7 DEF Blocks
<1>9. FromT(all, r, K, col, k)
  BY <1>3, <1>5 DEF FromT
<1> QED BY <1>8, <1>9

\* A column after an element comes at its end.
LEMMA ColumnEnd ==
  ASSUME NEW S, NEW col \in Seq(S), NEW x \in S
  PROVE  /\ \A n : n \in DOMAIN Append(col, x) <=> n \in DOMAIN col \/ n = Len(col) + 1
         /\ Len(col) + 1 \notin DOMAIN col
         /\ Append(col, x)[Len(col) + 1] = x /\ \A n \in DOMAIN col : Append(col, x)[n] = col[n]
<1>1. PICK l \in Nat : l = Len(col) /\ DOMAIN col = 1..l
  BY LenProperties
<1>2. /\ DOMAIN Append(col, x) = 1..(l + 1) /\ Append(col, x)[l + 1] = x
      /\ \A n \in 1..l : Append(col, x)[n] = col[n]
  BY <1>1, AppendProperties
<1> QED BY <1>1, <1>2

\* A tuple of R brings a match for every entry of its bucket of S and every tuple of T with
\* the key of that entry.
LEMMA GrowR ==
  ASSUME NEW r \in Seq(JoinKeys), NEW s, NEW t, NEW b \in JoinKeys, NEW all
  PROVE  NewR(all, Len(r) + 1, b, s, t) =>
           /\ ChainMatches(Append(r, b), s, t) = ChainMatches(r, s, t) \cup all
           /\ ChainMatches(r, s, t) \cap all = {}
<1> SUFFICES ASSUME NewR(all, Len(r) + 1, b, s, t)
             PROVE  /\ ChainMatches(Append(r, b), s, t) = ChainMatches(r, s, t) \cup all
                    /\ ChainMatches(r, s, t) \cap all = {}
  OBVIOUS
<1>0. \A x : x \in all <=> \E j \in DOMAIN s, k \in DOMAIN t :
                             x = << Len(r) + 1, j, k >> /\ b = s[j][1] /\ s[j][2] = t[k]
  BY DEF NewR
<1>1. PICK l, next : l = Len(r) + 1 /\ next = Append(r, b)
  OBVIOUS
<1>2. /\ \A n : n \in DOMAIN next <=> n \in DOMAIN r \/ n = l
      /\ l \notin DOMAIN r /\ next[l] = b /\ \A n \in DOMAIN r : next[n] = r[n]
  BY <1>1, ColumnEnd
<1>3. ASSUME NEW x \in ChainMatches(next, s, t)
      PROVE  x \in ChainMatches(r, s, t) \/ x \in all
  <2>1. PICK i \in DOMAIN next, j \in DOMAIN s, k \in DOMAIN t :
          x = << i, j, k >> /\ next[i] = s[j][1] /\ s[j][2] = t[k]
    BY <1>3, MatchIn
  <2>2. CASE i \in DOMAIN r
    BY <1>2, <2>1, <2>2, MatchIn
  <2>3. CASE i = l
    BY <1>0, <1>1, <1>2, <2>1, <2>3
  <2> QED BY <1>2, <2>2, <2>3
<1>4. ASSUME NEW x \in ChainMatches(r, s, t)
      PROVE  x \in ChainMatches(next, s, t) /\ x \notin all
  <2>1. PICK i \in DOMAIN r, j \in DOMAIN s, k \in DOMAIN t :
          x = << i, j, k >> /\ r[i] = s[j][1] /\ s[j][2] = t[k]
    BY <1>4, MatchIn
  <2>2. i \in DOMAIN next /\ next[i] = r[i] /\ i # l
    BY <1>2
  <2>3. x \in ChainMatches(next, s, t)
    BY <2>1, <2>2, MatchIn
  <2> QED BY <1>0, <1>1, <2>1, <2>2, <2>3
<1>5. ASSUME NEW x \in all
      PROVE  x \in ChainMatches(next, s, t)
  <2>1. PICK j \in DOMAIN s, k \in DOMAIN t :
          x = << l, j, k >> /\ b = s[j][1] /\ s[j][2] = t[k]
    BY <1>0, <1>1, <1>5
  <2>2. l \in DOMAIN next /\ next[l] = b
    BY <1>2
  <2> QED BY <2>1, <2>2, MatchIn
<1> QED BY <1>1, <1>3, <1>4, <1>5

\* A tuple of S brings a match for every tuple of R and every tuple of T with its keys.
LEMMA GrowS ==
  ASSUME NEW r, NEW s \in Seq(JoinKeys \X JoinKeys), NEW t, NEW e \in JoinKeys \X JoinKeys,
         NEW all
  PROVE  NewS(all, r, Len(s) + 1, e, t) =>
           /\ ChainMatches(r, Append(s, e), t) = ChainMatches(r, s, t) \cup all
           /\ ChainMatches(r, s, t) \cap all = {}
<1> SUFFICES ASSUME NewS(all, r, Len(s) + 1, e, t)
             PROVE  /\ ChainMatches(r, Append(s, e), t) = ChainMatches(r, s, t) \cup all
                    /\ ChainMatches(r, s, t) \cap all = {}
  OBVIOUS
<1>0. \A x : x \in all <=> \E i \in DOMAIN r, k \in DOMAIN t :
                             x = << i, Len(s) + 1, k >> /\ r[i] = e[1] /\ e[2] = t[k]
  BY DEF NewS
<1>1. PICK l, next : l = Len(s) + 1 /\ next = Append(s, e)
  OBVIOUS
<1>2. /\ \A n : n \in DOMAIN next <=> n \in DOMAIN s \/ n = l
      /\ l \notin DOMAIN s /\ next[l] = e /\ \A n \in DOMAIN s : next[n] = s[n]
  BY <1>1, ColumnEnd
<1>3. ASSUME NEW x \in ChainMatches(r, next, t)
      PROVE  x \in ChainMatches(r, s, t) \/ x \in all
  <2>1. PICK i \in DOMAIN r, j \in DOMAIN next, k \in DOMAIN t :
          x = << i, j, k >> /\ r[i] = next[j][1] /\ next[j][2] = t[k]
    BY <1>3, MatchIn
  <2>2. CASE j \in DOMAIN s
    BY <1>2, <2>1, <2>2, MatchIn
  <2>3. CASE j = l
    BY <1>0, <1>1, <1>2, <2>1, <2>3
  <2> QED BY <1>2, <2>2, <2>3
<1>4. ASSUME NEW x \in ChainMatches(r, s, t)
      PROVE  x \in ChainMatches(r, next, t) /\ x \notin all
  <2>1. PICK i \in DOMAIN r, j \in DOMAIN s, k \in DOMAIN t :
          x = << i, j, k >> /\ r[i] = s[j][1] /\ s[j][2] = t[k]
    BY <1>4, MatchIn
  <2>2. j \in DOMAIN next /\ next[j] = s[j] /\ j # l
    BY <1>2
  <2>3. x \in ChainMatches(r, next, t)
    BY <2>1, <2>2, MatchIn
  <2> QED BY <1>0, <1>1, <2>1, <2>2, <2>3
<1>5. ASSUME NEW x \in all
      PROVE  x \in ChainMatches(r, next, t)
  <2>1. PICK i \in DOMAIN r, k \in DOMAIN t :
          x = << i, l, k >> /\ r[i] = e[1] /\ e[2] = t[k]
    BY <1>0, <1>1, <1>5
  <2>2. l \in DOMAIN next /\ next[l] = e
    BY <1>2
  <2> QED BY <2>1, <2>2, MatchIn
<1> QED BY <1>1, <1>3, <1>4, <1>5

\* A tuple of T brings a match for every entry of its bucket of S and every tuple of R with
\* the key of that entry.
LEMMA GrowT ==
  ASSUME NEW r, NEW s, NEW t \in Seq(JoinKeys), NEW c \in JoinKeys, NEW all
  PROVE  NewT(all, r, s, c, Len(t) + 1) =>
           /\ ChainMatches(r, s, Append(t, c)) = ChainMatches(r, s, t) \cup all
           /\ ChainMatches(r, s, t) \cap all = {}
<1> SUFFICES ASSUME NewT(all, r, s, c, Len(t) + 1)
             PROVE  /\ ChainMatches(r, s, Append(t, c)) = ChainMatches(r, s, t) \cup all
                    /\ ChainMatches(r, s, t) \cap all = {}
  OBVIOUS
<1>0. \A x : x \in all <=> \E i \in DOMAIN r, j \in DOMAIN s :
                             x = << i, j, Len(t) + 1 >> /\ r[i] = s[j][1] /\ s[j][2] = c
  BY DEF NewT
<1>1. PICK l, next : l = Len(t) + 1 /\ next = Append(t, c)
  OBVIOUS
<1>2. /\ \A n : n \in DOMAIN next <=> n \in DOMAIN t \/ n = l
      /\ l \notin DOMAIN t /\ next[l] = c /\ \A n \in DOMAIN t : next[n] = t[n]
  BY <1>1, ColumnEnd
<1>3. ASSUME NEW x \in ChainMatches(r, s, next)
      PROVE  x \in ChainMatches(r, s, t) \/ x \in all
  <2>1. PICK i \in DOMAIN r, j \in DOMAIN s, k \in DOMAIN next :
          x = << i, j, k >> /\ r[i] = s[j][1] /\ s[j][2] = next[k]
    BY <1>3, MatchIn
  <2>2. CASE k \in DOMAIN t
    BY <1>2, <2>1, <2>2, MatchIn
  <2>3. CASE k = l
    BY <1>0, <1>1, <1>2, <2>1, <2>3
  <2> QED BY <1>2, <2>2, <2>3
<1>4. ASSUME NEW x \in ChainMatches(r, s, t)
      PROVE  x \in ChainMatches(r, s, next) /\ x \notin all
  <2>1. PICK i \in DOMAIN r, j \in DOMAIN s, k \in DOMAIN t :
          x = << i, j, k >> /\ r[i] = s[j][1] /\ s[j][2] = t[k]
    BY <1>4, MatchIn
  <2>2. k \in DOMAIN next /\ next[k] = t[k] /\ k # l
    BY <1>2
  <2>3. x \in ChainMatches(r, s, next)
    BY <2>1, <2>2, MatchIn
  <2> QED BY <1>0, <1>1, <2>1, <2>2, <2>3
<1>5. ASSUME NEW x \in all
      PROVE  x \in ChainMatches(r, s, next)
  <2>1. PICK i \in DOMAIN r, j \in DOMAIN s :
          x = << i, j, l >> /\ r[i] = s[j][1] /\ s[j][2] = c
    BY <1>0, <1>1, <1>5
  <2>2. l \in DOMAIN next /\ next[l] = c
    BY <1>2
  <2> QED BY <2>1, <2>2, MatchIn
<1> QED BY <1>1, <1>3, <1>4, <1>5

\* The size of what is added is added to the size.
LEMMA CountNext ==
  ASSUME NEW old, NEW all, NEW next, IsFiniteSet(old), IsFiniteSet(all)
  PROVE  next = old \cup all /\ old \cap all = {} =>
           IsFiniteSet(next) /\ Cardinality(next) = Cardinality(old) + Cardinality(all)
BY DisjointUnion

\* The entries of the other column of S at the tuples that have key k in this one.
Bucket(s, key, other, k) == Select(SColumn(s, other), Holding(SColumn(s, key), k))

\* A set next of matches that holds n more than old.
Grows(old, next, n) == IsFiniteSet(next) /\ Cardinality(next) = Cardinality(old) + n

\* So a tuple of R adds the sum over its bucket of S,
LEMMA CountR ==
  ASSUME NEW r \in Seq(JoinKeys), NEW s \in Seq(JoinKeys \X JoinKeys), NEW t \in Seq(JoinKeys),
         NEW b \in JoinKeys, IsFiniteSet(ChainMatches(r, s, t))
  PROVE  Grows(ChainMatches(r, s, t), ChainMatches(Append(r, b), s, t),
               SumOf(Counts(t), Bucket(s, 1, 2, b)))
<1>1. PICK keys \in Seq(JoinKeys), col \in Seq(JoinKeys) :
        /\ keys = SColumn(s, 1) /\ col = SColumn(s, 2)
        /\ DOMAIN keys = DOMAIN s /\ DOMAIN col = DOMAIN s
        /\ \A j \in DOMAIN s : keys[j] = s[j][1] /\ col[j] = s[j][2]
  BY ColumnFacts
<1>2. PICK K : K = Holding(keys, b)
  OBVIOUS
<1>3. K \in SUBSET (DOMAIN col)
  BY <1>1, <1>2, HoldingFacts
<1>4. PICK i : i = Len(r) + 1
  OBVIOUS
<1>5. PICK all : /\ FromR(all, i, K, col, t)
                 /\ IsFiniteSet(all) /\ Cardinality(all) = SumOf(Counts(t), Select(col, K))
  BY <1>3, BlocksOfR
<1>6. NewR(all, i, b, s, t)
  BY <1>1, <1>2, <1>5 DEF Holding, FromR, NewR
<1>7. /\ ChainMatches(Append(r, b), s, t) = ChainMatches(r, s, t) \cup all
      /\ ChainMatches(r, s, t) \cap all = {}
  BY <1>4, <1>6, GrowR
<1>8. PICK old, next : old = ChainMatches(r, s, t) /\ next = ChainMatches(Append(r, b), s, t)
  OBVIOUS
<1>9. IsFiniteSet(next) /\ Cardinality(next) = Cardinality(old) + Cardinality(all)
  BY <1>5, <1>7, <1>8, CountNext
<1>10. Bucket(s, 1, 2, b) = Select(col, K)
  BY <1>1, <1>2 DEF Bucket
<1> QED BY <1>5, <1>8, <1>9, <1>10 DEF Grows

\* How many pairs of a tuple of R and one of T a tuple of S meets.
Met(r, t, e) == Counts(r)[e[1]] * Counts(t)[e[2]]

\* a tuple of S the product of what its two keys hold,
LEMMA CountS ==
  ASSUME NEW r \in Seq(JoinKeys), NEW s \in Seq(JoinKeys \X JoinKeys), NEW t \in Seq(JoinKeys),
         NEW e \in JoinKeys \X JoinKeys, IsFiniteSet(ChainMatches(r, s, t))
  PROVE  Grows(ChainMatches(r, s, t), ChainMatches(r, Append(s, e), t), Met(r, t, e))
<1>1. PICK b \in JoinKeys, c \in JoinKeys : b = e[1] /\ c = e[2]
  OBVIOUS
<1>2. e[1] = b /\ e[2] = c
  BY <1>1
<1>3. PICK H, K : H = Holding(r, b) /\ K = Holding(t, c)
  OBVIOUS
<1>4. IsFiniteSet(H) /\ IsFiniteSet(K)
  BY <1>3, HoldingFacts
<1>5. PICK j : j = Len(s) + 1
  OBVIOUS
<1>6. PICK all : all = Block(H, j, K)
  OBVIOUS
<1>7. IsFiniteSet(all) /\ Cardinality(all) = Cardinality(H) * Cardinality(K)
  BY <1>4, <1>6, BlockSize
<1>8. \A x : x \in all <=> \E i \in H, k \in K : x = << i, j, k >>
  BY <1>6, BlockIn
<1>9. NewS(all, r, j, e, t)
  <2>1. \A n : n \in H <=> n \in DOMAIN r /\ r[n] = b
    BY <1>3 DEF Holding
  <2>2. \A n : n \in K <=> n \in DOMAIN t /\ t[n] = c
    BY <1>3 DEF Holding
  <2> QED BY <1>2, <1>8, <2>1, <2>2 DEF NewS
<1>10. /\ ChainMatches(r, Append(s, e), t) = ChainMatches(r, s, t) \cup all
      /\ ChainMatches(r, s, t) \cap all = {}
  BY <1>5, <1>9, GrowS
<1>11. Counts(r)[b] = Cardinality(H) /\ Counts(t)[c] = Cardinality(K)
  BY <1>1, <1>3 DEF Counts
<1>12. PICK old, next : old = ChainMatches(r, s, t) /\ next = ChainMatches(r, Append(s, e), t)
  OBVIOUS
<1>13. IsFiniteSet(next) /\ Cardinality(next) = Cardinality(old) + Cardinality(all)
  BY <1>7, <1>10, <1>12, CountNext
<1> QED BY <1>2, <1>7, <1>11, <1>12, <1>13 DEF Met, Grows

\* and a tuple of T the sum over its bucket of S.
LEMMA CountT ==
  ASSUME NEW r \in Seq(JoinKeys), NEW s \in Seq(JoinKeys \X JoinKeys), NEW t \in Seq(JoinKeys),
         NEW c \in JoinKeys, IsFiniteSet(ChainMatches(r, s, t))
  PROVE  Grows(ChainMatches(r, s, t), ChainMatches(r, s, Append(t, c)),
               SumOf(Counts(r), Bucket(s, 2, 1, c)))
<1>1. PICK keys \in Seq(JoinKeys), col \in Seq(JoinKeys) :
        /\ keys = SColumn(s, 2) /\ col = SColumn(s, 1)
        /\ DOMAIN keys = DOMAIN s /\ DOMAIN col = DOMAIN s
        /\ \A j \in DOMAIN s : keys[j] = s[j][2] /\ col[j] = s[j][1]
  BY ColumnFacts
<1>2. PICK K : K = Holding(keys, c)
  OBVIOUS
<1>3. K \in SUBSET (DOMAIN col)
  BY <1>1, <1>2, HoldingFacts
<1>4. PICK k : k = Len(t) + 1
  OBVIOUS
<1>5. PICK all : /\ FromT(all, r, K, col, k)
                 /\ IsFiniteSet(all) /\ Cardinality(all) = SumOf(Counts(r), Select(col, K))
  BY <1>3, BlocksOfT
<1>6. NewT(all, r, s, c, k)
  BY <1>1, <1>2, <1>5 DEF Holding, FromT, NewT
<1>7. /\ ChainMatches(r, s, Append(t, c)) = ChainMatches(r, s, t) \cup all
      /\ ChainMatches(r, s, t) \cap all = {}
  BY <1>4, <1>6, GrowT
<1>8. PICK old, next : old = ChainMatches(r, s, t) /\ next = ChainMatches(r, s, Append(t, c))
  OBVIOUS
<1>9. IsFiniteSet(next) /\ Cardinality(next) = Cardinality(old) + Cardinality(all)
  BY <1>5, <1>7, <1>8, CountNext
<1>10. Bucket(s, 2, 1, c) = Select(col, K)
  BY <1>1, <1>2 DEF Bucket
<1> QED BY <1>5, <1>8, <1>9, <1>10 DEF Grows

\* A bucket of S after a tuple of S.
LEMMA BucketNext ==
  ASSUME NEW s \in Seq(JoinKeys \X JoinKeys), NEW e \in JoinKeys \X JoinKeys,
         NEW key \in {1, 2}, NEW other \in {1, 2}, NEW k
  PROVE  Bucket(Append(s, e), key, other, k) =
           IF e[key] = k THEN Append(Bucket(s, key, other, k), e[other])
           ELSE Bucket(s, key, other, k)
<1>1. PICK keys \in Seq(JoinKeys), col \in Seq(JoinKeys) :
        /\ keys = SColumn(s, key) /\ col = SColumn(s, other)
        /\ DOMAIN keys = DOMAIN col /\ Len(keys) = Len(col)
  BY ColumnFacts
<1>2. PICK a \in JoinKeys, c \in JoinKeys : a = e[key] /\ c = e[other]
  OBVIOUS
<1>3. /\ SColumn(Append(s, e), key) = Append(keys, a)
      /\ SColumn(Append(s, e), other) = Append(col, c)
  BY <1>1, <1>2, ColumnNext
<1>4. PICK K : K = Holding(keys, k)
  OBVIOUS
<1>5. K \in SUBSET (DOMAIN col)
  BY <1>1, <1>4, HoldingFacts
<1>6. Holding(Append(keys, a), k) = IF a = k THEN K \cup {Len(col) + 1} ELSE K
  BY <1>1, <1>4, HoldingNext
<1>7. Select(Append(col, c), K) = Select(col, K)
  BY <1>5, SelectWithout, SMTT(30)
<1>8. Select(Append(col, c), K \cup {Len(col) + 1}) = Append(Select(col, K), c)
  BY <1>5, SelectWith, SMTT(30)
<1>9. Bucket(s, key, other, k) = Select(col, K)
  BY <1>1, <1>4 DEF Bucket
<1>10. Bucket(Append(s, e), key, other, k) =
         Select(Append(col, c), IF a = k THEN K \cup {Len(col) + 1} ELSE K)
  BY <1>3, <1>6 DEF Bucket
<1>11. CASE a = k
  BY <1>2, <1>8, <1>9, <1>10, <1>11
<1>12. CASE a # k
  BY <1>2, <1>7, <1>9, <1>10, <1>12
<1> QED BY <1>11, <1>12

\* Both buckets, by the keys of the tuple.
LEMMA BucketsNext ==
  ASSUME NEW s \in Seq(JoinKeys \X JoinKeys), NEW b \in JoinKeys, NEW c \in JoinKeys, NEW k
  PROVE  /\ Bucket(Append(s, << b, c >>), 1, 2, k) =
              IF b = k THEN Append(Bucket(s, 1, 2, k), c) ELSE Bucket(s, 1, 2, k)
         /\ Bucket(Append(s, << b, c >>), 2, 1, k) =
              IF c = k THEN Append(Bucket(s, 2, 1, k), b) ELSE Bucket(s, 2, 1, k)
<1>1. PICK e \in JoinKeys \X JoinKeys : e = << b, c >>
  OBVIOUS
<1>2. PICK one \in {1, 2}, two \in {1, 2} : one = 1 /\ two = 2
  OBVIOUS
<1>3. e[one] = b /\ e[two] = c
  BY <1>1, <1>2
<1>4. Bucket(Append(s, e), one, two, k) =
        IF b = k THEN Append(Bucket(s, one, two, k), c) ELSE Bucket(s, one, two, k)
  BY <1>1, <1>2, <1>3, BucketNext, SMTT(30)
<1>5. Bucket(Append(s, e), two, one, k) =
        IF c = k THEN Append(Bucket(s, two, one, k), b) ELSE Bucket(s, two, one, k)
  BY <1>1, <1>2, <1>3, BucketNext, SMTT(30)
<1> QED BY <1>1, <1>2, <1>4, <1>5

-----------------------------------------------------------------------------
(* The inductive invariant holds.                                           *)

\* It holds before the first tuple.
LEMMA JoinInvInit == JoinInit => JoinInv
<1> SUFFICES ASSUME JoinInit PROVE JoinInv
  OBVIOUS
<1>1. rIn = << >> /\ sIn = << >> /\ tIn = << >> /\ emitted = 0
  BY DEF JoinInit
<1>2. JoinTypeInv
  BY <1>1 DEF JoinTypeInv
<1>3. \A k : Holding(<< >>, k) = {}
  BY DEF Holding
<1>4. CountersInv
  BY <1>1, <1>3, FS_EmptySet DEF CountersInv, JoinInit
<1>5. SColumn(<< >>, 1) = << >> /\ SColumn(<< >>, 2) = << >>
  BY DEF SColumn
<1>6. BucketsInv
  BY <1>1, <1>3, <1>5, SelectEmpty DEF BucketsInv, JoinInit
<1>7. ChainMatches(<< >>, << >>, << >>) = {}
  BY DEF ChainMatches
<1> QED BY <1>1, <1>2, <1>4, <1>6, <1>7, FS_EmptySet DEF JoinInv, ChainExact

\* A counter after a tuple with a key.
LEMMA CounterNext ==
  ASSUME NEW col \in Seq(JoinKeys), NEW x \in JoinKeys
  PROVE  [Counts(col) EXCEPT ![x] = @ + 1] = Counts(Append(col, x))
<1>1. \A k \in JoinKeys : Cardinality(Holding(Append(col, x), k)) =
        IF x = k THEN Cardinality(Holding(col, k)) + 1 ELSE Cardinality(Holding(col, k))
  BY HoldingNext
<1> QED BY <1>1 DEF Counts

\* The invariant, with the counters as functions of the columns.
LEMMA JoinInvParts ==
  JoinInv <=> /\ JoinTypeInv /\ BucketsInv
              /\ rByB = Counts(rIn) /\ tByC = Counts(tIn)
              /\ IsFiniteSet(ChainMatches(rIn, sIn, tIn))
              /\ emitted = Cardinality(ChainMatches(rIn, sIn, tIn))
BY DEF JoinInv, CountersInv, Counts, ChainExact

\* The same of the state after a step.
LEMMA JoinInvPartsNext ==
  JoinInv' <=> /\ JoinTypeInv' /\ BucketsInv'
               /\ rByB' = Counts(rIn') /\ tByC' = Counts(tIn')
               /\ IsFiniteSet(ChainMatches(rIn', sIn', tIn'))
               /\ emitted' = Cardinality(ChainMatches(rIn', sIn', tIn'))
BY DEF JoinInv, CountersInv, Counts, ChainExact

\* A tuple of R keeps it.
LEMMA ArriveRStep ==
  ASSUME JoinInv, NEW b \in JoinKeys, ArriveR(b)
  PROVE  JoinInv'
<1>1. /\ JoinTypeInv /\ BucketsInv /\ rByB = Counts(rIn) /\ tByC = Counts(tIn)
      /\ IsFiniteSet(ChainMatches(rIn, sIn, tIn))
      /\ emitted = Cardinality(ChainMatches(rIn, sIn, tIn))
  BY JoinInvParts
<1>2. /\ rIn' = Append(rIn, b) /\ sIn' = sIn /\ tIn' = tIn
      /\ rByB' = [rByB EXCEPT ![b] = @ + 1] /\ tByC' = tByC /\ sByB' = sByB /\ sByC' = sByC
      /\ emitted' = emitted + SumOf(tByC, sByB[b])
  BY DEF ArriveR
<1>3. rIn \in Seq(JoinKeys) /\ sIn \in Seq(JoinKeys \X JoinKeys) /\ tIn \in Seq(JoinKeys)
  BY <1>1 DEF JoinTypeInv
<1>4. sByB[b] = Bucket(sIn, 1, 2, b)
  BY <1>1 DEF BucketsInv, Bucket
<1>5. /\ IsFiniteSet(ChainMatches(rIn', sIn', tIn'))
      /\ emitted' = Cardinality(ChainMatches(rIn', sIn', tIn'))
  <2>1. Grows(ChainMatches(rIn, sIn, tIn), ChainMatches(Append(rIn, b), sIn, tIn),
              SumOf(Counts(tIn), Bucket(sIn, 1, 2, b)))
    BY <1>1, <1>3, CountR
  <2> QED BY <1>1, <1>2, <1>4, <2>1 DEF Grows
<1>6. emitted' \in Nat
  BY <1>5, FS_CardinalityType
<1>7. rByB' = Counts(rIn') /\ tByC' = Counts(tIn')
  BY <1>1, <1>2, <1>3, CounterNext
<1>8. JoinTypeInv'
  BY <1>2, <1>3, <1>6, AppendProperties DEF JoinTypeInv
<1>9. BucketsInv'
  BY <1>1, <1>2 DEF BucketsInv
<1> QED BY <1>5, <1>7, <1>8, <1>9, JoinInvPartsNext

\* So does one of S,
LEMMA ArriveSStep ==
  ASSUME JoinInv, NEW b \in JoinKeys, NEW c \in JoinKeys, ArriveS(b, c)
  PROVE  JoinInv'
<1>1. /\ JoinTypeInv /\ BucketsInv /\ rByB = Counts(rIn) /\ tByC = Counts(tIn)
      /\ IsFiniteSet(ChainMatches(rIn, sIn, tIn))
      /\ emitted = Cardinality(ChainMatches(rIn, sIn, tIn))
  BY JoinInvParts
<1>2. /\ sIn' = Append(sIn, << b, c >>) /\ rIn' = rIn /\ tIn' = tIn
      /\ sByB' = [sByB EXCEPT ![b] = Append(@, c)] /\ sByC' = [sByC EXCEPT ![c] = Append(@, b)]
      /\ rByB' = rByB /\ tByC' = tByC
      /\ emitted' = emitted + rByB[b] * tByC[c]
  BY DEF ArriveS
<1>3. rIn \in Seq(JoinKeys) /\ sIn \in Seq(JoinKeys \X JoinKeys) /\ tIn \in Seq(JoinKeys)
  BY <1>1 DEF JoinTypeInv
<1>4. /\ IsFiniteSet(ChainMatches(rIn', sIn', tIn'))
      /\ emitted' = Cardinality(ChainMatches(rIn', sIn', tIn'))
  <2>1. PICK e \in JoinKeys \X JoinKeys : e = << b, c >>
    OBVIOUS
  <2>2. Grows(ChainMatches(rIn, sIn, tIn), ChainMatches(rIn, Append(sIn, e), tIn),
              Met(rIn, tIn, e))
    BY <1>1, <1>3, <2>1, CountS
  <2>3. Met(rIn, tIn, e) = rByB[b] * tByC[c]
    BY <1>1, <2>1 DEF Met
  <2> QED BY <1>1, <1>2, <2>1, <2>2, <2>3 DEF Grows
<1>5. emitted' \in Nat
  BY <1>4, FS_CardinalityType
<1>6. JoinTypeInv'
  <2>1. << b, c >> \in JoinKeys \X JoinKeys
    OBVIOUS
  <2> QED BY <1>2, <1>3, <1>5, <2>1, AppendProperties DEF JoinTypeInv
<1>7. BucketsInv'
  <2>0. PICK s1 \in Seq(JoinKeys \X JoinKeys) : s1 = sIn
    BY <1>3
  <2>1. PICK s2 : s2 = Append(s1, << b, c >>)
    OBVIOUS
  <2>2. ASSUME NEW k
        PROVE  /\ Bucket(s2, 1, 2, k) =
                    IF b = k THEN Append(Bucket(s1, 1, 2, k), c) ELSE Bucket(s1, 1, 2, k)
               /\ Bucket(s2, 2, 1, k) =
                    IF c = k THEN Append(Bucket(s1, 2, 1, k), b) ELSE Bucket(s1, 2, 1, k)
    <3>1. /\ Bucket(Append(s1, << b, c >>), 1, 2, k) =
               IF b = k THEN Append(Bucket(s1, 1, 2, k), c) ELSE Bucket(s1, 1, 2, k)
          /\ Bucket(Append(s1, << b, c >>), 2, 1, k) =
               IF c = k THEN Append(Bucket(s1, 2, 1, k), b) ELSE Bucket(s1, 2, 1, k)
      BY <2>0, BucketsNext
    <3> QED BY <2>1, <3>1
  <2>3. sIn' = s2
    BY <1>2, <2>0, <2>1
  <2>4. /\ sByB = [k \in JoinKeys |-> Bucket(s1, 1, 2, k)]
        /\ sByC = [k \in JoinKeys |-> Bucket(s1, 2, 1, k)]
    BY <1>1, <2>0 DEF BucketsInv, Bucket
  <2>5. sByB' = [k \in JoinKeys |-> Bucket(s2, 1, 2, k)]
    BY <1>2, <2>2, <2>4
  <2>6. sByC' = [k \in JoinKeys |-> Bucket(s2, 2, 1, k)]
    BY <1>2, <2>2, <2>4
  <2> QED BY <2>3, <2>5, <2>6 DEF BucketsInv, Bucket
<1> QED BY <1>1, <1>2, <1>4, <1>6, <1>7, JoinInvPartsNext

\* and one of T.
LEMMA ArriveTStep ==
  ASSUME JoinInv, NEW c \in JoinKeys, ArriveT(c)
  PROVE  JoinInv'
<1>1. /\ JoinTypeInv /\ BucketsInv /\ rByB = Counts(rIn) /\ tByC = Counts(tIn)
      /\ IsFiniteSet(ChainMatches(rIn, sIn, tIn))
      /\ emitted = Cardinality(ChainMatches(rIn, sIn, tIn))
  BY JoinInvParts
<1>2. /\ tIn' = Append(tIn, c) /\ rIn' = rIn /\ sIn' = sIn
      /\ tByC' = [tByC EXCEPT ![c] = @ + 1] /\ rByB' = rByB /\ sByB' = sByB /\ sByC' = sByC
      /\ emitted' = emitted + SumOf(rByB, sByC[c])
  BY DEF ArriveT
<1>3. rIn \in Seq(JoinKeys) /\ sIn \in Seq(JoinKeys \X JoinKeys) /\ tIn \in Seq(JoinKeys)
  BY <1>1 DEF JoinTypeInv
<1>4. sByC[c] = Bucket(sIn, 2, 1, c)
  BY <1>1 DEF BucketsInv, Bucket
<1>5. /\ IsFiniteSet(ChainMatches(rIn', sIn', tIn'))
      /\ emitted' = Cardinality(ChainMatches(rIn', sIn', tIn'))
  <2>1. Grows(ChainMatches(rIn, sIn, tIn), ChainMatches(rIn, sIn, Append(tIn, c)),
              SumOf(Counts(rIn), Bucket(sIn, 2, 1, c)))
    BY <1>1, <1>3, CountT
  <2> QED BY <1>1, <1>2, <1>4, <2>1 DEF Grows
<1>6. emitted' \in Nat
  BY <1>5, FS_CardinalityType
<1>7. rByB' = Counts(rIn') /\ tByC' = Counts(tIn')
  BY <1>1, <1>2, <1>3, CounterNext
<1>8. JoinTypeInv'
  BY <1>2, <1>3, <1>6, AppendProperties DEF JoinTypeInv
<1>9. BucketsInv'
  BY <1>1, <1>2 DEF BucketsInv
<1> QED BY <1>5, <1>7, <1>8, <1>9, JoinInvPartsNext

\* Every step keeps it.
LEMMA JoinInvStep == JoinInv /\ [JoinNext]_joinVars => JoinInv'
<1> SUFFICES ASSUME JoinInv, [JoinNext]_joinVars PROVE JoinInv'
  OBVIOUS
<1>1. CASE JoinNext
  BY <1>1, ArriveRStep, ArriveSStep, ArriveTStep DEF JoinNext
<1>2. CASE UNCHANGED joinVars
  BY <1>2 DEF joinVars, JoinInv, JoinTypeInv, CountersInv, BucketsInv, ChainExact
<1> QED BY <1>1, <1>2

\* The buckets of the streaming join hold what has arrived, and the count is the size of the
\* join of it.
THEOREM JoinsInvariant == JoinSpec => []JoinInv
BY JoinInvInit, JoinInvStep, PTL DEF JoinSpec

\* ChainExact, for every number of keys and tuples and every order of arrival.
THEOREM ChainExactHolds == JoinSpec => []ChainExact
<1>1. JoinInv => ChainExact
  BY DEF JoinInv
<1> QED BY <1>1, JoinsInvariant, PTL

-----------------------------------------------------------------------------
(* The batch joins: sequences that list a set.                              *)

\* out has every element of S once and nothing else.
Lists(out, S) == /\ out \in Seq(S)
                 /\ \A p, q \in DOMAIN out : out[p] = out[q] => p = q
                 /\ \A x \in S : \E p \in DOMAIN out : out[p] = x

\* A function on 1..m that is one to one and onto lists its range.
OneToOne(out, m, S) == /\ out \in [1..m -> S]
                       /\ \A p, q \in 1..m : out[p] = out[q] => p = q
                       /\ \A x \in S : \E p \in 1..m : out[p] = x

\* It lists them.
LEMMA ListsFunction ==
  ASSUME NEW S, NEW m \in Nat, NEW out, OneToOne(out, m, S)
  PROVE  Lists(out, S)
<1>1. out \in Seq(S) /\ DOMAIN out = 1..m
  BY SeqDef DEF OneToOne
<1> QED BY <1>1 DEF Lists, OneToOne

\* A sequence that lists the matches gives them as the joins should, each once.
LEMMA ListsOnce ==
  ASSUME NEW S, NEW out, Lists(out, S)
  PROVE  Once(out, S)
<1>1. out \in Seq(S)
  BY DEF Lists
<1>2. PICK m \in Nat : m = Len(out) /\ DOMAIN out = 1..m /\ out \in [1..m -> S]
  BY <1>1, LenProperties, SeqDef
<1>3. ToSet(out) = S
  BY <1>2 DEF Lists, ToSet
<1>4. out \in Bijection(1..m, S)
  BY <1>2 DEF Lists, Bijection, Injection, Surjection, IsInjective
<1>5. ExistsBijection(1..m, S)
  BY <1>4 DEF ExistsBijection
<1>6. IsFiniteSet(1..m) /\ Cardinality(1..m) = m
  BY FS_Interval
<1>7. Cardinality(S) = m
  BY <1>5, <1>6, FS_Bijection
<1> QED BY <1>2, <1>3, <1>7 DEF Once

\* The empty sequence lists the empty set.
LEMMA ListsNothing == Lists(<< >>, {})
BY DEF Lists

\* Two listings of disjoint sets, one after the other.
LEMMA ListsConcat ==
  ASSUME NEW A, NEW B, NEW o, NEW u, Lists(o, A), Lists(u, B), A \cap B = {}
  PROVE  Lists(o \o u, A \cup B)
<1>1. PICK C : C = A \cup B
  OBVIOUS
<1>2. o \in Seq(A) /\ u \in Seq(B)
  BY DEF Lists
<1>3. PICK m \in Nat : m = Len(o) /\ DOMAIN o = 1..m /\ \A p \in 1..m : o[p] \in A
  BY <1>2, LenProperties, ElementOfSeq
<1>4. PICK n \in Nat : n = Len(u) /\ DOMAIN u = 1..n /\ \A p \in 1..n : u[p] \in B
  BY <1>2, LenProperties, ElementOfSeq
<1>5. o \in Seq(C) /\ u \in Seq(C)
  BY <1>1, <1>2
<1>6. /\ o \o u \in Seq(C)
      /\ Len(o \o u) = m + n
      /\ \A p \in 1..(m + n) : (o \o u)[p] = IF p <= m THEN o[p] ELSE u[p - m]
  BY <1>3, <1>4, <1>5, ConcatProperties
<1>7. PICK t : t = o \o u
  OBVIOUS
<1>8. DOMAIN t = 1..(m + n)
  BY <1>6, <1>7, LenProperties
<1>9. ASSUME NEW p \in 1..(m + n), NEW q \in 1..(m + n), t[p] = t[q]
      PROVE  p = q
  <2>1. \A x, y \in 1..m : o[x] = o[y] => x = y
    BY <1>3 DEF Lists
  <2>2. \A x, y \in 1..n : u[x] = u[y] => x = y
    BY <1>4 DEF Lists
  <2>3. CASE p <= m /\ q <= m
    <3>1. t[p] = o[p] /\ t[q] = o[q] /\ p \in 1..m /\ q \in 1..m
      BY <1>6, <1>7, <2>3
    <3> QED BY <1>9, <2>1, <3>1
  <2>4. CASE p > m /\ q > m
    <3>1. t[p] = u[p - m] /\ t[q] = u[q - m] /\ p - m \in 1..n /\ q - m \in 1..n
      BY <1>6, <1>7, <2>4
    <3>2. p - m = q - m
      BY <1>9, <2>2, <3>1
    <3> QED BY <3>2
  <2>5. CASE p <= m /\ q > m
    <3>1. t[p] = o[p] /\ t[q] = u[q - m] /\ p \in 1..m /\ q - m \in 1..n
      BY <1>6, <1>7, <2>5
    <3> QED BY <1>3, <1>4, <1>9, <3>1
  <2>6. CASE p > m /\ q <= m
    <3>1. t[p] = u[p - m] /\ t[q] = o[q] /\ q \in 1..m /\ p - m \in 1..n
      BY <1>6, <1>7, <2>6
    <3> QED BY <1>3, <1>4, <1>9, <3>1
  <2> QED BY <2>3, <2>4, <2>5, <2>6
<1>10. ASSUME NEW x \in C
       PROVE  \E p \in 1..(m + n) : t[p] = x
  <2>1. CASE x \in A
    <3>1. PICK p \in 1..m : o[p] = x
      BY <1>3, <2>1 DEF Lists
    <3>2. p \in 1..(m + n) /\ t[p] = x
      BY <1>6, <1>7, <3>1
    <3> QED BY <3>2
  <2>2. CASE x \in B
    <3>1. PICK p \in 1..n : u[p] = x
      BY <1>4, <2>2 DEF Lists
    <3>2. p + m \in 1..(m + n) /\ ~ (p + m <= m) /\ p + m - m = p
      OBVIOUS
    <3>3. t[p + m] = x
      BY <1>6, <1>7, <3>1, <3>2
    <3> QED BY <3>2, <3>3
  <2> QED BY <1>1, <2>1, <2>2
<1>11. Lists(t, C)
  BY <1>6, <1>7, <1>8, <1>9, <1>10 DEF Lists
<1> QED BY <1>1, <1>7, <1>11

\* A set that holds 0, and with the number before it every number up to m, holds all of them.
LEMMA UpTo ==
  ASSUME NEW m \in Nat, NEW G, 0 \in G, \A n \in 1..m : n - 1 \in G => n \in G
  PROVE  \A n \in 0..m : n \in G
<1> DEFINE bad == {n \in Nat : n \in 0..m /\ n \notin G}
<1>1. ASSUME bad # {}
      PROVE  FALSE
  <2>1. bad \in SUBSET Nat /\ (\A n \in bad : n \in 0..m /\ n \notin G)
        /\ (\A n \in 0..m : n \notin bad => n \in G)
    OBVIOUS
  <2> HIDE DEF bad
  <2>2. PICK n \in bad : \A j \in bad : n <= j
    BY <1>1, <2>1, LeastNumber
  <2>3. n \in 1..m /\ n - 1 \in 0..m
    BY <2>1
  <2>4. n - 1 \notin bad
    BY <2>1, <2>2, <2>3
  <2>5. n - 1 \in G
    BY <2>1, <2>3, <2>4
  <2> QED BY <2>1, <2>3, <2>5
<1> QED BY <1>1

\* The sequences of ss so far, one after the other.
Flattens(f, ss, m) == f = [i \in 1..m |-> IF i = 1 THEN ss[i] ELSE f[i - 1] \o ss[i]]

\* There are such concatenations,
LEMMA FlattensExist ==
  ASSUME NEW ss, NEW m \in Nat
  PROVE  \E f : Flattens(f, ss, m)
<1> DEFINE G == {n \in Nat : \E f : Flattens(f, ss, n)}
<1>1. 0 \in G
  <2>1. Flattens([i \in 1..0 |-> 0], ss, 0)
    BY DEF Flattens
  <2> QED BY <2>1
<1>2. ASSUME NEW n \in 1..m, n - 1 \in G
      PROVE  n \in G
  <2>1. PICK f : Flattens(f, ss, n - 1)
    BY <1>2
  <2>2. PICK v : v = IF n = 1 THEN ss[n] ELSE f[n - 1] \o ss[n]
    OBVIOUS
  <2>3. PICK g : g = [i \in 1..n |-> IF i = n THEN v ELSE f[i]]
    OBVIOUS
  <2>4. ASSUME NEW i \in 1..n
        PROVE  g[i] = IF i = 1 THEN ss[i] ELSE g[i - 1] \o ss[i]
    <3>1. CASE i = n
      <4>1. g[i] = v
        BY <2>3, <3>1
      <4>2. i # 1 => i - 1 \in 1..n /\ i - 1 # n
        BY <3>1
      <4>3. i # 1 => g[i - 1] = f[i - 1]
        BY <2>3, <4>2
      <4> QED BY <2>2, <3>1, <4>1, <4>3
    <3>2. CASE i # n
      <4>1. i \in 1..(n - 1)
        BY <3>2
      <4>2. g[i] = f[i]
        BY <2>3, <3>2
      <4>3. f[i] = IF i = 1 THEN ss[i] ELSE f[i - 1] \o ss[i]
        BY <2>1, <4>1 DEF Flattens
      <4>4. i # 1 => i - 1 \in 1..n /\ i - 1 # n
        BY <4>1
      <4>5. i # 1 => g[i - 1] = f[i - 1]
        BY <2>3, <4>4
      <4> QED BY <4>2, <4>3, <4>5
    <3> QED BY <3>1, <3>2
  <2>5. g = [i \in 1..n |-> g[i]]
    BY <2>3
  <2>6. Flattens(g, ss, n)
    BY <2>4, <2>5 DEF Flattens
  <2> QED BY <2>6
<1>3. m \in 0..m
  OBVIOUS
<1>4. m \in G
  <2> HIDE DEF G
  <2>1. \A n \in 0..m : n \in G
    BY <1>1, <1>2, UpTo
  <2> QED BY <1>3, <2>1
<1> QED BY <1>4

\* and the last of them is what FlattenSeq gives.
LEMMA FlattenIsLast ==
  ASSUME NEW ss, NEW m \in Nat, Len(ss) = m, m # 0
  PROVE  \E f : Flattens(f, ss, m) /\ FlattenSeq(ss) = f[m]
<1> DEFINE f == CHOOSE f : f = [i \in 1..Len(ss) |-> IF i = 1 THEN ss[i] ELSE f[i - 1] \o ss[i]]
<1>1. \E g : g = [i \in 1..Len(ss) |-> IF i = 1 THEN ss[i] ELSE g[i - 1] \o ss[i]]
  BY FlattensExist DEF Flattens
<1>2. f = [i \in 1..Len(ss) |-> IF i = 1 THEN ss[i] ELSE f[i - 1] \o ss[i]]
  BY <1>1
<1>3. FlattenSeq(ss) = f[Len(ss)]
  BY DEF FlattenSeq
<1> HIDE DEF f
<1> QED BY <1>2, <1>3 DEF Flattens

\* The sequences of ss list disjoint sets that together are all.
Parts(ss, G, m, all) ==
  /\ \A n \in 1..m : Lists(ss[n], G[n])
  /\ \A n, p \in 1..m : n # p => G[n] \cap G[p] = {}
  /\ \A x : x \in all <=> \E n \in 1..m : x \in G[n]

\* The sequences of disjoint sets, flattened, list their union.
LEMMA ListsFlatten ==
  ASSUME NEW m \in Nat, NEW ss, NEW G, NEW all, ss = [n \in 1..m |-> ss[n]], Parts(ss, G, m, all)
  PROVE  Lists(FlattenSeq(ss), all)
<1>1. Len(ss) = m
  <2>1. PICK Q : Q = {ss[n] : n \in 1..m}
    OBVIOUS
  <2>2. \A n \in 1..m : ss[n] \in Q
    BY <2>1
  <2>3. ss \in [1..m -> Q]
    BY <2>2
  <2> QED BY <2>3, SeqDef, LenProperties
<1>2. CASE m = 0
  <2>1. all = {}
    BY <1>2 DEF Parts
  <2>2. ss = << >>
    BY <1>2
  <2>3. FlattenSeq(ss) = ss
    BY <1>1, <1>2 DEF FlattenSeq
  <2> QED BY <2>1, <2>2, <2>3, ListsNothing
<1>3. CASE m # 0
  <2>1. PICK f : Flattens(f, ss, m) /\ FlattenSeq(ss) = f[m]
    BY <1>1, <1>3, FlattenIsLast
  <2> DEFINE U(n) == UNION {G[p] : p \in 1..n}
             K == {n \in Nat : n = 0 \/ Lists(f[n], U(n))}
  <2>2. 0 \in K
    OBVIOUS
  <2>3. ASSUME NEW n \in 1..m, n - 1 \in K
        PROVE  n \in K
    <3>1. f[n] = IF n = 1 THEN ss[n] ELSE f[n - 1] \o ss[n]
      BY <2>1 DEF Flattens
    <3>2. Lists(ss[n], G[n])
      BY DEF Parts
    <3>3. CASE n = 1
      <4>1. U(n) = G[n]
        BY <3>3
      <4> QED BY <3>1, <3>2, <3>3, <4>1
    <3>4. CASE n # 1
      <4>1. Lists(f[n - 1], U(n - 1))
        BY <2>3, <3>4
      <4>2. U(n) = U(n - 1) \cup G[n]
        <5>1. \A p \in 1..n : p \in 1..(n - 1) \/ p = n
          OBVIOUS
        <5>2. \A p \in 1..(n - 1) : p \in 1..n
          OBVIOUS
        <5>3. n \in 1..n
          OBVIOUS
        <5> QED BY <5>1, <5>2, <5>3
      <4>3. U(n - 1) \cap G[n] = {}
        <5>1. \A p \in 1..(n - 1) : p \in 1..m /\ p # n
          OBVIOUS
        <5>2. \A p \in 1..(n - 1) : G[p] \cap G[n] = {}
          BY <5>1 DEF Parts
        <5> QED BY <5>2
      <4>4. PICK A, B : A = U(n - 1) /\ B = G[n]
        OBVIOUS
      <4>5. Lists(f[n - 1] \o ss[n], A \cup B)
        <5>1. Lists(f[n - 1], A) /\ Lists(ss[n], B) /\ A \cap B = {}
          BY <3>2, <4>1, <4>3, <4>4
        <5> HIDE DEF U, K
        <5> QED BY <5>1, ListsConcat
      <4>6. U(n) = A \cup B
        BY <4>2, <4>4
      <4>7. Lists(f[n], U(n))
        <5> HIDE DEF U
        <5> QED BY <3>1, <3>4, <4>5, <4>6
      <4>8. n \in Nat
        OBVIOUS
      <4> HIDE DEF U
      <4> QED BY <4>7, <4>8
    <3> QED BY <3>3, <3>4
  <2>4. m \in K
    <3> HIDE DEF K
    <3>1. \A n \in 0..m : n \in K
      BY <2>2, <2>3, UpTo
    <3> QED BY <3>1
  <2>5. Lists(f[m], U(m))
    BY <1>3, <2>4
  <2>6. all = U(m)
    BY DEF Parts
  <2> QED BY <2>1, <2>5, <2>6
<1> QED BY <1>2, <1>3

-----------------------------------------------------------------------------
(* The hash join.                                                           *)

\* The positions of a key on the right, with one on the left.
\* out is what the probe of position i puts out, for the positions K on the right; S is the set.
Probed(i, m, K, out, S) ==
  /\ S = {i} \X K
  /\ \E js : js = Select([j \in 1..m |-> j], K) /\ out = [n \in DOMAIN js |-> << i, js[n] >>]

\* The pairs of a probe.
LEMMA ProbeLists ==
  ASSUME NEW m \in Nat, NEW K \in SUBSET (1..m), NEW i, NEW S, NEW out, Probed(i, m, K, out, S)
  PROVE  Lists(out, S)
<1> PICK id : id = [j \in 1..m |-> j]
  OBVIOUS
<1> PICK js : js = Select(id, K) /\ out = [n \in DOMAIN js |-> << i, js[n] >>]
  BY DEF Probed
<1>1. S = {i} \X K
  BY DEF Probed
<1>2. id \in Seq(1..m) /\ DOMAIN id = 1..m
  BY SeqDef
<1>3. PICK c \in Nat : c = Cardinality(K)
  BY RankFacts
<1>4. DOMAIN js = 1..c /\ \A n \in 1..c : js[n] = id[Place(K, n)]
  BY <1>3 DEF Select, Place
<1>5. /\ \A n \in 1..c : Place(K, n) \in K
      /\ \A n, p \in 1..c : Place(K, n) = Place(K, p) => n = p
      /\ \A j \in K : \E n \in 1..c : Place(K, n) = j
  BY <1>3, PlacesOfSet, ZenonT(60)
<1>6. /\ \A n \in 1..c : js[n] \in K
      /\ \A n, p \in 1..c : js[n] = js[p] => n = p
      /\ \A j \in K : \E n \in 1..c : js[n] = j
  <2>1. \A n \in 1..c : js[n] = Place(K, n)
    BY <1>4, <1>5
  <2> QED BY <1>5, <2>1
<1>7. out = [n \in 1..c |-> << i, js[n] >>]
  BY <1>4
<1>8. out \in [1..c -> S]
  BY <1>6, <1>1, <1>7
<1>9. \A n, p \in 1..c : out[n] = out[p] => n = p
  <2> SUFFICES ASSUME NEW n \in 1..c, NEW p \in 1..c, out[n] = out[p]
               PROVE  n = p
    OBVIOUS
  <2>1. << i, js[n] >> = << i, js[p] >>
    BY <1>7
  <2>2. js[n] = js[p]
    BY <2>1
  <2> QED BY <1>6, <2>2
<1>10. \A x \in S : \E n \in 1..c : out[n] = x
  <2> TAKE x \in S
  <2>1. x[2] \in K /\ x = << i, x[2] >>
    BY <1>1
  <2>2. PICK n \in 1..c : js[n] = x[2]
    BY <1>6, <2>1
  <2> QED BY <1>7, <2>1, <2>2
<1>11. OneToOne(out, c, S)
  BY <1>8, <1>9, <1>10 DEF OneToOne
<1> QED BY <1>11, ListsFunction

\* The probes of all left positions give the join.
LEMMA HashJoinLists ==
  ASSUME NEW S, NEW l \in Seq(S), NEW r \in Seq(S)
  PROVE  Lists(HashJoin(l, r), PairMatches(l, r))
<1>1. PICK a \in Nat : DOMAIN l = 1..a
  BY LenProperties
<1>2. PICK b \in Nat : DOMAIN r = 1..b
  BY LenProperties
<1> DEFINE K(i) == {j \in 1..b : r[j] = l[i]}
           js(i) == Select([j \in 1..b |-> j], K(i))
<1>3. PICK ss : ss = [i \in 1..a |-> [n \in DOMAIN js(i) |-> << i, js(i)[n] >>]]
  OBVIOUS
<1>4. HashJoin(l, r) = FlattenSeq(ss)
  BY <1>1, <1>2, <1>3 DEF HashJoin
<1>5. PICK G : G = [i \in 1..a |-> {i} \X K(i)]
  OBVIOUS
<1>6. PICK all : all = PairMatches(l, r)
  OBVIOUS
<1>7. \A i \in 1..a : Lists(ss[i], G[i])
  <2> TAKE i \in 1..a
  <2>1. PICK Q : Q = K(i)
    OBVIOUS
  <2>2. Q \in SUBSET (1..b)
    BY <2>1
  <2>3. PICK id : id = [j \in 1..b |-> j]
    OBVIOUS
  <2>4. PICK z : z = Select(id, Q)
    OBVIOUS
  <2>5. z = js(i)
    BY <2>1, <2>3, <2>4
  <2>6. PICK out, T : out = ss[i] /\ T = G[i]
    OBVIOUS
  <2>7. out = [n \in DOMAIN z |-> << i, z[n] >>]
    BY <1>3, <2>5, <2>6
  <2>8. T = {i} \X Q
    BY <1>5, <2>1, <2>6
  <2> HIDE DEF K, js
  <2>9. Probed(i, b, Q, out, T)
    BY <2>3, <2>4, <2>7, <2>8 DEF Probed
  <2>10. Lists(out, T)
    BY <2>2, <2>9, ProbeLists
  <2> QED BY <2>6, <2>10
<1>8. \A n, p \in 1..a : n # p => G[n] \cap G[p] = {}
  BY <1>5
<1>9. \A x : x \in all <=> \E n \in 1..a : x \in G[n]
  <2>1. ASSUME NEW x \in all
        PROVE  \E n \in 1..a : x \in G[n]
    <3>1. x \in (1..a) \X (1..b) /\ l[x[1]] = r[x[2]]
      BY <1>1, <1>2, <1>6 DEF PairMatches
    <3>2. x[1] \in 1..a /\ x[2] \in K(x[1]) /\ x = << x[1], x[2] >>
      BY <3>1
    <3>3. x \in G[x[1]]
      BY <1>5, <3>2
    <3> QED BY <3>2, <3>3
  <2>2. ASSUME NEW n \in 1..a, NEW x \in G[n]
        PROVE  x \in all
    <3>1. PICK j \in K(n) : x = << n, j >>
      BY <1>5
    <3> QED BY <1>1, <1>2, <1>6, <3>1 DEF PairMatches
  <2> QED BY <2>1, <2>2
<1>10. Parts(ss, G, a, all)
  BY <1>7, <1>8, <1>9 DEF Parts
<1>11. ss = [n \in 1..a |-> ss[n]]
  BY <1>3
<1> HIDE DEF K, js
<1>12. Lists(FlattenSeq(ss), all)
  BY <1>10, <1>11, ListsFlatten
<1> QED BY <1>4, <1>6, <1>12

-----------------------------------------------------------------------------
(* Cursors in sorted columns.                                               *)

\* K is the interval from i of its size, inside i..L.
Stretch(K, i, L) == /\ Cardinality(K) \in 0..(L + 1 - i)
                    /\ \A n \in Int : n \in K <=> i <= n /\ n < i + Cardinality(K)

\* A set of positions with no gap from i on is such an interval.
LEMMA NoGap ==
  ASSUME NEW L \in Nat, NEW i \in 1..(L + 1), NEW K \in SUBSET (i..L),
         \A n \in K : \A m \in i..n : m \in K
  PROVE  Stretch(K, i, L)
<1>1. PICK bad : bad = {n \in Nat : i <= n /\ n \notin K}
  OBVIOUS
<1>2. bad \in SUBSET Nat /\ L + 1 \in bad
  BY <1>1
<1>3. PICK e \in bad : \A n \in bad : e <= n
  BY <1>2, LeastNumber
<1>4. e \in Nat /\ i <= e /\ e <= L + 1 /\ e \notin K
  BY <1>1, <1>2, <1>3
<1>5. K = i..(e - 1)
  <2>1. ASSUME NEW n \in K
        PROVE  n \in i..(e - 1)
    <3>1. n \in i..L /\ (e <= n => e \in i..n)
      BY <1>4
    <3> QED BY <1>4, <3>1
  <2>2. ASSUME NEW n \in i..(e - 1)
        PROVE  n \in K
    <3>1. n \in Nat /\ i <= n /\ ~ (e <= n)
      BY <1>4
    <3> QED BY <1>1, <1>3, <3>1
  <2> QED BY <2>1, <2>2
<1>6. Cardinality(K) = e - i
  <2>1. e - 1 \in Int /\ i \in Int
    BY <1>4
  <2>2. Cardinality(i..(e - 1)) = IF i > e - 1 THEN 0 ELSE e - 1 - i + 1
    BY <2>1, FS_Interval
  <2> QED BY <1>4, <1>5, <2>1, <2>2
<1> QED BY <1>4, <1>5, <1>6 DEF Stretch

\* Where the run of the key at i ends: everything before has the key, everything after is above.
RunEnds(s, i) ==
  /\ RunAt(s, i) \in Nat
  /\ Past(s, i) = i + RunAt(s, i)
  /\ Past(s, i) \in (i + 1)..(Len(s) + 1)
  /\ \A m \in DOMAIN s : i <= m /\ m < Past(s, i) => s[m] = s[i]
  /\ \A m \in DOMAIN s : Past(s, i) <= m => s[i] < s[m]

\* In a sorted column the run of a key is where it was found and nowhere else.
LEMMA RunFacts ==
  ASSUME NEW s \in Seq(Int), NEW i \in DOMAIN s, Ascends(s)
  PROVE  RunEnds(s, i)
<1>1. PICK l \in Nat : l = Len(s) /\ DOMAIN s = 1..l /\ \A m \in 1..l : s[m] \in Int
  BY LenProperties, ElementOfSeq
<1>2. PICK K : K = {n \in i..Len(s) : \A m \in i..n : s[m] = s[i]}
  OBVIOUS
<1>3. K \in SUBSET (i..l) /\ i \in 1..(l + 1)
  BY <1>1, <1>2
<1>4. \A n \in K : \A m \in i..n : m \in K
  BY <1>1, <1>2
<1>5. Stretch(K, i, l)
  BY <1>3, <1>4, NoGap
<1>6. RunAt(s, i) = Cardinality(K)
  BY <1>2 DEF RunAt
<1>7. i \in K
  BY <1>1, <1>2
<1>8. Cardinality(K) \in 0..(l + 1 - i) /\ i < i + Cardinality(K)
  BY <1>1, <1>5, <1>7 DEF Stretch
<1>9. ASSUME NEW m \in DOMAIN s, i <= m, m < i + Cardinality(K)
      PROVE  s[m] = s[i]
  <2>1. m \in K
    BY <1>1, <1>5, <1>9 DEF Stretch
  <2> QED BY <1>1, <1>2, <2>1
<1>10. ASSUME NEW m \in DOMAIN s, i + Cardinality(K) <= m
       PROVE  s[i] < s[m]
  <2>1. m \notin K /\ m \in i..l
    BY <1>1, <1>5, <1>8, <1>10 DEF Stretch
  <2>2. PICK x \in i..m : s[x] # s[i]
    BY <1>1, <1>2, <2>1
  <2>3. x \in 1..l /\ i <= x /\ x <= m
    BY <1>1, <2>2
  <2>4. s[i] <= s[x] /\ s[x] <= s[m]
    BY <1>1, <2>3 DEF Ascends
  <2> QED BY <1>1, <2>2, <2>3, <2>4
<1> QED BY <1>1, <1>6, <1>8, <1>9, <1>10 DEF RunEnds, Past

-----------------------------------------------------------------------------
(* The sort-merge join.                                                     *)

\* The matches of the left positions before i.
Before(all, i) == {m \in all : m[1] < i}

\* The matches of the left positions from i and before k.
Between(all, i, k) == {m \in all : i <= m[1] /\ m[1] < k}

\* C is A and then B.
Splits(C, A, B) == C = A \cup B /\ A \cap B = {}

\* The matches before a later position are those before an earlier one and those between.
LEMMA BeforeSplits ==
  ASSUME NEW all, NEW i \in Nat, NEW k \in Nat, i <= k, \A m \in all : m[1] \in Nat
  PROVE  Splits(Before(all, k), Before(all, i), Between(all, i, k))
<1>1. ASSUME NEW m \in all
      PROVE  /\ m[1] < k <=> m[1] < i \/ (i <= m[1] /\ m[1] < k)
             /\ ~ (m[1] < i /\ i <= m[1])
  <2>1. PICK p \in Nat : p = m[1]
    OBVIOUS
  <2> QED BY <2>1
<1> QED BY <1>1 DEF Splits, Before, Between

\* Nothing between, nothing more before.
LEMMA BeforeSame ==
  ASSUME NEW all, NEW i \in Nat, NEW k \in Nat, i <= k, \A m \in all : m[1] \in Nat,
         \A m \in all : ~ (i <= m[1] /\ m[1] < k)
  PROVE  Before(all, k) = Before(all, i)
<1>1. Between(all, i, k) = {}
  BY DEF Between
<1> QED BY <1>1, BeforeSplits DEF Splits

\* After n rounds: the matches before the left cursor are out, no other match is before the
\* right one, and each round has moved a cursor unless one is at its end.
MergeAt(l, r, i, j, out, n) ==
  /\ i \in 1..(Len(l) + 1) /\ j \in 1..(Len(r) + 1)
  /\ Lists(out, Before(PairMatches(l, r), i))
  /\ \A m \in PairMatches(l, r) : i <= m[1] => j <= m[2]
  /\ i + j >= n + 2 \/ i > Len(l) \/ j > Len(r)

MergeInv(l, r, s, n) ==
  \E i, j, out : s = [i |-> i, j |-> j, out |-> out] /\ MergeAt(l, r, i, j, out, n)

\* The loop starts with it,
LEMMA MergeStart ==
  ASSUME NEW l \in Seq(Int), NEW r \in Seq(Int)
  PROVE  MergeInv(l, r, [i |-> 1, j |-> 1, out |-> << >>], 0)
<1>1. PICK a \in Nat, b \in Nat : a = Len(l) /\ b = Len(r) /\ DOMAIN l = 1..a /\ DOMAIN r = 1..b
  BY LenProperties
<1>2. \A m \in PairMatches(l, r) : m[1] \in 1..a /\ m[2] \in 1..b
  BY <1>1 DEF PairMatches
<1>3. Before(PairMatches(l, r), 1) = {}
  BY <1>2 DEF Before
<1>4. Lists(<< >>, Before(PairMatches(l, r), 1))
  BY <1>3, ListsNothing
<1>5. \A m \in PairMatches(l, r) : 1 <= m[1] => 1 <= m[2]
  BY <1>2
<1>6. 1 \in 1..(Len(l) + 1) /\ 1 \in 1..(Len(r) + 1)
  BY <1>1
<1>7. MergeAt(l, r, 1, 1, << >>, 0)
  BY <1>4, <1>5, <1>6 DEF MergeAt
<1> QED BY <1>7 DEF MergeInv

\* The pairs of one left position with the run on the right.
WithRun(S, i, r, j) ==
  \A m : m \in S <=> \E n \in DOMAIN r : j <= n /\ n < Past(r, j) /\ m = << i, n >>

\* They are what Pairs gives.
LEMMA PairsList ==
  ASSUME NEW r \in Seq(Int), NEW i \in Nat, NEW j \in DOMAIN r, Ascends(r), NEW S,
         WithRun(S, i, r, j)
  PROVE  Lists(Pairs(i, r, j), S)
<1>1. PICK b \in Nat : b = Len(r) /\ DOMAIN r = 1..b
  BY LenProperties
<1>2. PICK c \in Nat : c = RunAt(r, j) /\ Past(r, j) = j + c /\ j + c <= b + 1
  BY <1>1, RunFacts DEF RunEnds
<1>3. PICK out : out = Pairs(i, r, j)
  OBVIOUS
<1>4. out = [n \in 1..c |-> << i, j + n - 1 >>]
  BY <1>2, <1>3 DEF Pairs
<1>5. ASSUME NEW n \in 1..c
      PROVE  out[n] \in S
  <2>1. PICK v : v = j + n - 1
    OBVIOUS
  <2>2. j \in 1..b /\ j + c <= b + 1
    BY <1>1, <1>2
  <2>3. v \in 1..b /\ j <= v /\ v < j + c
    BY <2>1, <2>2
  <2>4. v \in DOMAIN r /\ j <= v /\ v < Past(r, j)
    BY <1>1, <1>2, <2>3
  <2>5. << i, v >> \in S
    BY <2>4 DEF WithRun
  <2> QED BY <1>4, <2>1, <2>5
<1>6. out \in [1..c -> S]
  BY <1>4, <1>5
<1>7. \A n, p \in 1..c : out[n] = out[p] => n = p
  <2> SUFFICES ASSUME NEW n \in 1..c, NEW p \in 1..c, out[n] = out[p]
               PROVE  n = p
    OBVIOUS
  <2>1. << i, j + n - 1 >> = << i, j + p - 1 >>
    BY <1>4
  <2>2. j + n - 1 = j + p - 1
    BY <2>1
  <2> QED BY <1>1, <2>2
<1>8. \A x \in S : \E n \in 1..c : out[n] = x
  <2> TAKE x \in S
  <2>1. PICK n \in DOMAIN r : j <= n /\ n < Past(r, j) /\ x = << i, n >>
    BY DEF WithRun
  <2>2. n - j + 1 \in 1..c /\ j + (n - j + 1) - 1 = n
    BY <1>1, <1>2, <2>1
  <2> QED BY <1>4, <2>1, <2>2
<1>9. OneToOne(out, c, S)
  BY <1>6, <1>7, <1>8 DEF OneToOne
<1> QED BY <1>3, <1>9, ListsFunction

\* A round keeps the invariant.
LEMMA MergeRound ==
  ASSUME NEW l \in Seq(Int), NEW r \in Seq(Int), Ascends(l), Ascends(r),
         NEW s, NEW n \in Nat, MergeInv(l, r, s, n)
  PROVE  MergeInv(l, r, MergeStep(l, r, s), n + 1)
<1>1. PICK a \in Nat : a = Len(l) /\ DOMAIN l = 1..a /\ \A m \in 1..a : l[m] \in Int
  BY LenProperties, ElementOfSeq
<1>2. PICK b \in Nat : b = Len(r) /\ DOMAIN r = 1..b /\ \A m \in 1..b : r[m] \in Int
  BY LenProperties, ElementOfSeq
<1>3. PICK i, j, out : s = [i |-> i, j |-> j, out |-> out] /\ MergeAt(l, r, i, j, out, n)
  BY DEF MergeInv
<1>4. s.i = i /\ s.j = j /\ s.out = out
  BY <1>3
<1>5. PICK all : all = PairMatches(l, r)
  OBVIOUS
<1>6. \A m \in all : m[1] \in 1..a /\ m[2] \in 1..b /\ l[m[1]] = r[m[2]]
  BY <1>1, <1>2, <1>5 DEF PairMatches
<1>7. \A m \in all : m = << m[1], m[2] >>
  BY <1>1, <1>2, <1>5 DEF PairMatches
<1>8. i \in 1..(a + 1) /\ j \in 1..(b + 1) /\ Lists(out, Before(all, i))
  BY <1>1, <1>2, <1>3, <1>5 DEF MergeAt
<1>9. \A m \in all : i <= m[1] => j <= m[2]
  BY <1>3, <1>5 DEF MergeAt
<1>10. i + j >= n + 2 \/ i > a \/ j > b
  BY <1>1, <1>2, <1>3 DEF MergeAt
<1>11. CASE i > a \/ j > b
  <2>1. MergeStep(l, r, s) = s
    BY <1>1, <1>2, <1>4, <1>11 DEF MergeStep
  <2>2. MergeAt(l, r, i, j, out, n + 1)
    BY <1>1, <1>2, <1>3, <1>11 DEF MergeAt
  <2> QED BY <1>3, <2>1, <2>2 DEF MergeInv
<1>12. CASE ~ (i > a \/ j > b)
  <2>1. i \in 1..a /\ j \in 1..b /\ l[i] \in Int /\ r[j] \in Int
    BY <1>1, <1>2, <1>8, <1>12
  <2>2. ASSUME NEW m \in all, i <= m[1]
        PROVE  l[i] <= l[m[1]] /\ r[j] <= r[m[2]]
    <3>1. PICK p \in 1..a, q \in 1..b : p = m[1] /\ q = m[2]
      BY <1>6
    <3>2. i <= p /\ j <= q
      BY <1>9, <2>2, <3>1
    <3>3. l[i] <= l[p]
      BY <1>1, <2>1, <3>2 DEF Ascends
    <3>4. r[j] <= r[q]
      BY <1>2, <2>1, <3>2 DEF Ascends
    <3> QED BY <3>1, <3>3, <3>4
  <2>3. CASE l[i] < r[j]
    <3>1. MergeStep(l, r, s) = [i |-> i + 1, j |-> j, out |-> out]
      BY <1>1, <1>2, <1>3, <1>4, <1>12, <2>3 DEF MergeStep
    <3>2. ASSUME NEW m \in all
          PROVE  ~ (i <= m[1] /\ m[1] < i + 1)
      <4>1. m[1] \in 1..a /\ m[2] \in 1..b /\ l[m[1]] = r[m[2]] /\ r[m[2]] \in Int
        BY <1>2, <1>6
      <4>2. i <= m[1] => r[j] <= r[m[2]]
        BY <2>2
      <4>3. m[1] = i => r[m[2]] = l[i]
        BY <4>1
      <4>4. \A p \in 1..a : i <= p /\ p < i + 1 <=> p = i
        BY <2>1
      <4>5. m[1] # i
        <5> SUFFICES ASSUME m[1] = i
                     PROVE  FALSE
          OBVIOUS
        <5>1. i <= m[1] /\ r[m[2]] = l[i]
          BY <2>1, <4>3
        <5>2. PICK x \in Int : x = r[m[2]]
          BY <4>1
        <5> QED BY <2>1, <2>3, <4>2, <5>1, <5>2
      <4> QED BY <4>1, <4>4, <4>5
    <3>3. i \in Nat /\ i + 1 \in Nat /\ i <= i + 1 /\ (\A m \in all : m[1] \in Nat)
      BY <1>6, <2>1
    <3>4. Before(all, i + 1) = Before(all, i)
      BY <3>2, <3>3, BeforeSame
    <3>5. ASSUME NEW m \in all, i + 1 <= m[1]
          PROVE  j <= m[2]
      <4>1. PICK p \in 1..a : p = m[1]
        BY <1>6
      <4>2. i <= m[1]
        BY <2>1, <3>5, <4>1
      <4> QED BY <1>9, <4>2
    <3>6. i + 1 + j >= n + 1 + 2 /\ i + 1 \in 1..(a + 1)
      BY <1>10, <1>12, <2>1
    <3>7. MergeAt(l, r, i + 1, j, out, n + 1)
      BY <1>1, <1>2, <1>5, <1>8, <3>4, <3>5, <3>6 DEF MergeAt
    <3> QED BY <3>1, <3>7 DEF MergeInv
  <2>4. CASE l[i] > r[j]
    <3>1. MergeStep(l, r, s) = [i |-> i, j |-> j + 1, out |-> out]
      BY <1>1, <1>2, <1>3, <1>4, <1>12, <2>1, <2>4 DEF MergeStep
    <3>2. ASSUME NEW m \in all, i <= m[1], m[2] = j
          PROVE  FALSE
      <4>1. l[i] <= l[m[1]] /\ l[m[1]] = r[j]
        BY <1>6, <2>2, <3>2
      <4> QED BY <2>1, <2>4, <4>1
    <3>3. ASSUME NEW m \in all, i <= m[1]
          PROVE  j + 1 <= m[2]
      <4>1. PICK q \in 1..b : q = m[2]
        BY <1>6
      <4>2. j <= q /\ q # j
        BY <1>9, <3>2, <3>3, <4>1
      <4> QED BY <2>1, <4>1, <4>2
    <3>4. i + (j + 1) >= n + 1 + 2 /\ j + 1 \in 1..(b + 1)
      BY <1>10, <1>12, <2>1
    <3>5. MergeAt(l, r, i, j + 1, out, n + 1)
      BY <1>1, <1>2, <1>5, <1>8, <3>3, <3>4 DEF MergeAt
    <3> QED BY <3>1, <3>5 DEF MergeInv
  <2>5. CASE l[i] = r[j]
    <3>1. MergeStep(l, r, s) = [i |-> i + 1, j |-> j, out |-> out \o Pairs(i, r, j)]
      BY <1>1, <1>2, <1>3, <1>4, <1>12, <2>1, <2>5 DEF MergeStep
    <3>2. RunEnds(r, j)
      BY <1>2, <2>1, RunFacts
    <3>3. PICK S : S = Between(all, i, i + 1)
      OBVIOUS
    <3>4. \A m : m \in S <=> m \in all /\ m[1] = i
      <4>1. \A p \in 1..a : i <= p /\ p < i + 1 <=> p = i
        BY <2>1
      <4> QED BY <1>6, <3>3, <4>1 DEF Between
    <3>5. i \in Nat /\ i + 1 \in Nat /\ i <= i + 1 /\ (\A m \in all : m[1] \in Nat)
      BY <1>6, <2>1
    <3>6. ASSUME NEW m \in S
          PROVE  \E p \in 1..b : j <= p /\ p < Past(r, j) /\ m = << i, p >>
      <4>1. m \in all /\ m[1] = i
        BY <3>4
      <4>2. m[2] \in 1..b /\ j <= m[2] /\ r[m[2]] = r[j] /\ m = << i, m[2] >>
        BY <1>6, <1>7, <1>9, <2>1, <2>5, <4>1
      <4>3. ~ (Past(r, j) <= m[2])
        BY <1>2, <2>1, <3>2, <4>2 DEF RunEnds
      <4>4. Past(r, j) \in Int
        BY <1>2, <2>1, <3>2 DEF RunEnds
      <4> QED BY <4>2, <4>3, <4>4
    <3>7. ASSUME NEW p \in 1..b, j <= p, p < Past(r, j)
          PROVE  << i, p >> \in S
      <4>1. r[p] = r[j]
        BY <1>2, <3>2, <3>7 DEF RunEnds
      <4> QED BY <1>1, <1>2, <1>5, <2>1, <2>5, <3>4, <4>1 DEF PairMatches
    <3>8. WithRun(S, i, r, j)
      BY <1>2, <3>6, <3>7 DEF WithRun
    <3>9. i \in Nat /\ j \in DOMAIN r
      BY <1>2, <2>1
    <3>10. Lists(Pairs(i, r, j), S)
      BY <3>8, <3>9, PairsList
    <3>11. PICK A : A = Before(all, i)
      OBVIOUS
    <3>12. Splits(Before(all, i + 1), A, S)
      BY <3>3, <3>11, <3>5, BeforeSplits
    <3>13. A \cap S = {}
      BY <3>12 DEF Splits
    <3>14. Before(all, i + 1) = A \cup S
      BY <3>12 DEF Splits
    <3>15. Lists(out \o Pairs(i, r, j), A \cup S)
      BY <1>8, <3>10, <3>11, <3>13, ListsConcat
    <3>16. ASSUME NEW m \in all, i + 1 <= m[1]
          PROVE  j <= m[2]
      <4>1. PICK p \in 1..a : p = m[1]
        BY <1>6
      <4>2. i <= m[1]
        BY <2>1, <3>16, <4>1
      <4> QED BY <1>9, <4>2
    <3>17. i + 1 + j >= n + 1 + 2 /\ i + 1 \in 1..(a + 1)
      BY <1>10, <1>12, <2>1
    <3>18. MergeAt(l, r, i + 1, j, out \o Pairs(i, r, j), n + 1)
      BY <1>1, <1>2, <1>5, <1>8, <3>14, <3>15, <3>16, <3>17 DEF MergeAt
    <3> QED BY <3>1, <3>18 DEF MergeInv
  <2> QED BY <2>1, <2>3, <2>4, <2>5
<1> QED BY <1>11, <1>12

\* The states of m rounds.
Merges(f, l, r, m) == f = [n \in 0..m |-> IF n = 0 THEN [i |-> 1, j |-> 1, out |-> << >>]
                                          ELSE MergeStep(l, r, f[n - 1])]

\* There are such states.
LEMMA MergesExist ==
  ASSUME NEW l, NEW r, NEW m \in Nat
  PROVE  \E f : Merges(f, l, r, m)
<1> DEFINE G == {n \in Nat : \E f : Merges(f, l, r, n)}
<1>1. 0 \in G
  <2>1. Merges([n \in 0..0 |-> [i |-> 1, j |-> 1, out |-> << >>]], l, r, 0)
    BY DEF Merges
  <2> QED BY <2>1
<1>2. ASSUME NEW n \in 1..m, n - 1 \in G
      PROVE  n \in G
  <2>1. PICK f : Merges(f, l, r, n - 1)
    BY <1>2
  <2>2. PICK v : v = MergeStep(l, r, f[n - 1])
    OBVIOUS
  <2>3. PICK g : g = [p \in 0..n |-> IF p = n THEN v ELSE f[p]]
    OBVIOUS
  <2>4. \A p \in 0..(n - 1) : g[p] = f[p]
    BY <2>3
  <2>5. ASSUME NEW p \in 0..n
        PROVE  g[p] = IF p = 0 THEN [i |-> 1, j |-> 1, out |-> << >>]
                      ELSE MergeStep(l, r, g[p - 1])
    <3>1. CASE p = n
      <4>1. g[p] = v /\ p # 0 /\ p - 1 = n - 1
        BY <2>3, <3>1
      <4>2. g[p - 1] = f[n - 1]
        BY <2>4, <3>1
      <4> QED BY <2>2, <4>1, <4>2
    <3>2. CASE p # n
      <4>1. p \in 0..(n - 1)
        BY <3>2
      <4>2. f[p] = IF p = 0 THEN [i |-> 1, j |-> 1, out |-> << >>]
                   ELSE MergeStep(l, r, f[p - 1])
        BY <2>1, <4>1 DEF Merges
      <4>3. p # 0 => g[p - 1] = f[p - 1]
        BY <2>4, <4>1
      <4> QED BY <2>4, <4>1, <4>2, <4>3
    <3> QED BY <3>1, <3>2
  <2>6. g = [p \in 0..n |-> g[p]]
    BY <2>3
  <2>7. Merges(g, l, r, n)
    BY <2>5, <2>6 DEF Merges
  <2> QED BY <2>7
<1>3. m \in G
  <2> HIDE DEF G
  <2>1. \A n \in 0..m : n \in G
    BY <1>1, <1>2, UpTo
  <2> QED BY <2>1
<1> QED BY <1>3

\* What comes out at the end is the join.
LEMMA SortMergeLists ==
  ASSUME NEW l \in Seq(Int), NEW r \in Seq(Int), Ascends(l), Ascends(r)
  PROVE  Lists(SortMergeJoin(l, r), PairMatches(l, r))
<1>1. PICK a \in Nat, b \in Nat : a = Len(l) /\ b = Len(r) /\ DOMAIN l = 1..a /\ DOMAIN r = 1..b
  BY LenProperties
<1> DEFINE at == CHOOSE at : at = [n \in 0..(Len(l) + Len(r)) |->
                   IF n = 0 THEN [i |-> 1, j |-> 1, out |-> << >>]
                   ELSE MergeStep(l, r, at[n - 1])]
<1>2. \E f : f = [n \in 0..(Len(l) + Len(r)) |->
                   IF n = 0 THEN [i |-> 1, j |-> 1, out |-> << >>]
                   ELSE MergeStep(l, r, f[n - 1])]
  <2>1. Len(l) + Len(r) \in Nat
    BY <1>1
  <2>2. \E f : Merges(f, l, r, Len(l) + Len(r))
    BY <2>1, MergesExist
  <2> QED BY <2>2 DEF Merges
<1>3. at = [n \in 0..(Len(l) + Len(r)) |->
              IF n = 0 THEN [i |-> 1, j |-> 1, out |-> << >>] ELSE MergeStep(l, r, at[n - 1])]
  BY <1>2
<1>4. SortMergeJoin(l, r) = at[Len(l) + Len(r)].out
  BY DEF SortMergeJoin
<1> HIDE DEF at
<1>5. \A n \in 0..(a + b) : MergeInv(l, r, at[n], n)
  <2>1. PICK G : G = {n \in 0..(a + b) : MergeInv(l, r, at[n], n)}
    OBVIOUS
  <2>2. 0 \in G
    <3>1. at[0] = [i |-> 1, j |-> 1, out |-> << >>]
      BY <1>1, <1>3
    <3> QED BY <1>1, <2>1, <3>1, MergeStart
  <2>3. ASSUME NEW n \in 1..(a + b), n - 1 \in G
        PROVE  n \in G
    <3>1. n \in 0..(Len(l) + Len(r)) /\ n # 0
      BY <1>1
    <3>2. at[n] = MergeStep(l, r, at[n - 1])
      BY <1>3, <3>1
    <3>3. PICK p \in Nat : p = n - 1 /\ p + 1 = n
      OBVIOUS
    <3>4. MergeInv(l, r, at[p], p)
      BY <2>1, <2>3, <3>3
    <3>5. MergeInv(l, r, MergeStep(l, r, at[p]), p + 1)
      BY <3>4, MergeRound
    <3> QED BY <2>1, <3>2, <3>3, <3>5
  <2>4. a + b \in Nat
    OBVIOUS
  <2>5. \A n \in 0..(a + b) : n \in G
    BY <2>2, <2>3, <2>4, UpTo
  <2> QED BY <2>1, <2>5
<1>6. MergeInv(l, r, at[a + b], a + b)
  BY <1>5
<1>7. PICK i, j, out : /\ at[a + b] = [i |-> i, j |-> j, out |-> out]
                       /\ MergeAt(l, r, i, j, out, a + b)
  BY <1>6 DEF MergeInv
<1>8. SortMergeJoin(l, r) = out
  BY <1>1, <1>4, <1>7
<1>9. /\ i \in 1..(a + 1) /\ j \in 1..(b + 1)
      /\ i + j >= a + b + 2 \/ i > a \/ j > b
      /\ \A m \in PairMatches(l, r) : i <= m[1] => j <= m[2]
      /\ Lists(out, Before(PairMatches(l, r), i))
  BY <1>1, <1>7 DEF MergeAt
<1>10. i > a \/ j > b
  BY <1>9
<1>11. ASSUME NEW m \in PairMatches(l, r)
       PROVE  m[1] < i
  <2>1. m[1] \in 1..a /\ m[2] \in 1..b
    BY <1>1 DEF PairMatches
  <2>2. i <= m[1] => j <= m[2]
    BY <1>9
  <2> QED BY <1>9, <1>10, <2>1, <2>2
<1>12. Before(PairMatches(l, r), i) = PairMatches(l, r)
  BY <1>11 DEF Before
<1> QED BY <1>8, <1>9, <1>12

-----------------------------------------------------------------------------
(* The leapfrog join: the product of three runs.                            *)

\* Triples: two positions and a run, a position and two runs, three runs.
RowOf(u, v, k, w) == {u} \X {v} \X (k..(k + w - 1))

PlaneOf(u, j, q, k, w) == {u} \X (j..(j + q - 1)) \X (k..(k + w - 1))

CubeOf(i, p, j, q, k, w) == (i..(i + p - 1)) \X (j..(j + q - 1)) \X (k..(k + w - 1))

\* The triples of two positions and a run.
LEMMA RowLists ==
  ASSUME NEW u, NEW v, NEW k \in Nat, NEW w \in Nat, NEW out,
         out = [z \in 1..w |-> << u, v, k + z - 1 >>]
  PROVE  Lists(out, RowOf(u, v, k, w))
<1>1. PICK S : S = RowOf(u, v, k, w)
  OBVIOUS
<1>2. out \in [1..w -> S]
  BY <1>1 DEF RowOf
<1>3. \A x, y \in 1..w : out[x] = out[y] => x = y
  <2> SUFFICES ASSUME NEW x \in 1..w, NEW y \in 1..w, out[x] = out[y]
               PROVE  x = y
    OBVIOUS
  <2>1. << u, v, k + x - 1 >> = << u, v, k + y - 1 >>
    OBVIOUS
  <2>2. k + x - 1 = k + y - 1
    BY <2>1
  <2> QED BY <2>2
<1>4. \A m \in S : \E x \in 1..w : out[x] = m
  <2> TAKE m \in S
  <2>1. m = << u, v, m[3] >> /\ m[3] \in k..(k + w - 1)
    BY <1>1 DEF RowOf
  <2>2. PICK x : x = m[3] - k + 1
    OBVIOUS
  <2>3. x \in 1..w /\ k + x - 1 = m[3]
    BY <2>1, <2>2
  <2> QED BY <2>1, <2>3
<1>5. OneToOne(out, w, S)
  BY <1>2, <1>3, <1>4 DEF OneToOne
<1> QED BY <1>1, <1>5, ListsFunction

\* The triples of one position of the first column, and two runs.
LEMMA PlaneLists ==
  ASSUME NEW u, NEW j \in Nat, NEW q \in Nat, NEW k \in Nat, NEW w \in Nat, NEW ss,
         ss = [y \in 1..q |-> [z \in 1..w |-> << u, j + y - 1, k + z - 1 >>]]
  PROVE  Lists(FlattenSeq(ss), PlaneOf(u, j, q, k, w))
<1>1. PICK all : all = PlaneOf(u, j, q, k, w)
  OBVIOUS
<1>2. PICK G : G = [y \in 1..q |-> RowOf(u, j + y - 1, k, w)]
  OBVIOUS
<1>3. \A y \in 1..q : Lists(ss[y], G[y])
  <2> TAKE y \in 1..q
  <2>1. PICK v : v = j + y - 1
    OBVIOUS
  <2>2. PICK out : out = ss[y]
    OBVIOUS
  <2>3. out = [z \in 1..w |-> << u, v, k + z - 1 >>]
    BY <2>1, <2>2
  <2>4. Lists(out, RowOf(u, v, k, w))
    BY <2>3, RowLists
  <2> QED BY <1>2, <2>1, <2>2, <2>4
<1>4. ASSUME NEW x \in 1..q, NEW y \in 1..q, x # y, NEW m, m \in G[x], m \in G[y]
      PROVE  FALSE
  <2>1. m[2] = j + x - 1
    BY <1>2, <1>4 DEF RowOf
  <2>2. m[2] = j + y - 1
    BY <1>2, <1>4 DEF RowOf
  <2> QED BY <1>4, <2>1, <2>2
<1>5. \A x, y \in 1..q : x # y => G[x] \cap G[y] = {}
  BY <1>4
<1>6. \A m : m \in all <=> \E y \in 1..q : m \in G[y]
  <2>1. ASSUME NEW m \in all
        PROVE  \E y \in 1..q : m \in G[y]
    <3>1. /\ m = << u, m[2], m[3] >>
          /\ m[2] \in j..(j + q - 1) /\ m[3] \in k..(k + w - 1)
      BY <1>1 DEF PlaneOf
    <3>2. PICK y : y = m[2] - j + 1
      OBVIOUS
    <3>3. y \in 1..q /\ j + y - 1 = m[2]
      BY <3>1, <3>2
    <3>4. m \in RowOf(u, m[2], k, w)
      BY <3>1 DEF RowOf
    <3> QED BY <1>2, <3>3, <3>4
  <2>2. ASSUME NEW y \in 1..q, NEW m \in G[y]
        PROVE  m \in all
    <3>1. j + y - 1 \in j..(j + q - 1)
      OBVIOUS
    <3> QED BY <1>1, <1>2, <3>1 DEF PlaneOf, RowOf
  <2> QED BY <2>1, <2>2
<1>7. Parts(ss, G, q, all)
  BY <1>3, <1>5, <1>6 DEF Parts
<1>8. ss = [y \in 1..q |-> ss[y]]
  OBVIOUS
<1>9. Lists(FlattenSeq(ss), all)
  BY <1>7, <1>8, ListsFlatten
<1> QED BY <1>1, <1>9

\* For each position of the first run the triples with the other two.
Planes(i, p, j, q, k, w) ==
  [x \in 1..p |-> FlattenSeq([y \in 1..q |->
    [z \in 1..w |-> << i + x - 1, j + y - 1, k + z - 1 >>]])]

\* The triples of three runs.
LEMMA CubeLists ==
  ASSUME NEW i \in Nat, NEW p \in Nat, NEW j \in Nat, NEW q \in Nat, NEW k \in Nat, NEW w \in Nat
  PROVE  Lists(FlattenSeq(Planes(i, p, j, q, k, w)), CubeOf(i, p, j, q, k, w))
<1> PICK ss : ss = Planes(i, p, j, q, k, w)
  OBVIOUS
<1>1. ss = [x \in 1..p |-> FlattenSeq([y \in 1..q |->
                [z \in 1..w |-> << i + x - 1, j + y - 1, k + z - 1 >>]])]
  BY DEF Planes
<1>2. PICK all : all = CubeOf(i, p, j, q, k, w)
  OBVIOUS
<1>3. PICK G : G = [x \in 1..p |-> PlaneOf(i + x - 1, j, q, k, w)]
  OBVIOUS
<1>4. \A x \in 1..p : Lists(ss[x], G[x])
  <2> TAKE x \in 1..p
  <2>1. PICK u : u = i + x - 1
    OBVIOUS
  <2>2. PICK rows : rows = [y \in 1..q |-> [z \in 1..w |-> << u, j + y - 1, k + z - 1 >>]]
    OBVIOUS
  <2>3. ss[x] = FlattenSeq(rows)
    BY <1>1, <2>1, <2>2
  <2>4. Lists(FlattenSeq(rows), PlaneOf(u, j, q, k, w))
    BY <2>2, PlaneLists
  <2> QED BY <1>3, <2>1, <2>3, <2>4
<1>5. ASSUME NEW x \in 1..p, NEW y \in 1..p, x # y, NEW m, m \in G[x], m \in G[y]
      PROVE  FALSE
  <2>1. m[1] = i + x - 1
    BY <1>3, <1>5 DEF PlaneOf
  <2>2. m[1] = i + y - 1
    BY <1>3, <1>5 DEF PlaneOf
  <2> QED BY <1>5, <2>1, <2>2
<1>6. \A x, y \in 1..p : x # y => G[x] \cap G[y] = {}
  BY <1>5
<1>7. \A m : m \in all <=> \E x \in 1..p : m \in G[x]
  <2>1. ASSUME NEW m \in all
        PROVE  \E x \in 1..p : m \in G[x]
    <3>1. /\ m = << m[1], m[2], m[3] >> /\ m[1] \in i..(i + p - 1)
          /\ m[2] \in j..(j + q - 1) /\ m[3] \in k..(k + w - 1)
      BY <1>2 DEF CubeOf
    <3>2. PICK x : x = m[1] - i + 1
      OBVIOUS
    <3>3. x \in 1..p /\ i + x - 1 = m[1]
      BY <3>1, <3>2
    <3>4. m \in PlaneOf(m[1], j, q, k, w)
      BY <3>1 DEF PlaneOf
    <3> QED BY <1>3, <3>3, <3>4
  <2>2. ASSUME NEW x \in 1..p, NEW m \in G[x]
        PROVE  m \in all
    <3>1. i + x - 1 \in i..(i + p - 1)
      OBVIOUS
    <3> QED BY <1>2, <1>3, <3>1 DEF PlaneOf, CubeOf
  <2> QED BY <2>1, <2>2
<1>8. Parts(ss, G, p, all)
  BY <1>4, <1>6, <1>7 DEF Parts
<1>9. ss = [x \in 1..p |-> ss[x]]
  BY <1>1
<1>10. Lists(FlattenSeq(ss), all)
  BY <1>8, <1>9, ListsFlatten
<1> QED BY <1>2, <1>10

\* They are what Triples gives.
LEMMA TriplesList ==
  ASSUME NEW a, NEW i \in Nat, NEW b, NEW j \in Nat, NEW c, NEW k \in Nat,
         NEW p \in Nat, NEW q \in Nat, NEW w \in Nat,
         p = RunAt(a, i), q = RunAt(b, j), w = RunAt(c, k)
  PROVE  Lists(Triples(a, i, b, j, c, k), CubeOf(i, p, j, q, k, w))
<1>1. Triples(a, i, b, j, c, k) = FlattenSeq(Planes(i, p, j, q, k, w))
  BY DEF Triples, Planes
<1>2. Lists(FlattenSeq(Planes(i, p, j, q, k, w)), CubeOf(i, p, j, q, k, w))
  BY CubeLists
<1> QED BY <1>1, <1>2

-----------------------------------------------------------------------------
(* The leapfrog join: the cursors.                                          *)

\* The highest of three keys.
LEMMA TopFacts ==
  ASSUME NEW x \in Int, NEW y \in Int, NEW z \in Int, NEW top, top = TopKey({x, y, z})
  PROVE  top \in {x, y, z} /\ x <= top /\ y <= top /\ z <= top
<1>1. \E t \in {x, y, z} : \A u \in {x, y, z} : u <= t
  <2>1. CASE y <= x /\ z <= x
    BY <2>1
  <2>2. CASE x <= y /\ z <= y
    BY <2>2
  <2>3. CASE x <= z /\ y <= z
    BY <2>3
  <2> QED BY <2>1, <2>2, <2>3
<1> QED BY <1>1 DEF TopKey

\* Where a cursor lands: everything it passed is below max, and it moves if its key is.
Lands(s, i, max) ==
  /\ Leap(s, i, max) \in i..(Len(s) + 1)
  /\ s[i] < max => i < Leap(s, i, max)
  /\ \A m \in DOMAIN s : i <= m /\ m < Leap(s, i, max) => s[m] < max

\* What take_while passes is below max.
LEMMA LeapFacts ==
  ASSUME NEW s \in Seq(Int), NEW i \in DOMAIN s, NEW max \in Int
  PROVE  Lands(s, i, max)
<1>1. PICK l \in Nat : l = Len(s) /\ DOMAIN s = 1..l
  BY LenProperties
<1>2. PICK K : K = {n \in i..Len(s) : \A m \in i..n : s[m] < max}
  OBVIOUS
<1>3. K \in SUBSET (i..l) /\ i \in 1..(l + 1)
  BY <1>1, <1>2
<1>4. \A n \in K : \A m \in i..n : m \in K
  BY <1>1, <1>2
<1>5. Stretch(K, i, l)
  BY <1>3, <1>4, NoGap
<1>6. Leap(s, i, max) = i + Cardinality(K)
  BY <1>2 DEF Leap
<1>7. Cardinality(K) \in 0..(l + 1 - i)
  BY <1>5 DEF Stretch
<1>8. s[i] < max => i \in K
  BY <1>1, <1>2
<1>9. s[i] < max => i < i + Cardinality(K)
  BY <1>1, <1>5, <1>8 DEF Stretch
<1>10. ASSUME NEW m \in DOMAIN s, i <= m, m < i + Cardinality(K)
       PROVE  s[m] < max
  <2>1. m \in K
    BY <1>1, <1>5, <1>10 DEF Stretch
  <2> QED BY <1>1, <1>2, <2>1
<1> QED BY <1>1, <1>6, <1>7, <1>9, <1>10 DEF Lands

\* After n rounds: the matches before the first cursor are out, no other match is before the
\* other two, and each round has moved a cursor unless one is at its end.
LeapAt(a, b, c, i, j, k, out, n) ==
  /\ i \in 1..(Len(a) + 1) /\ j \in 1..(Len(b) + 1) /\ k \in 1..(Len(c) + 1)
  /\ Lists(out, Before(TripleMatches(a, b, c), i))
  /\ \A m \in TripleMatches(a, b, c) : i <= m[1] => j <= m[2] /\ k <= m[3]
  /\ i + j + k >= n + 3 \/ i > Len(a) \/ j > Len(b) \/ k > Len(c)

LeapInv(a, b, c, s, n) ==
  \E i, j, k, out : /\ s = [i |-> i, j |-> j, k |-> k, out |-> out]
                    /\ LeapAt(a, b, c, i, j, k, out, n)

\* The loop starts with it.
LEMMA LeapStart ==
  ASSUME NEW a \in Seq(Int), NEW b \in Seq(Int), NEW c \in Seq(Int)
  PROVE  LeapInv(a, b, c, [i |-> 1, j |-> 1, k |-> 1, out |-> << >>], 0)
<1>1. PICK la \in Nat, lb \in Nat, lc \in Nat :
        /\ la = Len(a) /\ DOMAIN a = 1..la
        /\ lb = Len(b) /\ DOMAIN b = 1..lb
        /\ lc = Len(c) /\ DOMAIN c = 1..lc
  BY LenProperties
<1>2. \A m \in TripleMatches(a, b, c) : m[1] \in 1..la /\ m[2] \in 1..lb /\ m[3] \in 1..lc
  BY <1>1 DEF TripleMatches
<1>3. Before(TripleMatches(a, b, c), 1) = {}
  BY <1>2 DEF Before
<1>4. Lists(<< >>, Before(TripleMatches(a, b, c), 1))
  BY <1>3, ListsNothing
<1>5. \A m \in TripleMatches(a, b, c) : 1 <= m[1] => 1 <= m[2] /\ 1 <= m[3]
  BY <1>2
<1>6. 1 \in 1..(Len(a) + 1) /\ 1 \in 1..(Len(b) + 1) /\ 1 \in 1..(Len(c) + 1)
  BY <1>1
<1>7. LeapAt(a, b, c, 1, 1, 1, << >>, 0)
  BY <1>4, <1>5, <1>6 DEF LeapAt
<1> QED BY <1>7 DEF LeapInv

\* A match is three positions with one key.
LEMMA MatchAt ==
  ASSUME NEW a, NEW b, NEW c, NEW m, m \in TripleMatches(a, b, c)
  PROVE  \E x \in DOMAIN a : \E y \in DOMAIN b : \E z \in DOMAIN c :
           m = << x, y, z >> /\ a[x] = b[y] /\ b[y] = c[z]
<1>1. m \in (DOMAIN a) \X (DOMAIN b) \X (DOMAIN c)
  BY DEF TripleMatches
<1>2. m[1] \in DOMAIN a /\ m[2] \in DOMAIN b /\ m[3] \in DOMAIN c /\ m = << m[1], m[2], m[3] >>
  BY <1>1
<1>3. a[m[1]] = b[m[2]] /\ b[m[2]] = c[m[3]]
  BY DEF TripleMatches
<1> QED BY <1>2, <1>3

\* and every three such positions are a match.
LEMMA MatchIs ==
  ASSUME NEW a, NEW b, NEW c, NEW x \in DOMAIN a, NEW y \in DOMAIN b, NEW z \in DOMAIN c,
         a[x] = b[y], b[y] = c[z]
  PROVE  << x, y, z >> \in TripleMatches(a, b, c)
BY DEF TripleMatches

\* The bounds of a round that is not over.
LEMMA LeapRoom ==
  ASSUME NEW a, NEW b, NEW c, NEW i, NEW j, NEW k, NEW out, NEW n \in Nat,
         LeapAt(a, b, c, i, j, k, out, n),
         NEW la \in Nat, NEW lb \in Nat, NEW lc \in Nat,
         la = Len(a), lb = Len(b), lc = Len(c), i \in 1..la, j \in 1..lb, k \in 1..lc
  PROVE  i + j + k >= n + 3
<1>1. i + j + k >= n + 3 \/ i > la \/ j > lb \/ k > lc
  BY DEF LeapAt
<1> QED BY <1>1

\* A sorted column of l keys.
Column(s, l) == /\ l = Len(s) /\ DOMAIN s = 1..l
                /\ \A m \in 1..l : s[m] \in Int
                /\ Ascends(s)

\* The three cursors are at one key.
KeyAt(key, a, i, b, j, c, k) == key = a[i] /\ key = b[j] /\ key = c[k]

\* A round at a match puts out the product of the three runs.
LEMMA LeapMatch ==
  ASSUME NEW a, NEW b, NEW c, NEW la \in Nat, NEW lb \in Nat, NEW lc \in Nat,
         Column(a, la), Column(b, lb), Column(c, lc),
         NEW i \in 1..la, NEW j \in 1..lb, NEW k \in 1..lc, NEW out, NEW n \in Nat,
         LeapAt(a, b, c, i, j, k, out, n), NEW key \in Int, KeyAt(key, a, i, b, j, c, k),
         RunEnds(a, i), RunEnds(b, j), RunEnds(c, k)
  PROVE  LeapAt(a, b, c, Past(a, i), Past(b, j), Past(c, k),
                out \o Triples(a, i, b, j, c, k), n + 1)
<1>1. la = Len(a) /\ DOMAIN a = 1..la /\ \A m \in 1..la : a[m] \in Int
  BY DEF Column
<1>2. lb = Len(b) /\ DOMAIN b = 1..lb /\ \A m \in 1..lb : b[m] \in Int
  BY DEF Column
<1>3. lc = Len(c) /\ DOMAIN c = 1..lc /\ \A m \in 1..lc : c[m] \in Int
  BY DEF Column
<1>4. PICK all : all = TripleMatches(a, b, c)
  OBVIOUS
<1>5. i \in 1..la /\ j \in 1..lb /\ k \in 1..lc /\ Lists(out, Before(all, i))
  BY <1>1, <1>2, <1>3, <1>4 DEF LeapAt
<1>6. \A m \in all : i <= m[1] => j <= m[2] /\ k <= m[3]
  BY <1>4 DEF LeapAt
<1>7. i + j + k >= n + 3
  BY <1>1, <1>2, <1>3, <1>5, LeapRoom
<1>8. ASSUME NEW m \in all
      PROVE  \E x \in 1..la : \E y \in 1..lb : \E z \in 1..lc :
               m = << x, y, z >> /\ a[x] = b[y] /\ b[y] = c[z]
  <2>1. m \in TripleMatches(a, b, c)
    BY <1>4
  <2>2. \E x \in DOMAIN a : \E y \in DOMAIN b : \E z \in DOMAIN c :
          m = << x, y, z >> /\ a[x] = b[y] /\ b[y] = c[z]
    BY <2>1, MatchAt
  <2>3. DOMAIN a = 1..la /\ DOMAIN b = 1..lb /\ DOMAIN c = 1..lc
    BY <1>1, <1>2, <1>3
  <2> QED BY <2>2, <2>3, Zenon
<1>9. RunEnds(a, i) /\ RunEnds(b, j) /\ RunEnds(c, k)
  OBVIOUS
<1>10. PICK p \in Nat : p = RunAt(a, i) /\ Past(a, i) = i + p /\ i + p \in (i + 1)..(la + 1)
  BY <1>1, <1>9 DEF RunEnds
<1>11. PICK q \in Nat : q = RunAt(b, j) /\ Past(b, j) = j + q /\ j + q \in (j + 1)..(lb + 1)
  BY <1>2, <1>9 DEF RunEnds
<1>12. PICK w \in Nat : w = RunAt(c, k) /\ Past(c, k) = k + w /\ k + w \in (k + 1)..(lc + 1)
  BY <1>3, <1>9 DEF RunEnds
<1>13. i + p \in (i + 1)..(la + 1) /\ j + q \in (j + 1)..(lb + 1) /\ k + w \in (k + 1)..(lc + 1)
  BY <1>10, <1>11, <1>12
<1>14. key = a[i] /\ key = b[j] /\ key = c[k]
  BY DEF KeyAt
<1>15. \A x \in 1..la : /\ i <= x /\ x < i + p => a[x] = key
                        /\ i + p <= x => key < a[x]
  BY <1>1, <1>9, <1>10, <1>14 DEF RunEnds
<1>16. \A x \in 1..lb : /\ j <= x /\ x < j + q => b[x] = key
                        /\ j + q <= x => key < b[x]
  BY <1>2, <1>9, <1>11, <1>14 DEF RunEnds
<1>17. \A x \in 1..lc : /\ k <= x /\ x < k + w => c[x] = key
                        /\ k + w <= x => key < c[x]
  BY <1>3, <1>9, <1>12, <1>14 DEF RunEnds
<1>18. PICK S : S = Between(all, i, i + p)
  OBVIOUS
<1>19. ASSUME NEW m \in S
       PROVE  m \in CubeOf(i, p, j, q, k, w)
  <2>1. m \in all /\ i <= m[1] /\ m[1] < i + p
    BY <1>18 DEF Between
  <2>2. PICK x \in 1..la : \E y \in 1..lb : \E z \in 1..lc :
          m = << x, y, z >> /\ a[x] = b[y] /\ b[y] = c[z]
    BY <1>8, <2>1
  <2>3. PICK y \in 1..lb : \E z \in 1..lc : m = << x, y, z >> /\ a[x] = b[y] /\ b[y] = c[z]
    BY <2>2
  <2>4. PICK z \in 1..lc : m = << x, y, z >> /\ a[x] = b[y] /\ b[y] = c[z]
    BY <2>3
  <2>5. m[1] = x /\ m[2] = y /\ m[3] = z
    BY <2>4
  <2>6. i <= x /\ x < i + p /\ j <= y /\ k <= z
    BY <1>6, <2>1, <2>5
  <2>7. a[x] = key
    BY <1>15, <2>6
  <2>8. ~ (j + q <= y)
    BY <1>16, <2>4, <2>7
  <2>9. ~ (k + w <= z)
    BY <1>17, <2>4, <2>7
  <2>10. i \in Nat /\ j \in Nat /\ k \in Nat
    BY <1>5
  <2>11. x \in i..(i + p - 1) /\ y \in j..(j + q - 1) /\ z \in k..(k + w - 1)
    BY <2>6, <2>8, <2>9, <2>10
  <2> QED BY <2>4, <2>11 DEF CubeOf
<1>20. ASSUME NEW m \in CubeOf(i, p, j, q, k, w)
       PROVE  m \in S
  <2>1. /\ m = << m[1], m[2], m[3] >>
        /\ m[1] \in i..(i + p - 1) /\ m[2] \in j..(j + q - 1) /\ m[3] \in k..(k + w - 1)
    BY DEF CubeOf
  <2>2. PICK x, y, z : x = m[1] /\ y = m[2] /\ z = m[3]
    OBVIOUS
  <2>3. m = << x, y, z >> /\ x \in i..(i + p - 1) /\ y \in j..(j + q - 1) /\ z \in k..(k + w - 1)
    BY <2>1, <2>2
  <2>4. /\ x \in 1..la /\ i <= x /\ x < i + p
        /\ y \in 1..lb /\ j <= y /\ y < j + q
        /\ z \in 1..lc /\ k <= z /\ z < k + w
    BY <1>5, <1>13, <2>3
  <2>5. a[x] = key /\ b[y] = key /\ c[z] = key
    BY <1>15, <1>16, <1>17, <2>4
  <2>6. << x, y, z >> \in TripleMatches(a, b, c)
    BY <1>1, <1>2, <1>3, <2>4, <2>5, MatchIs
  <2> QED BY <1>4, <1>18, <2>2, <2>3, <2>4, <2>6 DEF Between
<1>21. S = CubeOf(i, p, j, q, k, w)
  BY <1>19, <1>20
<1>22. Lists(Triples(a, i, b, j, c, k), S)
  <2>1. i \in Nat /\ j \in Nat /\ k \in Nat
    BY <1>5
  <2>2. Lists(Triples(a, i, b, j, c, k), CubeOf(i, p, j, q, k, w))
    BY <1>10, <1>11, <1>12, <2>1, TriplesList
  <2> QED BY <1>21, <2>2
<1>23. PICK A : A = Before(all, i)
  OBVIOUS
<1>24. Splits(Before(all, i + p), A, S)
  <2>1. i \in Nat /\ i + p \in Nat /\ i <= i + p
    BY <1>5
  <2>2. \A m \in all : m[1] \in Nat
    BY <1>8
  <2> QED BY <1>18, <1>23, <2>1, <2>2, BeforeSplits
<1>25. Lists(out \o Triples(a, i, b, j, c, k), Before(all, i + p))
  <2>1. A \cap S = {} /\ Before(all, i + p) = A \cup S
    BY <1>24 DEF Splits
  <2>2. Lists(out \o Triples(a, i, b, j, c, k), A \cup S)
    BY <1>5, <1>22, <1>23, <2>1, ListsConcat
  <2> QED BY <2>1, <2>2
<1>26. ASSUME NEW m \in all, i + p <= m[1]
       PROVE  j + q <= m[2] /\ k + w <= m[3]
  <2>1. PICK x \in 1..la : \E y \in 1..lb : \E z \in 1..lc :
          m = << x, y, z >> /\ a[x] = b[y] /\ b[y] = c[z]
    BY <1>8
  <2>2. PICK y \in 1..lb : \E z \in 1..lc : m = << x, y, z >> /\ a[x] = b[y] /\ b[y] = c[z]
    BY <2>1
  <2>3. PICK z \in 1..lc : m = << x, y, z >> /\ a[x] = b[y] /\ b[y] = c[z]
    BY <2>2
  <2>4. m[1] = x /\ m[2] = y /\ m[3] = z
    BY <2>3
  <2>5. i + p <= x /\ i <= x
    BY <1>5, <1>26, <2>4
  <2>6. key < a[x]
    BY <1>15, <2>5
  <2>7. j <= y /\ k <= z
    BY <1>6, <2>4, <2>5
  <2>8. PICK v \in Int : v = a[x] /\ v = b[y] /\ v = c[z]
    BY <1>1, <2>3
  <2>9. ~ (y < j + q)
    <3>1. y < j + q => b[y] = key
      BY <1>16, <2>7
    <3> QED BY <2>6, <2>8, <3>1
  <2>10. ~ (z < k + w)
    <3>1. z < k + w => c[z] = key
      BY <1>17, <2>7
    <3> QED BY <2>6, <2>8, <3>1
  <2> QED BY <1>5, <2>4, <2>9, <2>10
<1>27. (i + p) + (j + q) + (k + w) >= n + 1 + 3
  BY <1>5, <1>7, <1>13
<1>28. i + p \in 1..(la + 1) /\ j + q \in 1..(lb + 1) /\ k + w \in 1..(lc + 1)
  BY <1>5, <1>13
<1>29. LeapAt(a, b, c, i + p, j + q, k + w, out \o Triples(a, i, b, j, c, k), n + 1)
  BY <1>1, <1>2, <1>3, <1>4, <1>25, <1>26, <1>27, <1>28 DEF LeapAt
<1> QED BY <1>29, <1>10, <1>11, <1>12

\* The highest of three keys that are not one.
TopAt(top, a, i, b, j, c, k) ==
  /\ top \in {a[i], b[j], c[k]}
  /\ a[i] <= top /\ b[j] <= top /\ c[k] <= top
  /\ ~ (a[i] = b[j] /\ b[j] = c[k])

\* A round that is not at a match passes none.
LEMMA LeapPast ==
  ASSUME NEW a, NEW b, NEW c, NEW la \in Nat, NEW lb \in Nat, NEW lc \in Nat,
         Column(a, la), Column(b, lb), Column(c, lc),
         NEW i \in 1..la, NEW j \in 1..lb, NEW k \in 1..lc, NEW out, NEW n \in Nat,
         LeapAt(a, b, c, i, j, k, out, n), NEW top, TopAt(top, a, i, b, j, c, k),
         Lands(a, i, top), Lands(b, j, top), Lands(c, k, top)
  PROVE  LeapAt(a, b, c, Leap(a, i, top), Leap(b, j, top), Leap(c, k, top), out, n + 1)
<1>1. la = Len(a) /\ DOMAIN a = 1..la /\ \A m \in 1..la : a[m] \in Int
  BY DEF Column
<1>2. lb = Len(b) /\ DOMAIN b = 1..lb /\ \A m \in 1..lb : b[m] \in Int
  BY DEF Column
<1>3. lc = Len(c) /\ DOMAIN c = 1..lc /\ \A m \in 1..lc : c[m] \in Int
  BY DEF Column
<1>4. PICK all : all = TripleMatches(a, b, c)
  OBVIOUS
<1>5. i \in 1..la /\ j \in 1..lb /\ k \in 1..lc /\ Lists(out, Before(all, i))
  BY <1>1, <1>2, <1>3, <1>4 DEF LeapAt
<1>6. \A m \in all : i <= m[1] => j <= m[2] /\ k <= m[3]
  BY <1>4 DEF LeapAt
<1>7. i + j + k >= n + 3
  BY <1>1, <1>2, <1>3, <1>5, LeapRoom
<1>8. ASSUME NEW m \in all
      PROVE  \E x \in 1..la : \E y \in 1..lb : \E z \in 1..lc :
               m = << x, y, z >> /\ a[x] = b[y] /\ b[y] = c[z]
  <2>1. m \in TripleMatches(a, b, c)
    BY <1>4
  <2>2. \E x \in DOMAIN a : \E y \in DOMAIN b : \E z \in DOMAIN c :
          m = << x, y, z >> /\ a[x] = b[y] /\ b[y] = c[z]
    BY <2>1, MatchAt
  <2>3. DOMAIN a = 1..la /\ DOMAIN b = 1..lb /\ DOMAIN c = 1..lc
    BY <1>1, <1>2, <1>3
  <2> QED BY <2>2, <2>3, Zenon
<1>9. PICK x \in Int, y \in Int, z \in Int : x = a[i] /\ y = b[j] /\ z = c[k]
  BY <1>1, <1>2, <1>3, <1>5
<1>10. /\ top \in {x, y, z} /\ x <= top /\ y <= top /\ z <= top
       /\ ~ (x = y /\ y = z)
  BY <1>9 DEF TopAt
<1>11. top \in Int
  BY <1>10
<1>12. Lands(a, i, top) /\ Lands(b, j, top) /\ Lands(c, k, top)
  OBVIOUS
<1>13. PICK u, v, w : u = Leap(a, i, top) /\ v = Leap(b, j, top) /\ w = Leap(c, k, top)
  OBVIOUS
<1>14. /\ u \in i..(la + 1) /\ (x < top => i < u)
       /\ \A m \in 1..la : i <= m /\ m < u => a[m] < top
  BY <1>1, <1>9, <1>12, <1>13 DEF Lands
<1>15. /\ v \in j..(lb + 1) /\ (y < top => j < v)
       /\ \A m \in 1..lb : j <= m /\ m < v => b[m] < top
  BY <1>2, <1>9, <1>12, <1>13 DEF Lands
<1>16. /\ w \in k..(lc + 1) /\ (z < top => k < w)
       /\ \A m \in 1..lc : k <= m /\ m < w => c[m] < top
  BY <1>3, <1>9, <1>12, <1>13 DEF Lands
<1>17. ASSUME NEW m \in all, i <= m[1]
       PROVE  u <= m[1] /\ v <= m[2] /\ w <= m[3]
  <2>1. PICK d \in 1..la : \E e \in 1..lb : \E f \in 1..lc :
          m = << d, e, f >> /\ a[d] = b[e] /\ b[e] = c[f]
    BY <1>8
  <2>2. PICK e \in 1..lb : \E f \in 1..lc : m = << d, e, f >> /\ a[d] = b[e] /\ b[e] = c[f]
    BY <2>1
  <2>3. PICK f \in 1..lc : m = << d, e, f >> /\ a[d] = b[e] /\ b[e] = c[f]
    BY <2>2
  <2>4. m[1] = d /\ m[2] = e /\ m[3] = f
    BY <2>3
  <2>5. i <= d /\ j <= e /\ k <= f
    BY <1>6, <1>17, <2>4
  <2>6. x <= a[d]
    BY <1>9, <2>5 DEF Ascends, Column
  <2>7. y <= b[e]
    BY <1>9, <2>5 DEF Ascends, Column
  <2>8. z <= c[f]
    BY <1>9, <2>5 DEF Ascends, Column
  <2>9. PICK key \in Int : key = a[d] /\ key = b[e] /\ key = c[f]
    BY <1>1, <2>3
  <2>10. ~ (key < top)
    BY <1>10, <1>11, <2>6, <2>7, <2>8, <2>9
  <2>11. ~ (d < u)
    BY <1>14, <2>5, <2>9, <2>10
  <2>12. ~ (e < v)
    BY <1>15, <2>5, <2>9, <2>10
  <2>13. ~ (f < w)
    BY <1>16, <2>5, <2>9, <2>10
  <2>14. u \in Int /\ v \in Int /\ w \in Int
    BY <1>14, <1>15, <1>16
  <2> QED BY <2>4, <2>11, <2>12, <2>13, <2>14
<1>18. Before(all, u) = Before(all, i)
  <2>1. i \in Nat /\ u \in Nat /\ i <= u /\ (\A m \in all : m[1] \in Nat)
    BY <1>5, <1>8, <1>14
  <2>2. ASSUME NEW m \in all
        PROVE  ~ (i <= m[1] /\ m[1] < u)
    <3>1. PICK d \in Nat : d = m[1]
      BY <2>1
    <3> QED BY <1>17, <2>1, <3>1
  <2> QED BY <2>1, <2>2, BeforeSame
<1>19. u + v + w >= n + 1 + 3
  <2>1. x < top \/ y < top \/ z < top
    BY <1>10
  <2> QED BY <1>5, <1>7, <1>14, <1>15, <1>16, <2>1
<1>20. \A m \in all : u <= m[1] => v <= m[2] /\ w <= m[3]
  <2> SUFFICES ASSUME NEW m \in all, u <= m[1]
               PROVE  v <= m[2] /\ w <= m[3]
    OBVIOUS
  <2>1. i <= m[1]
    BY <1>5, <1>8, <1>14
  <2> QED BY <1>17, <2>1
<1>21. u \in 1..(la + 1) /\ v \in 1..(lb + 1) /\ w \in 1..(lc + 1)
  BY <1>5, <1>14, <1>15, <1>16
<1>22. LeapAt(a, b, c, u, v, w, out, n + 1)
  BY <1>1, <1>2, <1>3, <1>4, <1>5, <1>18, <1>19, <1>20, <1>21 DEF LeapAt
<1> QED BY <1>13, <1>22

\* A sorted sequence of integers is one.
LEMMA ColumnOf ==
  ASSUME NEW s \in Seq(Int), Ascends(s)
  PROVE  \E l \in Nat : Column(s, l)
<1>1. PICK l \in Nat : l = Len(s) /\ DOMAIN s = 1..l
  BY LenProperties
<1>2. \A m \in 1..l : s[m] \in Int
  BY <1>1, ElementOfSeq
<1> QED BY <1>1, <1>2 DEF Column

\* A round keeps the invariant.
LEMMA LeapRound ==
  ASSUME NEW a \in Seq(Int), NEW b \in Seq(Int), NEW c \in Seq(Int),
         Ascends(a), Ascends(b), Ascends(c), NEW s, NEW n \in Nat, LeapInv(a, b, c, s, n)
  PROVE  LeapInv(a, b, c, LeapStep(a, b, c, s), n + 1)
<1>1. PICK la \in Nat : Column(a, la)
  BY ColumnOf
<1>2. PICK lb \in Nat : Column(b, lb)
  BY ColumnOf
<1>3. PICK lc \in Nat : Column(c, lc)
  BY ColumnOf
<1>4. la = Len(a) /\ lb = Len(b) /\ lc = Len(c)
  BY <1>1, <1>2, <1>3 DEF Column
<1>5. PICK i, j, k, out : /\ s = [i |-> i, j |-> j, k |-> k, out |-> out]
                          /\ LeapAt(a, b, c, i, j, k, out, n)
  BY DEF LeapInv
<1>6. s.i = i /\ s.j = j /\ s.k = k /\ s.out = out
  BY <1>5
<1>7. i \in 1..(la + 1) /\ j \in 1..(lb + 1) /\ k \in 1..(lc + 1)
  BY <1>4, <1>5 DEF LeapAt
<1>8. CASE i > la \/ j > lb \/ k > lc
  <2>1. LeapStep(a, b, c, s) = s
    BY <1>4, <1>6, <1>8 DEF LeapStep
  <2>2. LeapAt(a, b, c, i, j, k, out, n + 1)
    BY <1>4, <1>5, <1>8 DEF LeapAt
  <2> QED BY <1>5, <2>1, <2>2 DEF LeapInv
<1>9. CASE ~ (i > la \/ j > lb \/ k > lc)
  <2>1. i \in 1..la /\ j \in 1..lb /\ k \in 1..lc
    BY <1>7, <1>9
  <2>2. i \in DOMAIN a /\ j \in DOMAIN b /\ k \in DOMAIN c
    BY <1>1, <1>2, <1>3, <2>1 DEF Column
  <2>3. a[i] \in Int
    BY <1>1, <2>1 DEF Column
  <2>4. b[j] \in Int
    BY <1>2, <2>1 DEF Column
  <2>5. c[k] \in Int
    BY <1>3, <2>1 DEF Column
  <2>6. CASE a[i] = b[j] /\ b[j] = c[k]
    <3>1. LeapStep(a, b, c, s)
            = [i |-> Past(a, i), j |-> Past(b, j), k |-> Past(c, k),
               out |-> out \o Triples(a, i, b, j, c, k)]
      BY <1>4, <1>6, <1>9, <2>6 DEF LeapStep
    <3>2. RunEnds(a, i) /\ RunEnds(b, j) /\ RunEnds(c, k)
      BY <2>2, RunFacts
    <3>3. PICK key \in Int : key = a[i]
      BY <2>3
    <3>4. KeyAt(key, a, i, b, j, c, k)
      BY <2>6, <3>3 DEF KeyAt
    <3>5. LeapAt(a, b, c, Past(a, i), Past(b, j), Past(c, k),
                 out \o Triples(a, i, b, j, c, k), n + 1)
      BY <1>1, <1>2, <1>3, <1>5, <2>1, <3>2, <3>4, LeapMatch
    <3> QED BY <3>1, <3>5 DEF LeapInv
  <2>7. CASE ~ (a[i] = b[j] /\ b[j] = c[k])
    <3>1. PICK top : top = TopKey({a[i], b[j], c[k]})
      OBVIOUS
    <3>2. LeapStep(a, b, c, s)
            = [i |-> Leap(a, i, top), j |-> Leap(b, j, top), k |-> Leap(c, k, top), out |-> out]
      BY <1>4, <1>6, <1>9, <2>7, <3>1 DEF LeapStep
    <3>3. /\ top \in {a[i], b[j], c[k]}
          /\ a[i] <= top /\ b[j] <= top /\ c[k] <= top
      <4>1. PICK x \in Int, y \in Int, z \in Int : x = a[i] /\ y = b[j] /\ z = c[k]
        BY <2>3, <2>4, <2>5
      <4>2. top = TopKey({x, y, z})
        BY <3>1, <4>1
      <4>3. top \in {x, y, z} /\ x <= top /\ y <= top /\ z <= top
        BY <4>2, TopFacts
      <4> QED BY <4>1, <4>3
    <3>4. TopAt(top, a, i, b, j, c, k)
      BY <2>7, <3>3 DEF TopAt
    <3>5. top \in Int
      BY <2>3, <2>4, <2>5, <3>3
    <3>6. Lands(a, i, top) /\ Lands(b, j, top) /\ Lands(c, k, top)
      BY <2>2, <3>5, LeapFacts
    <3>7. LeapAt(a, b, c, Leap(a, i, top), Leap(b, j, top), Leap(c, k, top), out, n + 1)
      BY <1>1, <1>2, <1>3, <1>5, <2>1, <3>4, <3>6, LeapPast
    <3> QED BY <3>2, <3>7 DEF LeapInv
  <2> QED BY <2>6, <2>7
<1> QED BY <1>8, <1>9

\* The states of m rounds.
Leaps(f, a, b, c, m) ==
  f = [n \in 0..m |-> IF n = 0 THEN [i |-> 1, j |-> 1, k |-> 1, out |-> << >>]
                      ELSE LeapStep(a, b, c, f[n - 1])]

\* There are such states.
LEMMA LeapsExist ==
  ASSUME NEW a, NEW b, NEW c, NEW m \in Nat
  PROVE  \E f : Leaps(f, a, b, c, m)
<1> DEFINE G == {n \in Nat : \E f : Leaps(f, a, b, c, n)}
<1>1. 0 \in G
  <2>1. Leaps([n \in 0..0 |-> [i |-> 1, j |-> 1, k |-> 1, out |-> << >>]], a, b, c, 0)
    BY DEF Leaps
  <2> QED BY <2>1
<1>2. ASSUME NEW n \in 1..m, n - 1 \in G
      PROVE  n \in G
  <2>1. PICK f : Leaps(f, a, b, c, n - 1)
    BY <1>2
  <2>2. PICK v : v = LeapStep(a, b, c, f[n - 1])
    OBVIOUS
  <2>3. PICK g : g = [p \in 0..n |-> IF p = n THEN v ELSE f[p]]
    OBVIOUS
  <2>4. \A p \in 0..(n - 1) : g[p] = f[p]
    BY <2>3
  <2>5. ASSUME NEW p \in 0..n
        PROVE  g[p] = IF p = 0 THEN [i |-> 1, j |-> 1, k |-> 1, out |-> << >>]
                      ELSE LeapStep(a, b, c, g[p - 1])
    <3>1. CASE p = n
      <4>1. g[p] = v /\ p # 0 /\ p - 1 = n - 1
        BY <2>3, <3>1
      <4>2. g[p - 1] = f[n - 1]
        BY <2>4, <3>1
      <4> QED BY <2>2, <4>1, <4>2
    <3>2. CASE p # n
      <4>1. p \in 0..(n - 1)
        BY <3>2
      <4>2. f[p] = IF p = 0 THEN [i |-> 1, j |-> 1, k |-> 1, out |-> << >>]
                   ELSE LeapStep(a, b, c, f[p - 1])
        BY <2>1, <4>1 DEF Leaps
      <4>3. p # 0 => g[p - 1] = f[p - 1]
        BY <2>4, <4>1
      <4> QED BY <2>4, <4>1, <4>2, <4>3
    <3> QED BY <3>1, <3>2
  <2>6. g = [p \in 0..n |-> g[p]]
    BY <2>3
  <2>7. Leaps(g, a, b, c, n)
    BY <2>5, <2>6 DEF Leaps
  <2> QED BY <2>7
<1>3. m \in G
  <2> HIDE DEF G
  <2>1. \A n \in 0..m : n \in G
    BY <1>1, <1>2, UpTo
  <2> QED BY <2>1
<1> QED BY <1>3

\* What comes out at the end is the join.
LEMMA LeapfrogLists ==
  ASSUME NEW a \in Seq(Int), NEW b \in Seq(Int), NEW c \in Seq(Int),
         Ascends(a), Ascends(b), Ascends(c)
  PROVE  Lists(Leapfrog(a, b, c), TripleMatches(a, b, c))
<1>1. PICK la \in Nat, lb \in Nat, lc \in Nat : la = Len(a) /\ lb = Len(b) /\ lc = Len(c)
  BY LenProperties
<1>2. PICK all, rounds : all = TripleMatches(a, b, c) /\ rounds = Len(a) + Len(b) + Len(c)
  OBVIOUS
<1>3. rounds \in Nat /\ rounds = la + lb + lc
  BY <1>1, <1>2
<1> DEFINE at == CHOOSE at : at = [n \in 0..rounds |->
                   IF n = 0 THEN [i |-> 1, j |-> 1, k |-> 1, out |-> << >>]
                   ELSE LeapStep(a, b, c, at[n - 1])]
<1>4. \E f : f = [n \in 0..rounds |->
                   IF n = 0 THEN [i |-> 1, j |-> 1, k |-> 1, out |-> << >>]
                   ELSE LeapStep(a, b, c, f[n - 1])]
  <2>1. \E f : Leaps(f, a, b, c, rounds)
    BY <1>3, LeapsExist
  <2> QED BY <2>1 DEF Leaps
<1>5. at = [n \in 0..rounds |-> IF n = 0 THEN [i |-> 1, j |-> 1, k |-> 1, out |-> << >>]
                                ELSE LeapStep(a, b, c, at[n - 1])]
  BY <1>4
<1>6. Leapfrog(a, b, c) = at[rounds].out
  BY <1>2 DEF Leapfrog
<1> HIDE DEF at
<1>7. \A n \in 0..rounds : LeapInv(a, b, c, at[n], n)
  <2>1. PICK G : G = {n \in 0..rounds : LeapInv(a, b, c, at[n], n)}
    OBVIOUS
  <2>2. 0 \in G
    <3>1. at[0] = [i |-> 1, j |-> 1, k |-> 1, out |-> << >>]
      BY <1>3, <1>5
    <3>2. LeapInv(a, b, c, at[0], 0)
      BY <3>1, LeapStart
    <3> QED BY <1>3, <2>1, <3>2
  <2>3. ASSUME NEW n \in 1..rounds, n - 1 \in G
        PROVE  n \in G
    <3>1. n \in 0..rounds /\ n # 0
      BY <1>3
    <3>2. at[n] = LeapStep(a, b, c, at[n - 1])
      BY <1>5, <3>1
    <3>3. PICK p \in Nat : p = n - 1 /\ p + 1 = n
      BY <1>3
    <3>4. LeapInv(a, b, c, at[p], p)
      BY <2>1, <2>3, <3>3
    <3>5. LeapInv(a, b, c, LeapStep(a, b, c, at[p]), p + 1)
      BY <3>4, LeapRound
    <3> QED BY <2>1, <3>1, <3>2, <3>3, <3>5
  <2>4. \A n \in 0..rounds : n \in G
    BY <1>3, <2>2, <2>3, UpTo
  <2> QED BY <2>1, <2>4
<1>8. LeapInv(a, b, c, at[rounds], rounds)
  <2>1. rounds \in 0..rounds
    BY <1>3
  <2> QED BY <1>7, <2>1
<1>9. PICK i, j, k, out : /\ at[rounds] = [i |-> i, j |-> j, k |-> k, out |-> out]
                          /\ LeapAt(a, b, c, i, j, k, out, rounds)
  BY <1>8 DEF LeapInv
<1>10. Leapfrog(a, b, c) = out
  BY <1>6, <1>9
<1>11. /\ i \in 1..(la + 1) /\ j \in 1..(lb + 1) /\ k \in 1..(lc + 1)
       /\ i + j + k >= rounds + 3 \/ i > la \/ j > lb \/ k > lc
  BY <1>1, <1>9 DEF LeapAt
<1>12. (\A m \in all : i <= m[1] => j <= m[2] /\ k <= m[3]) /\ Lists(out, Before(all, i))
  BY <1>2, <1>9 DEF LeapAt
<1>13. i > la \/ j > lb \/ k > lc
  BY <1>3, <1>11
<1>14. ASSUME NEW m \in all
       PROVE  m[1] < i
  <2>1. m[1] \in DOMAIN a /\ m[2] \in DOMAIN b /\ m[3] \in DOMAIN c
    BY <1>2 DEF TripleMatches
  <2>2. DOMAIN a = 1..la /\ DOMAIN b = 1..lb /\ DOMAIN c = 1..lc
    BY <1>1, LenProperties
  <2>3. PICK x \in 1..la, y \in 1..lb, z \in 1..lc : x = m[1] /\ y = m[2] /\ z = m[3]
    BY <2>1, <2>2
  <2>4. i <= x => j <= y /\ k <= z
    BY <1>12, <2>3
  <2>5. x < i
    BY <1>11, <1>13, <2>4
  <2> QED BY <2>3, <2>5
<1>15. Before(all, i) = all
  BY <1>14 DEF Before
<1> QED BY <1>2, <1>10, <1>12, <1>15

-----------------------------------------------------------------------------
(* The batch joins of the columns that have arrived.                        *)

\* Their keys compare.
LEMMA KeysCompare ==
  ASSUME NEW s \in Seq(JoinKeys)
  PROVE  s \in Seq(Int)
<1>1. PICK l \in Nat : l = Len(s) /\ DOMAIN s = 1..l /\ s = [n \in 1..l |-> s[n]]
  BY LenProperties, SeqDef
<1>2. \A n \in 1..l : s[n] \in JoinKeys
  BY <1>1, ElementOfSeq
<1>3. \A n \in 1..l : s[n] \in Int
  BY <1>2, JoinAssumption
<1>4. s \in [1..l -> Int]
  BY <1>1, <1>3
<1> QED BY <1>4, SeqDef

\* The batch joins of what has arrived.
LEMMA JoinsOnce == JoinTypeInv => BatchJoinsExact
<1> SUFFICES ASSUME JoinTypeInv
             PROVE  BatchJoinsExact
  OBVIOUS
<1>1. PICK l, r, c : l = rIn /\ r = [i \in DOMAIN sIn |-> sIn[i][1]] /\ c = tIn
  OBVIOUS
<1>2. l \in Seq(Int) /\ c \in Seq(Int)
  <2>1. l \in Seq(JoinKeys) /\ c \in Seq(JoinKeys)
    BY <1>1 DEF JoinTypeInv
  <2> QED BY <2>1, KeysCompare
<1>3. r \in Seq(Int)
  <2>1. SColumn(sIn, 1) \in Seq(JoinKeys)
    BY ColumnFacts DEF JoinTypeInv
  <2>2. r = SColumn(sIn, 1)
    BY <1>1 DEF SColumn
  <2> QED BY <2>1, <2>2, KeysCompare
<1>4. Once(HashJoin(l, r), PairMatches(l, r))
  BY <1>2, <1>3, HashJoinLists, ListsOnce
<1>5. ASSUME Ascends(l), Ascends(r)
      PROVE  Once(SortMergeJoin(l, r), PairMatches(l, r))
  BY <1>2, <1>3, <1>5, SortMergeLists, ListsOnce
<1>6. ASSUME Ascends(l), Ascends(r), Ascends(c)
      PROVE  Once(Leapfrog(l, r, c), TripleMatches(l, r, c))
  BY <1>2, <1>3, <1>6, LeapfrogLists, ListsOnce
<1> QED BY <1>1, <1>4, <1>5, <1>6 DEF BatchJoinsExact

\* Every batch join of columns of any keys gives each match once and nothing else.
THEOREM BatchJoinsExactHolds == JoinSpec => []BatchJoinsExact
<1>1. JoinInv => BatchJoinsExact
  BY JoinsOnce DEF JoinInv
<1> QED BY <1>1, JoinsInvariant, PTL
=============================================================================
