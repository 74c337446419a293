--------------------------- MODULE SoftAvgProofs ----------------------------
(***************************************************************************)
(* The weighted average is that of a set of records, whatever the order    *)
(* and the grouping its rows are folded in: facts about powers of two,     *)
(* sums over finite sets and the accumulator of the scan kernels, and what *)
(* they give for its users.                                                *)
(***************************************************************************)
EXTENDS Kernels, PgSoftAvg, Incremental, SelectionProofs

-----------------------------------------------------------------------------
(***************************************************************************)
(* Recursion and induction.                                                *)
(***************************************************************************)

\* A function on the numbers that starts at base and goes on by step.
Recurs(f, base, step) == f[0] = base /\ \A n \in Nat : f[n + 1] = step[<< n + 1, f[n] >>]

\* The same up to m.
RecursTo(f, base, step, m) == f[0] = base /\ \A n \in 1..m : f[n] = step[<< n, f[n - 1] >>]

LEMMA RecursToExists ==
  ASSUME NEW V, NEW base \in V, NEW step \in [Nat \X V -> V], NEW m \in Nat
  PROVE  \E f \in [0..m -> V] : RecursTo(f, base, step, m)
<1> DEFINE good(n) == \E f \in [0..n -> V] : RecursTo(f, base, step, n)
           bad     == {n \in Nat : ~ good(n)}
<1>1. good(0)
  <2>1. [n \in 0..0 |-> base] \in [0..0 -> V]
    OBVIOUS
  <2>2. RecursTo([n \in 0..0 |-> base], base, step, 0)
    BY DEF RecursTo
  <2> QED BY <2>1, <2>2
<1>2. ASSUME NEW n \in Nat, good(n)
      PROVE  good(n + 1)
  <2>1. PICK f \in [0..n -> V] : RecursTo(f, base, step, n)
    BY <1>2
  <2> DEFINE g == [k \in 0..(n + 1) |-> IF k <= n THEN f[k] ELSE step[<< n + 1, f[n] >>]]
  <2>2. f[n] \in V /\ step[<< n + 1, f[n] >>] \in V
    OBVIOUS
  <2>3. g \in [0..(n + 1) -> V]
    BY <2>2
  <2>4. g[0] = base
    BY <2>1 DEF RecursTo
  <2>5. ASSUME NEW k \in 1..(n + 1)
        PROVE  g[k] = step[<< k, g[k - 1] >>]
    <3>1. k - 1 \in 0..n /\ g[k - 1] = f[k - 1]
      OBVIOUS
    <3>2. CASE k <= n
      BY <2>1, <3>1, <3>2 DEF RecursTo
    <3>3. CASE k = n + 1
      <4>1. k \in 0..(n + 1) /\ ~ (k <= n) /\ k - 1 = n
        BY <3>3
      <4>2. g[k] = step[<< n + 1, f[n] >>]
        BY <4>1
      <4> HIDE DEF g
      <4> QED BY <3>1, <3>3, <4>1, <4>2
    <3> QED BY <3>2, <3>3
  <2>6. RecursTo(g, base, step, n + 1)
    BY <2>4, <2>5 DEF RecursTo
  <2> QED BY <2>3, <2>6
<1> HIDE DEF good
<1>3. bad = {}
  <2> SUFFICES ASSUME bad # {} PROVE FALSE
    OBVIOUS
  <2>1. PICK n \in bad : \A k \in bad : n <= k
    BY LeastNumber
  <2>2. n # 0
    BY <1>1, <2>1
  <2>3. n - 1 \in Nat /\ good(n - 1)
    BY <2>1, <2>2
  <2> QED BY <1>2, <2>1, <2>3
<1> QED BY <1>3 DEF good

LEMMA RecursToAgree ==
  ASSUME NEW base, NEW step, NEW m \in Nat, NEW f, NEW g, NEW k \in Nat, k <= m,
         RecursTo(f, base, step, k), RecursTo(g, base, step, m)
  PROVE  \A n \in 0..k : f[n] = g[n]
<1> DEFINE bad == {n \in 0..k : f[n] # g[n]}
<1> SUFFICES ASSUME bad # {} PROVE FALSE
  OBVIOUS
<1>0. bad \in SUBSET Nat
  OBVIOUS
<1>1. PICK n \in bad : \A j \in bad : n <= j
  BY <1>0, LeastNumber
<1>2. n # 0
  BY <1>1 DEF RecursTo
<1>3. n - 1 \in 0..k /\ n \in 1..k /\ n \in 1..m
  BY <1>1, <1>2
<1>4. f[n - 1] = g[n - 1]
  BY <1>1, <1>3
<1>5. f[n] = g[n]
  BY <1>3, <1>4 DEF RecursTo
<1> QED BY <1>1, <1>5

LEMMA RecursExists ==
  ASSUME NEW V, NEW base \in V, NEW step \in [Nat \X V -> V]
  PROVE  \E f \in [Nat -> V] : Recurs(f, base, step)
<1> DEFINE to(n) == CHOOSE f \in [0..n -> V] : RecursTo(f, base, step, n)
           f     == [n \in Nat |-> to(n)[n]]
<1>1. ASSUME NEW n \in Nat
      PROVE  to(n) \in [0..n -> V] /\ RecursTo(to(n), base, step, n)
  BY RecursToExists
<1> HIDE DEF to
<1>2. f \in [Nat -> V]
  BY <1>1
<1>3. f[0] = base
  BY <1>1 DEF RecursTo
<1>4. ASSUME NEW n \in Nat
      PROVE  f[n + 1] = step[<< n + 1, f[n] >>]
  <2>1. to(n)[n] = to(n + 1)[n]
    BY <1>1, RecursToAgree
  <2>2. to(n + 1)[n + 1] = step[<< n + 1, to(n + 1)[n] >>]
    <3>1. RecursTo(to(n + 1), base, step, n + 1)
      BY <1>1
    <3>2. n + 1 \in 1..(n + 1) /\ (n + 1) - 1 = n
      OBVIOUS
    <3> QED BY <3>1, <3>2 DEF RecursTo
  <2> QED BY <2>1, <2>2
<1> HIDE DEF f
<1> QED BY <1>2, <1>3, <1>4 DEF Recurs

\* Powers of two.
LEMMA Pow2Facts ==
  /\ Pow2[0] = 1
  /\ \A n \in Nat : Pow2[n] \in Nat \ {0} /\ Pow2[n + 1] = 2 * Pow2[n]
<1> DEFINE step == [p \in Nat \X Nat |-> 2 * p[2]]
           def(f) == f = [n \in Nat |-> IF n = 0 THEN 1 ELSE 2 * f[n - 1]]
<1>1. \E f : def(f)
  <2>1. step \in [Nat \X Nat -> Nat]
    OBVIOUS
  <2>2. PICK f \in [Nat -> Nat] : Recurs(f, 1, step)
    <3> HIDE DEF step
    <3> QED BY <2>1, RecursExists
  <2>3. \A n \in Nat : f[n] = IF n = 0 THEN 1 ELSE 2 * f[n - 1]
    <3> TAKE n \in Nat
    <3>1. CASE n = 0
      BY <2>2, <3>1 DEF Recurs
    <3>2. CASE n # 0
      <4>1. n - 1 \in Nat /\ (n - 1) + 1 = n /\ f[n - 1] \in Nat
        BY <3>2
      <4>2. f[n] = step[<< n, f[n - 1] >>]
        BY <2>2, <4>1 DEF Recurs
      <4> QED BY <3>2, <4>1, <4>2
    <3> QED BY <3>1, <3>2
  <2> QED BY <2>3
<1>2. def(Pow2)
  BY <1>1 DEF Pow2
<1>3. Pow2[0] = 1 /\ \A n \in Nat : n # 0 => Pow2[n] = 2 * Pow2[n - 1]
  BY <1>2
<1>4. \A n \in Nat : Pow2[n + 1] = 2 * Pow2[n]
  <2> TAKE n \in Nat
  <2>1. n + 1 \in Nat /\ n + 1 # 0 /\ (n + 1) - 1 = n
    OBVIOUS
  <2> QED BY <1>3, <2>1
<1> DEFINE bad == {n \in Nat : Pow2[n] \notin Nat \ {0}}
<1>5. bad = {}
  <2> SUFFICES ASSUME bad # {} PROVE FALSE
    OBVIOUS
  <2>1. PICK n \in bad : \A k \in bad : n <= k
    BY LeastNumber
  <2>2. n # 0
    BY <1>3, <2>1
  <2>3. n - 1 \in Nat /\ Pow2[n - 1] \in Nat \ {0} /\ (n - 1) + 1 = n
    BY <2>1, <2>2
  <2>4. Pow2[n] = 2 * Pow2[n - 1]
    BY <1>4, <2>3
  <2> QED BY <2>1, <2>3, <2>4
<1> QED BY <1>3, <1>4, <1>5

LEMMA Pow2Sum == \A n, k \in Nat : Pow2[n + k] = Pow2[n] * Pow2[k]
<1> TAKE n \in Nat
<1> DEFINE bad == {k \in Nat : Pow2[n + k] # Pow2[n] * Pow2[k]}
<1> SUFFICES ASSUME bad # {} PROVE FALSE
  OBVIOUS
<1>1. PICK k \in bad : \A j \in bad : k <= j
  BY LeastNumber
<1>2. k # 0
  BY <1>1, Pow2Facts
<1>3. k - 1 \in Nat /\ (k - 1) + 1 = k /\ Pow2[n + (k - 1)] = Pow2[n] * Pow2[k - 1]
  BY <1>1, <1>2
<1>4. n + k = (n + (k - 1)) + 1 /\ n + (k - 1) \in Nat
  BY <1>3
<1>5. Pow2[n + k] = 2 * Pow2[n + (k - 1)] /\ Pow2[k] = 2 * Pow2[k - 1]
  BY <1>3, <1>4, Pow2Facts
<1>6. Pow2[n] \in Int /\ Pow2[k - 1] \in Int
  BY <1>3, Pow2Facts
<1>7. \A a, b \in Int : 2 * (a * b) = a * (2 * b)
  OBVIOUS
<1> QED BY <1>1, <1>3, <1>5, <1>6, <1>7
\* A claim about the subsets of a finite set holds if it holds of a set whenever it holds of
\* its proper subsets.
LEMMA SubsetInduct ==
  ASSUME NEW S, IsFiniteSet(S), NEW C,
         \A U \in SUBSET S : (\A V \in SUBSET U : V # U => V \in C) => U \in C
  PROVE  \A U \in SUBSET S : U \in C
<1> DEFINE bad == {n \in Nat : \E U \in SUBSET S : U \notin C /\ Cardinality(U) = n}
<1> SUFFICES ASSUME NEW W \in SUBSET S, W \notin C PROVE FALSE
  OBVIOUS
<1>1. \A U \in SUBSET S : IsFiniteSet(U) /\ Cardinality(U) \in Nat
  BY FS_Subset, FS_CardinalityType
<1>2. bad \in SUBSET Nat /\ bad # {}
  BY <1>1
<1>3. PICK n \in bad : \A k \in bad : n <= k
  BY <1>2, LeastNumber
<1>4. PICK U \in SUBSET S : U \notin C /\ Cardinality(U) = n
  BY <1>3
<1>5. ASSUME NEW V \in SUBSET U, V # U
      PROVE  V \in C
  <2>1. IsFiniteSet(V) /\ Cardinality(V) <= Cardinality(U) /\ Cardinality(V) # Cardinality(U)
    BY <1>1, <1>5, FS_Subset
  <2>2. V \in SUBSET S /\ Cardinality(V) \in Nat /\ Cardinality(U) \in Nat
    BY <1>1
  <2>3. ~ (n <= Cardinality(V))
    BY <1>4, <2>1, <2>2
  <2>4. Cardinality(V) \notin bad
    BY <1>3, <2>3
  <2> HIDE DEF bad
  <2>5. (V \notin C) => Cardinality(V) \in bad
    BY <2>2 DEF bad
  <2> QED BY <2>4, <2>5
<1> QED BY <1>4, <1>5

\* A fold over the subsets of a finite set: what it starts with, and one element at a time.
Folds(g, S, base, pick, step) ==
  \A T \in SUBSET S : g[T] = IF T = {} THEN base ELSE step[<< pick[T], g[T \ {pick[T]}] >>]

LEMMA FoldExists ==
  ASSUME NEW S, IsFiniteSet(S), NEW V, NEW base \in V, NEW step \in [S \X V -> V],
         NEW pick, \A T \in SUBSET S : T # {} => pick[T] \in T
  PROVE  \E g \in [SUBSET S -> V] : Folds(g, S, base, pick, step)
<1> DEFINE A  == [SUBSET S -> V]
           a0 == [T \in SUBSET S |-> base]
           up == [p \in Nat \X A |-> [T \in SUBSET S |->
                   IF T = {} THEN base ELSE step[<< pick[T], p[2][T \ {pick[T]}] >>]]]
<1>1. a0 \in A
  OBVIOUS
<1>2. up \in [Nat \X A -> A]
  <2>1. ASSUME NEW p \in Nat \X A, NEW T \in SUBSET S
        PROVE  (IF T = {} THEN base ELSE step[<< pick[T], p[2][T \ {pick[T]}] >>]) \in V
    <3>1. p[2] \in A /\ T \ {pick[T]} \in SUBSET S
      OBVIOUS
    <3>2. p[2][T \ {pick[T]}] \in V
      BY <3>1
    <3>3. T # {} => step[<< pick[T], p[2][T \ {pick[T]}] >>] \in V
      BY <3>2
    <3> QED BY <3>3
  <2>2. ASSUME NEW p \in Nat \X A
        PROVE  up[p] \in A
    BY <2>1
  <2> QED BY <2>2
<1>3. PICK f \in [Nat -> A] : Recurs(f, a0, up)
  <2> HIDE DEF A, a0, up
  <2> QED BY <1>1, <1>2, RecursExists
<1>4. ASSUME NEW T \in SUBSET S
      PROVE  Cardinality(T) \in Nat /\ (T # {} => /\ Cardinality(T \ {pick[T]}) + 1 = Cardinality(T)
                                                   /\ Cardinality(T \ {pick[T]}) \in Nat)
  <2>1. IsFiniteSet(T) /\ Cardinality(T) \in Nat
    BY FS_Subset, FS_CardinalityType
  <2>2. T # {} => /\ IsFiniteSet(T \ {pick[T]})
                  /\ Cardinality(T \ {pick[T]}) = Cardinality(T) - 1
    BY <2>1, FS_RemoveElement
  <2>3. T # {} => Cardinality(T \ {pick[T]}) \in Nat
    BY <2>2, FS_CardinalityType
  <2> QED BY <2>1, <2>2, <2>3
<1> DEFINE g == [T \in SUBSET S |-> f[Cardinality(T)][T]]
<1>5. g \in [SUBSET S -> V]
  <2>1. ASSUME NEW T \in SUBSET S
        PROVE  f[Cardinality(T)][T] \in V
    <3>1. f[Cardinality(T)] \in A
      BY <1>4
    <3> QED BY <3>1
  <2> QED BY <2>1
<1>6. ASSUME NEW T \in SUBSET S
      PROVE  g[T] = IF T = {} THEN base ELSE step[<< pick[T], g[T \ {pick[T]}] >>]
  <2>1. CASE T = {}
    <3>1. Cardinality(T) = 0
      BY <2>1, FS_EmptySet
    <3>2. f[0] = a0
      BY <1>3 DEF Recurs
    <3> QED BY <2>1, <3>1, <3>2
  <2>2. CASE T # {}
    <3> DEFINE less == T \ {pick[T]}
               k    == Cardinality(less)
    <3>1. k \in Nat /\ Cardinality(T) = k + 1 /\ less \in SUBSET S
      BY <1>4, <2>2
    <3>2. f[k + 1] = up[<< k + 1, f[k] >>]
      BY <1>3, <3>1 DEF Recurs
    <3> HIDE DEF k
    <3>3. k + 1 \in Nat /\ f[k] \in A
      <4>1. f \in [Nat -> A]
        BY <1>3
      <4> HIDE DEF A
      <4> QED BY <3>1, <4>1
    <3>4. f[k + 1][T] = step[<< pick[T], f[k][less] >>]
      BY <2>2, <3>2, <3>3
    <3>5. g[T] = f[k + 1][T] /\ g[less] = f[k][less]
      BY <3>1 DEF k
    <3> QED BY <2>2, <3>4, <3>5
  <2> QED BY <2>1, <2>2
<1> HIDE DEF g
<1> QED BY <1>5, <1>6 DEF Folds
-----------------------------------------------------------------------------
(***************************************************************************)
(* Sums over finite sets.                                                  *)
(***************************************************************************)

\* A function that sums f over the subsets of S, one chosen element at a time.
Sums(g, f, S) ==
  g = [T \in SUBSET S |-> IF T = {} THEN 0
                          ELSE f[CHOOSE x \in T : TRUE] + g[T \ {CHOOSE x \in T : TRUE}]]

\* f gives an integer everywhere in S, which is finite.
Summable(f, S) == IsFiniteSet(S) /\ \A x \in S : f[x] \in Int

LEMMA SumsExist ==
  ASSUME NEW S, NEW f, Summable(f, S)
  PROVE  \E g \in [SUBSET S -> Int] : Sums(g, f, S)
<1> DEFINE pick == [T \in SUBSET S |-> CHOOSE x \in T : TRUE]
           step == [p \in S \X Int |-> f[p[1]] + p[2]]
<1>1. IsFiniteSet(S) /\ \A x \in S : f[x] \in Int
  BY DEF Summable
<1>2. step \in [S \X Int -> Int]
  BY <1>1
<1>3. \A T \in SUBSET S : T # {} => pick[T] \in T
  OBVIOUS
<1>4. PICK g \in [SUBSET S -> Int] : Folds(g, S, 0, pick, step)
  <2>1. 0 \in Int
    OBVIOUS
  <2> HIDE DEF pick, step
  <2> QED BY <1>1, <1>2, <1>3, <2>1, FoldExists
<1>5. ASSUME NEW T \in SUBSET S
      PROVE  g[T] = IF T = {} THEN 0
                    ELSE f[CHOOSE x \in T : TRUE] + g[T \ {CHOOSE x \in T : TRUE}]
  <2>1. g[T] = IF T = {} THEN 0 ELSE step[<< pick[T], g[T \ {pick[T]}] >>]
    BY <1>4 DEF Folds
  <2>2. T # {} => pick[T] \in S /\ g[T \ {pick[T]}] \in Int
    BY <1>3, <1>4
  <2> QED BY <2>1, <2>2
<1>6. g = [T \in SUBSET S |-> g[T]]
  BY <1>4
<1> QED BY <1>4, <1>5, <1>6 DEF Sums

LEMMA SumsAgree ==
  ASSUME NEW S, NEW f, NEW g, NEW h, NEW R \in SUBSET S, IsFiniteSet(S),
         Sums(g, f, S), Sums(h, f, R)
  PROVE  \A T \in SUBSET R : g[T] = h[T]
<1> DEFINE C == {T \in SUBSET R : g[T] = h[T]}
<1>1. ASSUME NEW U \in SUBSET R, \A V \in SUBSET U : V # U => V \in C
      PROVE  U \in C
  <2> DEFINE x == CHOOSE x \in U : TRUE
  <2>1. U \in SUBSET S
    OBVIOUS
  <2>2. CASE U = {}
    BY <2>1, <2>2 DEF Sums
  <2>3. CASE U # {}
    <3>1. x \in U
      BY <2>3
    <3>2. U \ {x} \in SUBSET U /\ U \ {x} # U
      BY <3>1
    <3>3. g[U \ {x}] = h[U \ {x}]
      BY <1>1, <3>2
    <3>4. g[U] = f[x] + g[U \ {x}] /\ h[U] = f[x] + h[U \ {x}]
      BY <2>1, <2>3 DEF Sums
    <3> QED BY <3>3, <3>4
  <2> QED BY <2>2, <2>3
<1>2. IsFiniteSet(R)
  BY FS_Subset
<1> HIDE DEF C
<1>3. \A U \in SUBSET R : U \in C
  BY <1>1, <1>2, SubsetInduct
<1> QED BY <1>3 DEF C

LEMMA SumIsSums ==
  ASSUME NEW S, NEW f, NEW g, IsFiniteSet(S), Sums(g, f, S)
  PROVE  \A T \in SUBSET S : SumFunctionOnSet(f, T) = g[T]
<1> TAKE T \in SUBSET S
<1> DEFINE iter == CHOOSE h : Sums(h, f, T)
<1>1. Sums([U \in SUBSET T |-> g[U]], f, T)
  BY DEF Sums
<1>2. Sums(iter, f, T)
  BY <1>1
<1>3. SumFunctionOnSet(f, T) = iter[T]
  BY DEF SumFunctionOnSet, FoldFunctionOnSet, MapThenFoldSet, Sums
<1> HIDE DEF iter
<1>4. g[T] = iter[T]
  BY <1>2, SumsAgree
<1> QED BY <1>3, <1>4

AnyOrder(g, f, S) == \A T \in SUBSET S : \A x \in T : g[T] = f[x] + g[T \ {x}]

\* The order the elements are chosen in does not matter.
LEMMA SumsAnyOrder ==
  ASSUME NEW S, NEW f, NEW g, Summable(f, S), g \in [SUBSET S -> Int], Sums(g, f, S)
  PROVE  AnyOrder(g, f, S)
<1> DEFINE C == {T \in SUBSET S : \A x \in T : g[T] = f[x] + g[T \ {x}]}
<1>1. ASSUME NEW U \in SUBSET S, \A V \in SUBSET U : V # U => V \in C
      PROVE  U \in C
  <2> SUFFICES ASSUME NEW x \in U PROVE g[U] = f[x] + g[U \ {x}]
    OBVIOUS
  <2> DEFINE y == CHOOSE y \in U : TRUE
  <2>1. y \in U /\ g[U] = f[y] + g[U \ {y}]
    BY DEF Sums
  <2> HIDE DEF y
  <2>2. CASE x = y
    BY <2>1, <2>2
  <2>3. CASE x # y
    <3>1. U \ {y} \in C /\ U \ {x} \in C
      BY <1>1, <2>1
    <3>2. x \in U \ {y} /\ y \in U \ {x}
      BY <2>1, <2>3
    <3>3. g[U \ {y}] = f[x] + g[(U \ {y}) \ {x}]
      BY <3>1, <3>2
    <3>4. g[U \ {x}] = f[y] + g[(U \ {x}) \ {y}]
      BY <3>1, <3>2
    <3>5. (U \ {y}) \ {x} = (U \ {x}) \ {y} /\ (U \ {x}) \ {y} \in SUBSET S
      OBVIOUS
    <3>6. f[x] \in Int /\ f[y] \in Int /\ g[(U \ {x}) \ {y}] \in Int
      BY <2>1, <3>5 DEF Summable
    <3>7. \A a, b, c \in Int : a + (b + c) = b + (a + c)
      OBVIOUS
    <3>8. f[y] + (f[x] + g[(U \ {x}) \ {y}]) = f[x] + (f[y] + g[(U \ {x}) \ {y}])
      BY <3>6, <3>7
    <3>9. g[U] = f[y] + (f[x] + g[(U \ {x}) \ {y}])
      BY <2>1, <3>3, <3>5
    <3> QED BY <3>4, <3>8, <3>9
  <2> QED BY <2>2, <2>3
<1>2. IsFiniteSet(S)
  BY DEF Summable
<1> HIDE DEF C
<1>3. \A U \in SUBSET S : U \in C
  BY <1>1, <1>2, SubsetInduct
<1> QED BY <1>3 DEF C, AnyOrder

\* The sum over no elements, one element more, and its type.
LEMMA SumFacts ==
  ASSUME NEW S, NEW f, Summable(f, S)
  PROVE  /\ SumFunctionOnSet(f, S) \in Int
         /\ SumFunctionOnSet(f, {}) = 0
         /\ \A x \in S : SumFunctionOnSet(f, S) = f[x] + SumFunctionOnSet(f, S \ {x})
<1>1. PICK g \in [SUBSET S -> Int] : Sums(g, f, S)
  BY SumsExist
<1>2. \A T \in SUBSET S : SumFunctionOnSet(f, T) = g[T]
  BY <1>1, SumIsSums DEF Summable
<1>3. AnyOrder(g, f, S)
  <2>1. g \in [SUBSET S -> Int] /\ Sums(g, f, S) /\ Summable(f, S)
    BY <1>1
  <2> QED BY ONLY <2>1, SumsAnyOrder
<1>4. S \in SUBSET S /\ {} \in SUBSET S /\ \A x \in S : S \ {x} \in SUBSET S
  OBVIOUS
<1>5. g[{}] = 0
  BY <1>1, <1>4 DEF Sums
<1>6. g[S] \in Int
  BY <1>1, <1>4
<1>7. \A x \in S : g[S] = f[x] + g[S \ {x}]
  BY <1>3, <1>4 DEF AnyOrder
<1> QED BY <1>2, <1>4, <1>5, <1>6, <1>7
\* A claim about the subsets of a finite set, one element at a time.
LEMMA SetInduct ==
  ASSUME NEW S, IsFiniteSet(S), NEW C, {} \in C,
         \A U \in SUBSET S : \A x \in U : U \ {x} \in C => U \in C
  PROVE  \A U \in SUBSET S : U \in C
<1>1. ASSUME NEW U \in SUBSET S, \A V \in SUBSET U : V # U => V \in C
      PROVE  U \in C
  <2>1. CASE U = {}
    BY <2>1
  <2>2. CASE U # {}
    <3>1. PICK x \in U : TRUE
      BY <2>2
    <3>2. U \ {x} \in SUBSET U /\ U \ {x} # U
      BY <3>1
    <3> QED BY <1>1, <3>1, <3>2
  <2> QED BY <2>1, <2>2
<1> QED BY <1>1, SubsetInduct

LEMMA SummableSubset ==
  ASSUME NEW S, NEW f, Summable(f, S)
  PROVE  \A U \in SUBSET S : Summable(f, U)
BY FS_Subset DEF Summable

\* Equal functions have equal sums.
LEMMA SumCong ==
  ASSUME NEW S, NEW f, NEW g, Summable(f, S), \A x \in S : g[x] = f[x]
  PROVE  SumFunctionOnSet(g, S) = SumFunctionOnSet(f, S)
<1> DEFINE C == {U \in SUBSET S : SumFunctionOnSet(g, U) = SumFunctionOnSet(f, U)}
<1>1. IsFiniteSet(S) /\ Summable(g, S)
  BY DEF Summable
<1>2. {} \in C
  BY <1>1, SumFacts
<1>3. ASSUME NEW U \in SUBSET S, NEW x \in U, U \ {x} \in C
      PROVE  U \in C
  <2>1. Summable(f, U) /\ Summable(g, U)
    BY <1>1, SummableSubset
  <2>2. /\ SumFunctionOnSet(f, U) = f[x] + SumFunctionOnSet(f, U \ {x})
        /\ SumFunctionOnSet(g, U) = g[x] + SumFunctionOnSet(g, U \ {x})
    BY <2>1, SumFacts
  <2> QED BY <1>3, <2>2
<1> HIDE DEF C
<1>4. \A U \in SUBSET S : U \in C
  BY <1>1, <1>2, <1>3, SetInduct
<1> QED BY <1>4 DEF C

\* A common factor.
LEMMA SumScale ==
  ASSUME NEW S, NEW f, NEW g, NEW c \in Int, Summable(f, S), \A x \in S : g[x] = c * f[x]
  PROVE  SumFunctionOnSet(g, S) = c * SumFunctionOnSet(f, S)
<1> DEFINE C == {U \in SUBSET S : SumFunctionOnSet(g, U) = c * SumFunctionOnSet(f, U)}
<1>1. IsFiniteSet(S) /\ Summable(g, S)
  BY DEF Summable
<1>2. {} \in C
  BY <1>1, SumFacts
<1>3. ASSUME NEW U \in SUBSET S, NEW x \in U, U \ {x} \in C
      PROVE  U \in C
  <2>1. Summable(f, U) /\ Summable(g, U) /\ Summable(f, U \ {x})
    BY <1>1, SummableSubset
  <2>2. /\ SumFunctionOnSet(f, U) = f[x] + SumFunctionOnSet(f, U \ {x})
        /\ SumFunctionOnSet(g, U) = g[x] + SumFunctionOnSet(g, U \ {x})
    BY <2>1, SumFacts
  <2>3. f[x] \in Int /\ SumFunctionOnSet(f, U \ {x}) \in Int /\ g[x] = c * f[x]
    BY <2>1, SumFacts DEF Summable
  <2>4. \A a, b \in Int : c * (a + b) = c * a + c * b
    OBVIOUS
  <2>5. SumFunctionOnSet(g, U \ {x}) = c * SumFunctionOnSet(f, U \ {x})
    BY <1>3
  <2>6. c * (f[x] + SumFunctionOnSet(f, U \ {x})) = c * f[x] + c * SumFunctionOnSet(f, U \ {x})
    BY <2>3, <2>4
  <2> QED BY <2>2, <2>3, <2>5, <2>6
<1> HIDE DEF C
<1>4. \A U \in SUBSET S : U \in C
  BY <1>1, <1>2, <1>3, SetInduct
<1> QED BY <1>4 DEF C

\* Two sets without a common element.
LEMMA SumUnion ==
  ASSUME NEW S, NEW R, NEW f, Summable(f, S \cup R), S \cap R = {}
  PROVE  /\ SumFunctionOnSet(f, S \cup R) = SumFunctionOnSet(f, S) + SumFunctionOnSet(f, R)
         /\ Summable(f, S) /\ Summable(f, R)
<1> DEFINE C == {U \in SUBSET R : SumFunctionOnSet(f, S \cup U)
                                    = SumFunctionOnSet(f, S) + SumFunctionOnSet(f, U)}
<1>1. Summable(f, R) /\ Summable(f, S)
  BY SummableSubset
<1>2. {} \in C
  BY <1>1, SumFacts
<1>3. ASSUME NEW U \in SUBSET R, NEW x \in U, U \ {x} \in C
      PROVE  U \in C
  <2>1. S \cup U \in SUBSET (S \cup R) /\ x \in S \cup U /\ (S \cup U) \ {x} = S \cup (U \ {x})
    OBVIOUS
  <2>2. Summable(f, U) /\ Summable(f, S \cup U) /\ Summable(f, U \ {x})
    BY <1>1, <2>1, SummableSubset
  <2>3. /\ SumFunctionOnSet(f, U) = f[x] + SumFunctionOnSet(f, U \ {x})
        /\ SumFunctionOnSet(f, S \cup U) = f[x] + SumFunctionOnSet(f, S \cup (U \ {x}))
    BY <2>1, <2>2, SumFacts
  <2>4. /\ SumFunctionOnSet(f, U \ {x}) \in Int /\ SumFunctionOnSet(f, S) \in Int
        /\ f[x] \in Int
    BY <1>1, <2>2, SumFacts DEF Summable
  <2>5. SumFunctionOnSet(f, S \cup (U \ {x}))
          = SumFunctionOnSet(f, S) + SumFunctionOnSet(f, U \ {x})
    BY <1>3
  <2> QED BY <2>3, <2>4, <2>5
<1> HIDE DEF C
<1>4. \A U \in SUBSET R : U \in C
  BY <1>1, <1>2, <1>3, SetInduct DEF Summable
<1> QED BY <1>1, <1>4 DEF C

\* Counts: a sum of them is one, and none of them is above it.
LEMMA SumNat ==
  ASSUME NEW S, NEW f, IsFiniteSet(S), \A x \in S : f[x] \in Nat
  PROVE  /\ SumFunctionOnSet(f, S) \in Nat
         /\ \A x \in S : f[x] <= SumFunctionOnSet(f, S)
<1> DEFINE C == {U \in SUBSET S : SumFunctionOnSet(f, U) \in Nat}
<1>1. Summable(f, S)
  BY DEF Summable
<1>2. {} \in C
  BY <1>1, SumFacts
<1>3. ASSUME NEW U \in SUBSET S, NEW x \in U, U \ {x} \in C
      PROVE  U \in C
  BY <1>1, <1>3, SummableSubset, SumFacts
<1> HIDE DEF C
<1>4. \A U \in SUBSET S : U \in C
  BY <1>1, <1>2, <1>3, SetInduct DEF Summable
<1>5. \A U \in SUBSET S : SumFunctionOnSet(f, U) \in Nat
  BY <1>4 DEF C
<1>6. ASSUME NEW x \in S
      PROVE  f[x] <= SumFunctionOnSet(f, S)
  <2>1. SumFunctionOnSet(f, S) = f[x] + SumFunctionOnSet(f, S \ {x})
    BY <1>1, SumFacts
  <2>2. SumFunctionOnSet(f, S \ {x}) \in Nat /\ f[x] \in Nat
    BY <1>5
  <2> QED BY <2>1, <2>2
<1> QED BY <1>5, <1>6

LEMMA SumOne ==
  ASSUME NEW x, NEW f, f[x] \in Int
  PROVE  SumFunctionOnSet(f, {x}) = f[x]
<1>1. Summable(f, {x})
  BY FS_Singleton DEF Summable
<1>2. {x} \ {x} = {} /\ x \in {x}
  OBVIOUS
<1> QED BY <1>1, <1>2, SumFacts

\* Zeros add up to zero.
LEMMA SumZero ==
  ASSUME NEW S, NEW f, IsFiniteSet(S), \A x \in S : f[x] = 0
  PROVE  SumFunctionOnSet(f, S) = 0
<1>1. Summable(f, S) /\ \A x \in S : f[x] = 0 * f[x]
  BY DEF Summable
<1>2. SumFunctionOnSet(f, S) = 0 * SumFunctionOnSet(f, S)
  BY <1>1, SumScale
<1>3. SumFunctionOnSet(f, S) \in Int
  BY <1>1, SumFacts
<1> QED BY <1>2, <1>3
-----------------------------------------------------------------------------
(***************************************************************************)
(* The accumulator of a set of records.                                    *)
(***************************************************************************)

\* The records of W have a weight, an integer for a value, and scores whose distances times
\* beta are within Spread.
Scored(rs, W, eps) ==
  /\ IsFiniteSet(W) /\ eps \in Nat \cup {EpsZero}
  /\ \A i \in W : /\ rs[i].v \in Int /\ rs[i].s \in NegInf..PosInf
                  /\ eps = EpsInf \/ rs[i].s # NegInf
  /\ \A i, j \in W : rs[i].s # PosInf /\ rs[j].s # PosInf /\ IsSoft(eps)
                       => eps * (rs[i].s - rs[j].s) <= Spread

TopOf(rs, W) == TopScore({rs[i].s : i \in W})

WeightsAt(rs, W, top, eps) == [i \in W |-> WeightBelow(top, rs[i].s, eps)]
TermsAt(rs, W, top, eps)   == [i \in W |-> WeightBelow(top, rs[i].s, eps) * rs[i].v]

ZAt(rs, W, top, eps) == SumFunctionOnSet(WeightsAt(rs, W, top, eps), W)
UAt(rs, W, top, eps) == SumFunctionOnSet(TermsAt(rs, W, top, eps), W)

\* What absorbing the records of W leaves.
AccOf(rs, W, eps) ==
  IF W = {} THEN NewAcc
  ELSE [mu |-> IF eps = EpsInf THEN NegInf ELSE TopOf(rs, W),
        z  |-> ZAt(rs, W, TopOf(rs, W), eps),
        u  |-> UAt(rs, W, TopOf(rs, W), eps)]

\* Weights at top are integers.
HasWeights(rs, W, top, eps) ==
  \A i \in W : WeightBelow(top, rs[i].s, eps) \in Nat /\ rs[i].v \in Int

LEMMA InfinityFacts ==
  /\ PosInf \in Int /\ NegInf \in Int /\ NegInf < PosInf /\ NegInf = -PosInf
  /\ Spread \in Nat /\ One \in Nat /\ One > 0
<1>1. Spread \in Nat /\ Infinity \in Nat \ {0}
  BY SoftAvgAssumption DEF SoftAvgAssumption
<1>2. One \in Nat \ {0}
  BY <1>1, Pow2Facts DEF One
<1> QED BY <1>1, <1>2 DEF PosInf, NegInf

\* The highest of some scores.
LEMMA TopFacts ==
  ASSUME NEW S, S # {}, S \in SUBSET (NegInf..PosInf)
  PROVE  TopScore(S) \in S /\ \A t \in S : t <= TopScore(S)
<1> DEFINE gaps == {PosInf - s : s \in S}
<1>1. \A s \in S : s \in Int /\ s <= PosInf /\ PosInf - s \in Nat
  BY InfinityFacts
<1>2. gaps \in SUBSET Nat /\ gaps # {}
  BY <1>1
<1> HIDE DEF gaps
<1>3. PICK n \in gaps : \A k \in gaps : n <= k
  BY <1>2, LeastNumber
<1>4. PICK s \in S : n = PosInf - s
  BY <1>3 DEF gaps
<1>5. \A t \in S : t <= s
  <2> TAKE t \in S
  <2>1. PosInf - t \in gaps
    BY DEF gaps
  <2>2. PosInf - s <= PosInf - t
    BY <1>3, <1>4, <2>1
  <2> QED BY <1>1, <2>2, InfinityFacts
<1> QED BY <1>5 DEF TopScore

LEMMA TopIs ==
  ASSUME NEW S, S \in SUBSET (NegInf..PosInf), NEW m \in S, \A t \in S : t <= m
  PROVE  TopScore(S) = m
<1>1. TopScore(S) \in S /\ \A t \in S : t <= TopScore(S)
  BY TopFacts
<1>2. TopScore(S) \in Int /\ m \in Int
  <2>1. \A s \in NegInf..PosInf : s \in Int
    BY InfinityFacts
  <2> QED BY <1>1, <2>1
<1>3. m <= TopScore(S) /\ TopScore(S) <= m
  BY <1>1
<1> QED BY <1>2, <1>3

LEMMA TopOfFacts ==
  ASSUME NEW rs, NEW W, NEW eps, Scored(rs, W, eps), W # {}
  PROVE  /\ TopOf(rs, W) \in NegInf..PosInf /\ TopOf(rs, W) \in Int
         /\ \E i \in W : rs[i].s = TopOf(rs, W)
         /\ \A i \in W : rs[i].s <= TopOf(rs, W) /\ rs[i].s \in Int
         /\ eps # EpsInf => TopOf(rs, W) # NegInf
<1> DEFINE S == {rs[i].s : i \in W}
<1>1. S # {} /\ S \in SUBSET (NegInf..PosInf)
  BY DEF Scored
<1>2. TopScore(S) \in S /\ \A t \in S : t <= TopScore(S)
  <2> HIDE DEF S
  <2> QED BY <1>1, TopFacts
<1>3. TopOf(rs, W) = TopScore(S)
  BY DEF TopOf
<1>4. \A s \in NegInf..PosInf : s \in Int
  BY InfinityFacts
<1> QED BY <1>1, <1>2, <1>3, <1>4 DEF Scored

LEMMA ScoredSubset ==
  ASSUME NEW rs, NEW W, NEW eps, Scored(rs, W, eps)
  PROVE  \A R \in SUBSET W : Scored(rs, R, eps)
BY FS_Subset DEF Scored

\* The top of a union.
LEMMA TopOfUnion ==
  ASSUME NEW rs, NEW W, NEW R, NEW eps, Scored(rs, W \cup R, eps), W # {}, R # {}
  PROVE  TopOf(rs, W \cup R) = Larger(TopOf(rs, W), TopOf(rs, R))
<1> DEFINE a == TopOf(rs, W)
           b == TopOf(rs, R)
           S == {rs[i].s : i \in W \cup R}
<1>1. Scored(rs, W, eps) /\ Scored(rs, R, eps)
  BY ScoredSubset
<1>2. /\ a \in Int /\ (\E i \in W : rs[i].s = a)
      /\ \A i \in W : rs[i].s <= a /\ rs[i].s \in Int
  BY <1>1, TopOfFacts
<1>3. /\ b \in Int /\ (\E i \in R : rs[i].s = b)
      /\ \A i \in R : rs[i].s <= b /\ rs[i].s \in Int
  BY <1>1, TopOfFacts
<1>4. S \in SUBSET (NegInf..PosInf)
  BY DEF Scored
<1>5. a \in S /\ b \in S
  BY <1>2, <1>3
<1>6. \A t \in S : t \in Int /\ (t <= a \/ t <= b)
  BY <1>2, <1>3
<1>7. TopOf(rs, W \cup R) = TopScore(S)
  BY DEF TopOf
<1> HIDE DEF a, b, S
<1>8. Larger(a, b) \in S /\ \A t \in S : t <= Larger(a, b)
  BY <1>2, <1>3, <1>5, <1>6 DEF Larger
<1>9. TopScore(S) = Larger(a, b)
  BY <1>4, <1>8, TopIs
<1> QED BY <1>7, <1>9 DEF a, b

LEMMA Distributes == \A e, a, b \in Nat : e * (a + b) = e * a + e * b /\ e * a \in Nat
OBVIOUS

LEMMA ShrinkExact == \A x \in Int : \A n \in Nat : (Pow2[n] * x) \div Pow2[n] = x
<1> TAKE x \in Int
<1> TAKE n \in Nat
<1>1. Pow2[n] \in Nat \ {0}
  BY Pow2Facts
<1>2. \A p \in Nat \ {0} : (p * x) \div p = x
  OBVIOUS
<1> QED BY <1>1, <1>2

\* A weight that the distance of the score leaves within Spread.
LEMMA ShrinkOne == \A n \in 0..Spread : One \div Pow2[n] = Pow2[Spread - n]
<1> TAKE n \in 0..Spread
<1>1. Spread \in Nat /\ n \in Nat /\ Spread - n \in Nat /\ n + (Spread - n) = Spread
  BY InfinityFacts
<1>2. One = Pow2[n] * Pow2[Spread - n]
  BY <1>1, Pow2Sum DEF One
<1>3. Pow2[Spread - n] \in Int
  BY <1>1, Pow2Facts
<1> QED BY <1>1, <1>2, <1>3, ShrinkExact
\* The weight of a record below a top that is not infinite, at a temperature between.
LEMMA SoftWeight ==
  ASSUME NEW eps \in Nat, IsSoft(eps), NEW top \in Int, top < PosInf, NEW s \in Int, s <= top,
         eps * (top - s) <= Spread
  PROVE  /\ eps * (top - s) \in 0..Spread
         /\ WeightBelow(top, s, eps) = Pow2[Spread - eps * (top - s)]
         /\ WeightBelow(top, s, eps) \in Nat
<1>1. top - s \in Nat /\ eps * (top - s) \in Nat /\ Spread \in Nat
  BY Distributes, InfinityFacts
<1>2. eps * (top - s) \in 0..Spread
  BY <1>1
<1>3. ~ Sharp(top, eps) /\ eps # EpsInf
  BY InfinityFacts DEF Sharp, IsSoft, EpsZero, EpsInf
<1>4. WeightBelow(top, s, eps) = One \div Pow2[eps * (top - s)]
  BY <1>3 DEF WeightBelow, Shrink
<1>5. Spread - eps * (top - s) \in Nat
  BY <1>1, <1>2
<1> QED BY <1>2, <1>4, <1>5, ShrinkOne, Pow2Facts

\* Where only the argmax counts, or everything does, a weight is one or nothing.
LEMMA SharpWeight ==
  ASSUME NEW top, NEW s, NEW eps, Sharp(top, eps) \/ eps = EpsInf
  PROVE  /\ WeightBelow(top, s, eps) = IF Sharp(top, eps) /\ s # top THEN 0 ELSE One
         /\ WeightBelow(top, s, eps) \in Nat
BY InfinityFacts DEF WeightBelow, Sharp, EpsZero, EpsInf

\* The three ways to weigh.
LEMMA Temperature ==
  ASSUME NEW eps \in Nat \cup {EpsZero}, NEW top \in Int, top <= PosInf
  PROVE  \/ Sharp(top, eps) \/ eps = EpsInf
         \/ IsSoft(eps) /\ eps \in Nat /\ top < PosInf
BY InfinityFacts DEF Sharp, IsSoft, EpsZero, EpsInf

\* The weights of a set at the top of a set around it.
LEMMA WeightsBelow ==
  ASSUME NEW rs, NEW W, NEW B, NEW eps, Scored(rs, B, eps), W \in SUBSET B, B # {}
  PROVE  HasWeights(rs, W, TopOf(rs, B), eps)
<1> DEFINE top == TopOf(rs, B)
<1>1. /\ top \in NegInf..PosInf /\ top \in Int
      /\ \A i \in B : rs[i].s <= top /\ rs[i].s \in Int
  BY TopOfFacts
<1>2. PICK t \in B : rs[t].s = top
  BY TopOfFacts
<1>3. eps \in Nat \cup {EpsZero} /\ \A i \in B : rs[i].v \in Int
  BY DEF Scored
<1>4. top <= PosInf
  BY <1>1, InfinityFacts
<1>5. CASE Sharp(top, eps) \/ eps = EpsInf
  BY <1>3, <1>5, SharpWeight DEF HasWeights
<1>6. CASE IsSoft(eps) /\ eps \in Nat /\ top < PosInf
  <2>1. ASSUME NEW i \in W
        PROVE  WeightBelow(top, rs[i].s, eps) \in Nat
    <3>1. rs[i].s # PosInf /\ rs[t].s # PosInf
      BY <1>1, <1>2, <1>6, InfinityFacts
    <3>2. eps * (rs[t].s - rs[i].s) <= Spread
      BY <1>6, <3>1 DEF Scored
    <3> HIDE DEF top
    <3> QED BY <1>1, <1>2, <1>6, <3>2, SoftWeight
  <2> QED BY <1>3, <2>1 DEF HasWeights
<1> QED BY <1>1, <1>3, <1>4, <1>5, <1>6, Temperature

LEMMA WeighedSummable ==
  ASSUME NEW rs, NEW W, NEW top, NEW eps, IsFiniteSet(W), HasWeights(rs, W, top, eps)
  PROVE  Summable(WeightsAt(rs, W, top, eps), W) /\ Summable(TermsAt(rs, W, top, eps), W)
<1>1. \A i \in W : WeightBelow(top, rs[i].s, eps) \in Int /\ rs[i].v \in Int
  BY DEF HasWeights
<1>2. \A a, b \in Int : a * b \in Int
  OBVIOUS
<1> QED BY <1>1, <1>2 DEF Summable, WeightsAt, TermsAt

\* Both sums of a union of two sets, at one top.
LEMMA SplitAt ==
  ASSUME NEW rs, NEW W, NEW R, NEW top, NEW eps, IsFiniteSet(W \cup R), W \cap R = {},
         HasWeights(rs, W \cup R, top, eps)
  PROVE  /\ ZAt(rs, W \cup R, top, eps) = ZAt(rs, W, top, eps) + ZAt(rs, R, top, eps)
         /\ UAt(rs, W \cup R, top, eps) = UAt(rs, W, top, eps) + UAt(rs, R, top, eps)
<1> DEFINE w == WeightsAt(rs, W \cup R, top, eps)
           m == TermsAt(rs, W \cup R, top, eps)
<1>1. Summable(w, W \cup R) /\ Summable(m, W \cup R)
  BY WeighedSummable
<1>2. /\ \A i \in W : WeightsAt(rs, W, top, eps)[i] = w[i] /\ TermsAt(rs, W, top, eps)[i] = m[i]
      /\ \A i \in R : WeightsAt(rs, R, top, eps)[i] = w[i] /\ TermsAt(rs, R, top, eps)[i] = m[i]
  BY DEF WeightsAt, TermsAt
<1> HIDE DEF w, m
<1>3. /\ SumFunctionOnSet(w, W \cup R) = SumFunctionOnSet(w, W) + SumFunctionOnSet(w, R)
      /\ Summable(w, W) /\ Summable(w, R)
  BY <1>1, SumUnion
<1>4. /\ SumFunctionOnSet(m, W \cup R) = SumFunctionOnSet(m, W) + SumFunctionOnSet(m, R)
      /\ Summable(m, W) /\ Summable(m, R)
  BY <1>1, SumUnion
<1>5. /\ ZAt(rs, W, top, eps) = SumFunctionOnSet(w, W)
      /\ ZAt(rs, R, top, eps) = SumFunctionOnSet(w, R)
  BY <1>2, <1>3, SumCong DEF ZAt
<1>6. /\ UAt(rs, W, top, eps) = SumFunctionOnSet(m, W)
      /\ UAt(rs, R, top, eps) = SumFunctionOnSet(m, R)
  BY <1>2, <1>4, SumCong DEF UAt
<1>7. /\ ZAt(rs, W \cup R, top, eps) = SumFunctionOnSet(w, W \cup R)
      /\ UAt(rs, W \cup R, top, eps) = SumFunctionOnSet(m, W \cup R)
  BY DEF ZAt, UAt, w, m
<1> QED BY <1>3, <1>4, <1>5, <1>6, <1>7

\* The sums at one top, re-based to a higher one, are the sums at that one.
LEMMA Rescaled ==
  ASSUME NEW rs, NEW W, NEW eps, Scored(rs, W, eps), eps \in Nat, IsSoft(eps),
         NEW low \in Int, NEW top \in Int, low <= top, top < PosInf,
         \A i \in W : rs[i].s \in Int /\ rs[i].s <= low /\ eps * (top - rs[i].s) <= Spread
  PROVE  /\ Shrink(ZAt(rs, W, low, eps), eps, top - low) = ZAt(rs, W, top, eps)
         /\ Shrink(UAt(rs, W, low, eps), eps, top - low) = UAt(rs, W, top, eps)
<1> DEFINE n == eps * (top - low)
<1>1. n \in Nat /\ top - low \in Nat
  BY Distributes
<1>2. ASSUME NEW i \in W
      PROVE  /\ WeightBelow(low, rs[i].s, eps) = Pow2[n] * WeightBelow(top, rs[i].s, eps)
             /\ WeightBelow(top, rs[i].s, eps) \in Nat
  <2> DEFINE s == rs[i].s
             a == eps * (low - s)
             b == eps * (top - s)
  <2>1. s \in Int /\ s <= low /\ low - s \in Nat /\ b <= Spread /\ s <= top
    OBVIOUS
  <2>2. top - s = (top - low) + (low - s)
    BY <2>1
  <2>3. eps * ((top - low) + (low - s)) = eps * (top - low) + eps * (low - s) /\ a \in Nat
    BY <1>1, <2>1, Distributes
  <2>4. b = n + a
    BY <2>2, <2>3
  <2>5. a <= Spread
    BY <1>1, <2>1, <2>3, <2>4, InfinityFacts
  <2>6. low < PosInf
    BY InfinityFacts
  <2>7. WeightBelow(low, s, eps) = Pow2[Spread - a]
    BY <2>1, <2>5, <2>6, SoftWeight
  <2>8. WeightBelow(top, s, eps) = Pow2[Spread - b] /\ WeightBelow(top, s, eps) \in Nat
    BY <2>1, SoftWeight
  <2> HIDE DEF a, b, n
  <2>9. Spread - b \in Nat /\ Spread - a = n + (Spread - b)
    BY <1>1, <2>1, <2>3, <2>4, InfinityFacts
  <2>10. Pow2[Spread - a] = Pow2[n] * Pow2[Spread - b]
    BY <1>1, <2>9, Pow2Sum
  <2> QED BY <2>7, <2>8, <2>10
<1>3. IsFiniteSet(W) /\ \A i \in W : rs[i].v \in Int
  BY DEF Scored
<1>4. HasWeights(rs, W, top, eps)
  BY <1>2, <1>3 DEF HasWeights
<1>5. Summable(WeightsAt(rs, W, top, eps), W) /\ Summable(TermsAt(rs, W, top, eps), W)
  BY <1>3, <1>4, WeighedSummable
<1> DEFINE p == Pow2[n]
<1>6. p \in Int
  BY <1>1, Pow2Facts
<1>7. \A i \in W : /\ WeightsAt(rs, W, low, eps)[i] = p * WeightsAt(rs, W, top, eps)[i]
                   /\ TermsAt(rs, W, low, eps)[i] = p * TermsAt(rs, W, top, eps)[i]
  <2> TAKE i \in W
  <2> DEFINE w == WeightBelow(top, rs[i].s, eps)
             v == rs[i].v
  <2>1. WeightBelow(low, rs[i].s, eps) = p * w /\ w \in Int /\ v \in Int
    BY <1>2, <1>3
  <2>2. \A a, b, c \in Int : (a * b) * c = a * (b * c)
    OBVIOUS
  <2>3. (p * w) * v = p * (w * v)
    BY <1>6, <2>1, <2>2
  <2>4. /\ WeightsAt(rs, W, low, eps)[i] = WeightBelow(low, rs[i].s, eps)
        /\ WeightsAt(rs, W, top, eps)[i] = w
        /\ TermsAt(rs, W, low, eps)[i] = WeightBelow(low, rs[i].s, eps) * v
        /\ TermsAt(rs, W, top, eps)[i] = w * v
    BY DEF WeightsAt, TermsAt
  <2> HIDE DEF p, w, v
  <2> QED BY <2>1, <2>3, <2>4
<1>8. /\ ZAt(rs, W, low, eps) = p * ZAt(rs, W, top, eps)
      /\ UAt(rs, W, low, eps) = p * UAt(rs, W, top, eps)
  <2> HIDE DEF p
  <2> QED BY <1>5, <1>6, <1>7, SumScale DEF ZAt, UAt
<1>9. ZAt(rs, W, top, eps) \in Int /\ UAt(rs, W, top, eps) \in Int
  BY <1>5, SumFacts DEF ZAt, UAt
<1> HIDE DEF n
<1>10. /\ (Pow2[n] * ZAt(rs, W, top, eps)) \div Pow2[n] = ZAt(rs, W, top, eps)
       /\ (Pow2[n] * UAt(rs, W, top, eps)) \div Pow2[n] = UAt(rs, W, top, eps)
  BY <1>1, <1>9, ShrinkExact
<1> QED BY <1>8, <1>10 DEF Shrink, n
\* The sums of a set that is not empty: the record on top has a weight.
LEMMA AccFacts ==
  ASSUME NEW rs, NEW W, NEW eps, Scored(rs, W, eps), W # {}
  PROVE  /\ ZAt(rs, W, TopOf(rs, W), eps) \in Nat \ {0}
         /\ UAt(rs, W, TopOf(rs, W), eps) \in Int
<1> DEFINE top == TopOf(rs, W)
           w   == WeightsAt(rs, W, top, eps)
<1>1. IsFiniteSet(W) /\ HasWeights(rs, W, top, eps) /\ eps \in Nat \cup {EpsZero}
  BY WeightsBelow DEF Scored
<1>2. Summable(w, W) /\ Summable(TermsAt(rs, W, top, eps), W)
  <2> HIDE DEF top
  <2> QED BY <1>1, WeighedSummable
<1>3. \A i \in W : w[i] \in Nat
  BY <1>1 DEF HasWeights, WeightsAt
<1>4. PICK t \in W : rs[t].s = top
  BY TopOfFacts
<1>5. top \in Int /\ top <= PosInf
  BY TopOfFacts, InfinityFacts
<1>6. WeightBelow(top, top, eps) > 0
  <2>1. CASE Sharp(top, eps) \/ eps = EpsInf
    BY <2>1, SharpWeight, InfinityFacts
  <2>2. CASE IsSoft(eps) /\ eps \in Nat /\ top < PosInf
    <3>1. top - top = 0 /\ eps * 0 = 0 /\ 0 <= Spread
      BY <1>5, <2>2, InfinityFacts
    <3> HIDE DEF top
    <3>2. WeightBelow(top, top, eps) = Pow2[Spread - eps * (top - top)]
      BY <1>5, <2>2, <3>1, SoftWeight
    <3>3. Spread - eps * (top - top) = Spread /\ One > 0
      BY <3>1, InfinityFacts
    <3> QED BY <3>2, <3>3 DEF One
  <2> QED BY <1>1, <1>5, <2>1, <2>2, Temperature
<1>7. w[t] > 0 /\ w[t] \in Nat
  BY <1>3, <1>4, <1>6 DEF WeightsAt
<1> HIDE DEF w, top
<1>8. SumFunctionOnSet(w, W) \in Nat /\ w[t] <= SumFunctionOnSet(w, W)
  BY <1>1, <1>3, <1>4, SumNat
<1>9. UAt(rs, W, top, eps) \in Int
  BY <1>2, SumFacts DEF UAt
<1> QED BY <1>7, <1>8, <1>9 DEF ZAt, w, top

\* Below another top a set has no weight where only the argmax counts.
LEMMA Outweighed ==
  ASSUME NEW rs, NEW W, NEW eps, Scored(rs, W, eps), NEW top, Sharp(top, eps),
         \A i \in W : rs[i].s # top
  PROVE  ZAt(rs, W, top, eps) = 0 /\ UAt(rs, W, top, eps) = 0
<1>1. \A i \in W : WeightBelow(top, rs[i].s, eps) = 0 /\ rs[i].v \in Int
  BY SharpWeight DEF Scored
<1>2. /\ \A i \in W : WeightsAt(rs, W, top, eps)[i] = 0
      /\ \A i \in W : TermsAt(rs, W, top, eps)[i] = 0
  BY <1>1 DEF WeightsAt, TermsAt
<1>3. IsFiniteSet(W)
  BY DEF Scored
<1> QED BY <1>2, <1>3, SumZero DEF ZAt, UAt

\* Adding to the sums of an accumulator, field by field.
LEMMA AddedFields ==
  ASSUME NEW a, a = [mu |-> a.mu, z |-> a.z, u |-> a.u], NEW x, NEW y
  PROVE  [a EXCEPT !.z = @ + x, !.u = @ + y] = [mu |-> a.mu, z |-> a.z + x, u |-> a.u + y]
<1> DEFINE c == [a EXCEPT !.z = a.z + x]
           d == [mu |-> a.mu, z |-> a.z + x, u |-> a.u]
<1>1. \A m, z, u, n : [[mu |-> m, z |-> z, u |-> u] EXCEPT !.z = n] = [mu |-> m, z |-> n, u |-> u]
  OBVIOUS
<1>2. \A m, z, u, n : [[mu |-> m, z |-> z, u |-> u] EXCEPT !.u = n] = [mu |-> m, z |-> z, u |-> n]
  OBVIOUS
<1>3. c = d
  BY <1>1
<1>4. [a EXCEPT !.z = @ + x, !.u = @ + y] = [c EXCEPT !.u = c.u + y]
  OBVIOUS
<1>5. c.u = a.u
  BY <1>3
<1> HIDE DEF c
<1>6. [c EXCEPT !.u = c.u + y] = [d EXCEPT !.u = a.u + y]
  BY <1>3, <1>5
<1>7. [d EXCEPT !.u = a.u + y] = [mu |-> a.mu, z |-> a.z + x, u |-> a.u + y]
  BY <1>2
<1> QED BY <1>4, <1>6, <1>7

\* Merging the accumulators of two sets of records without a common one gives that of both.
THEOREM MergeExact ==
  ASSUME NEW rs, NEW W, NEW R, NEW eps, Scored(rs, W \cup R, eps), W \cap R = {}
  PROVE  MergeAcc(AccOf(rs, W, eps), AccOf(rs, R, eps), eps) = AccOf(rs, W \cup R, eps)
<1> DEFINE B  == W \cup R
           tW == TopOf(rs, W)
           tR == TopOf(rs, R)
           tX == TopOf(rs, B)
           a  == AccOf(rs, W, eps)
           b  == AccOf(rs, R, eps)
<1> SUFFICES MergeAcc(a, b, eps) = AccOf(rs, B, eps)
  OBVIOUS
<1>1. Scored(rs, W, eps) /\ Scored(rs, R, eps) /\ IsFiniteSet(B) /\ eps \in Nat \cup {EpsZero}
  <2>1. Scored(rs, W, eps) /\ Scored(rs, R, eps)
    BY ScoredSubset
  <2> QED BY <2>1 DEF Scored
<1>2. CASE R = {}
  <2>1. IsEmpty(b) /\ B = W
    BY <1>2 DEF AccOf, IsEmpty, NewAcc
  <2> HIDE DEF a, b
  <2>2. MergeAcc(a, b, eps) = a
    BY <2>1 DEF MergeAcc
  <2>3. a = AccOf(rs, B, eps)
    BY <2>1 DEF a
  <2> QED BY <2>2, <2>3
<1>3. CASE R # {} /\ W = {}
  <2>1. ~ IsEmpty(b)
    BY <1>1, <1>3, AccFacts DEF AccOf, IsEmpty
  <2>2. IsEmpty(a) /\ B = R
    BY <1>3 DEF AccOf, IsEmpty, NewAcc
  <2> HIDE DEF a, b
  <2>3. MergeAcc(a, b, eps) = b
    BY <2>1, <2>2 DEF MergeAcc
  <2>4. b = AccOf(rs, B, eps)
    BY <2>2 DEF b
  <2> QED BY <2>3, <2>4
<1>4. CASE R # {} /\ W # {}
  <2>1. ~ IsEmpty(a) /\ ~ IsEmpty(b)
    BY <1>1, <1>4, AccFacts DEF AccOf, IsEmpty
  <2>2. /\ a = [mu |-> IF eps = EpsInf THEN NegInf ELSE tW,
                z |-> ZAt(rs, W, tW, eps), u |-> UAt(rs, W, tW, eps)]
        /\ b = [mu |-> IF eps = EpsInf THEN NegInf ELSE tR,
                z |-> ZAt(rs, R, tR, eps), u |-> UAt(rs, R, tR, eps)]
        /\ AccOf(rs, B, eps) = [mu |-> IF eps = EpsInf THEN NegInf ELSE tX,
                                z |-> ZAt(rs, B, tX, eps), u |-> UAt(rs, B, tX, eps)]
    BY <1>4 DEF AccOf
  <2>3. tX = Larger(tW, tR)
    BY <1>4, TopOfUnion
  <2>4. /\ tW \in Int /\ tR \in Int /\ tX \in Int /\ tX <= PosInf
        /\ \A i \in W : rs[i].s <= tW /\ rs[i].s \in Int
        /\ \A i \in R : rs[i].s <= tR /\ rs[i].s \in Int
    BY <1>1, <1>4, TopOfFacts, InfinityFacts
  <2>5. tW <= tX /\ tR <= tX /\ (tX = tW \/ tX = tR)
    BY <2>3, <2>4 DEF Larger
  <2>6. HasWeights(rs, B, tX, eps)
    BY <1>4, WeightsBelow
  <2> HIDE DEF tW, tR, tX, a, b
  <2>7. /\ ZAt(rs, B, tX, eps) = ZAt(rs, W, tX, eps) + ZAt(rs, R, tX, eps)
        /\ UAt(rs, B, tX, eps) = UAt(rs, W, tX, eps) + UAt(rs, R, tX, eps)
    BY <1>1, <2>6, SplitAt
  <2> DEFINE added == [a EXCEPT !.z = @ + b.z, !.u = @ + b.u]
             both  == [mu |-> a.mu, z |-> a.z + b.z, u |-> a.u + b.u]
  <2>8. added = both
    <3>1. a = [mu |-> a.mu, z |-> a.z, u |-> a.u]
      BY <2>2
    <3> QED BY <3>1, AddedFields
  <2>9. CASE eps = EpsInf
    <3>1. MergeAcc(a, b, eps) = added
      BY <2>1, <2>9 DEF MergeAcc
    <3>2. \A i \in B : \A t, s : WeightBelow(t, s, eps) = One
      BY <2>9 DEF WeightBelow, Sharp, EpsZero, EpsInf
    <3>3. /\ ZAt(rs, W, tX, eps) = ZAt(rs, W, tW, eps) /\ UAt(rs, W, tX, eps) = UAt(rs, W, tW, eps)
          /\ ZAt(rs, R, tX, eps) = ZAt(rs, R, tR, eps) /\ UAt(rs, R, tX, eps) = UAt(rs, R, tR, eps)
      BY <3>2 DEF ZAt, UAt, WeightsAt, TermsAt
    <3> HIDE DEF added
    <3>4. both = AccOf(rs, B, eps)
      BY <2>2, <2>7, <2>9, <3>3
    <3> QED BY <2>8, <3>1, <3>4
  <2>10. CASE eps # EpsInf /\ (eps = EpsZero \/ tX = PosInf)
    <3>1. Sharp(tX, eps)
      BY <2>10 DEF Sharp
    <3>2. PosInf \in {a.mu, b.mu} \/ eps = EpsZero
      BY <2>2, <2>5, <2>10
    <3>3. MergeAcc(a, b, eps) = IF a.mu = b.mu THEN added ELSE IF a.mu > b.mu THEN a ELSE b
      BY <2>1, <2>10, <3>2 DEF MergeAcc
    <3>4. a.mu = tW /\ b.mu = tR
      BY <2>2, <2>10
    <3>5. tW # tX => ZAt(rs, W, tX, eps) = 0 /\ UAt(rs, W, tX, eps) = 0
      BY <1>1, <2>4, <2>5, <3>1, Outweighed
    <3>6. tR # tX => ZAt(rs, R, tX, eps) = 0 /\ UAt(rs, R, tX, eps) = 0
      BY <1>1, <2>4, <2>5, <3>1, Outweighed
    <3>7. /\ ZAt(rs, W, tW, eps) \in Int /\ UAt(rs, W, tW, eps) \in Int
          /\ ZAt(rs, R, tR, eps) \in Int /\ UAt(rs, R, tR, eps) \in Int
      BY <1>1, <1>4, AccFacts DEF tW, tR
    <3> HIDE DEF added
    <3>8. CASE tW = tR
      BY <2>2, <2>5, <2>7, <2>8, <2>10, <3>3, <3>4, <3>8
    <3>9. CASE tW # tR /\ tX = tW
      <4>1. MergeAcc(a, b, eps) = a
        BY <2>4, <2>5, <3>3, <3>4, <3>9
      <4>2. /\ ZAt(rs, B, tX, eps) = ZAt(rs, W, tW, eps) + 0
            /\ UAt(rs, B, tX, eps) = UAt(rs, W, tW, eps) + 0
        BY <2>7, <3>6, <3>9
      <4>3. ZAt(rs, B, tX, eps) = ZAt(rs, W, tW, eps) /\ UAt(rs, B, tX, eps) = UAt(rs, W, tW, eps)
        BY <3>7, <4>2
      <4>4. AccOf(rs, B, eps) = a
        BY <2>2, <3>9, <4>3
      <4> QED BY <4>1, <4>4
    <3>10. CASE tW # tR /\ tX = tR
      <4>1. MergeAcc(a, b, eps) = b
        BY <2>4, <2>5, <3>3, <3>4, <3>10
      <4>2. /\ ZAt(rs, B, tX, eps) = 0 + ZAt(rs, R, tR, eps)
            /\ UAt(rs, B, tX, eps) = 0 + UAt(rs, R, tR, eps)
        BY <2>7, <3>5, <3>10
      <4>3. ZAt(rs, B, tX, eps) = ZAt(rs, R, tR, eps) /\ UAt(rs, B, tX, eps) = UAt(rs, R, tR, eps)
        BY <3>7, <4>2
      <4>4. AccOf(rs, B, eps) = b
        BY <2>2, <3>10, <4>3
      <4> QED BY <4>1, <4>4
    <3> QED BY <2>5, <3>8, <3>9, <3>10
  <2>11. CASE eps # EpsInf /\ eps # EpsZero /\ tX # PosInf
    <3>1. eps \in Nat /\ IsSoft(eps) /\ tX < PosInf
      BY <1>1, <2>4, <2>11, InfinityFacts DEF IsSoft, EpsInf
    <3>2. a.mu = tW /\ b.mu = tR /\ tW # PosInf /\ tR # PosInf
      BY <2>2, <2>4, <2>5, <2>11, <3>1, InfinityFacts
    <3>3. MergeAcc(a, b, eps) = Rebased(a, b, eps)
      BY <2>1, <2>11, <3>2 DEF MergeAcc
    <3>4. ASSUME NEW i \in B
          PROVE  eps * (tX - rs[i].s) <= Spread
      <4>1. PICK t \in B : rs[t].s = tX
        BY <1>4, TopOfFacts DEF tX
      <4>2. rs[i].s # PosInf /\ rs[t].s # PosInf
        BY <2>4, <2>5, <2>11, <3>1, <4>1, InfinityFacts
      <4>3. eps * (rs[t].s - rs[i].s) <= Spread
        BY <3>1, <4>2 DEF Scored
      <4> QED BY <4>1, <4>3
    <3>5. /\ Shrink(ZAt(rs, W, tW, eps), eps, tX - tW) = ZAt(rs, W, tX, eps)
          /\ Shrink(UAt(rs, W, tW, eps), eps, tX - tW) = UAt(rs, W, tX, eps)
      BY <1>1, <2>4, <2>5, <3>1, <3>4, Rescaled
    <3>6. /\ Shrink(ZAt(rs, R, tR, eps), eps, tX - tR) = ZAt(rs, R, tX, eps)
          /\ Shrink(UAt(rs, R, tR, eps), eps, tX - tR) = UAt(rs, R, tX, eps)
      BY <1>1, <2>4, <2>5, <3>1, <3>4, Rescaled
    <3>7. Rebased(a, b, eps) = [mu |-> tX, z |-> Shrink(a.z, eps, tX - tW) + Shrink(b.z, eps, tX - tR),
                                u |-> Shrink(a.u, eps, tX - tW) + Shrink(b.u, eps, tX - tR)]
      BY <2>3, <3>2 DEF Rebased
    <3>8. /\ a.z = ZAt(rs, W, tW, eps) /\ a.u = UAt(rs, W, tW, eps)
          /\ b.z = ZAt(rs, R, tR, eps) /\ b.u = UAt(rs, R, tR, eps)
      BY <2>2
    <3>9. Rebased(a, b, eps) = AccOf(rs, B, eps)
      BY <2>2, <2>7, <2>11, <3>5, <3>6, <3>7, <3>8
    <3> QED BY <3>3, <3>9
  <2> HIDE DEF B
  <2> QED BY <2>9, <2>10, <2>11
<1> QED BY <1>2, <1>3, <1>4
\* The fields of an accumulator a fold can leave.
Folded(a, eps) ==
  /\ a = [mu |-> a.mu, z |-> a.z, u |-> a.u]
  /\ a.mu \in NegInf..PosInf /\ a.z \in Nat /\ a.u \in Int
  /\ IsEmpty(a) => a = NewAcc
  /\ eps = EpsInf => a.mu = NegInf

LEMMA AccOfFolded ==
  ASSUME NEW rs, NEW W, NEW eps, Scored(rs, W, eps)
  PROVE  Folded(AccOf(rs, W, eps), eps) /\ (IsEmpty(AccOf(rs, W, eps)) <=> W = {})
<1>1. CASE W = {}
  BY <1>1, InfinityFacts DEF AccOf, Folded, NewAcc, IsEmpty
<1>2. CASE W # {}
  <2> DEFINE t == TopOf(rs, W)
  <2>1. /\ t \in NegInf..PosInf
        /\ ZAt(rs, W, t, eps) \in Nat \ {0} /\ UAt(rs, W, t, eps) \in Int
    BY <1>2, TopOfFacts, AccFacts
  <2>2. AccOf(rs, W, eps) = [mu |-> IF eps = EpsInf THEN NegInf ELSE t,
                             z  |-> ZAt(rs, W, t, eps), u |-> UAt(rs, W, t, eps)]
    BY <1>2 DEF AccOf
  <2>3. NegInf \in NegInf..PosInf
    BY InfinityFacts
  <2> HIDE DEF t
  <2> QED BY <1>2, <2>1, <2>2, <2>3 DEF Folded, IsEmpty
<1> QED BY <1>1, <1>2

\* The accumulator of a single record.
LEMMA AccOfOne ==
  ASSUME NEW rs, NEW i, NEW eps, Scored(rs, {i}, eps)
  PROVE  AccOf(rs, {i}, eps) = [mu |-> IF eps = EpsInf THEN NegInf ELSE rs[i].s,
                                z  |-> One, u |-> One * rs[i].v]
<1>1. TopOf(rs, {i}) = rs[i].s
  BY TopOfFacts
<1>2. rs[i].s \in NegInf..PosInf /\ rs[i].v \in Int /\ eps \in Nat \cup {EpsZero}
  BY DEF Scored
<1>3. rs[i].s \in Int /\ rs[i].s <= PosInf
  BY <1>2, InfinityFacts
<1>4. WeightBelow(rs[i].s, rs[i].s, eps) = One
  <2>1. CASE Sharp(rs[i].s, eps) \/ eps = EpsInf
    BY <2>1, SharpWeight
  <2>2. CASE IsSoft(eps) /\ eps \in Nat /\ rs[i].s < PosInf
    <3>1. \A e \in Nat, n \in Int : e * (n - n) = 0
      OBVIOUS
    <3>2. eps * (rs[i].s - rs[i].s) = 0 /\ 0 <= Spread /\ rs[i].s <= rs[i].s /\ Spread - 0 = Spread
      BY <1>3, <2>2, <3>1, InfinityFacts
    <3> QED BY <1>3, <2>2, <3>2, SoftWeight DEF One
  <2> QED BY <1>2, <1>3, <2>1, <2>2, Temperature
<1>5. /\ WeightsAt(rs, {i}, rs[i].s, eps)[i] = One
      /\ TermsAt(rs, {i}, rs[i].s, eps)[i] = One * rs[i].v
  BY <1>4 DEF WeightsAt, TermsAt
<1>6. One \in Int /\ One * rs[i].v \in Int
  BY <1>2, InfinityFacts
<1>7. ZAt(rs, {i}, rs[i].s, eps) = One /\ UAt(rs, {i}, rs[i].s, eps) = One * rs[i].v
  BY <1>5, <1>6, SumOne DEF ZAt, UAt
<1> QED BY <1>1, <1>7 DEF AccOf

\* Absorbing a record that has a weight is merging its own accumulator.
LEMMA AbsorbIsMerge ==
  ASSUME NEW a, NEW s \in NegInf..PosInf, NEW v \in Int, NEW eps, eps = EpsInf \/ s # NegInf,
         Folded(a, eps)
  PROVE  Absorb(a, s, v, eps)
           = MergeAcc(a, [mu |-> IF eps = EpsInf THEN NegInf ELSE s, z |-> One, u |-> One * v], eps)
<1> DEFINE b == [mu |-> IF eps = EpsInf THEN NegInf ELSE s, z |-> One, u |-> One * v]
<1>1. ~ IsEmpty(b)
  BY InfinityFacts DEF IsEmpty
<1>2. One \in Int /\ One * v \in Int /\ s \in Int /\ NegInf \in Int
  BY InfinityFacts
<1>3. /\ a = [mu |-> a.mu, z |-> a.z, u |-> a.u]
      /\ a.mu \in Int
      /\ IsEmpty(a) => a = NewAcc
      /\ eps = EpsInf => a.mu = NegInf
  BY InfinityFacts DEF Folded
<1>4. Tied(a, v) = [mu |-> a.mu, z |-> a.z + One, u |-> a.u + One * v]
  BY <1>3, AddedFields DEF Tied
<1>5. [a EXCEPT !.z = @ + b.z, !.u = @ + b.u] = Tied(a, v)
  BY DEF Tied
<1>6. CASE eps = EpsInf
  <2>1. Absorb(a, s, v, eps) = Tied(a, v)
    BY <1>6 DEF Absorb
  <2>2. CASE IsEmpty(a)
    <3>1. MergeAcc(a, b, eps) = b
      BY <1>1, <2>2 DEF MergeAcc
    <3>2. a.mu = NegInf /\ a.z = 0 /\ a.u = 0
      BY <1>3, <2>2 DEF NewAcc
    <3>3. Tied(a, v) = b
      BY <1>2, <1>4, <1>6, <3>2
    <3> QED BY <2>1, <3>1, <3>3
  <2>3. CASE ~ IsEmpty(a)
    <3> HIDE DEF b
    <3>1. MergeAcc(a, b, eps) = Tied(a, v)
      BY <1>1, <1>5, <1>6, <2>3 DEF MergeAcc
    <3> QED BY <2>1, <3>1 DEF b
  <2> QED BY <2>2, <2>3
<1>7. CASE eps # EpsInf
  <2>1. s # NegInf /\ s > NegInf /\ b = Alone(s, v) /\ b.mu = s
    BY <1>2, <1>7 DEF Alone
  <2>2. IsEmpty(a) => a.mu = NegInf
    BY <1>3 DEF NewAcc
  <2>3. CASE eps = EpsZero \/ PosInf \in {s, a.mu}
    <3>1. Absorb(a, s, v, eps) = Argmax(a, s, v)
      BY <1>7, <2>1, <2>3 DEF Absorb
    <3>2. Argmax(a, s, v) = IF s > a.mu THEN b ELSE IF s = a.mu THEN Tied(a, v) ELSE a
      BY <2>1 DEF Argmax
    <3> HIDE DEF b
    <3>3. CASE IsEmpty(a)
      BY <1>1, <2>1, <2>2, <3>1, <3>2, <3>3 DEF MergeAcc, b
    <3>4. CASE ~ IsEmpty(a)
      <4>1. MergeAcc(a, b, eps) = IF a.mu = b.mu THEN Tied(a, v) ELSE IF a.mu > b.mu THEN a ELSE b
        BY <1>1, <1>5, <1>7, <2>1, <2>3, <3>4 DEF MergeAcc
      <4>2. MergeAcc(a, b, eps) = Argmax(a, s, v)
        BY <1>2, <1>3, <2>1, <3>2, <4>1
      <4> QED BY <3>1, <4>2 DEF b
    <3> QED BY <3>3, <3>4
  <2>4. CASE ~ (eps = EpsZero \/ PosInf \in {s, a.mu})
    <3>1. Absorb(a, s, v, eps) = IF IsEmpty(a) THEN b ELSE Rebased(a, b, eps)
      BY <1>7, <2>1, <2>4 DEF Absorb
    <3> HIDE DEF b
    <3>2. MergeAcc(a, b, eps) = IF IsEmpty(a) THEN b ELSE Rebased(a, b, eps)
      BY <1>1, <1>7, <2>1, <2>4 DEF MergeAcc
    <3> QED BY <3>1, <3>2 DEF b
  <2> QED BY <2>3, <2>4
<1> QED BY <1>6, <1>7
\* One more record, in the way the scan takes it: a NULL and a weightless one change nothing.
Absorbed(a, r, eps) == IF IsNull(r) THEN a ELSE Absorb(a, r.s, r.v, eps)

\* Absorbing a record into the accumulator of others gives that of all of them.
THEOREM AbsorbExact ==
  ASSUME NEW rs, NEW K, NEW i, i \notin K, NEW eps, Scored(rs, Weighty(rs, K \cup {i}, eps), eps)
  PROVE  Absorbed(AccOf(rs, Weighty(rs, K, eps), eps), rs[i], eps)
           = AccOf(rs, Weighty(rs, K \cup {i}, eps), eps)
<1> DEFINE W == Weighty(rs, K, eps)
           Y == Weighty(rs, K \cup {i}, eps)
           a == AccOf(rs, W, eps)
<1>1. CASE IsNull(rs[i])
  <2>1. Y = W
    BY <1>1 DEF Weighty
  <2> QED BY <1>1, <2>1 DEF Absorbed
<1>2. CASE ~ IsNull(rs[i]) /\ eps # EpsInf /\ rs[i].s = NegInf
  <2>1. Y = W
    BY <1>2 DEF Weighty
  <2>2. Absorb(a, rs[i].s, rs[i].v, eps) = a
    BY <1>2 DEF Absorb
  <2> QED BY <1>2, <2>1, <2>2 DEF Absorbed
<1>3. CASE ~ IsNull(rs[i]) /\ (eps = EpsInf \/ rs[i].s # NegInf)
  <2>1. Y = W \cup {i} /\ W \cap {i} = {}
    BY <1>3 DEF Weighty
  <2>2. Scored(rs, W, eps) /\ Scored(rs, {i}, eps) /\ Scored(rs, W \cup {i}, eps)
    <3>1. Scored(rs, Y, eps)
      OBVIOUS
    <3> HIDE DEF W, Y
    <3>2. W \in SUBSET Y /\ {i} \in SUBSET Y
      BY <2>1
    <3> QED BY <2>1, <3>1, <3>2, ScoredSubset
  <2>3. rs[i].s \in NegInf..PosInf /\ rs[i].v \in Int
    BY <2>2 DEF Scored
  <2>4. Folded(a, eps)
    BY <2>2, AccOfFolded
  <2> HIDE DEF W, Y, a
  <2>5. Absorb(a, rs[i].s, rs[i].v, eps) = MergeAcc(a, AccOf(rs, {i}, eps), eps)
    <3> DEFINE b == [mu |-> IF eps = EpsInf THEN NegInf ELSE rs[i].s,
                     z  |-> One, u |-> One * rs[i].v]
    <3>1. Absorb(a, rs[i].s, rs[i].v, eps) = MergeAcc(a, b, eps)
      BY <1>3, <2>3, <2>4, AbsorbIsMerge
    <3>2. AccOf(rs, {i}, eps) = b
      BY <2>2, AccOfOne
    <3> QED BY <3>1, <3>2
  <2>6. MergeAcc(a, AccOf(rs, {i}, eps), eps) = AccOf(rs, W \cup {i}, eps)
    BY <2>1, <2>2, MergeExact DEF a
  <2> QED BY <1>3, <2>1, <2>5, <2>6 DEF Absorbed, a, W, Y
<1> QED BY <1>1, <1>2, <1>3

\* A function that folds the records of l at the indices in T, the last one last.
FoldsLeft(g, l, eps) ==
  g = [T \in SUBSET DOMAIN l |-> IF T = {} THEN NewAcc
                                 ELSE Absorbed(g[T \ {Max(T)}], l[Max(T)], eps)]

\* The places in rs that the indices in T of a sequence stand for, each for one of its own.
Through(at, T)   == {at[k] : k \in T}
OneToOne(at, T)  == \A k, j \in T : at[k] = at[j] => k = j

LEMMA MaxFacts ==
  ASSUME NEW n \in Nat, NEW T \in SUBSET (1..n), T # {}
  PROVE  Max(T) \in T
<1> DEFINE D == {n - k : k \in T}
<1>1. D \in SUBSET Nat /\ D # {}
  <2>1. \A k \in T : k \in 1..n
    OBVIOUS
  <2>2. \A k \in 1..n : n - k \in Nat
    OBVIOUS
  <2> QED BY <2>1, <2>2
<1> HIDE DEF D
<1>2. PICK d \in D : \A e \in D : d <= e
  BY <1>1, LeastNumber
<1> USE DEF D
<1>3. PICK k \in T : d = n - k
  BY <1>2
<1>4. ASSUME NEW j \in T
      PROVE  k >= j
  <2>1. d <= n - j
    BY <1>2
  <2>2. k \in 1..n /\ j \in 1..n
    BY <1>3
  <2> QED BY <1>3, <2>1, <2>2
<1> QED BY <1>4 DEF Max

\* The fold of some of the records, in any order, leaves the accumulator of those with a weight.
THEOREM FoldExact ==
  ASSUME NEW rs, NEW l, NEW n \in Nat, NEW at, OneToOne(at, 1..n), DOMAIN l = 1..n,
         NEW eps,
         \A k \in 1..n : l[k] = rs[at[k]],
         Scored(rs, Weighty(rs, Through(at, 1..n), eps), eps)
  PROVE  FoldRecords(l, eps) = AccOf(rs, Weighty(rs, Through(at, 1..n), eps), eps)
<1> DEFINE of(T) == AccOf(rs, Weighty(rs, Through(at, T), eps), eps)
           iter  == CHOOSE h : FoldsLeft(h, l, eps)
<1>1. ASSUME NEW T \in SUBSET (1..n), T # {}
      PROVE  of(T) = Absorbed(of(T \ {Max(T)}), l[Max(T)], eps)
  <2> DEFINE m == Max(T)
             K == Through(at, T \ {m})
  <2>1. m \in T
    BY <1>1, MaxFacts
  <2>2. Through(at, T) = K \cup {at[m]} /\ at[m] \notin K
    <3> HIDE DEF m
    <3>1. at[m] \notin K
      BY <2>1, ZenonT(20) DEF Through, OneToOne
    <3>2. Through(at, T) = K \cup {at[m]}
      BY <2>1, ZenonT(20) DEF Through
    <3> QED BY <3>1, <3>2
  <2>3. Scored(rs, Weighty(rs, K \cup {at[m]}, eps), eps)
    <3>1. Through(at, T) \in SUBSET Through(at, 1..n)
      BY DEF Through
    <3>2. Weighty(rs, Through(at, T), eps) \in SUBSET Weighty(rs, Through(at, 1..n), eps)
      BY <3>1 DEF Weighty
    <3> QED BY <2>2, <3>2, ScoredSubset
  <2>4. l[m] = rs[at[m]]
    BY <2>1
  <2> HIDE DEF m, K
  <2>5. Absorbed(AccOf(rs, Weighty(rs, K, eps), eps), rs[at[m]], eps)
          = AccOf(rs, Weighty(rs, K \cup {at[m]}, eps), eps)
    BY <2>2, <2>3, AbsorbExact
  <2> QED BY <2>2, <2>4, <2>5 DEF K, m
<1>2. of({}) = NewAcc
  BY DEF Through, Weighty, AccOf
<1>3. FoldsLeft([T \in SUBSET (1..n) |-> of(T)], l, eps)
  <2> DEFINE h == [T \in SUBSET (1..n) |-> of(T)]
  <2> HIDE DEF of
  <2>1. \A T \in SUBSET (1..n) : h[T] = IF T = {} THEN NewAcc
                                        ELSE Absorbed(h[T \ {Max(T)}], l[Max(T)], eps)
    BY <1>1, <1>2
  <2> QED BY <2>1 DEF FoldsLeft
<1>4. FoldsLeft(iter, l, eps)
  BY <1>3
<1>5. FoldRecords(l, eps) = iter[1..n]
  BY DEF FoldRecords, FoldLeft, MapThenFoldSet, FoldsLeft, Absorbed
<1> DEFINE C == {T \in SUBSET (1..n) : iter[T] = of(T)}
<1> HIDE DEF of, iter
<1>6. ASSUME NEW U \in SUBSET (1..n), \A V \in SUBSET U : V # U => V \in C
      PROVE  U \in C
  <2>1. CASE U = {}
    BY <1>2, <1>4, <2>1 DEF FoldsLeft
  <2>2. CASE U # {}
    <3>1. Max(U) \in U
      BY <2>2, MaxFacts
    <3>2. iter[U \ {Max(U)}] = of(U \ {Max(U)})
      BY <1>6, <3>1
    <3>3. iter[U] = Absorbed(iter[U \ {Max(U)}], l[Max(U)], eps)
      BY <1>4, <2>2 DEF FoldsLeft
    <3> QED BY <1>1, <2>2, <3>2, <3>3
  <2> QED BY <2>1, <2>2
<1>7. IsFiniteSet(1..n)
  BY FS_Interval
<1> HIDE DEF C
<1>8. \A U \in SUBSET (1..n) : U \in C
  BY <1>6, <1>7, SubsetInduct
<1> QED BY <1>5, <1>8 DEF C, of
\* What the accumulator of the weighty records finalises to is their average, by definition.
THEOREM AnswerExact ==
  ASSUME NEW rs, NEW K, NEW eps, Scored(rs, Weighty(rs, K, eps), eps)
  PROVE  Finalize(AccOf(rs, Weighty(rs, K, eps), eps)) = AverageOf(rs, K, eps)
<1> DEFINE W == Weighty(rs, K, eps)
           t == TopOf(rs, W)
           w == [i \in W |-> WeightBelow(t, rs[i].s, eps)]
<1>1. CASE W = {}
  BY <1>1 DEF AverageOf, AccOf, Finalize, IsEmpty, NewAcc
<1>2. CASE W # {}
  <2>1. ~ IsEmpty(AccOf(rs, W, eps))
    BY <1>2, AccOfFolded
  <2>2. Finalize(AccOf(rs, W, eps)) = << UAt(rs, W, t, eps), ZAt(rs, W, t, eps) >>
    BY <1>2, <2>1 DEF Finalize, AccOf
  <2>3. AverageOf(rs, K, eps)
          = << SumFunctionOnSet([i \in W |-> w[i] * rs[i].v], W), SumFunctionOnSet(w, W) >>
    BY <1>2 DEF AverageOf, TopOf
  <2>4. w = WeightsAt(rs, W, t, eps) /\ [i \in W |-> w[i] * rs[i].v] = TermsAt(rs, W, t, eps)
    BY DEF WeightsAt, TermsAt
  <2> QED BY <2>2, <2>3, <2>4 DEF UAt, ZAt
<1> QED BY <1>1, <1>2

\* The sum of f is that of its values at other places.
LEMMA SumVia ==
  ASSUME NEW S, NEW f, NEW g, NEW at, Summable(f, S), OneToOne(at, S),
         \A x \in S : g[at[x]] = f[x]
  PROVE  /\ Summable(g, Through(at, S))
         /\ SumFunctionOnSet(g, Through(at, S)) = SumFunctionOnSet(f, S)
<1>1. IsFiniteSet(S) /\ \A x \in S : f[x] \in Int
  BY DEF Summable
<1>2. Summable(g, Through(at, S))
  <2>1. IsFiniteSet(Through(at, S))
    <3> DEFINE h == [x \in S |-> at[x]]
    <3>1. h \in Surjection(S, Through(at, S))
      BY DEF Surjection, Through
    <3> QED BY <1>1, <3>1, FS_Surjection
  <2> QED BY <1>1, <2>1 DEF Summable, Through
<1> DEFINE C == {T \in SUBSET S : SumFunctionOnSet(g, Through(at, T)) = SumFunctionOnSet(f, T)}
<1>3. {} \in C
  <2>1. Through(at, {}) = {} /\ Through(at, {}) \in SUBSET Through(at, S)
    BY DEF Through
  <2>2. Summable(f, {}) /\ Summable(g, {})
    BY <1>2, <2>1, SummableSubset
  <2>3. SumFunctionOnSet(f, {}) = 0 /\ SumFunctionOnSet(g, {}) = 0
    BY <2>2, SumFacts
  <2> QED BY <2>1, <2>3
<1>4. ASSUME NEW U \in SUBSET S, NEW x \in U, U \ {x} \in C
      PROVE  U \in C
  <2>1. Through(at, U) \in SUBSET Through(at, S) /\ at[x] \in Through(at, U)
    BY DEF Through
  <2>2. Through(at, U) \ {at[x]} = Through(at, U \ {x})
    <3>1. \A y \in U : at[y] = at[x] => y = x
      BY DEF OneToOne
    <3> QED BY <3>1, ZenonT(20) DEF Through
  <2>3. Summable(f, U) /\ Summable(g, Through(at, U))
    BY <1>2, <2>1, SummableSubset
  <2>4. /\ SumFunctionOnSet(f, U) = f[x] + SumFunctionOnSet(f, U \ {x})
        /\ SumFunctionOnSet(g, Through(at, U)) = g[at[x]] + SumFunctionOnSet(g, Through(at, U \ {x}))
    <3>1. SumFunctionOnSet(f, U) = f[x] + SumFunctionOnSet(f, U \ {x})
      BY <2>3, SumFacts
    <3>2. SumFunctionOnSet(g, Through(at, U))
            = g[at[x]] + SumFunctionOnSet(g, Through(at, U) \ {at[x]})
      BY <2>1, <2>3, SumFacts
    <3> QED BY <2>2, <3>1, <3>2
  <2>5. SumFunctionOnSet(g, Through(at, U \ {x})) = SumFunctionOnSet(f, U \ {x})
    BY <1>4
  <2> QED BY <2>4, <2>5
<1> HIDE DEF C
<1>5. \A U \in SUBSET S : U \in C
  BY <1>1, <1>3, <1>4, SetInduct
<1> QED BY <1>2, <1>5 DEF C

\* The sums of records copied elsewhere.
LEMMA SumsVia ==
  ASSUME NEW rs, NEW l, NEW S, NEW at, NEW top, NEW eps, IsFiniteSet(S), OneToOne(at, S),
         \A k \in S : l[k] = rs[at[k]], HasWeights(rs, Through(at, S), top, eps)
  PROVE  /\ ZAt(l, S, top, eps) = ZAt(rs, Through(at, S), top, eps)
         /\ UAt(l, S, top, eps) = UAt(rs, Through(at, S), top, eps)
<1> DEFINE K == Through(at, S)
<1>1. \A k \in S : at[k] \in K
  BY DEF Through
<1>2. HasWeights(l, S, top, eps)
  BY <1>1 DEF HasWeights
<1>3. Summable(WeightsAt(l, S, top, eps), S) /\ Summable(TermsAt(l, S, top, eps), S)
  BY <1>2, WeighedSummable
<1>4. \A k \in S : WeightsAt(rs, K, top, eps)[at[k]] = WeightsAt(l, S, top, eps)[k]
  BY <1>1 DEF WeightsAt
<1>5. \A k \in S : TermsAt(rs, K, top, eps)[at[k]] = TermsAt(l, S, top, eps)[k]
  BY <1>1 DEF TermsAt
<1> QED BY <1>3, <1>4, <1>5, SumVia DEF ZAt, UAt
\* Where a function is zero does not count in its sum.
LEMMA SumDropZero ==
  ASSUME NEW S, NEW f, Summable(f, S), NEW T \in SUBSET S, \A x \in S \ T : f[x] = 0
  PROVE  SumFunctionOnSet(f, T) = SumFunctionOnSet(f, S)
<1> DEFINE Z == S \ T
<1>1. S = T \cup Z /\ T \cap Z = {}
  OBVIOUS
<1>2. IsFiniteSet(Z)
  BY FS_Subset DEF Summable
<1>3. SumFunctionOnSet(f, Z) = 0
  BY <1>2, SumZero
<1> HIDE DEF Z
<1>4. SumFunctionOnSet(f, T \cup Z) = SumFunctionOnSet(f, T) + SumFunctionOnSet(f, Z)
  BY <1>1, SumUnion
<1>5. SumFunctionOnSet(f, T) \in Int
  <2>1. Summable(f, T)
    BY SummableSubset
  <2> QED BY <2>1, SumFacts
<1> QED BY <1>1, <1>3, <1>4, <1>5
-----------------------------------------------------------------------------
(***************************************************************************)
(* The partition-reduce triples.                                           *)
(***************************************************************************)

\* The triple of the records at K.
TripleOf(rs, K, eps) ==
  Triple(TopOf(rs, K), Columns, UAt(rs, K, TopOf(rs, K), eps), ZAt(rs, K, TopOf(rs, K), eps))

FiniteScores(rs, K) == \A i \in K : ~ IsNull(rs[i]) /\ Finite(rs[i].s)

\* Where every score is finite every record is weighty, and so is the highest score.
LEMMA FiniteTop ==
  ASSUME NEW rs, NEW K, NEW eps, Scored(rs, K, eps), FiniteScores(rs, K)
  PROVE  /\ Weighty(rs, K, eps) = K
         /\ K # {} => Finite(TopOf(rs, K)) /\ TopOf(rs, K) \in Int
                      /\ TopOf(rs, K) > NegInf /\ TopOf(rs, K) < PosInf
<1>1. Weighty(rs, K, eps) = K
  BY DEF Weighty, FiniteScores, Finite
<1>2. ASSUME K # {}
      PROVE  Finite(TopOf(rs, K)) /\ TopOf(rs, K) \in NegInf..PosInf
  BY <1>2, TopOfFacts DEF FiniteScores
<1>3. K # {} => TopOf(rs, K) # NegInf /\ TopOf(rs, K) # PosInf
  BY <1>2 DEF Finite
<1> QED BY <1>1, <1>2, <1>3, InfinityFacts

\* from_pairs makes the triple of its pairs, if there are any.
LEMMA FromPairsIs ==
  ASSUME NEW rs, NEW l, NEW n \in Nat \ {0}, NEW at, OneToOne(at, 1..n), DOMAIN l = 1..n, NEW eps,
         \A k \in 1..n : l[k] = rs[at[k]],
         Scored(rs, Through(at, 1..n), eps), FiniteScores(rs, Through(at, 1..n))
  PROVE  FromPairs(l, eps) = TripleOf(rs, Through(at, 1..n), eps)
<1> DEFINE K  == Through(at, 1..n)
           t  == TopOf(rs, K)
           ss == [i \in DOMAIN l |-> l[i].s]
           m  == MaxScore(ss)
           on == {i \in DOMAIN l : eps = EpsZero => ss[i] = m}
           w  == [i \in DOMAIN l |-> IF eps = EpsZero THEN (IF ss[i] = m THEN One ELSE 0)
                                     ELSE ExpWeight(ss[i], m, eps)]
           f  == [i \in DOMAIN l |-> w[i] * l[i].v]
<1>1. \A k \in 1..n : at[k] \in K /\ Finite(l[k].s) /\ l[k].s # NaN /\ l[k].v # NaN /\ l[k].v \in Int
  BY DEF Through, FiniteScores, Finite, IsNull, Scored
<1>2. {ss[i] : i \in DOMAIN ss} \ {NaN} = {rs[i].s : i \in K}
  <2>1. {ss[i] : i \in DOMAIN ss} \ {NaN} = {l[k].s : k \in 1..n}
    BY <1>1
  <2>2. {l[k].s : k \in 1..n} = {rs[i].s : i \in K}
    BY DEF Through
  <2> QED BY <2>1, <2>2
<1>3. K # {} /\ l # << >>
  <2>1. 1 \in 1..n
    OBVIOUS
  <2>2. DOMAIN << >> = {}
    OBVIOUS
  <2> QED BY <1>1, <2>1, <2>2
<1>4. Finite(t) /\ t \in Int /\ t > NegInf /\ t < PosInf
  BY <1>3, FiniteTop
<1>5. m = t
  <2>1. {rs[i].s : i \in K} # {}
    BY <1>3
  <2> HIDE DEF ss, K
  <2>2. MaxScore(ss) = TopScore({rs[i].s : i \in K})
    BY <1>2, <2>1 DEF MaxScore
  <2> QED BY <2>2 DEF TopOf
<1>6. ~ Poisoned(ss, eps)
  <2>1. \A i \in DOMAIN ss : ss[i] \notin {NaN, PosInf, NegInf}
    BY <1>1 DEF Finite
  <2> HIDE DEF ss, m, t
  <2> QED BY <1>4, <1>5, <2>1 DEF Poisoned, m
<1>7. ASSUME NEW k \in 1..n
      PROVE  w[k] = WeightBelow(t, l[k].s, eps)
  <2>1. l[k].s # NegInf
    BY <1>1 DEF Finite
  <2>2. Sharp(t, eps) <=> eps = EpsZero
    BY <1>4 DEF Sharp
  <2>3. EpsZero # EpsInf
    BY DEF EpsZero, EpsInf
  <2> HIDE DEF m, t
  <2> QED BY <1>5, <2>1, <2>2, <2>3 DEF WeightBelow, ExpWeight
<1>8. on \in SUBSET (1..n) /\ \A i \in (1..n) \ on : w[i] = 0
  OBVIOUS
<1> HIDE DEF m, t, w, K, on
<1>9. w = WeightsAt(l, 1..n, t, eps)
  BY <1>7 DEF WeightsAt, w
<1>10. f = TermsAt(l, 1..n, t, eps)
  BY <1>7 DEF TermsAt
<1>11. HasWeights(l, 1..n, t, eps) /\ HasWeights(rs, K, t, eps)
  <2>1. HasWeights(rs, K, t, eps)
    BY <1>3, WeightsBelow DEF t, K
  <2> QED BY <1>1, <2>1 DEF HasWeights
<1>12. IsFiniteSet(1..n)
  BY FS_Interval
<1>13. UAt(l, 1..n, t, eps) = UAt(rs, K, t, eps) /\ ZAt(l, 1..n, t, eps) = ZAt(rs, K, t, eps)
  BY <1>11, <1>12, SumsVia DEF K
<1>14. SumFunctionOnSet(f, on) = SumFunctionOnSet(f, 1..n)
  <2>1. Summable(f, 1..n)
    BY <1>10, <1>11, <1>12, WeighedSummable
  <2>2. \A i \in (1..n) \ on : f[i] = 0
    <3>1. \A x \in Int : 0 * x = 0
      OBVIOUS
    <3> QED BY <1>1, <1>8, <3>1
  <2> HIDE DEF f
  <2> QED BY <1>8, <2>1, <2>2, SumDropZero
<1>15. \A i \in on : l[i].v # NaN
  BY <1>1, <1>8
<1>16. FromPairs(l, eps) = Triple(m, Columns, SumFunctionOnSet(f, on), SumFunctionOnSet(w, DOMAIN l))
  BY <1>3, <1>4, <1>5, <1>6, <1>15 DEF FromPairs, m, w, on
<1>17. FromPairs(l, eps) = Triple(t, Columns, UAt(l, 1..n, t, eps), ZAt(l, 1..n, t, eps))
  BY <1>5, <1>9, <1>10, <1>14, <1>16 DEF UAt, ZAt
<1> QED BY <1>13, <1>17 DEF TripleOf, K, t

\* The triple of W, brought to t, holds the sums of W at t.
BringsSums(a, rs, W, t, eps) ==
  /\ a.m \in Int /\ a.m = TopOf(rs, W) /\ a.d = Columns
  /\ Brought(a, a.num, t, eps) = UAt(rs, W, t, eps)
  /\ Brought(a, a.den, t, eps) = ZAt(rs, W, t, eps)

LEMMA BroughtExact ==
  ASSUME NEW rs, NEW W, NEW B, NEW eps, Scored(rs, B, eps), FiniteScores(rs, B), W \in SUBSET B,
         W # {}
  PROVE  BringsSums(TripleOf(rs, W, eps), rs, W, TopOf(rs, B), eps)
<1> DEFINE a == TripleOf(rs, W, eps)
           t == TopOf(rs, B)
           s == TopOf(rs, W)
<1> SUFFICES /\ a.m \in Int /\ a.m = s /\ a.d = Columns
             /\ Brought(a, a.num, t, eps) = UAt(rs, W, t, eps)
             /\ Brought(a, a.den, t, eps) = ZAt(rs, W, t, eps)
  BY DEF BringsSums
<1>1. Scored(rs, W, eps) /\ FiniteScores(rs, W) /\ B # {}
  BY ScoredSubset DEF FiniteScores
<1>2. t \in Int /\ t > NegInf /\ t < PosInf
  BY <1>1, FiniteTop
<1>3. Scored(rs, B, eps) /\ \A i \in B : rs[i].s # NaN
  BY DEF FiniteScores, Finite
<1>4. W # {}
  OBVIOUS
<1>5. /\ a.m \in Int /\ a.m = s /\ a.d = Columns
      /\ Brought(a, a.num, t, eps) = UAt(rs, W, t, eps)
      /\ Brought(a, a.den, t, eps) = ZAt(rs, W, t, eps)
  <2>1. s \in Int /\ s > NegInf /\ s < PosInf
    BY <1>1, <1>4, FiniteTop
  <2>2. a.m = s /\ a.d = Columns /\ a.num = UAt(rs, W, s, eps) /\ a.den = ZAt(rs, W, s, eps)
    BY DEF TripleOf, Triple
  <2>3. s <= t
    <3>1. PICK i \in W : rs[i].s = s
      BY <1>1, <1>4, TopOfFacts
    <3>2. i \in B
      BY <3>1
    <3> QED BY <3>1, <3>2, TopOfFacts
  <2>a. a.num # NaN /\ a.den # NaN
    <3>1. ZAt(rs, W, s, eps) \in Nat \ {0} /\ UAt(rs, W, s, eps) \in Int
      BY <1>1, <1>4, AccFacts
    <3> QED BY <2>2, <3>1, SoftAvgAssumption
  <2>4. \A i \in W : rs[i].s \in Int /\ rs[i].s <= s
    BY <1>1, <1>4, TopOfFacts
  <2>5. eps \in Nat \cup {EpsZero}
    BY DEF Scored
  <2>6. \A i \in B : rs[i].s \in Int /\ rs[i].s # PosInf
    BY TopOfFacts DEF FiniteScores, Finite
  <2>7. PICK k \in B : rs[k].s = t
    BY TopOfFacts
  <2> HIDE DEF a, t, s
  <2>8. CASE eps = EpsInf
    <3>1. ~ IsSoft(eps) /\ eps # EpsZero
      BY <2>8 DEF IsSoft, EpsInf, EpsZero
    <3>2. Brought(a, a.num, t, eps) = a.num /\ Brought(a, a.den, t, eps) = a.den
      BY <1>2, <2>1, <2>2, <2>3, <3>1, InfinityFacts DEF Brought
    <3>3. \A x, y : WeightBelow(x, y, eps) = One
      BY <2>8 DEF WeightBelow, Sharp, EpsZero, EpsInf
    <3>4. ZAt(rs, W, s, eps) = ZAt(rs, W, t, eps) /\ UAt(rs, W, s, eps) = UAt(rs, W, t, eps)
      BY <3>3 DEF ZAt, UAt, WeightsAt, TermsAt
    <3> QED BY <1>4, <2>1, <2>2, <2>3, <3>2, <3>4
  <2>9. CASE eps = EpsZero
    <3>1. Sharp(t, eps) /\ ~ IsSoft(eps)
      BY <2>9 DEF Sharp, IsSoft, EpsZero
    <3>2. CASE s = t
      <4>1. Brought(a, a.num, t, eps) = a.num /\ Brought(a, a.den, t, eps) = a.den
        BY <1>2, <2>1, <2>2, <3>1, <3>2, InfinityFacts DEF Brought
      <4> QED BY <1>4, <2>1, <2>2, <3>2, <4>1
    <3>3. CASE s < t
      <4>1. Brought(a, a.num, t, eps) = 0 /\ Brought(a, a.den, t, eps) = 0
        BY <1>2, <2>1, <2>2, <2>9, <3>3 DEF Brought
      <4>2. \A i \in W : rs[i].s # t
        BY <1>2, <2>1, <2>4, <3>3
      <4>3. ZAt(rs, W, t, eps) = 0 /\ UAt(rs, W, t, eps) = 0
        BY <1>1, <3>1, <4>2, Outweighed
      <4> QED BY <1>2, <1>4, <2>1, <2>2, <3>3, <4>1, <4>3
    <3> QED BY <1>2, <2>1, <2>3, <3>2, <3>3
  <2>10. CASE IsSoft(eps) /\ eps \in Nat
    <3>1. eps # EpsZero /\ eps # EpsInf
      BY <2>10 DEF EpsZero, EpsInf, IsSoft
    <3>2. /\ Brought(a, a.num, t, eps) = Shrink(a.num, eps, t - s)
          /\ Brought(a, a.den, t, eps) = Shrink(a.den, eps, t - s)
      BY <1>2, <2>1, <2>2, <2>3, <2>a, <2>10, <3>1, InfinityFacts DEF Brought
    <3>3. \A i \in W : eps * (t - rs[i].s) <= Spread
      BY <2>6, <2>7, <2>10 DEF Scored
    <3>4. /\ Shrink(ZAt(rs, W, s, eps), eps, t - s) = ZAt(rs, W, t, eps)
          /\ Shrink(UAt(rs, W, s, eps), eps, t - s) = UAt(rs, W, t, eps)
      BY <1>1, <1>2, <2>1, <2>3, <2>4, <2>10, <3>3, Rescaled
    <3> QED BY <1>4, <2>1, <2>2, <2>3, <3>2, <3>4
  <2>11. eps = EpsInf \/ eps = EpsZero \/ (IsSoft(eps) /\ eps \in Nat)
    BY <2>5 DEF IsSoft, EpsInf
  <2> QED BY <2>8, <2>9, <2>10, <2>11
<1> QED BY <1>5

\* The sums of weights are integers.
LEMMA WeighedInts ==
  ASSUME NEW rs, NEW K, NEW t, NEW eps, HasWeights(rs, K, t, eps), IsFiniteSet(K)
  PROVE  UAt(rs, K, t, eps) \in Int /\ ZAt(rs, K, t, eps) \in Int
<1>1. Summable(WeightsAt(rs, K, t, eps), K) /\ Summable(TermsAt(rs, K, t, eps), K)
  BY WeighedSummable
<1> QED BY <1>1, SumFacts DEF UAt, ZAt

\* The reduce step of two triples with rows gives the triple of both partitions.
THEOREM CombineExact ==
  ASSUME NEW rs, NEW W, NEW R, NEW eps, Scored(rs, W \cup R, eps), W \cap R = {},
         FiniteScores(rs, W \cup R), W # {}, R # {}
  PROVE  Combine(TripleOf(rs, W, eps), TripleOf(rs, R, eps), eps) = TripleOf(rs, W \cup R, eps)
<1> DEFINE B == W \cup R
           a == TripleOf(rs, W, eps)
           b == TripleOf(rs, R, eps)
           t == TopOf(rs, B)
<1>1. Finite(t) /\ t \in Int
  BY FiniteTop
<1>2. BringsSums(a, rs, W, t, eps) /\ BringsSums(b, rs, R, t, eps)
  BY BroughtExact
<1>3. t = Larger(TopOf(rs, W), TopOf(rs, R))
  BY TopOfUnion
<1>4. HasWeights(rs, B, t, eps) /\ IsFiniteSet(B)
  BY WeightsBelow DEF Scored
<1>5. /\ HasWeights(rs, W, t, eps) /\ IsFiniteSet(W)
      /\ HasWeights(rs, R, t, eps) /\ IsFiniteSet(R)
  <2>1. W \in SUBSET B /\ R \in SUBSET B
    OBVIOUS
  <2>2. HasWeights(rs, W, t, eps) /\ HasWeights(rs, R, t, eps)
    BY <1>4 DEF HasWeights
  <2> HIDE DEF B
  <2>3. IsFiniteSet(W) /\ IsFiniteSet(R)
    BY <1>4, <2>1, FS_Subset
  <2> QED BY <2>2, <2>3
<1> HIDE DEF a, b, t
<1>6. Larger(a.m, b.m) = t /\ a.d = Columns /\ b.d = Columns
  BY <1>2, <1>3 DEF BringsSums
<1>7. Combine(a, b, eps)
        = Triple(t, Columns, BothOf(UAt(rs, W, t, eps), UAt(rs, R, t, eps)),
                             BothOf(ZAt(rs, W, t, eps), ZAt(rs, R, t, eps)))
  BY <1>1, <1>2, <1>6 DEF Combine, BringsSums
<1>8. \A K \in {W, R} : UAt(rs, K, t, eps) \in Int /\ ZAt(rs, K, t, eps) \in Int
  BY <1>5, WeighedInts
<1>9. Combine(a, b, eps)
        = Triple(t, Columns, UAt(rs, W, t, eps) + UAt(rs, R, t, eps),
                             ZAt(rs, W, t, eps) + ZAt(rs, R, t, eps))
  BY <1>7, <1>8, SoftAvgAssumption DEF BothOf
<1>10. /\ ZAt(rs, B, t, eps) = ZAt(rs, W, t, eps) + ZAt(rs, R, t, eps)
       /\ UAt(rs, B, t, eps) = UAt(rs, W, t, eps) + UAt(rs, R, t, eps)
  BY <1>4, SplitAt
<1> QED BY <1>9, <1>10 DEF TripleOf, a, b, t
-----------------------------------------------------------------------------
(***************************************************************************)
(* The scan kernels.                                                       *)
(***************************************************************************)

\* Records as a query meets them, at any temperature it may have.
LEMMA RecordsScored ==
  ASSUME NEW rs \in Seq(Records), NEW eps \in Temperatures, NEW K \in SUBSET DOMAIN rs
  PROVE  Scored(rs, Weighty(rs, K, eps), eps)
<1> DEFINE W == Weighty(rs, K, eps)
<1>1. W \in SUBSET DOMAIN rs /\ \A i \in W : rs[i] \in Records
  <2>1. \A i \in DOMAIN rs : rs[i] \in Records
    BY ElementOfSeq, LenProperties
  <2> QED BY <2>1 DEF Weighty
<1>2. IsFiniteSet(W)
  <2>1. IsFiniteSet(DOMAIN rs)
    BY LenProperties, FS_Interval
  <2> QED BY <1>1, <2>1, FS_Subset
<1>3. eps \in Nat \cup {EpsZero}
  BY KernelsAssumption
<1>4. \A i \in W : /\ rs[i].v \in Int /\ rs[i].s \in NegInf..PosInf
                   /\ eps = EpsInf \/ rs[i].s # NegInf
  <2>1. \A i \in W : rs[i].s # NaN /\ rs[i].v # NaN /\ (eps = EpsInf \/ rs[i].s # NegInf)
    BY DEF Weighty, IsNull
  <2> HIDE DEF W
  <2> QED BY <1>1, <2>1, KernelsAssumption
<1>5. ASSUME NEW i \in W, NEW j \in W, rs[i].s # PosInf, rs[j].s # PosInf, IsSoft(eps)
      PROVE  eps * (rs[i].s - rs[j].s) <= Spread
  <2>1. eps # EpsInf
    BY <1>5 DEF IsSoft, EpsInf
  <2>2. Finite(rs[i].s) /\ Finite(rs[j].s)
    BY <1>5, <2>1 DEF Weighty, IsNull, Finite
  <2> HIDE DEF W
  <2> QED BY <1>1, <1>5, <2>2, KernelsAssumption
<1> HIDE DEF W
<1>6. Scored(rs, W, eps)
  BY <1>2, <1>3, <1>4, <1>5 DEF Scored
<1> QED BY <1>6 DEF W

\* The records from the off-th on, as a sequence of their own.
LEMMA Stretch ==
  ASSUME NEW S, NEW s \in Seq(S), NEW off \in 0..Len(s), NEW n \in Nat, off + n <= Len(s)
  PROVE  LET l  == SubSeq(s, off + 1, off + n)
             at == [k \in 1..n |-> off + k]
         IN  /\ DOMAIN l = 1..n /\ OneToOne(at, 1..n)
             /\ \A k \in 1..n : l[k] = s[at[k]]
             /\ Through(at, 1..n) = (off + 1)..(off + n)
<1> DEFINE l  == SubSeq(s, off + 1, off + n)
           at == [k \in 1..n |-> off + k]
<1>1. Len(s) \in Nat /\ off \in Nat
  BY LenProperties
<1>2. l = [k \in 1..n |-> s[off + k]]
  BY <1>1
<1>3. OneToOne(at, 1..n)
  BY <1>1 DEF OneToOne
<1>4. Through(at, 1..n) = (off + 1)..(off + n)
  <2>1. \A i \in (off + 1)..(off + n) : i - off \in 1..n /\ off + (i - off) = i
    BY <1>1
  <2>2. \A k \in 1..n : off + k \in (off + 1)..(off + n)
    BY <1>1
  <2> QED BY <2>1, <2>2 DEF Through
<1> QED BY <1>2, <1>3, <1>4
LEMMA SameAsItself == \A a : SameAnswer(a, a)
BY DEF SameAnswer

\* The chunks before and after a cut, folded and merged, and as triples.
LEMMA Cut ==
  ASSUME recs \in Seq(Records), NEW eps \in Temperatures, NEW cut \in 0..Len(recs)
  PROVE  LET l == SubSeq(recs, 1, cut)
             r == SubSeq(recs, cut + 1, Len(recs))
             K == DOMAIN recs
             W == Weighty(recs, K, eps)
         IN  /\ MergeAcc(FoldRecords(l, eps), FoldRecords(r, eps), eps) = AccOf(recs, W, eps)
             /\ MergeAcc(FoldRecords(r, eps), FoldRecords(l, eps), eps) = AccOf(recs, W, eps)
             /\ Tame /\ cut \notin {0, Len(recs)} =>
                  Combine(FromPairs(l, eps), FromPairs(r, eps), eps) = TripleOf(recs, K, eps)
<1> DEFINE n  == Len(recs)
           l  == SubSeq(recs, 1, cut)
           r  == SubSeq(recs, cut + 1, n)
           K  == DOMAIN recs
           W(J) == Weighty(recs, J, eps)
           J1 == (0 + 1)..(0 + cut)
           J2 == (cut + 1)..(cut + (n - cut))
           at1 == [k \in 1..cut |-> 0 + k]
           at2 == [k \in 1..(n - cut) |-> cut + k]
<1> SUFFICES /\ MergeAcc(FoldRecords(l, eps), FoldRecords(r, eps), eps) = AccOf(recs, W(K), eps)
             /\ MergeAcc(FoldRecords(r, eps), FoldRecords(l, eps), eps) = AccOf(recs, W(K), eps)
             /\ Tame /\ cut \notin {0, Len(recs)} =>
                  Combine(FromPairs(l, eps), FromPairs(r, eps), eps) = TripleOf(recs, K, eps)
  OBVIOUS
<1>1. n \in Nat /\ cut \in Nat /\ n - cut \in Nat /\ K = 1..n /\ cut <= n
  BY LenProperties
<1>2. K = J1 \cup J2 /\ J1 \cap J2 = {}
  BY <1>1
<1>3. /\ DOMAIN l = 1..cut /\ OneToOne(at1, 1..cut) /\ Through(at1, 1..cut) = J1
      /\ \A k \in 1..cut : l[k] = recs[at1[k]]
  <2>1. 0 \in 0..n /\ 0 + cut <= n /\ l = SubSeq(recs, 0 + 1, 0 + cut)
    BY <1>1
  <2> QED BY <1>1, <2>1, Stretch
<1>4. /\ DOMAIN r = 1..(n - cut) /\ OneToOne(at2, 1..(n - cut))
      /\ Through(at2, 1..(n - cut)) = J2
      /\ \A k \in 1..(n - cut) : r[k] = recs[at2[k]]
  <2>1. cut + (n - cut) <= n /\ r = SubSeq(recs, cut + 1, cut + (n - cut))
    BY <1>1
  <2> QED BY <1>1, <2>1, Stretch
<1> HIDE DEF l, r, at1, at2, J1, J2, n, K
<1>5. Scored(recs, W(K), eps) /\ Scored(recs, W(J1), eps) /\ Scored(recs, W(J2), eps)
  BY <1>2, RecordsScored DEF K
<1>6. W(K) = W(J1) \cup W(J2) /\ W(J1) \cap W(J2) = {}
  BY <1>2 DEF Weighty
<1>7. FoldRecords(l, eps) = AccOf(recs, W(J1), eps)
  BY <1>1, <1>3, <1>5, FoldExact
<1>8. FoldRecords(r, eps) = AccOf(recs, W(J2), eps)
  BY <1>1, <1>4, <1>5, FoldExact
<1>9. ASSUME Tame, cut \notin {0, n}
      PROVE  Combine(FromPairs(l, eps), FromPairs(r, eps), eps) = TripleOf(recs, K, eps)
  <2>1. FiniteScores(recs, K) /\ FiniteScores(recs, J1) /\ FiniteScores(recs, J2)
    BY <1>2, <1>9 DEF FiniteScores, Tame, K
  <2>2. W(K) = K /\ W(J1) = J1 /\ W(J2) = J2
    BY <2>1 DEF Weighty, FiniteScores, Finite
  <2>3. /\ cut \in Nat \ {0} /\ n - cut \in Nat \ {0}
        /\ cut \in J1 /\ n \in J2
    BY <1>1, <1>9 DEF J1, J2
  <2>4. FromPairs(l, eps) = TripleOf(recs, J1, eps)
    <3>1. Scored(recs, Through(at1, 1..cut), eps) /\ FiniteScores(recs, Through(at1, 1..cut))
      BY <1>3, <1>5, <2>1, <2>2
    <3>2. FromPairs(l, eps) = TripleOf(recs, Through(at1, 1..cut), eps)
      BY <1>3, <2>3, <3>1, FromPairsIs
    <3> QED BY <1>3, <3>2
  <2>5. FromPairs(r, eps) = TripleOf(recs, J2, eps)
    <3> DEFINE b == n - cut
    <3>1. /\ b \in Nat \ {0} /\ DOMAIN r = 1..b /\ OneToOne(at2, 1..b)
          /\ \A k \in 1..b : r[k] = recs[at2[k]]
      BY <1>4, <2>3
    <3>2. Through(at2, 1..b) = J2
      BY <1>4
    <3> HIDE DEF b
    <3>3. Scored(recs, Through(at2, 1..b), eps) /\ FiniteScores(recs, Through(at2, 1..b))
      BY <1>5, <2>1, <2>2, <3>2
    <3>4. FromPairs(r, eps) = TripleOf(recs, Through(at2, 1..b), eps)
      BY <3>1, <3>3, FromPairsIs
    <3> QED BY <3>2, <3>4
  <2>6. Combine(TripleOf(recs, J1, eps), TripleOf(recs, J2, eps), eps) = TripleOf(recs, K, eps)
    <3>1. /\ Scored(recs, J1 \cup J2, eps) /\ FiniteScores(recs, J1 \cup J2)
          /\ J1 # {} /\ J2 # {} /\ J1 \cap J2 = {}
      BY <1>2, <1>5, <2>1, <2>2, <2>3
    <3>2. Combine(TripleOf(recs, J1, eps), TripleOf(recs, J2, eps), eps)
            = TripleOf(recs, J1 \cup J2, eps)
      BY <3>1, CombineExact
    <3> QED BY <1>2, <3>2
  <2> QED BY <2>4, <2>5, <2>6
<1> HIDE DEF W
<1>10. /\ MergeAcc(AccOf(recs, W(J1), eps), AccOf(recs, W(J2), eps), eps) = AccOf(recs, W(K), eps)
       /\ MergeAcc(AccOf(recs, W(J2), eps), AccOf(recs, W(J1), eps), eps) = AccOf(recs, W(K), eps)
  <2>1. W(J2) \cup W(J1) = W(J1) \cup W(J2) /\ W(J2) \cap W(J1) = {}
    BY <1>6
  <2> QED BY <1>5, <1>6, <2>1, MergeExact
<1> QED BY <1>7, <1>8, <1>9, <1>10 DEF n
\* A part of the records that holds one in each place answers with its fraction.
LEMMA TripleAnswer ==
  ASSUME recs \in Seq(Records), NEW eps \in Temperatures, Tame, recs # << >>
  PROVE  Answered(TripleOf(recs, DOMAIN recs, eps)) = AverageOf(recs, DOMAIN recs, eps)
<1> DEFINE K == DOMAIN recs
           t == TopOf(recs, K)
<1>1. FiniteScores(recs, K) /\ K # {}
  BY EmptySeq DEF FiniteScores, Tame
<1>2. Weighty(recs, K, eps) = K
  BY <1>1 DEF Weighty, FiniteScores, Finite
<1>3. Scored(recs, K, eps)
  BY <1>2, RecordsScored
<1> HIDE DEF K, t
<1>4. ZAt(recs, K, t, eps) \in Nat \ {0}
  BY <1>1, <1>3, AccFacts DEF t
<1>5. TripleOf(recs, K, eps) = Triple(t, Columns, UAt(recs, K, t, eps), ZAt(recs, K, t, eps))
  BY DEF TripleOf, t
<1>6. Answered(TripleOf(recs, K, eps)) = << UAt(recs, K, t, eps), ZAt(recs, K, t, eps) >>
  <2>1. UAt(recs, K, t, eps) \in Int
    BY <1>1, <1>3, AccFacts DEF t
  <2> QED BY <1>4, <1>5, <2>1, SoftAvgAssumption DEF Answered, Triple
<1>7. ~ IsEmpty(AccOf(recs, K, eps))
  BY <1>1, <1>3, AccOfFolded
<1>8. Finalize(AccOf(recs, K, eps)) = << UAt(recs, K, t, eps), ZAt(recs, K, t, eps) >>
  BY <1>1, <1>7 DEF Finalize, AccOf, t
<1>9. Finalize(AccOf(recs, K, eps)) = AverageOf(recs, K, eps)
  BY <1>2, <1>3, AnswerExact
<1> QED BY <1>6, <1>8, <1>9 DEF K

\* The rows of a query are records at every step of the scan.
LEMMA KernelTyped == KernelSpec => [](recs \in Seq(Records))
<1>1. KernelInit => recs \in Seq(Records)
  BY DEF KernelInit
<1>2. recs \in Seq(Records) /\ [KernelNext]_recs => (recs \in Seq(Records))'
  BY DEF KernelNext
<1> QED BY <1>1, <1>2, PTL DEF KernelSpec

\* However long the scan, a cut anywhere and a merge in either order gives the definition.
THEOREM PartitionFreeHolds == KernelSpec => []PartitionFree
<1>1. ASSUME recs \in Seq(Records)
      PROVE  PartitionFree
  <2> SUFFICES ASSUME NEW eps \in Temperatures, NEW cut \in 0..Len(recs)
               PROVE  LET l == SubSeq(recs, 1, cut)
                          r == SubSeq(recs, cut + 1, Len(recs))
                          part(rs) == FoldRecords(rs, eps)
                          whole == SoftAverage(recs, eps)
                      IN  /\ SameAnswer(Finalize(MergeAcc(part(l), part(r), eps)), whole)
                          /\ SameAnswer(Finalize(MergeAcc(part(r), part(l), eps)), whole)
                          /\ Tame /\ cut \notin {0, Len(recs)} =>
                               SameAnswer(Answered(Combine(FromPairs(l, eps), FromPairs(r, eps), eps)),
                                          whole)
    BY DEF PartitionFree
  <2> DEFINE l == SubSeq(recs, 1, cut)
             r == SubSeq(recs, cut + 1, Len(recs))
             whole == SoftAverage(recs, eps)
  <2>1. /\ MergeAcc(FoldRecords(l, eps), FoldRecords(r, eps), eps)
             = AccOf(recs, Weighty(recs, DOMAIN recs, eps), eps)
        /\ MergeAcc(FoldRecords(r, eps), FoldRecords(l, eps), eps)
             = AccOf(recs, Weighty(recs, DOMAIN recs, eps), eps)
        /\ Tame /\ cut \notin {0, Len(recs)} =>
             Combine(FromPairs(l, eps), FromPairs(r, eps), eps) = TripleOf(recs, DOMAIN recs, eps)
    BY <1>1, Cut
  <2>2. Finalize(AccOf(recs, Weighty(recs, DOMAIN recs, eps), eps)) = whole
    BY <1>1, RecordsScored, AnswerExact DEF SoftAverage
  <2>3. Tame /\ cut \notin {0, Len(recs)} => Answered(TripleOf(recs, DOMAIN recs, eps)) = whole
    <3>1. cut \notin {0, Len(recs)} => recs # << >>
      BY <1>1
    <3> QED BY <1>1, <3>1, TripleAnswer DEF SoftAverage
  <2> HIDE DEF l, r, whole
  <2>4. /\ SameAnswer(Finalize(MergeAcc(FoldRecords(l, eps), FoldRecords(r, eps), eps)), whole)
        /\ SameAnswer(Finalize(MergeAcc(FoldRecords(r, eps), FoldRecords(l, eps), eps)), whole)
        /\ Tame /\ cut \notin {0, Len(recs)} =>
             SameAnswer(Answered(Combine(FromPairs(l, eps), FromPairs(r, eps), eps)), whole)
    BY <2>1, <2>2, <2>3, SameAsItself
  <2> QED BY <2>4 DEF l, r, whole
<1> QED BY <1>1, KernelTyped, PTL
-----------------------------------------------------------------------------
(***************************************************************************)
(* The PostgreSQL aggregate.                                               *)
(***************************************************************************)

\* The rows among those at K that qualify, one of them with a NaN, and the rest of what the
\* support functions tell apart.
AskedOf(rs, K)    == {i \in K : Qualifies(rs[i])}
HoldsNaN(rs, A)   == \E i \in A : NaN \in {rs[i].v, rs[i].s}
OneTemp(rs, A, e) == /\ e \in Nat \cup {EpsZero} /\ e \notin {SqlNull, BadEps}
                     /\ \A i \in A : rs[i].eps = e
Illegal(rs, A)    == \/ \E i \in A : rs[i].eps \in {SqlNull, BadEps}
                     \/ \E i, j \in A : rs[i].eps # rs[j].eps

\* The state that stands for the qualifying rows A at temperature e.
PgAccOf(rs, A, e) == [acc |-> AccOf(rs, Weighty(rs, A, e), e), nan |-> HoldsNaN(rs, A)]

\* State st is what the rows at K leave, in any order and grouping.
PgHolds(rs, K, st) ==
  \/ AskedOf(rs, K) = {} /\ st = SqlNull
  \/ Illegal(rs, AskedOf(rs, K)) /\ st = PgError
  \/ /\ AskedOf(rs, K) # {}
     /\ \E e : OneTemp(rs, AskedOf(rs, K), e) /\ st = Encode(PgAccOf(rs, AskedOf(rs, K), e), e)

\* Every row went to one worker: a worker's state stands for its rows, and the leader's for the
\* rows of the workers that were gathered.
PgInv ==
  /\ scanned \in Seq(PgRows) /\ working \in SUBSET Workers
  /\ partial = [w \in Workers |-> partial[w]]
  /\ \E owner \in [DOMAIN scanned -> Workers] :
       /\ \A w \in Workers : PgHolds(scanned, {i \in DOMAIN scanned : owner[i] = w}, partial[w])
       /\ PgHolds(scanned, {i \in DOMAIN scanned : owner[i] \notin working}, group)

\* Qualifying rows of one temperature have exact weights.
LEMMA PgScored ==
  ASSUME NEW rs \in Seq(PgRows), NEW A \in SUBSET DOMAIN rs, NEW e, OneTemp(rs, A, e),
         \A i \in A : Qualifies(rs[i])
  PROVE  Scored(rs, Weighty(rs, A, e), e)
<1> DEFINE W == Weighty(rs, A, e)
<1>1. W \in SUBSET A /\ \A i \in W : rs[i] \in PgRows /\ rs[i].eps = e
  <2>1. \A i \in DOMAIN rs : rs[i] \in PgRows
    BY ElementOfSeq, LenProperties
  <2> QED BY <2>1 DEF Weighty, OneTemp
<1>2. IsFiniteSet(W)
  <2>1. IsFiniteSet(DOMAIN rs)
    BY LenProperties, FS_Interval
  <2> QED BY <1>1, <2>1, FS_Subset
<1>3. e \in Nat \cup {EpsZero} /\ e \notin {SqlNull, BadEps}
  BY DEF OneTemp
<1>4. \A i \in W : /\ rs[i].s # NaN /\ rs[i].v # NaN /\ (e = EpsInf \/ rs[i].s # NegInf)
                   /\ rs[i].s # SqlNull /\ rs[i].v # SqlNull
  BY DEF Weighty, IsNull, Qualifies
<1> HIDE DEF W
<1>5. \A i \in W : /\ rs[i].v \in Int /\ rs[i].s \in NegInf..PosInf
                   /\ e = EpsInf \/ rs[i].s # NegInf
  BY <1>1, <1>4, PgAssumption
<1>6. ASSUME NEW i \in W, NEW j \in W, rs[i].s # PosInf, rs[j].s # PosInf, IsSoft(e)
      PROVE  e * (rs[i].s - rs[j].s) <= Spread
  <2>1. e # EpsInf
    BY <1>6 DEF IsSoft, EpsInf
  <2>2. Finite(rs[i].s) /\ Finite(rs[j].s)
    BY <1>4, <1>6, <2>1 DEF Finite
  <2>3. SqlNull \notin {rs[i].s, rs[j].s}
    BY <1>4
  <2> QED BY <1>1, <1>3, <1>6, <2>2, <2>3, PgAssumption
<1>7. Scored(rs, W, e)
  BY <1>2, <1>3, <1>5, <1>6 DEF Scored
<1> QED BY <1>7 DEF W

\* Decoding an encoded state gives it back, and neither NULL nor an error is one.
LEMMA CodecExact ==
  ASSUME NEW a, NEW e \in Nat \cup {EpsZero}, Folded(a.acc, e), a = [acc |-> a.acc, nan |-> a.nan],
         a.nan \in BOOLEAN
  PROVE  /\ Decode(Encode(a, e)) = a /\ EpsOf(Encode(a, e)) = e
         /\ Encode(a, e) # SqlNull /\ Encode(a, e) # PgError
<1>1. /\ a.acc = [mu |-> a.acc.mu, z |-> a.acc.z, u |-> a.acc.u]
      /\ a.acc.mu \in Int /\ a.acc.z \in Int /\ a.acc.u \in Int
  BY InfinityFacts DEF Folded
<1>2. e \in Int
  BY DEF EpsZero
<1> DEFINE b == IF a.nan THEN 1 ELSE 0
<1>3. b \in Int /\ (b # 0) = a.nan
  OBVIOUS
<1> HIDE DEF b
<1>4. Encode(a, e) = << a.acc.mu, a.acc.z, a.acc.u, e, b >>
  BY DEF Encode, b
<1>5. Encode(a, e) \in Int \X Int \X Int \X Int \X Int
  BY <1>1, <1>2, <1>3, <1>4
<1>6. Decode(Encode(a, e)) = [acc |-> [mu |-> a.acc.mu, z |-> a.acc.z, u |-> a.acc.u], nan |-> b # 0]
  BY <1>4 DEF Decode
<1>7. Decode(Encode(a, e)) = a
  BY <1>1, <1>3, <1>6
<1>8. EpsOf(Encode(a, e)) = e
  BY <1>4 DEF EpsOf
<1> QED BY <1>5, <1>7, <1>8, PgAssumption

\* The state that stands for some rows is one of those.
LEMMA PgAccFacts ==
  ASSUME NEW rs, NEW A, NEW e, Scored(rs, Weighty(rs, A, e), e)
  PROVE  LET a == PgAccOf(rs, A, e)
         IN  /\ Decode(Encode(a, e)) = a /\ EpsOf(Encode(a, e)) = e
             /\ Encode(a, e) # SqlNull /\ Encode(a, e) # PgError
<1> DEFINE a == PgAccOf(rs, A, e)
<1>1. a.acc = AccOf(rs, Weighty(rs, A, e), e) /\ a.nan = HoldsNaN(rs, A)
  BY DEF PgAccOf
<1>2. Folded(a.acc, e)
  BY <1>1, AccOfFolded
<1>3. a = [acc |-> a.acc, nan |-> a.nan] /\ a.nan \in BOOLEAN
  BY <1>1 DEF PgAccOf, HoldsNaN
<1>4. e \in Nat \cup {EpsZero}
  BY DEF Scored
<1> HIDE DEF a
<1>5. /\ Decode(Encode(a, e)) = a /\ EpsOf(Encode(a, e)) = e
      /\ Encode(a, e) # SqlNull /\ Encode(a, e) # PgError
  BY <1>2, <1>3, <1>4, CodecExact
<1> QED BY <1>5 DEF a
\* A state stands for rows, not for the history around them.
LEMMA PgSameRows ==
  ASSUME NEW rs, NEW qs, NEW K, \A i \in K : qs[i] = rs[i], NEW st, PgHolds(rs, K, st)
  PROVE  PgHolds(qs, K, st)
<1> DEFINE A == AskedOf(rs, K)
<1>1. AskedOf(qs, K) = A
  BY DEF AskedOf
<1>2. \A i \in A : qs[i] = rs[i]
  BY DEF AskedOf
<1> HIDE DEF A
<1>3. Illegal(qs, A) = Illegal(rs, A) /\ HoldsNaN(qs, A) = HoldsNaN(rs, A)
  BY <1>2 DEF Illegal, HoldsNaN
<1>4. \A e : OneTemp(qs, A, e) = OneTemp(rs, A, e)
  BY <1>2 DEF OneTemp
<1>5. ASSUME NEW e
      PROVE  PgAccOf(qs, A, e) = PgAccOf(rs, A, e)
  <2> DEFINE W == Weighty(rs, A, e)
  <2>1. Weighty(qs, A, e) = W
    BY <1>2 DEF Weighty
  <2>2. \A i \in W : qs[i] = rs[i]
    BY <1>2 DEF Weighty
  <2> HIDE DEF W
  <2>3. TopOf(qs, W) = TopOf(rs, W)
    <3>1. {qs[i].s : i \in W} = {rs[i].s : i \in W}
      BY <2>2
    <3> QED BY <3>1 DEF TopOf
  <2>4. \A t : WeightsAt(qs, W, t, e) = WeightsAt(rs, W, t, e)
    BY <2>2 DEF WeightsAt
  <2>5. \A t : TermsAt(qs, W, t, e) = TermsAt(rs, W, t, e)
    BY <2>2 DEF TermsAt
  <2>6. AccOf(qs, W, e) = AccOf(rs, W, e)
    BY <2>3, <2>4, <2>5 DEF AccOf, ZAt, UAt
  <2> QED BY <1>3, <2>1, <2>6 DEF PgAccOf, W
<1> QED BY <1>1, <1>3, <1>4, <1>5 DEF PgHolds, A

\* bruce_softavg_sfunc takes a state to the one that stands for its row too.
THEOREM SFuncExact ==
  ASSUME NEW rs \in Seq(PgRows), NEW K \in SUBSET DOMAIN rs, NEW i \in DOMAIN rs, i \notin K,
         NEW st, PgHolds(rs, K, st), st # PgError
  PROVE  PgHolds(rs, K \cup {i}, SFunc(st, rs[i]))
<1> DEFINE A == AskedOf(rs, K)
           row == rs[i]
<1>1. row \in PgRows
  BY ElementOfSeq, LenProperties
<1>2. A \in SUBSET K /\ A \in SUBSET DOMAIN rs /\ i \notin A /\ \A j \in A : Qualifies(rs[j])
  BY DEF AskedOf
<1>3. CASE ~ Qualifies(row)
  <2>1. AskedOf(rs, K \cup {i}) = A
    BY <1>3 DEF AskedOf
  <2>2. SFunc(st, row) = st
    BY <1>3 DEF SFunc
  <2> QED BY <2>1, <2>2 DEF PgHolds
<1>4. CASE Qualifies(row) /\ row.eps \in {SqlNull, BadEps}
  <2>1. i \in AskedOf(rs, K \cup {i})
    BY <1>4 DEF AskedOf
  <2>2. Illegal(rs, AskedOf(rs, K \cup {i}))
    BY <1>4, <2>1 DEF Illegal
  <2>3. SFunc(st, row) = PgError
    BY <1>4 DEF SFunc
  <2> QED BY <2>2, <2>3 DEF PgHolds
<1>5. CASE Qualifies(row) /\ row.eps \notin {SqlNull, BadEps}
  <2> DEFINE B == A \cup {i}
             e == row.eps
             a == IF st = SqlNull THEN NewPgAcc ELSE Decode(st)
  <2>1. AskedOf(rs, K \cup {i}) = B
    BY <1>5 DEF AskedOf
  <2>2. e \in Nat \cup {EpsZero}
    BY <1>1, <1>5, PgAssumption
  <2> HIDE DEF A, B
  <2>3. \/ A = {} /\ st = SqlNull
        \/ A # {} /\ \E d : OneTemp(rs, A, d) /\ st = Encode(PgAccOf(rs, A, d), d)
    BY DEF PgHolds, A
  <2>4. ASSUME A = {} \/ OneTemp(rs, A, e), a = PgAccOf(rs, A, e),
               st = SqlNull \/ EpsOf(st) = e
        PROVE  PgHolds(rs, K \cup {i}, SFunc(st, row))
    <3>1. OneTemp(rs, B, e) /\ OneTemp(rs, A, e)
      BY <1>5, <2>2, <2>4 DEF OneTemp, B
    <3>2. B \in SUBSET DOMAIN rs /\ \A j \in B : Qualifies(rs[j])
      BY <1>2, <1>5 DEF B
    <3>3. Scored(rs, Weighty(rs, B, e), e)
      BY <3>1, <3>2, PgScored
    <3>4. Absorbed(AccOf(rs, Weighty(rs, A, e), e), row, e) = AccOf(rs, Weighty(rs, B, e), e)
      BY <1>2, <3>3, AbsorbExact DEF B
    <3>5. a.acc = AccOf(rs, Weighty(rs, A, e), e) /\ a.nan = HoldsNaN(rs, A)
          /\ a = [acc |-> a.acc, nan |-> a.nan]
      BY <2>4 DEF PgAccOf
    <3>6. HoldsNaN(rs, B) = (HoldsNaN(rs, A) \/ NaN \in {row.v, row.s})
      BY DEF HoldsNaN, B
    <3> HIDE DEF a
    <3>7. PgAbsorb(a, row.s, row.v, e) = PgAccOf(rs, B, e)
      <4>1. CASE NaN \in {row.s, row.v}
        <5>1. PgAbsorb(a, row.s, row.v, e) = [acc |-> a.acc, nan |-> TRUE]
          BY <3>5, <4>1 DEF PgAbsorb
        <5>2. Absorbed(a.acc, row, e) = a.acc
          BY <4>1 DEF Absorbed, IsNull
        <5>3. HoldsNaN(rs, B) = TRUE
          BY <3>6, <4>1
        <5> QED BY <3>4, <3>5, <5>1, <5>2, <5>3 DEF PgAccOf
      <4>2. CASE NaN \notin {row.s, row.v}
        <5>1. PgAbsorb(a, row.s, row.v, e) = [acc |-> Absorb(a.acc, row.s, row.v, e), nan |-> a.nan]
          BY <3>5, <4>2 DEF PgAbsorb
        <5>2. Absorbed(a.acc, row, e) = Absorb(a.acc, row.s, row.v, e)
          BY <4>2 DEF Absorbed, IsNull
        <5>3. HoldsNaN(rs, B) = HoldsNaN(rs, A)
          BY <3>6, <4>2 DEF HoldsNaN
        <5> QED BY <3>4, <3>5, <5>1, <5>2, <5>3 DEF PgAccOf
      <4> QED BY <4>1, <4>2
    <3>8. SFunc(st, row) = Encode(PgAccOf(rs, B, e), e)
      BY <1>5, <2>4, <3>7 DEF SFunc, a
    <3>9. B # {}
      BY DEF B
    <3> QED BY <2>1, <3>1, <3>8, <3>9 DEF PgHolds
  <2>5. CASE A = {} /\ st = SqlNull
    <3>1. HoldsNaN(rs, A) = FALSE /\ Weighty(rs, A, e) = {}
      BY <2>5 DEF HoldsNaN, Weighty
    <3>2. a = PgAccOf(rs, A, e)
      BY <2>5, <3>1 DEF NewPgAcc, PgAccOf, AccOf
    <3> QED BY <2>4, <2>5, <3>2
  <2>6. ASSUME NEW d, A # {}, OneTemp(rs, A, d), st = Encode(PgAccOf(rs, A, d), d)
        PROVE  PgHolds(rs, K \cup {i}, SFunc(st, row))
    <3>1. Scored(rs, Weighty(rs, A, d), d)
      BY <1>2, <2>6, PgScored DEF A
    <3>2. Decode(st) = PgAccOf(rs, A, d) /\ EpsOf(st) = d /\ st # SqlNull
      BY <2>6, <3>1, PgAccFacts
    <3>3. CASE d = e
      <4>1. a = PgAccOf(rs, A, e)
        BY <3>2, <3>3
      <4> QED BY <2>4, <2>6, <3>2, <3>3, <4>1
    <3>4. CASE d # e
      <4>1. SFunc(st, row) = PgError
        BY <1>5, <3>2, <3>4 DEF SFunc
      <4>2. PICK j \in A : rs[j].eps = d
        BY <2>6 DEF OneTemp
      <4>3. Illegal(rs, B)
        BY <3>4, <4>2 DEF Illegal, B
      <4> QED BY <2>1, <4>1, <4>3 DEF PgHolds
    <3> QED BY <3>3, <3>4
  <2> QED BY <2>3, <2>5, <2>6
<1> QED BY <1>3, <1>4, <1>5

\* bruce_softavg_combine takes two states to the one that stands for the rows of both.
THEOREM CombineFuncExact ==
  ASSUME NEW rs \in Seq(PgRows), NEW K \in SUBSET DOMAIN rs, NEW J \in SUBSET DOMAIN rs,
         K \cap J = {}, NEW a, NEW b, PgHolds(rs, K, a), PgHolds(rs, J, b),
         a # PgError, b # PgError
  PROVE  PgHolds(rs, K \cup J, CombineFunc(a, b))
<1> DEFINE A == AskedOf(rs, K)
           B == AskedOf(rs, J)
<1>1. AskedOf(rs, K \cup J) = A \cup B /\ A \cap B = {}
  BY DEF AskedOf
<1>2. /\ A \in SUBSET DOMAIN rs /\ \A j \in A : Qualifies(rs[j])
      /\ B \in SUBSET DOMAIN rs /\ \A j \in B : Qualifies(rs[j])
  BY DEF AskedOf
<1>3. \/ A = {} /\ a = SqlNull
      \/ A # {} /\ \E d : OneTemp(rs, A, d) /\ a = Encode(PgAccOf(rs, A, d), d)
  BY DEF PgHolds
<1>4. \/ B = {} /\ b = SqlNull
      \/ B # {} /\ \E e : OneTemp(rs, B, e) /\ b = Encode(PgAccOf(rs, B, e), e)
  BY DEF PgHolds
<1>5. CASE B = {} /\ b = SqlNull
  <2>1. A \cup B = A
    BY <1>5
  <2>2. CombineFunc(a, b) = a
    BY <1>5 DEF CombineFunc
  <2> HIDE DEF A, B
  <2>3. AskedOf(rs, K \cup J) = AskedOf(rs, K)
    BY <1>1, <2>1 DEF A
  <2> QED BY <2>2, <2>3 DEF PgHolds
<1>6. CASE A = {} /\ a = SqlNull /\ b # SqlNull
  <2>1. A \cup B = B
    BY <1>6
  <2>2. CombineFunc(a, b) = b
    BY <1>6 DEF CombineFunc
  <2> HIDE DEF A, B
  <2>3. AskedOf(rs, K \cup J) = AskedOf(rs, J)
    BY <1>1, <2>1 DEF B
  <2> QED BY <2>2, <2>3 DEF PgHolds
<1>7. ASSUME NEW d, A # {}, OneTemp(rs, A, d), a = Encode(PgAccOf(rs, A, d), d),
             NEW e, B # {}, OneTemp(rs, B, e), b = Encode(PgAccOf(rs, B, e), e)
      PROVE  PgHolds(rs, K \cup J, CombineFunc(a, b))
  <2>1. Scored(rs, Weighty(rs, A, d), d) /\ Scored(rs, Weighty(rs, B, e), e)
    BY <1>2, <1>7, PgScored
  <2>2. /\ Decode(a) = PgAccOf(rs, A, d) /\ EpsOf(a) = d /\ a # SqlNull
        /\ Decode(b) = PgAccOf(rs, B, e) /\ EpsOf(b) = e /\ b # SqlNull
    BY <1>7, <2>1, PgAccFacts
  <2> HIDE DEF A, B
  <2>3. CASE d # e
    <3>1. CombineFunc(a, b) = PgError
      BY <2>2, <2>3 DEF CombineFunc
    <3>2. PICK i \in A, j \in B : rs[i].eps = d /\ rs[j].eps = e
      BY <1>7 DEF OneTemp
    <3>3. Illegal(rs, A \cup B)
      BY <2>3, <3>2 DEF Illegal
    <3> QED BY <1>1, <3>1, <3>3 DEF PgHolds
  <2>4. CASE d = e
    <3> DEFINE U == A \cup B
    <3>1. OneTemp(rs, U, e)
      BY <1>7, <2>4 DEF OneTemp
    <3>2. U \in SUBSET DOMAIN rs /\ \A j \in U : Qualifies(rs[j])
      BY <1>2
    <3>3. Weighty(rs, U, e) = Weighty(rs, A, e) \cup Weighty(rs, B, e)
          /\ Weighty(rs, A, e) \cap Weighty(rs, B, e) = {}
      BY <1>1 DEF Weighty
    <3> HIDE DEF U
    <3>4. Scored(rs, Weighty(rs, U, e), e)
      BY <3>1, <3>2, PgScored
    <3>5. MergeAcc(AccOf(rs, Weighty(rs, A, e), e), AccOf(rs, Weighty(rs, B, e), e), e)
            = AccOf(rs, Weighty(rs, U, e), e)
      BY <3>3, <3>4, MergeExact
    <3>6. HoldsNaN(rs, U) = (HoldsNaN(rs, A) \/ HoldsNaN(rs, B))
      BY DEF HoldsNaN, U
    <3>7. PgMerge(PgAccOf(rs, A, e), PgAccOf(rs, B, e), e) = PgAccOf(rs, U, e)
      BY <3>5, <3>6 DEF PgMerge, PgAccOf
    <3>8. CombineFunc(a, b) = Encode(PgAccOf(rs, U, e), e)
      BY <2>2, <2>4, <3>7 DEF CombineFunc
    <3>9. U # {}
      BY <1>7 DEF U
    <3> QED BY <1>1, <3>1, <3>8, <3>9 DEF PgHolds, U
  <2> QED BY <2>3, <2>4
<1>8. b = SqlNull => B = {}
  <2>1. ASSUME NEW e, OneTemp(rs, B, e), b = Encode(PgAccOf(rs, B, e), e)
        PROVE  b # SqlNull
    <3>1. Scored(rs, Weighty(rs, B, e), e)
      BY <1>2, <2>1, PgScored
    <3> HIDE DEF B
    <3> QED BY <2>1, <3>1, PgAccFacts
  <2> QED BY <1>4, <2>1
<1> HIDE DEF A, B
<1> QED BY <1>3, <1>4, <1>5, <1>6, <1>7, <1>8
LEMMA PgInvInit == PgInit => PgInv
<1> SUFFICES ASSUME PgInit PROVE PgInv
  OBVIOUS
<1>1. /\ scanned = << >> /\ working = Workers /\ group = SqlNull
      /\ partial = [w \in Workers |-> SqlNull]
  BY DEF PgInit
<1>2. DOMAIN scanned = {} /\ scanned \in Seq(PgRows)
  BY <1>1
<1>3. PICK owner : owner \in [DOMAIN scanned -> Workers]
  <2>1. [i \in {} |-> i] \in [{} -> Workers]
    OBVIOUS
  <2> QED BY <1>2, <2>1
<1>4. \A K \in SUBSET DOMAIN scanned : PgHolds(scanned, K, SqlNull)
  <2>1. AskedOf(scanned, {}) = {}
    BY DEF AskedOf
  <2> QED BY <1>2, <2>1 DEF PgHolds
<1>5. /\ \A w \in Workers : PgHolds(scanned, {i \in DOMAIN scanned : owner[i] = w}, partial[w])
      /\ PgHolds(scanned, {i \in DOMAIN scanned : owner[i] \notin working}, group)
  BY <1>1, <1>4
<1> QED BY <1>1, <1>2, <1>3, <1>5 DEF PgInv

\* A row goes to the state of the worker that scans it.
LEMMA PgScanStep ==
  ASSUME PgInv, NEW w \in Workers, NEW row \in PgRows, ScanRow(w, row)
  PROVE  PgInv'
<1> DEFINE n    == Len(scanned)
           at   == n + 1
           D    == DOMAIN scanned
<1>1. /\ ~ Aborted /\ w \in working /\ working' = working /\ group' = group
      /\ scanned' = Append(scanned, row)
      /\ partial' = [partial EXCEPT ![w] = SFunc(@, row)]
  BY DEF ScanRow
<1>2. /\ scanned \in Seq(PgRows) /\ working \in SUBSET Workers
      /\ partial = [v \in Workers |-> partial[v]]
  BY DEF PgInv
<1>3. /\ scanned' \in Seq(PgRows) /\ DOMAIN scanned' = D \cup {at} /\ at \notin D
      /\ scanned'[at] = row /\ \A i \in D : scanned'[i] = scanned[i]
  <2>1. /\ Len(scanned') = n + 1 /\ scanned' \in Seq(PgRows) /\ n \in Nat
        /\ \A i \in 1..n : scanned'[i] = scanned[i]
        /\ scanned'[n + 1] = row
    BY <1>1, <1>2, AppendProperties, LenProperties
  <2>2. D = 1..n /\ DOMAIN scanned' = 1..(n + 1)
    BY <1>2, <2>1, LenProperties
  <2> QED BY <2>1, <2>2
<1>4. PICK owner \in [D -> Workers] :
        /\ \A v \in Workers : PgHolds(scanned, {i \in D : owner[i] = v}, partial[v])
        /\ PgHolds(scanned, {i \in D : owner[i] \notin working}, group)
  BY DEF PgInv
<1> DEFINE next == [i \in D \cup {at} |-> IF i = at THEN w ELSE owner[i]]
           Rows(v) == {i \in D : owner[i] = v}
<1> HIDE DEF D, at
<1>5. next \in [D \cup {at} -> Workers]
  BY <1>4
<1>6. /\ {i \in D \cup {at} : next[i] = w} = Rows(w) \cup {at}
      /\ \A v \in Workers : v # w => {i \in D \cup {at} : next[i] = v} = Rows(v)
  BY <1>3
<1>7. {i \in D \cup {at} : next[i] \notin working} = {i \in D : owner[i] \notin working}
  BY <1>1, <1>3
<1>8. partial' = [v \in Workers |-> partial'[v]] /\ partial'[w] = SFunc(partial[w], row)
      /\ \A v \in Workers : v # w => partial'[v] = partial[v]
  BY <1>1, <1>2
<1>9. ASSUME NEW v \in Workers
      PROVE  PgHolds(scanned', {i \in D \cup {at} : next[i] = v}, partial'[v])
  <2>1. Rows(v) \in SUBSET D /\ at \notin Rows(v)
    BY <1>3
  <2>2. PgHolds(scanned', Rows(v), partial[v])
    <3>1. PgHolds(scanned, Rows(v), partial[v])
      BY <1>4
    <3>2. \A i \in Rows(v) : scanned'[i] = scanned[i]
      BY <1>3
    <3> HIDE DEF Rows
    <3> QED BY <3>1, <3>2, PgSameRows
  <2> HIDE DEF Rows, next
  <2>3. CASE v # w
    BY <1>6, <1>8, <2>2, <2>3
  <2>4. CASE v = w
    <3>1. partial[w] # PgError
      BY <1>1 DEF Aborted
    <3>2. PgHolds(scanned', Rows(w) \cup {at}, SFunc(partial[w], scanned'[at]))
      BY <1>3, <2>1, <2>2, <2>4, <3>1, SFuncExact
    <3> QED BY <1>3, <1>6, <1>8, <2>4, <3>2
  <2> QED BY <2>3, <2>4
<1>10. PgHolds(scanned', {i \in D \cup {at} : next[i] \notin working'}, group')
  <2> DEFINE G == {i \in D : owner[i] \notin working}
  <2>1. PgHolds(scanned, G, group) /\ \A i \in G : scanned'[i] = scanned[i]
    BY <1>3, <1>4
  <2> HIDE DEF G
  <2>2. PgHolds(scanned', G, group)
    BY <2>1, PgSameRows
  <2> QED BY <1>1, <1>7, <2>2 DEF G
<1> HIDE DEF next
<1>11. PICK new \in [DOMAIN scanned' -> Workers] :
         /\ \A v \in Workers : PgHolds(scanned', {i \in DOMAIN scanned' : new[i] = v}, partial'[v])
         /\ PgHolds(scanned', {i \in DOMAIN scanned' : new[i] \notin working'}, group')
  BY <1>3, <1>5, <1>9, <1>10
<1> QED BY <1>1, <1>2, <1>3, <1>8, <1>11 DEF PgInv

\* The leader combines a worker's state into its own.
LEMMA PgGatherStep ==
  ASSUME PgInv, NEW w \in Workers, Gather(w)
  PROVE  PgInv'
<1> DEFINE D == DOMAIN scanned
<1>1. /\ ~ Aborted /\ w \in working /\ working' = working \ {w}
      /\ group' = CombineFunc(group, partial[w])
      /\ scanned' = scanned /\ partial' = partial
  BY DEF Gather
<1>2. /\ scanned \in Seq(PgRows) /\ working \in SUBSET Workers
      /\ partial = [v \in Workers |-> partial[v]]
  BY DEF PgInv
<1>3. PICK owner \in [D -> Workers] :
        /\ \A v \in Workers : PgHolds(scanned, {i \in D : owner[i] = v}, partial[v])
        /\ PgHolds(scanned, {i \in D : owner[i] \notin working}, group)
  BY DEF PgInv
<1> DEFINE K == {i \in D : owner[i] \notin working}
           J == {i \in D : owner[i] = w}
<1>4. /\ K \in SUBSET D /\ J \in SUBSET D /\ K \cap J = {}
      /\ {i \in D : owner[i] \notin working \ {w}} = K \cup J
  BY <1>1
<1>5. group # PgError /\ partial[w] # PgError
  BY <1>1 DEF Aborted
<1>6. PgHolds(scanned, K, group) /\ PgHolds(scanned, J, partial[w])
  BY <1>3
<1> HIDE DEF K, J
<1>7. PgHolds(scanned, K \cup J, CombineFunc(group, partial[w]))
  BY <1>2, <1>4, <1>5, <1>6, CombineFuncExact
<1>8. PgHolds(scanned', {i \in DOMAIN scanned' : owner[i] \notin working'}, group')
  BY <1>1, <1>4, <1>7
<1>9. \A v \in Workers : PgHolds(scanned', {i \in DOMAIN scanned' : owner[i] = v}, partial'[v])
  BY <1>1, <1>3
<1>10. owner \in [DOMAIN scanned' -> Workers]
  BY <1>1, <1>3
<1> QED BY <1>1, <1>2, <1>8, <1>9, <1>10 DEF PgInv

\* Whichever worker moves next.
THEOREM PgInvariant == PgSpec => []PgInv
<1>1. PgInv /\ [PgNext]_pgVars => PgInv'
  <2> SUFFICES ASSUME PgInv, [PgNext]_pgVars PROVE PgInv'
    OBVIOUS
  <2>1. CASE UNCHANGED pgVars
    BY <2>1 DEF PgInv, pgVars
  <2>2. ASSUME NEW w \in Workers, Gather(w) PROVE PgInv'
    BY <2>2, PgGatherStep
  <2>3. ASSUME NEW w \in Workers, NEW row \in PgRows, ScanRow(w, row) PROVE PgInv'
    BY <2>3, PgScanStep
  <2> QED BY <2>1, <2>2, <2>3 DEF PgNext
<1> QED BY <1>1, PgInvInit, PTL DEF PgSpec
\* The temperatures of some rows are at most one just where no two rows differ in them.
LEMMA AtMostOne ==
  ASSUME NEW T, IsFiniteSet(T)
  PROVE  Cardinality(T) <= 1 <=> \A x, y \in T : x = y
<1>1. CASE T = {}
  BY <1>1, FS_EmptySet
<1>2. ASSUME NEW x \in T
      PROVE  Cardinality(T) <= 1 <=> T = {x}
  <2>1. IsFiniteSet({x}) /\ Cardinality({x}) = 1
    BY FS_Singleton
  <2>2. Cardinality(T) \in Nat
    BY FS_CardinalityType
  <2>3. Cardinality({x}) <= Cardinality(T) /\ (Cardinality({x}) = Cardinality(T) => {x} = T)
    BY FS_Subset
  <2> QED BY <2>1, <2>2, <2>3
<1> QED BY <1>1, <1>2

\* The illegal sets of rows are those the property names.
LEMMA LegalRows ==
  ASSUME NEW rs \in Seq(PgRows), NEW A \in SUBSET DOMAIN rs
  PROVE  LET temps == {rs[i].eps : i \in A}
         IN  (Cardinality(temps) <= 1 /\ temps \cap {SqlNull, BadEps} = {}) = ~ Illegal(rs, A)
<1> DEFINE temps == {rs[i].eps : i \in A}
<1>1. IsFiniteSet(temps)
  <2>1. IsFiniteSet(A)
    <3>1. IsFiniteSet(DOMAIN rs)
      BY LenProperties, FS_Interval
    <3> QED BY <3>1, FS_Subset
  <2> DEFINE h == [i \in A |-> rs[i].eps]
  <2>2. h \in Surjection(A, temps)
    BY DEF Surjection
  <2> HIDE DEF h
  <2> QED BY <2>1, <2>2, FS_Surjection
<1>2. Illegal(rs, A) = (temps \cap {SqlNull, BadEps} # {} \/ \E x, y \in temps : x # y)
  BY ZenonT(30) DEF Illegal
<1> HIDE DEF temps
<1>3. Cardinality(temps) <= 1 <=> \A x, y \in temps : x = y
  BY <1>1, AtMostOne
<1>4. (Cardinality(temps) <= 1 /\ temps \cap {SqlNull, BadEps} = {}) = ~ Illegal(rs, A)
  BY <1>2, <1>3
<1> QED BY <1>4 DEF temps

\* What the final function makes of the state that stands for the rows.
LEMMA FinalExact ==
  ASSUME NEW rs \in Seq(PgRows), NEW A \in SUBSET DOMAIN rs, \A i \in A : Qualifies(rs[i]),
         NEW e, OneTemp(rs, A, e)
  PROVE  LET got  == FinalFunc(Encode(PgAccOf(rs, A, e), e))
             mean == AverageOf(rs, A, e)
         IN  IF HoldsNaN(rs, A) THEN got = NaN
             ELSE IF mean = None THEN got = SqlNull
             ELSE got \notin {SqlNull, NaN} /\ got = mean
<1> DEFINE W    == Weighty(rs, A, e)
           st   == Encode(PgAccOf(rs, A, e), e)
           got  == FinalFunc(st)
           mean == AverageOf(rs, A, e)
<1>1. Scored(rs, W, e)
  BY PgScored
<1>2. Decode(st) = PgAccOf(rs, A, e) /\ st # SqlNull
  BY <1>1, PgAccFacts
<1>3. Finalize(AccOf(rs, W, e)) = mean
  BY <1>1, AnswerExact
<1>4. Decode(st).nan = HoldsNaN(rs, A) /\ Decode(st).acc = AccOf(rs, W, e)
  BY <1>2 DEF PgAccOf
<1>5. ASSUME mean # None
      PROVE  mean \notin {SqlNull, NaN}
  <2>1. W # {}
    BY <1>5 DEF AverageOf
  <2> DEFINE t == TopOf(rs, W)
  <2>2. ZAt(rs, W, t, e) \in Int /\ UAt(rs, W, t, e) \in Int
    BY <1>1, <2>1, AccFacts
  <2>3. ~ IsEmpty(AccOf(rs, W, e))
    BY <1>1, <2>1, AccOfFolded
  <2>4. mean = << UAt(rs, W, t, e), ZAt(rs, W, t, e) >>
    BY <1>3, <2>1, <2>3 DEF Finalize, AccOf
  <2> HIDE DEF t, mean
  <2>5. mean \in Int \X Int
    BY <2>2, <2>4
  <2> QED BY <2>5, PgAssumption
<1> HIDE DEF W, st, mean
<1>6. got = IF HoldsNaN(rs, A) THEN NaN ELSE IF mean = None THEN SqlNull ELSE mean
  BY <1>2, <1>3, <1>4 DEF FinalFunc
<1>7. IF HoldsNaN(rs, A) THEN got = NaN
      ELSE IF mean = None THEN got = SqlNull ELSE got \notin {SqlNull, NaN} /\ got = mean
  BY <1>5, <1>6
<1> QED BY <1>7 DEF got, st, mean

\* However many workers scan however many rows in whatever order, a query that returns gives
\* what one scan means, and an error is one of the rows'.
THEOREM ParallelIsSerialHolds == PgSpec => []ParallelIsSerial
<1>1. ASSUME PgInv
      PROVE  ParallelIsSerial
  <2> DEFINE D     == DOMAIN scanned
             asked == {i \in D : Qualifies(scanned[i])}
             temps == {scanned[i].eps : i \in asked}
             legal == Cardinality(temps) <= 1 /\ temps \cap {SqlNull, BadEps} = {}
             nan   == \E i \in asked : NaN \in {scanned[i].v, scanned[i].s}
             e     == CHOOSE x \in temps : TRUE
             mean  == AverageOf(scanned, asked, e)
             got   == FinalFunc(group)
  <2> SUFFICES /\ Aborted => ~ legal
               /\ working = {} /\ ~ Aborted =>
                    /\ legal
                    /\ IF asked = {} THEN got = SqlNull
                       ELSE IF nan THEN got = NaN
                       ELSE IF mean = None THEN got = SqlNull
                       ELSE got \notin {SqlNull, NaN} /\ SameAnswer(got, mean)
    BY DEF ParallelIsSerial
  <2>1. scanned \in Seq(PgRows)
    BY <1>1 DEF PgInv
  <2>2. PICK owner \in [D -> Workers] :
          /\ \A w \in Workers : PgHolds(scanned, {i \in D : owner[i] = w}, partial[w])
          /\ PgHolds(scanned, {i \in D : owner[i] \notin working}, group)
    BY <1>1 DEF PgInv
  <2>3. legal = ~ Illegal(scanned, asked)
    BY <2>1, LegalRows
  <2>4. asked = AskedOf(scanned, D) /\ nan = HoldsNaN(scanned, asked)
    BY DEF AskedOf, HoldsNaN
  <2>5. asked \in SUBSET D /\ \A i \in asked : Qualifies(scanned[i])
    OBVIOUS
  <2> HIDE DEF legal, nan
  <2>6. ASSUME NEW K \in SUBSET D, NEW st, PgHolds(scanned, K, st), st = PgError
        PROVE  Illegal(scanned, asked)
    <3>1. AskedOf(scanned, K) \in SUBSET asked /\ AskedOf(scanned, K) \in SUBSET D
          /\ \A i \in AskedOf(scanned, K) : Qualifies(scanned[i])
      BY DEF AskedOf
    <3> DEFINE A == AskedOf(scanned, K)
    <3>2. ~ \E d : OneTemp(scanned, A, d) /\ st = Encode(PgAccOf(scanned, A, d), d)
      <4> SUFFICES ASSUME NEW d, OneTemp(scanned, A, d), st = Encode(PgAccOf(scanned, A, d), d)
                   PROVE  FALSE
        OBVIOUS
      <4>1. Scored(scanned, Weighty(scanned, A, d), d)
        BY <2>1, <3>1, PgScored
      <4> HIDE DEF A
      <4> QED BY <2>6, <4>1, PgAccFacts
    <3>3. Illegal(scanned, A)
      BY <2>6, <3>2, PgAssumption DEF PgHolds
    <3> HIDE DEF A, asked
    <3>4. A \in SUBSET asked
      BY <3>1 DEF A
    <3> QED BY <3>3, <3>4 DEF Illegal
  <2>7. Aborted => ~ legal
    <3>1. CASE group = PgError
      <4> DEFINE K == {i \in D : owner[i] \notin working}
      <4>1. K \in SUBSET D /\ PgHolds(scanned, K, group)
        BY <2>2
      <4> HIDE DEF K
      <4> QED BY <2>3, <2>6, <3>1, <4>1
    <3>2. ASSUME NEW w \in Workers, partial[w] = PgError
          PROVE  ~ legal
      <4> DEFINE K == {i \in D : owner[i] = w}
      <4>1. K \in SUBSET D /\ PgHolds(scanned, K, partial[w])
        BY <2>2
      <4> HIDE DEF K
      <4> QED BY <2>3, <2>6, <3>2, <4>1
    <3> QED BY <3>1, <3>2 DEF Aborted
  <2>8. ASSUME working = {}, ~ Aborted
        PROVE  /\ legal
               /\ IF asked = {} THEN got = SqlNull
                  ELSE IF nan THEN got = NaN
                  ELSE IF mean = None THEN got = SqlNull
                  ELSE got \notin {SqlNull, NaN} /\ SameAnswer(got, mean)
    <3>1. group # PgError
      BY <2>8 DEF Aborted
    <3>2. {i \in D : owner[i] \notin working} = D
      BY <2>8
    <3>3. PgHolds(scanned, D, group)
      BY <2>2, <3>2
    <3>4. \/ asked = {} /\ group = SqlNull
          \/ /\ asked # {}
             /\ \E d : OneTemp(scanned, asked, d) /\ group = Encode(PgAccOf(scanned, asked, d), d)
      BY <2>4, <3>1, <3>3 DEF PgHolds
    <3>5. CASE asked = {} /\ group = SqlNull
      <4>1. legal
        BY <2>3, <3>5 DEF Illegal
      <4>2. got = SqlNull
        BY <3>5 DEF FinalFunc
      <4> QED BY <3>5, <4>1, <4>2
    <3>6. ASSUME NEW d, asked # {}, OneTemp(scanned, asked, d),
                 group = Encode(PgAccOf(scanned, asked, d), d)
          PROVE  /\ legal
                 /\ IF nan THEN got = NaN
                    ELSE IF mean = None THEN got = SqlNull
                    ELSE got \notin {SqlNull, NaN} /\ SameAnswer(got, mean)
      <4>1. temps = {d}
        BY <3>6 DEF OneTemp
      <4>2. e = d
        BY <4>1
      <4>3. ~ Illegal(scanned, asked)
        BY <3>6 DEF Illegal, OneTemp
      <4> DEFINE avg == AverageOf(scanned, asked, d)
      <4>4. mean = avg
        BY <4>2
      <4> HIDE DEF asked, mean, e
      <4>5. IF HoldsNaN(scanned, asked) THEN FinalFunc(group) = NaN
            ELSE IF avg = None THEN FinalFunc(group) = SqlNull
            ELSE FinalFunc(group) \notin {SqlNull, NaN} /\ FinalFunc(group) = avg
        BY <2>1, <2>5, <3>6, FinalExact
      <4>6. SameAnswer(avg, avg)
        BY SameAsItself
      <4> HIDE DEF avg
      <4> QED BY <2>3, <2>4, <4>3, <4>4, <4>5, <4>6
    <3> HIDE DEF asked, mean, got
    <3> QED BY <3>4, <3>5, <3>6
  <2> QED BY <2>7, <2>8
<1> QED BY <1>1, PgInvariant, PTL
-----------------------------------------------------------------------------
(***************************************************************************)
(* The operators: each of them averages by weights of its own.             *)
(***************************************************************************)

\* Averaging by the weights below the top score gives the two sums of the definition.
LEMMA AveragedIs ==
  ASSUME NEW rs, NEW eps, Scored(rs, DOMAIN rs, eps), FiniteScores(rs, DOMAIN rs), DOMAIN rs # {},
         NEW w, w = WeightsAt(rs, DOMAIN rs, TopOf(rs, DOMAIN rs), eps)
  PROVE  Averaged(w, rs) = AverageOf(rs, DOMAIN rs, eps)
<1> DEFINE K  == DOMAIN rs
           t  == TopOf(rs, K)
           on == {i \in K : w[i] # 0}
           f  == [i \in on |-> w[i] * rs[i].v]
           g  == TermsAt(rs, K, t, eps)
<1>1. IsFiniteSet(K) /\ HasWeights(rs, K, t, eps)
  BY WeightsBelow DEF Scored
<1>2. Summable(w, K) /\ Summable(g, K)
  BY <1>1, WeighedSummable
<1>3. \A i \in K : w[i] = WeightBelow(t, rs[i].s, eps) /\ g[i] = w[i] * rs[i].v /\ rs[i].v \in Int
  BY DEF WeightsAt, TermsAt, Scored
<1>4. \A i \in K : rs[i].v # NaN
  BY DEF FiniteScores, IsNull
<1> HIDE DEF g, t
<1>5. Averaged(w, rs) = << SumFunctionOnSet(f, on), SumFunctionOnSet(w, on) >>
  BY <1>4 DEF Averaged
<1>6. SumFunctionOnSet(w, on) = SumFunctionOnSet(w, K)
  BY <1>2, SumDropZero
<1>7. SumFunctionOnSet(f, on) = SumFunctionOnSet(g, K)
  <2>1. \A i \in K \ on : g[i] = 0
    <3>1. \A x \in Int : 0 * x = 0
      OBVIOUS
    <3> QED BY <1>3, <3>1
  <2>2. SumFunctionOnSet(g, on) = SumFunctionOnSet(g, K)
    BY <1>2, <2>1, SumDropZero
  <2>3. Summable(g, on)
    BY <1>2, SummableSubset
  <2>4. \A i \in on : f[i] = g[i]
    BY <1>3
  <2> HIDE DEF f, on
  <2>5. SumFunctionOnSet(f, on) = SumFunctionOnSet(g, on)
    BY <2>3, <2>4, SumCong
  <2> QED BY <2>2, <2>5
<1>8. Averaged(w, rs) = << UAt(rs, K, t, eps), ZAt(rs, K, t, eps) >>
  BY <1>5, <1>6, <1>7 DEF UAt, ZAt, g, t
<1>9. Weighty(rs, K, eps) = K /\ ~ IsEmpty(AccOf(rs, K, eps))
  BY FiniteTop, AccOfFolded
<1>10. AverageOf(rs, K, eps) = Finalize(AccOf(rs, K, eps))
  BY <1>9, AnswerExact
<1> QED BY <1>8, <1>9, <1>10 DEF Finalize, AccOf, t

\* The scores of some records, with the maximum and the weights the operators take from them.
LEMMA FiniteScoresOf ==
  ASSUME NEW rs, NEW eps, Scored(rs, DOMAIN rs, eps), FiniteScores(rs, DOMAIN rs), DOMAIN rs # {}
  PROVE  LET ss == [i \in DOMAIN rs |-> rs[i].s]
             t  == TopOf(rs, DOMAIN rs)
         IN  /\ MaxScore(ss) = t /\ Finite(t) /\ FiniteAt(ss) = DOMAIN rs
             /\ ~ Poisoned(ss, eps)
             /\ eps # EpsZero => [i \in DOMAIN rs |-> ExpWeight(ss[i], t, eps)]
                                   = WeightsAt(rs, DOMAIN rs, t, eps)
             /\ eps = EpsZero => Uniform(ss, {i \in DOMAIN rs : ss[i] = t})
                                   = WeightsAt(rs, DOMAIN rs, t, eps)
<1> DEFINE K  == DOMAIN rs
           t  == TopOf(rs, K)
           ss == [i \in K |-> rs[i].s]
<1>1. \A i \in K : Finite(rs[i].s)
  BY DEF FiniteScores
<1>2. \A i \in K : rs[i].s \notin {NaN, NegInf, PosInf}
  BY <1>1 DEF Finite
<1>3. Finite(t) /\ t # NegInf /\ t # PosInf
  BY FiniteTop DEF Finite
<1>4. MaxScore(ss) = t
  <2>1. {ss[i] : i \in DOMAIN ss} \ {NaN} = {rs[i].s : i \in K}
    BY <1>2
  <2>2. {rs[i].s : i \in K} # {}
    OBVIOUS
  <2> HIDE DEF ss, K
  <2>3. MaxScore(ss) = TopScore({rs[i].s : i \in K})
    BY <2>1, <2>2 DEF MaxScore
  <2> QED BY <2>3 DEF TopOf
<1>5. FiniteAt(ss) = K
  BY <1>1 DEF FiniteAt
<1> HIDE DEF t
<1>6. ~ Poisoned(ss, eps)
  BY <1>2, <1>3, <1>4 DEF Poisoned
<1>7. Sharp(t, eps) <=> eps = EpsZero
  BY <1>3 DEF Sharp
<1>8. EpsZero # EpsInf
  BY DEF EpsZero, EpsInf
<1>9. ASSUME eps # EpsZero
      PROVE  [i \in K |-> ExpWeight(ss[i], t, eps)] = WeightsAt(rs, K, t, eps)
  <2>1. \A i \in K : ExpWeight(ss[i], t, eps) = WeightBelow(t, rs[i].s, eps)
    BY <1>2, <1>7, <1>9 DEF ExpWeight, WeightBelow
  <2> QED BY <2>1 DEF WeightsAt
<1>10. ASSUME eps = EpsZero
       PROVE  Uniform(ss, {i \in K : ss[i] = t}) = WeightsAt(rs, K, t, eps)
  <2>1. \A i \in K : WeightBelow(t, rs[i].s, eps) = IF rs[i].s = t THEN One ELSE 0
    BY <1>7, <1>10 DEF WeightBelow
  <2> QED BY <2>1 DEF WeightsAt, Uniform
<1> QED BY <1>3, <1>4, <1>5, <1>6, <1>9, <1>10 DEF t

\* Each operator gives the definition.
THEOREM OperatorsExact ==
  ASSUME NEW rs, NEW eps, Scored(rs, DOMAIN rs, eps), FiniteScores(rs, DOMAIN rs), DOMAIN rs # {},
         rs # << >>
  PROVE  /\ Attention(rs, eps) = AverageOf(rs, DOMAIN rs, eps)
         /\ AttentionQuery(rs, eps) = AverageOf(rs, DOMAIN rs, eps)
         /\ eps # EpsZero => AttentionBatch(rs, eps) = AverageOf(rs, DOMAIN rs, eps)
<1> DEFINE K  == DOMAIN rs
           t  == TopOf(rs, K)
           ss == [i \in K |-> rs[i].s]
           w  == WeightsAt(rs, K, t, eps)
<1>1. /\ MaxScore(ss) = t /\ Finite(t) /\ FiniteAt(ss) = K /\ ~ Poisoned(ss, eps)
      /\ eps # EpsZero => [i \in K |-> ExpWeight(ss[i], t, eps)] = w
      /\ eps = EpsZero => Uniform(ss, {i \in K : ss[i] = t}) = w
  BY FiniteScoresOf
<1>2. DOMAIN ss = K
  OBVIOUS
<1>3. Averaged(w, rs) = AverageOf(rs, K, eps)
  BY AveragedIs
<1> HIDE DEF t, w
<1>4. SoftmaxEps(ss, eps) = w
  BY <1>1 DEF SoftmaxEps
<1>5. Attention(rs, eps) = Averaged(w, rs)
  BY <1>4 DEF Attention
<1>6. eps # EpsZero => AttentionBatch(rs, eps) = Averaged(w, rs)
  BY <1>1 DEF AttentionBatch
<1>7. AttentionQuery(rs, eps) = Averaged(w, rs)
  <2>1. CASE eps # EpsZero
    BY <1>1, <2>1 DEF AttentionQuery
  <2>2. CASE eps = EpsZero
    <3>1. {i \in K : ss[i] = t} # {}
      <4>1. \E i \in K : rs[i].s = t
        BY TopOfFacts DEF t
      <4> QED BY <4>1
    <3> QED BY <1>1, <2>2, <3>1 DEF AttentionQuery, Uniform
  <2> QED BY <2>1, <2>2
<1> QED BY <1>3, <1>5, <1>6, <1>7
\* A sum of ones counts.
LEMMA SumOfOnes ==
  ASSUME NEW S, NEW f, IsFiniteSet(S), \A x \in S : f[x] = 1
  PROVE  SumFunctionOnSet(f, S) = Cardinality(S)
<1> DEFINE C == {T \in SUBSET S : SumFunctionOnSet(f, T) = Cardinality(T)}
<1>1. Summable(f, S)
  BY DEF Summable
<1>2. {} \in C
  <2>1. Summable(f, {})
    BY <1>1, SummableSubset
  <2> QED BY <2>1, SumFacts, FS_EmptySet
<1>3. ASSUME NEW U \in SUBSET S, NEW x \in U, U \ {x} \in C
      PROVE  U \in C
  <2>1. Summable(f, U) /\ IsFiniteSet(U)
    BY <1>1, SummableSubset, FS_Subset
  <2>2. SumFunctionOnSet(f, U) = f[x] + SumFunctionOnSet(f, U \ {x})
    BY <2>1, SumFacts
  <2>3. Cardinality(U \ {x}) = Cardinality(U) - 1 /\ Cardinality(U) \in Nat
    BY <2>1, FS_RemoveElement, FS_CardinalityType
  <2>4. f[x] = 1 /\ SumFunctionOnSet(f, U \ {x}) = Cardinality(U \ {x})
    BY <1>3
  <2> QED BY <2>2, <2>3, <2>4
<1> HIDE DEF C
<1>4. \A U \in SUBSET S : U \in C
  BY <1>2, <1>3, SetInduct
<1> QED BY <1>4 DEF C

\* Raw weights are whole numbers.
RawFits(rs, eps) == \A i \in DOMAIN rs : IsSoft(eps) => -Spread <= eps * rs[i].s

\* How the raw weights differ from those below the top score t: by one factor, up or down.
RaisedRaw(t, eps) == IsSoft(eps) /\ t >= 0
RawFactor(t, eps) == IF RaisedRaw(t, eps) THEN Pow2[eps * t]
                     ELSE IF IsSoft(eps) THEN Pow2[-(eps * t)]
                     ELSE IF eps = EpsZero THEN One ELSE 1

LEMMA RawWeightIs ==
  ASSUME NEW eps \in Nat, IsSoft(eps), NEW t \in Int, t < PosInf, NEW s \in Int, s <= t, s # NegInf,
         eps * (t - s) <= Spread, -Spread <= eps * s
  PROVE  /\ RawWeight(s, eps) \in Nat /\ RawFactor(t, eps) \in Nat
         /\ IF RaisedRaw(t, eps)
              THEN RawWeight(s, eps) = RawFactor(t, eps) * WeightBelow(t, s, eps)
              ELSE WeightBelow(t, s, eps) = RawFactor(t, eps) * RawWeight(s, eps)
<1> DEFINE a == eps * t
           b == eps * s
<1>1. a \in Int /\ b \in Int /\ eps * (t - s) = a - b
  <2>1. \A e \in Nat, x, y \in Int : e * (x - y) = e * x - e * y /\ e * x \in Int /\ e * y \in Int
    OBVIOUS
  <2> QED BY <2>1
<1>2. t >= 0 => a >= 0
  <2>1. \A e, x \in Nat : e * x >= 0
    OBVIOUS
  <2>2. t >= 0 => t \in Nat
    OBVIOUS
  <2> QED BY <2>1, <2>2
<1>3. t < 0 => a <= 0
  <2>1. \A e \in Nat, x \in Int : x < 0 => e * x <= 0
    <3>1. \A e, y \in Nat : e * y >= 0
      OBVIOUS
    <3>2. \A e \in Nat, x \in Int : e * x = -(e * (-x)) /\ e * (-x) \in Int
      OBVIOUS
    <3>3. \A x \in Int : x < 0 => -x \in Nat
      OBVIOUS
    <3> QED BY <3>1, <3>2, <3>3
  <2> QED BY <2>1
<1>4. a - b \in 0..Spread /\ WeightBelow(t, s, eps) = Pow2[Spread - (a - b)]
  BY <1>1, SoftWeight
<1>5. eps # EpsInf /\ eps # EpsZero
  BY DEF IsSoft, EpsInf, EpsZero
<1>6. RawWeight(s, eps) = Pow2[Spread + b]
  BY <1>5 DEF RawWeight
<1>7. Spread \in Nat
  BY InfinityFacts
<1>8. Spread + b \in Nat /\ Spread - (a - b) \in Nat
  BY <1>1, <1>4, <1>7
<1> HIDE DEF a, b
<1>9. CASE t >= 0
  <2>1. RaisedRaw(t, eps) /\ RawFactor(t, eps) = Pow2[a] /\ a \in Nat
    BY <1>1, <1>2, <1>9 DEF RaisedRaw, RawFactor, a
  <2>2. Spread + b = a + (Spread - (a - b))
    BY <1>1, <1>7
  <2>3. Pow2[Spread + b] = Pow2[a] * Pow2[Spread - (a - b)]
    BY <1>8, <2>1, <2>2, Pow2Sum
  <2> QED BY <1>4, <1>6, <1>8, <2>1, <2>3, Pow2Facts
<1>10. CASE t < 0
  <2>1. ~ RaisedRaw(t, eps) /\ RawFactor(t, eps) = Pow2[-a] /\ -a \in Nat
    BY <1>1, <1>3, <1>10 DEF RaisedRaw, RawFactor, a
  <2>2. Spread - (a - b) = -a + (Spread + b)
    BY <1>1, <1>7
  <2>3. Pow2[Spread - (a - b)] = Pow2[-a] * Pow2[Spread + b]
    BY <1>8, <2>1, <2>2, Pow2Sum
  <2> QED BY <1>4, <1>6, <1>8, <2>1, <2>3, Pow2Facts
<1> QED BY <1>9, <1>10

\* The raw sum is the numerator of the definition but for that factor.
LEMMA OperatorSumIs ==
  ASSUME NEW rs, NEW eps, Scored(rs, DOMAIN rs, eps), FiniteScores(rs, DOMAIN rs), DOMAIN rs # {},
         RawFits(rs, eps), NEW t, t = TopOf(rs, DOMAIN rs)
  PROVE  /\ OperatorSum(rs, eps) \in Int /\ RawFactor(t, eps) \in Int
         /\ IF RaisedRaw(t, eps)
              THEN OperatorSum(rs, eps) = RawFactor(t, eps) * UAt(rs, DOMAIN rs, t, eps)
              ELSE UAt(rs, DOMAIN rs, t, eps) = RawFactor(t, eps) * OperatorSum(rs, eps)
<1> DEFINE K  == DOMAIN rs
           ss == [i \in K |-> rs[i].s]
           on == IF eps = EpsZero THEN {i \in K : rs[i].s = t} ELSE K
           f  == [i \in on |-> IF eps = EpsZero THEN rs[i].v ELSE RawWeight(rs[i].s, eps) * rs[i].v]
           g  == TermsAt(rs, K, t, eps)
           c  == RawFactor(t, eps)
<1>1. MaxScore(ss) = t /\ Finite(t)
  BY FiniteScoresOf
<1>2. t \in Int /\ t < PosInf /\ t > NegInf
  BY FiniteTop
<1>3. OperatorSum(rs, eps) = SumFunctionOnSet(f, on)
  BY <1>1 DEF OperatorSum
<1>4. \A i \in K : /\ rs[i].s \in Int /\ rs[i].s <= t /\ rs[i].s # NegInf /\ rs[i].s # PosInf
                   /\ rs[i].v \in Int
  BY TopOfFacts DEF FiniteScores, Finite, Scored
<1>5. IsFiniteSet(K) /\ HasWeights(rs, K, t, eps) /\ eps \in Nat \cup {EpsZero}
  BY WeightsBelow DEF Scored
<1>6. Summable(g, K)
  BY <1>5, WeighedSummable
<1>7. \A i \in K : g[i] = WeightBelow(t, rs[i].s, eps) * rs[i].v
  BY DEF TermsAt
<1>8. One \in Int
  BY InfinityFacts
<1> HIDE DEF g
<1>9. CASE eps = EpsZero
  <2>1. ~ IsSoft(eps) /\ Sharp(t, eps)
    BY <1>9 DEF IsSoft, Sharp, EpsZero
  <2>2. c = One /\ ~ RaisedRaw(t, eps)
    BY <1>9, <2>1 DEF RawFactor, RaisedRaw
  <2>3. \A i \in K : g[i] = (IF rs[i].s = t THEN One ELSE 0) * rs[i].v
    BY <1>7, <2>1 DEF WeightBelow
  <2>4. on \in SUBSET K /\ \A i \in K \ on : g[i] = 0
    <3>1. \A x \in Int : 0 * x = 0
      OBVIOUS
    <3> QED BY <1>4, <1>9, <2>3, <3>1
  <2>5. \A i \in on : f[i] = rs[i].v /\ g[i] = One * f[i]
    BY <1>9, <2>3
  <2> HIDE DEF f, on, c
  <2>6. Summable(f, on)
    <3>1. IsFiniteSet(on)
      BY <1>5, <2>4, FS_Subset
    <3> QED BY <1>4, <2>4, <2>5, <3>1 DEF Summable
  <2>7. SumFunctionOnSet(g, on) = One * SumFunctionOnSet(f, on)
    BY <1>8, <2>5, <2>6, SumScale
  <2>8. SumFunctionOnSet(g, on) = SumFunctionOnSet(g, K)
    BY <1>6, <2>4, SumDropZero
  <2>9. SumFunctionOnSet(f, on) \in Int
    BY <2>6, SumFacts
  <2> QED BY <1>3, <1>8, <2>2, <2>7, <2>8, <2>9 DEF UAt, g, c
<1>10. CASE eps = EpsInf
  <2>1. ~ IsSoft(eps) /\ eps # EpsZero
    BY <1>10 DEF IsSoft, EpsZero, EpsInf
  <2>2. c = 1 /\ ~ RaisedRaw(t, eps) /\ on = K
    BY <2>1 DEF RawFactor, RaisedRaw
  <2>3. \A i \in K : f[i] = g[i]
    <3>1. \A i \in K : RawWeight(rs[i].s, eps) = One
      BY <1>4, <1>10 DEF RawWeight
    <3>2. \A i \in K : WeightBelow(t, rs[i].s, eps) = One
      BY <1>10, <2>1 DEF WeightBelow, Sharp
    <3> QED BY <1>7, <2>1, <3>1, <3>2
  <2> HIDE DEF f, on, c
  <2>4. SumFunctionOnSet(f, K) = SumFunctionOnSet(g, K)
    BY <1>6, <2>3, SumCong
  <2>5. SumFunctionOnSet(g, K) \in Int
    BY <1>6, SumFacts
  <2>6. \A x \in Int : x = 1 * x
    OBVIOUS
  <2> QED BY <1>3, <2>2, <2>4, <2>5, <2>6 DEF UAt, g, c
<1>11. CASE IsSoft(eps) /\ eps \in Nat
  <2>1. eps # EpsZero /\ on = K
    BY <1>11 DEF IsSoft, EpsZero
  <2>2. ASSUME NEW i \in K
        PROVE  /\ RawWeight(rs[i].s, eps) \in Nat /\ c \in Nat
               /\ IF RaisedRaw(t, eps)
                    THEN RawWeight(rs[i].s, eps) = c * WeightBelow(t, rs[i].s, eps)
                    ELSE WeightBelow(t, rs[i].s, eps) = c * RawWeight(rs[i].s, eps)
    <3>1. eps * (t - rs[i].s) <= Spread
      <4>1. PICK j \in K : rs[j].s = t
        BY TopOfFacts
      <4> QED BY <1>4, <1>11, <4>1 DEF Scored
    <3>2. -Spread <= eps * rs[i].s
      BY <1>11 DEF RawFits
    <3> QED BY <1>2, <1>4, <1>11, <3>1, <3>2, RawWeightIs
  <2>3. \A i \in K : f[i] = RawWeight(rs[i].s, eps) * rs[i].v
    BY <2>1
  <2>4. c \in Int
    BY <2>2
  <2> HIDE DEF f, on, c
  <2>5. \A a, b, v \in Int : (a * b) * v = a * (b * v)
    OBVIOUS
  <2>6. \A i \in K : WeightBelow(t, rs[i].s, eps) \in Int
    BY <1>5 DEF HasWeights
  <2>7. Summable(f, K)
    <3>1. \A i \in K : f[i] \in Int
      <4>1. \A a \in Nat, b \in Int : a * b \in Int
        OBVIOUS
      <4> QED BY <1>4, <2>2, <2>3, <4>1
    <3> QED BY <1>5, <3>1 DEF Summable
  <2>8. SumFunctionOnSet(f, K) \in Int
    BY <2>7, SumFacts
  <2>9. CASE RaisedRaw(t, eps)
    <3>1. \A i \in K : f[i] = c * g[i]
      BY <1>4, <1>7, <2>2, <2>3, <2>4, <2>5, <2>6, <2>9
    <3>2. SumFunctionOnSet(f, K) = c * SumFunctionOnSet(g, K)
      BY <1>6, <2>4, <3>1, SumScale
    <3> QED BY <1>3, <2>1, <2>4, <2>8, <2>9, <3>2 DEF UAt, g, c
  <2>10. CASE ~ RaisedRaw(t, eps)
    <3>1. \A i \in K : g[i] = c * f[i]
      BY <1>4, <1>7, <2>2, <2>3, <2>4, <2>5, <2>6, <2>10
    <3>2. SumFunctionOnSet(g, K) = c * SumFunctionOnSet(f, K)
      BY <2>4, <2>7, <3>1, SumScale
    <3> QED BY <1>3, <2>1, <2>4, <2>8, <2>10, <3>2 DEF UAt, g, c
  <2> QED BY <2>9, <2>10
<1> QED BY <1>5, <1>9, <1>10, <1>11 DEF IsSoft, EpsInf
\* The records with a value of one each.
OnesOf(rs) == [i \in DOMAIN rs |-> [s |-> rs[i].s, v |-> 1]]

LEMMA OnesFacts ==
  ASSUME NEW rs, NEW eps, Scored(rs, DOMAIN rs, eps), FiniteScores(rs, DOMAIN rs), DOMAIN rs # {}
  PROVE  /\ DOMAIN OnesOf(rs) = DOMAIN rs /\ Scored(OnesOf(rs), DOMAIN rs, eps)
         /\ FiniteScores(OnesOf(rs), DOMAIN rs)
         /\ TopOf(OnesOf(rs), DOMAIN rs) = TopOf(rs, DOMAIN rs)
         /\ \A t : HasWeights(rs, DOMAIN rs, t, eps)
                     => UAt(OnesOf(rs), DOMAIN rs, t, eps) = ZAt(rs, DOMAIN rs, t, eps)
<1> DEFINE K == DOMAIN rs
           o == OnesOf(rs)
<1>1. DOMAIN o = K /\ \A i \in K : o[i].s = rs[i].s /\ o[i].v = 1
  BY DEF OnesOf
<1> HIDE DEF o
<1>2. Scored(o, K, eps)
  BY <1>1 DEF Scored
<1>3. FiniteScores(o, K)
  BY <1>1, SoftAvgAssumption DEF FiniteScores, IsNull
<1>4. TopOf(o, K) = TopOf(rs, K)
  <2>1. {o[i].s : i \in K} = {rs[i].s : i \in K}
    BY <1>1
  <2> QED BY <2>1 DEF TopOf
<1>5. ASSUME NEW t, HasWeights(rs, K, t, eps)
      PROVE  UAt(o, K, t, eps) = ZAt(rs, K, t, eps)
  <2>1. \A x \in Nat : x * 1 = x
    OBVIOUS
  <2>2. \A i \in K : WeightBelow(t, o[i].s, eps) * o[i].v = WeightBelow(t, rs[i].s, eps)
    BY <1>1, <1>5, <2>1 DEF HasWeights
  <2>3. TermsAt(o, K, t, eps) = WeightsAt(rs, K, t, eps)
    BY <2>2 DEF TermsAt, WeightsAt
  <2> QED BY <2>3 DEF UAt, ZAt
<1> QED BY <1>1, <1>2, <1>3, <1>4, <1>5 DEF o

\* The ratio of the raw sum and the raw sum of ones is the definition (Lemma A), and the count
\* at eps = 0 is that sum of ones.
THEOREM RatioExact ==
  ASSUME NEW rs, NEW eps, Scored(rs, DOMAIN rs, eps), FiniteScores(rs, DOMAIN rs), DOMAIN rs # {},
         RawFits(rs, eps)
  PROVE  /\ SameAnswer(<< OperatorSum(rs, eps), OperatorSum(OnesOf(rs), eps) >>,
                       AverageOf(rs, DOMAIN rs, eps))
         /\ eps = EpsZero => OperatorCount(rs, eps) = OperatorSum(OnesOf(rs), eps)
<1> DEFINE K == DOMAIN rs
           t == TopOf(rs, K)
           o == OnesOf(rs)
           c == RawFactor(t, eps)
           A == OperatorSum(rs, eps)
           B == OperatorSum(o, eps)
           U == UAt(rs, K, t, eps)
           Z == ZAt(rs, K, t, eps)
<1>1. HasWeights(rs, K, t, eps)
  BY WeightsBelow
<1>2. /\ DOMAIN o = K /\ Scored(o, K, eps) /\ FiniteScores(o, K) /\ TopOf(o, K) = t
      /\ UAt(o, K, t, eps) = Z
  BY <1>1, OnesFacts
<1>3. RawFits(o, eps)
  BY DEF RawFits, OnesOf
<1>4. U \in Int /\ Z \in Int
  BY AccFacts
<1>5. A \in Int /\ c \in Int /\ IF RaisedRaw(t, eps) THEN A = c * U ELSE U = c * A
  BY OperatorSumIs
<1> HIDE DEF t, o, K
<1>6. B \in Int /\ IF RaisedRaw(t, eps) THEN B = c * Z ELSE Z = c * B
  <2>1. t = TopOf(o, DOMAIN o) /\ DOMAIN o # {}
    BY <1>2 DEF K
  <2> QED BY <1>2, <1>3, <2>1, OperatorSumIs
<1>7. Weighty(rs, K, eps) = K /\ ~ IsEmpty(AccOf(rs, K, eps))
  BY FiniteTop, AccOfFolded DEF K
<1>8. AverageOf(rs, K, eps) = << U, Z >>
  <2>1. AverageOf(rs, K, eps) = Finalize(AccOf(rs, K, eps))
    BY <1>7, AnswerExact DEF K
  <2> QED BY <1>7, <2>1 DEF Finalize, AccOf, t, K
<1> HIDE DEF A, B, U, Z, c
<1>9. A * Z = U * B
  <2>1. \A a, b, d \in Int : (a * b) * d = b * (a * d)
    OBVIOUS
  <2>2. CASE RaisedRaw(t, eps)
    <3>1. (c * U) * Z = U * (c * Z)
      BY <1>4, <1>5, <2>1
    <3> QED BY <1>5, <1>6, <2>2, <3>1
  <2>3. CASE ~ RaisedRaw(t, eps)
    <3>1. A * (c * B) = (c * A) * B
      BY <1>5, <1>6, <2>1
    <3> QED BY <1>5, <1>6, <2>3, <3>1
  <2> QED BY <2>2, <2>3
<1>10. SameAnswer(<< A, B >>, << U, Z >>)
  BY <1>9 DEF SameAnswer, None
<1>11. ASSUME eps = EpsZero
       PROVE  OperatorCount(rs, eps) = B
  <2> DEFINE ss == [i \in K |-> rs[i].s]
             on == {i \in K : rs[i].s = t}
             f  == [i \in on |-> o[i].v]
  <2>1. MaxScore(ss) = t /\ Finite(t) /\ FiniteAt(ss) = K
    BY FiniteScoresOf DEF K, t
  <2>2. OperatorCount(rs, eps) = Cardinality(on)
    <3>1. {i \in FiniteAt(ss) : ss[i] = MaxScore(ss)} = on
      BY <2>1
    <3> QED BY <1>11, <3>1 DEF OperatorCount, K
  <2>3. \A i \in K : o[i].s = rs[i].s /\ o[i].v = 1
    BY DEF o, OnesOf, K
  <2>4. [i \in DOMAIN o |-> o[i].s] = ss
    BY <1>2, <2>3
  <2>5. B = SumFunctionOnSet(f, on)
    <3>1. {i \in DOMAIN o : o[i].s = t} = on
      BY <1>2, <2>3
    <3> HIDE DEF on, ss
    <3> QED BY <1>11, <2>1, <2>4, <3>1 DEF OperatorSum, B
  <2>6. IsFiniteSet(on)
    <3>1. IsFiniteSet(K)
      BY DEF Scored, K
    <3> QED BY <3>1, FS_Subset
  <2>7. \A i \in on : f[i] = 1
    BY <2>3
  <2> HIDE DEF f, on
  <2> QED BY <2>2, <2>5, <2>6, <2>7, SumOfOnes
<1> QED BY <1>8, <1>10, <1>11 DEF A, B, U, Z, K, o

\* Tame records fit: every score of theirs is finite and near enough to zero.
LEMMA TameFits ==
  ASSUME NEW rs \in Seq(Records), NEW eps \in Temperatures, FiniteScores(rs, DOMAIN rs), rs # << >>
  PROVE  /\ Scored(rs, DOMAIN rs, eps) /\ DOMAIN rs # {} /\ RawFits(rs, eps)
         /\ Weighty(rs, DOMAIN rs, eps) = DOMAIN rs
<1>1. Weighty(rs, DOMAIN rs, eps) = DOMAIN rs
  BY DEF Weighty, FiniteScores, Finite
<1>2. Scored(rs, DOMAIN rs, eps)
  BY <1>1, RecordsScored
<1>3. \A i \in DOMAIN rs : rs[i] \in Records
  BY ElementOfSeq, LenProperties
<1>4. RawFits(rs, eps)
  BY <1>3, KernelsAssumption DEF RawFits, FiniteScores
<1>5. DOMAIN rs # {}
  BY EmptySeq
<1> QED BY <1>1, <1>2, <1>4, <1>5

LEMMA AveragesAgreeOf == recs \in Seq(Records) => AveragesAgree
<1> SUFFICES ASSUME recs \in Seq(Records), Tame, recs # << >>, NEW eps \in Temperatures
             PROVE  LET whole == SoftAverage(recs, eps)
                        ones  == [i \in DOMAIN recs |-> [s |-> recs[i].s, v |-> 1]]
                    IN  /\ SameAnswer(Attention(recs, eps), whole)
                        /\ SameAnswer(AttentionQuery(recs, eps), whole)
                        /\ eps # EpsZero => SameAnswer(AttentionBatch(recs, eps), whole)
                        /\ SameAnswer(<< OperatorSum(recs, eps), OperatorSum(ones, eps) >>, whole)
                        /\ eps = EpsZero => OperatorCount(recs, eps) = OperatorSum(ones, eps)
  BY DEF AveragesAgree
<1>1. FiniteScores(recs, DOMAIN recs)
  BY DEF FiniteScores, Tame
<1>2. Scored(recs, DOMAIN recs, eps) /\ DOMAIN recs # {} /\ RawFits(recs, eps)
  BY <1>1, TameFits
<1> DEFINE whole == SoftAverage(recs, eps)
<1>3. whole = AverageOf(recs, DOMAIN recs, eps)
  BY DEF SoftAverage
<1> HIDE DEF whole
<1>4. /\ Attention(recs, eps) = whole /\ AttentionQuery(recs, eps) = whole
      /\ eps # EpsZero => AttentionBatch(recs, eps) = whole
  BY <1>1, <1>2, <1>3, OperatorsExact
<1>5. /\ SameAnswer(<< OperatorSum(recs, eps), OperatorSum(OnesOf(recs), eps) >>, whole)
      /\ eps = EpsZero => OperatorCount(recs, eps) = OperatorSum(OnesOf(recs), eps)
  BY <1>1, <1>2, <1>3, RatioExact
<1>6. SameAnswer(whole, whole)
  BY SameAsItself
<1> QED BY <1>4, <1>5, <1>6 DEF whole, OnesOf
\* The rows above a row of the first m, as tree.rs walks them.
Climbs(g, parents, m) ==
  g = [j \in 0..m |-> {j} \cup (IF parents[j] = -1 THEN {} ELSE g[parents[j]])]

\* The parent of a row is an earlier one.
Upward(parents, m) == \A j \in 0..m : parents[j] = -1 \/ parents[j] \in 0..(j - 1)

LEMMA ClimbsExists ==
  ASSUME NEW parents, NEW m \in Nat, Upward(parents, m)
  PROVE  \E g : Climbs(g, parents, m)
<1> DEFINE bad == {k \in 0..m : ~ \E g : Climbs(g, parents, k)}
<1>1. bad \in SUBSET Nat
  OBVIOUS
<1> SUFFICES ASSUME bad # {} PROVE FALSE
  OBVIOUS
<1>2. PICK k \in bad : \A j \in bad : k <= j
  BY <1>1, LeastNumber
<1>3. k \in 0..m /\ k \in Nat
  OBVIOUS
<1>4. CASE k = 0
  <2> DEFINE g == [j \in 0..0 |-> {j}]
  <2>1. parents[0] = -1
    BY <1>3 DEF Upward
  <2>2. Climbs(g, parents, 0)
    BY <2>1 DEF Climbs
  <2> QED BY <1>4, <2>2
<1>5. CASE k # 0
  <2>1. k - 1 \in 0..m /\ k - 1 \notin bad
    BY <1>2, <1>3, <1>5
  <2>2. PICK h : Climbs(h, parents, k - 1)
    BY <2>1
  <2> DEFINE G(j) == IF j = k THEN {k} \cup (IF parents[k] = -1 THEN {} ELSE h[parents[k]])
                     ELSE h[j]
             g    == [j \in 0..k |-> G(j)]
  <2>3. ASSUME NEW j \in 0..k
        PROVE  g[j] = {j} \cup (IF parents[j] = -1 THEN {} ELSE g[parents[j]])
    <3>1. parents[j] = -1 \/ (parents[j] \in 0..k /\ parents[j] # k)
      BY <1>3 DEF Upward
    <3>2. parents[j] # -1 => g[parents[j]] = h[parents[j]]
      BY <3>1
    <3>3. CASE j = k
      BY <3>2, <3>3
    <3>4. CASE j # k
      <4>1. j \in 0..(k - 1)
        BY <1>3, <3>4
      <4>2. h[j] = {j} \cup (IF parents[j] = -1 THEN {} ELSE h[parents[j]])
        BY <2>2, <4>1 DEF Climbs
      <4> QED BY <3>2, <3>4, <4>2
    <3> QED BY <3>3, <3>4
  <2> HIDE DEF G
  <2>4. Climbs(g, parents, k)
    BY <2>3 DEF Climbs
  <2> QED BY <2>4
<1> QED BY <1>4, <1>5

\* Two such walks agree where both are defined, and climb.
LEMMA ClimbsAgree ==
  ASSUME NEW parents, NEW m \in Nat, NEW n \in Nat, m <= n, Upward(parents, n),
         NEW g, Climbs(g, parents, m), NEW h, Climbs(h, parents, n)
  PROVE  \A j \in 0..m : g[j] = h[j] /\ j \in g[j] /\ g[j] \in SUBSET (0..j)
<1> DEFINE bad == {j \in 0..m : ~ (g[j] = h[j] /\ j \in g[j] /\ g[j] \in SUBSET (0..j))}
<1>1. bad \in SUBSET Nat
  OBVIOUS
<1> SUFFICES ASSUME bad # {} PROVE FALSE
  OBVIOUS
<1>2. PICK k \in bad : \A j \in bad : k <= j
  BY <1>1, LeastNumber
<1>3. k \in 0..m /\ k \in 0..n
  OBVIOUS
<1>4. /\ g[k] = {k} \cup (IF parents[k] = -1 THEN {} ELSE g[parents[k]])
      /\ h[k] = {k} \cup (IF parents[k] = -1 THEN {} ELSE h[parents[k]])
  BY <1>3 DEF Climbs
<1>5. CASE parents[k] = -1
  BY <1>3, <1>4, <1>5
<1>6. CASE parents[k] # -1
  <2> DEFINE p == parents[k]
  <2>1. p \in 0..(k - 1)
    BY <1>3, <1>6 DEF Upward
  <2>2. p \in 0..m /\ p \notin bad
    BY <1>2, <1>3, <2>1
  <2>3. g[p] = h[p] /\ g[p] \in SUBSET (0..p)
    BY <2>2
  <2>4. 0..p \in SUBSET (0..k) /\ k \in 0..k
    BY <1>3, <2>1
  <2> HIDE DEF p
  <2>5. g[k] = {k} \cup g[p] /\ h[k] = {k} \cup h[p]
    BY <1>4, <1>6 DEF p
  <2>6. g[k] = h[k] /\ k \in g[k] /\ g[k] \in SUBSET (0..k)
    BY <2>3, <2>4, <2>5
  <2> QED BY <2>6
<1> QED BY <1>5, <1>6

\* The path from a row to its root stays among the rows up to it, and goes by way of its parent.
LEMMA PathFacts ==
  ASSUME NEW parents, NEW n \in Nat, Upward(parents, n), NEW i \in 0..n
  PROVE  /\ i \in AncestorPath(parents, i) /\ AncestorPath(parents, i) \in SUBSET (0..i)
         /\ AncestorPath(parents, i)
              = {i} \cup (IF parents[i] = -1 THEN {} ELSE AncestorPath(parents, parents[i]))
<1>1. PICK h : Climbs(h, parents, n)
  BY ClimbsExists
<1>2. ASSUME NEW j \in 0..n
      PROVE  AncestorPath(parents, j) = h[j] /\ j \in h[j] /\ h[j] \in SUBSET (0..j)
  <2> DEFINE up == CHOOSE g : Climbs(g, parents, j)
  <2>1. AncestorPath(parents, j) = up[j]
    BY DEF AncestorPath, Climbs
  <2>2. j \in Nat /\ j <= n /\ Upward(parents, j)
    BY DEF Upward
  <2>3. Climbs(up, parents, j)
    <3>1. \E g : Climbs(g, parents, j)
      BY <2>2, ClimbsExists
    <3> QED BY <3>1
  <2> HIDE DEF up
  <2>4. \A k \in 0..j : up[k] = h[k] /\ k \in up[k] /\ up[k] \in SUBSET (0..k)
    BY <1>1, <2>2, <2>3, ClimbsAgree
  <2> QED BY <2>1, <2>2, <2>4
<1>3. h[i] = {i} \cup (IF parents[i] = -1 THEN {} ELSE h[parents[i]])
  BY <1>1 DEF Climbs
<1>4. parents[i] = -1 \/ parents[i] \in 0..n
  BY DEF Upward
<1> QED BY <1>2, <1>3, <1>4

\* In the chain every earlier row is on the path.
LEMMA ChainPath ==
  ASSUME NEW n \in Nat, NEW i \in 0..(n - 1)
  PROVE  AncestorPath(ChainTree(n), i) = 0..i
<1> DEFINE t   == ChainTree(n)
           bad == {j \in 0..(n - 1) : AncestorPath(t, j) # 0..j}
<1>1. n - 1 \in Nat
  OBVIOUS
<1>2. Upward(t, n - 1) /\ \A j \in 0..(n - 1) : t[j] = j - 1
  BY DEF Upward, ChainTree
<1>3. bad \in SUBSET Nat
  OBVIOUS
<1> SUFFICES ASSUME bad # {} PROVE FALSE
  OBVIOUS
<1>4. PICK k \in bad : \A j \in bad : k <= j
  BY <1>3, LeastNumber
<1> HIDE DEF t
<1>5. AncestorPath(t, k) = {k} \cup (IF t[k] = -1 THEN {} ELSE AncestorPath(t, t[k]))
  BY <1>1, <1>2, PathFacts
<1>6. CASE k = 0
  BY <1>2, <1>5, <1>6
<1>7. CASE k # 0
  <2>1. t[k] = k - 1 /\ k - 1 # -1 /\ k - 1 \in 0..(n - 1) /\ k - 1 \notin bad
    BY <1>2, <1>4, <1>7
  <2>2. AncestorPath(t, k - 1) = 0..(k - 1)
    BY <2>1
  <2>3. AncestorPath(t, k) = {k} \cup 0..(k - 1)
    BY <1>5, <2>1, <2>2
  <2>4. {k} \cup 0..(k - 1) = 0..k
    BY <1>1, <1>7
  <2> QED BY <2>3, <2>4
<1> QED BY <1>6, <1>7

LEMMA TreesUpward ==
  ASSUME NEW n \in Nat \ {0}
  PROVE  \A t \in {ChainTree(n), KaryTree(n, 2), StarTree(n)} : Upward(t, n - 1)
<1>1. \A j \in 1..(n - 1) : (j - 1) \div 2 \in 0..(j - 1)
  OBVIOUS
<1>2. Upward(KaryTree(n, 2), n - 1)
  BY <1>1 DEF Upward, KaryTree
<1>3. Upward(ChainTree(n), n - 1) /\ Upward(StarTree(n), n - 1)
  BY DEF Upward, ChainTree, StarTree
<1> QED BY <1>2, <1>3

\* On the rows at any places, attention and the fold give the same.
LEMMA RowsAgree ==
  ASSUME recs \in Seq(Records), Tame, NEW eps \in Temperatures, NEW js \in SUBSET (0..(Len(recs) - 1)),
         js # {}
  PROVE  Attention(RowsOf(js), eps) = Finalize(FoldRecords(RowsOf(js), eps))
<1> DEFINE K == {j + 1 : j \in js}
           l == Select(recs, K)
           n == Cardinality(K)
<1>1. Len(recs) \in Nat /\ DOMAIN recs = 1..Len(recs)
  BY LenProperties
<1>2. K \in SUBSET (1..Len(recs)) /\ K # {}
  <2>1. \A j \in 0..(Len(recs) - 1) : j + 1 \in 1..Len(recs)
    BY <1>1
  <2> QED BY <2>1
<1> HIDE DEF K
<1>3. l \in Seq(Records) /\ DOMAIN l = 1..n /\ \A r \in 1..n : l[r] = recs[Place(K, r)]
  BY <1>1, <1>2, SelectType, SelectPlaces
<1>4. n \in Nat /\ n # 0
  BY <1>1, <1>2, RankFacts, FS_EmptySet
<1>5. \A r \in 1..n : Place(K, r) \in DOMAIN recs
  BY <1>1, <1>2, PlacesOfSet
<1> HIDE DEF l, n
<1>6. FiniteScores(l, 1..n)
  BY <1>3, <1>5 DEF FiniteScores, Tame
<1>7. l # << >>
  BY <1>3, <1>4, EmptySeq
<1>8. Scored(l, 1..n, eps) /\ Weighty(l, 1..n, eps) = 1..n
  BY <1>3, <1>6, <1>7, TameFits
<1>9. 1..n # {}
  <2>1. 1 \in 1..n
    BY <1>4
  <2> QED BY <2>1
<1>10. Attention(l, eps) = AverageOf(l, 1..n, eps)
  BY <1>3, <1>6, <1>7, <1>8, <1>9, OperatorsExact
<1>11. FoldRecords(l, eps) = AccOf(l, 1..n, eps)
  <2> DEFINE at == [k \in 1..n |-> k]
  <2>1. Through(at, 1..n) = 1..n /\ OneToOne(at, 1..n) /\ \A k \in 1..n : l[k] = l[at[k]]
    BY DEF Through, OneToOne
  <2> HIDE DEF at
  <2> QED BY <1>3, <1>4, <1>8, <2>1, FoldExact
<1>12. Finalize(AccOf(l, 1..n, eps)) = AverageOf(l, 1..n, eps)
  BY <1>8, AnswerExact
<1> QED BY <1>10, <1>11, <1>12 DEF RowsOf, l, K

LEMMA TreesAgreeOf == recs \in Seq(Records) => TreesAgree
<1> SUFFICES ASSUME recs \in Seq(Records), Tame, NEW eps \in Temperatures,
                    NEW i \in 0..(Len(recs) - 1)
             PROVE  LET n == Len(recs)
                        pairs(parents) == {ja \in CausalPairs(n) : ja[2] \in AncestorPath(parents, ja[1])}
                    IN  /\ \A t \in {ChainTree(n), KaryTree(n, 2), StarTree(n)} :
                             SameAnswer(TreeAttention(t, i, eps), MaskedRow(pairs(t), i, eps))
                        /\ \A mask \in {CausalPairs(n), WindowPairs(n, n)} :
                             SameAnswer(TreeAttention(ChainTree(n), i, eps), MaskedRow(mask, i, eps))
  BY DEF TreesAgree
<1> DEFINE n == Len(recs)
           pairs(parents) == {ja \in CausalPairs(n) : ja[2] \in AncestorPath(parents, ja[1])}
           row(mask) == {p[2] : p \in {q \in mask : q[1] = i}}
<1>1. n \in Nat \ {0} /\ i \in 0..(n - 1) /\ n - 1 \in Nat
  BY LenProperties
<1> HIDE DEF n
<1>2. row(CausalPairs(n)) = 0..i
  <2>1. \A j \in 0..i : << i, j >> \in CausalPairs(n)
    BY <1>1 DEF CausalPairs
  <2>2. \A q \in CausalPairs(n) : q[1] = i => q[2] \in 0..i
    BY <1>1 DEF CausalPairs
  <2>3. ASSUME NEW j \in 0..i
        PROVE  j \in row(CausalPairs(n))
    <3>1. << i, j >> \in {q \in CausalPairs(n) : q[1] = i} /\ j = << i, j >>[2]
      BY <2>1
    <3> QED BY <3>1
  <2> QED BY <2>2, <2>3
<1>3. WindowPairs(n, n) = CausalPairs(n)
  BY <1>1 DEF WindowPairs, CausalPairs
<1>4. ASSUME NEW t, Upward(t, n - 1)
      PROVE  row(pairs(t)) = AncestorPath(t, i)
  <2> DEFINE P == AncestorPath(t, i)
  <2>1. P \in SUBSET (0..i)
    BY <1>1, <1>4, PathFacts
  <2>2. \A j \in P : << i, j >> \in CausalPairs(n)
    BY <1>1, <2>1 DEF CausalPairs
  <2>3. \A j \in P : << i, j >> \in pairs(t)
    BY <2>2
  <2>4. ASSUME NEW j \in P
        PROVE  j \in row(pairs(t))
    <3>1. << i, j >> \in {q \in pairs(t) : q[1] = i} /\ j = << i, j >>[2]
      BY <2>3
    <3> QED BY <3>1
  <2>5. \A q \in pairs(t) : q[1] = i => q[2] \in P
    OBVIOUS
  <2> QED BY <2>4, <2>5
<1>5. ASSUME NEW t, Upward(t, n - 1), NEW mask, row(mask) = AncestorPath(t, i)
      PROVE  SameAnswer(TreeAttention(t, i, eps), MaskedRow(mask, i, eps))
  <2> DEFINE P == AncestorPath(t, i)
  <2>1. P # {} /\ P \in SUBSET (0..(n - 1))
    <3>1. P \in SUBSET (0..i) /\ i \in P
      BY <1>1, <1>5, PathFacts
    <3>2. 0..i \in SUBSET (0..(n - 1))
      BY <1>1
    <3> QED BY <3>1, <3>2
  <2> HIDE DEF P
  <2>2. Attention(RowsOf(P), eps) = Finalize(FoldRecords(RowsOf(P), eps))
    BY <2>1, RowsAgree DEF n
  <2>3. MaskedRow(mask, i, eps) = Finalize(FoldRecords(RowsOf(P), eps))
    BY <1>5 DEF MaskedRow, P
  <2>4. TreeAttention(t, i, eps) = Attention(RowsOf(P), eps)
    BY DEF TreeAttention, P
  <2> QED BY <2>2, <2>3, <2>4, SameAsItself
<1> DEFINE trees == {ChainTree(n), KaryTree(n, 2), StarTree(n)}
<1>6. \A t \in trees : Upward(t, n - 1)
  BY <1>1, TreesUpward
<1> HIDE DEF pairs, row
<1>7. ASSUME NEW t \in trees
      PROVE  SameAnswer(TreeAttention(t, i, eps), MaskedRow(pairs(t), i, eps))
  BY <1>4, <1>5, <1>6
<1>8. ASSUME NEW mask \in {CausalPairs(n), WindowPairs(n, n)}
      PROVE  SameAnswer(TreeAttention(ChainTree(n), i, eps), MaskedRow(mask, i, eps))
  <2>1. row(mask) = AncestorPath(ChainTree(n), i)
    BY <1>1, <1>2, <1>3, ChainPath
  <2> QED BY <1>5, <1>6, <2>1
<1> QED BY <1>7, <1>8 DEF n, pairs

\* Row by row, in a batch, by the raw sums, over a memory, along a tree and under a mask: every
\* way to the average of however many records gives the same one.
THEOREM OperatorsAgreeHolds == KernelSpec => []OperatorsAgree
<1>1. recs \in Seq(Records) => OperatorsAgree
  BY AveragesAgreeOf, TreesAgreeOf DEF OperatorsAgree
<1> QED BY <1>1, KernelTyped, PTL

(***************************************************************************)
(* The sums that are kept while records come and go.                       *)
(***************************************************************************)

\* The records of W have a weight, and no score is infinite.
Level(rs, W, eps) == eps \in Nat /\ Scored(rs, W, eps) /\ \A i \in W : Finite(rs[i].s)

\* st has the sums over the records of W at the highest score, or NaN for a numerator.
Anchored(st, rs, W, eps) ==
  /\ st = [m |-> st.m, num |-> st.num, den |-> st.den]
  /\ st.m = IF W = {} THEN NegInf ELSE TopOf(rs, W)
  /\ st.den = ZAt(rs, W, st.m, eps)
  /\ st.num \in {NaN, UAt(rs, W, st.m, eps)}

\* A number is not NaN.
LEMMA NotANumber == \A x \in Int : x # NaN
BY SoftAvgAssumption DEF SoftAvgAssumption

\* The sums over no record.
LEMMA NoSums ==
  ASSUME NEW rs, NEW top, NEW eps
  PROVE  ZAt(rs, {}, top, eps) = 0 /\ UAt(rs, {}, top, eps) = 0
<1>1. IsFiniteSet({}) /\ Summable(WeightsAt(rs, {}, top, eps), {})
        /\ Summable(TermsAt(rs, {}, top, eps), {})
  BY FS_EmptySet DEF Summable
<1> QED BY <1>1, SumFacts DEF ZAt, UAt

\* The sums with one record more.
LEMMA OneMore ==
  ASSUME NEW rs, NEW W, NEW i, i \notin W, NEW top, NEW eps, IsFiniteSet(W),
         HasWeights(rs, W \cup {i}, top, eps)
  PROVE  /\ ZAt(rs, W \cup {i}, top, eps) = ZAt(rs, W, top, eps) + WeightBelow(top, rs[i].s, eps)
         /\ UAt(rs, W \cup {i}, top, eps)
              = UAt(rs, W, top, eps) + WeightBelow(top, rs[i].s, eps) * rs[i].v
         /\ ZAt(rs, W, top, eps) \in Int /\ UAt(rs, W, top, eps) \in Int
<1>1. IsFiniteSet({i}) /\ IsFiniteSet(W \cup {i}) /\ W \cap {i} = {}
  BY FS_Singleton, FS_AddElement
<1>2. /\ ZAt(rs, W \cup {i}, top, eps) = ZAt(rs, W, top, eps) + ZAt(rs, {i}, top, eps)
      /\ UAt(rs, W \cup {i}, top, eps) = UAt(rs, W, top, eps) + UAt(rs, {i}, top, eps)
  BY <1>1, SplitAt
<1>3. HasWeights(rs, W, top, eps) /\ HasWeights(rs, {i}, top, eps)
  BY DEF HasWeights
<1>4. /\ Summable(WeightsAt(rs, {i}, top, eps), {i}) /\ Summable(TermsAt(rs, {i}, top, eps), {i})
      /\ Summable(WeightsAt(rs, W, top, eps), W) /\ Summable(TermsAt(rs, W, top, eps), W)
  BY <1>1, <1>3, WeighedSummable
<1>5. /\ WeightsAt(rs, {i}, top, eps)[i] = WeightBelow(top, rs[i].s, eps)
      /\ TermsAt(rs, {i}, top, eps)[i] = WeightBelow(top, rs[i].s, eps) * rs[i].v
      /\ WeightsAt(rs, {i}, top, eps)[i] \in Int /\ TermsAt(rs, {i}, top, eps)[i] \in Int
  BY <1>4 DEF WeightsAt, TermsAt, Summable
<1>6. /\ ZAt(rs, {i}, top, eps) = WeightBelow(top, rs[i].s, eps)
      /\ UAt(rs, {i}, top, eps) = WeightBelow(top, rs[i].s, eps) * rs[i].v
  BY <1>5, SumOne DEF ZAt, UAt
<1>7. ZAt(rs, W, top, eps) \in Int /\ UAt(rs, W, top, eps) \in Int
  BY <1>4, SumFacts DEF ZAt, UAt
<1> QED BY <1>2, <1>6, <1>7

\* The sums are of the records, whatever else there is.
LEMMA SameSums ==
  ASSUME NEW rs, NEW l, NEW W, NEW eps, \A i \in W : l[i] = rs[i]
  PROVE  /\ TopOf(l, W) = TopOf(rs, W)
         /\ \A top : ZAt(l, W, top, eps) = ZAt(rs, W, top, eps) /\ UAt(l, W, top, eps) = UAt(rs, W, top, eps)
         /\ Scored(rs, W, eps) => Scored(l, W, eps)
         /\ Level(rs, W, eps) => Level(l, W, eps)
         /\ \A st : Anchored(st, rs, W, eps) => Anchored(st, l, W, eps)
<1>1. {l[i].s : i \in W} = {rs[i].s : i \in W}
  OBVIOUS
<1>2. TopOf(l, W) = TopOf(rs, W)
  BY <1>1 DEF TopOf
<1>3. ASSUME NEW top
      PROVE  ZAt(l, W, top, eps) = ZAt(rs, W, top, eps) /\ UAt(l, W, top, eps) = UAt(rs, W, top, eps)
  <2>1. WeightsAt(l, W, top, eps) = WeightsAt(rs, W, top, eps)
    BY DEF WeightsAt
  <2>2. TermsAt(l, W, top, eps) = TermsAt(rs, W, top, eps)
    BY DEF TermsAt
  <2> QED BY <2>1, <2>2 DEF ZAt, UAt
<1>4. Scored(rs, W, eps) => Scored(l, W, eps)
  BY DEF Scored
<1>5. Level(rs, W, eps) => Level(l, W, eps)
  BY <1>4 DEF Level
<1>6. \A st : Anchored(st, rs, W, eps) => Anchored(st, l, W, eps)
  BY <1>2, <1>3 DEF Anchored
<1> QED BY <1>2, <1>3, <1>4, <1>5, <1>6

LEMMA LevelFacts ==
  ASSUME NEW rs, NEW W, NEW eps, Level(rs, W, eps)
  PROVE  /\ IsFiniteSet(W) /\ Scored(rs, W, eps) /\ \A i \in W : rs[i].s \in Int /\ rs[i].v \in Int
         /\ \A R \in SUBSET W : Level(rs, R, eps)
         /\ W # {} => /\ TopOf(rs, W) \in Int /\ TopOf(rs, W) < PosInf /\ NegInf < TopOf(rs, W)
                      /\ \A i \in W : rs[i].s <= TopOf(rs, W)
                      /\ \E i \in W : rs[i].s = TopOf(rs, W)
                      /\ HasWeights(rs, W, TopOf(rs, W), eps)
<1>1. Scored(rs, W, eps) /\ IsFiniteSet(W)
  BY DEF Level, Scored
<1>2. \A i \in W : rs[i].s \in Int /\ rs[i].v \in Int /\ NegInf < rs[i].s /\ rs[i].s < PosInf
  BY InfinityFacts DEF Level, Scored, Finite
<1>3. \A R \in SUBSET W : Level(rs, R, eps)
  BY <1>1, ScoredSubset DEF Level
<1>4. ASSUME W # {}
      PROVE  /\ TopOf(rs, W) \in Int
             /\ \A i \in W : rs[i].s <= TopOf(rs, W)
             /\ \E i \in W : rs[i].s = TopOf(rs, W)
             /\ HasWeights(rs, W, TopOf(rs, W), eps)
  BY <1>1, <1>4, TopOfFacts, WeightsBelow
<1> QED BY <1>1, <1>2, <1>3, <1>4

\* The weight that is added is the weight of the definition.
LEMMA WeightIs ==
  ASSUME NEW s \in Int, NEW top \in Int, NEW eps \in Nat, NegInf < s, top < PosInf
  PROVE  Weight(s, top, eps) = WeightBelow(top, s, eps)
<1>1. ~ Sharp(top, eps)
  BY InfinityFacts DEF Sharp, EpsZero
<1>2. Weight(s, top, eps) = Shrink(One, eps, top - s)
  BY InfinityFacts DEF Weight
<1>3. CASE eps = EpsInf
  <2>1. \A d \in Int : 0 * d = 0
    OBVIOUS
  <2>2. eps * (top - s) = 0
    BY <1>3, <2>1 DEF EpsInf
  <2>3. One \in Nat /\ Pow2[0] = 1
    BY InfinityFacts, Pow2Facts
  <2>4. Shrink(One, eps, top - s) = One
    BY <2>2, <2>3 DEF Shrink
  <2> QED BY <1>1, <1>2, <1>3, <2>4 DEF WeightBelow
<1> QED BY <1>1, <1>2, <1>3 DEF WeightBelow
\* Both sums replaced, field by field.
LEMMA BothFields ==
  ASSUME NEW st, st = [m |-> st.m, num |-> st.num, den |-> st.den], NEW x, NEW y
  PROVE  [st EXCEPT !.num = x, !.den = y] = [m |-> st.m, num |-> x, den |-> y]
<1>1. \A m, a, b, n : [[m |-> m, num |-> a, den |-> b] EXCEPT !.num = n]
                       = [m |-> m, num |-> n, den |-> b]
  OBVIOUS
<1>2. \A m, a, b, n : [[m |-> m, num |-> a, den |-> b] EXCEPT !.den = n]
                       = [m |-> m, num |-> a, den |-> n]
  OBVIOUS
<1> DEFINE c == [st EXCEPT !.num = x]
<1>3. c = [m |-> st.m, num |-> x, den |-> st.den]
  BY <1>1
<1>4. [st EXCEPT !.num = x, !.den = y] = [c EXCEPT !.den = y]
  OBVIOUS
<1> HIDE DEF c
<1> QED BY <1>2, <1>3, <1>4

\* NaN stays, and a weight that is NaN makes both sums NaN.
LEMMA PlusNaN ==
  ASSUME NEW st, st = [m |-> st.m, num |-> st.num, den |-> st.den], NEW w, NEW v,
         w = NaN \/ (st.num = NaN /\ st.den = NaN)
  PROVE  Plus(st, w, v) = [m |-> st.m, num |-> NaN, den |-> NaN]
<1> DEFINE x == AddNum(st.num, IF NaN \in {w, v} THEN NaN ELSE w * v)
           y == AddNum(st.den, w)
<1>1. x = NaN /\ y = NaN
  BY DEF AddNum
<1>2. Plus(st, w, v) = [st EXCEPT !.num = x, !.den = y]
  BY DEF Plus
<1> HIDE DEF x, y
<1> QED BY <1>1, <1>2, BothFields

\* Adding up, number by number.
LEMMA PlusIs ==
  ASSUME NEW st, st = [m |-> st.m, num |-> st.num, den |-> st.den], NEW w \in Int,
         NEW v, v \in Int \cup {NaN}, st.num \in Int \cup {NaN}, st.den \in Int
  PROVE  Plus(st, w, v) = [m   |-> st.m,
                           num |-> IF NaN \in {st.num, v} THEN NaN ELSE st.num + w * v,
                           den |-> st.den + w]
<1>1. w * v \in Int \/ v = NaN
  <2>1. \A a, b \in Int : a * b \in Int
    OBVIOUS
  <2> QED BY <2>1
<1>2. w # NaN /\ st.den # NaN /\ (v # NaN => w * v # NaN)
  BY <1>1, NotANumber
<1>3. AddNum(st.num, IF NaN \in {w, v} THEN NaN ELSE w * v)
        = IF NaN \in {st.num, v} THEN NaN ELSE st.num + w * v
  BY <1>2 DEF AddNum
<1>4. AddNum(st.den, w) = st.den + w
  BY <1>2 DEF AddNum
<1>5. \A x, y : [st EXCEPT !.num = x, !.den = y] = [m |-> st.m, num |-> x, den |-> y]
  BY BothFields
<1>6. Plus(st, w, v)
        = [st EXCEPT !.num = AddNum(st.num, IF NaN \in {w, v} THEN NaN ELSE w * v),
                     !.den = AddNum(st.den, w)]
  BY DEF Plus
<1> QED BY <1>3, <1>4, <1>5, <1>6

\* What the sums of W are at another top, and with a record more or less.
AnchoredAt(st, rs, W, top, eps) ==
  /\ st = [m |-> top, num |-> st.num, den |-> st.den]
  /\ st.den = ZAt(rs, W, top, eps)
  /\ st.num \in {NaN, UAt(rs, W, top, eps)}

LEMMA AnchoredAtTop ==
  ASSUME NEW st, NEW rs, NEW W, NEW top, NEW eps, AnchoredAt(st, rs, W, top, eps),
         top = IF W = {} THEN NegInf ELSE TopOf(rs, W)
  PROVE  Anchored(st, rs, W, eps)
<1>1. st.m = top
  BY DEF AnchoredAt
<1> QED BY <1>1 DEF Anchored, AnchoredAt

\* At the temperature where all weigh the same, no top matters.
LEMMA FlatSums ==
  ASSUME NEW rs, NEW W, NEW a, NEW b
  PROVE  ZAt(rs, W, a, EpsInf) = ZAt(rs, W, b, EpsInf) /\ UAt(rs, W, a, EpsInf) = UAt(rs, W, b, EpsInf)
<1>1. \A s : WeightBelow(a, s, EpsInf) = WeightBelow(b, s, EpsInf)
  BY DEF WeightBelow, Sharp, EpsInf, EpsZero
<1>2. WeightsAt(rs, W, a, EpsInf) = WeightsAt(rs, W, b, EpsInf)
  BY <1>1 DEF WeightsAt
<1>3. TermsAt(rs, W, a, EpsInf) = TermsAt(rs, W, b, EpsInf)
  BY <1>1 DEF TermsAt
<1> QED BY <1>2, <1>3 DEF ZAt, UAt

\* Raising the running max re-bases the sums to it.
LEMMA RaisedExact ==
  ASSUME NEW rs, NEW W, NEW i, NEW eps, Level(rs, W \cup {i}, eps), NEW st,
         Anchored(st, rs, W, eps)
  PROVE  /\ AnchoredAt(Raised(st, rs[i].s, eps), rs, W, TopOf(rs, W \cup {i}), eps)
         /\ (Raised(st, rs[i].s, eps).num = NaN <=> st.num = NaN)
<1> DEFINE Y   == W \cup {i}
           top == TopOf(rs, Y)
           s   == rs[i].s
           up  == Raised(st, s, eps)
<1>1. /\ top \in Int /\ top < PosInf /\ NegInf < top /\ (\A j \in Y : rs[j].s <= top)
      /\ (\E j \in Y : rs[j].s = top) /\ s \in Int /\ eps \in Nat /\ NegInf < s
      /\ Level(rs, W, eps) /\ Scored(rs, Y, eps) /\ \A j \in Y : rs[j].s \in Int
  <2>1. Y # {} /\ i \in Y /\ W \in SUBSET Y /\ Level(rs, Y, eps)
    OBVIOUS
  <2> HIDE DEF Y
  <2>2. NegInf < s /\ s \in Int
    BY <2>1, LevelFacts, InfinityFacts DEF Level, Scored, Finite
  <2>3. Level(rs, Y, eps) /\ Level(rs, W, eps)
    BY <2>1, LevelFacts
  <2>4. /\ top \in Int /\ top < PosInf /\ NegInf < top /\ (\A j \in Y : rs[j].s <= top)
        /\ (\E j \in Y : rs[j].s = top)
    BY <2>1, <2>3, LevelFacts
  <2>5. Scored(rs, Y, eps) /\ eps \in Nat /\ \A j \in Y : rs[j].s \in Int
    BY <2>3, LevelFacts DEF Level
  <2> HIDE DEF top, s
  <2> QED BY <2>2, <2>3, <2>4, <2>5
<1>2. W # {} => /\ TopOf(rs, W) \in Int /\ NegInf < TopOf(rs, W)
                /\ top = Larger(TopOf(rs, W), s)
                /\ \A j \in W : rs[j].s <= TopOf(rs, W)
  <2> SUFFICES ASSUME W # {} PROVE  /\ TopOf(rs, W) \in Int /\ NegInf < TopOf(rs, W)
                /\ top = Larger(TopOf(rs, W), s)
                /\ \A j \in W : rs[j].s <= TopOf(rs, W)
    OBVIOUS
  <2>1. /\ TopOf(rs, W) \in Int /\ NegInf < TopOf(rs, W)
        /\ \A j \in W : rs[j].s <= TopOf(rs, W)
    BY <1>1, LevelFacts
  <2>2. {i} # {} /\ Scored(rs, {i}, eps)
    BY <1>1, ScoredSubset
  <2>3. TopOf(rs, {i}) = s
    BY <2>2, TopOfFacts
  <2>4. top = Larger(TopOf(rs, W), TopOf(rs, {i}))
    BY <1>1, <2>2, TopOfUnion
  <2> QED BY <2>1, <2>3, <2>4
<1>3. W = {} => top = s
  BY <1>1
<1>4. NegInf \in Int
  BY InfinityFacts
<1> HIDE DEF top, s
<1>5. CASE s <= st.m
  <2>1. W # {}
    BY <1>1, <1>4, <1>5 DEF Anchored
  <2>2. st.m = top /\ up = st
    BY <1>1, <1>2, <1>5, <2>1 DEF Anchored, Raised, Larger
  <2> QED BY <2>2 DEF Anchored, AnchoredAt, top, s
<1>6. CASE ~ (s <= st.m) /\ W = {}
  <2>1. st.m = NegInf /\ top = s /\ st.den = 0 /\ st.num \in {NaN, 0}
    BY <1>3, <1>6, NoSums DEF Anchored
  <2>2. up = [st EXCEPT !.m = s]
    BY <1>6, <2>1 DEF Raised
  <2>3. up = [m |-> s, num |-> st.num, den |-> st.den]
    <3> DEFINE c == [m |-> st.m, num |-> st.num, den |-> st.den]
    <3>1. [c EXCEPT !.m = s] = [m |-> s, num |-> st.num, den |-> st.den]
      OBVIOUS
    <3> QED BY <2>2, <3>1 DEF Anchored
  <2>4. up.num = st.num /\ up.den = st.den
    BY <2>3
  <2> QED BY <1>6, <2>1, <2>3, <2>4, NoSums DEF AnchoredAt, top, s
<1>7. CASE ~ (s <= st.m) /\ W # {}
  <2> DEFINE low == TopOf(rs, W)
  <2>1. st.m = low /\ low # NegInf /\ low \in Int /\ top = s /\ low < s
    BY <1>1, <1>2, <1>4, <1>7 DEF Anchored, Larger
  <2>2. up = [m |-> s, num |-> ShrinkNum(st.num, eps, s - low), den |-> ShrinkNum(st.den, eps, s - low)]
    BY <1>7, <2>1 DEF Raised
  <2>3. IsFiniteSet(W) /\ HasWeights(rs, W, low, eps)
    BY <1>1, <1>7, LevelFacts
  <2>4. ZAt(rs, W, low, eps) \in Int /\ UAt(rs, W, low, eps) \in Int
    <3> HIDE DEF low
    <3>1. Summable(WeightsAt(rs, W, low, eps), W) /\ Summable(TermsAt(rs, W, low, eps), W)
      BY <2>3, WeighedSummable
    <3> QED BY <3>1, SumFacts DEF ZAt, UAt
  <2>5. /\ Shrink(ZAt(rs, W, low, eps), eps, s - low) = ZAt(rs, W, top, eps)
        /\ Shrink(UAt(rs, W, low, eps), eps, s - low) = UAt(rs, W, top, eps)
    <3>1. CASE eps = EpsInf
      <4>1. \A d \in Int : 0 * d = 0
        OBVIOUS
      <4>2. eps * (s - low) = 0 /\ Pow2[0] = 1
        BY <1>1, <2>1, <3>1, <4>1, Pow2Facts DEF EpsInf
      <4>3. \A x \in Int : x \div 1 = x
        OBVIOUS
      <4>4. /\ Shrink(ZAt(rs, W, low, eps), eps, s - low) = ZAt(rs, W, low, eps)
            /\ Shrink(UAt(rs, W, low, eps), eps, s - low) = UAt(rs, W, low, eps)
        BY <2>4, <4>2, <4>3 DEF Shrink
      <4> QED BY <3>1, <4>4, FlatSums
    <3>2. CASE eps # EpsInf
      <4>1. IsSoft(eps)
        BY <1>1, <3>2 DEF IsSoft, EpsInf
      <4>2. ASSUME NEW j \in W
            PROVE  rs[j].s \in Int /\ rs[j].s <= low /\ eps * (top - rs[j].s) <= Spread
        <5>1. PICK t \in Y : rs[t].s = top
          BY <1>1
        <5>2. j \in Y /\ rs[t].s # PosInf /\ rs[j].s # PosInf
          BY <1>1, <5>1, InfinityFacts
        <5>3. eps * (rs[t].s - rs[j].s) <= Spread
          BY <1>1, <4>1, <5>2 DEF Scored
        <5> QED BY <1>1, <1>2, <1>7, <5>1, <5>3
      <4>3. Scored(rs, W, eps)
        BY <1>1 DEF Level
      <4> HIDE DEF low
      <4> QED BY <1>1, <2>1, <4>1, <4>2, <4>3, Rescaled
    <3> QED BY <3>1, <3>2
  <2>6. st.den # NaN /\ UAt(rs, W, top, eps) # NaN /\ st.num \in {NaN, UAt(rs, W, low, eps)}
    <3>1. st.den = ZAt(rs, W, low, eps) /\ st.num \in {NaN, UAt(rs, W, low, eps)}
      BY <2>1 DEF Anchored
    <3>2. UAt(rs, W, top, eps) \in Int
      <4>1. HasWeights(rs, W, top, eps)
        BY <1>1, WeightsBelow DEF top
      <4>2. Summable(TermsAt(rs, W, top, eps), W)
        BY <2>3, <4>1, WeighedSummable
      <4> QED BY <4>2, SumFacts DEF UAt
    <3> QED BY <2>4, <3>1, <3>2, NotANumber
  <2>7. /\ up.den = ZAt(rs, W, top, eps)
        /\ up.num = IF st.num = NaN THEN NaN ELSE UAt(rs, W, top, eps)
        /\ up = [m |-> top, num |-> up.num, den |-> up.den]
    <3>1. ShrinkNum(st.den, eps, s - low) = ZAt(rs, W, top, eps)
      BY <1>7, <2>1, <2>5, <2>6 DEF ShrinkNum, Anchored
    <3>2. ShrinkNum(st.num, eps, s - low) = IF st.num = NaN THEN NaN ELSE UAt(rs, W, top, eps)
      BY <2>5, <2>6 DEF ShrinkNum
    <3> QED BY <2>1, <2>2, <3>1, <3>2
  <2> QED BY <2>6, <2>7 DEF AnchoredAt, top, s
<1> QED BY <1>5, <1>6, <1>7
\* The numerator of n is NaN just where that of st or the value is.
NaNFrom(n, st, v) == n.num = NaN <=> NaN \in {st.num, v}

\* A record more: its weight is added to the sums re-based to it.
THEOREM AddedExact ==
  ASSUME NEW rs, NEW W, NEW i, i \notin W, NEW eps, Level(rs, W \cup {i}, eps), NEW st,
         Anchored(st, rs, W, eps), NEW v \in {NaN, rs[i].v}
  PROVE  /\ Anchored(Added(st, rs[i].s, v, eps), rs, W \cup {i}, eps)
         /\ NaNFrom(Added(st, rs[i].s, v, eps), st, v)
<1> DEFINE Y   == W \cup {i}
           top == TopOf(rs, Y)
           s   == rs[i].s
           up  == Raised(st, s, eps)
           w   == WeightBelow(top, s, eps)
           u   == UAt(rs, W, top, eps)
<1>1. /\ top \in Int /\ top < PosInf /\ s \in Int /\ NegInf < s /\ eps \in Nat
      /\ HasWeights(rs, Y, top, eps) /\ rs[i].v \in Int /\ IsFiniteSet(W) /\ Y # {}
  <2>1. Y # {} /\ i \in Y /\ W \in SUBSET Y /\ Level(rs, Y, eps)
    OBVIOUS
  <2> HIDE DEF Y
  <2>2. NegInf < s /\ s \in Int /\ rs[i].v \in Int
    BY <2>1, LevelFacts, InfinityFacts DEF Level, Scored, Finite
  <2>3. top \in Int /\ top < PosInf /\ HasWeights(rs, Y, top, eps)
    BY <2>1, LevelFacts
  <2>4. eps \in Nat /\ IsFiniteSet(W)
    BY <2>1, LevelFacts, FS_Subset DEF Level
  <2> QED BY <2>1, <2>2, <2>3, <2>4
<1>2. AnchoredAt(up, rs, W, top, eps) /\ (up.num = NaN <=> st.num = NaN)
  BY RaisedExact
<1> HIDE DEF up, top
<1>3. /\ ZAt(rs, Y, top, eps) = ZAt(rs, W, top, eps) + w
      /\ UAt(rs, Y, top, eps) = u + w * rs[i].v
      /\ ZAt(rs, W, top, eps) \in Int /\ u \in Int
  BY <1>1, OneMore
<1>4. w \in Int /\ w * rs[i].v \in Int
  <2>1. \A a, b \in Int : a * b \in Int
    OBVIOUS
  <2> QED BY <1>1, <2>1 DEF HasWeights
<1>5. up = [m |-> top, num |-> up.num, den |-> up.den] /\ up.m = top
  BY <1>2 DEF AnchoredAt
<1>6. Weight(s, up.m, eps) = w
  BY <1>1, <1>5, WeightIs
<1>7. Added(st, s, v, eps) = Plus(up, w, v)
  BY <1>6 DEF Added, up
<1>8. up.num \in {NaN, u} /\ up.den = ZAt(rs, W, top, eps)
  BY <1>2 DEF AnchoredAt
<1> HIDE DEF s, w, u
<1>9. Plus(up, w, v) = [m   |-> top,
                        num |-> IF NaN \in {up.num, v} THEN NaN ELSE up.num + w * v,
                        den |-> up.den + w]
  BY <1>1, <1>3, <1>4, <1>5, <1>8, PlusIs
<1>10. AnchoredAt(Plus(up, w, v), rs, Y, top, eps)
  <2>1. NaN \notin {up.num, v} => up.num + w * v = UAt(rs, Y, top, eps)
    BY <1>3, <1>8
  <2>2. up.den + w = ZAt(rs, Y, top, eps)
    BY <1>3, <1>8
  <2> QED BY <1>9, <2>1, <2>2 DEF AnchoredAt
<1>11. (Plus(up, w, v).num = NaN <=> NaN \in {st.num, v})
  <2>1. NaN \notin {up.num, v} => up.num + w * v \in Int
    BY <1>3, <1>4, <1>8
  <2>2. NaN \notin {up.num, v} => up.num + w * v # NaN
    BY <2>1, NotANumber
  <2> QED BY <1>2, <1>9, <2>2
<1>12. Anchored(Plus(up, w, v), rs, Y, eps)
  BY <1>1, <1>10, AnchoredAtTop DEF top
<1> QED BY <1>7, <1>11, <1>12 DEF s, NaNFrom

\* n has the sums of st without record i of W, whose value was v; others are left.
TakenOff(n, st, rs, W, i, v, eps) ==
  Anchored(n, rs, W \ {i}, eps) /\ NaNFrom(n, st, v) /\ W \ {i} # {}

\* A record less, one that is not at the top: its weight is taken off again.
THEOREM SubtractedExact ==
  ASSUME NEW rs, NEW W, NEW i \in W, NEW eps, Level(rs, W, eps), NEW st,
         Anchored(st, rs, W, eps), NEW s, s = rs[i].s, ~ Anchors(st, s), NEW v, v \in {NaN, rs[i].v}
  PROVE  TakenOff(Subtracted(st, s, v, eps), st, rs, W, i, v, eps)
<1> DEFINE R   == W \ {i}
           top == TopOf(rs, W)
           w   == WeightBelow(top, s, eps)
           u   == UAt(rs, R, top, eps)
<1>1. /\ top \in Int /\ top < PosInf /\ s \in Int /\ NegInf < s /\ eps \in Nat
      /\ HasWeights(rs, W, top, eps) /\ rs[i].v \in Int /\ IsFiniteSet(R)
      /\ (\A j \in W : rs[j].s <= top /\ rs[j].s \in Int) /\ (\E j \in W : rs[j].s = top)
      /\ Scored(rs, W, eps)
  <2>1. W # {}
    OBVIOUS
  <2>2. NegInf < s /\ s \in Int /\ rs[i].v \in Int
    BY LevelFacts, InfinityFacts DEF Level, Scored, Finite
  <2>3. /\ top \in Int /\ top < PosInf /\ HasWeights(rs, W, top, eps)
        /\ (\A j \in W : rs[j].s <= top /\ rs[j].s \in Int) /\ (\E j \in W : rs[j].s = top)
    BY <2>1, LevelFacts
  <2>4. eps \in Nat /\ IsFiniteSet(R) /\ Scored(rs, W, eps)
    BY LevelFacts, FS_Subset DEF Level
  <2> QED BY <2>2, <2>3, <2>4
<1>2. st.m = top /\ st.den = ZAt(rs, W, top, eps) /\ st.num \in {NaN, UAt(rs, W, top, eps)}
        /\ st = [m |-> top, num |-> st.num, den |-> st.den]
  BY DEF Anchored
<1>3. ~ (s >= top)
  BY <1>2 DEF Anchors
<1>4. R # {} /\ TopOf(rs, R) = top
  <2>1. PICK t \in W : rs[t].s = top
    BY <1>1
  <2>2. t \in R
    BY <1>1, <1>3, <2>1
  <2> DEFINE S == {rs[j].s : j \in R}
  <2>3. S \in SUBSET (NegInf..PosInf) /\ top \in S /\ \A a \in S : a <= top
    BY <1>1, <2>1, <2>2 DEF Scored
  <2>4. TopScore(S) = top
    <3> HIDE DEF S, top
    <3> QED BY <2>3, TopIs
  <2> QED BY <2>2, <2>4 DEF TopOf
<1> HIDE DEF top
<1>5. /\ ZAt(rs, W, top, eps) = ZAt(rs, R, top, eps) + w
      /\ UAt(rs, W, top, eps) = u + w * rs[i].v
      /\ ZAt(rs, R, top, eps) \in Int /\ u \in Int
  <2>1. i \notin R /\ R \cup {i} = W
    OBVIOUS
  <2>2. HasWeights(rs, R \cup {i}, top, eps) /\ IsFiniteSet(R)
    BY <1>1, <2>1
  <2> HIDE DEF R
  <2>3. /\ ZAt(rs, R \cup {i}, top, eps) = ZAt(rs, R, top, eps) + WeightBelow(top, rs[i].s, eps)
        /\ UAt(rs, R \cup {i}, top, eps)
              = UAt(rs, R, top, eps) + WeightBelow(top, rs[i].s, eps) * rs[i].v
        /\ ZAt(rs, R, top, eps) \in Int /\ UAt(rs, R, top, eps) \in Int
    BY <2>1, <2>2, OneMore
  <2> QED BY <2>1, <2>3
<1>6. w \in Int /\ w * rs[i].v \in Int
  <2>1. \A a, b \in Int : a * b \in Int
    OBVIOUS
  <2> QED BY <1>1, <2>1 DEF HasWeights
<1>7. Weight(s, st.m, eps) = w
  BY <1>1, <1>2, WeightIs
<1>8. w # NaN
  BY <1>6, NotANumber
<1>9. Subtracted(st, s, v, eps) = Plus(st, -w, v)
  BY <1>7, <1>8 DEF Subtracted
<1> HIDE DEF w, u, R
<1>10. Plus(st, -w, v) = [m   |-> top,
                          num |-> IF NaN \in {st.num, v} THEN NaN ELSE st.num + (-w) * v,
                          den |-> st.den + (-w)]
  <2>1. -w \in Int /\ st.den \in Int /\ st.num \in Int \cup {NaN}
    BY <1>2, <1>5, <1>6
  <2>2. v \in Int \cup {NaN} /\ st = [m |-> st.m, num |-> st.num, den |-> st.den]
    BY <1>1, <1>2
  <2> QED BY <1>2, <2>1, <2>2, PlusIs
<1>11. NaN \notin {st.num, v} => st.num + (-w) * v = u
  <2>1. \A a, b \in Int : (-a) * b = -(a * b)
    OBVIOUS
  <2> QED BY <1>1, <1>2, <1>5, <1>6, <2>1
<1>12. AnchoredAt(Plus(st, -w, v), rs, R, top, eps)
  <2>1. st.den + (-w) = ZAt(rs, R, top, eps)
    BY <1>2, <1>5, <1>6
  <2> QED BY <1>10, <1>11, <2>1 DEF AnchoredAt, u
<1>13. (Plus(st, -w, v).num = NaN <=> NaN \in {st.num, v})
  <2>1. u # NaN
    BY <1>5, NotANumber
  <2> QED BY <1>10, <1>11, <2>1
<1>14. Anchored(Plus(st, -w, v), rs, R, eps)
  BY <1>4, <1>12, AnchoredAtTop
<1> QED BY <1>4, <1>9, <1>13, <1>14 DEF R, NaNFrom, TakenOff

(***************************************************************************)
(* The incremental aggregate.                                              *)
(***************************************************************************)

\* A finite set, laid out in a sequence.
LEMMA LaidOut ==
  ASSUME NEW S, IsFiniteSet(S), NEW at, at = SetToSeq(S)
  PROVE  \E n \in Nat : DOMAIN at = 1..n /\ OneToOne(at, 1..n) /\ Through(at, 1..n) = S
<1> DEFINE n == Cardinality(S)
<1>1. n \in Nat /\ IsFiniteSet(1..n) /\ Cardinality(1..n) = n
  BY FS_CardinalityType, FS_Interval
<1>2. ExistsBijection(1..n, S)
  <2>1. Cardinality(1..n) = Cardinality(S)
    BY <1>1
  <2> QED BY <1>1, <2>1, FS_SameCardinalityBij
<1>3. \E f \in [1..n -> S] : IsInjective(f)
  BY <1>2 DEF ExistsBijection, Bijection, Injection
<1>4. at \in [1..n -> S] /\ IsInjective(at)
  BY <1>3 DEF SetToSeq
<1>5. at \in Injection(1..n, S)
  BY <1>4 DEF Injection
<1>6. at \in Surjection(1..n, S)
  BY <1>1, <1>5, FS_Injection
<1>7. DOMAIN at = 1..n /\ OneToOne(at, 1..n)
  BY <1>4 DEF OneToOne, IsInjective
<1>8. Through(at, 1..n) = S
  BY <1>4, <1>6 DEF Through, Surjection
<1> QED BY <1>1, <1>7, <1>8

\* A record's weight in a sum from nothing, and the max it is below.
CountedAt(s, top) == IF temp # EpsZero THEN Weight(s, top, temp) ELSE IF s = top THEN One ELSE 0
TopLive(l)        == IF l = << >> THEN NegInf ELSE TopScore({l[i].s : i \in DOMAIN l})
Counts(l)         == [i \in DOMAIN l |-> CountedAt(l[i].s, TopLive(l))]

\* A function that sums the records of l along at.
SumsAlong(g, l, at, top) ==
  g = [T \in SUBSET DOMAIN at |->
        IF T = {} THEN [EmptySum EXCEPT !.m = top]
        ELSE Plus(g[T \ {Max(T)}], CountedAt(l[at[Max(T)]].s, top), l[at[Max(T)]].v)]

\* The sums of weights w over K, or NaN where a weight is.
SummedUp(l, K, w, top) ==
  [m   |-> top,
   num |-> IF \E i \in K : w[i] = NaN THEN NaN ELSE SumFunctionOnSet([i \in K |-> w[i] * l[i].v], K),
   den |-> IF \E i \in K : w[i] = NaN THEN NaN ELSE SumFunctionOnSet([i \in K |-> w[i]], K)]

\* One record more.
LEMMA SummedOneMore ==
  ASSUME NEW l, NEW K, IsFiniteSet(K), NEW i, i \notin K, NEW w, NEW top,
         \A j \in K \cup {i} : w[j] \in Int \cup {NaN} /\ l[j].v \in Int
  PROVE  Plus(SummedUp(l, K, w, top), w[i], l[i].v) = SummedUp(l, K \cup {i}, w, top)
<1> DEFINE Y  == K \cup {i}
           st == SummedUp(l, K, w, top)
           fw == [j \in Y |-> w[j]]
           fu == [j \in Y |-> w[j] * l[j].v]
<1>1. st = [m |-> top, num |-> st.num, den |-> st.den] /\ st.m = top
  BY DEF SummedUp
<1>2. CASE \E j \in Y : w[j] = NaN
  <2>1. w[i] = NaN \/ (st.num = NaN /\ st.den = NaN)
    BY <1>2 DEF SummedUp
  <2> HIDE DEF st
  <2>2. Plus(st, w[i], l[i].v) = [m |-> top, num |-> NaN, den |-> NaN]
    BY <1>1, <2>1, PlusNaN
  <2> QED BY <1>2, <2>2 DEF SummedUp, st
<1>3. CASE \A j \in Y : w[j] # NaN
  <2>1. \A j \in Y : w[j] \in Int /\ l[j].v \in Int /\ w[j] * l[j].v \in Int
    <3>1. \A a, b \in Int : a * b \in Int
      OBVIOUS
    <3> QED BY <1>3, <3>1
  <2>2. IsFiniteSet(Y)
    BY FS_AddElement
  <2>3. Summable(fw, Y) /\ Summable(fu, Y)
    BY <2>1, <2>2 DEF Summable
  <2>4. Y \ {i} = K /\ i \in Y
    OBVIOUS
  <2>5. /\ SumFunctionOnSet(fw, Y) = fw[i] + SumFunctionOnSet(fw, K)
        /\ SumFunctionOnSet(fu, Y) = fu[i] + SumFunctionOnSet(fu, K)
    <3> HIDE DEF fw, fu, Y
    <3> QED BY <2>3, <2>4, SumFacts
  <2>6. /\ SumFunctionOnSet([j \in K |-> w[j]], K) = SumFunctionOnSet(fw, K)
        /\ SumFunctionOnSet([j \in K |-> w[j] * l[j].v], K) = SumFunctionOnSet(fu, K)
        /\ SumFunctionOnSet(fw, K) \in Int /\ SumFunctionOnSet(fu, K) \in Int
    <3>1. Summable(fw, K) /\ Summable(fu, K)
      <4> HIDE DEF fw, fu
      <4> QED BY <2>3, SummableSubset
    <3>2. /\ \A j \in K : [h \in K |-> w[h]][j] = fw[j]
          /\ \A j \in K : [h \in K |-> w[h] * l[h].v][j] = fu[j]
      OBVIOUS
    <3> HIDE DEF fw, fu
    <3> QED BY <3>1, <3>2, SumCong, SumFacts
  <2>7. st.num = SumFunctionOnSet(fu, K) /\ st.den = SumFunctionOnSet(fw, K)
    BY <1>3, <2>6 DEF SummedUp
  <2>8. Plus(st, w[i], l[i].v) = [m   |-> top,
                                  num |-> IF NaN \in {st.num, l[i].v} THEN NaN
                                          ELSE st.num + w[i] * l[i].v,
                                  den |-> st.den + w[i]]
    <3> HIDE DEF st
    <3> QED BY <1>1, <2>1, <2>6, <2>7, PlusIs
  <2>9. NaN \notin {st.num, l[i].v}
    BY <2>1, <2>6, <2>7, NotANumber
  <2>10. fw[i] = w[i] /\ fu[i] = w[i] * l[i].v
    OBVIOUS
  <2>11. /\ st.num + w[i] * l[i].v = SumFunctionOnSet(fu, Y)
         /\ st.den + w[i] = SumFunctionOnSet(fw, Y)
    <3> HIDE DEF st, fw, fu
    <3> QED BY <2>1, <2>5, <2>6, <2>7, <2>10
  <2>12. SummedUp(l, Y, w, top)
           = [m |-> top, num |-> SumFunctionOnSet(fu, Y), den |-> SumFunctionOnSet(fw, Y)]
    BY <1>3 DEF SummedUp
  <2> HIDE DEF st, Y
  <2> QED BY <2>8, <2>9, <2>11, <2>12 DEF Y, st
<1> QED BY <1>2, <1>3

\* The whole sum again is the sum of the weights below the max, in whatever order.
THEOREM RecomputedIs ==
  ASSUME NEW l, IsFiniteSet(DOMAIN l), \A i \in DOMAIN l : l[i].v \in Int,
         \A i \in DOMAIN l : Counts(l)[i] \in Int \cup {NaN}
  PROVE  Recomputed(l) = SummedUp(l, DOMAIN l, Counts(l), TopLive(l))
<1> DEFINE at   == SetToSeq(DOMAIN l)
           top  == TopLive(l)
           w    == Counts(l)
           of(T) == SummedUp(l, Through(at, T), w, top)
           iter == CHOOSE h : SumsAlong(h, l, at, top)
<1>1. PICK n \in Nat : DOMAIN at = 1..n /\ OneToOne(at, 1..n) /\ Through(at, 1..n) = DOMAIN l
  BY LaidOut
<1>2. Recomputed(l) = iter[1..n]
  BY <1>1 DEF Recomputed, FoldLeft, MapThenFoldSet, SumsAlong, CountedAt, TopLive
<1>3. of({}) = [EmptySum EXCEPT !.m = top]
  <2>1. Through(at, {}) = {}
    BY DEF Through
  <2>2. /\ SumFunctionOnSet([i \in {} |-> w[i] * l[i].v], {}) = 0
        /\ SumFunctionOnSet([i \in {} |-> w[i]], {}) = 0
    BY FS_EmptySet, SumZero
  <2> HIDE DEF w, top
  <2>3. SummedUp(l, {}, w, top) = [m |-> top, num |-> 0, den |-> 0]
    BY <2>2 DEF SummedUp
  <2>4. [EmptySum EXCEPT !.m = top] = [m |-> top, num |-> 0, den |-> 0]
    BY DEF EmptySum
  <2> QED BY <2>1, <2>3, <2>4
<1> HIDE DEF at, top, iter
<1>4. ASSUME NEW T \in SUBSET (1..n), T # {}
      PROVE  of(T) = Plus(of(T \ {Max(T)}), CountedAt(l[at[Max(T)]].s, top), l[at[Max(T)]].v)
  <2> DEFINE m == Max(T)
             K == Through(at, T \ {m})
  <2>1. m \in T
    BY <1>4, MaxFacts
  <2>2. Through(at, T) = K \cup {at[m]} /\ at[m] \notin K
    <3> HIDE DEF m
    <3>1. at[m] \notin K
      BY <1>1, <2>1, ZenonT(20) DEF Through, OneToOne
    <3>2. Through(at, T) = K \cup {at[m]}
      BY <2>1, ZenonT(20) DEF Through
    <3> QED BY <3>1, <3>2
  <2>3. K \in SUBSET DOMAIN l /\ at[m] \in DOMAIN l
    <3>1. Through(at, T) \in SUBSET Through(at, 1..n)
      BY DEF Through
    <3> QED BY <1>1, <2>2, <3>1
  <2>4. IsFiniteSet(K)
    BY <2>3, FS_Subset
  <2>5. w[at[m]] = CountedAt(l[at[m]].s, top)
    BY <2>3 DEF Counts, top
  <2> HIDE DEF K, m
  <2>6. Plus(SummedUp(l, K, w, top), w[at[m]], l[at[m]].v) = SummedUp(l, K \cup {at[m]}, w, top)
    <3> HIDE DEF w
    <3>1. \A j \in DOMAIN l : w[j] \in Int \cup {NaN} /\ l[j].v \in Int
      BY DEF w
    <3>2. \A j \in K \cup {at[m]} : w[j] \in Int \cup {NaN} /\ l[j].v \in Int
      BY <2>3, <3>1
    <3> DEFINE i == at[m]
    <3>3. i \notin K /\ \A j \in K \cup {i} : w[j] \in Int \cup {NaN} /\ l[j].v \in Int
      BY <2>2, <3>2
    <3> HIDE DEF i
    <3>4. Plus(SummedUp(l, K, w, top), w[i], l[i].v) = SummedUp(l, K \cup {i}, w, top)
      BY <2>4, <3>3, SummedOneMore
    <3> QED BY <3>4 DEF i
  <2> QED BY <2>2, <2>5, <2>6 DEF K, m
<1>5. SumsAlong([T \in SUBSET (1..n) |-> of(T)], l, at, top)
  <2> DEFINE h == [T \in SUBSET (1..n) |-> of(T)]
  <2> HIDE DEF of
  <2>1. \A T \in SUBSET (1..n) :
          h[T] = IF T = {} THEN [EmptySum EXCEPT !.m = top]
                 ELSE Plus(h[T \ {Max(T)}], CountedAt(l[at[Max(T)]].s, top), l[at[Max(T)]].v)
    BY <1>3, <1>4
  <2> QED BY <1>1, <2>1 DEF SumsAlong
<1>6. SumsAlong(iter, l, at, top)
  BY <1>5 DEF iter
<1> DEFINE C == {T \in SUBSET (1..n) : iter[T] = of(T)}
<1> HIDE DEF of
<1>7. ASSUME NEW U \in SUBSET (1..n), \A V \in SUBSET U : V # U => V \in C
      PROVE  U \in C
  <2>1. CASE U = {}
    BY <1>1, <1>3, <1>6, <2>1 DEF SumsAlong
  <2>2. CASE U # {}
    <3>1. Max(U) \in U
      BY <2>2, MaxFacts
    <3>2. iter[U \ {Max(U)}] = of(U \ {Max(U)})
      BY <1>7, <3>1
    <3>3. iter[U] = Plus(iter[U \ {Max(U)}], CountedAt(l[at[Max(U)]].s, top), l[at[Max(U)]].v)
      BY <1>1, <1>6, <2>2 DEF SumsAlong
    <3> QED BY <1>4, <2>2, <3>2, <3>3
  <2> QED BY <2>1, <2>2
<1>8. IsFiniteSet(1..n)
  BY <1>1, FS_Interval
<1> HIDE DEF C
<1>9. \A U \in SUBSET (1..n) : U \in C
  BY <1>7, <1>8, SubsetInduct
<1> QED BY <1>1, <1>2, <1>9 DEF C, of, top
(***************************************************************************)
(* Its invariant.                                                          *)
(***************************************************************************)

\* The live records: keys with their score, and values.
Kept(l) ==
  /\ l = [i \in DOMAIN l |-> l[i]] /\ IsFiniteSet(DOMAIN l)
  /\ \A i \in DOMAIN l : \E k \in Keys, v \in Values : l[i] = [s |-> Score(k), v |-> v]

Scoring(l) == {i \in DOMAIN l : l[i].s # NegInf}

\* The sums are those of the live records.
ExactFor(st, l) ==
  /\ DOMAIN l # {} => Scoring(l) # {}
  /\ temp = EpsInf => Scoring(l) = DOMAIN l
  /\ Anchored(st, l, Scoring(l), temp) /\ st.num # NaN

\* A record that scored -inf was once weighed against -inf, or at eps = inf.
Poisons(st) == sim = "Indicator" /\ st = [m |-> st.m, num |-> NaN, den |-> NaN]

\* At eps = 0 the sums are those of the argmax set.  Where no record matches they are of records
\* that do not count, at most of all of them.
SumsAt(l, W, top, eps) == [m |-> top, num |-> UAt(l, W, top, eps), den |-> ZAt(l, W, top, eps)]

Sharpened(st, l) == Scoring(l) # {} /\ st = SumsAt(l, Scoring(l), TopOf(l, Scoring(l)), EpsZero)

Unmatched(st, l) == Scoring(l) = {} /\ st = [m |-> NegInf, num |-> st.num, den |-> st.den]
                      /\ st.num \in Int /\ st.den \in Int
                      /\ st.den <= One * Cardinality(DOMAIN l)

Keeps(st, l) == IF temp = EpsZero THEN Sharpened(st, l) \/ Unmatched(st, l)
                ELSE ExactFor(st, l) \/ Poisons(st)

IncInv == sim \in Sims /\ temp \in IncEps /\ Kept(live) /\ Keeps(state, live)

IncSet == sim \in Sims /\ temp \in IncEps

\* What a score is.
LEMMA ScoreFacts ==
  ASSUME IncSet, NEW k \in Keys
  PROVE  /\ Score(k) \in NegInf..PosInf /\ Score(k) \in Int /\ Score(k) < PosInf /\ NegInf <= Score(k)
         /\ Score(k) = NegInf => sim = "Indicator"
<1>1. Score(k) \in NegInf..PosInf /\ Score(k) # PosInf /\ (Score(k) = NegInf => sim = "Indicator")
  BY IncAssumption DEF IncAssumption, Score, IncSet
<1> QED BY <1>1, InfinityFacts

LEMMA KeptFacts ==
  ASSUME IncSet, NEW l, Kept(l)
  PROVE  /\ IsFiniteSet(DOMAIN l) /\ IsFiniteSet(Scoring(l)) /\ Scoring(l) \in SUBSET DOMAIN l
         /\ \A i \in DOMAIN l : /\ l[i].s \in NegInf..PosInf /\ l[i].s \in Int /\ l[i].v \in Int
                                /\ l[i].s < PosInf /\ NegInf <= l[i].s
                                /\ l[i].s = NegInf => sim = "Indicator"
                                /\ ~ IsNull(l[i])
         /\ temp \in Nat \cup {EpsZero}
         /\ Scored(l, Scoring(l), temp)
         /\ temp # EpsZero => Level(l, Scoring(l), temp)
<1>1. temp \in Nat \cup {EpsZero} /\ Values \subseteq Int
  BY IncAssumption DEF IncAssumption, IncSet
<1>2. ASSUME NEW i \in DOMAIN l
      PROVE  /\ l[i].s \in NegInf..PosInf /\ l[i].s \in Int /\ l[i].v \in Int
             /\ l[i].s < PosInf /\ NegInf <= l[i].s
             /\ l[i].s = NegInf => sim = "Indicator"
             /\ ~ IsNull(l[i])
  <2>1. PICK k \in Keys, v \in Values : l[i] = [s |-> Score(k), v |-> v]
    BY DEF Kept
  <2>2. l[i].s = Score(k) /\ l[i].v = v
    BY <2>1
  <2> QED BY <1>1, <2>2, ScoreFacts, NotANumber DEF IsNull
<1>3. IsFiniteSet(DOMAIN l) /\ IsFiniteSet(Scoring(l)) /\ Scoring(l) \in SUBSET DOMAIN l
  BY FS_Subset DEF Kept, Scoring
<1>4. ASSUME NEW i \in Scoring(l), NEW j \in Scoring(l), IsSoft(temp)
      PROVE  temp * (l[i].s - l[j].s) <= Spread
  <2>1. PICK k \in Keys : l[i].s = Score(k)
    BY <1>3 DEF Kept
  <2>2. PICK u \in Keys : l[j].s = Score(u)
    BY <1>3 DEF Kept
  <2>3. l[i].s # NegInf /\ l[j].s # NegInf
    BY DEF Scoring
  <2>4. temp * (Score(k) - Score(u)) <= Spread
    BY <1>4, <2>1, <2>2, <2>3, IncAssumption DEF IncAssumption, Score, IncSet
  <2> QED BY <2>1, <2>2, <2>4
<1>5. \A i \in Scoring(l) : l[i].s # NegInf
  BY DEF Scoring
<1>6. Scored(l, Scoring(l), temp)
  BY <1>1, <1>2, <1>3, <1>4, <1>5 DEF Scored
<1>7. ASSUME temp # EpsZero
      PROVE  Level(l, Scoring(l), temp)
  <2>1. \A i \in Scoring(l) : Finite(l[i].s)
    BY <1>2, <1>3, <1>5, NotANumber, InfinityFacts DEF Finite
  <2> QED BY <1>1, <1>6, <1>7, <2>1 DEF Level
<1> QED BY <1>1, <1>2, <1>3, <1>6, <1>7

\* A record more, and a record less.
IsWith(m, l, id, r) ==
  /\ DOMAIN m = DOMAIN l \cup {id} /\ m[id] = r /\ id \notin Scoring(l)
  /\ \A i \in DOMAIN l : m[i] = l[i]
  /\ Scoring(m) = IF r.s = NegInf THEN Scoring(l) ELSE Scoring(l) \cup {id}

LEMMA KeptWith ==
  ASSUME IncSet, NEW l, Kept(l), NEW id, id \notin DOMAIN l, NEW k \in Keys, NEW v \in Values,
         NEW r, r = [s |-> Score(k), v |-> v]
  PROVE  Kept(With(l, id, r)) /\ IsWith(With(l, id, r), l, id, r)
<1> DEFINE m == With(l, id, r)
<1>1. m = [i \in DOMAIN l \cup {id} |-> IF i = id THEN r ELSE l[i]]
  BY DEF With
<1>2. DOMAIN m = DOMAIN l \cup {id} /\ m[id] = r /\ \A i \in DOMAIN l : m[i] = l[i]
  BY <1>1
<1>3. m = [i \in DOMAIN m |-> m[i]]
  BY <1>1
<1> HIDE DEF m
<1>4. IsFiniteSet(DOMAIN m)
  BY <1>2, FS_AddElement DEF Kept
<1>5. \A i \in DOMAIN m : \E y \in Keys, x \in Values : m[i] = [s |-> Score(y), v |-> x]
  BY <1>2 DEF Kept
<1>6. Scoring(m) = IF r.s = NegInf THEN Scoring(l) ELSE Scoring(l) \cup {id}
  BY <1>2 DEF Scoring
<1>7. id \notin Scoring(l)
  BY DEF Scoring
<1> QED BY <1>2, <1>3, <1>4, <1>5, <1>6, <1>7 DEF Kept, IsWith, m

LEMMA KeptWithout ==
  ASSUME IncSet, NEW l, Kept(l), NEW id \in DOMAIN l
  PROVE  /\ Kept(Without(l, id)) /\ DOMAIN Without(l, id) = DOMAIN l \ {id}
         /\ \A i \in DOMAIN l \ {id} : Without(l, id)[i] = l[i]
         /\ Scoring(Without(l, id)) = Scoring(l) \ {id}
<1> DEFINE m == Without(l, id)
<1>1. m = [i \in DOMAIN l \ {id} |-> l[i]]
  BY DEF Without
<1>2. DOMAIN m = DOMAIN l \ {id} /\ \A i \in DOMAIN m : m[i] = l[i]
  BY <1>1
<1>3. m = [i \in DOMAIN m |-> m[i]]
  BY <1>1
<1> HIDE DEF m
<1>4. IsFiniteSet(DOMAIN m)
  BY <1>2, FS_Subset DEF Kept
<1>5. \A i \in DOMAIN m : \E y \in Keys, x \in Values : m[i] = [s |-> Score(y), v |-> x]
  BY <1>2 DEF Kept
<1>6. Scoring(m) = Scoring(l) \ {id}
  BY <1>2 DEF Scoring
<1> QED BY <1>2, <1>3, <1>4, <1>5, <1>6 DEF Kept, m
(***************************************************************************)
(* Inserting.                                                              *)
(***************************************************************************)

\* NaN stays whatever comes or goes.
LEMMA PoisonStays ==
  ASSUME NEW st, Poisons(st), NEW s, NEW v, NEW eps
  PROVE  Poisons(Added(st, s, v, eps)) /\ Poisons(Subtracted(st, s, v, eps))
<1>1. sim = "Indicator" /\ st = [m |-> st.m, num |-> NaN, den |-> NaN]
  BY DEF Poisons
<1>2. \A n, w : n = [m |-> n.m, num |-> NaN, den |-> NaN] => Poisons(Plus(n, w, v))
  <2> TAKE n, w
  <2> HAVE n = [m |-> n.m, num |-> NaN, den |-> NaN]
  <2>1. n.num = NaN /\ n.den = NaN /\ n = [m |-> n.m, num |-> n.num, den |-> n.den]
    OBVIOUS
  <2>2. Plus(n, w, v) = [m |-> n.m, num |-> NaN, den |-> NaN]
    BY <2>1, PlusNaN
  <2> QED BY <1>1, <2>2 DEF Poisons
<1> DEFINE up == Raised(st, s, eps)
<1>3. up = [m |-> up.m, num |-> NaN, den |-> NaN]
  <2>1. CASE s <= st.m
    BY <1>1, <2>1 DEF Raised
  <2>2. CASE ~ (s <= st.m) /\ st.m = NegInf
    <3>1. \A m : [[m |-> m, num |-> NaN, den |-> NaN] EXCEPT !.m = s]
                   = [m |-> s, num |-> NaN, den |-> NaN]
      OBVIOUS
    <3> QED BY <1>1, <2>2, <3>1 DEF Raised
  <2>3. CASE ~ (s <= st.m) /\ st.m # NegInf
    <3>1. st.num = NaN /\ st.den = NaN
      BY <1>1
    <3>2. \A x : ShrinkNum(NaN, eps, x) = NaN
      BY DEF ShrinkNum
    <3> QED BY <2>3, <3>1, <3>2 DEF Raised
  <2> QED BY <2>1, <2>2, <2>3
<1> HIDE DEF up
<1>4. Poisons(Added(st, s, v, eps))
  BY <1>2, <1>3 DEF Added, up
<1>5. Poisons(Subtracted(st, s, v, eps))
  BY <1>1, <1>2 DEF Subtracted
<1> QED BY <1>4, <1>5

\* An empty memory and one whose scores are all -inf are anchored at -inf, the others above it.
LEMMA AnchorOf ==
  ASSUME IncSet, temp # EpsZero, NEW l, Kept(l), NEW st, Anchored(st, l, Scoring(l), temp)
  PROVE  /\ st.m \in Int /\ NegInf <= st.m /\ (st.m = NegInf <=> Scoring(l) = {})
         /\ st.den \in Int /\ st.num \in Int \cup {NaN}
<1> DEFINE W == Scoring(l)
<1>1. Level(l, W, temp)
  BY KeptFacts
<1> HIDE DEF W
<1>2. CASE W = {}
  BY <1>2, InfinityFacts, NoSums DEF Anchored, W
<1>3. CASE W # {}
  <2>1. /\ TopOf(l, W) \in Int /\ NegInf < TopOf(l, W)
        /\ HasWeights(l, W, TopOf(l, W), temp) /\ IsFiniteSet(W)
    BY <1>1, <1>3, LevelFacts
  <2>2. st.m = TopOf(l, W)
    BY <1>3 DEF Anchored, W
  <2> DEFINE top == TopOf(l, W)
  <2> HIDE DEF top
  <2>3. HasWeights(l, W, top, temp)
    BY <2>1 DEF top
  <2>4. Summable(WeightsAt(l, W, top, temp), W) /\ Summable(TermsAt(l, W, top, temp), W)
    BY <2>1, <2>3, WeighedSummable
  <2>5. ZAt(l, W, top, temp) \in Int /\ UAt(l, W, top, temp) \in Int
    BY <2>4, SumFacts DEF ZAt, UAt
  <2> QED BY <1>3, <2>1, <2>2, <2>5, InfinityFacts DEF Anchored, W, top
<1> QED BY <1>2, <1>3

\* Above eps = 0, a record more.
LEMMA InsertedSoft ==
  ASSUME IncSet, temp # EpsZero, NEW l, Kept(l), NEW st, Keeps(st, l),
         NEW id, id \notin DOMAIN l, NEW k \in Keys, NEW v \in Values
  PROVE  Keeps(Added(st, Score(k), v, temp), With(l, id, [s |-> Score(k), v |-> v]))
<1>0. PICK r : r = [s |-> Score(k), v |-> v]
  OBVIOUS
<1> DEFINE m == With(l, id, r)
           W == Scoring(l)
           s == Score(k)
<1>1. r.s = s /\ r.v = v
  BY <1>0
<1> SUFFICES Keeps(Added(st, s, v, temp), m)
  BY <1>0
<1>2. CASE Poisons(st)
  BY <1>2, PoisonStays DEF Keeps
<1>3. CASE ExactFor(st, l)
  <2>0. Kept(With(l, id, r)) /\ IsWith(With(l, id, r), l, id, r)
    BY <1>0, KeptWith
  <2>1. /\ Kept(m) /\ DOMAIN m = DOMAIN l \cup {id} /\ m[id] = r /\ id \notin W
        /\ \A i \in DOMAIN l : m[i] = l[i]
        /\ Scoring(m) = IF s = NegInf THEN W ELSE W \cup {id}
    BY <1>1, <2>0 DEF IsWith
  <2>2. s \in Int /\ NegInf <= s /\ (s = NegInf => sim = "Indicator")
    BY ScoreFacts
  <2>3. Level(l, W, temp) /\ Level(m, Scoring(m), temp) /\ W \in SUBSET DOMAIN l /\ v \in Int
          /\ temp \in Nat
    BY <1>1, <2>1, KeptFacts DEF Level
  <2>4. Anchored(st, l, W, temp) /\ st.num # NaN
    BY <1>3 DEF ExactFor
  <2>5. Anchored(st, m, W, temp)
    <3>1. \A i \in W : m[i] = l[i]
      BY <2>1, <2>3
    <3> HIDE DEF m, W
    <3> QED BY <2>4, <3>1, SameSums
  <2>6. /\ st.m \in Int /\ NegInf <= st.m /\ (st.m = NegInf <=> W = {})
        /\ st.den \in Int /\ st.num \in Int \cup {NaN}
    BY <2>4, AnchorOf
  <2>7. CASE s # NegInf
    <3>1. Scoring(m) = W \cup {id} /\ Level(m, W \cup {id}, temp) /\ v \in {NaN, m[id].v}
      BY <1>1, <2>1, <2>3, <2>7
    <3>2. v # NaN /\ temp \in Nat /\ m[id].s = s
      BY <1>1, <2>1, <2>3, NotANumber
    <3> HIDE DEF m, W, s
    <3>5. id \notin W /\ Anchored(st, m, W, temp)
      BY <2>1, <2>5
    <3>3. /\ Anchored(Added(st, m[id].s, v, temp), m, W \cup {id}, temp)
          /\ NaNFrom(Added(st, m[id].s, v, temp), st, v)
      BY <3>1, <3>5, AddedExact
    <3>4. ExactFor(Added(st, s, v, temp), m)
      <4>1. temp = EpsInf => Scoring(m) = DOMAIN m
        BY <1>3, <2>1, <3>1 DEF ExactFor, W
      <4>2. Scoring(m) # {}
        BY <3>1
      <4> QED BY <2>4, <3>1, <3>2, <3>3, <4>1, <4>2 DEF ExactFor, NaNFrom
    <3> QED BY <3>4 DEF Keeps, m, s
  <2>8. CASE s = NegInf
    <3>1. Raised(st, s, temp) = st
      BY <2>2, <2>6, <2>8 DEF Raised
    <3>2. Added(st, s, v, temp) = Plus(st, Weight(s, st.m, temp), v)
      BY <3>1 DEF Added
    <3>3. st = [m |-> st.m, num |-> st.num, den |-> st.den]
      BY <2>4 DEF Anchored
    <3>4. CASE st.m = NegInf \/ temp = EpsInf
      <4>1. Weight(s, st.m, temp) = NaN
        BY <2>8, <3>4 DEF Weight
      <4>2. Plus(st, NaN, v) = [m |-> st.m, num |-> NaN, den |-> NaN]
        BY <3>3, PlusNaN
      <4>3. Poisons(Added(st, s, v, temp))
        BY <2>2, <2>8, <3>2, <4>1, <4>2 DEF Poisons
      <4> QED BY <4>3 DEF Keeps
    <3>5. CASE st.m # NegInf /\ temp # EpsInf
      <4>1. Weight(s, st.m, temp) = 0
        BY <2>8, <3>5 DEF Weight
      <4>2. PICK w \in Int : w = 0
        OBVIOUS
      <4>3. Plus(st, w, v) = [m |-> st.m, num |-> IF NaN \in {st.num, v} THEN NaN ELSE st.num + w * v,
                              den |-> st.den + w]
        BY <2>3, <2>6, <3>3, PlusIs
      <4>6. NaN \notin {st.num, v} /\ st.num + w * v = st.num /\ st.den + w = st.den
        BY <2>3, <2>4, <2>6, <4>2, NotANumber
      <4>4. Added(st, s, v, temp) = st
        BY <3>2, <3>3, <4>1, <4>2, <4>3, <4>6
      <4>5. ExactFor(st, m)
        BY <2>1, <2>4, <2>5, <2>6, <2>8, <3>5 DEF ExactFor
      <4> QED BY <4>4, <4>5 DEF Keeps
    <3> QED BY <3>4, <3>5
  <2> QED BY <2>7, <2>8
<1> QED BY <1>2, <1>3 DEF Keeps
\* At eps = 0 a record has the weight of the argmax set or none.
LEMMA SharpBelow ==
  ASSUME NEW top, NEW s
  PROVE  WeightBelow(top, s, EpsZero) = IF s = top THEN One ELSE 0
BY DEF WeightBelow, Sharp

\* The sums at eps = 0 with a record more, whose score may be the new top.
LEMMA SharpOneMore ==
  ASSUME NEW rs, NEW W, NEW i, i \notin W, Scored(rs, W \cup {i}, EpsZero), NEW low,
         (W = {} /\ low = NegInf) \/ (W # {} /\ low = TopOf(rs, W))
  PROVE  /\ TopOf(rs, W \cup {i}) = IF rs[i].s > low THEN rs[i].s ELSE low
         /\ ZAt(rs, W \cup {i}, TopOf(rs, W \cup {i}), EpsZero)
              = (IF rs[i].s > low THEN 0 ELSE ZAt(rs, W, low, EpsZero))
                  + (IF rs[i].s >= low THEN One ELSE 0)
         /\ UAt(rs, W \cup {i}, TopOf(rs, W \cup {i}), EpsZero)
              = (IF rs[i].s > low THEN 0 ELSE UAt(rs, W, low, EpsZero))
                  + (IF rs[i].s >= low THEN One ELSE 0) * rs[i].v
         /\ rs[i].v \in Int /\ rs[i].s \in Int
<1> DEFINE Y   == W \cup {i}
           top == TopOf(rs, Y)
           s   == rs[i].s
<1>1. /\ Y # {} /\ i \in Y /\ W \in SUBSET Y /\ {i} \in SUBSET Y /\ {i} # {}
      /\ EpsZero # EpsInf /\ Scored(rs, Y, EpsZero)
  BY DEF EpsZero, EpsInf
<1>2. Scored(rs, W, EpsZero) /\ Scored(rs, {i}, EpsZero)
  BY <1>1, ScoredSubset
<1>3. /\ top \in Int /\ (\E j \in Y : rs[j].s = top) /\ \A j \in Y : rs[j].s <= top /\ rs[j].s \in Int
  <2> HIDE DEF Y
  <2> QED BY <1>1, TopOfFacts
<1>4. s \in Int /\ rs[i].v \in Int /\ NegInf < s /\ NegInf \in Int /\ IsFiniteSet(W)
  <2>1. s \in NegInf..PosInf /\ s # NegInf /\ rs[i].v \in Int /\ IsFiniteSet(W)
    BY <1>1, <1>2 DEF Scored
  <2> QED BY <2>1, InfinityFacts
<1>5. /\ top = IF s > low THEN s ELSE low
      /\ low \in Int /\ s <= top
      /\ s > low => \A j \in W : rs[j].s # top
  <2>1. CASE W = {}
    <3>1. top = s /\ low = NegInf
      BY <1>3, <2>1
    <3> QED BY <1>4, <2>1, <3>1
  <2>2. CASE W # {}
    <3>1. /\ TopOf(rs, W) \in Int /\ (\E j \in W : rs[j].s = TopOf(rs, W))
          /\ \A j \in W : rs[j].s <= TopOf(rs, W)
      BY <1>1, <1>2, <2>2, TopOfFacts
    <3>2. low = TopOf(rs, W)
      BY <2>2
    <3> HIDE DEF top
    <3>3. s <= top /\ low <= top /\ (top = s \/ top <= low)
      BY <1>1, <1>3, <3>1, <3>2
    <3>4. top = IF s > low THEN s ELSE low
      BY <1>3, <1>4, <3>1, <3>2, <3>3
    <3>5. s > low => \A j \in W : rs[j].s # top
      BY <1>3, <1>4, <3>1, <3>2, <3>4
    <3> QED BY <3>1, <3>2, <3>3, <3>4, <3>5
  <2> QED BY <2>1, <2>2
<1>6. HasWeights(rs, Y, top, EpsZero)
  BY <1>1, WeightsBelow
<1>7. WeightBelow(top, s, EpsZero) = IF s >= low THEN One ELSE 0
  BY <1>4, <1>5, SharpBelow
<1>8. s > low => ZAt(rs, W, top, EpsZero) = 0 /\ UAt(rs, W, top, EpsZero) = 0
  <2>1. Sharp(top, EpsZero)
    BY DEF Sharp
  <2> HIDE DEF top
  <2> QED BY <1>2, <1>5, <2>1, Outweighed
<1> HIDE DEF top
<1>9. /\ ZAt(rs, Y, top, EpsZero) = ZAt(rs, W, top, EpsZero) + WeightBelow(top, rs[i].s, EpsZero)
      /\ UAt(rs, Y, top, EpsZero)
           = UAt(rs, W, top, EpsZero) + WeightBelow(top, rs[i].s, EpsZero) * rs[i].v
  BY <1>4, <1>6, OneMore
<1>10. /\ ZAt(rs, W, top, EpsZero) = IF s > low THEN 0 ELSE ZAt(rs, W, low, EpsZero)
       /\ UAt(rs, W, top, EpsZero) = IF s > low THEN 0 ELSE UAt(rs, W, low, EpsZero)
  BY <1>5, <1>8
<1> QED BY <1>4, <1>5, <1>7, <1>9, <1>10 DEF top

\* The sums at eps = 0 with a record less: where the argmax set has others the top stays.
LEMMA SharpOneLess ==
  ASSUME NEW rs, NEW W, NEW i \in W, Scored(rs, W, EpsZero), NEW top, top = TopOf(rs, W)
  PROVE  /\ ZAt(rs, W \ {i}, top, EpsZero)
              = ZAt(rs, W, top, EpsZero) - (IF rs[i].s = top THEN One ELSE 0)
         /\ UAt(rs, W \ {i}, top, EpsZero)
              = UAt(rs, W, top, EpsZero) - (IF rs[i].s = top THEN One ELSE 0) * rs[i].v
         /\ rs[i].s # top \/ ZAt(rs, W \ {i}, top, EpsZero) # 0
              => W \ {i} # {} /\ TopOf(rs, W \ {i}) = top
         /\ ZAt(rs, W, top, EpsZero) \in Int /\ UAt(rs, W, top, EpsZero) \in Int
<1> DEFINE R == W \ {i}
<1>1. /\ W # {} /\ R \in SUBSET W /\ i \notin R /\ R \cup {i} = W /\ Sharp(top, EpsZero)
      /\ EpsZero # EpsInf
  BY DEF Sharp, EpsZero, EpsInf
<1>2. Scored(rs, R, EpsZero) /\ IsFiniteSet(R) /\ rs[i].v \in Int
  <2>1. Scored(rs, R, EpsZero)
    BY ScoredSubset
  <2> QED BY <2>1 DEF Scored
<1>3. HasWeights(rs, R \cup {i}, top, EpsZero)
  BY <1>1, WeightsBelow
<1>4. /\ top \in Int /\ (\E j \in W : rs[j].s = top) /\ \A j \in W : rs[j].s <= top /\ rs[j].s \in Int
  BY <1>1, TopOfFacts
<1>5. WeightBelow(top, rs[i].s, EpsZero) = IF rs[i].s = top THEN One ELSE 0
  BY SharpBelow
<1> HIDE DEF R
<1>6. /\ ZAt(rs, W, top, EpsZero) = ZAt(rs, R, top, EpsZero) + WeightBelow(top, rs[i].s, EpsZero)
      /\ UAt(rs, W, top, EpsZero)
           = UAt(rs, R, top, EpsZero) + WeightBelow(top, rs[i].s, EpsZero) * rs[i].v
      /\ ZAt(rs, R, top, EpsZero) \in Int /\ UAt(rs, R, top, EpsZero) \in Int
  <2>1. /\ ZAt(rs, R \cup {i}, top, EpsZero)
             = ZAt(rs, R, top, EpsZero) + WeightBelow(top, rs[i].s, EpsZero)
        /\ UAt(rs, R \cup {i}, top, EpsZero)
             = UAt(rs, R, top, EpsZero) + WeightBelow(top, rs[i].s, EpsZero) * rs[i].v
        /\ ZAt(rs, R, top, EpsZero) \in Int /\ UAt(rs, R, top, EpsZero) \in Int
    <3>1. \E j : j = i
      OBVIOUS
    <3>2. PICK j : j = i
      BY <3>1
    <3>3. j \notin R /\ IsFiniteSet(R) /\ HasWeights(rs, R \cup {j}, top, EpsZero)
      BY <1>1, <1>2, <1>3, <3>2
    <3>4. /\ ZAt(rs, R \cup {j}, top, EpsZero)
               = ZAt(rs, R, top, EpsZero) + WeightBelow(top, rs[j].s, EpsZero)
          /\ UAt(rs, R \cup {j}, top, EpsZero)
               = UAt(rs, R, top, EpsZero) + WeightBelow(top, rs[j].s, EpsZero) * rs[j].v
          /\ ZAt(rs, R, top, EpsZero) \in Int /\ UAt(rs, R, top, EpsZero) \in Int
      BY <3>3, OneMore
    <3> QED BY <3>2, <3>4
  <2> QED BY <1>1, <2>1
<1>7. ASSUME rs[i].s # top \/ ZAt(rs, R, top, EpsZero) # 0
      PROVE  R # {} /\ TopOf(rs, R) = top
  <2>1. \E t \in R : rs[t].s = top
    <3>1. CASE rs[i].s # top
      BY <1>1, <1>4, <3>1
    <3>2. CASE ZAt(rs, R, top, EpsZero) # 0
      BY <1>1, <1>2, <3>2, Outweighed
    <3> QED BY <1>7, <3>1, <3>2
  <2>2. /\ TopOf(rs, R) \in Int /\ (\E j \in R : rs[j].s = TopOf(rs, R))
        /\ \A j \in R : rs[j].s <= TopOf(rs, R)
    BY <1>1, <1>2, <2>1, TopOfFacts
  <2>3. top <= TopOf(rs, R) /\ TopOf(rs, R) <= top
    BY <1>1, <1>4, <2>1, <2>2
  <2> QED BY <1>4, <2>1, <2>2, <2>3
<1>8. (IF rs[i].s = top THEN One ELSE 0) \in Int
  BY InfinityFacts
<1>9. \A a, b \in Int : a * b \in Int
  OBVIOUS
<1>10. (IF rs[i].s = top THEN One ELSE 0) * rs[i].v \in Int
  BY <1>2, <1>8, <1>9
<1> QED BY <1>5, <1>6, <1>7, <1>8, <1>10 DEF R
\* One more record of them.
LEMMA CardUp ==
  ASSUME NEW S, IsFiniteSet(S), NEW x, x \notin S
  PROVE  /\ Cardinality(S) \in Nat /\ Cardinality(S \cup {x}) \in Nat
         /\ One * Cardinality(S \cup {x}) = One * Cardinality(S) + One
<1>1. Cardinality(S) \in Nat /\ Cardinality(S \cup {x}) = Cardinality(S) + 1
  BY FS_CardinalityType, FS_AddElement
<1>2. \A a, n \in Nat : a * (n + 1) = a * n + a
  OBVIOUS
<1> QED BY <1>1, <1>2, InfinityFacts

\* At eps = 0, a record more.
LEMMA InsertedSharp ==
  ASSUME IncSet, temp = EpsZero, NEW l, Kept(l), NEW st, Keeps(st, l),
         NEW id, id \notin DOMAIN l, NEW k \in Keys, NEW v \in Values
  PROVE  Keeps(InsertTropical(st, Score(k), v), With(l, id, [s |-> Score(k), v |-> v]))
<1>0. PICK r : r = [s |-> Score(k), v |-> v]
  OBVIOUS
<1> DEFINE m == With(l, id, r)
           W == Scoring(l)
           s == Score(k)
<1> SUFFICES Keeps(InsertTropical(st, s, v), m)
  BY <1>0
<1>1. r.s = s /\ r.v = v
  BY <1>0
<1>2. Kept(With(l, id, r)) /\ IsWith(With(l, id, r), l, id, r)
  BY <1>0, KeptWith
<1>3. /\ Kept(m) /\ DOMAIN m = DOMAIN l \cup {id} /\ m[id] = r /\ id \notin W
      /\ \A i \in DOMAIN l : m[i] = l[i]
      /\ Scoring(m) = IF s = NegInf THEN W ELSE W \cup {id}
  BY <1>1, <1>2 DEF IsWith
<1>4. s \in Int /\ NegInf <= s /\ NegInf \in Int
  BY ScoreFacts, InfinityFacts
<1>5. /\ Scored(l, W, EpsZero) /\ Scored(m, Scoring(m), EpsZero) /\ IsFiniteSet(DOMAIN l)
      /\ W \in SUBSET DOMAIN l
  BY <1>3, KeptFacts
<1>6. Sharpened(st, l) \/ Unmatched(st, l)
  BY DEF Keeps
<1>7. \A i \in W : m[i] = l[i]
  BY <1>3, <1>5
<1> HIDE DEF m, s
<1>8. /\ TopOf(m, W) = TopOf(l, W)
      /\ \A top : ZAt(m, W, top, EpsZero) = ZAt(l, W, top, EpsZero)
                    /\ UAt(m, W, top, EpsZero) = UAt(l, W, top, EpsZero)
  <2> HIDE DEF W
  <2> QED BY <1>7, SameSums
<1>9. CASE s = NegInf
  <2>1. InsertTropical(st, s, v) = st
    BY <1>9 DEF InsertTropical
  <2>2. CASE Sharpened(st, l)
    BY <1>3, <1>8, <1>9, <2>1, <2>2 DEF Sharpened, SumsAt, Keeps
  <2>3. CASE Unmatched(st, l)
    <3>1. One * Cardinality(DOMAIN m) = One * Cardinality(DOMAIN l) + One /\ One \in Nat
            /\ Cardinality(DOMAIN l) \in Nat
      BY <1>3, <1>5, CardUp, InfinityFacts
    <3>2. One * Cardinality(DOMAIN l) \in Nat
      <4>1. \A a, b \in Nat : a * b \in Nat
        OBVIOUS
      <4> QED BY <3>1, <4>1
    <3>3. st.den <= One * Cardinality(DOMAIN m)
      BY <2>3, <3>1, <3>2 DEF Unmatched
    <3> QED BY <1>3, <1>9, <2>1, <2>3, <3>3 DEF Unmatched, Keeps
  <2> QED BY <1>6, <2>2, <2>3
<1>10. CASE s # NegInf
  <2> DEFINE low == st.m
             top == TopOf(m, W \cup {id})
  <2>1. Scoring(m) = W \cup {id} /\ Scored(m, W \cup {id}, EpsZero)
    BY <1>3, <1>5, <1>10
  <2>2. (W = {} /\ low = NegInf) \/ (W # {} /\ low = TopOf(m, W))
    BY <1>6, <1>8 DEF Sharpened, Unmatched, SumsAt
  <2>3. m[id].s = s /\ m[id].v = v
    BY <1>1, <1>3
  <2> HIDE DEF low, W
  <2>4. /\ top = IF m[id].s > low THEN m[id].s ELSE low
        /\ ZAt(m, W \cup {id}, top, EpsZero)
              = (IF m[id].s > low THEN 0 ELSE ZAt(m, W, low, EpsZero))
                  + (IF m[id].s >= low THEN One ELSE 0)
        /\ UAt(m, W \cup {id}, top, EpsZero)
              = (IF m[id].s > low THEN 0 ELSE UAt(m, W, low, EpsZero))
                  + (IF m[id].s >= low THEN One ELSE 0) * m[id].v
        /\ m[id].v \in Int /\ m[id].s \in Int
    BY <1>3, <2>1, <2>2, SharpOneMore
  <2> DEFINE base == IF s > low THEN [EmptySum EXCEPT !.m = s] ELSE st
             w    == IF s >= low THEN One ELSE 0
  <2>5. InsertTropical(st, s, v) = Plus(base, w, v)
    BY <1>10 DEF InsertTropical, low
  <2>6. low \in Int /\ (~ (s > low) => W # {})
    <3>1. W # {} => TopOf(m, W) \in Int
      <4>1. W \in SUBSET (W \cup {id}) /\ EpsZero # EpsInf
        BY DEF EpsZero, EpsInf
      <4>2. Scored(m, W, EpsZero)
        BY <2>1, <4>1, ScoredSubset
      <4> QED BY <4>2, TopOfFacts
    <3> QED BY <1>4, <1>10, <2>2, <3>1
  <2>7. base = [m   |-> top,
                num |-> IF s > low THEN 0 ELSE UAt(m, W, low, EpsZero),
                den |-> IF s > low THEN 0 ELSE ZAt(m, W, low, EpsZero)]
    <3>1. CASE s > low
      <4>1. [EmptySum EXCEPT !.m = s] = [m |-> s, num |-> 0, den |-> 0]
        BY DEF EmptySum
      <4> QED BY <2>3, <2>4, <3>1, <4>1
    <3>2. CASE ~ (s > low)
      <4>1. Sharpened(st, l)
        BY <1>6, <2>6, <3>2 DEF Unmatched, W
      <4>2. st = SumsAt(m, W, low, EpsZero)
        BY <1>8, <4>1 DEF Sharpened, SumsAt, low, W
      <4> QED BY <2>3, <2>4, <3>2, <4>2 DEF SumsAt
    <3> QED BY <3>1, <3>2
  <2>8. base.num \in Int /\ base.den \in Int
    <3>1. CASE s > low
      BY <2>7, <3>1
    <3>2. CASE ~ (s > low)
      <4>1. W # {} /\ Scored(m, W, EpsZero) /\ low = TopOf(m, W)
        <5>1. W \in SUBSET (W \cup {id})
          OBVIOUS
        <5> QED BY <2>1, <2>2, <2>6, <3>2, <5>1, ScoredSubset
      <4>2. ZAt(m, W, low, EpsZero) \in Nat /\ UAt(m, W, low, EpsZero) \in Int
        BY <4>1, AccFacts
      <4> QED BY <2>7, <3>2, <4>2
    <3> QED BY <3>1, <3>2
  <2>9. base = [m |-> base.m, num |-> base.num, den |-> base.den] /\ base.m = top
    BY <2>7
  <2>10. w \in Int /\ v \in Int \cup {NaN} /\ v \in Int
    BY <2>3, <2>4, InfinityFacts
  <2>11. NaN \notin {base.num, v}
    BY <2>8, <2>10, NotANumber
  <2> HIDE DEF base, w
  <2>12. Plus(base, w, v) = [m   |-> base.m,
                             num |-> IF NaN \in {base.num, v} THEN NaN ELSE base.num + w * v,
                             den |-> base.den + w]
    BY <2>8, <2>9, <2>10, PlusIs
  <2>13. /\ base.num + w * v = UAt(m, W \cup {id}, top, EpsZero)
         /\ base.den + w = ZAt(m, W \cup {id}, top, EpsZero)
    BY <2>3, <2>4, <2>7 DEF w
  <2>14. Plus(base, w, v) = SumsAt(m, W \cup {id}, top, EpsZero)
    BY <2>9, <2>11, <2>12, <2>13 DEF SumsAt
  <2> QED BY <2>1, <2>5, <2>14 DEF Keeps, Sharpened
<1> QED BY <1>9, <1>10

(***************************************************************************)
(* Summing again.                                                          *)
(***************************************************************************)

\* No record at all is the empty sequence.
LEMMA NoRecords == ASSUME NEW l, Kept(l) PROVE l = << >> <=> DOMAIN l = {}
<1>1. << >> = [i \in {} |-> l[i]]
  OBVIOUS
<1>2. l = [i \in DOMAIN l |-> l[i]]
  BY DEF Kept
<1> QED BY <1>1, <1>2

\* The max that summing again finds.
LEMMA TopLiveIs ==
  ASSUME IncSet, NEW l, Kept(l)
  PROVE  TopLive(l) = IF Scoring(l) = {} THEN NegInf ELSE TopOf(l, Scoring(l))
<1> DEFINE S == {l[i].s : i \in DOMAIN l}
           W == Scoring(l)
<1>1. /\ S \in SUBSET (NegInf..PosInf) /\ W \in SUBSET DOMAIN l /\ NegInf \in Int
      /\ \A i \in DOMAIN l : l[i].s \in Int /\ NegInf <= l[i].s
      /\ \A i \in DOMAIN l \ W : l[i].s = NegInf
  <2>1. \A i \in DOMAIN l : l[i].s \in NegInf..PosInf /\ l[i].s \in Int /\ NegInf <= l[i].s
    BY KeptFacts
  <2>2. W \in SUBSET DOMAIN l /\ \A i \in DOMAIN l \ W : l[i].s = NegInf
    BY DEF Scoring
  <2> QED BY <2>1, <2>2, InfinityFacts
<1>2. CASE DOMAIN l = {}
  BY <1>1, <1>2, NoRecords DEF TopLive
<1>3. CASE DOMAIN l # {} /\ W = {}
  <2>1. S = {NegInf}
    BY <1>1, <1>3
  <2>2. TopScore(S) = NegInf
    <3> HIDE DEF S
    <3>1. NegInf \in S /\ \A t \in S : t <= NegInf
      BY <1>1, <2>1
    <3> QED BY <1>1, <3>1, TopIs
  <2> QED BY <1>3, <2>2, NoRecords DEF TopLive
<1>4. CASE W # {}
  <2>1. /\ TopOf(l, W) \in Int /\ (\E i \in W : l[i].s = TopOf(l, W))
        /\ \A i \in W : l[i].s <= TopOf(l, W)
    <3>1. Scored(l, W, temp)
      BY KeptFacts
    <3> HIDE DEF W
    <3> QED BY <1>4, <3>1, TopOfFacts
  <2> DEFINE top == TopOf(l, W)
  <2>2. NegInf <= top
    BY <1>1, <2>1
  <2> HIDE DEF top
  <2>3. top \in S /\ \A i \in DOMAIN l : l[i].s <= top
    <3>1. \A i \in DOMAIN l : i \in W \/ l[i].s = NegInf
      BY <1>1
    <3> HIDE DEF W
    <3> QED BY <1>1, <2>1, <2>2, <3>1 DEF top
  <2>4. TopScore(S) = top
    <3>1. top \in S /\ \A t \in S : t <= top
      BY <2>3
    <3> HIDE DEF S
    <3> QED BY <1>1, <3>1, TopIs
  <2>5. l # << >>
    BY <1>1, <1>4, NoRecords
  <2> QED BY <1>4, <2>4, <2>5 DEF TopLive, top
<1> QED BY <1>2, <1>3, <1>4

\* The weights it gives, which are NaN for a score of -inf where that is the max, or at eps = inf.
LEMMA CountsAre ==
  ASSUME IncSet, NEW l, Kept(l), NEW top, top = TopLive(l)
  PROVE  /\ \A i \in DOMAIN l : Counts(l)[i] \in Int \cup {NaN}
         /\ temp = EpsZero => \A i \in DOMAIN l : Counts(l)[i] = IF l[i].s = top THEN One ELSE 0
         /\ \A i \in Scoring(l) : Counts(l)[i] = WeightBelow(top, l[i].s, temp)
         /\ temp # EpsZero =>
              \A i \in DOMAIN l \ Scoring(l) :
                Counts(l)[i] = IF top = NegInf \/ temp = EpsInf THEN NaN ELSE 0
<1> DEFINE W == Scoring(l)
<1>0. /\ W \in SUBSET DOMAIN l /\ \A i \in DOMAIN l \ W : l[i].s = NegInf
      /\ \A i \in DOMAIN l : Counts(l)[i] = CountedAt(l[i].s, top)
  BY DEF Scoring, Counts
<1>1. W # {} => top = TopOf(l, W)
  BY TopLiveIs
<1>2. CASE temp = EpsZero
  <2>1. \A i \in DOMAIN l : Counts(l)[i] = IF l[i].s = top THEN One ELSE 0
    BY <1>0, <1>2 DEF CountedAt
  <2>2. \A i \in DOMAIN l : Counts(l)[i] \in Int
    BY <2>1, InfinityFacts
  <2>3. \A i \in W : Counts(l)[i] = WeightBelow(top, l[i].s, temp)
    BY <1>0, <1>2, <2>1, SharpBelow
  <2> QED BY <1>2, <2>1, <2>2, <2>3
<1>3. CASE temp # EpsZero
  <2>1. Level(l, W, temp)
    BY <1>3, KeptFacts
  <2>2. ASSUME NEW i \in W
        PROVE  Counts(l)[i] = WeightBelow(top, l[i].s, temp) /\ Counts(l)[i] \in Int
    <3> HIDE DEF W
    <3>1. /\ TopOf(l, W) \in Int /\ TopOf(l, W) < PosInf
          /\ HasWeights(l, W, TopOf(l, W), temp)
      BY <2>1, LevelFacts
    <3>2. l[i].s \in Int /\ NegInf < l[i].s /\ temp \in Nat
      <4>1. temp \in Nat /\ Finite(l[i].s) /\ l[i].s \in NegInf..PosInf
        BY <2>1 DEF Level, Scored
      <4> QED BY <4>1, InfinityFacts DEF Finite
    <3>3. top = TopOf(l, W)
      BY <1>1
    <3>4. Weight(l[i].s, top, temp) = WeightBelow(top, l[i].s, temp)
      BY <3>1, <3>2, <3>3, WeightIs
    <3>5. WeightBelow(top, l[i].s, temp) \in Nat
      BY <3>1, <3>3 DEF HasWeights
    <3> QED BY <1>0, <1>3, <3>4, <3>5 DEF CountedAt
  <2>3. ASSUME NEW i \in DOMAIN l \ W
        PROVE  Counts(l)[i] = IF top = NegInf \/ temp = EpsInf THEN NaN ELSE 0
    BY <1>0, <1>3 DEF CountedAt, Weight
  <2>4. \A i \in DOMAIN l : Counts(l)[i] \in Int \cup {NaN}
    BY <2>2, <2>3
  <2> QED BY <1>3, <2>2, <2>3, <2>4
<1> QED BY <1>2, <1>3

\* Records without a weight do not change the sums.
LEMMA CountsSum ==
  ASSUME NEW l, NEW K, IsFiniteSet(K), NEW W \in SUBSET K, NEW top, NEW eps, NEW w,
         HasWeights(l, W, top, eps), \A i \in K : l[i].v \in Int,
         \A i \in W : w[i] = WeightBelow(top, l[i].s, eps), \A i \in K \ W : w[i] = 0
  PROVE  SummedUp(l, K, w, top) = SumsAt(l, W, top, eps)
<1> DEFINE fw == [i \in K |-> w[i]]
           fu == [i \in K |-> w[i] * l[i].v]
<1>1. \A i \in K : w[i] \in Int /\ l[i].v \in Int
  BY DEF HasWeights
<1>2. \A a, b \in Int : a * b \in Int /\ 0 * a = 0
  OBVIOUS
<1>3. Summable(fw, K) /\ Summable(fu, K)
  BY <1>1, <1>2 DEF Summable
<1>4. /\ \A i \in K \ W : fw[i] = 0
      /\ \A i \in K \ W : fu[i] = 0
  BY <1>1, <1>2
<1>5. /\ \A i \in W : WeightsAt(l, W, top, eps)[i] = fw[i]
      /\ \A i \in W : TermsAt(l, W, top, eps)[i] = fu[i]
  BY DEF WeightsAt, TermsAt
<1>6. SummedUp(l, K, w, top)
        = [m |-> top, num |-> SumFunctionOnSet(fu, K), den |-> SumFunctionOnSet(fw, K)]
  <2>1. \A i \in K : w[i] # NaN
    BY <1>1, NotANumber
  <2> QED BY <2>1 DEF SummedUp
<1> HIDE DEF fw, fu
<1>7. /\ SumFunctionOnSet(fw, W) = SumFunctionOnSet(fw, K)
      /\ SumFunctionOnSet(fu, W) = SumFunctionOnSet(fu, K)
  BY <1>3, <1>4, SumDropZero
<1>8. Summable(fw, W) /\ Summable(fu, W)
  BY <1>3, SummableSubset
<1>9. /\ SumFunctionOnSet(WeightsAt(l, W, top, eps), W) = SumFunctionOnSet(fw, W)
      /\ SumFunctionOnSet(TermsAt(l, W, top, eps), W) = SumFunctionOnSet(fu, W)
  BY <1>5, <1>8, SumCong
<1> QED BY <1>6, <1>7, <1>9 DEF SumsAt, ZAt, UAt
\* Summing again keeps the invariant, whatever the sums were.
LEMMA RecomputedKeeps ==
  ASSUME IncSet, NEW l, Kept(l)
  PROVE  Keeps(Recomputed(l), l)
<1> DEFINE D   == DOMAIN l
           W   == Scoring(l)
           top == TopLive(l)
           w   == Counts(l)
<1>1. /\ IsFiniteSet(D) /\ W \in SUBSET D /\ (\A i \in D : l[i].v \in Int)
      /\ (\A i \in D : l[i].s = NegInf => sim = "Indicator")
      /\ Scored(l, W, temp) /\ (temp # EpsZero => Level(l, W, temp))
      /\ \A i \in D \ W : l[i].s = NegInf
  <2>1. \A i \in D \ W : l[i].s = NegInf
    BY DEF Scoring
  <2> QED BY <2>1, KeptFacts
<1>2. /\ \A i \in D : w[i] \in Int \cup {NaN}
      /\ temp = EpsZero => \A i \in D : w[i] = IF l[i].s = top THEN One ELSE 0
      /\ \A i \in W : w[i] = WeightBelow(top, l[i].s, temp)
      /\ temp # EpsZero =>
           \A i \in D \ W : w[i] = IF top = NegInf \/ temp = EpsInf THEN NaN ELSE 0
  BY CountsAre
<1>3. Recomputed(l) = SummedUp(l, D, w, top)
  BY <1>1, <1>2, RecomputedIs
<1>4. top = IF W = {} THEN NegInf ELSE TopOf(l, W)
  BY TopLiveIs
<1>5. W # {} => top # NegInf /\ HasWeights(l, W, top, temp)
  <2> HIDE DEF top
  <2>1. W # {} => HasWeights(l, W, TopOf(l, W), temp)
    BY <1>1, WeightsBelow
  <2>2. CASE temp # EpsInf
    <3>1. W # {} => TopOf(l, W) # NegInf
      <4> HIDE DEF W
      <4> QED BY <1>1, <2>2, TopOfFacts
    <3> QED BY <1>4, <2>1, <3>1
  <2>3. CASE temp = EpsInf
    <3>1. Level(l, W, temp)
      BY <1>1, <2>3 DEF EpsInf, EpsZero
    <3>2. W # {} => NegInf < TopOf(l, W) /\ TopOf(l, W) \in Int
      <4> HIDE DEF W
      <4> QED BY <3>1, LevelFacts
    <3>3. W # {} => TopOf(l, W) # NegInf
      BY <3>2, InfinityFacts
    <3> QED BY <1>4, <2>1, <3>3
  <2> QED BY <2>2, <2>3
<1>6. SumsAt(l, W, top, temp) = [m |-> top, num |-> UAt(l, W, top, temp), den |-> ZAt(l, W, top, temp)]
  BY DEF SumsAt
<1> HIDE DEF D, W, top, w
<1>7. CASE \E i \in D : w[i] = NaN
  <2>1. temp # EpsZero
    BY <1>1, <1>2, <1>7, NotANumber, InfinityFacts
  <2>2. PICK i \in D : w[i] = NaN
    BY <1>7
  <2>3. i \notin W
    <3>1. i \in W => WeightBelow(top, l[i].s, temp) \in Int
      BY <1>5 DEF HasWeights
    <3> QED BY <1>2, <2>2, <3>1, NotANumber
  <2>4. sim = "Indicator"
    BY <1>1, <2>2, <2>3
  <2>5. SummedUp(l, D, w, top) = [m |-> top, num |-> NaN, den |-> NaN]
    BY <1>7 DEF SummedUp
  <2>6. Poisons(SummedUp(l, D, w, top))
    BY <2>4, <2>5 DEF Poisons
  <2> QED BY <1>3, <2>1, <2>6 DEF Keeps
<1>8. CASE (\A i \in D : w[i] # NaN) /\ temp # EpsZero
  <2>1. \A i \in D \ W : w[i] = 0
    BY <1>2, <1>8
  <2>2. W = {} => top = NegInf /\ D = {}
    <3>1. W = {} => top = NegInf
      BY <1>4
    <3> QED BY <1>2, <1>8, <3>1
  <2>3. temp = EpsInf => D = W
    BY <1>1, <1>2, <1>8
  <2>4. HasWeights(l, W, top, temp)
    BY <1>5 DEF HasWeights
  <2>5. SummedUp(l, D, w, top) = SumsAt(l, W, top, temp)
    BY <1>1, <1>2, <2>1, <2>4, CountsSum
  <2>6. AnchoredAt(SumsAt(l, W, top, temp), l, W, top, temp)
    BY <1>6 DEF AnchoredAt
  <2>7. Anchored(SumsAt(l, W, top, temp), l, W, temp)
    BY <1>4, <2>6, AnchoredAtTop
  <2>8. UAt(l, W, top, temp) # NaN
    <3>1. IsFiniteSet(W)
      BY <1>1, FS_Subset
    <3>2. Summable(TermsAt(l, W, top, temp), W)
      BY <2>4, <3>1, WeighedSummable
    <3>3. UAt(l, W, top, temp) \in Int
      BY <3>2, SumFacts DEF UAt
    <3> QED BY <3>3, NotANumber
  <2>9. SumsAt(l, W, top, temp).num # NaN
    BY <1>6, <2>8
  <2>10. ExactFor(SumsAt(l, W, top, temp), l)
    BY <2>2, <2>3, <2>7, <2>9 DEF ExactFor, D, W
  <2> QED BY <1>3, <1>8, <2>5, <2>10 DEF Keeps
<1>9. CASE temp = EpsZero /\ W # {}
  <2>1. \A i \in D \ W : w[i] = 0
    BY <1>1, <1>2, <1>5, <1>9
  <2>2. SummedUp(l, D, w, top) = SumsAt(l, W, top, temp)
    BY <1>1, <1>2, <1>5, <1>9, <2>1, CountsSum
  <2> QED BY <1>3, <1>4, <1>9, <2>2 DEF Keeps, Sharpened, W
<1>10. CASE temp = EpsZero /\ W = {}
  <2>1. top = NegInf /\ \A i \in D : w[i] = One
    BY <1>1, <1>2, <1>4, <1>10
  <2> DEFINE fw == [i \in D |-> w[i]]
             fu == [i \in D |-> w[i] * l[i].v]
             f1 == [i \in D |-> 1]
  <2>2. SummedUp(l, D, w, top)
          = [m |-> top, num |-> SumFunctionOnSet(fu, D), den |-> SumFunctionOnSet(fw, D)]
    <3>1. \A i \in D : w[i] # NaN
      BY <2>1, NotANumber, InfinityFacts
    <3> QED BY <3>1 DEF SummedUp
  <2>3. Summable(fu, D) /\ Summable(f1, D) /\ SumFunctionOnSet(f1, D) = Cardinality(D)
    <3>1. Summable(fu, D)
      <4>1. \A a, b \in Int : a * b \in Int
        OBVIOUS
      <4> QED BY <1>1, <2>1, <4>1, InfinityFacts DEF Summable
    <3>2. \A i \in D : f1[i] = 1
      OBVIOUS
    <3> HIDE DEF f1
    <3> QED BY <1>1, <3>1, <3>2, SumOfOnes DEF Summable
  <2>4. \A i \in D : fw[i] = One * f1[i]
    BY <2>1, InfinityFacts
  <2>5. SumFunctionOnSet(fw, D) = One * Cardinality(D)
    <3> HIDE DEF fw, f1
    <3>1. One \in Int
      BY InfinityFacts
    <3> QED BY <2>3, <2>4, <3>1, SumScale
  <2>6. SumFunctionOnSet(fu, D) \in Int /\ One * Cardinality(D) \in Int
    <3>1. Cardinality(D) \in Nat /\ One \in Nat
      BY <1>1, FS_CardinalityType, InfinityFacts
    <3>2. \A a, b \in Nat : a * b \in Int
      OBVIOUS
    <3> HIDE DEF fu
    <3> QED BY <2>3, <3>1, <3>2, SumFacts
  <2> DEFINE nn == SumFunctionOnSet(fu, D)
  <2> HIDE DEF fu, fw, nn
  <2>7. SummedUp(l, D, w, top) = [m |-> NegInf, num |-> nn, den |-> One * Cardinality(D)]
    BY <2>1, <2>2, <2>5 DEF nn
  <2>8. Unmatched(SummedUp(l, D, w, top), l)
    <3> DEFINE st == SummedUp(l, D, w, top)
    <3>1. st = [m |-> NegInf, num |-> st.num, den |-> st.den] /\ st.num = nn
            /\ st.den = One * Cardinality(D)
      BY <2>7
    <3> HIDE DEF st
    <3>2. st.num \in Int /\ st.den \in Int /\ st.den <= One * Cardinality(D)
      BY <2>6, <3>1 DEF nn
    <3> QED BY <1>10, <3>1, <3>2 DEF Unmatched, st, W, D
  <2> QED BY <1>3, <1>10, <2>8 DEF Keeps
<1> QED BY <1>7, <1>8, <1>9, <1>10
(***************************************************************************)
(* Deleting.                                                               *)
(***************************************************************************)

\* Above eps = 0, a record less.
LEMMA DeletedSoft ==
  ASSUME IncSet, temp # EpsZero, NEW l, Kept(l), NEW st, Keeps(st, l), NEW id \in DOMAIN l
  PROVE  Keeps(Deleted(st, l[id], Without(l, id)), Without(l, id))
<1> DEFINE m == Without(l, id)
           W == Scoring(l)
           s == l[id].s
           v == l[id].v
<1>1. /\ Kept(m) /\ DOMAIN m = DOMAIN l \ {id} /\ Scoring(m) = W \ {id}
      /\ \A i \in DOMAIN l \ {id} : m[i] = l[i]
  BY KeptWithout
<1>2. /\ Level(l, W, temp) /\ W \in SUBSET DOMAIN l /\ s \in Int /\ v \in Int /\ NegInf <= s
      /\ NegInf \in Int /\ temp \in Nat
  BY KeptFacts, InfinityFacts DEF Level
<1>3. Keeps(Recomputed(m), m)
  BY <1>1, RecomputedKeeps
<1>4. Deleted(st, l[id], m) = IF Anchors(st, s) THEN Recomputed(m) ELSE Subtracted(st, s, v, temp)
  BY DEF Deleted
<1>5. ASSUME ~ Anchors(st, s), Poisons(st)
      PROVE  Keeps(Subtracted(st, s, v, temp), m)
  BY <1>5, PoisonStays DEF Keeps
<1>6. ASSUME ~ Anchors(st, s), ExactFor(st, l)
      PROVE  Keeps(Subtracted(st, s, v, temp), m)
  <2>1. Anchored(st, l, W, temp) /\ st.num # NaN /\ (temp = EpsInf => W = DOMAIN l)
    BY <1>6 DEF ExactFor
  <2>2. /\ st.m \in Int /\ NegInf <= st.m /\ (st.m = NegInf <=> W = {})
        /\ st.den \in Int /\ st.num \in Int \cup {NaN}
    BY <2>1, AnchorOf
  <2>3. ~ (s >= st.m)
    BY <1>6 DEF Anchors
  <2>4. CASE s # NegInf
    <3>1. id \in W
      BY <2>4 DEF Scoring
    <3>2. /\ Anchored(Subtracted(st, s, v, temp), l, W \ {id}, temp)
          /\ NaNFrom(Subtracted(st, s, v, temp), st, v) /\ W \ {id} # {}
      <4>1. v \in {NaN, l[id].v}
        OBVIOUS
      <4> HIDE DEF W
      <4>2. TakenOff(Subtracted(st, s, v, temp), st, l, W, id, v, temp)
        BY <1>2, <1>6, <2>1, <3>1, <4>1, SubtractedExact
      <4> QED BY <4>2 DEF TakenOff
    <3> DEFINE R == W \ {id}
               n == Subtracted(st, s, v, temp)
    <3>3. Anchored(n, l, R, temp) /\ Scoring(m) = R /\ R # {} /\ \A i \in R : m[i] = l[i]
      BY <1>1, <1>2, <3>2
    <3>4. n.num # NaN
      BY <1>2, <2>1, <3>2, NotANumber DEF NaNFrom
    <3>5. temp = EpsInf => Scoring(m) = DOMAIN m
      BY <1>1, <2>1
    <3> HIDE DEF R, n, m
    <3>6. Anchored(n, m, R, temp)
      BY <3>3, SameSums
    <3>7. ExactFor(n, m)
      BY <3>3, <3>4, <3>5, <3>6 DEF ExactFor
    <3> QED BY <3>7 DEF Keeps, n
  <2>5. CASE s = NegInf
    <3>1. id \notin W /\ Scoring(m) = W
      BY <1>1, <2>5 DEF Scoring
    <3>2. temp # EpsInf /\ st.m # NegInf /\ W # {}
      BY <1>2, <2>1, <2>2, <2>3, <2>5, <3>1
    <3>3. Weight(s, st.m, temp) = 0
      BY <2>5, <3>2 DEF Weight
    <3>4. PICK w \in Int : w = 0 /\ w = -0
      OBVIOUS
    <3>5. Subtracted(st, s, v, temp) = Plus(st, w, v)
      <4>1. 0 # NaN
        BY NotANumber
      <4> QED BY <3>3, <3>4, <4>1 DEF Subtracted
    <3>6. st = [m |-> st.m, num |-> st.num, den |-> st.den]
      BY <2>1 DEF Anchored
    <3>7. Plus(st, w, v) = [m |-> st.m, num |-> IF NaN \in {st.num, v} THEN NaN ELSE st.num + w * v,
                            den |-> st.den + w]
      BY <1>2, <2>2, <3>6, PlusIs
    <3>8. NaN \notin {st.num, v} /\ st.num + w * v = st.num /\ st.den + w = st.den
      BY <1>2, <2>1, <2>2, <3>4, NotANumber
    <3>9. Subtracted(st, s, v, temp) = st
      BY <3>5, <3>6, <3>7, <3>8
    <3>10. \A i \in W : m[i] = l[i]
      BY <1>1, <1>2, <3>1
    <3>11. Anchored(st, m, W, temp)
      <4> HIDE DEF m, W
      <4> QED BY <2>1, <3>10, SameSums
    <3>12. ExactFor(st, m)
      BY <2>1, <3>1, <3>2, <3>11 DEF ExactFor
    <3> QED BY <3>9, <3>12 DEF Keeps
  <2> QED BY <2>4, <2>5
<1>7. Poisons(st) \/ ExactFor(st, l)
  BY DEF Keeps
<1> HIDE DEF m, s, v
<1> QED BY <1>3, <1>4, <1>5, <1>6, <1>7 DEF m

\* At eps = 0, a record less.
LEMMA DeletedSharp ==
  ASSUME IncSet, temp = EpsZero, NEW l, Kept(l), NEW st, Keeps(st, l), NEW id \in DOMAIN l
  PROVE  Keeps(Deleted(st, l[id], Without(l, id)), Without(l, id))
<1> DEFINE m == Without(l, id)
           W == Scoring(l)
           s == l[id].s
           v == l[id].v
           less == Plus(st, -One, v)
<1>1. /\ Kept(m) /\ DOMAIN m = DOMAIN l \ {id} /\ Scoring(m) = W \ {id}
      /\ \A i \in DOMAIN l \ {id} : m[i] = l[i]
  BY KeptWithout
<1>2. /\ Scored(l, W, EpsZero) /\ W \in SUBSET DOMAIN l /\ s \in Int /\ v \in Int /\ NegInf <= s
      /\ NegInf \in Int /\ IsFiniteSet(DOMAIN l) /\ One \in Nat
      /\ EpsZero # EpsInf
  BY KeptFacts, InfinityFacts DEF EpsZero, EpsInf
<1>3. Keeps(Recomputed(m), m)
  BY <1>1, RecomputedKeeps
<1>4. Deleted(st, l[id], m) = IF s # st.m THEN st ELSE IF less.den = 0 THEN Recomputed(m) ELSE less
  BY DEF Deleted
<1>5. Sharpened(st, l) \/ Unmatched(st, l)
  BY DEF Keeps
<1>6. CASE Sharpened(st, l)
  <2> DEFINE R   == W \ {id}
             top == TopOf(l, W)
             w   == IF s = top THEN One ELSE 0
  <2>1. W # {} /\ st = SumsAt(l, W, top, EpsZero) /\ st.m = top
    BY <1>6 DEF Sharpened, SumsAt
  <2>2. top # NegInf
    <3> HIDE DEF W
    <3> QED BY <1>2, <2>1, TopOfFacts
  <2>3. \A i \in R : m[i] = l[i]
    BY <1>1, <1>2
  <2>4. /\ \A t : SumsAt(m, R, t, EpsZero) = SumsAt(l, R, t, EpsZero)
        /\ TopOf(m, R) = TopOf(l, R)
    <3> HIDE DEF m, R
    <3> QED BY <2>3, SameSums DEF SumsAt
  <2>5. CASE s = NegInf
    <3>1. R = W
      BY <2>5 DEF Scoring
    <3> QED BY <1>1, <1>4, <2>1, <2>2, <2>4, <2>5, <3>1 DEF Keeps, Sharpened
  <2>6. CASE s # NegInf
    <3>1. id \in W
      BY <2>6 DEF Scoring
    <3>2. /\ ZAt(l, R, top, EpsZero) = ZAt(l, W, top, EpsZero) - w
          /\ UAt(l, R, top, EpsZero) = UAt(l, W, top, EpsZero) - w * v
          /\ s # top \/ ZAt(l, R, top, EpsZero) # 0 => R # {} /\ TopOf(l, R) = top
          /\ ZAt(l, W, top, EpsZero) \in Int /\ UAt(l, W, top, EpsZero) \in Int
      <4> HIDE DEF W
      <4> QED BY <1>2, <3>1, SharpOneLess
    <3> HIDE DEF R, top, m
    <3>3. st = [m |-> top, num |-> UAt(l, W, top, EpsZero), den |-> ZAt(l, W, top, EpsZero)]
      BY <2>1 DEF SumsAt
    <3>4. CASE s # st.m
      <4>1. s # top /\ w = 0
        BY <2>1, <3>4
      <4>2. 0 * v = 0
        BY <1>2
      <4>3. SumsAt(l, R, top, EpsZero) = st
        BY <3>2, <3>3, <4>1, <4>2 DEF SumsAt
      <4> QED BY <1>1, <1>4, <2>4, <3>2, <3>4, <4>1, <4>3
           DEF Keeps, Sharpened, R, m
    <3>5. CASE s = st.m
      <4>1. w = One /\ -One \in Int
        BY <1>2, <2>1, <3>5
      <4>2. less = [m |-> top, num |-> IF NaN \in {st.num, v} THEN NaN ELSE st.num + (-One) * v,
                    den |-> st.den + (-One)]
        <5>1. /\ st = [m |-> st.m, num |-> st.num, den |-> st.den] /\ st.m = top
              /\ st.num \in Int \cup {NaN} /\ st.den \in Int /\ v \in Int \cup {NaN}
          BY <1>2, <3>2, <3>3
        <5> QED BY <4>1, <5>1, PlusIs
      <4>3. /\ NaN \notin {st.num, v} /\ st.num + (-One) * v = UAt(l, R, top, EpsZero)
            /\ st.den + (-One) = ZAt(l, R, top, EpsZero)
        <5>1. \A a, b \in Int : (-a) * b = -(a * b) /\ a * b \in Int
          OBVIOUS
        <5>2. One * v \in Int /\ (-One) * v = -(One * v)
          BY <1>2, <5>1
        <5>3. st.num \in Int /\ st.num = UAt(l, W, top, EpsZero) /\ st.den = ZAt(l, W, top, EpsZero)
          BY <3>2, <3>3
        <5>4. NaN \notin {st.num, v}
          BY <1>2, <5>3, NotANumber
        <5> QED BY <1>2, <3>2, <4>1, <5>2, <5>3, <5>4
      <4>4. less = SumsAt(l, R, top, EpsZero) /\ less.den = ZAt(l, R, top, EpsZero)
        BY <4>2, <4>3 DEF SumsAt
      <4> HIDE DEF less
      <4>5. CASE less.den = 0
        BY <1>3, <1>4, <3>5, <4>5 DEF m
      <4>6. CASE less.den # 0
        BY <1>1, <1>4, <2>4, <3>2, <3>5, <4>4, <4>6 DEF Keeps, Sharpened, R, m
      <4> QED BY <4>5, <4>6
    <3> QED BY <3>4, <3>5
  <2> QED BY <2>5, <2>6
<1>7. CASE Unmatched(st, l)
  <2>1. /\ W = {} /\ st = [m |-> NegInf, num |-> st.num, den |-> st.den] /\ st.m = NegInf
        /\ st.num \in Int /\ st.den \in Int /\ st.den <= One * Cardinality(DOMAIN l)
    BY <1>7 DEF Unmatched
  <2>2. s = NegInf /\ s = st.m /\ Scoring(m) = {}
    BY <1>1, <2>1 DEF Scoring
  <2>3. less = [m |-> NegInf, num |-> IF NaN \in {st.num, v} THEN NaN ELSE st.num + (-One) * v,
                den |-> st.den + (-One)]
    <3>1. -One \in Int /\ st.num \in Int \cup {NaN} /\ v \in Int \cup {NaN}
      BY <1>2, <2>1
    <3> QED BY <2>1, <3>1, PlusIs
  <2>4. NaN \notin {st.num, v} /\ st.num + (-One) * v \in Int
    <3>1. \A a, b \in Int : (-a) * b \in Int
      OBVIOUS
    <3>2. (-One) * v \in Int
      BY <1>2, <3>1
    <3> QED BY <1>2, <2>1, <3>2, NotANumber
  <2>5. less = [m |-> NegInf, num |-> less.num, den |-> less.den] /\ less.num \in Int
          /\ less.den = st.den - One
    BY <1>2, <2>1, <2>3, <2>4
  <2>6. /\ Cardinality(DOMAIN m) \in Nat
        /\ One * Cardinality(DOMAIN l) = One * Cardinality(DOMAIN m) + One
    <3> DEFINE M == DOMAIN m
    <3>1. IsFiniteSet(M) /\ id \notin M /\ DOMAIN l = M \cup {id}
      BY <1>1, <1>2, FS_Subset
    <3> HIDE DEF M
    <3>2. Cardinality(M) \in Nat /\ One * Cardinality(M \cup {id}) = One * Cardinality(M) + One
      BY <3>1, CardUp
    <3> QED BY <3>1, <3>2 DEF M
  <2>7. One * Cardinality(DOMAIN m) \in Int
    <3>1. \A a, b \in Nat : a * b \in Int
      OBVIOUS
    <3> QED BY <1>2, <2>6, <3>1
  <2> HIDE DEF less, m
  <2>8. less.den \in Int /\ less.den <= One * Cardinality(DOMAIN m)
    BY <1>2, <2>1, <2>5, <2>6, <2>7
  <2>9. Unmatched(less, m)
    BY <2>2, <2>5, <2>8 DEF Unmatched
  <2> QED BY <1>3, <1>4, <2>2, <2>9 DEF Keeps, m
<1> QED BY <1>5, <1>6, <1>7
(***************************************************************************)
(* The invariant is one, and says what the answer is.                      *)
(***************************************************************************)

\* One insert and one delete of a record.
LEMMA InsertedKeeps ==
  ASSUME IncSet, NEW l, Kept(l), NEW st, Keeps(st, l), NEW id, id \notin DOMAIN l,
         NEW k \in Keys, NEW v \in Values, NEW r, r = [s |-> Score(k), v |-> v]
  PROVE  Kept(With(l, id, r)) /\ Keeps(Inserted(st, Score(k), v), With(l, id, r))
<1>1. Kept(With(l, id, r))
  BY KeptWith
<1>2. CASE temp = EpsZero
  BY <1>1, <1>2, InsertedSharp DEF Inserted
<1>3. CASE temp # EpsZero
  BY <1>1, <1>3, InsertedSoft DEF Inserted
<1> QED BY <1>2, <1>3

LEMMA DeletedKeeps ==
  ASSUME IncSet, NEW l, Kept(l), NEW st, Keeps(st, l), NEW id \in DOMAIN l
  PROVE  /\ Kept(Without(l, id)) /\ Keeps(Deleted(st, l[id], Without(l, id)), Without(l, id))
         /\ id \notin DOMAIN Without(l, id)
<1>1. Kept(Without(l, id))
  BY KeptWithout
<1>2. id \notin DOMAIN Without(l, id)
  BY DEF Without
<1>3. Keeps(Deleted(st, l[id], Without(l, id)), Without(l, id))
  <2>1. CASE temp = EpsZero
    BY <2>1, DeletedSharp
  <2>2. CASE temp # EpsZero
    BY <2>2, DeletedSoft
  <2> QED BY <2>1, <2>2
<1> QED BY <1>1, <1>2, <1>3

LEMMA IncInitially == IncInit => IncInv
<1> SUFFICES ASSUME IncInit PROVE IncInv
  OBVIOUS
<1>1. live = << >> /\ state = EmptySum /\ sim \in Sims /\ temp \in IncEps
  BY DEF IncInit
<1>2. DOMAIN live = {} /\ live = [i \in DOMAIN live |-> live[i]]
  BY <1>1
<1>3. Kept(live) /\ Scoring(live) = {}
  BY <1>2, FS_EmptySet DEF Kept, Scoring
<1>4. EmptySum = [m |-> NegInf, num |-> 0, den |-> 0]
  BY DEF EmptySum
<1>5. CASE temp = EpsZero
  <2>1. Cardinality(DOMAIN live) = 0 /\ One * 0 = 0
    BY <1>2, FS_EmptySet, InfinityFacts
  <2>2. Unmatched(state, live)
    BY <1>1, <1>3, <1>4, <2>1 DEF Unmatched
  <2> QED BY <1>1, <1>3, <1>5, <2>2 DEF IncInv, Keeps
<1>6. CASE temp # EpsZero
  <2>1. state.num # NaN
    BY <1>1, <1>4, NotANumber
  <2>2. Anchored(state, live, Scoring(live), temp)
    BY <1>1, <1>3, <1>4, NoSums DEF Anchored
  <2>3. ExactFor(state, live)
    BY <1>2, <1>3, <2>1, <2>2 DEF ExactFor
  <2> QED BY <1>1, <1>3, <1>6, <2>3 DEF IncInv, Keeps
<1> QED BY <1>5, <1>6

\* What the invariant asks of the next state.
LEMMA IncReached ==
  ASSUME IncSet, UNCHANGED << sim, temp >>, NEW l, NEW st, live' = l, state' = st, Kept(l), Keeps(st, l)
  PROVE  IncInv'
<1>1. sim' = sim /\ temp' = temp
  OBVIOUS
<1>2. \A k : Score(k)' = Score(k)
  BY <1>1 DEF Score
<1>3. Kept(live)'
  BY <1>2 DEF Kept
<1>4. Keeps(state, live)'
  BY <1>1 DEF Keeps, Sharpened, Unmatched, ExactFor, Poisons, Anchored, Scoring, SumsAt
<1> QED BY <1>1, <1>3, <1>4 DEF IncInv, IncSet

LEMMA IncStep == IncInv /\ [IncNext]_incVars => IncInv'
<1> SUFFICES ASSUME IncInv, [IncNext]_incVars PROVE IncInv'
  OBVIOUS
<1>1. IncSet /\ Kept(live) /\ Keeps(state, live)
  BY DEF IncInv, IncSet
<1>2. ASSUME NEW id \in LiveIds, NEW k \in Keys, NEW v \in Values, Insert(id, k, v)
      PROVE  IncInv'
  <2>1. PICK r : r = [s |-> Score(k), v |-> v]
    OBVIOUS
  <2>2. PICK l : l = With(live, id, r)
    OBVIOUS
  <2>3. PICK st : st = Inserted(state, Score(k), v)
    OBVIOUS
  <2>4. Kept(l) /\ Keeps(st, l)
    BY <1>1, <1>2, <2>1, <2>2, <2>3, InsertedKeeps DEF Insert
  <2>5. live' = l /\ state' = st /\ UNCHANGED << sim, temp >>
    BY <1>2, <2>1, <2>2, <2>3 DEF Insert
  <2> QED BY <1>1, <2>4, <2>5, IncReached
<1>3. ASSUME NEW id \in LiveIds, Delete(id)
      PROVE  IncInv'
  <2>1. PICK l : l = Without(live, id)
    OBVIOUS
  <2>2. PICK st : st = Deleted(state, live[id], l)
    OBVIOUS
  <2>3. Kept(l) /\ Keeps(st, l)
    BY <1>1, <1>3, <2>1, <2>2, DeletedKeeps DEF Delete
  <2>4. live' = l /\ state' = st /\ UNCHANGED << sim, temp >>
    BY <1>3, <2>1, <2>2 DEF Delete
  <2> QED BY <1>1, <2>3, <2>4, IncReached
<1>4. ASSUME NEW id \in LiveIds, NEW k \in Keys, NEW v \in Values, Update(id, k, v)
      PROVE  IncInv'
  <2>1. PICK r : r = [s |-> Score(k), v |-> v]
    OBVIOUS
  <2>2. PICK rest : rest = Without(live, id)
    OBVIOUS
  <2>3. PICK mid : mid = Deleted(state, live[id], rest)
    OBVIOUS
  <2>4. PICK l : l = With(rest, id, r)
    OBVIOUS
  <2>5. PICK st : st = Inserted(mid, Score(k), v)
    OBVIOUS
  <2>6. Kept(rest) /\ Keeps(mid, rest) /\ id \notin DOMAIN rest
    BY <1>1, <1>4, <2>2, <2>3, DeletedKeeps DEF Update
  <2>7. Kept(l) /\ Keeps(st, l)
    BY <1>1, <2>1, <2>4, <2>5, <2>6, InsertedKeeps
  <2>8. live' = l /\ state' = st /\ UNCHANGED << sim, temp >>
    BY <1>4, <2>1, <2>2, <2>3, <2>4, <2>5 DEF Update
  <2> QED BY <1>1, <2>7, <2>8, IncReached
<1>5. CASE UNCHANGED incVars
  BY <1>1, <1>5, IncReached DEF incVars
<1> QED BY <1>2, <1>3, <1>4, <1>5 DEF IncNext

\* Whatever was inserted, updated and deleted, of the record that scored the max too, the sums of
\* an IncrementalMemory are those of the live records that score above -inf, unless a record that
\* scored -inf has made them NaN, or at eps = 0 no live record scores above -inf.
THEOREM IncInvariant == IncSpec => []IncInv
<1>1. IncInit => IncInv
  BY IncInitially
<1>2. IncInv /\ [IncNext]_incVars => IncInv'
  BY IncStep
<1> QED BY <1>1, <1>2, PTL DEF IncSpec

\* Numbers that are sums of weights, divided.
LEMMA RatioOf ==
  ASSUME IncSet, NEW l, Kept(l), NEW st, NEW W, W = Scoring(l), W # {},
         st = SumsAt(l, W, TopOf(l, W), temp)
  PROVE  Ratio(st) = << UAt(l, W, TopOf(l, W), temp), ZAt(l, W, TopOf(l, W), temp) >>
         /\ Ratio(st) # NaN
<1> DEFINE top == TopOf(l, W)
<1>1. ZAt(l, W, top, temp) \in Nat \ {0} /\ UAt(l, W, top, temp) \in Int
  <2>1. Scored(l, W, temp)
    BY KeptFacts
  <2> QED BY <2>1, AccFacts
<1>2. st.num = UAt(l, W, top, temp) /\ st.den = ZAt(l, W, top, temp)
  BY DEF SumsAt
<1> HIDE DEF top
<1>3. NaN \notin {st.num, st.den} /\ ~ (st.den <= 0)
  BY <1>1, <1>2, NotANumber
<1>4. Ratio(st) = << st.num, st.den >>
  BY <1>3 DEF Ratio
<1>5. << st.num, st.den >> # NaN
  BY <1>1, <1>2, IncAssumption DEF IncAssumption
<1> QED BY <1>2, <1>4, <1>5 DEF top

\* The definition, where every record that scores above -inf is live.
LEMMA AverageOfLive ==
  ASSUME IncSet, NEW l, Kept(l), temp = EpsInf => Scoring(l) = DOMAIN l
  PROVE  AverageOf(l, DOMAIN l, temp)
           = IF Scoring(l) = {} THEN None
             ELSE << UAt(l, Scoring(l), TopOf(l, Scoring(l)), temp),
                     ZAt(l, Scoring(l), TopOf(l, Scoring(l)), temp) >>
<1> DEFINE K == DOMAIN l
           W == Weighty(l, K, temp)
           t == TopOf(l, W)
           w == [i \in W |-> WeightBelow(t, l[i].s, temp)]
<1>1. W = Scoring(l)
  <2>1. \A i \in K : ~ IsNull(l[i])
    BY KeptFacts
  <2> QED BY <2>1 DEF Weighty, Scoring
<1>2. AverageOf(l, K, temp)
        = IF W = {} THEN None
          ELSE << SumFunctionOnSet([i \in W |-> w[i] * l[i].v], W), SumFunctionOnSet(w, W) >>
  BY DEF AverageOf, TopOf
<1>3. w = WeightsAt(l, W, t, temp) /\ [i \in W |-> w[i] * l[i].v] = TermsAt(l, W, t, temp)
  BY DEF WeightsAt, TermsAt
<1> QED BY <1>1, <1>2, <1>3 DEF UAt, ZAt

\* So the answer is the average of the live records, or NaN after a record that scored -inf.
LEMMA IncAnswers == IncInv => IncrementalExact
<1> SUFFICES ASSUME IncInv PROVE IncrementalExact
  OBVIOUS
<1> DEFINE l == live
           D == DOMAIN live
           W == Scoring(live)
           scores == {live[i].s : i \in D}
<1>1. IncSet /\ Kept(live) /\ Keeps(state, live)
  BY DEF IncInv, IncSet
<1>2. NaN # None
  BY IncAssumption DEF IncAssumption
<1> SUFFICES /\ sim # "Indicator" => Output # NaN
             /\ Output = NaN \/ (temp = EpsZero /\ scores = {NegInf})
                  \/ SameAnswer(Output, AverageOf(live, D, temp))
  BY DEF IncrementalExact
<1>3. ASSUME temp = EpsInf => W = D, W # {}, state = SumsAt(live, W, TopOf(live, W), temp)
      PROVE  Output # NaN /\ SameAnswer(Output, AverageOf(live, D, temp))
  BY <1>1, <1>3, RatioOf, AverageOfLive, SameAsItself DEF Output
<1>4. CASE temp = EpsZero /\ Sharpened(state, live)
  <2>1. EpsZero # EpsInf
    BY DEF EpsZero, EpsInf
  <2> QED BY <1>3, <1>4, <2>1 DEF Sharpened
<1>5. CASE temp = EpsZero /\ Unmatched(state, live)
  <2>1. /\ W = {} /\ state.num \in Int /\ state.den \in Int
        /\ state.den <= One * Cardinality(D)
    BY <1>5 DEF Unmatched
  <2>2. Output # NaN
    <3>1. NaN \notin {state.num, state.den} /\ << state.num, state.den >> # NaN
      BY <2>1, NotANumber, IncAssumption DEF IncAssumption
    <3> QED BY <1>2, <3>1 DEF Output, Ratio
  <2>3. CASE D = {}
    <3>1. One * Cardinality(D) = 0
      BY <2>3, FS_EmptySet, InfinityFacts
    <3>2. state.den <= 0 /\ NaN \notin {state.num, state.den}
      BY <2>1, <3>1, NotANumber
    <3>3. Output = None
      BY <3>2 DEF Output, Ratio
    <3>4. EpsZero # EpsInf
      BY DEF EpsZero, EpsInf
    <3>5. AverageOf(live, D, temp) = None
      BY <1>1, <1>5, <2>1, <3>4, AverageOfLive
    <3> QED BY <1>2, <3>3, <3>5, SameAsItself
  <2>4. CASE D # {}
    <3>1. \A i \in D : live[i].s = NegInf
      BY <2>1 DEF Scoring
    <3>2. scores = {NegInf}
      BY <2>4, <3>1
    <3> QED BY <1>5, <2>2, <3>2
  <2> QED BY <2>3, <2>4
<1>6. CASE temp # EpsZero /\ Poisons(state)
  BY <1>6 DEF Poisons, Output, Ratio
<1>7. CASE temp # EpsZero /\ ExactFor(state, live)
  <2>1. Anchored(state, live, W, temp) /\ state.num # NaN /\ (temp = EpsInf => W = D)
          /\ (D # {} => W # {})
    BY <1>7 DEF ExactFor
  <2>2. CASE W # {}
    <3>1. state = SumsAt(live, W, TopOf(live, W), temp)
      BY <2>1, <2>2 DEF Anchored, SumsAt
    <3> QED BY <1>3, <2>1, <2>2, <3>1
  <2>3. CASE W = {}
    <3>1. state.den = 0 /\ state.num = 0
      BY <2>1, <2>3, NoSums DEF Anchored
    <3>2. NaN \notin {state.num, state.den} /\ state.den <= 0
      BY <3>1, NotANumber
    <3>3. Output = None
      BY <3>2 DEF Output, Ratio
    <3>4. AverageOf(live, D, temp) = None
      BY <1>1, <2>1, <2>3, AverageOfLive
    <3> QED BY <1>2, <3>3, <3>4, SameAsItself
  <2> QED BY <2>2, <2>3
<1> QED BY <1>1, <1>4, <1>5, <1>6, <1>7 DEF Keeps

\* After any inserts, updates and deletes the answer kept is the average of the live records:
\* `IncrementalExact` of MC_Engine, for every set of keys, values, similarities and temperatures.
THEOREM IncrementalExactHolds == IncSpec => []IncrementalExact
BY IncInvariant, IncAnswers, PTL
=============================================================================
