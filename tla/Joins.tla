------------------------------- MODULE Joins --------------------------------
(***************************************************************************)
(* The joins of bruce-core: the streaming count of R(a,b) S(b,c) T(c,d)    *)
(* (streaming.rs), kept per arrival, and the batch joins over key columns  *)
(* (join.rs), which return positions.  Only lengths of the buckets of R    *)
(* and T are read, so a bucket of theirs is a number.                      *)
(***************************************************************************)
EXTENDS Integers, Sequences, FiniteSets, SequencesExt, Selection

CONSTANTS JoinKeys, MaxTuples

\* The keys the bindings join on are integers; the batch joins compare them.
ASSUME JoinAssumption == JoinKeys \subseteq Int

VARIABLES rIn, sIn, tIn,   \* history: b of R, <<b, c>> of S, c of T, as they arrived
          rByB, tByC,      \* key -> tuples buffered under it
          sByB, sByC,      \* b -> the c's, and c -> the b's
          emitted          \* n_emit

joinVars == << rIn, sIn, tIn, rByB, tByC, sByB, sByC, emitted >>

JoinInit == /\ rIn = << >> /\ sIn = << >> /\ tIn = << >>
            /\ rByB = [k \in JoinKeys |-> 0] /\ tByC = [k \in JoinKeys |-> 0]
            /\ sByB = [k \in JoinKeys |-> << >>] /\ sByC = [k \in JoinKeys |-> << >>]
            /\ emitted = 0

\* The sum of f over the entries of a bucket.
SumOf(f, bucket) ==
  LET upTo[n \in 0..Len(bucket)] == IF n = 0 THEN 0 ELSE upTo[n - 1] + f[bucket[n]]
  IN  upTo[Len(bucket)]

ArriveR(b) ==
  /\ rIn' = Append(rIn, b)
  /\ rByB' = [rByB EXCEPT ![b] = @ + 1]
  /\ emitted' = emitted + SumOf(tByC, sByB[b])
  /\ UNCHANGED << sIn, tIn, tByC, sByB, sByC >>

ArriveS(b, c) ==
  /\ sIn' = Append(sIn, << b, c >>)
  /\ sByB' = [sByB EXCEPT ![b] = Append(@, c)]
  /\ sByC' = [sByC EXCEPT ![c] = Append(@, b)]
  /\ emitted' = emitted + rByB[b] * tByC[c]
  /\ UNCHANGED << rIn, tIn, rByB, tByC >>

\* Mutated form: a late T is joined with the S of its own kind of bucket.
ArriveTByB(c) ==
  /\ tIn' = Append(tIn, c)
  /\ tByC' = [tByC EXCEPT ![c] = @ + 1]
  /\ emitted' = emitted + SumOf(rByB, sByB[c])
  /\ UNCHANGED << rIn, sIn, rByB, sByB, sByC >>

ArriveT(c) ==
  /\ tIn' = Append(tIn, c)
  /\ tByC' = [tByC EXCEPT ![c] = @ + 1]
  /\ emitted' = emitted + SumOf(rByB, sByC[c])
  /\ UNCHANGED << rIn, sIn, rByB, sByB, sByC >>

JoinNext ==
  /\ Len(rIn) + Len(sIn) + Len(tIn) < MaxTuples
  /\ \E b \in JoinKeys : \/ ArriveR(b)
                         \/ ArriveT(b)
                         \/ \E c \in JoinKeys : ArriveS(b, c)

JoinSpec == JoinInit /\ [][JoinNext]_joinVars

(***************************************************************************)
(* The batch joins, over columns of keys.                                  *)
(***************************************************************************)
HashJoin(l, r) ==
  LET idx(k) == Select([j \in DOMAIN r |-> j], {j \in DOMAIN r : r[j] = k})
  IN  FlattenSeq([i \in DOMAIN l |-> LET js == idx(l[i]) IN [n \in DOMAIN js |-> << i, js[n] >>]])

\* Positions from i on that hold the key at i: how many, and the position after them.
RunAt(s, i) == Cardinality({n \in i..Len(s) : \A m \in i..n : s[m] = s[i]})
Past(s, i)  == i + RunAt(s, i)

\* The matches of one key, in the order of the nested loops.
Pairs(i, r, j) == [n \in 1..RunAt(r, j) |-> << i, j + n - 1 >>]

Triples(a, i, b, j, c, k) ==
  FlattenSeq([x \in 1..RunAt(a, i) |->
    FlattenSeq([y \in 1..RunAt(b, j) |->
      [z \in 1..RunAt(c, k) |-> << i + x - 1, j + y - 1, k + z - 1 >>]])])

\* One round of the loop of sort_merge_join: a match is paired with its run on the right, and
\* only the left cursor leaves it.
MergeStep(l, r, s) ==
  IF s.i > Len(l) \/ s.j > Len(r) THEN s
  ELSE IF l[s.i] < r[s.j] THEN [i |-> s.i + 1, j |-> s.j, out |-> s.out]
  ELSE IF l[s.i] > r[s.j] THEN [i |-> s.i, j |-> s.j + 1, out |-> s.out]
  ELSE [i |-> s.i + 1, j |-> s.j, out |-> s.out \o Pairs(s.i, r, s.j)]

\* As many rounds as can move a cursor; a loop that is over stays as it is.
SortMergeJoin(l, r) ==
  LET rounds == Len(l) + Len(r)
      at[n \in 0..rounds] == IF n = 0 THEN [i |-> 1, j |-> 1, out |-> << >>]
                             ELSE MergeStep(l, r, at[n - 1])
  IN  at[rounds].out

\* The cursor moved to the first key that is not below max.
Leap(s, i, max) == i + Cardinality({n \in i..Len(s) : \A m \in i..n : s[m] < max})

TopKey(S) == CHOOSE x \in S : \A y \in S : y <= x

\* Mutated form: the cursors leave a match by one position.
LeapStepByOne(a, b, c, s) ==
  IF s.i > Len(a) \/ s.j > Len(b) \/ s.k > Len(c) THEN s
  ELSE IF a[s.i] = b[s.j] /\ b[s.j] = c[s.k]
    THEN [i |-> s.i + 1, j |-> s.j + 1, k |-> s.k + 1,
          out |-> s.out \o Triples(a, s.i, b, s.j, c, s.k)]
  ELSE LET max == TopKey({a[s.i], b[s.j], c[s.k]})
       IN  [i |-> Leap(a, s.i, max), j |-> Leap(b, s.j, max), k |-> Leap(c, s.k, max),
            out |-> s.out]

\* One round of the loop of lftj_three.
LeapStep(a, b, c, s) ==
  IF s.i > Len(a) \/ s.j > Len(b) \/ s.k > Len(c) THEN s
  ELSE IF a[s.i] = b[s.j] /\ b[s.j] = c[s.k]
    THEN [i |-> Past(a, s.i), j |-> Past(b, s.j), k |-> Past(c, s.k),
          out |-> s.out \o Triples(a, s.i, b, s.j, c, s.k)]
  ELSE LET max == TopKey({a[s.i], b[s.j], c[s.k]})
       IN  [i |-> Leap(a, s.i, max), j |-> Leap(b, s.j, max), k |-> Leap(c, s.k, max),
            out |-> s.out]

\* lftj_three.
Leapfrog(a, b, c) ==
  LET rounds == Len(a) + Len(b) + Len(c)
      at[n \in 0..rounds] == IF n = 0 THEN [i |-> 1, j |-> 1, k |-> 1, out |-> << >>]
                             ELSE LeapStep(a, b, c, at[n - 1])
  IN  at[rounds].out

(***************************************************************************)
(* Properties                                                              *)
(***************************************************************************)

\* The join R(a,b) S(b,c) T(c,d) of three columns, as positions.
ChainMatches(r, s, t) ==
  {m \in (DOMAIN r) \X (DOMAIN s) \X (DOMAIN t) : r[m[1]] = s[m[2]][1] /\ s[m[2]][2] = t[m[3]]}

\* The count kept per arrival is the size of the join of what has arrived, in whatever order
\* the tuples of the three relations came.
ChainExact == emitted = Cardinality(ChainMatches(rIn, sIn, tIn))

PairMatches(l, r) == {m \in (DOMAIN l) \X (DOMAIN r) : l[m[1]] = r[m[2]]}

TripleMatches(a, b, c) ==
  {m \in (DOMAIN a) \X (DOMAIN b) \X (DOMAIN c) : a[m[1]] = b[m[2]] /\ b[m[2]] = c[m[3]]}

Once(out, matches) == ToSet(out) = matches /\ Len(out) = Cardinality(matches)

Ascends(s) == \A m, n \in DOMAIN s : m <= n => s[m] <= s[n]

\* Every batch join gives each match once and nothing else, with repeated keys on every side:
\* the hash join of any columns, the others of sorted ones ("Both inputs MUST be sorted").
BatchJoinsExact ==
  LET l == rIn
      r == [i \in DOMAIN sIn |-> sIn[i][1]]
      c == tIn
  IN  /\ Once(HashJoin(l, r), PairMatches(l, r))
      /\ Ascends(l) /\ Ascends(r) => Once(SortMergeJoin(l, r), PairMatches(l, r))
      /\ Ascends(l) /\ Ascends(r) /\ Ascends(c) => Once(Leapfrog(l, r, c), TripleMatches(l, r, c))
=============================================================================
