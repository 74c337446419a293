------------------------------ MODULE Kernels -------------------------------
(***************************************************************************)
(* The scan kernels of bruce-core over the records of one query, as they   *)
(* arrive: the accumulator fold and its parallel chunks (mask.rs), the     *)
(* partition-reduce triples (distributed.rs), softmax weights and the      *)
(* operator F_eps (semiring.rs, operator.rs), and attention along a tree   *)
(* (tree.rs).  Each computes the same average by a way of its own.         *)
(***************************************************************************)
EXTENDS SoftAvg, Selection

CONSTANTS Records,     \* [s, v]: score against the query, value
          MaxRecords,
          Temperatures,
          Panic        \* what a call that panics comes to

\* A score or value is a number or NaN, and finite scores lie close enough to each other and to
\* zero for exact weights.
ASSUME KernelsAssumption ==
  /\ \A r \in Records : (r.s = NaN \/ r.s \in NegInf..PosInf) /\ (r.v = NaN \/ r.v \in Int)
  /\ \A eps \in Temperatures : eps \in Nat \cup {EpsZero}
  /\ \A q, r \in Records, eps \in Temperatures :
       IsSoft(eps) /\ Finite(q.s) /\ Finite(r.s) => eps * (q.s - r.s) <= Spread
  /\ \A r \in Records, eps \in Temperatures : IsSoft(eps) /\ Finite(r.s) => -Spread <= eps * r.s

VARIABLE recs

KernelInit == recs = << >>

KernelNext ==
  /\ Len(recs) < MaxRecords
  /\ \E r \in Records : recs' = Append(recs, r)

KernelSpec == KernelInit /\ [][KernelNext]_recs

(***************************************************************************)
(* semiring.rs: weights over a common denominator.  A NaN or +inf among    *)
(* the scores, or nothing but -inf, makes the partition sum NaN, and the   *)
(* weights fall back to uniform over the finite scores.                    *)
(***************************************************************************)
Scores == [i \in DOMAIN recs |-> recs[i].s]

\* f64::max passes over a NaN.
MaxScore(ss) == LET known == {ss[i] : i \in DOMAIN ss} \ {NaN}
                IN  IF known = {} THEN NegInf ELSE TopScore(known)

FiniteAt(ss)    == {i \in DOMAIN ss : Finite(ss[i])}
Uniform(ss, on) == [i \in DOMAIN ss |-> IF i \in on THEN One ELSE 0]

\* exp of (s - m) / eps is NaN for some of the scores.
Poisoned(ss, eps) == \/ MaxScore(ss) = NegInf
                     \/ \E i \in DOMAIN ss : ss[i] \in {NaN, PosInf}
                     \/ eps = EpsInf /\ \E i \in DOMAIN ss : ss[i] = NegInf

\* exp((s - m) / eps).
ExpWeight(s, m, eps) == IF s = NegInf THEN 0
                        ELSE IF eps = EpsInf THEN One ELSE Shrink(One, eps, m - s)

SoftmaxEps(ss, eps) ==
  LET m == MaxScore(ss)
  IN  IF eps = EpsZero THEN Uniform(ss, {i \in DOMAIN ss : ss[i] = m})
      ELSE IF Poisoned(ss, eps) THEN Uniform(ss, FiniteAt(ss))
      ELSE [i \in DOMAIN ss |-> ExpWeight(ss[i], m, eps)]

(***************************************************************************)
(* operator.rs.  A row of weight 0 is passed over; the value of a row of   *)
(* another weight counts, NaN or not.                                      *)
(***************************************************************************)
Averaged(w, rs) ==
  LET on == {i \in DOMAIN rs : w[i] # 0}
  IN  IF \E i \in on : rs[i].v = NaN THEN NaN
      ELSE << SumFunctionOnSet([i \in on |-> w[i] * rs[i].v], on), SumFunctionOnSet(w, on) >>

Attention(rs, eps) == Averaged(SoftmaxEps([i \in DOMAIN rs |-> rs[i].s], eps), rs)

\* attention_batch has no branch for eps = 0: the anchor's weight is exp(0 / 0).
AttentionBatch(rs, eps) ==
  LET ss == [i \in DOMAIN rs |-> rs[i].s]
  IN  IF ~Finite(MaxScore(ss)) THEN << 0, 1 >>
      ELSE IF eps = EpsZero \/ Poisoned(ss, eps) THEN NaN
      ELSE Averaged([i \in DOMAIN ss |-> ExpWeight(ss[i], MaxScore(ss), eps)], rs)

\* sum, un-normalised: the weight of a row is exp(s / eps).
RawWeight(s, eps) == IF s = NegInf THEN 0 ELSE IF eps = EpsInf THEN One ELSE Pow2[Spread + eps * s]

\* Mutated form: the limit at eps = 0 sums every row.
OperatorSumOfAll(rs, eps) ==
  IF ~Finite(MaxScore([i \in DOMAIN rs |-> rs[i].s])) THEN 0
  ELSE SumFunctionOnSet([i \in DOMAIN rs |-> IF eps = EpsZero THEN rs[i].v
                                    ELSE RawWeight(rs[i].s, eps) * rs[i].v], DOMAIN rs)

OperatorSum(rs, eps) ==
  LET m  == MaxScore([i \in DOMAIN rs |-> rs[i].s])
      on == IF eps = EpsZero THEN {i \in DOMAIN rs : rs[i].s = m} ELSE DOMAIN rs
  IN  IF ~Finite(m) THEN 0
      ELSE SumFunctionOnSet([i \in on |-> IF eps = EpsZero THEN rs[i].v
                                 ELSE RawWeight(rs[i].s, eps) * rs[i].v], on)

OperatorCount(rs, eps) ==
  LET ss == [i \in DOMAIN rs |-> rs[i].s]
  IN  IF eps = EpsZero
        THEN Cardinality({i \in FiniteAt(ss) : ss[i] = MaxScore(ss)})
        ELSE Cardinality({i \in DOMAIN ss : SoftmaxEps(ss, eps)[i] > 0})

(***************************************************************************)
(* memory.rs: attention_query, over the live rows.  The running max starts *)
(* at -inf, and at eps = 0 a max that is not finite averages nothing.      *)
(***************************************************************************)
AttentionQuery(rs, eps) ==
  LET ss  == [i \in DOMAIN rs |-> rs[i].s]
      m   == MaxScore(ss)
      top == {i \in FiniteAt(ss) : ss[i] = m}
  IN  IF rs = << >> THEN None
      ELSE IF eps = EpsZero
        THEN IF top = {} THEN << 0, 1 >> ELSE Averaged([i \in DOMAIN ss |-> IF i \in top THEN One ELSE 0], rs)
      ELSE IF Poisoned(ss, eps) THEN NaN
      ELSE Averaged([i \in DOMAIN ss |-> ExpWeight(ss[i], m, eps)], rs)

(***************************************************************************)
(* distributed.rs: a partition's triple, the reduce step and the answer.   *)
(* A numerator has the Columns of the values it was built from, and none   *)
(* where there were no values.                                             *)
(***************************************************************************)
Columns == 2   \* of a value vector, more than ndarray broadcasts; one of them is modelled

Triple(m, d, num, den) == [m |-> m, d |-> d, num |-> num, den |-> den]
EmptyTriple(d) == Triple(NegInf, d, 0, 0)

\* A NaN among the rows that are added stays in the sum, its weight 0 or not.
FromPairs(rs, eps) ==
  LET ss == [i \in DOMAIN rs |-> rs[i].s]
      m  == MaxScore(ss)
      on == {i \in DOMAIN rs : eps = EpsZero => ss[i] = m}
      w  == [i \in DOMAIN rs |-> IF eps = EpsZero THEN (IF ss[i] = m THEN One ELSE 0)
                                 ELSE ExpWeight(ss[i], m, eps)]
      lost == eps # EpsZero /\ Poisoned(ss, eps)
  IN  IF rs = << >> THEN EmptyTriple(0)
      ELSE IF ~Finite(m) THEN EmptyTriple(Columns)
      ELSE Triple(m, Columns,
                  IF lost \/ \E i \in on : rs[i].v = NaN THEN NaN
                  ELSE SumFunctionOnSet([i \in DOMAIN rs |-> w[i] * rs[i].v], on),
                  IF lost THEN NaN ELSE SumFunctionOnSet(w, DOMAIN rs))

\* A NaN on either side stays.
BothOf(x, y) == IF NaN \in {x, y} THEN NaN ELSE x + y

\* The part of a triple brought to the global max m: exp((m_local - m) / eps) is 0 for a part
\* at -inf, and NaN if the temperature is infinite too.  At eps = 0 a lower part is passed over.
Brought(t, x, m, eps) ==
  CASE t.m < m /\ eps = EpsZero      -> 0
    [] t.m = NegInf /\ eps # EpsZero -> IF eps = EpsInf THEN NaN ELSE 0
    [] OTHER -> IF x # NaN /\ IsSoft(eps) THEN Shrink(x, eps, m - t.m) ELSE x

\* combine(&[a, b]).  scaled_add panics on a numerator of another length than the first one's.
Combine(a, b, eps) ==
  LET m == Larger(a.m, b.m)
  IN  IF ~Finite(m) THEN EmptyTriple(a.d)
      ELSE IF b.d # a.d /\ (eps = EpsZero => b.m = m) THEN Panic
      ELSE Triple(m, a.d, BothOf(Brought(a, a.num, m, eps), Brought(b, b.num, m, eps)),
                          BothOf(Brought(a, a.den, m, eps), Brought(b, b.den, m, eps)))

Answered(t) == IF t.den # NaN /\ t.den <= 0 THEN (IF t.d = 0 THEN None ELSE << 0, 1 >>)
               ELSE IF NaN \in {t.num, t.den} THEN NaN
               ELSE << t.num, t.den >>

(***************************************************************************)
(* tree.rs and the pair generators of mask.rs.  Rows count from 0; parents *)
(* are functions on 0..n-1 with parents[i] < i, and -1 for a root.         *)
(***************************************************************************)
ChainTree(n)  == [i \in 0..(n - 1) |-> i - 1]
KaryTree(n, k) == [i \in 0..(n - 1) |-> IF i = 0 THEN -1 ELSE (i - 1) \div k]
StarTree(n)   == [i \in 0..(n - 1) |-> IF i = 0 THEN -1 ELSE 0]

\* The walk from a row to its root.
AncestorPath(parents, i) ==
  LET up[j \in 0..i] == {j} \cup (IF parents[j] = -1 THEN {} ELSE up[parents[j]])
  IN  up[i]

CausalPairs(n)    == {ij \in (0..(n - 1)) \X (0..(n - 1)) : ij[2] <= ij[1]}
WindowPairs(n, w) == {ij \in CausalPairs(n) : ij[1] - ij[2] <= w}

\* The records of the rows in js, in the order of the rows.
RowsOf(js) == Select(recs, {j + 1 : j \in js})

TreeAttention(parents, i, eps) == Attention(RowsOf(AncestorPath(parents, i)), eps)

\* masked_attention's answer for row i.
MaskedRow(pairs, i, eps) == Finalize(FoldRecords(RowsOf({p[2] : p \in {q \in pairs : q[1] = i}}), eps))

(***************************************************************************)
(* Properties                                                              *)
(***************************************************************************)

Tame == \A i \in DOMAIN recs : ~IsNull(recs[i]) /\ Finite(recs[i].s)

\* Whatever infinities and NULLs the rows hold and at whatever temperature, the chunks of a
\* parallel scan may be cut anywhere and merged in either order: the weighted average comes
\* out, or no answer exactly where no row has a weight.  The partition-reduce triples give the
\* same where every score is finite and every part has a row.
PartitionFree == \A eps \in Temperatures, cut \in 0..Len(recs) :
                   LET l == SubSeq(recs, 1, cut)
                       r == SubSeq(recs, cut + 1, Len(recs))
                       part(rs) == FoldRecords(rs, eps)
                       whole == SoftAverage(recs, eps)
                   IN  /\ SameAnswer(Finalize(MergeAcc(part(l), part(r), eps)), whole)
                       /\ SameAnswer(Finalize(MergeAcc(part(r), part(l), eps)), whole)
                       /\ Tame /\ cut \notin {0, Len(recs)} =>
                            SameAnswer(Answered(Combine(FromPairs(l, eps), FromPairs(r, eps), eps)), whole)

\* The per-query operator, the batched operator above eps = 0, the query over a memory's live
\* rows, and the ratio of the raw sum to the raw sum of ones (Lemma A) are the scan's average
\* wherever the scores are finite.
AveragesAgree ==
  Tame /\ recs # << >> => \A eps \in Temperatures :
    LET whole == SoftAverage(recs, eps)
        ones  == [i \in DOMAIN recs |-> [s |-> recs[i].s, v |-> 1]]
    IN  /\ SameAnswer(Attention(recs, eps), whole)
        /\ SameAnswer(AttentionQuery(recs, eps), whole)
        /\ eps # EpsZero => SameAnswer(AttentionBatch(recs, eps), whole)
        /\ SameAnswer(<< OperatorSum(recs, eps), OperatorSum(ones, eps) >>, whole)
        /\ eps = EpsZero => OperatorCount(recs, eps) = OperatorSum(ones, eps)

\* Attention along a tree is attention under the mask of the tree's ancestor pairs; the chain
\* is the causal mask, and so is a window no narrower than the rows.
TreesAgree ==
  Tame => \A eps \in Temperatures, i \in 0..(Len(recs) - 1) :
    LET n == Len(recs)
        pairs(parents) == {ja \in CausalPairs(n) : ja[2] \in AncestorPath(parents, ja[1])}
    IN  /\ \A t \in {ChainTree(n), KaryTree(n, 2), StarTree(n)} :
             SameAnswer(TreeAttention(t, i, eps), MaskedRow(pairs(t), i, eps))
        /\ \A mask \in {CausalPairs(n), WindowPairs(n, n)} :
             SameAnswer(TreeAttention(ChainTree(n), i, eps), MaskedRow(mask, i, eps))

\* Every way to the average gives the same one: row by row, in a batch, by the raw sums, over
\* a memory, along a tree and under a mask.
OperatorsAgree == AveragesAgree /\ TreesAgree
=============================================================================
