----------------------------- MODULE QueryStats -----------------------------
(***************************************************************************)
(* The statistics of the query layer (stats.rs) and the estimates the      *)
(* planner makes from them (stats.rs, cost.rs): how many rows pass a       *)
(* predicate, whether the key sketch certifies a truncated scan, whether   *)
(* it predicts a negligible tail behind an index probe.                    *)
(*                                                                         *)
(* A table is [rows, dict, key]: rows [g, v, k] with the code of the group *)
(* label, the value and a one-dimensional key, the labels in code order,   *)
(* and the storage of the key column.  Fractions are <<num, den>>.         *)
(***************************************************************************)
EXTENDS AnchoredSum

CONSTANTS SketchSample,  \* rows a key sketch holds at most
          HistBuckets,   \* HIST_BUCKETS
          MinSamples,    \* RESOLUTION_MIN_SAMPLES
          TailExp        \* HNSW_TAIL_TOL is 2^-TailExp

Column(t, f) == [i \in DOMAIN t.rows |-> t.rows[i][f]]

Smaller(a, b) == IF a <= b THEN a ELSE b

CeilDiv(a, b) == (a + b - 1) \div b

(***************************************************************************)
(* What is collected.                                                      *)
(***************************************************************************)
BucketOf(x, min, max) == IF x = NaN THEN 0
                         ELSE Smaller(((x - min) * HistBuckets) \div (max - min), HistBuckets - 1)

\* ScalarStats::collect.  The comparisons pass over a NaN, the histogram does not.
ScalarStats(vs) ==
  LET known == {vs[i] : i \in DOMAIN vs} \ {NaN}
      min   == IF known = {} THEN PosInf ELSE CHOOSE a \in known : \A b \in known : a <= b
      max   == IF known = {} THEN NegInf ELSE TopScore(known)
      hist(b) == IF min >= max THEN 0
                 ELSE Cardinality({i \in DOMAIN vs : BucketOf(vs[i], min, max) = b})
  IN  [min |-> min, max |-> max, hist |-> [b \in 0..(HistBuckets - 1) |-> hist(b)],
       n |-> Len(vs)]

\* KeySketch::collect: rows at an even stride.
KeySketch(ks) ==
  LET n    == Len(ks)
      take == Smaller(SketchSample, n)
  IN  [keys  |-> [i \in 1..take |-> ks[1 + Smaller(((2 * i - 1) * n) \div (2 * take), n - 1)]],
       total |-> n]

NoStats == [rows |-> 0]

\* TableStats::collect, behind the guard for a table without rows.
CollectStats(t) ==
  IF t.rows = << >> THEN NoStats
  ELSE [rows   |-> Len(t.rows),
        groups |-> Len(t.dict),
        vals   |-> ScalarStats(Column(t, "v")),
        sketch |-> IF t.key = "none" THEN << >> ELSE KeySketch(Column(t, "k"))]

(***************************************************************************)
(* What is estimated.  A predicate is [op, col, c].                        *)
(***************************************************************************)

\* TableStats::selectivity: a column that is not a scalar passes every row.
Selectivity(stats, p) ==
  LET s     == stats.vals
      range == s.max - s.min
      b     == BucketOf(p.c, s.min, s.max)
      above == SumFunctionOnSet(s.hist, (b + 1)..(HistBuckets - 1))
      inB   == Larger((1 + b) * range - (p.c - s.min) * HistBuckets, 0)
  IN  CASE p.col # "v" \/ (p.op = ">=" /\ p.c <= s.min)   -> << 1, 1 >>
        [] p.col = "v" /\ p.op = ">=" /\ p.c > s.min      ->
             IF p.c > s.max THEN << 0, 1 >>
             ELSE << above * range + s.hist[b] * inB, range * s.n >>
        [] p.col = "v" /\ p.op = "="                      -> << 1, HistBuckets >>

\* KeySketch::sims: a NaN is dropped, the rest sorted from the best.
SketchSims(sketch, x) ==
  LET known == SelectSeq(sketch.keys, LAMBDA k : k # NaN)
  IN  SortSeq([i \in DOMAIN known |-> known[i] * x], >)

\* delta * (1 + 1 / (1 - delta)) * vmax <= budget, for delta = 1 - top / all.
Certified(top, all, vmax, budget) == (all - top) * (all + top) * vmax <= budget * all * top

Unlimited(n) == [kstar |-> n, limited |-> FALSE]

\* KeySketch::estimate_contract.  At eps = 0, and with no known value, the bound is NaN.
EstimateContract(sketch, x, eps, budget, vmax, n) ==
  LET s    == SketchSims(sketch, x)
      w    == [i \in DOMAIN s |-> Shrink(One, eps, s[1] - s[i])]
      mass == [i \in DOMAIN s |-> SumFunctionOnSet(w, 1..i)]
      hits == {i \in DOMAIN s : Certified(mass[i], mass[Len(s)], vmax, budget)}
      hit  == CHOOSE i \in hits : \A j \in hits : i <= j
  IN  IF s = << >> THEN [kstar |-> n, limited |-> TRUE]
      ELSE IF ~IsSoft(eps) \/ vmax = PosInf THEN Unlimited(n)
      ELSE IF hits = {} THEN Unlimited(n)
      ELSE [kstar |-> CeilDiv(hit * n, Len(sketch.keys)), limited |-> hit < MinSamples]

\* hnsw_tail_bound(n, s_k, s_max, eps) <= HNSW_TAIL_TOL, for n a fraction.
NegligibleTail(n, sK, sMax, eps) ==
  IsSoft(eps) /\ n[1] * Pow2[TailExp] <= n[2] * Pow2[eps * (sMax - sK)]

\* predict_hnsw_tail_from_sims, for a probe of k out of n rows.
PredictsTail(sketch, x, eps, k, n) ==
  LET s    == SketchSims(sketch, x)
      rank == (k * Len(s)) \div sketch.total
  IN  /\ Len(s) >= 2
      /\ rank >= 2
      /\ NegligibleTail(n, s[Smaller(rank, Len(s))], s[1], eps)
=============================================================================
