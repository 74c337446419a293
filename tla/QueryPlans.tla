----------------------------- MODULE QueryPlans -----------------------------
(***************************************************************************)
(* The path of one SQL query through the engine: parse.rs and optimizer.rs *)
(* (its logical shape), planner.rs (the admissible physical plans), and    *)
(* exec.rs (what each plan answers).                                       *)
(*                                                                         *)
(* A query is [table, kind, x, eps, budget, pred], grouped by the label    *)
(* and averaging the value; x may be Unbound or of a WrongDim, budget and  *)
(* pred may be Absent.  The cost model ranks admissible plans and no more: *)
(* any of them may be chosen.  An answer is what a plan returned, as       *)
(* [via, of]: of maps a label to a fraction, None or NaN; or it is Refused.*)
(***************************************************************************)
EXTENDS QueryStats, SoftAggView

CONSTANTS Absent, Unbound, WrongDim, Refused,
          KLadder      \* the probe sizes tried, smallest first

Bound(q)  == q.x # Unbound
Soft(q)   == q.eps # EpsInf     \* optimizer.rs: eps = inf is a plain average
Filters(q) == q.pred # Absent

(***************************************************************************)
(* planner.rs                                                              *)
(***************************************************************************)
Plan(op, k) == [op |-> op, k |-> k]

StatRows(stats)   == stats.rows
StatGroups(stats) == IF stats = NoStats THEN 1 ELSE stats.groups
StatSketch(stats) == IF stats = NoStats THEN << >> ELSE stats.sketch
Passing(stats, q) == IF ~Filters(q) \/ stats = NoStats THEN << 1, 1 >>
                     ELSE Selectivity(stats, q.pred)

\* Mutated form: the filter of a query is not looked at.
ViewPlansFiltered(q, views) ==
  LET serving == {i \in DOMAIN views : Serves(views[i], q.table, q.x, q.eps)}
  IN  {Plan("view", i) : i \in serving}

\* The first view of this very shape, for a query without a filter.
ViewPlans(q, views) ==
  LET serving == {i \in DOMAIN views : Serves(views[i], q.table, q.x, q.eps)}
      first   == CHOOSE i \in serving : \A j \in serving : i <= j
  IN  IF ~Bound(q) \/ Filters(q) \/ serving = {} THEN {} ELSE {Plan("view", first)}

\* A truncated scan under a declared budget that the sketch certifies.
ContractPlans(q, stats) ==
  LET sel  == Passing(stats, q)
      n    == (StatRows(stats) * sel[1]) \div sel[2]
      vals == stats.vals
      size(a) == IF a \in {PosInf, NegInf} THEN PosInf ELSE Larger(a, -a)
      est  == EstimateContract(StatSketch(stats), q.x, q.eps, q.budget,
                               Larger(size(vals.min), size(vals.max)), n)
  IN  IF q.budget = Absent \/ ~Bound(q) \/ StatSketch(stats) = << >> THEN {}
      ELSE IF est.limited \/ est.kstar >= n THEN {} ELSE {Plan("topk", est.kstar)}

\* An index probe: one group, eps above 0, and the first rung with a negligible tail.
ProbePlans(q, stats, indexed) ==
  LET sel   == Passing(stats, q)
      part  == << StatRows(stats) * sel[1], sel[2] >>
      n     == IF part[1] < part[2] THEN << 1, 1 >> ELSE part
      good  == {i \in DOMAIN KLadder :
                 /\ KLadder[i] * n[2] < n[1]
                 /\ PredictsTail(StatSketch(stats), q.x, q.eps, KLadder[i], n)}
      first == CHOOSE i \in good : \A j \in good : i <= j
  IN  IF \/ ~indexed \/ StatGroups(stats) > 1 \/ q.eps = EpsZero \/ ~Bound(q)
         \/ StatSketch(stats) = << >>
        THEN {} ELSE IF good = {} THEN {} ELSE {Plan("probe", KLadder[first])}

\* plan_with_indexes: the plans that are not inadmissible.  indexed: an index with live vectors.
Plans(q, stats, views, indexed) ==
  IF ~Soft(q) THEN {Plan("plain", 0)}
  ELSE {Plan("fused", 0)} \cup ViewPlans(q, views) \cup ContractPlans(q, stats)
         \cup ProbePlans(q, stats, indexed)

(***************************************************************************)
(* exec.rs                                                                 *)
(***************************************************************************)

\* eval_pred: the rows a predicate holds of; a comparison with NaN is false.
Holds(p, r) == r.v # NaN /\ IF p.op = ">=" THEN r.v >= p.c ELSE r.v = p.c

RowsIn(t, q, g) == {i \in DOMAIN t.rows : t.rows[i].g = g /\ (Filters(q) => Holds(q.pred, t.rows[i]))}

Admitted(t, q) == UNION {RowsIn(t, q, g) : g \in DOMAIN t.dict}

ScoreOf(r, q) == IF r.k = NaN THEN NaN ELSE r.k * q.x

\* Sums of w(i) * value over a set of rows: a NULL value is not skipped here.
Weighed(t, on, w) ==
  IF \E i \in on : t.rows[i].v = NaN THEN NaN
  ELSE << SumFunctionOnSet([i \in on |-> w[i] * t.rows[i].v], on), SumFunctionOnSet(w, on) >>

\* collect: the answers of the covered groups, under their labels.
Labelled(t, answers) == [l \in {t.dict[g] : g \in DOMAIN answers} |->
                          answers[CHOOSE g \in DOMAIN answers : t.dict[g] = l]]

\* The records a scan of the rows folds.
ScoredRows(t, q) == [i \in DOMAIN t.rows |-> [s |-> ScoreOf(t.rows[i], q), v |-> t.rows[i].v]]

\* FusedGroupScan: the kernel's fold of each group, for the groups it covers.
Fused(t, q) ==
  LET ans(g) == GroupedSoftavg(Select(ScoredRows(t, q), RowsIn(t, q, g)), q.eps)
  IN  Labelled(t, [g \in {h \in DOMAIN t.dict : ans(h) # None} |-> ans(g)])

\* ExactGroupAvg: sum over count, keys unread.
Plain(t, q) ==
  Labelled(t, [g \in {h \in DOMAIN t.dict : RowsIn(t, q, h) # {}} |->
                Weighed(t, RowsIn(t, q, g), [i \in RowsIn(t, q, g) |-> 1])])

\* Mutated form: the estimate is trusted and the group is not folded again.
WithinAlways(top, all, vmax, budget) == TRUE

\* The achieved bound of a group meets the budget.
Within(top, all, vmax, budget) == Certified(top, all, vmax, budget)

\* The largest size of a value; a NaN is passed over.
LargestValue(t) ==
  LET known == {t.rows[i].v : i \in DOMAIN t.rows} \ {NaN}
  IN  TopScore({0} \cup {Larger(v, -v) : v \in known})

\* exp((s - best) / eps) for some of the rows.
WeightsOf(t, q, on) ==
  LET best == TopScore({ScoreOf(t.rows[i], q) : i \in on})
  IN  [i \in on |-> Shrink(One, q.eps, best - ScoreOf(t.rows[i], q))]

\* The first k of some rows when they are sorted from the best score, equal ones in row order.
FirstOf(t, q, on, k) ==
  LET ahead(a, b) == \/ ScoreOf(t.rows[a], q) > ScoreOf(t.rows[b], q)
                     \/ ScoreOf(t.rows[a], q) = ScoreOf(t.rows[b], q) /\ a < b
  IN  {b \in on : Cardinality({a \in on : ahead(a, b)}) < k}

\* A group of the contracted scan: its best rows, or all of them where the bound misses.
ContractedGroup(t, q, on, kstar) ==
  LET w   == WeightsOf(t, q, on)
      kG  == Larger(CeilDiv(kstar * Cardinality(on), Cardinality(Admitted(t, q))), 1)
      top == FirstOf(t, q, on, kG)
  IN  Weighed(t, IF Within(SumFunctionOnSet(w, top), SumFunctionOnSet(w, on),
                           LargestValue(t), q.budget) THEN top ELSE on, w)

\* TopKContractScan.
Contracted(t, q, kstar) ==
  Labelled(t, [g \in {h \in DOMAIN t.dict : RowsIn(t, q, h) # {}} |->
                ContractedGroup(t, q, RowsIn(t, q, g), kstar)])

\* MaintainedViewScan.
ViewRead(t, v) == Labelled(t, [g \in Covered(v) |-> Ratio(v.groups[g].sum)])

\* HnswTopKScan, for the rows a probe hit: the fold over the hits, or over everything where
\* rows of two groups are admitted (Refused) or the achieved tail is not negligible.
ProbeFold(t, q, hits) ==
  LET n      == Cardinality(Admitted(t, q))
      scores == {ScoreOf(t.rows[i], q) : i \in hits}
      best   == TopScore(scores)
      worst  == CHOOSE s \in scores : \A u \in scores : s <= u
  IN  IF n = 0 THEN << >>
      ELSE IF Cardinality({t.rows[i].g : i \in Admitted(t, q)}) > 1 THEN Refused
      ELSE IF hits = {} THEN Fused(t, q)
      ELSE IF Cardinality(hits) < n /\ ~NegligibleTail(<< n, 1 >>, worst, best, q.eps) THEN Fused(t, q)
      ELSE Labelled(t, [g \in {t.rows[i].g : i \in hits} |-> Weighed(t, hits, WeightsOf(t, q, hits))])
=============================================================================
