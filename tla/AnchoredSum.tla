---------------------------- MODULE AnchoredSum ----------------------------
(***************************************************************************)
(* The state (m, num, den) that both maintained forms of SOFTAVG keep: the *)
(* IncrementalMemory (crud.rs) and a group of a maintained view (views.rs).*)
(* Unlike the accumulator of the scan kernels it is subtracted from, and   *)
(* it does not skip a NULL: num or den are NaN from there on.              *)
(***************************************************************************)
EXTENDS SoftAvg

EmptySum == [m |-> NegInf, num |-> 0, den |-> 0]

AddNum(a, b)         == IF NaN \in {a, b} THEN NaN ELSE a + b
ShrinkNum(a, eps, d) == IF a = NaN THEN NaN ELSE Shrink(a, eps, d)

\* exp((s - m) / eps): -inf over itself, or over inf, has no value.
Weight(s, m, eps) ==
  CASE s = NegInf /\ (m = NegInf \/ eps = EpsInf) -> NaN
    [] s = NegInf /\ m # NegInf /\ eps # EpsInf   -> 0
    [] OTHER -> Shrink(One, eps, m - s)

\* w * v added to the numerator and w to the denominator.
Plus(st, w, v) ==
  [st EXCEPT !.num = AddNum(@, IF NaN \in {w, v} THEN NaN ELSE w * v), !.den = AddNum(@, w)]

\* The running max raised to s, and what was summed so far re-based to it.
Raised(st, s, eps) ==
  IF s <= st.m THEN st
  ELSE IF st.m = NegInf THEN [st EXCEPT !.m = s]
  ELSE [m |-> s, num |-> ShrinkNum(st.num, eps, s - st.m),
        den |-> ShrinkNum(st.den, eps, s - st.m)]

Added(st, s, v, eps) == LET up == Raised(st, s, eps) IN Plus(up, Weight(s, up.m, eps), v)

Subtracted(st, s, v, eps) ==
  LET w == Weight(s, st.m, eps) IN Plus(st, IF w = NaN THEN NaN ELSE -w, v)

\* The record that leaves scored the running max: the anchor is stale.
Anchors(st, s) == s >= st.m

Ratio(st) == IF NaN \in {st.num, st.den} THEN NaN
             ELSE IF st.den <= 0 THEN None ELSE << st.num, st.den >>
=============================================================================
