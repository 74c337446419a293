------------------------------ MODULE SoftAvg -------------------------------
(***************************************************************************)
(* The fold behind SOFTAVG (mask.rs): the accumulator (mu, z, u) of the    *)
(* max-shifted representation, and the definition it has to agree with.    *)
(*                                                                         *)
(* exp is taken to base 2 and scores are integers, so that a weight        *)
(* exp((s - mu) / eps) is 2^(beta * (s - mu)) with beta = 1 / eps, and the *)
(* arithmetic is exact: z and u count in units of 2^-Spread.  A score      *)
(* beyond every finite one stands for an infinity; NaN is a value of its   *)
(* own, the engine's NULL.  One component of a value vector is modelled:   *)
(* the code treats the components alike.                                   *)
(***************************************************************************)
EXTENDS Integers, Sequences, FiniteSets, SequencesExt

CONSTANTS NaN,
          Spread,    \* bound: beta times the distance of two finite scores
          Infinity   \* bound: past every finite score, on either side

ASSUME SoftAvgAssumption == Spread \in Nat /\ Infinity \in Nat \ {0} /\ NaN \notin Int

Pow2[n \in Nat] == IF n = 0 THEN 1 ELSE 2 * Pow2[n - 1]

One    == Pow2[Spread]
PosInf == Infinity
NegInf == -Infinity

Finite(s) == s # NaN /\ s \notin {PosInf, NegInf}

\* Temperatures, by beta = 1 / eps: Eps::INF is 0, and Eps::ZERO has none.
EpsZero == -1
EpsInf  == 0

IsSoft(eps) == eps > 0

\* Powers of two that need no exponent below zero.
Shrink(x, eps, drop) == x \div Pow2[eps * drop]

NewAcc   == [mu |-> NegInf, z |-> 0, u |-> 0]
IsEmpty(acc) == acc.z = 0

Larger(a, b) == IF a >= b THEN a ELSE b

\* A first record, and one more record of the weight the anchor has.
Alone(s, v)   == [mu |-> s, z |-> One, u |-> One * v]
Tied(acc, v)  == [acc EXCEPT !.z = @ + One, !.u = @ + One * v]

\* Mutated form: the side with the smaller anchor is added as it is.
AddedUnscaled(a, b, eps) == [mu |-> Larger(a.mu, b.mu), z |-> a.z + b.z, u |-> a.u + b.u]

\* Both sides re-based to the larger anchor, and added.
Rebased(a, b, eps) ==
  LET mu == Larger(a.mu, b.mu)
  IN  [mu |-> mu,
       z  |-> Shrink(a.z, eps, mu - a.mu) + Shrink(b.z, eps, mu - b.mu),
       u  |-> Shrink(a.u, eps, mu - a.mu) + Shrink(b.u, eps, mu - b.mu)]

\* The argmax set: a higher anchor replaces what there is, an equal one adds.
Argmax(acc, s, v) ==
  IF s > acc.mu THEN Alone(s, v) ELSE IF s = acc.mu THEN Tied(acc, v) ELSE acc

\* RowAcc::absorb: one record.
Absorb(acc, s, v, eps) ==
  CASE eps = EpsInf                                        -> Tied(acc, v)
    [] eps # EpsInf /\ s = NegInf                          -> acc
    [] eps # EpsInf /\ s # NegInf
         /\ (eps = EpsZero \/ PosInf \in {s, acc.mu})      -> Argmax(acc, s, v)
    [] OTHER -> IF IsEmpty(acc) THEN Alone(s, v) ELSE Rebased(acc, Alone(s, v), eps)

\* RowAcc::merge: two accumulators of disjoint sets of records.
MergeAcc(a, b, eps) ==
  CASE IsEmpty(b) -> a
    [] IsEmpty(a) /\ ~IsEmpty(b) -> b
    [] OTHER ->
         IF eps = EpsInf THEN [a EXCEPT !.z = @ + b.z, !.u = @ + b.u]
         ELSE IF eps = EpsZero \/ PosInf \in {a.mu, b.mu}
           THEN IF a.mu = b.mu THEN [a EXCEPT !.z = @ + b.z, !.u = @ + b.u]
                ELSE IF a.mu > b.mu THEN a ELSE b
           ELSE Rebased(a, b, eps)

\* A fraction <<numerator, denominator>>, or None where nothing was absorbed.
None == << >>

Finalize(acc) == IF IsEmpty(acc) THEN None ELSE << acc.u, acc.z >>

SameAnswer(a, b) == IF None \in {a, b} THEN a = b ELSE a[1] * b[2] = b[1] * a[2]

\* A record [s, v] with a NULL on either side is skipped, whatever eps is.
IsNull(r) == r.s = NaN \/ r.v = NaN

FoldRecords(recs, eps) ==
  FoldLeft(LAMBDA acc, r : IF IsNull(r) THEN acc ELSE Absorb(acc, r.s, r.v, eps),
           NewAcc, recs)

\* grouped_softavg and grouped_softavg_f32: the rows of one group; None is not covered.
GroupedSoftavg(recs, eps) == Finalize(FoldRecords(recs, eps))

(***************************************************************************)
(* The definition: the weighted average over the records with a weight.    *)
(***************************************************************************)
TopScore(S) == CHOOSE s \in S : \A t \in S : t <= s

\* The records of K that have a weight, and their weights below the highest score among them:
\* those of the argmax set alone at eps = 0, or where a score is infinite.
Weighty(recs, K, eps) == {i \in K : ~IsNull(recs[i]) /\ (eps = EpsInf \/ recs[i].s # NegInf)}

Sharp(top, eps) == eps = EpsZero \/ (eps # EpsInf /\ top = PosInf)

WeightBelow(top, s, eps) == IF Sharp(top, eps) THEN (IF s = top THEN One ELSE 0)
                            ELSE IF eps = EpsInf THEN One ELSE Shrink(One, eps, top - s)

\* The average over the records of K.
AverageOf(recs, K, eps) ==
  LET W   == Weighty(recs, K, eps)
      top == TopScore({recs[i].s : i \in W})
      w   == [i \in W |-> WeightBelow(top, recs[i].s, eps)]
  IN  IF W = {} THEN None
      ELSE << SumFunctionOnSet([i \in W |-> w[i] * recs[i].v], W), SumFunctionOnSet(w, W) >>

SoftAverage(recs, eps) == AverageOf(recs, DOMAIN recs, eps)
=============================================================================
