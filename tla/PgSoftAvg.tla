----------------------------- MODULE PgSoftAvg ------------------------------
(***************************************************************************)
(* softavg(value, score, eps), the PostgreSQL aggregate (bruce-pg lib.rs): *)
(* the accumulator of the scan kernels with a sticky NaN bit, carried      *)
(* through SQL as float8[5], folded by parallel workers and combined.      *)
(*                                                                         *)
(* PostgreSQL hands every row to one worker and combines the partial       *)
(* states in the order the workers finish.  NaN is a value here, and NULL  *)
(* is not; BadEps stands for a negative or NaN temperature.                *)
(***************************************************************************)
EXTENDS SoftAvg

CONSTANTS PgRows,       \* [v, s, eps]
          Workers, MaxPgRows,
          SqlNull, BadEps, PgError

\* A value or score is a number, NaN or NULL; the scores of one temperature lie close enough for
\* exact weights; and no state and no answer is mistaken for NULL, NaN or an error.
ASSUME PgAssumption ==
  /\ \A r \in PgRows : /\ r.v \in {NaN, SqlNull} \/ r.v \in Int
                       /\ r.s \in {NaN, SqlNull} \/ r.s \in NegInf..PosInf
                       /\ r.eps \in {SqlNull, BadEps} \/ r.eps \in Nat \cup {EpsZero}
  /\ \A q, r \in PgRows : /\ q.eps = r.eps /\ q.eps \notin {SqlNull, BadEps}
                          /\ SqlNull \notin {q.s, r.s} /\ Finite(q.s) /\ Finite(r.s)
                          /\ IsSoft(q.eps)
                          => q.eps * (q.s - r.s) <= Spread
  /\ PgError # SqlNull
  /\ \A x \in {SqlNull, PgError} : x \notin Int \X Int \X Int \X Int \X Int
  /\ \A x \in {SqlNull, NaN} : x \notin Int \X Int

VARIABLES scanned,      \* history: the rows handed out
          partial,      \* worker -> its state, NULL at first
          working,      \* workers whose state was not combined yet
          group         \* the leader's state

pgVars == << scanned, partial, working, group >>

PgInit == /\ scanned = << >>
          /\ partial = [w \in Workers |-> SqlNull]
          /\ working = Workers
          /\ group = SqlNull

\* The state as SQL carries it, and as the support functions use it.
Encode(a, eps) == << a.acc.mu, a.acc.z, a.acc.u, eps, IF a.nan THEN 1 ELSE 0 >>
Decode(st)     == [acc |-> [mu |-> st[1], z |-> st[2], u |-> st[3]], nan |-> st[5] # 0]
EpsOf(st)      == st[4]

NewPgAcc == [acc |-> NewAcc, nan |-> FALSE]

PgAbsorb(a, s, v, eps) ==
  IF NaN \in {s, v} THEN [a EXCEPT !.nan = TRUE] ELSE [a EXCEPT !.acc = Absorb(@, s, v, eps)]

\* Mutated form: the sticky bit of the other side is lost.
PgMergeOwnBit(a, b, eps) == [a EXCEPT !.acc = MergeAcc(@, b.acc, eps)]

PgMerge(a, b, eps) == [acc |-> MergeAcc(a.acc, b.acc, eps), nan |-> a.nan \/ b.nan]

Qualifies(row) == SqlNull \notin {row.v, row.s}

\* bruce_softavg_sfunc.
SFunc(st, row) ==
  LET a == IF st = SqlNull THEN NewPgAcc ELSE Decode(st)
  IN  IF ~Qualifies(row) THEN st
      ELSE IF row.eps \in {SqlNull, BadEps} THEN PgError
      ELSE IF st # SqlNull /\ (st # SqlNull => EpsOf(st) # row.eps) THEN PgError
      ELSE Encode(PgAbsorb(a, row.s, row.v, row.eps), row.eps)

\* bruce_softavg_combine.
CombineFunc(a, b) ==
  IF b = SqlNull THEN a
  ELSE IF a = SqlNull THEN b
  ELSE IF EpsOf(a) # EpsOf(b) THEN PgError
  ELSE Encode(PgMerge(Decode(a), Decode(b), EpsOf(a)), EpsOf(a))

\* bruce_softavg_final: a fraction, NaN or NULL.
FinalFunc(st) ==
  IF st = SqlNull THEN SqlNull
  ELSE IF Decode(st).nan THEN NaN
  ELSE IF Finalize(Decode(st).acc) = None THEN SqlNull ELSE Finalize(Decode(st).acc)

\* An error aborts the query.
Aborted == PgError \in {group} \cup {partial[w] : w \in Workers}

ScanRow(w, row) ==
  /\ ~Aborted /\ w \in working /\ Len(scanned) < MaxPgRows
  /\ scanned' = Append(scanned, row)
  /\ partial' = [partial EXCEPT ![w] = SFunc(@, row)]
  /\ UNCHANGED << working, group >>

Gather(w) ==
  /\ ~Aborted /\ w \in working
  /\ working' = working \ {w}
  /\ group' = CombineFunc(group, partial[w])
  /\ UNCHANGED << scanned, partial >>

PgNext == \E w \in Workers : Gather(w) \/ \E row \in PgRows : ScanRow(w, row)

PgSpec == PgInit /\ [][PgNext]_pgVars

(***************************************************************************)
(* Properties                                                              *)
(***************************************************************************)

\* However the rows are split over the workers and in whatever order the states come back, a
\* query that returns gives what one scan means: NaN where a qualifying row holds one, else the
\* weighted average, NULL where no row has a weight; and it returns just where the qualifying
\* rows agree on a legal temperature.
ParallelIsSerial ==
  LET asked  == {i \in DOMAIN scanned : Qualifies(scanned[i])}
      temps  == {scanned[i].eps : i \in asked}
      legal  == Cardinality(temps) <= 1 /\ temps \cap {SqlNull, BadEps} = {}
      hasNaN == \E i \in asked : NaN \in {scanned[i].v, scanned[i].s}
      mean   == AverageOf(scanned, asked, CHOOSE e \in temps : TRUE)
      got    == FinalFunc(group)
  IN  /\ Aborted => ~legal
      /\ working = {} /\ ~Aborted =>
           /\ legal
           /\ IF asked = {} THEN got = SqlNull
              ELSE IF hasNaN THEN got = NaN
              ELSE IF mean = None THEN got = SqlNull
              ELSE got \notin {SqlNull, NaN} /\ SameAnswer(got, mean)
=============================================================================
