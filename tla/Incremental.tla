---------------------------- MODULE Incremental ----------------------------
(***************************************************************************)
(* IncrementalMemory (crud.rs): the attention answer of one fixed query,   *)
(* kept as (m, num, den) under insert, delete and update instead of being  *)
(* computed from the live records.                                         *)
(*                                                                         *)
(* The query is 1 and keys are odd integers, so that half a squared        *)
(* distance is an integer.                                                 *)
(***************************************************************************)
EXTENDS AnchoredSum

CONSTANTS LiveIds, Keys, Values, Sims, IncEps

X == 1

\* -inf is the score of a key that an indicator does not match.
ScoreBy(kind, k) == CASE kind = "Dot"        -> X * k
                      [] kind = "NegSquared" -> -((X - k) * (X - k)) \div 2
                      [] kind = "Indicator"  -> IF X = k THEN 0 ELSE NegInf

\* Keys and values are numbers, and scores lie close enough to each other for exact weights.
ASSUME IncAssumption ==
  /\ Sims \subseteq {"Dot", "NegSquared", "Indicator"} /\ Values \subseteq Int
  /\ \A eps \in IncEps : eps \in Nat \cup {EpsZero}
  /\ \A kind \in Sims, k \in Keys : LET s == ScoreBy(kind, k) IN
       s \in NegInf..PosInf /\ s # PosInf /\ (s = NegInf => kind = "Indicator")
  /\ \A kind \in Sims, k, j \in Keys, eps \in IncEps :
       LET s == ScoreBy(kind, k) u == ScoreBy(kind, j) IN
       IsSoft(eps) /\ NegInf \notin {s, u} => eps * (s - u) <= Spread
  /\ NaN \notin Int \X Int /\ NaN # None

VARIABLES sim,     \* the similarity and
          temp,    \* the temperature of this memory
          live,    \* id -> [s, v]
          state    \* [m, num, den]

incVars == << sim, temp, live, state >>

Score(k) == ScoreBy(sim, k)

IncInit == /\ sim \in Sims
           /\ temp \in IncEps
           /\ live = << >>
           /\ state = EmptySum

InsertTropical(st, s, v) ==
  IF s = NegInf THEN st
  ELSE Plus(IF s > st.m THEN [EmptySum EXCEPT !.m = s] ELSE st,
            IF s >= st.m THEN One ELSE 0, v)

\* The whole sum again, from the records in l.
Recomputed(l) ==
  LET top == IF l = << >> THEN NegInf ELSE TopScore({l[i].s : i \in DOMAIN l})
      w(r) == IF temp # EpsZero THEN Weight(r.s, top, temp) ELSE IF r.s = top THEN One ELSE 0
  IN  FoldLeft(LAMBDA st, i : Plus(st, w(l[i]), l[i].v),
               [EmptySum EXCEPT !.m = top], SetToSeq(DOMAIN l))

\* Mutated form: the max that left stays the anchor while other records remain.
DeletedUnlessEmpty(st, r, rest) ==
  IF temp = EpsZero /\ r.s # st.m THEN st
  ELSE IF rest = << >> THEN Recomputed(rest)
  ELSE IF temp = EpsZero THEN Plus(st, -One, r.v) ELSE Subtracted(st, r.s, r.v, temp)

\* What deleting record r leaves, where rest are the other live records.
Deleted(st, r, rest) ==
  LET less == IF temp = EpsZero THEN Plus(st, -One, r.v) ELSE Subtracted(st, r.s, r.v, temp)
  IN  IF temp = EpsZero /\ r.s # st.m THEN st
      ELSE IF (temp = EpsZero /\ less.den = 0) \/ (temp # EpsZero /\ Anchors(st, r.s))
        THEN Recomputed(rest) ELSE less

With(l, id, r)  == [i \in DOMAIN l \cup {id} |-> IF i = id THEN r ELSE l[i]]
Without(l, id)  == [i \in DOMAIN l \ {id} |-> l[i]]

Inserted(st, s, v) ==
  IF temp = EpsZero THEN InsertTropical(st, s, v) ELSE Added(st, s, v, temp)

\* A key or value of another dimension, or a live id, is refused.
Insert(id, k, v) ==
  /\ id \notin DOMAIN live
  /\ live' = With(live, id, [s |-> Score(k), v |-> v])
  /\ state' = Inserted(state, Score(k), v)
  /\ UNCHANGED << sim, temp >>

Delete(id) ==
  /\ id \in DOMAIN live
  /\ live' = Without(live, id)
  /\ state' = Deleted(state, live[id], live')
  /\ UNCHANGED << sim, temp >>

\* The key is gone when the new row is refused for its dimension: then update is a delete.
Update(id, k, v) ==
  /\ id \in DOMAIN live
  /\ LET rest == Without(live, id)
     IN  /\ live' = With(rest, id, [s |-> Score(k), v |-> v])
         /\ state' = Inserted(Deleted(state, live[id], rest), Score(k), v)
  /\ UNCHANGED << sim, temp >>

\* Bound: at eps = 0 a record that never counted is subtracted when it leaves while no record
\* matches, and the denominator may go below zero this far.
MaxDrift == One

IncNext == \E id \in LiveIds :
             \/ \E k \in Keys, v \in Values : Insert(id, k, v)
             \/ /\ state.den # NaN => state.den >= -MaxDrift
                /\ Delete(id) \/ \E k \in Keys, v \in Values : Update(id, k, v)

IncSpec == IncInit /\ [][IncNext]_incVars

Output == Ratio(state)

(***************************************************************************)
(* Properties                                                              *)
(***************************************************************************)

\* After any inserts, updates and deletes, of the running max too, the answer kept is the
\* average of the live records.  Where a record scores -inf it need not be: above eps = 0 the
\* sums may be NaN, and at eps = 0 records without a match are averaged.
IncrementalExact ==
  LET scores == {live[i].s : i \in DOMAIN live}
  IN  /\ sim # "Indicator" => Output # NaN
      /\ Output = NaN \/ (temp = EpsZero /\ scores = {NegInf})
           \/ SameAnswer(Output, AverageOf(live, DOMAIN live, temp))
=============================================================================
