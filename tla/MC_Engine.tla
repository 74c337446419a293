------------------------------ MODULE MC_Engine ------------------------------
(***************************************************************************)
(* Bounds for the parts of the read engine that do not call each other, or *)
(* do so through an interface the caller's module states: one run checks   *)
(* them all, and in each of its behaviours one part moves.                 *)
(***************************************************************************)
EXTENDS Kernels, Incremental, Database, Hnsw, MerkleLog, PgSoftAvg, Joins

CONSTANTS p, q, t1, v1

VARIABLE part

\* kernels: every kind of score and value; three records, cut anywhere.
MCRecords == [s : {0, 1, 3}, v : {1}]
  \cup {[s |-> a[1], v |-> a[2]] :
         a \in {<< 1, 0 >>, << 3, -1 >>, << NegInf, 2 >>, << PosInf, 1 >>, << PosInf, 0 >>,
                << NaN, 1 >>, << 1, NaN >>}}

MCTemperatures == {EpsZero, EpsInf, 1, 3}

\* aggregate: ids that are inserted again, keys of either sign, a match and none.
MCKeys == {-1, 1, 3}

MCIncEps == {EpsZero, EpsInf, 1, 2}

\* database: an empty table, a keyed row, a row with NULLs in an unkeyed table.
MCContents ==
  {[rows |-> << >>, dict |-> << >>, key |-> "F64"],
   [rows |-> << [g |-> 1, v |-> 2, k |-> 0] >>, dict |-> << p >>, key |-> "F64"],
   [rows |-> << [g |-> 1, v |-> NaN, k |-> NaN] >>, dict |-> << p >>, key |-> "none"]}

MCNewRows == {[label |-> p, v |-> -1, k |-> 0], [label |-> q, v |-> 4, k |-> 6],
              [label |-> q, v |-> 1, k |-> 0]}

Ge(c) == [op |-> ">=", col |-> "v", c |-> c]
Eq(c) == [op |-> "=", col |-> "v", c |-> c]

MCPreds == {Ge(2), Eq(-1), Ge(-1)}

Ask1(x, eps, budget, pred) == [table |-> t1, kind |-> "Dot", x |-> x, eps |-> eps,
                               budget |-> budget, pred |-> pred]

\* Every plan is admissible for some, and every refusal happens to some.
MCQueries ==
  {Ask1(1, 1, Absent, Absent), Ask1(1, 1, 1, Absent), Ask1(1, 1, 1, Ge(0)),
   Ask1(-1, 1, Absent, Absent), Ask1(1, EpsZero, 1, Ge(-1)), Ask1(1, EpsInf, Absent, Eq(4)),
   Ask1(Unbound, 1, 1, Absent), Ask1(WrongDim, 1, 1, Absent),
   [Ask1(1, 1, 1, Absent) EXCEPT !.kind = "NegSq"],
   Ask1(1, 1, 1, [op |-> ">=", col |-> "k", c |-> 0])}

MCLadder == << 2 >>

\* index: six nodes, so that a lowest list is cut at its degree of four; two upper nodes.
MCNodeKeys == {<< 2, 0 >>, << 0, 2 >>, << 1, 1 >>}
MCLevels   == << 0, 1, 0, 0, 1, 0 >>

MCProbes == {[q |-> << 1, 0 >>, k |-> 2, ef |-> 1, accept |-> AnyId],
             [q |-> << 1, 2 >>, k |-> 2, ef |-> 4, accept |-> AnyId],
             [q |-> << 1, 2 >>, k |-> 2, ef |-> 1, accept |-> {1, 3, 5}],
             [q |-> << 1, 0 >>, k |-> 2, ef |-> 3, accept |-> {3, 4, 6}]}

\* sql: NULLs, NaN, infinities, and temperatures that differ or are refused.
MCPgRows ==
  {[v |-> a[1], s |-> a[2], eps |-> a[3]] :
     a \in {<< 1, 0, 1 >>, << 2, 3, 1 >>, << 1, PosInf, 1 >>, << 3, NegInf, 1 >>, << NaN, 1, 1 >>,
           << SqlNull, 1, BadEps >>, << 1, 1, BadEps >>, << 2, 0, EpsZero >>, << 4, 3, EpsZero >>,
           << 2, NegInf, EpsInf >>}}

-----------------------------------------------------------------------------
engineVars == << part, recs, incVars, dbVars, hnswVars, merkleVars, pgVars, joinVars >>

\* A part that does not move has one initial state.
Init ==
  /\ part \in {"kernels", "aggregate", "database", "index", "audit", "sql", "joins"}
  /\ PgInit /\ JoinInit /\ KernelInit /\ IncInit /\ DbInit /\ HnswInit /\ MerkleInit
  /\ part # "aggregate" => sim = "Dot" /\ temp = EpsZero
  /\ part # "index" => selection = "KeepBest"

Next ==
  /\ UNCHANGED part
  /\ \/ part = "kernels" /\ KernelNext
        /\ UNCHANGED << incVars, dbVars, hnswVars, merkleVars, pgVars, joinVars >>
     \/ part = "aggregate" /\ IncNext
        /\ UNCHANGED << recs, dbVars, hnswVars, merkleVars, pgVars, joinVars >>
     \/ part = "database" /\ DbNext
        /\ UNCHANGED << recs, incVars, hnswVars, merkleVars, pgVars, joinVars >>
     \/ part = "index" /\ HnswNext
        /\ UNCHANGED << recs, incVars, dbVars, merkleVars, pgVars, joinVars >>
     \/ part = "audit" /\ MerkleNext
        /\ UNCHANGED << recs, incVars, dbVars, hnswVars, pgVars, joinVars >>
     \/ part = "sql" /\ PgNext
        /\ UNCHANGED << recs, incVars, dbVars, hnswVars, merkleVars, joinVars >>
     \/ part = "joins" /\ JoinNext
        /\ UNCHANGED << recs, incVars, dbVars, hnswVars, merkleVars, pgVars >>

Spec == Init /\ [][Next]_engineVars
=============================================================================
