------------------------------ MODULE Database ------------------------------
(***************************************************************************)
(* The Database of the query layer (db.rs), behind a QuerySession (lib.rs  *)
(* of bruce-py) or the Flight server: catalog, statistics with their       *)
(* staleness, the maintained views and the row indexes, kept in step by    *)
(* the write path, and the queries that read them.                         *)
(*                                                                         *)
(* An index is kept here as the rows it maps; the graph of hnsw.rs is what *)
(* an external module does, from how db.rs and exec.rs use it: a probe     *)
(* finds some of the live vectors.  Operations that fail change nothing    *)
(* and are left out.  Statistics in the stale set are never read, and the  *)
(* model does not remember them.                                           *)
(***************************************************************************)
EXTENDS QueryPlans

CONSTANTS Tables, Contents,     \* table names, and what may be registered
          NewRows,              \* rows inserted: [label, v, k]
          KeyValues,            \* entries of an attached key column
          ViewNames, ViewXs, ViewEps,
          Preds, Queries,
          MaxRows, MaxIds,      \* bounds: rows of a table, ids ever given by an index
          Tombstone, Stale, NoQuery

\* What a registered table may hold.
Scalars == Int \cup {NaN}
Labels  == {new.label : new \in NewRows}
             \cup UNION {{c.dict[g] : g \in DOMAIN c.dict} : c \in Contents}
DbRow   == [g : Nat, v : Scalars, k : Scalars]
Table   == [rows : Seq(DbRow), dict : Seq(Labels), key : {"none", "F32", "F64"}]

ASSUME DatabaseAssumption ==
  /\ Contents \subseteq Table
  /\ \A new \in NewRows : new.v \in Scalars /\ new.k \in Scalars
  /\ KeyValues \subseteq Scalars

\* The values and the keys that ever get into a table, other than by no key at all.
WrittenValues == {new.v : new \in NewRows}
                   \cup UNION {{c.rows[i].v : i \in DOMAIN c.rows} : c \in Contents}
WrittenKeys   == KeyValues \cup {new.k : new \in NewRows}
                   \cup UNION {{c.rows[i].k : i \in DOMAIN c.rows} : c \in {d \in Contents : d.key # "none"}}

\* Rows carry codes of their dictionary and keys are numbers; the scores a view gives them are
\* finite, and close enough to each other for exact weights.
ASSUME ViewAssumption ==
  /\ \A c \in Contents : \A i \in DOMAIN c.rows : c.rows[i].g \in DOMAIN c.dict
  /\ WrittenKeys \subseteq Int /\ ViewXs \subseteq Int /\ ViewEps \subseteq Nat \cup {EpsZero}
  /\ \A x \in ViewXs, k \in WrittenKeys : NegInf < k * x /\ k * x < PosInf
  /\ \A x \in ViewXs, k, j \in WrittenKeys, eps \in ViewEps :
       IsSoft(eps) => eps * (k * x - j * x) <= Spread

\* Labels of a dictionary differ, as ingest and insert_row make it.  A query compares a value
\* with a number and declares no budget below 0; its scores are finite, and close enough.
ASSUME QueryAssumption ==
  /\ NaN \notin Int \X Int /\ TailExp \in Nat /\ HistBuckets \in Nat \ {0}
  /\ \A c \in Contents : \A g, h \in DOMAIN c.dict : c.dict[g] = c.dict[h] => g = h
  /\ \A q \in Queries :
       /\ q.x \in Int \cup {Unbound, WrongDim} /\ q.eps \in Nat \cup {EpsZero}
       /\ q.budget \in Nat \cup {Absent}
       /\ Filters(q) => q.pred.op \in {">=", "="} /\ q.pred.c \in Int
       /\ q.x \in Int => \A k, j \in WrittenKeys :
            /\ NegInf < k * q.x /\ k * q.x < PosInf
            /\ IsSoft(q.eps) => q.eps * (k * q.x - j * q.x) <= Spread

VARIABLES catalog,   \* table -> [rows, dict, key]
          stats,     \* table -> what CollectStats gave, or Stale: to be collected again
          views,     \* sequence of views
          indexes,   \* table -> [vectors, dead, rowIds, idToRow]
          answer,    \* the last query, what it was answered and the rows it was about
          outdated   \* history: [views, indexes] whose table was given other keys since

dbVars == << catalog, stats, views, indexes, answer, outdated >>

Nothing == [query |-> NoQuery]

DbInit == /\ catalog = << >> /\ stats = << >>
          /\ views = << >> /\ indexes = << >>
          /\ answer = Nothing
          /\ outdated = [views |-> {}, indexes |-> {}]

Bind(f, t, x) == [u \in DOMAIN f \cup {t} |-> IF u = t THEN x ELSE f[u]]
Drop(f, t)    == [u \in DOMAIN f \ {t} |-> f[u]]

(***************************************************************************)
(* Definition                                                              *)
(***************************************************************************)

\* register: create or replace.
Register(t, c) ==
  /\ catalog' = Bind(catalog, t, c)
  /\ stats' = Bind(stats, t, CollectStats(c))
  /\ views' = IF t \in DOMAIN catalog THEN Select(views, {i \in DOMAIN views : views[i].table # t}) ELSE views
  /\ indexes' = Drop(indexes, t)
  /\ outdated' = [views   |-> {views'[i].name : i \in DOMAIN views'} \cap outdated.views,
                  indexes |-> DOMAIN indexes' \cap outdated.indexes]
  /\ UNCHANGED answer

\* A table with a key column.
Keyed(tab, ks, dtype) ==
  [rows |-> [i \in DOMAIN tab.rows |-> [tab.rows[i] EXCEPT !.k = ks[i]]],
   dict |-> tab.dict, key |-> dtype]

\* The names of the views of a table.
ViewsOf(t) == {views[i].name : i \in {j \in DOMAIN views : views[j].table = t}}

\* A view or an index built before other keys were attached is not built again by it.
Outdate(t) == outdated' = [views   |-> outdated.views \cup ViewsOf(t),
                           indexes |-> outdated.indexes \cup ({t} \cap DOMAIN indexes)]

\* Mutated form: the statistics are not marked.
AttachUnmarked(t, ks, dtype) ==
  /\ catalog' = [catalog EXCEPT ![t] = Keyed(@, ks, dtype)]
  /\ Outdate(t)
  /\ UNCHANGED << stats, views, indexes, answer >>

\* attach_key: a first key column, or another one in its place.  Bound: a table has one key
\* column, of one dimension.
AttachKey(t, ks, dtype) ==
  /\ catalog' = [catalog EXCEPT ![t] = Keyed(@, ks, dtype)]
  /\ stats' = [stats EXCEPT ![t] = Stale]
  /\ Outdate(t)
  /\ UNCHANGED << views, indexes, answer >>

CreateView(name, t, x, eps) ==
  /\ \A i \in DOMAIN views : views[i].name # name
  /\ catalog[t].key # "none"
  /\ eps # EpsZero
  /\ views' = Append(views, BuildView(name, t, catalog[t], x, eps))
  /\ outdated' = [outdated EXCEPT !.views = @ \ {name}]
  /\ UNCHANGED << catalog, stats, indexes, answer >>

\* create_index: ids are the row positions at build time.
CreateIndex(t) ==
  /\ t \notin DOMAIN indexes
  /\ catalog[t].key = "F64"
  /\ LET ks == Column(catalog[t], "k")
     IN  indexes' = Bind(indexes, t,
           [vectors |-> ks, dead |-> {}, rowIds |-> [i \in DOMAIN ks |-> i],
            idToRow |-> [i \in DOMAIN ks |-> i]])
  /\ outdated' = [outdated EXCEPT !.indexes = @ \ {t}]
  /\ UNCHANGED << catalog, stats, views, answer >>

(***************************************************************************)
(* Writes                                                                  *)
(***************************************************************************)
CodeOf(dict, label) == CHOOSE g \in DOMAIN dict : dict[g] = label

Known(dict, label) == \E g \in DOMAIN dict : dict[g] = label

\* The index side of insert_row: the vector takes the next id and the row the next position.
Extended(ix, k) ==
  [vectors |-> Append(ix.vectors, k), dead |-> ix.dead,
   rowIds  |-> Append(ix.rowIds, Len(ix.vectors) + 1),
   idToRow |-> Append(ix.idToRow, Len(ix.rowIds) + 1)]

\* insert_row: the row, its view deltas, its index deltas.
InsertRow(t, new) ==
  LET tab  == catalog[t]
      dict == IF Known(tab.dict, new.label) THEN tab.dict ELSE Append(tab.dict, new.label)
      row  == [g |-> CodeOf(dict, new.label), v |-> new.v,
               k |-> IF tab.key = "none" THEN NaN ELSE new.k]
  IN  /\ Len(tab.rows) < MaxRows
      /\ t \in DOMAIN indexes => Len(indexes[t].vectors) < MaxIds
      /\ catalog' = [catalog EXCEPT ![t] =
                        [rows |-> Append(tab.rows, row), dict |-> dict, key |-> tab.key]]
      /\ views' = [i \in DOMAIN views |->
                    IF views[i].table = t THEN ApplyInsert(views[i], row) ELSE views[i]]
      /\ indexes' = IF t \notin DOMAIN indexes THEN indexes
                    ELSE [indexes EXCEPT ![t] = Extended(@, row.k)]
      /\ stats' = [stats EXCEPT ![t] = Stale]
      /\ UNCHANGED << answer, outdated >>

\* Mutated form: doomed ids are tombstoned, the surviving ones keep their row positions.
RemapNothing(ix, doomed) ==
  LET gone == {ix.rowIds[r] : r \in doomed}
  IN  [ix EXCEPT !.dead = @ \cup gone,
         !.rowIds = Select(@, DOMAIN @ \ doomed),
         !.idToRow = [id \in DOMAIN @ |-> IF id \in gone THEN Tombstone ELSE @[id]]]

\* The index side of delete_where: doomed ids are tombstoned, the others find their rows.
Remap(ix, doomed) ==
  LET gone == {ix.rowIds[r] : r \in doomed}
      rest == Select(ix.rowIds, DOMAIN ix.rowIds \ doomed)
  IN  [vectors |-> ix.vectors, dead |-> ix.dead \cup gone, rowIds |-> rest,
       idToRow |-> [id \in DOMAIN ix.idToRow |->
                     IF id \in gone THEN Tombstone
                     ELSE IF \E r \in DOMAIN rest : rest[r] = id
                            THEN CHOOSE r \in DOMAIN rest : rest[r] = id ELSE ix.idToRow[id]]]

\* delete_where: the rows, the view deltas against the survivors, the index deltas.
DeleteWhere(t, p) ==
  LET rows   == catalog[t].rows
      doomed == {i \in DOMAIN rows : Holds(p, rows[i])}
      gone   == Select(rows, doomed)
      rest   == Select(rows, DOMAIN rows \ doomed)
  IN  /\ p.col = "v" /\ doomed # {}
      /\ catalog' = [catalog EXCEPT ![t] = [@ EXCEPT !.rows = rest]]
      /\ views' = [i \in DOMAIN views |->
                    IF views[i].table = t THEN DeleteRows(views[i], gone, rest) ELSE views[i]]
      /\ indexes' = IF t \notin DOMAIN indexes THEN indexes
                    ELSE [indexes EXCEPT ![t] = Remap(@, doomed)]
      /\ stats' = [stats EXCEPT ![t] = Stale]
      /\ UNCHANGED << answer, outdated >>

(***************************************************************************)
(* Queries                                                                 *)
(***************************************************************************)
LiveIn(ix) == DOMAIN ix.vectors \ ix.dead

\* The rows a probe of k may come back with: some of the live vectors, then the filter.
ProbeHits(t, q, k) ==
  LET ix == indexes[t]
  IN  {{ix.idToRow[id] : id \in ids} \cap Admitted(catalog[t], q) :
         ids \in {s \in SUBSET LiveIn(ix) : Cardinality(s) <= k}}

\* validate_run and the executor's own checks, for the plans that score rows.
Refuses(t, q) == \/ Filters(q) /\ q.pred.col # "v"
                 \/ Soft(q) /\ (q.x \in {Unbound, WrongDim} \/ t.key = "none")

\* What executing a plan may return.
Answers(q, plan) ==
  LET t    == catalog[q.table]
      hits == ProbeHits(q.table, q, plan.k)
      got(of) == [query |-> q, via |-> plan.op, of |-> of, hits |-> {}]
  IN  IF Refuses(t, q) THEN {got(Refused)}
      ELSE CASE plan.op = "fused" -> {got(IF q.kind = "Dot" THEN Fused(t, q) ELSE Refused)}
             [] plan.op = "plain" -> {got(Plain(t, q))}
             [] plan.op = "view"  -> {got(ViewRead(t, views[plan.k]))}
             [] plan.op = "topk"  -> {got(Contracted(t, q, plan.k))}
             [] plan.op = "probe" ->
                  IF q.kind # "Dot" \/ t.key # "F64" THEN {got(Refused)}
                  ELSE {[got(ProbeFold(t, q, h)) EXCEPT !.hits = h] : h \in hits}

HasLive(t) == IF t \in DOMAIN indexes THEN LiveIn(indexes[t]) # {} ELSE FALSE

\* validate_run: a query vector of another dimension ends the query before anything is read.
Invalid(q) == Soft(q) /\ q.x = WrongDim /\ catalog[q.table].key # "none"

\* run: parse, optimize, validate, statistics brought up to date, plan, execute.
Run(q) ==
  LET t     == q.table
      fresh == IF stats[t] = Stale THEN CollectStats(catalog[t]) ELSE stats[t]
  IN  /\ IF Invalid(q)
           THEN answer' \in Answers(q, Plan("fused", 0)) /\ UNCHANGED stats
           ELSE /\ \E plan \in Plans(q, fresh, views, HasLive(t)) : answer' \in Answers(q, plan)
                /\ stats' = [stats EXCEPT ![t] = fresh]
      /\ UNCHANGED << catalog, views, indexes, outdated >>

\* The caller takes the answer before it calls again: one session, one call at a time.
Take == /\ answer # Nothing /\ answer' = Nothing
        /\ UNCHANGED << catalog, stats, views, indexes, outdated >>

DbNext ==
  \/ Take
  \/ /\ answer = Nothing
     /\ \/ \E t \in Tables, c \in Contents : Register(t, c)
        \/ \E t \in DOMAIN catalog :
             \/ \E ks \in [DOMAIN catalog[t].rows -> KeyValues], dtype \in {"F64", "F32"} :
                  AttachKey(t, ks, dtype)
             \/ \E name \in ViewNames, x \in ViewXs, eps \in ViewEps : CreateView(name, t, x, eps)
             \/ CreateIndex(t)
             \/ \E new \in NewRows : InsertRow(t, new)
             \/ \E p \in Preds : DeleteWhere(t, p)
        \/ \E q \in Queries : q.table \in DOMAIN catalog /\ Run(q)

DbSpec == DbInit /\ [][DbNext]_dbVars

(***************************************************************************)
(* Properties                                                              *)
(***************************************************************************)

\* What a query means: for every label the average over its rows that have a value and, when
\* they are scored, a key.
Meaning(q) ==
  LET t      == catalog[q.table]
      recs   == [i \in DOMAIN t.rows |-> [s |-> IF Soft(q) THEN ScoreOf(t.rows[i], q) ELSE 0,
                                         v |-> t.rows[i].v]]
      of(l)  == {i \in Admitted(t, q) : t.dict[t.rows[i].g] = l}
      avg(l) == AverageOf(recs, of(l), q.eps)
      ls     == {t.dict[g] : g \in DOMAIN t.dict}
  IN  [l \in {m \in ls : avg(m) # None} |-> avg(l)]

AnswerTo(q) == answer # Nothing /\ answer.of # Refused /\ answer.query = q /\ q.kind = "Dot"

\* Statistics that are not marked stale are those of the table as it is, whatever registers,
\* attached key columns, inserts and deletes came before: a plan is admitted on the truth.
StatsFresh == \A t \in DOMAIN catalog : stats[t] \in {Stale, CollectStats(catalog[t])}

\* A view against the rows of its table: every code is among its groups; a group counts its
\* rows, is read when there are any and answers their average; only a NULL value makes its sum
\* NaN, and then until the group is anchored anew.
Summarises(v, rows) ==
  /\ \A r \in DOMAIN rows : rows[r].g \in DOMAIN v.groups
  /\ \A g \in DOMAIN v.groups :
       LET of   == InGroup(rows, g)
           recs == [r \in DOMAIN rows |-> [s |-> rows[r].k * v.x, v |-> rows[r].v]]
           sum  == v.groups[g].sum
       IN  /\ v.groups[g].n = Cardinality(of)
           /\ sum.den # NaN
           /\ g \in Covered(v) <=> of # {}
           /\ (\E r \in of : rows[r].v = NaN) => sum.num = NaN
           /\ IF sum.num = NaN THEN NaN \in WrittenValues
              ELSE SameAnswer(Ratio(sum), AverageOf(recs, of, v.eps))

\* A view says of every label what its rows say now, after any writes to the table, unless the
\* table was given other keys since the view was made.
ViewsExact == \A i \in DOMAIN views : views[i].name \notin outdated.views =>
                Summarises(views[i], catalog[views[i].table].rows)

\* An index in step with the rows of its table.
InStep(ix, rows) ==
  /\ Len(ix.rowIds) = Len(rows)
  /\ Len(ix.idToRow) = Len(ix.vectors)
  /\ {ix.rowIds[r] : r \in DOMAIN ix.rowIds} = LiveIn(ix)
  /\ \A r \in DOMAIN rows : ix.idToRow[ix.rowIds[r]] = r
  /\ \A id \in ix.dead : ix.idToRow[id] = Tombstone

\* The vectors of an index are the keys of the rows.
SameKeys(ix, rows) == \A r \in DOMAIN rows : ix.vectors[ix.rowIds[r]] = rows[r].k

\* Row positions and live ids of an index are the inverse of each other, after any deletes that
\* compact the columns, and they name the same keys unless the table was given others since.
IndexExact == \A t \in DOMAIN indexes :
                /\ InStep(indexes[t], catalog[t].rows)
                /\ t \notin outdated.indexes => SameKeys(indexes[t], catalog[t].rows)

\* An index has the keys its table has now.
IndexCurrent == \A t \in DOMAIN indexes : SameKeys(indexes[t], catalog[t].rows)

\* The answer comes from a view made before its table was given other keys.
FromOutdated(q) == /\ answer.via = "view"
                   /\ \E plan \in ViewPlans(q, views) : views[plan.k].name \in outdated.views

\* Every label that has an average is answered with it, or with NaN for a NULL among its values.
AnsweredRight(q) ==
  LET m == Meaning(q)
  IN  /\ DOMAIN m \subseteq DOMAIN answer.of
      /\ \A l \in DOMAIN answer.of :
           IF answer.of[l] = NaN THEN answer.via # "fused"
           ELSE l \in DOMAIN m /\ SameAnswer(answer.of[l], m[l])

\* A query is answered with its meaning by the fused scan, the plain average and a view that is
\* not outdated.
AnswersExact ==
  \A q \in Queries :
    AnswerTo(q) /\ answer.via \in {"fused", "plain", "view"} /\ ~FromOutdated(q) => AnsweredRight(q)

\* A query is answered from a view as its table is now.
ViewsCurrent == \A q \in Queries : AnswerTo(q) /\ answer.via = "view" => AnsweredRight(q)

\* What db.rs says where register drops the views and the indexes of a table: stale view state
\* never serves answers for the new table, and no index over old contents serves it candidates.
NeverStale == ViewsCurrent /\ IndexCurrent

\* |a - b| <= num / den, for two averages.
Near(a, b, num, den) ==
  LET d == a[1] * b[2] - b[1] * a[2]
  IN  Larger(d, -d) * den <= num * a[2] * b[2]

\* A truncated plan answers every label, within the declared budget for the contracted scan,
\* and for a probe that misses no better row within 2 * vmax * HNSW_TAIL_TOL.
ContractHeld ==
  \A q \in Queries : AnswerTo(q) /\ answer.via \in {"topk", "probe"} =>
    LET m    == Meaning(q)
        t    == catalog[q.table]
        missed == Admitted(t, q) \ answer.hits
        contained == \A i \in missed, j \in answer.hits : ScoreOf(t.rows[i], q) <= ScoreOf(t.rows[j], q)
    IN  (\A i \in DOMAIN t.rows : t.rows[i].v # NaN) =>
          /\ DOMAIN answer.of = DOMAIN m
          /\ \A l \in DOMAIN m :
               IF answer.via = "topk" THEN Near(answer.of[l], m[l], q.budget, 1)
               ELSE contained => Near(answer.of[l], m[l], 2 * LargestValue(t), Pow2[TailExp])
=============================================================================
