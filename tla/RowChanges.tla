----------------------------- MODULE RowChanges -----------------------------
(***************************************************************************)
(* The data of the change stream: the rows of the published PostgreSQL     *)
(* table, the row changes pgoutput delivers for them, and the rows of the  *)
(* mirror.                                                                 *)
(*                                                                         *)
(* A row is a key and one abstract value for all its other mapped columns. *)
(* The mirror is columnar and has no unique index: it is represented by    *)
(* the sequence of values it holds for each primary key, so "two rows with *)
(* the same key" and "no row" are both states it can be in.  The order of  *)
(* rows with different keys is abstracted away: nothing on the apply path  *)
(* depends on it.                                                          *)
(***************************************************************************)
EXTENDS Naturals, Sequences

CONSTANTS Keys,       \* primary keys
          Vals,       \* non-NULL contents of a row
          NULL,       \* a mapped column is NULL
          NoRow,      \* a key the table has no row for
          Unchanged,  \* the 'u' marker of an untouched TOASTed column
          NoOld,      \* an Update that carries no old tuple
          Nullable    \* BOOLEAN: the mapped columns admit NULL

ASSUME MarkersDistinct ==
  /\ NULL \notin Vals /\ NoRow \notin Vals /\ Unchanged \notin Vals
  /\ NULL # NoRow /\ NULL # Unchanged /\ NoRow # Unchanged
  /\ NoOld \notin Keys
  /\ Nullable \in BOOLEAN

\* The published table in PostgreSQL, and the table of the mirror.
SqlTable   == [Keys -> Vals \cup {NULL, NoRow}]
MirrorRows == [Keys -> Seq(Vals)]

(***************************************************************************)
(* RowChange (source.rs).  A Delete and an Update under REPLICA IDENTITY   *)
(* FULL carry the old tuple; an Update under DEFAULT carries it only when  *)
(* the key changed.  "other" is a change of a relation the mirror does not *)
(* map.                                                                    *)
(***************************************************************************)
Insert == [op : {"insert"}, key : Keys, datum : Vals \cup {NULL}]
Delete == [op : {"delete"}, old : Keys]
Update == [op : {"update"}, old : Keys \cup {NoOld}, key : Keys,
           datum : Vals \cup {NULL, Unchanged}]
Other  == [op : {"other"}]
Change == Insert \cup Delete \cup Update \cup Other

\* The key an Update locates its row by: the old tuple's, else the new one's.
PkOld(c) == IF c.old = NoOld THEN c.key ELSE c.old

-----------------------------------------------------------------------------
(* What PostgreSQL does.                                                    *)

\* The statements that can run against table t.
Legal(t, c) ==
  \/ /\ c.op = "insert"
     /\ t[c.key] = NoRow
     /\ c.datum = NULL => Nullable
  \/ /\ c.op = "delete"
     /\ t[c.old] # NoRow
  \/ /\ c.op = "update"
     /\ t[PkOld(c)] # NoRow
     /\ c.key # PkOld(c) => t[c.key] = NoRow
     /\ c.datum = NULL => Nullable
     /\ c.datum = Unchanged => t[PkOld(c)] # NULL
  \/ c.op = "other"

\* The table after change c.
After(t, c) ==
  CASE c.op = "insert" -> [t EXCEPT ![c.key] = c.datum]
    [] c.op = "delete" -> [t EXCEPT ![c.old] = NoRow]
    [] c.op = "update" ->
         [t EXCEPT ![PkOld(c)] = NoRow,
                   ![c.key] = IF c.datum = Unchanged THEN t[PkOld(c)] ELSE c.datum]
    [] OTHER -> t

-----------------------------------------------------------------------------
(* The mirror of a table.                                                   *)

HasNull(t) == \E k \in Keys : t[k] = NULL

\* from_snapshot: one mirror row for each row of the table.
AsRows(t) == [k \in Keys |-> IF t[k] = NoRow THEN << >> ELSE << t[k] >>]

NoRows == [k \in Keys |-> << >>]
=============================================================================
