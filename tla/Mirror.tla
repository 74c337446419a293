------------------------------- MODULE Mirror -------------------------------
(***************************************************************************)
(* The apply path of bruce-cdc (apply.rs): Mirror::apply_tx applies one    *)
(* committed transaction to the mirror table, change by change, through    *)
(* Database::insert_row and Database::delete_where, and moves the          *)
(* exactly-once watermark when the last change is in.                      *)
(*                                                                         *)
(* One iteration of the loop over the changes is one step.  The loop has   *)
(* early returns (the ? operator) and no rollback: RejectChange keeps      *)
(* whatever the earlier changes, and the failed one, did to the table.     *)
(***************************************************************************)
EXTENDS RowChanges

VARIABLES db,            \* the mirror table
          last_lsn,      \* end_lsn of the last applied transaction
          rows_applied,
          txs_applied,
          next,          \* the change apply_tx is at; 0 outside apply_tx
          applied        \* row changes apply_tx has applied so far

mirrorVars == << db, last_lsn, rows_applied, txs_applied, next, applied >>

Reset ==
  /\ db' = NoRows
  /\ last_lsn' = 0 /\ rows_applied' = 0 /\ txs_applied' = 0
  /\ next' = 0 /\ applied' = 0

\* Build the mirror from the rows the slot's snapshot returned.
FromSnapshot(t) ==
  /\ ~HasNull(t)
  /\ db' = AsRows(t)
  /\ last_lsn' = 0 /\ rows_applied' = 0 /\ txs_applied' = 0
  /\ UNCHANGED << next, applied >>

-----------------------------------------------------------------------------
(* The Database write path, as far as the mirror table goes.                *)

InsertRow(rows, k, v) == [rows EXCEPT ![k] = Append(@, v)]
DeleteWhere(rows, k)  == [rows EXCEPT ![k] = << >>]

-----------------------------------------------------------------------------
(* apply_tx.                                                                *)

\* Mutated form: the last applied transaction itself passes the filter.
RedeliveredOffByOne(lsn) == lsn < last_lsn

Redelivered(lsn) == lsn <= last_lsn

BeginApply(lsn) ==
  /\ ~Redelivered(lsn)
  /\ next' = 1 /\ applied' = 0
  /\ UNCHANGED << db, last_lsn, rows_applied, txs_applied >>

ChangeApplied ==
  /\ next' = next + 1
  /\ applied' = applied + 1
  /\ UNCHANGED << last_lsn, rows_applied, txs_applied >>

ApplyInsert(c) ==
  /\ c.op = "insert" /\ c.datum # NULL
  /\ db' = InsertRow(db, c.key, c.datum)
  /\ ChangeApplied

ApplyDelete(c) ==
  /\ c.op = "delete" /\ Len(db[c.old]) = 1
  /\ db' = DeleteWhere(db, c.old)
  /\ ChangeApplied

\* resolve_update_row reads the mirror's current row BEFORE it is deleted.
Resolved(c) == IF c.datum = Unchanged THEN db[PkOld(c)][1] ELSE c.datum

ApplyUpdate(c) ==
  /\ c.op = "update" /\ c.datum # NULL /\ Len(db[PkOld(c)]) = 1
  /\ db' = InsertRow(DeleteWhere(db, PkOld(c)), c.key, Resolved(c))
  /\ ChangeApplied

SkipOther(c) ==
  /\ c.op = "other"
  /\ next' = next + 1
  /\ UNCHANGED << db, last_lsn, rows_applied, txs_applied, applied >>

\* A column is NULL, or the row to resolve an Unchanged column from is gone.
BadTuple(c) ==
  \/ c.op \in {"insert", "update"} /\ c.datum = NULL
  \/ c.op = "update" /\ c.datum = Unchanged /\ Len(db[PkOld(c)]) = 0

\* The delete removed some number of rows that is not one.
OutOfSync(c) ==
  \/ c.op = "delete" /\ Len(db[c.old]) # 1
  \/ c.op = "update" /\ Len(db[PkOld(c)]) # 1

Residue(c) ==
  CASE BadTuple(c)       -> db
    [] c.op = "delete"   -> DeleteWhere(db, c.old)
    [] OTHER             -> DeleteWhere(db, PkOld(c))

RejectChange(c) ==
  /\ BadTuple(c) \/ OutOfSync(c)
  /\ db' = Residue(c)
  /\ next' = 0 /\ applied' = 0
  /\ UNCHANGED << last_lsn, rows_applied, txs_applied >>

FinishApply(lsn, changes) ==
  /\ next > Len(changes)
  /\ rows_applied' = rows_applied + applied
  /\ txs_applied' = txs_applied + 1
  /\ last_lsn' = lsn
  /\ next' = 0 /\ applied' = 0
  /\ UNCHANGED db

MirrorTypeOK ==
  /\ db \in MirrorRows
  /\ last_lsn \in Nat /\ rows_applied \in Nat /\ txs_applied \in Nat
  /\ next \in Nat /\ applied \in Nat
=============================================================================
