----------------------------- MODULE CdcDaemon ------------------------------
(***************************************************************************)
(* The bruce-cdc daemon (main.rs, source.rs, durable.rs) around the apply  *)
(* path: it creates or resumes a replication slot, builds the mirror from  *)
(* the slot's snapshot or from its state file, and then, transaction by    *)
(* transaction, applies, saves (temporary file, rename, directory fsync)   *)
(* and acknowledges.  The process can die between any two of its steps.    *)
(*                                                                         *)
(* PostgreSQL is external: a table changed by one open transaction at a    *)
(* time, the committed transactions in commit order (end_lsn of a          *)
(* transaction is its index), the replication slot, and the walsender that *)
(* delivers the transactions past the slot's confirmed_flush_lsn.          *)
(***************************************************************************)
EXTENDS Mirror, Integers, FiniteSets, FiniteSetsExt

CONSTANTS MaxTx,        \* bound on committed transactions
          MaxChanges,   \* bound on the row changes of all transactions
          MaxFaults,    \* bound on process deaths and PostgreSQL crashes
          HasState,     \* BOOLEAN: the daemon runs with --state
          NoFile,       \* there is no state file
          Disconnected  \* no stream to PostgreSQL

\* A committed transaction, and the contents of the state file.
Tx   == [changes : Seq(Change), imgs : Seq(SqlTable)]
File == [db : MirrorRows, last_lsn : Nat, rows_applied : Nat, txs_applied : Nat]

ASSUME BoundsAssumption ==
  /\ MaxTx \in Nat /\ MaxChanges \in Nat /\ MaxFaults \in Nat
  /\ HasState \in BOOLEAN
  /\ Disconnected \notin Nat /\ NoFile \notin File \cup [Keys -> Seq(Vals \cup {NULL})]

VARIABLES
  \* PostgreSQL
  base,       \* the table before the first transaction
  wal,        \* the committed transactions
  open,       \* the transaction in progress
  slot,       \* the replication slot exists
  origin,     \* its consistent point
  confirmed,  \* its confirmed_flush_lsn
  acks,       \* flush LSNs of the status updates on their way to PostgreSQL
  \* the daemon
  pc,         \* where run() is
  tx,         \* the transaction next_tx returned
  cursor,     \* the last transaction the walsender delivered, or Disconnected
  last_recv, last_ack,
  \* the environment
  disk,       \* the state file, or NoFile
  faults      \* faults so far

pgVars     == << base, wal, open >>
slotVars   == << slot, origin, confirmed >>
sourceVars == << cursor, last_recv, last_ack >>
vars == << mirrorVars, pgVars, slotVars, acks, pc, tx, sourceVars, disk, faults >>

Larger(a, b) == IF a > b THEN a ELSE b

-----------------------------------------------------------------------------
(* PostgreSQL.  A transaction carries its changes and, as history that no   *)
(* code reads, the table before the first and after each of them.           *)

LastImage(t) == t.imgs[Len(t.imgs)]

\* The table after the first n transactions.
Image(n) == IF n = 0 THEN base ELSE LastImage(wal[n])

Begun(t) == [changes |-> << >>, imgs |-> << t >>]

Statements ==
  Len(open.changes) + MapThenSumSet(LAMBDA n : Len(wal[n].changes), DOMAIN wal)

Statement ==
  /\ Len(wal) < MaxTx /\ Statements < MaxChanges
  /\ \E c \in Change :
       /\ Legal(LastImage(open), c)
       /\ open' = [changes |-> Append(open.changes, c),
                   imgs    |-> Append(open.imgs, After(LastImage(open), c))]
  /\ UNCHANGED << mirrorVars, base, wal, slotVars, acks, pc, tx, sourceVars, disk, faults >>

Commit ==
  /\ Len(wal) < MaxTx
  /\ wal' = Append(wal, open)
  /\ open' = Begun(LastImage(open))
  /\ UNCHANGED << mirrorVars, base, slotVars, acks, pc, tx, sourceVars, disk, faults >>

Rollback ==
  /\ open.changes # << >>
  /\ open' = Begun(open.imgs[1])
  /\ UNCHANGED << mirrorVars, base, wal, slotVars, acks, pc, tx, sourceVars, disk, faults >>

\* A status update arrives: the slot's confirmed_flush_lsn only advances.
Confirm ==
  /\ \E a \in acks :
       /\ \A b \in acks : a <= b
       /\ confirmed' = Larger(confirmed, a)
       /\ acks' = acks \ {a}
  /\ UNCHANGED << mirrorVars, pgVars, slot, origin, pc, tx, sourceVars, disk, faults >>

\* PostgreSQL restarts or the walsender dies: the stream is cut, status updates
\* on their way are lost, and the slot may fall back to an older checkpoint.
PgRestart ==
  /\ slot /\ faults < MaxFaults
  /\ faults' = faults + 1
  /\ \E n \in origin..confirmed : confirmed' = n
  /\ acks' = {}
  /\ cursor' = Disconnected
  /\ UNCHANGED << mirrorVars, pgVars, slot, origin, pc, tx, last_recv, last_ack, disk >>

-----------------------------------------------------------------------------
(* Starting: run() up to src.start().                                       *)

\* What a process forgets when it ends.
Forget ==
  /\ pc' = "exited"
  /\ Reset
  /\ tx' = 0
  /\ cursor' = Disconnected /\ last_recv' = 0 /\ last_ack' = 0

\* The process is started (again) and connects.
Restart ==
  /\ pc = "exited"
  /\ pc' = "starting"
  /\ UNCHANGED << mirrorVars, pgVars, slotVars, acks, tx, sourceVars, disk, faults >>

CreateSlot ==
  /\ pc = "starting" /\ ~slot
  /\ slot' = TRUE /\ origin' = Len(wal) /\ confirmed' = Len(wal)
  /\ pc' = "snapshot"
  /\ UNCHANGED << mirrorVars, pgVars, acks, tx, sourceVars, disk, faults >>

Snapshot ==
  /\ pc = "snapshot"
  /\ FromSnapshot(Image(origin))
  /\ pc' = "loaded"
  /\ UNCHANGED << pgVars, slotVars, acks, tx, sourceVars, disk, faults >>

SnapshotHasNull ==
  /\ pc = "snapshot"
  /\ HasNull(Image(origin))
  /\ Forget
  /\ UNCHANGED << pgVars, slotVars, acks, disk, faults >>

\* Mutated form: the watermark is not restored.
LoadUnmarked ==
  /\ pc = "starting" /\ slot
  /\ HasState /\ disk # NoFile
  /\ db' = disk.db /\ last_lsn' = 0
  /\ rows_applied' = disk.rows_applied /\ txs_applied' = disk.txs_applied
  /\ pc' = "loaded"
  /\ UNCHANGED << next, applied, pgVars, slotVars, acks, tx, sourceVars, disk, faults >>

\* Mirror::load.
Load ==
  /\ pc = "starting" /\ slot
  /\ HasState /\ disk # NoFile
  /\ db' = disk.db /\ last_lsn' = disk.last_lsn
  /\ rows_applied' = disk.rows_applied /\ txs_applied' = disk.txs_applied
  /\ pc' = "loaded"
  /\ UNCHANGED << next, applied, pgVars, slotVars, acks, tx, sourceVars, disk, faults >>

\* The slot exists and there is nothing to resume it from: exit with an error.
NothingToResume ==
  /\ pc = "starting" /\ slot
  /\ ~HasState \/ disk = NoFile
  /\ Forget
  /\ UNCHANGED << pgVars, slotVars, acks, disk, faults >>

\* Mutated form: streaming starts at the current end of the WAL.
StartStreamingAtEnd ==
  /\ pc = "loaded"
  /\ cursor' = Len(wal)
  /\ acks' = {}
  /\ pc' = "waiting"
  /\ UNCHANGED << mirrorVars, pgVars, slotVars, tx, last_recv, last_ack, disk, faults >>

\* START_REPLICATION at 0/0 resumes after confirmed_flush_lsn.  The walsender of
\* an earlier connection is gone by then, and with it what it had not read.
StartStreaming ==
  /\ pc = "loaded"
  /\ cursor' = confirmed
  /\ acks' = {}
  /\ pc' = "waiting"
  /\ UNCHANGED << mirrorVars, pgVars, slotVars, tx, last_recv, last_ack, disk, faults >>

-----------------------------------------------------------------------------
(* The loop of run(): next_tx, apply_tx, save, ack.                         *)

Receive ==
  /\ pc = "waiting" /\ cursor # Disconnected
  /\ cursor < Len(wal)
  /\ tx' = cursor + 1
  /\ cursor' = cursor + 1
  /\ last_recv' = Larger(last_recv, cursor + 1)
  /\ pc' = "received"
  /\ UNCHANGED << mirrorVars, pgVars, slotVars, acks, last_ack, disk, faults >>

\* Mutated form: the reply acknowledges what was received, not what was applied.
KeepaliveAcksReceived(reply_requested) ==
  /\ pc = "waiting" /\ cursor # Disconnected
  /\ last_recv' = Larger(last_recv, Len(wal))
  /\ acks' = IF reply_requested THEN acks \cup {last_recv'} ELSE acks
  /\ UNCHANGED << mirrorVars, pgVars, slotVars, pc, tx, cursor, last_ack, disk, faults >>

\* A keepalive: note the server's WAL end and, if asked to, repeat the last ack.
Keepalive(reply_requested) ==
  /\ pc = "waiting" /\ cursor # Disconnected
  /\ last_recv' = Larger(last_recv, Len(wal))
  /\ acks' = IF reply_requested /\ last_ack > 0 THEN acks \cup {last_ack} ELSE acks
  /\ UNCHANGED << mirrorVars, pgVars, slotVars, pc, tx, cursor, last_ack, disk, faults >>

\* Mutated form: a redelivered transaction is not acked.
SkipRedeliveredUnacked ==
  /\ pc = "received" /\ Redelivered(tx)
  /\ pc' = "waiting"
  /\ UNCHANGED << mirrorVars, pgVars, slotVars, acks, tx, sourceVars, disk, faults >>

\* apply_tx returns Ok(0) for a redelivered transaction; it is acked all the same.
SkipRedelivered ==
  /\ pc = "received" /\ Redelivered(tx)
  /\ pc' = "acking"
  /\ UNCHANGED << mirrorVars, pgVars, slotVars, acks, tx, sourceVars, disk, faults >>

Begin ==
  /\ pc = "received"
  /\ BeginApply(tx)
  /\ pc' = "applying"
  /\ UNCHANGED << pgVars, slotVars, acks, tx, sourceVars, disk, faults >>

\* One iteration of apply_tx's loop over the changes.
AtChange      == pc = "applying" /\ next <= Len(wal[tx].changes)
CurrentChange == wal[tx].changes[next]

Apply ==
  /\ AtChange
  /\ \/ ApplyInsert(CurrentChange)
     \/ ApplyDelete(CurrentChange)
     \/ ApplyUpdate(CurrentChange)
     \/ SkipOther(CurrentChange)
  /\ UNCHANGED << pgVars, slotVars, acks, pc, tx, sourceVars, disk, faults >>

\* apply_tx returns Err; the caller still holds the mirror.
Reject ==
  /\ AtChange
  /\ RejectChange(CurrentChange)
  /\ pc' = "failed"
  /\ UNCHANGED << pgVars, slotVars, acks, tx, sourceVars, disk, faults >>

Finish ==
  /\ pc = "applying"
  /\ FinishApply(tx, wal[tx].changes)
  /\ pc' = IF HasState THEN "writing" ELSE "acking"
  /\ UNCHANGED << pgVars, slotVars, acks, tx, sourceVars, disk, faults >>

\* Mirror::save: write and fsync the temporary file, rename it, fsync the directory.
WriteTemp ==
  /\ pc = "writing"
  /\ pc' = "renaming"
  /\ UNCHANGED << mirrorVars, pgVars, slotVars, acks, tx, sourceVars, disk, faults >>

\* Mutated form: the file claims everything received so far.
RenameReceived ==
  /\ pc = "renaming"
  /\ disk' = [db |-> db, last_lsn |-> last_recv,
              rows_applied |-> rows_applied, txs_applied |-> txs_applied]
  /\ pc' = "syncing"
  /\ UNCHANGED << mirrorVars, pgVars, slotVars, acks, tx, sourceVars, faults >>

Rename ==
  /\ pc = "renaming"
  /\ disk' = [db |-> db, last_lsn |-> last_lsn,
              rows_applied |-> rows_applied, txs_applied |-> txs_applied]
  /\ pc' = "syncing"
  /\ UNCHANGED << mirrorVars, pgVars, slotVars, acks, tx, sourceVars, faults >>

SyncDir ==
  /\ pc = "syncing"
  /\ pc' = "acking"
  /\ UNCHANGED << mirrorVars, pgVars, slotVars, acks, tx, sourceVars, disk, faults >>

\* Mutated form: the acknowledgement names the newest LSN received.
AckReceived ==
  /\ pc = "acking" /\ cursor # Disconnected
  /\ last_ack' = Larger(last_ack, last_recv)
  /\ acks' = acks \cup {last_ack'}
  /\ pc' = "waiting"
  /\ UNCHANGED << mirrorVars, pgVars, slotVars, tx, cursor, last_recv, disk, faults >>

Ack ==
  /\ pc = "acking" /\ cursor # Disconnected
  /\ last_ack' = Larger(last_ack, tx)
  /\ acks' = acks \cup {last_ack'}
  /\ pc' = "waiting"
  /\ UNCHANGED << mirrorVars, pgVars, slotVars, tx, cursor, last_recv, disk, faults >>

-----------------------------------------------------------------------------
(* Ends of the process.                                                     *)

\* Mutated form: a dead connection reads as idle.
ExitOnApplyError ==
  /\ pc = "failed"
  /\ Forget
  /\ UNCHANGED << pgVars, slotVars, acks, disk, faults >>

\* run() returns an error from apply_tx, or finds the connection dead.
ExitOnError ==
  /\ \/ pc = "failed"
     \/ pc \in {"waiting", "acking"} /\ cursor = Disconnected
  /\ Forget
  /\ UNCHANGED << pgVars, slotVars, acks, disk, faults >>

\* SIGKILL, at any step.  Status updates already sent can still arrive.
Kill ==
  /\ pc # "exited" /\ faults < MaxFaults
  /\ faults' = faults + 1
  /\ Forget
  /\ UNCHANGED << pgVars, slotVars, acks, disk >>

-----------------------------------------------------------------------------
Init ==
  /\ base \in {t \in SqlTable : HasNull(t) => Nullable}
  /\ wal = << >> /\ open = Begun(base)
  /\ slot = FALSE /\ origin = 0 /\ confirmed = 0 /\ acks = {}
  /\ pc = "exited" /\ tx = 0
  /\ cursor = Disconnected /\ last_recv = 0 /\ last_ack = 0
  /\ db = NoRows /\ last_lsn = 0 /\ rows_applied = 0 /\ txs_applied = 0
  /\ next = 0 /\ applied = 0
  /\ disk = NoFile /\ faults = 0

Loop ==
  \/ Receive \/ SkipRedelivered \/ Begin \/ Apply \/ Reject \/ Finish
  \/ WriteTemp \/ Rename \/ SyncDir \/ Ack

Start ==
  CreateSlot \/ Snapshot \/ SnapshotHasNull \/ Load \/ NothingToResume \/ StartStreaming

Daemon == Start \/ Loop \/ ExitOnError

Postgres == Statement \/ Commit \/ Rollback \/ Confirm

Next ==
  \/ Daemon \/ Postgres \/ Restart
  \/ \E r \in BOOLEAN : Keepalive(r)
  \/ PgRestart \/ Kill

Spec == Init /\ [][Next]_vars

\* The daemon is one thread that never stops between two steps, a supervisor
\* restarts it, and PostgreSQL reads the status updates it is sent.
Fairness == WF_vars(Daemon) /\ WF_vars(Restart) /\ WF_vars(Confirm)

FairSpec == Spec /\ Fairness

-----------------------------------------------------------------------------
(* Properties.                                                              *)

\* The states in which the daemon holds a mirror a reader can query: apply_tx
\* borrows it exclusively while it runs.
Serving == {"loaded", "waiting", "received", "failed",
            "writing", "renaming", "syncing", "acking"}

\* The transactions the mirror reflects are the first Position of the WAL.
Position == IF last_lsn = 0 THEN origin ELSE last_lsn

\* The transactions that survive the death of the process.
SavedPosition == IF disk = NoFile THEN origin ELSE disk.last_lsn

\* Every variable has the type the code gives it (main.rs, source.rs, apply.rs).
TypeOK ==
  /\ MirrorTypeOK
  /\ base \in SqlTable /\ wal \in Seq(Tx) /\ open \in Tx
  /\ slot \in BOOLEAN /\ origin \in Nat /\ confirmed \in Nat
  /\ acks \subseteq Nat
  /\ pc \in Serving \cup {"exited", "starting", "snapshot", "applying"}
  /\ tx \in Nat /\ cursor \in Nat \cup {Disconnected}
  /\ last_recv \in Nat /\ last_ack \in Nat
  /\ disk \in File \cup {NoFile}
  /\ faults \in Nat

\* Exactly-once: outside apply_tx, and unless it returned an error, the mirror is
\* the published table as some transaction left it, the one its watermark names;
\* no transaction is lost, applied twice, or visible in part, whatever process
\* deaths and redeliveries came before (apply.rs 57-72).
InSync == pc \in Serving \ {"failed"} => db = AsRows(Image(Position))

\* No partial reads: the same also after apply_tx returned an error (apply.rs 63-66),
\* which a change that carries NULL makes it do: so only where no column admits NULL.
NoPartialReads == pc \in Serving => db = AsRows(Image(Position))

\* The state file is never a mix of two states: it is the table as the transaction
\* of its own watermark left it (durable.rs 143-148).
FileInSync == disk # NoFile => disk.db = AsRows(Image(disk.last_lsn))

\* Save, then ack: no LSN PostgreSQL has confirmed, or will confirm from a status
\* update still on its way, lies past what the state file holds, so the WAL a
\* restart needs is never released (main.rs 94-101).
AckedIsSaved == HasState /\ slot => \A a \in acks \cup {confirmed} : a <= SavedPosition

\* A reader after a restart never sees a state older than one already acked.
ServesAcked == pc \in Serving \cup {"applying"} => confirmed <= Position

\* The "mirror out of sync" errors of apply_tx are unreachable: it can only fail on
\* a tuple that carries NULL (apply.rs 189-194, 235-240, 299-304).
NeverOutOfSync == AtChange => ~OutOfSync(CurrentChange)

\* Once a state file exists every committed transaction is eventually, and from
\* then on, visible in the mirror, across process deaths.
CatchesUp ==
  \A n \in 1..MaxTx :
    (disk # NoFile /\ Len(wal) >= n)
      ~> [](pc \in Serving \cup {"applying"} /\ Position >= n)

\* ... and the slot eventually confirms it, so that PostgreSQL can recycle its WAL:
\* a redelivered transaction is acked although it is not applied (apply.rs 164-167).
SlotAdvances ==
  \A n \in 1..MaxTx : (disk # NoFile /\ Len(wal) >= n) ~> [](confirmed >= n)

(***************************************************************************)
(* The daemon implements CdcContract.  While apply_tx runs no reader can   *)
(* look, so the state shown is still the one before; the process that      *)
(* apply_tx failed in is about to exit and is taken the same way.          *)
(***************************************************************************)
Shown ==
  CASE pc \in Serving \ {"failed"}     -> db
    [] pc \in {"applying", "failed"}   -> AsRows(Image(Position))
    [] OTHER                           -> NoFile

History == [n \in 1..(Len(wal) + 1) |-> AsRows(Image(n - 1))]
At      == IF Shown = NoFile THEN 0 ELSE Position
Saved   == IF disk = NoFile THEN -1 ELSE disk.last_lsn

Contract == INSTANCE CdcContract WITH
  Dark <- NoFile, history <- History, shown <- Shown, at <- At,
  slotted <- slot, start <- origin, saved <- Saved, acked <- confirmed

\* The daemon implements the contract of the maintenance plane: committed states
\* shown in order, none skipped, resumed at the checkpoint, acked up to it.
ImplementsContract == Contract!Spec
=============================================================================
