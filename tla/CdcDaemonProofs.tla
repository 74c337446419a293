-------------------------- MODULE CdcDaemonProofs ---------------------------
(***************************************************************************)
(* Proofs about CdcDaemon run with --state: IInv is inductive, and the     *)
(* safety properties follow from it and it implements CdcContract, for     *)
(* every set of keys and values and every bound.                           *)
(***************************************************************************)
EXTENDS CdcInvariant, TLAPS

-----------------------------------------------------------------------------
(* The data.                                                                *)

\* The mirror of a table without NULLs is a mirror table.
LEMMA AsRowsType ==
  ASSUME NEW t \in SqlTable, ~HasNull(t)
  PROVE  AsRows(t) \in MirrorRows
BY DEF SqlTable, HasNull, AsRows, MirrorRows

\* The statements PostgreSQL runs keep its table a table.
LEMMA AfterType ==
  ASSUME NEW t \in SqlTable, NEW c \in Change, Legal(t, c)
  PROVE  After(t, c) \in SqlTable
<1>1. CASE c \in Insert
  BY <1>1 DEF SqlTable, Insert, After
<1>2. CASE c \in Delete
  BY <1>2 DEF SqlTable, Delete, After
<1>3. CASE c \in Update
  BY <1>3 DEF SqlTable, Update, After, PkOld
<1>4. CASE c \in Other
  BY <1>4 DEF Other, After
<1> QED BY <1>1, <1>2, <1>3, <1>4 DEF Change

\* A row put into the table is one put into the mirror ...
LEMMA AsRowsPut ==
  ASSUME NEW t \in SqlTable, NEW k \in Keys, NEW v \in Vals
  PROVE  AsRows([t EXCEPT ![k] = v]) = [AsRows(t) EXCEPT ![k] = << v >>]
<1>1. v # NoRow
  BY MarkersDistinct
<1> QED BY <1>1 DEF AsRows, SqlTable

\* ... one taken out of the table is one taken out of the mirror.
LEMMA AsRowsTake ==
  ASSUME NEW t \in SqlTable, NEW k \in Keys
  PROVE  AsRows([t EXCEPT ![k] = NoRow]) = [AsRows(t) EXCEPT ![k] = << >>]
BY DEF AsRows, SqlTable

\* One row put under a key keeps a mirror a mirror.
LEMMA MirrorRowsPut ==
  ASSUME NEW rows \in MirrorRows, NEW k \in Keys, NEW v \in Vals
  PROVE  [rows EXCEPT ![k] = << v >>] \in MirrorRows
<1>1. << v >> \in Seq(Vals)
  OBVIOUS
<1> HIDE <1>1
<1> DEFINE S == Seq(Vals)
           s == << v >>
<1>2. s \in S
  BY <1>1
<1>3. rows \in [Keys -> S]
  BY DEF MirrorRows
<1> HIDE DEF S, s
<1>4. [rows EXCEPT ![k] = s] \in [Keys -> S]
  BY <1>2, <1>3
<1> QED BY <1>4 DEF MirrorRows, S, s

\* ... and so does removing the rows of a key.
LEMMA MirrorRowsTake ==
  ASSUME NEW rows \in MirrorRows, NEW k \in Keys
  PROVE  [rows EXCEPT ![k] = << >>] \in MirrorRows
<1> DEFINE S == Seq(Vals)
           s == << >>
<1>1. s \in S /\ rows \in [Keys -> S]
  BY DEF MirrorRows
<1> HIDE DEF S, s
<1>2. [rows EXCEPT ![k] = s] \in [Keys -> S]
  BY <1>1
<1> QED BY <1>2 DEF MirrorRows, S, s

\* Applying a legal change to the mirror of a table gives the mirror of the
\* table after it, of the right type.
LEMMA ApplyStep ==
  ASSUME NEW t \in SqlTable, NEW c \in Change, Legal(t, c),
         db = AsRows(t), db \in MirrorRows,
         ApplyInsert(c) \/ ApplyDelete(c) \/ ApplyUpdate(c) \/ SkipOther(c)
  PROVE  db' = AsRows(After(t, c)) /\ db' \in MirrorRows
<1>1. CASE ApplyInsert(c)
  <2>1. c.key \in Keys /\ c.datum \in Vals /\ c.op = "insert" /\ t[c.key] = NoRow
    BY <1>1 DEF ApplyInsert, Legal, Change, Insert, Delete, Update, Other
  <2>2. db[c.key] = << >>
    BY <2>1 DEF AsRows
  <2>3. db' = [db EXCEPT ![c.key] = << c.datum >>]
    BY <1>1, <2>1, <2>2 DEF ApplyInsert, InsertRow, MirrorRows
  <2>4. After(t, c) = [t EXCEPT ![c.key] = c.datum]
    BY <2>1 DEF After
  <2>5. db' \in MirrorRows
    BY <2>1, <2>3, MirrorRowsPut
  <2>6. AsRows(After(t, c)) = [db EXCEPT ![c.key] = << c.datum >>]
    <3>1. AsRows([t EXCEPT ![c.key] = c.datum]) = [AsRows(t) EXCEPT ![c.key] = << c.datum >>]
      BY <2>1, AsRowsPut, Zenon
    <3> QED BY <2>4, <3>1, Zenon
  <2> QED BY <2>3, <2>5, <2>6
<1>2. CASE ApplyDelete(c)
  <2>1. c.old \in Keys /\ c.op = "delete"
    BY <1>2 DEF ApplyDelete, Change, Insert, Delete, Update, Other
  <2>2. db' = [db EXCEPT ![c.old] = << >>]
    BY <1>2 DEF ApplyDelete, DeleteWhere
  <2>3. After(t, c) = [t EXCEPT ![c.old] = NoRow]
    BY <2>1 DEF After
  <2> QED BY <2>1, <2>2, <2>3, AsRowsTake, MirrorRowsTake
<1>3. CASE ApplyUpdate(c)
  <2> DEFINE p == PkOld(c)
             v == Resolved(c)
  <2>1. /\ p \in Keys /\ c.key \in Keys /\ c.op = "update"
        /\ c.datum \in Vals \cup {Unchanged}
    BY <1>3 DEF ApplyUpdate, Change, Insert, Delete, Update, Other, PkOld
  <2>2. t[p] # NoRow /\ (c.key # p => t[c.key] = NoRow)
    BY <2>1 DEF Legal
  <2>3. Len(db[p]) = 1 /\ db[p] = << t[p] >> /\ db[p][1] = t[p]
    BY <1>3, <2>1, <2>2 DEF AsRows
  <2>4. t[p] \in Vals
    <3>1. db[p] \in Seq(Vals)
      BY <2>1 DEF MirrorRows
    <3> HIDE DEF p
    <3> QED BY <2>3, <3>1
  <2>5. v \in Vals /\ v = IF c.datum = Unchanged THEN t[p] ELSE c.datum
    BY <2>1, <2>3, <2>4 DEF Resolved
  <2> DEFINE u == [t EXCEPT ![p] = NoRow]
             rows == [db EXCEPT ![p] = << >>]
  <2>6. u \in SqlTable /\ rows = AsRows(u) /\ rows \in MirrorRows
    BY <2>1, AsRowsTake, MirrorRowsTake DEF SqlTable
  <2>7. u[c.key] = NoRow
    BY <2>1, <2>2 DEF SqlTable
  <2>8. rows[c.key] = << >>
    BY <2>1, <2>6, <2>7 DEF AsRows
  <2>9. After(t, c) = [u EXCEPT ![c.key] = v]
    BY <2>1, <2>5 DEF After
  <2>10. db' = [rows EXCEPT ![c.key] = Append(rows[c.key], v)]
    BY <1>3 DEF ApplyUpdate, InsertRow, DeleteWhere
  <2> HIDE DEF p, v, u, rows
  <2>11. db' = [rows EXCEPT ![c.key] = << v >>]
    BY <2>5, <2>8, <2>10
  <2>12. AsRows(After(t, c)) = [rows EXCEPT ![c.key] = << v >>]
    <3>1. AsRows([u EXCEPT ![c.key] = v]) = [AsRows(u) EXCEPT ![c.key] = << v >>]
      <4>1. u \in SqlTable
        BY <2>6
      <4>2. v \in Vals
        BY <2>5
      <4> QED BY <2>1, <4>1, <4>2, AsRowsPut, Zenon
    <3> QED BY <2>6, <2>9, <3>1, Zenon
  <2>13. db' \in MirrorRows
    BY <2>1, <2>5, <2>6, <2>11, MirrorRowsPut
  <2> QED BY <2>11, <2>12, <2>13
<1>4. CASE SkipOther(c)
  BY <1>4 DEF SkipOther, After
<1> QED BY <1>1, <1>2, <1>3, <1>4

\* A legal change finds exactly the row it needs in the mirror of the table.
LEMMA LegalInSync ==
  ASSUME NEW t \in SqlTable, NEW c \in Change, Legal(t, c), db = AsRows(t)
  PROVE  ~OutOfSync(c)
<1>1. CASE c \in Delete
  BY <1>1 DEF Delete, Legal, OutOfSync, AsRows
<1>2. CASE c \in Update
  <2>1. PkOld(c) \in Keys
    BY <1>2 DEF Update, PkOld
  <2> QED BY <1>2, <2>1 DEF Update, Legal, OutOfSync, AsRows
<1>3. CASE c \in Insert \cup Other
  BY <1>3 DEF Insert, Other, OutOfSync
<1> QED BY <1>1, <1>2, <1>3 DEF Change

-----------------------------------------------------------------------------
(* The history.                                                             *)

\* Every committed state is a table.
LEMMA ImageType ==
  ASSUME TypeOK, HistoryInv, NEW n \in 0..Len(wal)
  PROVE  Image(n) \in SqlTable
<1>1. CASE n = 0
  BY <1>1 DEF TypeOK, Image
<1>2. CASE n # 0
  <2>1. n \in 1..Len(wal) /\ wal[n] \in Tx
    BY <1>2 DEF TypeOK
  <2>2. Len(wal[n].imgs) = Len(wal[n].changes) + 1
    BY <2>1 DEF HistoryInv, Chained
  <2>3. wal[n].imgs \in Seq(SqlTable) /\ wal[n].changes \in Seq(Change)
    BY <2>1 DEF Tx
  <2>4. LastImage(wal[n]) \in SqlTable
    BY <2>2, <2>3 DEF LastImage
  <2> QED BY <1>2, <2>4 DEF Image
<1> QED BY <1>1, <1>2

\* A commit leaves the earlier states alone, and adds the one it reached.
LEMMA CommitImages ==
  ASSUME TypeOK, Commit
  PROVE  /\ \A n \in 0..Len(wal) : Image(n)' = Image(n)
         /\ \A n : n = Len(wal) + 1 => Image(n)' = LastImage(open)
         /\ Len(wal') = Len(wal) + 1
         /\ \A n \in 1..Len(wal) : wal'[n] = wal[n]
         /\ wal'[Len(wal) + 1] = open
<1>1. wal \in Seq(Tx) /\ open \in Tx /\ wal' = Append(wal, open) /\ base' = base
  BY DEF TypeOK, Commit
<1>2. /\ Len(wal') = Len(wal) + 1
      /\ \A n \in 1..Len(wal) : wal'[n] = wal[n]
      /\ wal'[Len(wal) + 1] = open
  BY <1>1
<1>3. ASSUME NEW n \in 0..Len(wal) PROVE Image(n)' = Image(n)
  BY <1>1, <1>2 DEF Image, LastImage
<1>4. ASSUME NEW n, n = Len(wal) + 1 PROVE Image(n)' = LastImage(open)
  BY <1>1, <1>2, <1>4 DEF Image, LastImage
<1> QED BY <1>2, <1>3, <1>4

\* Without a commit every state stays what it is.
LEMMA SameImages ==
  ASSUME UNCHANGED << base, wal >>
  PROVE  \A n : Image(n)' = Image(n)
BY DEF Image, LastImage

\* ... and so does the chain of changes that leads to it.
LEMMA SameHistory ==
  ASSUME HistoryInv, UNCHANGED pgVars
  PROVE  HistoryInv'
BY DEF HistoryInv, pgVars, Chained, Image, LastImage

\* Where the watermark and the state file are.
LEMMA Positions ==
  ASSUME HasState, IInv, slot
  PROVE  /\ pc \in Live => Position \in origin..Len(wal)
         /\ SavedPosition \in origin..Len(wal)
         /\ origin \in Nat /\ Len(wal) \in Nat
BY DEF IInv, TypeOK, MirrorTypeOK, SlotInv, FileInv, WatermarkInv, Position,
       SavedPosition, File

-----------------------------------------------------------------------------
(* IInv is inductive.                                                       *)

\* The initial states satisfy the invariant.
LEMMA InitIInv ==
  ASSUME HasState, Init
  PROVE  IInv
<1>1. TypeOK
  <2>1. base \in SqlTable /\ wal \in Seq(Tx)
    BY DEF Init
  <2>2. open \in Tx
    BY <2>1 DEF Init, Begun, Tx
  <2>3. NoRows \in MirrorRows
    BY DEF NoRows, MirrorRows
  <2> QED BY <2>1, <2>2, <2>3 DEF Init, TypeOK, MirrorTypeOK
<1>2. HistoryInv
  <2>1. Chained(Begun(base), base)
    BY DEF Chained, Begun
  <2> QED BY <2>1 DEF Init, HistoryInv, Image
<1>3. SlotInv /\ FileInv /\ AckInv
  BY DEF Init, SlotInv, FileInv, AckInv
<1>4. WatermarkInv /\ StreamInv /\ ApplyInv
  BY DEF Init, WatermarkInv, StreamInv, ApplyInv, Live, Serving
<1> QED BY <1>1, <1>2, <1>3, <1>4 DEF IInv

\* The end of the process, however it comes.
LEMMA ForgetStep ==
  ASSUME HasState, IInv, Forget,
         UNCHANGED << pgVars, slotVars, acks, disk >>, faults' \in Nat
  PROVE  IInv'
<1>1. TypeOK'
  BY DEF IInv, TypeOK, NoRows, MirrorRows, pgVars, slotVars, MirrorTypeOK, Forget, Reset
<1>2. HistoryInv' /\ \A n : Image(n)' = Image(n)
  BY SameHistory, SameImages DEF IInv, pgVars, Forget
<1>3. SlotInv'
  BY DEF IInv, SlotInv, pgVars, slotVars, Forget, Reset
<1>4. FileInv'
  BY <1>2 DEF IInv, FileInv, pgVars, slotVars, Forget, Reset
<1>5. AckInv'
  BY Positions DEF IInv, AckInv, SlotInv, slotVars, SavedPosition, Forget, Reset
<1>6. WatermarkInv'
  BY DEF IInv, WatermarkInv, SavedPosition, Position, Live, Serving, Forget, Reset
<1>7. StreamInv'
  BY DEF IInv, StreamInv, Serving, Position, Forget, Reset
<1>8. ApplyInv'
  BY <1>2 DEF IInv, ApplyInv, Position, Serving, Forget, Reset
<1> QED BY <1>1, <1>2, <1>3, <1>4, <1>5, <1>6, <1>7, <1>8 DEF IInv

\* The process is started again: it holds nothing yet.
LEMMA RestartStep ==
  ASSUME HasState, IInv, Restart
  PROVE  IInv'
<1>1. TypeOK'
  BY DEF IInv, TypeOK, MirrorTypeOK, Restart, mirrorVars, pgVars, slotVars, sourceVars
<1>2. HistoryInv' /\ \A n : Image(n)' = Image(n)
  BY SameHistory, SameImages DEF IInv, pgVars, Restart
<1>3. SlotInv'
  BY DEF IInv, SlotInv, Restart, pgVars, slotVars, sourceVars
<1>4. FileInv'
  BY <1>2 DEF IInv, FileInv, Restart, pgVars, slotVars
<1>5. AckInv'
  BY DEF IInv, AckInv, SavedPosition, Restart, slotVars, sourceVars
<1>6. WatermarkInv'
  BY DEF IInv, WatermarkInv, SavedPosition, Position, Live, Serving, Restart, mirrorVars,
     pgVars, slotVars
<1>7. StreamInv'
  BY DEF IInv, StreamInv, Position, Restart, mirrorVars, pgVars, slotVars, sourceVars
<1>8. ApplyInv'
  BY <1>2 DEF IInv, ApplyInv, Position, Serving, Restart, mirrorVars, pgVars, slotVars
<1> QED BY <1>1, <1>2, <1>3, <1>4, <1>5, <1>6, <1>7, <1>8 DEF IInv

\* PostgreSQL confirms what a status update said, which the file holds.
LEMMA ConfirmStep ==
  ASSUME HasState, IInv, Confirm
  PROVE  IInv'
<1>1. TypeOK'
  BY DEF IInv, TypeOK, MirrorTypeOK, Confirm, Larger, mirrorVars, pgVars, sourceVars
<1>2. HistoryInv' /\ \A n : Image(n)' = Image(n)
  BY SameHistory, SameImages DEF IInv, pgVars, Confirm
<1>3. SlotInv'
  BY Positions DEF IInv, SlotInv, TypeOK, AckInv, Confirm, Larger, pgVars, sourceVars
<1>4. FileInv'
  BY <1>2 DEF IInv, FileInv, Confirm, Larger, pgVars
<1>5. AckInv'
  BY DEF IInv, AckInv, TypeOK, SavedPosition, Confirm, Larger, sourceVars
<1>6. WatermarkInv'
  BY DEF IInv, WatermarkInv, SavedPosition, Position, Live, Serving, Confirm, Larger,
     mirrorVars, pgVars
<1>7. StreamInv'
  BY DEF IInv, StreamInv, Position, Confirm, Larger, mirrorVars, pgVars, sourceVars
<1>8. ApplyInv'
  BY <1>2 DEF IInv, ApplyInv, Position, Serving, Confirm, Larger, mirrorVars, pgVars
<1> QED BY <1>1, <1>2, <1>3, <1>4, <1>5, <1>6, <1>7, <1>8 DEF IInv

\* The slot falls back, the stream and the status updates are gone.
LEMMA PgRestartStep ==
  ASSUME HasState, IInv, PgRestart
  PROVE  IInv'
<1>1. TypeOK'
  BY DEF IInv, TypeOK, MirrorTypeOK, PgRestart, mirrorVars, pgVars
<1>2. HistoryInv' /\ \A n : Image(n)' = Image(n)
  BY SameHistory, SameImages DEF IInv, pgVars, PgRestart
<1>3. SlotInv'
  BY DEF IInv, SlotInv, TypeOK, PgRestart, pgVars
<1>4. FileInv'
  BY <1>2 DEF IInv, FileInv, PgRestart, pgVars
<1>5. AckInv'
  BY Positions DEF IInv, AckInv, TypeOK, SlotInv, SavedPosition, PgRestart
<1>6. WatermarkInv'
  BY DEF IInv, WatermarkInv, SavedPosition, Position, Live, Serving, PgRestart, mirrorVars,
     pgVars
<1>7. StreamInv'
  BY DEF IInv, StreamInv, Position, PgRestart, mirrorVars, pgVars
<1>8. ApplyInv'
  BY <1>2 DEF IInv, ApplyInv, Position, Serving, PgRestart, mirrorVars, pgVars
<1> QED BY <1>1, <1>2, <1>3, <1>4, <1>5, <1>6, <1>7, <1>8 DEF IInv

\* A new slot starts at the end of the WAL, with nothing acked.
LEMMA CreateSlotStep ==
  ASSUME HasState, IInv, CreateSlot
  PROVE  IInv'
<1>1. TypeOK'
  BY DEF IInv, TypeOK, MirrorTypeOK, CreateSlot, mirrorVars, pgVars, sourceVars
<1>2. HistoryInv' /\ \A n : Image(n)' = Image(n)
  BY SameHistory, SameImages DEF IInv, pgVars, CreateSlot
<1>3. SlotInv'
  BY DEF IInv, SlotInv, TypeOK, CreateSlot, pgVars, sourceVars
<1>4. FileInv'
  BY <1>2 DEF IInv, FileInv, SlotInv, CreateSlot, pgVars
<1>5. AckInv'
  BY DEF IInv, AckInv, TypeOK, SlotInv, SavedPosition, CreateSlot, sourceVars
<1>6. WatermarkInv'
  BY DEF IInv, WatermarkInv, SavedPosition, Position, Live, Serving, CreateSlot,
     mirrorVars, pgVars
<1>7. StreamInv'
  BY DEF IInv, StreamInv, Position, CreateSlot, mirrorVars, pgVars, sourceVars
<1>8. ApplyInv'
  BY <1>2 DEF IInv, ApplyInv, Position, Serving, CreateSlot, mirrorVars, pgVars
<1> QED BY <1>1, <1>2, <1>3, <1>4, <1>5, <1>6, <1>7, <1>8 DEF IInv

\* The snapshot of a new slot is the table at its origin.
LEMMA SnapshotStep ==
  ASSUME HasState, IInv, Snapshot
  PROVE  IInv'
<1>1. TypeOK'
  <2>1. slot /\ origin \in 0..Len(wal)
    BY Positions DEF IInv, SlotInv, TypeOK, Snapshot
  <2>2. Image(origin) \in SqlTable
    BY <2>1, ImageType DEF IInv
  <2>3. db' \in MirrorRows
    BY <2>2, AsRowsType DEF Snapshot, FromSnapshot
  <2> QED
    BY <2>3 DEF IInv, TypeOK, MirrorTypeOK, Serving, Snapshot, FromSnapshot, pgVars, slotVars,
       sourceVars
<1>2. HistoryInv' /\ \A n : Image(n)' = Image(n)
  BY SameHistory, SameImages DEF IInv, pgVars, Snapshot
<1>3. SlotInv'
  BY DEF IInv, SlotInv, Snapshot, FromSnapshot, pgVars, slotVars, sourceVars
<1>4. FileInv'
  BY <1>2 DEF IInv, FileInv, Snapshot, FromSnapshot, pgVars, slotVars
<1>5. AckInv'
  BY DEF IInv, AckInv, SavedPosition, Snapshot, FromSnapshot, slotVars, sourceVars
<1>6. WatermarkInv'
  BY DEF IInv, WatermarkInv, TypeOK, SlotInv, SavedPosition, Position, Live, Serving,
     Snapshot, FromSnapshot, pgVars, slotVars
<1>7. StreamInv'
  BY DEF IInv, StreamInv, Position, Snapshot, FromSnapshot, pgVars, slotVars, sourceVars
<1>8. ApplyInv'
  BY <1>2 DEF IInv, ApplyInv, Position, Serving, Snapshot, FromSnapshot, pgVars, slotVars
<1> QED BY <1>1, <1>2, <1>3, <1>4, <1>5, <1>6, <1>7, <1>8 DEF IInv

\* The file is the table of its watermark, and so is what is loaded.
LEMMA LoadStep ==
  ASSUME HasState, IInv, Load
  PROVE  IInv'
<1>1. TypeOK'
  BY DEF IInv, TypeOK, File, Serving, MirrorTypeOK, Load, pgVars, slotVars, sourceVars
<1>2. HistoryInv' /\ \A n : Image(n)' = Image(n)
  BY SameHistory, SameImages DEF IInv, pgVars, Load
<1>3. SlotInv'
  BY DEF IInv, SlotInv, Load, pgVars, slotVars, sourceVars
<1>4. FileInv'
  BY <1>2 DEF IInv, FileInv, Load, pgVars, slotVars
<1>5. AckInv'
  BY DEF IInv, AckInv, SavedPosition, Load, slotVars, sourceVars
<1>6. WatermarkInv'
  BY DEF IInv, WatermarkInv, TypeOK, FileInv, File, SavedPosition, Position, Live, Serving,
     Load, pgVars, slotVars
<1>7. StreamInv'
  BY DEF IInv, StreamInv, Position, Load, pgVars, slotVars, sourceVars
<1>8. ApplyInv'
  <2>1. Position' = disk.last_lsn /\ db' = AsRows(Image(disk.last_lsn))
    BY DEF IInv, TypeOK, FileInv, Load, File, Position
  <2>2. db' = AsRows(Image(Position))'
    BY <1>2, <2>1
  <2> QED BY <2>2 DEF ApplyInv, Load
<1> QED BY <1>1, <1>2, <1>3, <1>4, <1>5, <1>6, <1>7, <1>8 DEF IInv

\* Streaming starts after the confirmed position, which the mirror has.
LEMMA StartStreamingStep ==
  ASSUME HasState, IInv, StartStreaming
  PROVE  IInv'
<1>1. TypeOK'
  BY DEF IInv, TypeOK, Serving, MirrorTypeOK, StartStreaming, mirrorVars, pgVars, slotVars
<1>2. HistoryInv' /\ \A n : Image(n)' = Image(n)
  BY SameHistory, SameImages DEF IInv, pgVars, StartStreaming
<1>3. SlotInv'
  BY DEF IInv, SlotInv, StartStreaming, pgVars, slotVars
<1>4. FileInv'
  BY <1>2 DEF IInv, FileInv, StartStreaming, pgVars, slotVars
<1>5. AckInv'
  BY DEF IInv, AckInv, TypeOK, SavedPosition, StartStreaming, slotVars
<1>6. WatermarkInv'
  BY DEF IInv, WatermarkInv, SavedPosition, Position, Live, Serving, StartStreaming,
     mirrorVars, pgVars, slotVars
<1>7. StreamInv'
  BY Positions DEF IInv, StreamInv, TypeOK, MirrorTypeOK, SlotInv, AckInv, WatermarkInv,
     SavedPosition, Live, Serving, Position, StartStreaming, mirrorVars, pgVars, slotVars
<1>8. ApplyInv'
  BY <1>2 DEF IInv, ApplyInv, Position, Serving, StartStreaming, mirrorVars, pgVars,
     slotVars
<1> QED BY <1>1, <1>2, <1>3, <1>4, <1>5, <1>6, <1>7, <1>8 DEF IInv

\* The transaction received is the one after the last delivered.
LEMMA ReceiveStep ==
  ASSUME HasState, IInv, Receive
  PROVE  IInv'
<1>1. TypeOK'
  BY DEF IInv, TypeOK, Serving, MirrorTypeOK, Receive, Larger, mirrorVars, pgVars, slotVars
<1>2. HistoryInv' /\ \A n : Image(n)' = Image(n)
  BY SameHistory, SameImages DEF IInv, pgVars, Receive
<1>3. SlotInv'
  BY DEF IInv, SlotInv, Receive, Larger, pgVars, slotVars
<1>4. FileInv'
  BY <1>2 DEF IInv, FileInv, Receive, Larger, pgVars, slotVars
<1>5. AckInv'
  BY DEF IInv, AckInv, SavedPosition, Receive, Larger, slotVars
<1>6. WatermarkInv'
  BY DEF IInv, WatermarkInv, SavedPosition, Position, Live, Serving, Receive, Larger,
     mirrorVars, pgVars, slotVars
<1>7. StreamInv'
  BY Positions DEF IInv, StreamInv, TypeOK, MirrorTypeOK, SlotInv, Position, Receive,
     Larger, mirrorVars, pgVars, slotVars
<1>8. ApplyInv'
  BY <1>2 DEF IInv, ApplyInv, Position, Serving, Receive, Larger, mirrorVars, pgVars,
     slotVars
<1> QED BY <1>1, <1>2, <1>3, <1>4, <1>5, <1>6, <1>7, <1>8 DEF IInv

\* A keepalive repeats an acknowledgement, it never makes one.
LEMMA KeepaliveStep ==
  ASSUME HasState, IInv, NEW r \in BOOLEAN, Keepalive(r)
  PROVE  IInv'
<1>1. TypeOK'
  BY DEF IInv, TypeOK, MirrorTypeOK, Keepalive, Larger, mirrorVars, pgVars, slotVars
<1>2. HistoryInv' /\ \A n : Image(n)' = Image(n)
  BY SameHistory, SameImages DEF IInv, pgVars, Keepalive
<1>3. SlotInv'
  BY DEF IInv, SlotInv, Keepalive, Larger, pgVars, slotVars
<1>4. FileInv'
  BY <1>2 DEF IInv, FileInv, Keepalive, Larger, pgVars, slotVars
<1>5. AckInv'
  BY DEF IInv, AckInv, SavedPosition, Keepalive, Larger, slotVars
<1>6. WatermarkInv'
  BY DEF IInv, WatermarkInv, SavedPosition, Position, Live, Serving, Keepalive, Larger,
     mirrorVars, pgVars, slotVars
<1>7. StreamInv'
  BY DEF IInv, StreamInv, Position, Keepalive, Larger, mirrorVars, pgVars, slotVars
<1>8. ApplyInv'
  BY <1>2 DEF IInv, ApplyInv, Position, Serving, Keepalive, Larger, mirrorVars, pgVars,
     slotVars
<1> QED BY <1>1, <1>2, <1>3, <1>4, <1>5, <1>6, <1>7, <1>8 DEF IInv

\* A redelivered transaction is one the mirror has.
LEMMA SkipRedeliveredStep ==
  ASSUME HasState, IInv, SkipRedelivered
  PROVE  IInv'
<1>1. TypeOK'
  BY DEF IInv, TypeOK, Serving, MirrorTypeOK, SkipRedelivered, Redelivered, mirrorVars,
     pgVars, slotVars, sourceVars
<1>2. HistoryInv' /\ \A n : Image(n)' = Image(n)
  BY SameHistory, SameImages DEF IInv, pgVars, SkipRedelivered
<1>3. SlotInv'
  BY DEF IInv, SlotInv, SkipRedelivered, Redelivered, pgVars, slotVars, sourceVars
<1>4. FileInv'
  BY <1>2 DEF IInv, FileInv, SkipRedelivered, Redelivered, pgVars, slotVars
<1>5. AckInv'
  BY DEF IInv, AckInv, SavedPosition, SkipRedelivered, Redelivered, slotVars, sourceVars
<1>6. WatermarkInv'
  BY DEF IInv, WatermarkInv, SavedPosition, Position, Live, Serving, SkipRedelivered,
     Redelivered, mirrorVars, pgVars, slotVars
<1>7. StreamInv'
  BY DEF IInv, StreamInv, TypeOK, MirrorTypeOK, Position, SkipRedelivered, Redelivered,
     mirrorVars, pgVars, slotVars, sourceVars
<1>8. ApplyInv'
  BY <1>2 DEF IInv, ApplyInv, Position, Serving, SkipRedelivered, Redelivered, mirrorVars,
     pgVars, slotVars
<1> QED BY <1>1, <1>2, <1>3, <1>4, <1>5, <1>6, <1>7, <1>8 DEF IInv

\* A transaction that is not redelivered is the next one, and the mirror is the
\* table it started from.
LEMMA BeginStep ==
  ASSUME HasState, IInv, Begin
  PROVE  IInv'
<1>1. TypeOK'
  BY DEF IInv, TypeOK, MirrorTypeOK, Begin, BeginApply, pgVars, slotVars, sourceVars
<1>2. HistoryInv' /\ \A n : Image(n)' = Image(n)
  BY SameHistory, SameImages DEF IInv, pgVars, Begin
<1>3. SlotInv'
  BY DEF IInv, SlotInv, Begin, BeginApply, pgVars, slotVars, sourceVars
<1>4. FileInv'
  BY <1>2 DEF IInv, FileInv, Begin, BeginApply, pgVars, slotVars
<1>5. AckInv'
  BY DEF IInv, AckInv, SavedPosition, Begin, BeginApply, slotVars, sourceVars
<1>6. WatermarkInv'
  BY DEF IInv, WatermarkInv, SavedPosition, Position, Live, Serving, Begin, BeginApply,
     pgVars, slotVars
<1>7. StreamInv'
  BY DEF IInv, StreamInv, TypeOK, MirrorTypeOK, Redelivered, Position, Begin, BeginApply,
     pgVars, slotVars, sourceVars
<1>8. ApplyInv'
  <2>1. tx = Position + 1 /\ origin < tx /\ tx <= Len(wal) /\ Position \in Nat /\ tx \in Nat
    BY DEF IInv, TypeOK, MirrorTypeOK, StreamInv, Position, Begin, BeginApply, Redelivered
  <2>2. db = AsRows(Image(Position))
    BY DEF IInv, ApplyInv, Begin, Serving
  <2>3. Chained(wal[tx], Image(tx - 1)) /\ wal[tx] \in Tx
    BY <2>1 DEF IInv, TypeOK, HistoryInv
  <2>4. wal[tx].imgs[1] = Image(Position) /\ Len(wal[tx].changes) \in Nat
    BY <2>1, <2>3 DEF Chained, Tx
  <2>5. /\ Position' = Position /\ pc' = "applying" /\ next' = 1
        /\ UNCHANGED << tx, wal, db >>
    BY DEF Begin, BeginApply, Position, pgVars, slotVars
  <2> QED BY <2>1, <2>2, <2>4, <2>5 DEF ApplyInv, Serving
<1> QED BY <1>1, <1>2, <1>3, <1>4, <1>5, <1>6, <1>7, <1>8 DEF IInv

\* The temporary file is invisible.
LEMMA WriteTempStep ==
  ASSUME HasState, IInv, WriteTemp
  PROVE  IInv'
<1>1. TypeOK'
  BY DEF IInv, TypeOK, Serving, MirrorTypeOK, WriteTemp, mirrorVars, pgVars, slotVars,
     sourceVars
<1>2. HistoryInv' /\ \A n : Image(n)' = Image(n)
  BY SameHistory, SameImages DEF IInv, pgVars, WriteTemp
<1>3. SlotInv'
  BY DEF IInv, SlotInv, WriteTemp, pgVars, slotVars, sourceVars
<1>4. FileInv'
  BY <1>2 DEF IInv, FileInv, WriteTemp, pgVars, slotVars
<1>5. AckInv'
  BY DEF IInv, AckInv, SavedPosition, WriteTemp, slotVars, sourceVars
<1>6. WatermarkInv'
  BY DEF IInv, WatermarkInv, SavedPosition, Position, Live, Serving, WriteTemp, mirrorVars,
     pgVars, slotVars
<1>7. StreamInv'
  BY DEF IInv, StreamInv, Position, WriteTemp, mirrorVars, pgVars, slotVars, sourceVars
<1>8. ApplyInv'
  BY <1>2 DEF IInv, ApplyInv, Position, Serving, WriteTemp, mirrorVars, pgVars, slotVars
<1> QED BY <1>1, <1>2, <1>3, <1>4, <1>5, <1>6, <1>7, <1>8 DEF IInv

\* The new file is the table of the new watermark, and ahead of every
\* acknowledgement.
LEMMA RenameStep ==
  ASSUME HasState, IInv, Rename
  PROVE  IInv'
<1>1. TypeOK' /\ disk' # NoFile
  <2>1. disk' \in File
    BY DEF IInv, TypeOK, MirrorTypeOK, Rename, File
  <2> QED
    BY <2>1, BoundsAssumption DEF IInv, TypeOK, MirrorTypeOK, Serving, Rename, mirrorVars,
       pgVars, slotVars, sourceVars
<1>2. HistoryInv' /\ \A n : Image(n)' = Image(n)
  BY SameHistory, SameImages DEF IInv, pgVars, Rename
<1>3. SlotInv'
  BY DEF IInv, SlotInv, Rename, pgVars, slotVars, sourceVars
<1>4. FileInv'
  <2>1. origin < last_lsn /\ last_lsn <= Len(wal)
    BY DEF IInv, TypeOK, MirrorTypeOK, WatermarkInv, StreamInv, Position, Rename, Live, Serving
  <2>2. db = AsRows(Image(last_lsn))
    BY <2>1 DEF IInv, TypeOK, ApplyInv, Rename, Position, Serving
  <2>3. (disk.db = AsRows(Image(disk.last_lsn)))'
    BY <1>2, <2>2 DEF Rename
  <2> QED BY <2>1, <2>3 DEF FileInv, Rename, pgVars, slotVars
<1>5. AckInv'
  <2>1. slot /\ Position = last_lsn /\ SavedPosition <= Position
    BY DEF IInv, TypeOK, MirrorTypeOK, SlotInv, WatermarkInv, StreamInv, Position, Rename, Live,
       Serving
  <2>2. SavedPosition' = Position
    BY <1>1, <2>1 DEF SavedPosition, Rename
  <2>3. SavedPosition \in Nat /\ Position \in Nat
    BY <2>1, Positions DEF IInv, TypeOK, Rename, Live, Serving
  <2> QED BY <2>1, <2>2, <2>3 DEF IInv, TypeOK, AckInv, Rename, slotVars, sourceVars
<1>6. WatermarkInv'
  <2>1. last_lsn <= Len(wal) /\ origin < last_lsn /\ last_lsn \in Nat
    BY DEF IInv, TypeOK, MirrorTypeOK, WatermarkInv, StreamInv, Position, Rename, Live, Serving
  <2>2. SavedPosition' = last_lsn /\ Position' = last_lsn
    BY <1>1, <2>1 DEF IInv, TypeOK, SavedPosition, Position, Rename, mirrorVars
  <2> QED BY <2>1, <2>2 DEF WatermarkInv, Rename, mirrorVars, pgVars, slotVars
<1>7. StreamInv'
  BY DEF IInv, StreamInv, Position, Rename, mirrorVars, pgVars, slotVars, sourceVars
<1>8. ApplyInv'
  BY <1>2 DEF IInv, ApplyInv, Position, Serving, Rename, mirrorVars, pgVars, slotVars
<1> QED BY <1>1, <1>2, <1>3, <1>4, <1>5, <1>6, <1>7, <1>8 DEF IInv

\* The directory fsync changes nothing that is seen.
LEMMA SyncDirStep ==
  ASSUME HasState, IInv, SyncDir
  PROVE  IInv'
<1>1. TypeOK'
  BY DEF IInv, TypeOK, Serving, MirrorTypeOK, SyncDir, mirrorVars, pgVars, slotVars,
     sourceVars
<1>2. HistoryInv' /\ \A n : Image(n)' = Image(n)
  BY SameHistory, SameImages DEF IInv, pgVars, SyncDir
<1>3. SlotInv'
  BY DEF IInv, SlotInv, SyncDir, pgVars, slotVars, sourceVars
<1>4. FileInv'
  BY <1>2 DEF IInv, FileInv, SyncDir, pgVars, slotVars
<1>5. AckInv'
  BY DEF IInv, AckInv, SavedPosition, SyncDir, slotVars, sourceVars
<1>6. WatermarkInv'
  BY DEF IInv, WatermarkInv, SavedPosition, Position, Live, Serving, SyncDir, mirrorVars,
     pgVars, slotVars
<1>7. StreamInv'
  BY DEF IInv, StreamInv, Position, SyncDir, mirrorVars, pgVars, slotVars, sourceVars
<1>8. ApplyInv'
  BY <1>2 DEF IInv, ApplyInv, Position, Serving, SyncDir, mirrorVars, pgVars, slotVars
<1> QED BY <1>1, <1>2, <1>3, <1>4, <1>5, <1>6, <1>7, <1>8 DEF IInv

\* What is acked is the transaction the mirror has, which is saved.
LEMMA AckStep ==
  ASSUME HasState, IInv, Ack
  PROVE  IInv'
<1>1. TypeOK'
  BY DEF IInv, TypeOK, Serving, MirrorTypeOK, Ack, Larger, mirrorVars, pgVars, slotVars
<1>2. HistoryInv' /\ \A n : Image(n)' = Image(n)
  BY SameHistory, SameImages DEF IInv, pgVars, Ack
<1>3. SlotInv'
  BY DEF IInv, SlotInv, Ack, Larger, pgVars, slotVars
<1>4. FileInv'
  BY <1>2 DEF IInv, FileInv, Ack, Larger, pgVars, slotVars
<1>5. AckInv'
  BY Positions DEF IInv, AckInv, TypeOK, SlotInv, WatermarkInv, StreamInv, Live, Serving,
     SavedPosition, Ack, Larger, slotVars
<1>6. WatermarkInv'
  BY DEF IInv, WatermarkInv, SavedPosition, Position, Live, Serving, Ack, Larger,
     mirrorVars, pgVars, slotVars
<1>7. StreamInv'
  BY DEF IInv, StreamInv, Position, Ack, Larger, mirrorVars, pgVars, slotVars
<1>8. ApplyInv'
  BY <1>2 DEF IInv, ApplyInv, Position, Serving, Ack, Larger, mirrorVars, pgVars, slotVars
<1> QED BY <1>1, <1>2, <1>3, <1>4, <1>5, <1>6, <1>7, <1>8 DEF IInv

\* A statement extends the open transaction by one legal change.
LEMMA StatementStep ==
  ASSUME HasState, IInv, Statement
  PROVE  IInv'
<1> DEFINE t == LastImage(open)
<1>1. PICK c \in Change :
        /\ Legal(t, c)
        /\ open' = [changes |-> Append(open.changes, c), imgs |-> Append(open.imgs, After(t, c))]
  BY DEF Statement
<1>2. /\ Chained(open, Image(Len(wal)))
      /\ open.changes \in Seq(Change) /\ open.imgs \in Seq(SqlTable)
  BY DEF IInv, TypeOK, HistoryInv, Tx
<1>3. Len(open.imgs) = Len(open.changes) + 1 /\ t = open.imgs[Len(open.imgs)] /\ t \in SqlTable
  BY <1>2 DEF Chained, LastImage
<1>4. After(t, c) \in SqlTable
  BY <1>1, <1>3, AfterType
<1> HIDE DEF t
<1>5. open' \in Tx
  BY <1>1, <1>2, <1>4 DEF Tx
<1>6. Chained(open', Image(Len(wal)))
  <2>1. Len(open'.imgs) = Len(open'.changes) + 1 /\ open'.imgs[1] = Image(Len(wal))
    BY <1>1, <1>2, <1>3 DEF Chained
  <2>2. ASSUME NEW i \in 1..Len(open'.changes)
        PROVE  /\ Legal(open'.imgs[i], open'.changes[i])
               /\ open'.imgs[i + 1] = After(open'.imgs[i], open'.changes[i])
    <3>1. CASE i \in 1..Len(open.changes)
      <4>1. /\ open'.imgs[i] = open.imgs[i] /\ open'.imgs[i + 1] = open.imgs[i + 1]
            /\ open'.changes[i] = open.changes[i]
        BY <1>1, <1>2, <1>3, <3>1
      <4> QED BY <1>2, <3>1, <4>1 DEF Chained
    <3>2. CASE i = Len(open.changes) + 1
      BY <1>1, <1>2, <1>3, <3>2
    <3>3. Len(open'.changes) = Len(open.changes) + 1 /\ Len(open.changes) \in Nat
      BY <1>1, <1>2
    <3> QED BY <3>1, <3>2, <3>3
  <2> QED BY <2>1, <2>2 DEF Chained
<1>7. /\ UNCHANGED << mirrorVars, base, wal, slotVars, acks, pc, tx, sourceVars, disk, faults >>
      /\ \A n : Image(n)' = Image(n)
  BY SameImages DEF Statement
<1>8. TypeOK'
  BY <1>5, <1>7 DEF IInv, TypeOK, MirrorTypeOK, mirrorVars, slotVars, sourceVars
<1>9. HistoryInv'
  BY <1>6, <1>7 DEF IInv, HistoryInv, Chained
<1>10. (SlotInv /\ FileInv /\ AckInv)'
  BY <1>7 DEF IInv, SlotInv, FileInv, AckInv, SavedPosition, slotVars, sourceVars
<1>11. (WatermarkInv /\ StreamInv /\ ApplyInv)'
  BY <1>7 DEF IInv, WatermarkInv, StreamInv, ApplyInv, SavedPosition, Position,
     mirrorVars, slotVars, sourceVars
<1> QED BY <1>8, <1>9, <1>10, <1>11 DEF IInv

\* A rollback takes the open transaction back to its start.
LEMMA RollbackStep ==
  ASSUME HasState, IInv, Rollback
  PROVE  IInv'
<1>1. /\ Chained(open, Image(Len(wal)))
      /\ open.changes \in Seq(Change) /\ open.imgs \in Seq(SqlTable)
  BY DEF IInv, TypeOK, HistoryInv, Tx
<1>2. open.imgs[1] = Image(Len(wal)) /\ open.imgs[1] \in SqlTable
  BY <1>1 DEF Chained
<1>3. open' \in Tx /\ Chained(open', Image(Len(wal)))
  BY <1>2 DEF Rollback, Begun, Tx, Chained
<1>4. /\ UNCHANGED << mirrorVars, base, wal, slotVars, acks, pc, tx, sourceVars, disk, faults >>
      /\ \A n : Image(n)' = Image(n)
  BY SameImages DEF Rollback
<1>5. TypeOK'
  BY <1>3, <1>4 DEF IInv, TypeOK, MirrorTypeOK, mirrorVars, slotVars, sourceVars
<1>6. HistoryInv'
  BY <1>3, <1>4 DEF IInv, HistoryInv, Chained
<1>7. (SlotInv /\ FileInv /\ AckInv)'
  BY <1>4 DEF IInv, SlotInv, FileInv, AckInv, SavedPosition, slotVars, sourceVars
<1>8. (WatermarkInv /\ StreamInv /\ ApplyInv)'
  BY <1>4 DEF IInv, WatermarkInv, StreamInv, ApplyInv, SavedPosition, Position,
     mirrorVars, slotVars, sourceVars
<1> QED BY <1>5, <1>6, <1>7, <1>8 DEF IInv

\* A commit appends the open transaction to the history.
LEMMA CommitStep ==
  ASSUME HasState, IInv, Commit
  PROVE  IInv'
<1>1. /\ Chained(open, Image(Len(wal)))
      /\ open.changes \in Seq(Change) /\ open.imgs \in Seq(SqlTable) /\ open \in Tx
      /\ wal \in Seq(Tx) /\ Len(wal) \in Nat
  BY DEF IInv, TypeOK, HistoryInv, Tx
<1>2. LastImage(open) \in SqlTable
  BY <1>1 DEF Chained, LastImage
<1>3. /\ open' = Begun(LastImage(open)) /\ wal' = Append(wal, open)
      /\ UNCHANGED << mirrorVars, base, slotVars, acks, pc, tx, sourceVars, disk, faults >>
  BY DEF Commit
<1>4. open' \in Tx /\ Chained(open', LastImage(open))
  BY <1>2, <1>3 DEF Begun, Tx, Chained
<1>5. /\ \A n \in 0..Len(wal) : Image(n)' = Image(n)
      /\ \A n : n = Len(wal) + 1 => Image(n)' = LastImage(open)
      /\ Len(wal') = Len(wal) + 1
      /\ \A n \in 1..Len(wal) : wal'[n] = wal[n]
      /\ wal'[Len(wal) + 1] = open
  BY CommitImages DEF IInv
<1>6. TypeOK'
  BY <1>1, <1>3, <1>4 DEF IInv, TypeOK, MirrorTypeOK, mirrorVars, slotVars, sourceVars
<1>7. HistoryInv'
  <2>1. ASSUME NEW n \in 1..Len(wal') PROVE Chained(wal[n], Image(n - 1))'
    <3>1. CASE n \in 1..Len(wal)
      <4>1. Chained(wal[n], Image(n - 1)) /\ n - 1 \in 0..Len(wal)
        BY <1>1, <3>1 DEF IInv, HistoryInv
      <4> QED BY <1>5, <3>1, <4>1 DEF Chained
    <3>2. CASE n = Len(wal) + 1
      <4>1. Image(n - 1)' = Image(Len(wal))
        BY <1>1, <1>5, <3>2
      <4> QED BY <1>1, <1>5, <3>2, <4>1 DEF Chained
    <3> QED BY <1>1, <1>5, <3>1, <3>2
  <2>2. Chained(open, Image(Len(wal)))'
    BY <1>4, <1>5 DEF Chained
  <2> QED BY <2>1, <2>2 DEF HistoryInv
<1>8. SlotInv'
  BY <1>1, <1>3, <1>5 DEF IInv, TypeOK, SlotInv, slotVars, sourceVars
<1>9. FileInv'
  <2>1. disk # NoFile => disk.last_lsn \in 0..Len(wal)
    BY DEF IInv, TypeOK, FileInv, File
  <2> QED BY <1>1, <1>3, <1>5, <2>1 DEF IInv, TypeOK, FileInv, File, slotVars
<1>10. AckInv'
  BY <1>3 DEF IInv, AckInv, SavedPosition, slotVars, sourceVars
<1>11. WatermarkInv' /\ StreamInv'
  BY <1>1, <1>3, <1>5 DEF IInv, TypeOK, MirrorTypeOK, WatermarkInv, StreamInv, SavedPosition,
     Position, mirrorVars, slotVars, sourceVars
<1>12. ApplyInv'
  <2>1. pc \in Serving => Position \in 0..Len(wal)
    BY Positions DEF IInv, TypeOK, SlotInv, Live, Serving
  <2>2. pc = "applying" => tx \in 1..Len(wal)
    BY DEF IInv, TypeOK, StreamInv
  <2>3. Position' = Position /\ UNCHANGED << pc, tx, next, db >>
    BY <1>3 DEF Position, mirrorVars, slotVars
  <2>4. pc \in Serving => Image(Position)' = Image(Position)
    BY <1>5, <2>1, <2>3
  <2> QED BY <1>5, <2>2, <2>3, <2>4 DEF IInv, ApplyInv
<1> QED BY <1>6, <1>7, <1>8, <1>9, <1>10, <1>11, <1>12 DEF IInv

\* What apply_tx works on while it is at a change.
LEMMA AtChangeFacts ==
  ASSUME HasState, IInv, AtChange
  PROVE  /\ tx = Position + 1 /\ tx \in 1..Len(wal) /\ wal[tx] \in Tx
         /\ next \in 1..Len(wal[tx].changes) /\ Len(wal[tx].changes) \in Nat
         /\ CurrentChange \in Change
         /\ wal[tx].imgs[next] \in SqlTable
         /\ Legal(wal[tx].imgs[next], CurrentChange)
         /\ wal[tx].imgs[next + 1] = After(wal[tx].imgs[next], CurrentChange)
         /\ db = AsRows(wal[tx].imgs[next]) /\ db \in MirrorRows
<1>1. tx = Position + 1 /\ tx \in 1..Len(wal) /\ db \in MirrorRows
  BY DEF IInv, TypeOK, MirrorTypeOK, StreamInv, ApplyInv, AtChange
<1>2. wal[tx] \in Tx /\ Chained(wal[tx], Image(tx - 1))
  BY <1>1 DEF IInv, TypeOK, HistoryInv
<1>3. wal[tx].changes \in Seq(Change) /\ wal[tx].imgs \in Seq(SqlTable)
  BY <1>2 DEF Tx
<1>4. next \in 1..Len(wal[tx].changes) /\ db = AsRows(wal[tx].imgs[next])
  BY <1>3 DEF IInv, ApplyInv, AtChange
<1>5. /\ Len(wal[tx].imgs) = Len(wal[tx].changes) + 1 /\ Len(wal[tx].changes) \in Nat
      /\ Legal(wal[tx].imgs[next], wal[tx].changes[next])
      /\ wal[tx].imgs[next + 1] = After(wal[tx].imgs[next], wal[tx].changes[next])
  BY <1>2, <1>3, <1>4 DEF Chained
<1>6. wal[tx].changes[next] \in Change /\ wal[tx].imgs[next] \in SqlTable
  BY <1>3, <1>4, <1>5
<1> QED BY <1>1, <1>2, <1>4, <1>5, <1>6 DEF CurrentChange

\* One change applied: the mirror follows the table.
LEMMA ApplyChangeStep ==
  ASSUME HasState, IInv, Apply
  PROVE  IInv'
<1>1. AtChange
  BY DEF Apply
<1>2. db' = AsRows(wal[tx].imgs[next + 1]) /\ db' \in MirrorRows
  BY <1>1, AtChangeFacts, ApplyStep DEF Apply
<1>3. /\ next' = next + 1 /\ applied' \in Nat
      /\ UNCHANGED << last_lsn, rows_applied, txs_applied, pgVars, slotVars, acks, pc, tx,
                      sourceVars, disk, faults >>
  BY DEF IInv, TypeOK, MirrorTypeOK, Apply, ApplyInsert, ApplyDelete, ApplyUpdate, SkipOther,
     ChangeApplied
<1>4. TypeOK'
  BY <1>2, <1>3 DEF IInv, TypeOK, MirrorTypeOK, pgVars, slotVars, sourceVars
<1>5. HistoryInv'
  BY <1>3, SameHistory DEF IInv
<1>6. \A n : Image(n)' = Image(n)
  BY <1>3, SameImages DEF pgVars
<1>7. (SlotInv /\ FileInv /\ AckInv)'
  BY <1>3, <1>6 DEF IInv, SlotInv, FileInv, AckInv, SavedPosition, pgVars, slotVars, sourceVars
<1>8. (WatermarkInv /\ StreamInv)'
  BY <1>3 DEF IInv, WatermarkInv, StreamInv, SavedPosition, Position, pgVars, slotVars, sourceVars
<1>9. ApplyInv'
  BY <1>1, <1>2, <1>3, AtChangeFacts DEF ApplyInv, AtChange, Position, Serving, pgVars, slotVars
<1> QED BY <1>4, <1>5, <1>7, <1>8, <1>9 DEF IInv

\* apply_tx fails: what it leaves is a mirror table, and nothing else moved.
LEMMA RejectStep ==
  ASSUME HasState, IInv, Reject
  PROVE  IInv'
<1>1. /\ AtChange /\ pc' = "failed" /\ next' = 0 /\ applied' = 0
      /\ UNCHANGED << last_lsn, rows_applied, txs_applied, pgVars, slotVars, acks, tx,
                      sourceVars, disk, faults >>
  BY DEF Reject, RejectChange
<1>2. db' \in MirrorRows
  <2> DEFINE c == CurrentChange
  <2>1. c \in Change /\ db \in MirrorRows
    BY <1>1, AtChangeFacts
  <2>2. /\ BadTuple(c) \/ OutOfSync(c)
        /\ db' = Residue(c)
    BY DEF Reject, RejectChange
  <2> HIDE DEF c
  <2>3. CASE BadTuple(c)
    BY <2>1, <2>2, <2>3 DEF Residue, BadTuple
  <2>4. CASE ~BadTuple(c) /\ c.op = "delete"
    <3>1. c.old \in Keys
      BY <2>1, <2>4 DEF Change, Insert, Delete, Update, Other
    <3> QED BY <2>1, <2>2, <2>4, <3>1, MirrorRowsTake DEF Residue, DeleteWhere
  <2>5. CASE ~BadTuple(c) /\ c.op # "delete"
    <3>1. PkOld(c) \in Keys
      BY <2>1, <2>2, <2>5 DEF OutOfSync, Change, Insert, Delete, Update, Other, PkOld
    <3> QED BY <2>1, <2>2, <2>5, <3>1, MirrorRowsTake DEF Residue, DeleteWhere
  <2> QED BY <2>3, <2>4, <2>5
<1>3. TypeOK'
  BY <1>1, <1>2 DEF IInv, TypeOK, MirrorTypeOK, Serving, pgVars, slotVars, sourceVars
<1>4. HistoryInv'
  BY <1>1, SameHistory DEF IInv
<1>5. \A n : Image(n)' = Image(n)
  BY <1>1, SameImages DEF pgVars
<1>6. (SlotInv /\ FileInv /\ AckInv)'
  BY <1>1, <1>5 DEF IInv, SlotInv, FileInv, AckInv, SavedPosition, AtChange, pgVars,
     slotVars, sourceVars
<1>7. (WatermarkInv /\ StreamInv /\ ApplyInv)'
  BY <1>1 DEF IInv, WatermarkInv, StreamInv, ApplyInv, SavedPosition, Position, AtChange,
     Live, Serving, pgVars, slotVars, sourceVars
<1> QED BY <1>3, <1>4, <1>6, <1>7 DEF IInv

\* The last change is in: the watermark moves to the transaction.
LEMMA FinishStep ==
  ASSUME HasState, IInv, Finish
  PROVE  IInv'
<1>1. /\ pc = "applying" /\ pc' = "writing" /\ next > Len(wal[tx].changes)
      /\ last_lsn' = tx /\ next' = 0 /\ applied' = 0 /\ db' = db
      /\ UNCHANGED << pgVars, slotVars, acks, tx, sourceVars, disk, faults >>
      /\ rows_applied' \in Nat /\ txs_applied' \in Nat
  BY DEF IInv, TypeOK, MirrorTypeOK, Finish, FinishApply
<1>2. tx = Position + 1 /\ tx \in 1..Len(wal) /\ origin < tx /\ Position \in Nat
  BY <1>1 DEF IInv, TypeOK, MirrorTypeOK, StreamInv, ApplyInv, Position
<1>3. wal[tx] \in Tx /\ Chained(wal[tx], Image(tx - 1))
  BY <1>2 DEF IInv, TypeOK, HistoryInv
<1>4. db = AsRows(Image(tx))
  <2>1. Len(wal[tx].imgs) = Len(wal[tx].changes) + 1 /\ Len(wal[tx].changes) \in Nat
    BY <1>3 DEF Chained, Tx
  <2>2. next = Len(wal[tx].imgs) /\ db = AsRows(wal[tx].imgs[next])
    BY <1>1, <2>1 DEF IInv, ApplyInv
  <2> QED BY <1>2, <2>2 DEF Image, LastImage
<1>5. TypeOK'
  BY <1>1, <1>2 DEF IInv, TypeOK, MirrorTypeOK, Serving, pgVars, slotVars, sourceVars
<1>6. HistoryInv'
  BY <1>1, SameHistory DEF IInv
<1>7. \A n : Image(n)' = Image(n)
  BY <1>1, SameImages DEF pgVars
<1>8. (SlotInv /\ FileInv /\ AckInv)'
  BY <1>1, <1>7 DEF IInv, SlotInv, FileInv, AckInv, SavedPosition, pgVars, slotVars, sourceVars
<1>9. Position' = tx /\ SavedPosition' = SavedPosition
  BY <1>1, <1>2 DEF Position, SavedPosition, slotVars
<1>10. SavedPosition = Position
  BY <1>1 DEF IInv, WatermarkInv, Live
<1>11. (WatermarkInv /\ StreamInv)'
  BY <1>1, <1>2, <1>9, <1>10 DEF IInv, TypeOK, WatermarkInv, StreamInv, Live, Serving, pgVars,
     slotVars, sourceVars
<1>12. ApplyInv'
  BY <1>1, <1>4, <1>7, <1>9 DEF ApplyInv
<1> QED BY <1>5, <1>6, <1>8, <1>11, <1>12 DEF IInv

\* Every step preserves the invariant.
LEMMA NextIInv ==
  ASSUME HasState, IInv, [Next]_vars
  PROVE  IInv'
<1>1. CASE Statement
  BY <1>1, StatementStep
<1>2. CASE Commit
  BY <1>2, CommitStep
<1>3. CASE Rollback
  BY <1>3, RollbackStep
<1>4. CASE Confirm
  BY <1>4, ConfirmStep
<1>5. CASE PgRestart
  BY <1>5, PgRestartStep
<1>6. CASE Restart
  BY <1>6, RestartStep
<1>7. CASE CreateSlot
  BY <1>7, CreateSlotStep
<1>8. CASE Snapshot
  BY <1>8, SnapshotStep
<1>9. CASE Load
  BY <1>9, LoadStep
<1>10. CASE StartStreaming
  BY <1>10, StartStreamingStep
<1>11. CASE Receive
  BY <1>11, ReceiveStep
<1>12. CASE \E r \in BOOLEAN : Keepalive(r)
  BY <1>12, KeepaliveStep
<1>13. CASE SkipRedelivered
  BY <1>13, SkipRedeliveredStep
<1>14. CASE Begin
  BY <1>14, BeginStep
<1>15. CASE Apply
  BY <1>15, ApplyChangeStep
<1>16. CASE Reject
  BY <1>16, RejectStep
<1>17. CASE Finish
  BY <1>17, FinishStep
<1>18. CASE WriteTemp
  BY <1>18, WriteTempStep
<1>19. CASE Rename
  BY <1>19, RenameStep
<1>20. CASE SyncDir
  BY <1>20, SyncDirStep
<1>21. CASE Ack
  BY <1>21, AckStep
<1>22. CASE SnapshotHasNull \/ NothingToResume \/ ExitOnError \/ Kill
  <2>1. Forget /\ UNCHANGED << pgVars, slotVars, acks, disk >> /\ faults' \in Nat
    BY <1>22 DEF IInv, TypeOK, SnapshotHasNull, NothingToResume, ExitOnError, Kill
  <2> QED BY <2>1, ForgetStep
<1>23. CASE UNCHANGED vars
  <2>1. UNCHANGED << mirrorVars, pgVars, slotVars, acks, pc, tx, sourceVars, disk, faults >>
    BY <1>23 DEF vars
  <2>2. HistoryInv' /\ \A n : Image(n)' = Image(n)
    BY <2>1, SameHistory, SameImages DEF IInv, pgVars
  <2>3. (TypeOK /\ SlotInv /\ FileInv /\ AckInv)'
    BY <2>1, <2>2 DEF IInv, TypeOK, MirrorTypeOK, SlotInv, FileInv, AckInv, SavedPosition,
       mirrorVars, pgVars, slotVars, sourceVars
  <2>4. (WatermarkInv /\ StreamInv /\ ApplyInv)'
    BY <2>1, <2>2 DEF IInv, WatermarkInv, StreamInv, ApplyInv, SavedPosition, Position,
       mirrorVars, pgVars, slotVars, sourceVars
  <2> QED BY <2>2, <2>3, <2>4 DEF IInv
<1> QED
  BY <1>1, <1>2, <1>3, <1>4, <1>5, <1>6, <1>7, <1>8, <1>9, <1>10, <1>11, <1>12, <1>13,
     <1>14, <1>15, <1>16, <1>17, <1>18, <1>19, <1>20, <1>21, <1>22, <1>23
     DEF Next, Daemon, Start, Loop, Postgres

-----------------------------------------------------------------------------
(* The theorems.                                                            *)

\* The inductive invariant holds in every reachable state of a daemon run with
\* --state.
THEOREM Invariance ==
  ASSUME HasState
  PROVE  Spec => []IInv
<1>1. Init => IInv
  BY InitIInv
<1>2. IInv /\ [Next]_vars => IInv'
  BY NextIInv
<1> QED BY <1>1, <1>2, PTL DEF Spec

\* Every variable always has its type (main.rs, source.rs, apply.rs).
THEOREM TypeCorrect ==
  ASSUME HasState
  PROVE  Spec => []TypeOK
<1>1. IInv => TypeOK
  BY DEF IInv
<1> QED BY <1>1, Invariance, PTL

\* Exactly-once: outside apply_tx the mirror is the published table as the
\* transaction of its watermark left it, for any number of transactions,
\* restarts, reconnections and redeliveries (apply.rs 57-72).
THEOREM ExactlyOnce ==
  ASSUME HasState
  PROVE  Spec => []InSync
<1>1. IInv => InSync
  BY DEF IInv, ApplyInv, InSync
<1> QED BY <1>1, Invariance, PTL

\* The state file always holds the table of its own watermark (durable.rs 143-148).
THEOREM FileExact ==
  ASSUME HasState
  PROVE  Spec => []FileInSync
<1>1. IInv => FileInSync
  BY DEF IInv, FileInv, FileInSync
<1> QED BY <1>1, Invariance, PTL

\* PostgreSQL never hears of a transaction the state file does not hold
\* (main.rs 94-101).
THEOREM SaveThenAck ==
  ASSUME HasState
  PROVE  Spec => []AckedIsSaved
<1>1. IInv => AckedIsSaved
  BY DEF IInv, AckInv, AckedIsSaved
<1> QED BY <1>1, Invariance, PTL

\* A daemon that serves, serves at least what PostgreSQL was told it has
\* (main.rs 94-101).
THEOREM NeverOlderThanAcked ==
  ASSUME HasState
  PROVE  Spec => []ServesAcked
<1>1. ASSUME IInv PROVE ServesAcked
  <2>1. ASSUME pc \in Live PROVE confirmed <= Position
    <3>1. slot /\ SavedPosition <= Position /\ confirmed <= SavedPosition
      BY <1>1, <2>1 DEF IInv, SlotInv, AckInv, WatermarkInv, Live, Serving
    <3>2. confirmed \in Nat /\ SavedPosition \in Nat /\ Position \in Nat
      BY <1>1, <2>1, <3>1, Positions DEF IInv, TypeOK
    <3> QED BY <3>1, <3>2
  <2> QED BY <2>1 DEF ServesAcked, Live
<1> QED BY <1>1, Invariance, PTL

\* apply_tx never finds the mirror out of sync (apply.rs 189-194, 235-240).
THEOREM OutOfSyncUnreachable ==
  ASSUME HasState
  PROVE  Spec => []NeverOutOfSync
<1>1. ASSUME IInv PROVE NeverOutOfSync
  BY <1>1, AtChangeFacts, LegalInSync DEF NeverOutOfSync
<1> QED BY <1>1, Invariance, PTL

\* apply_tx has not returned an error to this process.
Healthy == pc # "failed"

\* Where no mapped column admits NULL, apply_tx never fails, and no reader can see
\* part of a transaction (apply.rs 63-66).
THEOREM NoPartialReadsWithoutNulls ==
  ASSUME HasState, ~Nullable
  PROVE  Spec => []NoPartialReads
<1>1. ASSUME IInv, Reject PROVE FALSE
  <2> DEFINE c == CurrentChange
             t == wal[tx].imgs[next]
  <2>1. c \in Change /\ t \in SqlTable /\ Legal(t, c) /\ db = AsRows(t)
    BY <1>1, AtChangeFacts DEF Reject
  <2>2. BadTuple(c) \/ OutOfSync(c)
    BY <1>1 DEF Reject, RejectChange
  <2> HIDE DEF c, t
  <2>3. BadTuple(c)
    BY <2>1, <2>2, LegalInSync
  <2>4. c.op \in {"insert", "update"} /\ c.datum # NULL
    BY <2>1, <2>3 DEF BadTuple, Legal
  <2>5. c.op = "update" /\ Len(db[PkOld(c)]) = 0
    BY <2>3, <2>4 DEF BadTuple
  <2>6. PkOld(c) \in Keys /\ t[PkOld(c)] # NoRow
    BY <2>1, <2>5 DEF Legal, Change, Insert, Delete, Update, Other, PkOld
  <2> QED BY <2>1, <2>5, <2>6 DEF AsRows
<1>2. Init => Healthy
  BY DEF Init, Healthy
<1>3. IInv /\ Healthy /\ [Next]_vars => Healthy'
  BY <1>1 DEF Next, Daemon, Start, Loop, Postgres, vars, Statement, Commit, Rollback, Confirm,
     PgRestart, Restart, CreateSlot, Snapshot, SnapshotHasNull, Load, NothingToResume,
     StartStreaming, Receive, Keepalive, SkipRedelivered, Begin, Apply, Finish, WriteTemp,
     Rename, SyncDir, Ack, ExitOnError, Kill, Forget, Healthy
<1>4. IInv /\ Healthy => NoPartialReads
  BY DEF IInv, ApplyInv, NoPartialReads, Healthy
<1> QED BY <1>2, <1>3, <1>4, Invariance, PTL DEF Spec

-----------------------------------------------------------------------------
(* The daemon run with --state implements CdcContract: each of its steps is *)
(* one step of the contract, or none.                                       *)

\* The history the contract sees has one state more than there are transactions.
HistoryView ==
  /\ Len(History) = Len(wal) + 1 /\ Len(wal) \in Nat
  /\ \A n \in 0..Len(wal) : History[n + 1] = AsRows(Image(n))

\* What is shown is a mirror of the committed state at its place, and not Dark.
ShownView ==
  /\ pc \in Live => Shown = AsRows(Image(Position)) /\ Shown # NoFile /\ At = Position
  /\ pc \notin Live => Shown = NoFile /\ At = 0

View == IInv /\ HistoryView /\ ShownView

\* The invariant fixes what the contract sees.
LEMMA ViewHolds ==
  ASSUME HasState, IInv
  PROVE  View
<1>1. HistoryView
  <2>1. Len(wal) \in Nat
    BY DEF IInv, TypeOK
  <2>2. History = [n \in 1..(Len(wal) + 1) |-> AsRows(Image(n - 1))]
    BY DEF History
  <2> QED BY <2>1, <2>2 DEF HistoryView
<1>2. ASSUME NEW t \in SqlTable PROVE AsRows(t) \in [Keys -> Seq(Vals \cup {NULL})]
  <2> DEFINE V == Vals \cup {NULL}
  <2>1. ASSUME NEW k \in Keys PROVE t[k] = NoRow \/ t[k] \in V
    BY DEF SqlTable
  <2> HIDE DEF V
  <2>2. ASSUME NEW k \in Keys
        PROVE  (IF t[k] = NoRow THEN << >> ELSE << t[k] >>) \in Seq(V)
    BY <2>1
  <2>3. AsRows(t) \in [Keys -> Seq(V)]
    BY <2>2 DEF AsRows
  <2> QED BY <2>3 DEF V
<1>3. ASSUME pc \in Live
      PROVE  Shown = AsRows(Image(Position)) /\ Shown # NoFile
  <2>1. Position \in 0..Len(wal)
    BY <1>3, Positions DEF IInv, SlotInv, TypeOK, Live, Serving
  <2>2. AsRows(Image(Position)) \in [Keys -> Seq(Vals \cup {NULL})]
    BY <1>2, <2>1, ImageType DEF IInv
  <2>3. Shown = AsRows(Image(Position))
    BY <1>3 DEF Shown, IInv, ApplyInv, Live, Serving
  <2> QED BY <2>2, <2>3, BoundsAssumption
<1>4. pc \notin Live => Shown = NoFile
  BY DEF Shown, Live, Serving
<1> QED BY <1>1, <1>3, <1>4 DEF View, ShownView, At

-----------------------------------------------------------------------------
(* Steps that the contract does not see.                                    *)

\* A step that moves neither history, slot, file nor position.
LEMMA Stutter ==
  ASSUME HasState, View, View',
         UNCHANGED << base, wal, slot, origin, confirmed, disk >>,
         pc \in Live <=> pc' \in Live,
         pc \in Live => Position' = Position
  PROVE  UNCHANGED Contract!vars
<1>1. \A n : Image(n)' = Image(n)
  BY SameImages
<1>2. History' = History
  BY <1>1 DEF History
<1>3. Saved' = Saved
  BY DEF Saved
<1>4. CASE pc \in Live
  <2>1. AsRows(Image(Position))' = AsRows(Image(Position))
    BY <1>1, <1>4
  <2> QED BY <1>2, <1>3, <1>4, <2>1 DEF View, ShownView, Contract!vars
<1>5. CASE pc \notin Live
  BY <1>2, <1>3, <1>5 DEF View, ShownView, Contract!vars
<1> QED BY <1>4, <1>5

\* Steps that only move the confirmed position of the slot.
LEMMA AcknowledgeStep ==
  ASSUME HasState, View, View', Confirm \/ PgRestart
  PROVE  Contract!Acknowledge \/ UNCHANGED Contract!vars
<1>1. /\ UNCHANGED << base, wal, slot, origin, disk, pc, last_lsn >>
      /\ pc \in Live => Position' = Position
  BY DEF Confirm, PgRestart, mirrorVars, pgVars, Position
<1>2. CASE confirmed' = confirmed
  BY <1>1, <1>2, Stutter
<1>3. CASE confirmed' # confirmed
  <2>1. slot
    BY DEF View, IInv, SlotInv, Confirm, PgRestart
  <2>2. slot' /\ origin' = origin /\ origin \in Nat /\ confirmed \in Nat /\ confirmed' \in Nat
    BY <1>1, <2>1 DEF View, IInv, TypeOK
  <2>3. origin <= confirmed' /\ confirmed' <= SavedPosition' /\ origin <= confirmed
        /\ confirmed <= SavedPosition
    BY <1>1, <2>1, <2>2 DEF View, IInv, SlotInv, AckInv
  <2>4. SavedPosition' = SavedPosition
    BY <1>1 DEF SavedPosition
  <2>5. disk # NoFile
    BY <1>3, <2>2, <2>3, <2>4 DEF SavedPosition
  <2>6. disk.last_lsn \in Nat
    BY <2>5 DEF View, IInv, TypeOK, File
  <2>7. Saved = disk.last_lsn /\ Saved # -1 /\ Saved' = Saved /\ SavedPosition = Saved
    BY <1>1, <2>5, <2>6 DEF Saved, SavedPosition
  <2>8. confirmed' \in origin..Saved
    BY <2>2, <2>3, <2>4, <2>6, <2>7
  <2>9. \A n : Image(n)' = Image(n)
    BY <1>1, SameImages
  <2>10. History' = History
    BY <1>1, <2>9 DEF History
  <2>11. Shown' = Shown /\ At' = At
    <3>1. CASE pc \in Live
      <4>1. AsRows(Image(Position))' = AsRows(Image(Position))
        BY <1>1, <2>9, <3>1
      <4> QED BY <1>1, <3>1, <4>1 DEF View, ShownView
    <3>2. CASE pc \notin Live
      BY <1>1, <3>2 DEF View, ShownView
    <3> QED BY <3>1, <3>2
  <2> QED BY <1>1, <2>7, <2>8, <2>10, <2>11 DEF Contract!Acknowledge
<1> QED BY <1>2, <1>3

-----------------------------------------------------------------------------
(* Steps of the contract.                                                   *)

\* A process that ends shows nothing any more.
LEMMA DieStep ==
  ASSUME HasState, View, View', Forget, UNCHANGED << pgVars, slotVars, disk >>
  PROVE  Contract!Die
<1>1. History' = History
  BY SameImages DEF pgVars, History
<1>2. Shown' = NoFile /\ At' = 0
  BY DEF View, ShownView, Forget, Live, Serving
<1> QED BY <1>1, <1>2 DEF Contract!Die, Saved, slotVars

\* The slot is the subscription.
LEMMA SubscribeStep ==
  ASSUME HasState, View, View', CreateSlot
  PROVE  Contract!Subscribe
<1>1. History' = History
  BY SameImages DEF CreateSlot, pgVars, History
<1>2. Shown' = Shown /\ At' = At
  BY DEF View, ShownView, CreateSlot, Live, Serving
<1>3. Contract!Newest = Len(wal)
  BY DEF View, HistoryView, Contract!Newest
<1> QED BY <1>1, <1>2, <1>3 DEF Contract!Subscribe, CreateSlot, Saved

\* A process that has its mirror shows the state it resumed from.
LEMMA ShowFirstStep ==
  ASSUME HasState, View, View', Snapshot \/ Load
  PROVE  Contract!ShowSnapshot \/ Contract!Resume
<1>1. /\ UNCHANGED << base, wal, slot, origin, confirmed, disk >>
      /\ pc \notin Live /\ pc' \in Live
  BY DEF Snapshot, Load, FromSnapshot, pgVars, slotVars, Live, Serving
<1>2. History' = History /\ \A n : Image(n)' = Image(n) /\ Saved' = Saved
  BY <1>1, SameImages DEF History, Saved
<1>3. slot /\ origin \in 0..Len(wal) /\ SavedPosition \in 0..Len(wal)
  <2>1. slot
    BY DEF View, IInv, SlotInv, Snapshot, Load
  <2> QED BY <2>1, Positions DEF View, IInv, TypeOK
<1>4. Shown = NoFile /\ Shown' = AsRows(Image(Position))' /\ At' = Position'
  BY <1>1 DEF View, ShownView
<1>5. CASE Snapshot
  <2>1. Position' = origin /\ disk = NoFile
    BY <1>5 DEF View, IInv, SlotInv, Snapshot, FromSnapshot, Position, slotVars
  <2>2. Shown' = History[origin + 1]
    BY <1>2, <1>3, <1>4, <2>1 DEF View, HistoryView
  <2>3. Saved = -1
    BY <2>1 DEF Saved
  <2> QED BY <1>1, <1>2, <1>3, <1>4, <2>1, <2>2, <2>3 DEF Contract!ShowSnapshot
<1>6. CASE Load
  <2>1. disk # NoFile /\ disk.last_lsn \in 0..Len(wal) /\ disk.last_lsn # 0
    BY <1>3, <1>6 DEF View, IInv, TypeOK, FileInv, Load, SavedPosition
  <2>2. Position' = Saved /\ Saved = disk.last_lsn /\ Saved # -1
    BY <1>6, <2>1 DEF Load, Position, Saved
  <2>3. Shown' = History[Saved + 1]
    BY <1>2, <1>4, <2>1, <2>2 DEF View, HistoryView
  <2> QED BY <1>1, <1>2, <1>3, <1>4, <2>2, <2>3 DEF Contract!Resume
<1> QED BY <1>5, <1>6

\* The transaction apply_tx was at becomes visible as a whole.
LEMMA ShowNextStep ==
  ASSUME HasState, View, View', Finish
  PROVE  Contract!ShowNext
<1>1. /\ pc = "applying" /\ pc' = "writing" /\ last_lsn' = tx
      /\ UNCHANGED << base, wal, slot, origin, confirmed, disk, tx >>
  BY DEF Finish, FinishApply, pgVars, slotVars
<1>2. tx = Position + 1 /\ tx \in 1..Len(wal) /\ Position \in Nat /\ tx # 0
  BY <1>1 DEF View, IInv, TypeOK, MirrorTypeOK, StreamInv, ApplyInv, Position
<1>3. Position' = tx
  BY <1>1, <1>2 DEF Position
<1>4. /\ Shown # NoFile /\ At = Position
      /\ Shown' = AsRows(Image(Position))' /\ At' = Position'
  BY <1>1 DEF View, ShownView, Live, Serving
<1>5. History' = History /\ \A n : Image(n)' = Image(n) /\ Saved' = Saved
  BY <1>1, SameImages DEF History, Saved
<1>6. Shown' = History[tx + 1]
  BY <1>2, <1>3, <1>4, <1>5 DEF View, HistoryView
<1>7. Contract!Newest = Len(wal)
  BY DEF View, HistoryView, Contract!Newest
<1>8. At < Contract!Newest /\ At' = At + 1 /\ Shown' = History[At + 2]
  BY <1>2, <1>3, <1>4, <1>6, <1>7
<1> QED BY <1>1, <1>4, <1>5, <1>8 DEF Contract!ShowNext

\* The rename is the checkpoint.
LEMMA CheckpointStep ==
  ASSUME HasState, View, View', Rename
  PROVE  Contract!Checkpoint
<1>1. /\ pc = "renaming" /\ pc' = "syncing" /\ disk'.last_lsn = last_lsn
      /\ UNCHANGED << base, wal, slot, origin, confirmed, last_lsn >>
  BY DEF Rename, mirrorVars, pgVars, slotVars
<1>2. Position = last_lsn /\ Position' = Position
  BY <1>1 DEF View, IInv, TypeOK, MirrorTypeOK, StreamInv, Position
<1>3. \A n : Image(n)' = Image(n)
  BY <1>1, SameImages
<1>4. History' = History
  BY <1>1, <1>3 DEF History
<1>5. AsRows(Image(Position))' = AsRows(Image(Position))
  BY <1>2, <1>3
<1>6. Shown # NoFile /\ Shown' = Shown /\ At = Position /\ At' = At
  BY <1>1, <1>2, <1>5 DEF View, ShownView, Live, Serving
<1>7. disk' # NoFile
  <2>1. disk' \in File
    BY DEF View, IInv, TypeOK, MirrorTypeOK, Rename, File
  <2> QED BY <2>1, BoundsAssumption
<1>8. Saved' = At
  BY <1>1, <1>2, <1>6, <1>7 DEF Saved
<1> QED BY <1>1, <1>4, <1>6, <1>8 DEF Contract!Checkpoint

\* A commit adds a state to the history; what is shown stays.
LEMMA HistoryStep ==
  ASSUME HasState, View, View', Commit
  PROVE  Contract!Commit
<1>1. /\ \A n \in 0..Len(wal) : Image(n)' = Image(n)
      /\ Len(wal') = Len(wal) + 1
      /\ UNCHANGED << slot, origin, confirmed, disk, pc, last_lsn >>
  BY CommitImages DEF View, IInv, Commit, mirrorVars, slotVars
<1>2. Len(wal) \in Nat /\ Len(History) = Len(wal) + 1 /\ Len(History') = Len(History) + 1
  BY <1>1 DEF View, HistoryView
<1>3. ASSUME NEW n \in 1..Len(History) PROVE History'[n] = History[n]
  <2> DEFINE m == n - 1
  <2>1. m \in 0..Len(wal) /\ m \in 0..Len(wal') /\ n = m + 1
    BY <1>1, <1>2
  <2>2. History[m + 1] = AsRows(Image(m)) /\ History'[m + 1] = AsRows(Image(m)')
    BY <2>1 DEF View, HistoryView
  <2>3. Image(m)' = Image(m)
    BY <1>1, <2>1
  <2> QED BY <2>1, <2>2, <2>3
<1>4. Shown' = Shown /\ At' = At
  <2>1. CASE pc \in Live
    <3>1. Position' = Position
      BY <1>1 DEF Position
    <3>2. Position \in 0..Len(wal)
      BY <2>1, Positions DEF View, IInv, TypeOK, SlotInv, Live, Serving
    <3>3. AsRows(Image(Position))' = AsRows(Image(Position))
      BY <1>1, <3>1, <3>2
    <3> QED BY <1>1, <2>1, <3>1, <3>3 DEF View, ShownView
  <2>2. CASE pc \notin Live
    BY <1>1, <2>2 DEF View, ShownView
  <2> QED BY <2>1, <2>2
<1>5. Saved' = Saved
  BY <1>1 DEF Saved
<1> QED BY <1>1, <1>2, <1>3, <1>4, <1>5 DEF Contract!Commit

-----------------------------------------------------------------------------
\* Every step of the daemon is a step of the contract, or none.
LEMMA NextRefines ==
  ASSUME HasState, View, View', [Next]_vars
  PROVE  [Contract!Next]_Contract!vars
<1>1. CASE Confirm \/ PgRestart
  BY <1>1, AcknowledgeStep DEF Contract!Next
<1>2. CASE SnapshotHasNull \/ NothingToResume \/ ExitOnError \/ Kill
  <2>1. Forget /\ UNCHANGED << pgVars, slotVars, disk >>
    BY <1>2 DEF SnapshotHasNull, NothingToResume, ExitOnError, Kill
  <2> QED BY <2>1, DieStep DEF Contract!Next
<1>3. CASE CreateSlot
  BY <1>3, SubscribeStep DEF Contract!Next
<1>4. CASE Snapshot \/ Load
  BY <1>4, ShowFirstStep DEF Contract!Next
<1>5. CASE Finish
  BY <1>5, ShowNextStep DEF Contract!Next
<1>6. CASE Rename
  BY <1>6, CheckpointStep DEF Contract!Next
<1>7. CASE Commit
  BY <1>7, HistoryStep DEF Contract!Next
<1>8. CASE Statement \/ Rollback \/ Restart
  BY <1>8, Stutter DEF Statement, Rollback, Restart, mirrorVars, pgVars, slotVars, Position,
     Live, Serving
<1>9. CASE StartStreaming \/ Receive \/ SkipRedelivered \/ WriteTemp \/ SyncDir \/ Ack
  BY <1>9, Stutter DEF StartStreaming, Receive, SkipRedelivered, WriteTemp, SyncDir, Ack,
     mirrorVars, pgVars, slotVars, Position, Live, Serving
<1>10. CASE Begin \/ Reject
  BY <1>10, Stutter DEF Begin, BeginApply, Reject, RejectChange, AtChange, pgVars, slotVars,
     Position, Live, Serving
<1>11. CASE Apply
  BY <1>11, Stutter DEF Apply, ApplyInsert, ApplyDelete, ApplyUpdate, SkipOther, ChangeApplied,
     pgVars, slotVars, Position
<1>12. CASE \E r \in BOOLEAN : Keepalive(r)
  BY <1>12, Stutter DEF Keepalive, mirrorVars, pgVars, slotVars, Position
<1>13. CASE UNCHANGED vars
  BY <1>13, Stutter DEF vars, mirrorVars, pgVars, slotVars, Position
<1> QED
  BY <1>1, <1>2, <1>3, <1>4, <1>5, <1>6, <1>7, <1>8, <1>9, <1>10, <1>11, <1>12, <1>13
     DEF Next, Daemon, Start, Loop, Postgres

\* At first nothing is shown, subscribed or saved.
LEMMA InitRefines ==
  ASSUME Init
  PROVE  Contract!Init
<1>1. pc = "exited" /\ wal = << >> /\ disk = NoFile
  BY DEF Init
<1>2. Shown = NoFile /\ At = 0 /\ Saved = -1
  BY <1>1 DEF Shown, At, Saved, Serving
<1>3. Len(History) = 1
  BY <1>1 DEF History
<1> QED BY <1>2, <1>3 DEF Init, Contract!Init

\* The daemon implements the contract of the maintenance plane: readers are shown
\* the committed states in order, none skipped, a new process resumes at the
\* checkpoint, and PostgreSQL is told to forget no more than it (main.rs 34-117).
THEOREM Refinement ==
  ASSUME HasState
  PROVE  Spec => ImplementsContract
<1>1. Init => Contract!Init
  BY InitRefines
<1>2. IInv => View
  BY ViewHolds
<1>3. View /\ View' /\ [Next]_vars => [Contract!Next]_Contract!vars
  BY NextRefines
<1>4. Spec => []IInv
  BY Invariance
<1> QED BY <1>1, <1>2, <1>3, <1>4, PTL DEF Spec, ImplementsContract, Contract!Spec
=============================================================================
