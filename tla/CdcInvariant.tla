---------------------------- MODULE CdcInvariant ----------------------------
(***************************************************************************)
(* The inductive invariant behind the safety properties of CdcDaemon run   *)
(* with --state: where the transaction in hand, the stream, the watermark, *)
(* the state file and the acknowledgements stand relative to each other at *)
(* every step of the daemon.                                               *)
(***************************************************************************)
EXTENDS CdcDaemon

Live == Serving \cup {"applying"}

\* A transaction is a chain of legal changes from the table before it.
Chained(t, before) ==
  /\ Len(t.imgs) = Len(t.changes) + 1
  /\ t.imgs[1] = before
  /\ \A i \in 1..Len(t.changes) :
       /\ Legal(t.imgs[i], t.changes[i])
       /\ t.imgs[i + 1] = After(t.imgs[i], t.changes[i])

HistoryInv ==
  /\ \A n \in 1..Len(wal) : Chained(wal[n], Image(n - 1))
  /\ Chained(open, Image(Len(wal)))

\* Without a slot nothing has happened yet; a snapshot is taken of a new slot.
SlotInv ==
  /\ slot  => origin <= confirmed /\ confirmed <= Len(wal)
  /\ ~slot => /\ pc \in {"exited", "starting"}
              /\ disk = NoFile /\ acks = {} /\ last_ack = 0
  /\ pc = "snapshot" => disk = NoFile

\* The file holds the table of its watermark, which lies past the snapshot.
FileInv ==
  disk # NoFile =>
    /\ origin < disk.last_lsn /\ disk.last_lsn <= Len(wal)
    /\ disk.db = AsRows(Image(disk.last_lsn))

\* What was acked, is being acked, or would be acked again, is in the file.
AckInv == slot => \A a \in acks \cup {confirmed, last_ack} : a <= SavedPosition

\* The watermark is 0 or past the snapshot; the file is behind only while saving.
WatermarkInv ==
  pc \in Live =>
    /\ last_lsn = 0 \/ origin < last_lsn
    /\ last_lsn <= Len(wal)
    /\ SavedPosition <= Position
    /\ pc \notin {"writing", "renaming"} => SavedPosition = Position

\* The stream leaves no gap: what it delivers next the mirror has, or needs next.
StreamInv ==
  /\ pc \in {"waiting", "received", "acking", "writing", "renaming", "syncing"} =>
       cursor = Disconnected \/ (origin <= cursor /\ cursor <= Len(wal))
  /\ pc \in {"waiting", "acking", "writing", "renaming", "syncing"} =>
       cursor = Disconnected \/ cursor <= Position
  /\ pc \in {"received", "applying"} =>
       /\ origin < tx /\ tx <= Position + 1 /\ tx <= Len(wal)
       /\ cursor = Disconnected \/ cursor = tx
  /\ pc \in {"writing", "renaming", "syncing", "acking"} => origin < tx /\ tx <= Position

\* Inside apply_tx the mirror is the table after the changes applied so far.
ApplyInv ==
  /\ pc = "applying" =>
       /\ tx = Position + 1
       /\ next \in 1..(Len(wal[tx].changes) + 1)
       /\ db = AsRows(wal[tx].imgs[next])
  /\ pc \in Serving \ {"failed"} => db = AsRows(Image(Position))

\* The inductive invariant: all of these at once, at every step of the daemon
\* (main.rs 34-117, apply.rs 168-250).
IInv ==
  /\ TypeOK /\ HistoryInv /\ SlotInv /\ FileInv /\ AckInv
  /\ WatermarkInv /\ StreamInv /\ ApplyInv
=============================================================================
