--------------------------- MODULE CdcOperations ----------------------------
(***************************************************************************)
(* Three things that happen to a running CdcDaemon from outside, each      *)
(* invited by the repository's own documents: the state file is deleted,   *)
(* the replication slot is dropped, the machine loses power.  Each has a   *)
(* specification of its own, so that a run shows the effect of that one.   *)
(***************************************************************************)
EXTENDS CdcDaemon

CONSTANT StateHasParent  \* BOOLEAN: the --state path names a directory

VARIABLE durable  \* the state file as it is after a power loss

opVars == << vars, durable >>

-----------------------------------------------------------------------------
(* The file "may be deleted at any time" (durable.rs 8-9).                  *)

DeleteStateFile ==
  /\ pc = "exited" /\ disk # NoFile
  /\ disk' = NoFile
  /\ UNCHANGED << mirrorVars, pgVars, slotVars, acks, pc, tx, sourceVars, faults >>

DeleteSpec ==
  /\ Init /\ durable = disk
  /\ [][(Next \/ DeleteStateFile) /\ durable' = disk']_opVars
  /\ Fairness

\* "... forcing a re-snapshot": a daemon that starts without a state file ends up
\* serving (durable.rs 8-9, README.md 163-164).
NoFileReSnapshots == (pc = "starting" /\ disk = NoFile) ~> pc \in Serving

-----------------------------------------------------------------------------
(* "... or drop it to demo from scratch" (main.rs 71-74).                   *)

DropSlot ==
  /\ pc = "exited" /\ slot
  /\ slot' = FALSE /\ origin' = 0 /\ confirmed' = 0 /\ acks' = {}
  /\ UNCHANGED << mirrorVars, pgVars, pc, tx, sourceVars, disk, faults >>

DropSpec ==
  /\ Init /\ durable = disk
  /\ [][(Next \/ DropSlot) /\ durable' = disk']_opVars

-----------------------------------------------------------------------------
(* A power loss takes the daemon and PostgreSQL (a Unix socket away) down.  *)
(* PostgreSQL keeps what it committed; the directory entry of the state     *)
(* file is sure to be the new one only after the fsync of its directory,    *)
(* which save leaves out when the path has no parent component.             *)

Synced ==
  durable' = IF pc = "syncing" /\ pc' = "acking" /\ StateHasParent THEN disk ELSE durable

PowerLoss ==
  /\ faults < MaxFaults
  /\ faults' = faults + 1
  /\ Forget
  /\ acks' = {}
  /\ disk' \in {disk, durable}
  /\ durable' = disk'
  /\ UNCHANGED << pgVars, slotVars >>

PowerSpec ==
  /\ Init /\ durable = disk
  /\ [][(Next /\ Synced) \/ PowerLoss]_opVars
=============================================================================
