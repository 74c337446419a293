---------------------------- MODULE CdcContract -----------------------------
(***************************************************************************)
(* What the maintenance plane promises its readers and PostgreSQL, with    *)
(* the stream, the watermark, the file and the daemon's steps left out:    *)
(*   - the table has a history of committed states, and a reader is always *)
(*     shown one of them, or nothing;                                      *)
(*   - while a process lives the shown state moves forward through that    *)
(*     history, one transaction at a time, skipping none;                  *)
(*   - a new process resumes exactly at the last checkpoint;               *)
(*   - PostgreSQL is never told to forget a transaction that is not in the *)
(*     checkpoint.                                                         *)
(***************************************************************************)
EXTENDS Integers, Sequences

CONSTANT Dark  \* no process is serving

VARIABLES history,   \* committed states; history[n + 1] is the one after n transactions
          shown,     \* the table a reader is shown, or Dark
          at,        \* its place in the history
          slotted,   \* the subscription exists
          start,     \* the place it started from
          saved,     \* place of the last checkpoint; -1 when there is none
          acked      \* transactions PostgreSQL may forget

vars == << history, shown, at, slotted, start, saved, acked >>

Newest == Len(history) - 1

Commit ==
  /\ Len(history') = Len(history) + 1
  /\ \A n \in 1..Len(history) : history'[n] = history[n]
  /\ UNCHANGED << shown, at, slotted, start, saved, acked >>

Subscribe ==
  /\ ~slotted
  /\ slotted' = TRUE /\ start' = Newest /\ acked' = Newest
  /\ UNCHANGED << history, shown, at, saved >>

\* The first process shows the state the subscription started from ...
ShowSnapshot ==
  /\ slotted /\ shown = Dark /\ saved = -1
  /\ at' = start /\ shown' = history[start + 1]
  /\ UNCHANGED << history, slotted, start, saved, acked >>

\* ... and a later one the state of the checkpoint.
Resume ==
  /\ slotted /\ shown = Dark /\ saved # -1
  /\ at' = saved /\ shown' = history[saved + 1]
  /\ UNCHANGED << history, slotted, start, saved, acked >>

ShowNext ==
  /\ shown # Dark /\ at < Newest
  /\ at' = at + 1 /\ shown' = history[at + 2]
  /\ UNCHANGED << history, slotted, start, saved, acked >>

Checkpoint ==
  /\ shown # Dark
  /\ saved' = at
  /\ UNCHANGED << history, shown, at, slotted, start, acked >>

\* Up to the checkpoint PostgreSQL may be told to forget; it may also lose that.
Acknowledge ==
  /\ saved # -1
  /\ acked' \in start..saved
  /\ UNCHANGED << history, shown, at, slotted, start, saved >>

Die ==
  /\ shown' = Dark /\ at' = 0
  /\ UNCHANGED << history, slotted, start, saved, acked >>

Init ==
  /\ Len(history) = 1
  /\ shown = Dark /\ at = 0 /\ slotted = FALSE
  /\ start = 0 /\ saved = -1 /\ acked = 0

Next ==
  \/ Commit \/ Subscribe \/ ShowSnapshot \/ Resume \/ ShowNext
  \/ Checkpoint \/ Acknowledge \/ Die

Spec == Init /\ [][Next]_vars
=============================================================================
