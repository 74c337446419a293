------------------------------ MODULE TxSource ------------------------------
(***************************************************************************)
(* What ChangeSource (source.rs 51-80) promises its caller, with sockets,  *)
(* messages and retries left out: transactions are handed over whole, in   *)
(* commit order, none skipped; a broken stream resumes where PostgreSQL    *)
(* was last told the caller had got to, so a transaction can come twice;   *)
(* and PostgreSQL is never told more than the caller acknowledged.         *)
(***************************************************************************)
EXTENDS Naturals

VARIABLES published,  \* committed transactions
          at,         \* the last one handed over on the current stream
          reached,    \* the newest one ever handed over
          acked,      \* the newest one the caller ever acknowledged
          confirmed   \* the one PostgreSQL resumes after

vars == << published, at, reached, acked, confirmed >>

Publish ==
  /\ published' = published + 1
  /\ UNCHANGED << at, reached, acked, confirmed >>

HandOver ==
  /\ at < published
  /\ at' = at + 1
  /\ reached' = IF at' > reached THEN at' ELSE reached
  /\ UNCHANGED << published, acked, confirmed >>

Ack ==
  /\ acked' \in acked..reached
  /\ UNCHANGED << published, at, reached, confirmed >>

Confirm ==
  /\ confirmed' \in confirmed..acked
  /\ UNCHANGED << published, at, reached, acked >>

\* A crash of PostgreSQL can lose confirmations.
Forget ==
  /\ confirmed' \in 0..confirmed
  /\ UNCHANGED << published, at, reached, acked >>

Resume ==
  /\ at' = confirmed
  /\ UNCHANGED << published, reached, acked, confirmed >>

Init == published = 0 /\ at = 0 /\ reached = 0 /\ acked = 0 /\ confirmed = 0

Next == Publish \/ HandOver \/ Ack \/ Confirm \/ Forget \/ Resume

Spec == Init /\ [][Next]_vars
=============================================================================
