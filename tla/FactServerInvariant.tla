------------------------ MODULE FactServerInvariant -------------------------
(***************************************************************************)
(* The inductive invariant behind the safety properties of FactServer:     *)
(* what the file holds of the requests, between any two steps, and what a  *)
(* replay makes of it.                                                     *)
(***************************************************************************)
EXTENDS FactServer

Replayable == Requests \cup {Garbage}
FileLine   == Replayable \cup {BadText}

TypeOK ==
  /\ mem \in Memory /\ audit \in Seq(Audit)
  /\ lines \in Seq(FileLine) /\ tail \in FileLine \cup {None}
  /\ pc \in {"down", "replaying", "serving", "append", "newline"}
  /\ req \in IF pc \in {"append", "newline"} THEN Requests ELSE {None}
  /\ todo \in Seq(Replayable)
  /\ faults \in Nat /\ ops \in 0..MaxOps
  /\ applied \subseteq 1..ops /\ acked \subseteq 1..ops
  /\ about \in Seq(Ids) /\ Len(about) = ops

\* A request has one number, and its record is in the file once at most.  What
\* follows the last newline has not been acknowledged.
NumberInv ==
  /\ pc \in {"append", "newline"} => req.seq = ops /\ ops \in applied /\ ops \notin acked
  /\ \A n \in DOMAIN lines : lines[n] \in Record =>
       lines[n].seq <= ops /\ (pc \in {"append", "newline"} => lines[n].seq # ops)
  /\ tail \in Record =>
       tail.seq <= ops /\ tail.seq \notin acked /\ (pc = "append" => tail.seq # ops)
  /\ pc = "newline" => tail = req \/ tail \in {Garbage, BadText}

\* A replay has made of the memory and the audit log what the lines it has read
\* make of new ones.
ReplayInv ==
  /\ pc = "down" => mem = Empty /\ audit = << >> /\ applied = {}
  /\ pc = "replaying" =>
       /\ applied = {} /\ \A n \in DOMAIN audit : audit[n] # Custom
       /\ \E done \in 0..Len(Text) :
            /\ todo = SubSeq(Text, done + 1, Len(Text))
            /\ [mem |-> mem, audit |-> audit] = ReplayOf(SubSeq(Text, 1, done))

\* What the process has, without the entries of /audit/append.
Served == [mem |-> mem, audit |-> Operations(audit)]

\* A process whose requests are all in the file has what the file makes, and once
\* the record under way is in the file too, still has.
ServeInv ==
  /\ pc \in {"serving", "newline"} /\ applied \subseteq Logged => Served = Replayed
  /\ pc = "append" /\ applied \ {ops} \subseteq Logged => Served = Replay(Replayed, req)

\* The next record will be appended to an unfinished line, and be lost with it.
Dangling == tail # None /\ ~ (pc = "newline" /\ tail = req)

LossInv == ~Spoiled => Cardinality(acked \ Logged) + (IF Dangling THEN 1 ELSE 0) <= faults

\* Every record names the fact its request named, and a number is not both on a
\* line and on the unfinished one.
AboutInv ==
  /\ pc \in {"append", "newline"} => about[ops] = req.id
  /\ \A n \in DOMAIN lines : lines[n] \in Record =>
       about[lines[n].seq] = lines[n].id /\ (tail \in Record => lines[n].seq # tail.seq)
  /\ tail \in Record => about[tail.seq] = tail.id

\* Of the first upto requests, those about a fact are all in the file.
Known(id, upto) == \A s \in 1..upto : about[s] = id => s \in Logged

\* The process has of such a fact what the file makes of it, or will once the
\* record under way is in the file too; and that record will not be refused.
FactInv ==
  ~Spoiled =>
    /\ pc \in {"serving", "newline"} =>
         \A id \in Ids : Known(id, ops) => mem.rows[id] = Replayed.mem.rows[id]
    /\ pc = "append" =>
         \A id \in Ids : Known(id, ops - 1) =>
           /\ mem.rows[id] = Replay(Replayed, req).mem.rows[id]
           /\ id = req.id => Accepted(Replayed.mem, req)

\* A record that replay refuses comes after a request about the same fact that is
\* not in the file.
RefusedAt(n) == Text[n] \in Record /\ ~Accepted(ReplayOf(SubSeq(Text, 1, n - 1)).mem, Text[n])
RefusedInv ==
  ~Spoiled =>
    \A n \in DOMAIN Text : RefusedAt(n) =>
      \E r \in (1..(Text[n].seq - 1)) \ Logged : about[r] = Text[n].id

IInv == TypeOK /\ NumberInv /\ ReplayInv /\ ServeInv /\ LossInv /\ AboutInv /\ FactInv /\ RefusedInv
          /\ AuditMatchesLog
=============================================================================
