------------------------ MODULE CdcStreamInvariant --------------------------
(***************************************************************************)
(* The inductive invariant behind the safety properties of CdcStream: what *)
(* the messages in the socket have to do with the transactions they are    *)
(* of, with what the assembler has so far, and with the walsender.         *)
(***************************************************************************)
EXTENDS CdcStream

Change  == [stmt : Stmt, cols : Schemas]
Known   == [Rels -> Schemas \cup {NoTuple}]
Senders == [tx : Nat \ {0}, part : Nat, known : Known, attached : BOOLEAN, done : BOOLEAN]

Encodings == {NoTuple} \cup UNION {[DOMAIN s -> Markers] : s \in Schemas}
Messages  == [tag : {"B", "R", "I", "D", "U", "T", "C", "k", "k!", "c", "E"}, end : Nat,
              rel : Rels \cup {NoTuple}, cols : Schemas \cup {NoTuple},
              old : Encodings, new : Encodings]

TypeOK ==
  /\ wal \in Seq(Seq(Change)) /\ schema \in [Rels -> Schemas]
  /\ server \in {"up", "stopping", "down"} /\ slotOk \in BOOLEAN
  /\ confirmed \in Nat /\ sender \in Senders \cup {NoSender}
  /\ peer \in {"open", "closed"} /\ toServer \in Seq(Nat) /\ toClient \in Seq(Messages)
  /\ conn \in {"closed", "ready", "copy"}
  /\ phase \in {"stopped", "caller", "reading", "reack", "retry", "dial", "start"}
  /\ resume \in {"fresh", "next", "ack"}
  /\ asm = [relations |-> asm.relations, pending |-> asm.pending] /\ asm.relations \in Known
  /\ attempts \in Nat /\ last_recv \in Nat /\ last_ack \in Nat
  /\ at \in Nat /\ reached \in Nat /\ acked \in Nat

\* What the client's thread is doing and what it holds.  Only a streaming
\* connection has a walsender of its own and messages on their way.
ConnInv ==
  /\ conn = "copy" => phase \in {"caller", "reading", "reack"} \/ (phase = "retry" /\ attempts = 0)
  /\ phase \in {"caller", "reading", "reack"} => conn = "copy"
  /\ phase = "start" => conn = "ready" /\ asm = EmptyAsm
  /\ sender.attached => conn = "copy"
  /\ conn # "copy" => toClient = << >>

\* PostgreSQL is told no more than the caller acknowledged, and the caller
\* acknowledges no more than it was given.
AckInv ==
  /\ confirmed <= acked /\ last_ack <= acked /\ acked <= reached /\ reached <= Len(wal)
  /\ \A i \in DOMAIN toServer : toServer[i] <= acked
  /\ got # NoTx => got.lsn <= reached

\* A place in the stream: before which part of which transaction, with the
\* columns announced so far on this connection.
Parts(n) == IF n \in DOMAIN wal THEN 0..(Len(wal[n]) + 1) ELSE {0}

Places == UNION {[tx : {n}, part : Parts(n), known : Known] : n \in 1..(Len(wal) + 1)}

PlaceOf(s) == [tx |-> s.tx, part |-> s.part, known |-> s.known]

\* Message m takes the stream of a log from place p to place q.
Begins(log, p, m, q) ==
  /\ p.tx \in DOMAIN log /\ p.part = 0
  /\ m = Message("B", p.tx) /\ q = [p EXCEPT !.part = 1]

Announces(log, p, m, q) ==
  /\ p.tx \in DOMAIN log /\ p.part \in DOMAIN log[p.tx]
  /\ LET c == log[p.tx][p.part]
     IN  m = RelationMessage(c, p.tx) /\ q = [p EXCEPT !.known[c.stmt.rel] = c.cols]

Changes(log, p, m, q) ==
  /\ p.tx \in DOMAIN log /\ p.part \in DOMAIN log[p.tx]
  /\ LET c == log[p.tx][p.part]
     IN  /\ p.known[c.stmt.rel] = c.cols
         /\ m = ChangeMessage(c, p.tx) /\ q = [p EXCEPT !.part = p.part + 1]

Commits(log, p, m, q) ==
  /\ p.tx \in DOMAIN log /\ p.part = Len(log[p.tx]) + 1
  /\ m = Message("C", p.tx) /\ q = [tx |-> p.tx + 1, part |-> 0, known |-> p.known]

Asides(p, m, q) ==
  m.tag \in {"k", "k!", "c", "E"} /\ m = Message(m.tag, m.end) /\ m.end \in Nat /\ q = p

Carries(log, p, m, q) ==
  \/ Begins(log, p, m, q) \/ Announces(log, p, m, q)
  \/ Changes(log, p, m, q) \/ Commits(log, p, m, q) \/ Asides(p, m, q)

\* What the client has when it has read everything up to p.
ClientAt(p) ==
  /\ at = p.tx - 1
  /\ asm.relations = p.known
  /\ p.part > 0 => asm.pending = RowChangesOf(SubSeq(wal[p.tx], 1, p.part - 1))

\* The messages in the socket lead from where the client is to where its
\* walsender is.
Leads(path) ==
  /\ ClientAt(path[1])
  /\ \A i \in DOMAIN toClient : Carries(wal, path[i], toClient[i], path[i + 1])
  /\ sender.attached => PlaceOf(sender) = path[Len(toClient) + 1]

StreamInv == conn = "copy" => \E path \in [1..(Len(toClient) + 1) -> Places] : Leads(path)

\* No change reaches the assembler before the Relation message that names its columns
\* on this connection: the error for it (source.rs 241-243) is for a walsender
\* that breaks the protocol, never for a stream that was cut and resumed.
NeverOrphaned == phase = "reading" /\ toClient # << >> => ~ Orphaned(Head(toClient))

IInv == TypeOK /\ ConnInv /\ AckInv /\ StreamInv /\ DeliveredWhole
=============================================================================
