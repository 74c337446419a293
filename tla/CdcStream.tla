----------------------------- MODULE CdcStream ------------------------------
(***************************************************************************)
(* The byte stream under bruce-cdc: RetryingSource, PgOutputSource and     *)
(* TxAssembler (source.rs), the pgoutput decoder (pgoutput.rs) and the     *)
(* connection (protocol.rs), used by a caller that asks for a transaction, *)
(* perhaps acknowledges it, and asks again.  CdcDaemon takes all of this   *)
(* as one step, Receive; TxSource is the contract between the two.         *)
(*                                                                         *)
(* PostgreSQL is external: its commits and schema changes, the walsender   *)
(* that holds the slot, its fast shutdown and its crashes.  The socket is  *)
(* a local one: messages are neither lost nor reordered, but what is on    *)
(* its way when an end closes is lost.                                     *)
(***************************************************************************)
EXTENDS Selection

CONSTANTS Rels,         \* published relations
          Schemas,      \* column lists ALTER TABLE can give a relation
          FirstSchema,
          Identity,     \* REPLICA IDENTITY of each relation
          TxShapes,     \* the transactions the publisher makes: sequences of Stmt
          NoTuple,      \* an absent tuple; also an unknown relation
          MaxTx, MaxAlters, MaxFaults,  \* bounds on commits, ALTERs and faults
          MaxInFlight,  \* bound on the messages in the socket
          MaxAttempts   \* max_attempts of RetryingSource

\* A column value as the publisher wrote it: a text, NULL, or a value that is
\* stored out of line and was not touched.
Values == {"text", "null", "toast"}
Markers == {"t", "n", "u"}
Stmt == [op  : {"insert", "delete", "update", "truncate"}, rel : Rels,
         old : Values \cup {NoTuple}, new : Values \cup {NoTuple}]

ASSUME StreamAssumption ==
  /\ FirstSchema \in Schemas /\ \A s \in Schemas : Len(s) > 0
  /\ Identity \in [Rels -> {"d", "f", "n", "i"}]
  /\ TxShapes \subseteq Seq(Stmt)
  /\ NoTuple \notin Schemas \cup Values
  /\ \A s \in Schemas, v \in Values \cup Markers : [i \in DOMAIN s |-> v] # NoTuple
  /\ MaxTx \in Nat /\ MaxAlters \in Nat /\ MaxFaults \in Nat
  /\ MaxInFlight \in Nat \ {0} /\ MaxAttempts \in Nat

VARIABLES
  \* PostgreSQL
  wal,        \* committed transactions; end_lsn of one is its index
  schema,     \* column list of each relation
  server,     \* "up", "stopping" (fast shutdown) or "down"
  slotOk,     \* FALSE once the slot has been invalidated
  confirmed,  \* confirmed_flush_lsn
  sender,     \* the walsender that holds the slot, or NoSender
  \* the socket of the current connection
  peer,       \* "open" or "closed": PostgreSQL's end
  toClient,   \* messages on their way to the client
  toServer,   \* flush LSNs of the status updates on their way
  \* the client
  conn,       \* "closed", "ready" (simple queries) or "copy" (streaming)
  phase,      \* what the caller's thread is doing
  resume,     \* the call a reconnect goes back to: "next", "ack" or "fresh"
  attempts,   \* attempts of the reconnect in progress
  asm,        \* TxAssembler
  last_recv, last_ack,
  got,        \* the transaction the caller was given and has not acked, or NoTx
  \* history
  at, reached, acked, alters, faults

pgVars     == << wal, schema, server, slotOk, confirmed, sender >>
socketVars == << peer, toClient, toServer >>
clientVars == << conn, phase, resume, attempts, asm, last_recv, last_ack, got >>
history    == << at, reached, acked >>
vars == << pgVars, socketVars, clientVars, history, alters, faults >>

NoSender == [tx |-> 0, part |-> 0, known |-> << >>, attached |-> FALSE, done |-> FALSE]
NoTx     == [lsn |-> 0, changes |-> << >>]
EmptyAsm == [relations |-> [r \in Rels |-> NoTuple], pending |-> << >>]

Larger(a, b) == IF a > b THEN a ELSE b

-----------------------------------------------------------------------------
(* The messages.  A row is one value in every column of its relation.       *)

Row(v, s) == IF v = NoTuple THEN NoTuple ELSE [i \in DOMAIN s |-> v]

\* A committed change: the statement, and the relation's columns at that time.
Committed(shape) == [i \in DOMAIN shape |-> [stmt |-> shape[i], cols |-> schema[shape[i].rel]]]

Tag     == [insert |-> "I", delete |-> "D", update |-> "U", truncate |-> "T"]
Marker  == [text |-> "t", null |-> "n", toast |-> "u"]
Encoded(row) == IF row = NoTuple THEN NoTuple ELSE [i \in DOMAIN row |-> Marker[row[i]]]

Message(tag, end) == [tag |-> tag, end |-> end, rel |-> NoTuple, cols |-> NoTuple,
                      old |-> NoTuple, new |-> NoTuple]
RelationMessage(c, end) ==
  [Message("R", end) EXCEPT !.rel = c.stmt.rel, !.cols = c.cols]
ChangeMessage(c, end) ==
  [Message(Tag[c.stmt.op], end) EXCEPT !.rel = c.stmt.rel,
     !.old = Encoded(Row(c.stmt.old, c.cols)), !.new = Encoded(Row(c.stmt.new, c.cols))]

\* The decoder keeps the three markers of TupleData apart.
Datum(marker) == CASE marker = "n" -> "null" [] marker = "u" -> "toast" [] marker = "t" -> "text"

Decoded(row) == IF row = NoTuple THEN NoTuple ELSE [i \in DOMAIN row |-> Datum(row[i])]

-----------------------------------------------------------------------------
(* PostgreSQL.                                                              *)

Commit ==
  /\ server = "up" /\ Len(wal) < MaxTx
  /\ \E shape \in TxShapes : wal' = Append(wal, Committed(shape))
  /\ UNCHANGED << schema, server, slotOk, confirmed, sender, socketVars, clientVars,
                  history, alters, faults >>

AlterTable ==
  /\ server = "up" /\ alters < MaxAlters
  /\ \E r \in Rels : \E s \in Schemas \ {schema[r]} : schema' = [schema EXCEPT ![r] = s]
  /\ alters' = alters + 1
  /\ UNCHANGED << wal, server, slotOk, confirmed, sender, socketVars, clientVars,
                  history, faults >>

Streaming == sender # NoSender /\ sender.attached /\ ~sender.done

\* The walsender sends the next message of the transaction it is at: Begin, a
\* Relation where this connection does not know the columns, a change, Commit.
SendNext ==
  /\ Streaming /\ sender.tx <= Len(wal) /\ Len(toClient) < MaxInFlight
  /\ LET n == sender.tx
         p == sender.part
         c == wal[n][p]
         Known == sender.known[c.stmt.rel] = c.cols
         Send(m, s) == toClient' = Append(toClient, m) /\ sender' = s
     IN CASE p = 0 -> Send(Message("B", n), [sender EXCEPT !.part = 1])
          [] p \in DOMAIN wal[n] /\ ~Known ->
               Send(RelationMessage(c, n), [sender EXCEPT !.known[c.stmt.rel] = c.cols])
          [] p \in DOMAIN wal[n] /\ Known ->
               Send(ChangeMessage(c, n), [sender EXCEPT !.part = p + 1])
          [] p > Len(wal[n]) ->
               Send(Message("C", n), [sender EXCEPT !.tx = n + 1, !.part = 0])
  /\ UNCHANGED << wal, schema, server, slotOk, confirmed, peer, toServer, clientVars,
                  history, alters, faults >>

\* A walsender that has sent and read everything sends a keepalive; in a shutdown
\* it ends the copy.
SendIdle ==
  /\ Streaming /\ sender.tx > Len(wal) /\ toClient = << >> /\ toServer = << >>
  /\ \/ /\ server = "up"
        /\ \E tag \in {"k", "k!"} : toClient' = << Message(tag, Len(wal)) >>
        /\ UNCHANGED sender
     \/ /\ server = "stopping"
        /\ toClient' = << Message("c", 0) >>
        /\ sender' = [sender EXCEPT !.done = TRUE]
  /\ UNCHANGED << wal, schema, server, slotOk, confirmed, peer, toServer, clientVars,
                  history, alters, faults >>

\* The walsender reads a status update; the slot only advances.
Confirm ==
  /\ sender # NoSender /\ toServer # << >>
  /\ confirmed' = Larger(confirmed, Head(toServer))
  /\ toServer' = Tail(toServer)
  /\ UNCHANGED << wal, schema, server, slotOk, sender, peer, toClient, clientVars,
                  history, alters, faults >>

\* A walsender whose client closed the socket ends and releases the slot.
SenderExits ==
  /\ sender # NoSender /\ ~sender.attached
  /\ sender' = NoSender /\ toServer' = << >>
  /\ UNCHANGED << wal, schema, server, slotOk, confirmed, peer, toClient, clientVars,
                  history, alters, faults >>

\* The walsender is terminated, with an error; with it, perhaps, the slot.
SenderKilled ==
  /\ faults < MaxFaults /\ server = "up" /\ sender # NoSender
  /\ faults' = faults + 1
  /\ slotOk' \in {slotOk, FALSE}
  /\ sender' = NoSender /\ toServer' = << >>
  /\ IF sender.attached
     THEN peer' = "closed" /\ toClient' = Append(toClient, Message("E", 0))
     ELSE UNCHANGED << peer, toClient >>
  /\ UNCHANGED << wal, schema, server, confirmed, clientVars, history, alters >>

FastShutdown ==
  /\ faults < MaxFaults /\ server = "up"
  /\ faults' = faults + 1
  /\ server' = "stopping"
  /\ UNCHANGED << wal, schema, slotOk, confirmed, sender, socketVars, clientVars,
                  history, alters >>

\* It waits for the walsender, which waits for its client.
Stopped ==
  /\ server = "stopping" /\ sender = NoSender
  /\ server' = "down" /\ peer' = "closed"
  /\ UNCHANGED << wal, schema, slotOk, confirmed, sender, toClient, toServer, clientVars,
                  history, alters, faults >>

\* A crash loses the slot's changes since its last checkpoint.
Crash ==
  /\ faults < MaxFaults /\ server # "down"
  /\ faults' = faults + 1
  /\ server' = "down" /\ peer' = "closed" /\ sender' = NoSender /\ toServer' = << >>
  /\ confirmed' \in 0..confirmed
  /\ UNCHANGED << wal, schema, slotOk, toClient, clientVars, history, alters >>

Boot ==
  /\ server = "down"
  /\ server' = "up"
  /\ UNCHANGED << wal, schema, slotOk, confirmed, sender, socketVars, clientVars,
                  history, alters, faults >>

-----------------------------------------------------------------------------
(* TxAssembler::on_msg.                                                     *)

Zip(cols, row) == [i \in DOMAIN cols |-> << cols[i], row[i] >>]

Columns(m) == asm.relations[m.rel]

IsChange(m)  == m.tag \in {"I", "D", "U"}
Tuples(m)    == {m.old, m.new} \ {NoTuple}
NoOldRow(m)  == m.tag = "U" /\ Identity[m.rel] = "n"
Unknown(m)   == Columns(m) = NoTuple
WrongWidth(m) == \E t \in Tuples(m) : Len(t) # Len(Columns(m))

\* "change before Relation" is a Protocol error, the others are Apply and Decode.
Misfit(m)   == IsChange(m) /\ Columns(m) # NoTuple /\ (NoOldRow(m) \/ WrongWidth(m))
Orphaned(m) == IsChange(m) /\ Unknown(m)

Named(m, row) == IF row = NoTuple THEN NoTuple ELSE Zip(Columns(m), Decoded(row))

\* Mutated form: a relation that is known is not replaced.
AssembleFirstRelation(m) ==
  CASE m.tag = "B" -> [asm EXCEPT !.pending = << >>]
    [] m.tag = "R" -> IF Unknown(m) THEN [asm EXCEPT !.relations[m.rel] = m.cols] ELSE asm
    [] IsChange(m) -> [asm EXCEPT !.pending = Append(@,
                         [tag |-> m.tag, rel |-> m.rel,
                          old |-> Named(m, m.old), new |-> Named(m, m.new)])]
    [] m.tag = "C" -> [asm EXCEPT !.pending = << >>]
    [] OTHER       -> asm

Assemble(m) ==
  CASE m.tag = "B" -> [asm EXCEPT !.pending = << >>]
    [] m.tag = "R" -> [asm EXCEPT !.relations[m.rel] = m.cols]
    [] IsChange(m) -> [asm EXCEPT !.pending = Append(@,
                         [tag |-> m.tag, rel |-> m.rel,
                          old |-> Named(m, m.old), new |-> Named(m, m.new)])]
    [] m.tag = "C" -> [asm EXCEPT !.pending = << >>]
    [] OTHER       -> asm

-----------------------------------------------------------------------------
(* Ends of a connection, and of a call.                                     *)

\* PgConn::shutdown: the socket dies before anything else happens.
CloseSocket ==
  /\ conn' = "closed" /\ peer' = "closed" /\ toClient' = << >>
  /\ sender' = IF sender = NoSender THEN NoSender ELSE [sender EXCEPT !.attached = FALSE]
  /\ UNCHANGED toServer

\* A transient error in a call starts reconnect_bounded.
Reconnect(call) ==
  /\ phase' = "retry" /\ resume' = call /\ attempts' = 0
  /\ UNCHANGED << conn, asm, got, sender, socketVars >>

\* Any other error, or a last attempt that failed, is returned to the caller,
\* which ends and drops the source.
Fail ==
  /\ phase' = "stopped" /\ resume' = "fresh" /\ attempts' = 0
  /\ asm' = EmptyAsm /\ last_recv' = 0 /\ last_ack' = 0 /\ got' = NoTx
  /\ CloseSocket

\* PgConn::send_msg of a status update.
SendStatus(flushed) ==
  /\ peer = "open"
  /\ toServer' = Append(toServer, flushed)
  /\ UNCHANGED << peer, toClient >>

serverVars == << wal, schema, server, slotOk, confirmed, alters, faults >>

-----------------------------------------------------------------------------
(* next_tx.                                                                 *)

\* The caller may ask for more before it acknowledges what it got.
CallNext ==
  /\ phase = "caller"
  /\ phase' = "reading"
  /\ UNCHANGED << serverVars, sender, socketVars, conn, resume, attempts, asm,
                  last_recv, last_ack, got, history >>

\* read_copy and decode_wal take the next message out of the socket.
Arrives(m) ==
  /\ phase = "reading" /\ toClient # << >>
  /\ m = Head(toClient)

Taken == toClient' = Tail(toClient) /\ UNCHANGED << peer, toServer >>

Broken(m) == m.tag \in {"c", "E"} \/ Orphaned(m) \/ Misfit(m)

ReadPart(m) ==
  /\ Arrives(m) /\ ~Broken(m) /\ m.tag \notin {"C", "k", "k!"}
  /\ Taken
  /\ asm' = Assemble(m)
  /\ last_recv' = Larger(last_recv, m.end)
  /\ UNCHANGED << serverVars, sender, conn, phase, resume, attempts, last_ack, got, history >>

ReadCommit(m) ==
  /\ Arrives(m) /\ m.tag = "C"
  /\ Taken
  /\ got' = [lsn |-> m.end, changes |-> asm.pending]
  /\ asm' = Assemble(m)
  /\ last_recv' = Larger(last_recv, m.end)
  /\ at' = m.end /\ reached' = Larger(reached, m.end)
  /\ phase' = "caller"
  /\ UNCHANGED << serverVars, sender, conn, resume, attempts, last_ack, acked >>

ReadKeepalive(m) ==
  /\ Arrives(m) /\ m.tag = "k"
  /\ Taken
  /\ last_recv' = Larger(last_recv, m.end)
  /\ UNCHANGED << serverVars, sender, conn, phase, resume, attempts, asm, last_ack, got,
                  history >>

\* Mutated form: the reply confirms what was received.
ReplyReceived(m) ==
  /\ Arrives(m) /\ m.tag = "k!"
  /\ last_recv' = Larger(last_recv, m.end)
  /\ \/ /\ peer = "open"
        /\ toClient' = Tail(toClient)
        /\ toServer' = Append(toServer, last_recv')
        /\ UNCHANGED << peer, conn, phase, resume, attempts, asm, got, sender >>
     \/ peer = "closed" /\ Reconnect("next")
  /\ UNCHANGED << serverVars, last_ack, history >>

\* A keepalive that asks for a reply gets the last acknowledgement again.
Reply(m) ==
  /\ Arrives(m) /\ m.tag = "k!"
  /\ last_recv' = Larger(last_recv, m.end)
  /\ \/ /\ peer = "open"
        /\ toClient' = Tail(toClient)
        /\ toServer' = Append(toServer, last_ack)
        /\ UNCHANGED << peer, conn, phase, resume, attempts, asm, got, sender >>
     \/ peer = "closed" /\ Reconnect("next")
  /\ UNCHANGED << serverVars, last_ack, history >>

\* An error message, the end of the copy, or a message the assembler rejects.
ReadBroken(m) ==
  /\ Arrives(m) /\ Broken(m)
  /\ IF Misfit(m) THEN Fail ELSE Reconnect("next") /\ UNCHANGED << last_recv, last_ack >>
  /\ UNCHANGED << serverVars, history >>

\* Mutated form: a read of no bytes is taken for silence.
ReadEofAsIdle ==
  /\ phase = "reading" /\ toClient = << >> /\ peer = "closed"
  /\ phase' = "caller"
  /\ UNCHANGED << serverVars, sender, socketVars, conn, resume, attempts, asm,
                  last_recv, last_ack, got, history >>

\* PostgreSQL's end of the socket is closed, and all it had sent is read.
ReadEof ==
  /\ phase = "reading" /\ toClient = << >> /\ peer = "closed"
  /\ Reconnect("next")
  /\ UNCHANGED << serverVars, last_recv, last_ack, history >>

\* Nothing came in time: next_tx returns None, in the middle of a transaction too.
ReadIdle ==
  /\ phase = "reading" /\ toClient = << >> /\ peer = "open"
  /\ phase' = "caller"
  /\ UNCHANGED << serverVars, sender, socketVars, conn, resume, attempts, asm,
                  last_recv, last_ack, got, history >>

-----------------------------------------------------------------------------
(* ack.  The retry's own send is not retried.                               *)

Acknowledge ==
  /\ phase = "caller" /\ got # NoTx
  /\ last_ack' = Larger(last_ack, got.lsn)
  /\ acked' = Larger(acked, got.lsn)
  /\ \/ /\ SendStatus(last_ack')
        /\ got' = NoTx
        /\ UNCHANGED << conn, phase, resume, attempts, asm, sender >>
     \/ peer = "closed" /\ Reconnect("ack")
  /\ UNCHANGED << serverVars, last_recv, at, reached >>

AcknowledgeAgain ==
  /\ phase = "reack"
  /\ \/ /\ SendStatus(last_ack)
        /\ got' = NoTx /\ phase' = "caller"
        /\ UNCHANGED << conn, resume, attempts, asm, last_recv, last_ack, sender >>
     \/ peer = "closed" /\ Fail
  /\ UNCHANGED << serverVars, history >>

-----------------------------------------------------------------------------
(* redial and reconnect_bounded.                                            *)

\* Mutated form: the old connection is dropped when the new one has replaced it.
HangUpLater ==
  /\ phase = "retry" /\ attempts < MaxAttempts
  /\ phase' = "dial"
  /\ UNCHANGED << serverVars, sender, socketVars, conn, resume, attempts, asm,
                  last_recv, last_ack, got, history >>

HangUp ==
  /\ phase = "retry" /\ attempts < MaxAttempts
  /\ phase' = "dial"
  /\ CloseSocket
  /\ UNCHANGED << serverVars, resume, attempts, asm, last_recv, last_ack, got, history >>

GiveUp ==
  /\ phase = "retry" /\ attempts = MaxAttempts
  /\ Fail
  /\ UNCHANGED << serverVars, history >>

\* A new process connects once and does not retry.
Restart ==
  /\ phase = "stopped"
  /\ phase' = "dial"
  /\ UNCHANGED << serverVars, sender, socketVars, conn, resume, attempts, asm,
                  last_recv, last_ack, got, history >>

AttemptFails ==
  /\ IF resume = "fresh"
     THEN Fail
     ELSE /\ phase' = "retry" /\ attempts' = attempts + 1
          /\ UNCHANGED << sender, socketVars, conn, resume, asm, last_recv, last_ack, got >>
  /\ UNCHANGED << serverVars, history >>

\* PgConn::connect: refused while PostgreSQL stops (57P03) or is down (Io).
DialFails ==
  /\ phase = "dial" /\ server # "up"
  /\ AttemptFails

Dial ==
  /\ phase = "dial" /\ server = "up"
  /\ phase' = "start"
  /\ conn' = "ready" /\ peer' = "open" /\ toClient' = << >>
  /\ sender' = IF sender = NoSender THEN NoSender ELSE [sender EXCEPT !.attached = FALSE]
  /\ asm' = EmptyAsm
  /\ UNCHANGED << serverVars, toServer, resume, attempts, last_recv, last_ack, got, history >>

\* START_REPLICATION fails for a while: PostgreSQL is going down (57P01, or the
\* socket is dead), or an earlier walsender still holds the slot (55006).
StartFails ==
  /\ phase = "start" /\ slotOk
  /\ server # "up" \/ peer = "closed" \/ sender # NoSender
  /\ AttemptFails

\* It fails for good.
SlotInvalidated ==
  /\ phase = "start" /\ ~slotOk
  /\ Fail
  /\ UNCHANGED << serverVars, history >>

\* START_REPLICATION at 0/0: the walsender starts after confirmed_flush_lsn.
Start ==
  /\ phase = "start" /\ slotOk /\ server = "up" /\ peer = "open" /\ sender = NoSender
  /\ conn' = "copy"
  /\ sender' = [tx |-> confirmed + 1, part |-> 0, known |-> [r \in Rels |-> NoTuple],
                attached |-> TRUE, done |-> FALSE]
  /\ toServer' = << >>
  /\ at' = confirmed
  /\ phase' = CASE resume = "fresh" -> "caller"
                [] resume = "next"  -> "reading"
                [] resume = "ack"   -> "reack"
  /\ attempts' = 0
  /\ UNCHANGED << serverVars, peer, toClient, resume, asm, last_recv, last_ack, got,
                  reached, acked >>

-----------------------------------------------------------------------------
Init ==
  /\ wal = << >> /\ schema = [r \in Rels |-> FirstSchema]
  /\ server = "up" /\ slotOk = TRUE /\ confirmed = 0 /\ sender = NoSender
  /\ peer = "closed" /\ toClient = << >> /\ toServer = << >>
  /\ conn = "closed" /\ phase = "stopped" /\ resume = "fresh" /\ attempts = 0
  /\ asm = EmptyAsm /\ last_recv = 0 /\ last_ack = 0 /\ got = NoTx
  /\ at = 0 /\ reached = 0 /\ acked = 0 /\ alters = 0 /\ faults = 0

Read ==
  \/ \E m \in {toClient[i] : i \in DOMAIN toClient} :
       ReadPart(m) \/ ReadCommit(m) \/ ReadKeepalive(m) \/ Reply(m) \/ ReadBroken(m)
  \/ ReadEof \/ ReadIdle

Client ==
  \/ CallNext \/ Read \/ Acknowledge \/ AcknowledgeAgain
  \/ HangUp \/ GiveUp \/ Restart \/ DialFails \/ Dial
  \/ StartFails \/ SlotInvalidated \/ Start

Server == SendNext \/ Confirm \/ SenderExits \/ Stopped \/ Boot

Next ==
  \/ Client \/ Server \/ SendIdle \/ Commit \/ AlterTable
  \/ SenderKilled \/ FastShutdown \/ Crash

Spec == Init /\ [][Next]_vars

\* The caller's thread never stops between two steps; PostgreSQL sends what is
\* committed, ends the copy when it stops, reads its sockets and is started again.
Fairness ==
  /\ WF_vars(Client)
  /\ WF_vars(SendNext) /\ WF_vars(SendIdle /\ server = "stopping")
  /\ WF_vars(Confirm) /\ WF_vars(SenderExits) /\ WF_vars(Stopped) /\ WF_vars(Boot)

FairSpec == Spec /\ Fairness

-----------------------------------------------------------------------------
(* Properties.                                                              *)

\* What the assembler should make of a committed transaction: each row change with
\* its values under the column names of that time, and without its TRUNCATEs.
NamedRow(v, cols) == IF v = NoTuple THEN NoTuple ELSE Zip(cols, Row(v, cols))
AsNamed(c) == [tag |-> Tag[c.stmt.op], rel |-> c.stmt.rel,
               old |-> NamedRow(c.stmt.old, c.cols), new |-> NamedRow(c.stmt.new, c.cols)]
RowChangesOf(t) ==
  LET rows == Select(t, {i \in DOMAIN t : t[i].stmt.op # "truncate"})
  IN [i \in DOMAIN rows |-> AsNamed(rows[i])]

\* A transaction handed to the caller is the committed one of its LSN: all of its
\* row changes and no other's, in order, NULL and untouched values kept apart and
\* every value under its column, although streams are cut in the middle of a
\* transaction, columns are renamed between two of them, and idle timeouts return
\* to the caller halfway (source.rs 128-236, 352-371).
DeliveredWhole ==
  got # NoTx => got.lsn \in DOMAIN wal /\ got.changes = RowChangesOf(wal[got.lsn])

\* The stream implements TxSource: whatever is cut, retried or restarted, no
\* transaction is skipped and none is confirmed that the caller did not acknowledge
\* (source.rs 71-80, 339-351, 456-466).
Source == INSTANCE TxSource WITH published <- Len(wal)
ImplementsTxSource == Source!Spec

\* Never does a reconnecting client wait for a PostgreSQL that waits, in its fast
\* shutdown, for the walsender of that very client (protocol.rs 287-300, source.rs
\* 353-358); reconnect_bounded would use up its attempts on it.
WaitsForClient == server = "stopping" /\ sender # NoSender /\ sender.attached
WaitsForServer == phase = "dial" \/ (phase = "retry" /\ attempts > 0)
NoWaitCycle == ~ (WaitsForClient /\ WaitsForServer)

\* What is committed is eventually handed over, across shutdowns, crashes, retries
\* that give up and acks that fail, unless the slot is lost (source.rs 373-386).
Delivers == \A n \in 1..MaxTx : (Len(wal) >= n /\ slotOk) ~> (reached >= n \/ ~slotOk)
=============================================================================
