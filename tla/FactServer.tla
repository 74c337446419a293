----------------------------- MODULE FactServer -----------------------------
(***************************************************************************)
(* bruce-server (main.rs): a KvMemory and an audit log behind one lock,    *)
(* and a write-ahead log replayed when the server starts.                  *)
(*                                                                         *)
(* A handler holds the lock from its check to its answer and awaits        *)
(* nothing in between, so handlers do not interleave and readers see whole *)
(* operations.  But it changes the memory before it appends to the log, it *)
(* appends the record and its newline in two writes, a write can fail part *)
(* way, and the process can die at any point.  Requests that are refused   *)
(* (a token for another subject, a wrong dimension, the owner rule) change *)
(* nothing and are left out.                                               *)
(***************************************************************************)
EXTENDS KvRows, Selection

CONSTANTS MaxOps,    \* bound on accepted writes and deletes
          MaxCustom, \* bound on the entries of /audit/append
          MaxFaults, \* bound on failed appends and process deaths
          Garbage,   \* bytes that are no record
          BadText,   \* bytes that are not even UTF-8: a record cut in a character
          None       \* nothing

\* A record of the log.  seq numbers the accepted requests; it is history,
\* which the code neither writes nor reads.
Record == [op : {"write", "delete"}, id : Ids, val : Vals \cup {None}, owner : Owners,
           seq : 1..MaxOps]
Line   == Record \cup {Garbage, BadText}
Audit  == [op : {"WRITE", "DELETE", "CUSTOM"}, id : Ids \cup {None}, owner : Owners \cup {None}]

ASSUME ServerAssumption ==
  /\ MaxOps \in Nat /\ MaxCustom \in Nat /\ MaxFaults \in Nat
  /\ {Garbage, BadText, None} \cap Record = {} /\ None \notin {Garbage, BadText}

VARIABLES
  mem,     \* Inner.mem
  audit,   \* Inner.audit, as the entries it hashes
  lines,   \* the log file: its lines that end in a newline
  tail,    \* what follows the last newline, or None
  pc,      \* where the server is
  req,     \* the record being appended
  todo,    \* the lines still to replay
  faults,
  \* history, read by the properties only
  ops,     \* accepted requests so far
  applied, \* those the running process executed
  acked,   \* those answered with success
  about    \* the fact each of them names

fileVars    == << lines, tail >>
historyVars == << ops, applied, acked, about >>
vars == << mem, audit, fileVars, pc, req, todo, faults, historyVars >>

-----------------------------------------------------------------------------
(* What a record does to a memory, when it is handled and when it is        *)
(* replayed.                                                                *)

Accepted(m, r) == IF r.op = "write" THEN CanWrite(m, r.id, r.owner)
                                    ELSE CanDelete(m, r.id, r.owner)

Result(m, r) == IF r.op = "write" THEN Written(m, r.id, r.val, r.owner)
                                  ELSE Deleted(m, r.id, r.owner)

AuditEntry(r) == [op |-> IF r.op = "write" THEN "WRITE" ELSE "DELETE",
                  id |-> r.id, owner |-> r.owner]

-----------------------------------------------------------------------------
(* write_fact, delete_fact, audit_append.                                   *)

Handle(r) ==
  /\ pc = "serving" /\ ops < MaxOps /\ r.seq = ops + 1
  /\ Accepted(mem, r)
  /\ mem' = Result(mem, r)
  /\ audit' = Append(audit, AuditEntry(r))
  /\ pc' = "append" /\ req' = r
  /\ ops' = ops + 1 /\ applied' = applied \cup {r.seq} /\ about' = Append(about, r.id)
  /\ UNCHANGED << fileVars, todo, faults, acked >>

\* Bytes appended to an unfinished line make one line with it.
Glued(old, new) == IF old = None THEN new
                   ELSE IF BadText \in {old, new} THEN BadText ELSE Garbage

AppendRecord ==
  /\ pc = "append"
  /\ pc' = "newline"
  /\ tail' = Glued(tail, req)
  /\ UNCHANGED << mem, audit, lines, req, todo, faults, historyVars >>

\* The write under way may leave part of the record in the file.
MayTear ==
  \/ UNCHANGED tail
  \/ pc = "append" /\ \E cut \in {Garbage, BadText} : tail' = Glued(tail, cut)

\* Mutated form: success is answered whether the append worked or not.
AppendFailsAcked ==
  /\ pc \in {"append", "newline"} /\ faults < MaxFaults
  /\ faults' = faults + 1
  /\ pc' = "serving" /\ req' = None
  /\ MayTear
  /\ acked' = acked \cup {req.seq}
  /\ UNCHANGED << mem, audit, lines, todo, ops, applied, about >>

\* append_wal returns false and the client is answered 500.  The operation
\* stays in memory.
AppendFails ==
  /\ pc \in {"append", "newline"} /\ faults < MaxFaults
  /\ faults' = faults + 1
  /\ pc' = "serving" /\ req' = None
  /\ MayTear
  /\ UNCHANGED << mem, audit, lines, todo, historyVars >>

\* The newline ends the line, and the client is answered "ok".
AppendNewline ==
  /\ pc = "newline"
  /\ pc' = "serving" /\ req' = None
  /\ lines' = Append(lines, tail) /\ tail' = None
  /\ acked' = acked \cup {req.seq}
  /\ UNCHANGED << mem, audit, todo, faults, ops, applied, about >>

Custom == [op |-> "CUSTOM", id |-> None, owner |-> None]

AuditAppend ==
  /\ pc = "serving"
  /\ Cardinality({n \in DOMAIN audit : audit[n] = Custom}) < MaxCustom
  /\ audit' = Append(audit, Custom)
  /\ UNCHANGED << mem, fileVars, pc, req, todo, faults, historyVars >>

\* Reads, and requests that are refused, leave everything as it was.
Answer == pc = "serving" /\ UNCHANGED vars

Kill ==
  /\ pc # "down" /\ faults < MaxFaults
  /\ faults' = faults + 1
  /\ pc' = "down" /\ mem' = Empty /\ audit' = <<>>
  /\ req' = None /\ todo' = <<>> /\ applied' = {}
  /\ MayTear
  /\ UNCHANGED << lines, ops, acked, about >>

-----------------------------------------------------------------------------
(* main: replay of the log.                                                 *)

\* text.lines() gives the unfinished line too; a file that is not UTF-8 is
\* read as empty.
Text ==
  LET all == IF tail = None THEN lines ELSE Append(lines, tail)
  IN  IF \E n \in DOMAIN all : all[n] = BadText THEN <<>> ELSE all

Start ==
  /\ pc = "down"
  /\ pc' = "replaying" /\ todo' = Text
  /\ UNCHANGED << mem, audit, fileVars, req, faults, historyVars >>

\* Mutated form: a delete that is replayed leaves no audit entry.
ReplayWithoutAudit ==
  /\ pc = "replaying" /\ todo # <<>> /\ Head(todo) # Garbage
  /\ Accepted(mem, Head(todo))
  /\ mem' = Result(mem, Head(todo))
  /\ audit' = IF Head(todo).op = "write" THEN Append(audit, AuditEntry(Head(todo))) ELSE audit
  /\ todo' = Tail(todo)
  /\ UNCHANGED << fileVars, pc, req, faults, historyVars >>

ReplayRecord ==
  /\ pc = "replaying" /\ todo # <<>> /\ Head(todo) # Garbage
  /\ Accepted(mem, Head(todo))
  /\ mem' = Result(mem, Head(todo))
  /\ audit' = Append(audit, AuditEntry(Head(todo)))
  /\ todo' = Tail(todo)
  /\ UNCHANGED << fileVars, pc, req, faults, historyVars >>

\* A record the memory refuses is passed over in silence.
ReplayRefused ==
  /\ pc = "replaying" /\ todo # <<>> /\ Head(todo) # Garbage
  /\ ~Accepted(mem, Head(todo))
  /\ todo' = Tail(todo)
  /\ UNCHANGED << mem, audit, fileVars, pc, req, faults, historyVars >>

\* Mutated form: replay ends at the first line that does not parse.
ReplayStops ==
  /\ pc = "replaying" /\ todo # <<>> /\ Head(todo) = Garbage
  /\ todo' = <<>>
  /\ UNCHANGED << mem, audit, fileVars, pc, req, faults, historyVars >>

\* A line that does not parse is reported and passed over.
ReplayBadLine ==
  /\ pc = "replaying" /\ todo # <<>> /\ Head(todo) = Garbage
  /\ todo' = Tail(todo)
  /\ UNCHANGED << mem, audit, fileVars, pc, req, faults, historyVars >>

Serve ==
  /\ pc = "replaying" /\ todo = <<>>
  /\ pc' = "serving"
  /\ UNCHANGED << mem, audit, fileVars, req, todo, faults, historyVars >>

-----------------------------------------------------------------------------
Init ==
  /\ mem = Empty /\ audit = <<>>
  /\ lines = <<>> /\ tail = None
  /\ pc = "down" /\ req = None /\ todo = <<>>
  /\ faults = 0 /\ ops = 0 /\ applied = {} /\ acked = {} /\ about = <<>>

Requests ==
  {r \in Record : r.val = None <=> r.op = "delete"}

Next ==
  \/ \E r \in Requests : Handle(r)
  \/ AppendRecord \/ AppendFails \/ AppendNewline
  \/ AuditAppend \/ Answer
  \/ Kill \/ Start
  \/ ReplayRecord \/ ReplayRefused \/ ReplayBadLine \/ Serve

Spec == Init /\ [][Next]_vars

-----------------------------------------------------------------------------
(* Safety.                                                                  *)

\* The requests a restart would find in the file.
Logged == {Text[n].seq : n \in {k \in DOMAIN Text : Text[k] \in Record}}

\* What a restart would make of the file.
Replay(s, line) ==
  IF line = Garbage \/ ~Accepted(s.mem, line) THEN s
  ELSE [mem |-> Result(s.mem, line), audit |-> Append(s.audit, AuditEntry(line))]
Blank    == [mem |-> Empty, audit |-> <<>>]
ReplayOf(text) ==
  LET upTo[n \in 0..Len(text)] == IF n = 0 THEN Blank ELSE Replay(upTo[n - 1], text[n])
  IN  upTo[Len(text)]
Replayed == ReplayOf(Text)

\* An audit log without the entries of /audit/append.
Operations(entries) == Select(entries, {n \in DOMAIN entries : entries[n] # Custom})

\* As long as everything the running process executed is in the file, a
\* restart would reproduce its memory exactly: rows, owners, tombstones,
\* insertion order and log, and its audit log but for the entries of
\* /audit/append.
ReplayExact ==
  pc = "serving" /\ applied \subseteq Logged =>
    /\ mem = Replayed.mem
    /\ Operations(audit) = Replayed.audit

\* The Merkle audit log and the memory's own log tell the same story, entry
\* by entry, before and after restarts.
AuditMatchesLog ==
  Operations(audit) =
    [n \in DOMAIN mem.log |->
      [op |-> IF mem.log[n].op = "delete" THEN "DELETE" ELSE "WRITE",
       id |-> mem.log[n].id, owner |-> mem.log[n].owner]]

\* A record cut in a character makes the whole file unreadable.
Spoiled == tail = BadText \/ \E n \in DOMAIN lines : lines[n] = BadText

\* The requests a restart would carry out again: their records are in the file,
\* and the memory that the lines before them make accepts them.
Restored ==
  {Text[n].seq : n \in {k \in DOMAIN Text :
     Text[k] \in Record /\ Accepted(ReplayOf(SubSeq(Text, 1, k - 1)).mem, Text[k])}}

\* As long as no record was cut inside a character, a restart loses an
\* acknowledged operation in two ways only.  Its record is not in the file:
\* each failure costs one operation at most that way.  Or its record is in the
\* file and is refused: then an earlier operation on the same fact, executed
\* but not in the file, is to blame, and of such losses there may be any number.
LossExplained ==
  ~Spoiled =>
    /\ Cardinality(acked \ Logged) <= faults
    /\ \A s \in Logged \ Restored : \E r \in (1..(s - 1)) \ Logged : about[r] = about[s]

\* SECURITY.md: with --wal-path, every acknowledged write is in the WAL; main.rs:
\* each entry of it is replayed into the memory before serving traffic.  So a
\* restart carries out again whatever was acknowledged.
AckedReplayed == acked \subseteq Restored
=============================================================================
