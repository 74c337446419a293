------------------------------ MODULE KvMemory ------------------------------
(***************************************************************************)
(* The life of one KvMemory (memory.rs) and of the Parquet files it is     *)
(* saved to, with the cascading delete of cascade.rs.                      *)
(*                                                                         *)
(* Every method borrows the memory exclusively, so calls do not interleave *)
(* with each other; but a batch is applied row by row, a cascade fact by   *)
(* fact, and a save writes two files, the rows and the audit log, which a  *)
(* full disk or the death of the process leaves half done.                 *)
(***************************************************************************)
EXTENDS KvRows, Selection, SequencesExt

CONSTANTS Paths,      \* files save_parquet is called with
          Stem(_),    \* a path without its extension: it names the audit file
          Stems,
          MaxLog,     \* bound on the audit log
          MaxBatch,   \* bound on the rows of a batch and the ids of a cascade
          MaxFaults,  \* bound on failed saves and process deaths
          MaxFiles,   \* bound on saves, loads and restores
          NoFile,     \* the file does not exist
          Torn,       \* a Parquet file without its footer
          None        \* no completed save; an unknown origin; no call in progress

ASSUME KvMemoryAssumption ==
  /\ MaxLog \in Nat /\ MaxBatch \in Nat /\ MaxFaults \in Nat /\ MaxFiles \in Nat
  /\ \A p \in Paths : Stem(p) \in Stems
  /\ NoFile # Torn
  /\ {NoFile, Torn} \cap Seq([id : Ids, row : Row]) = {}
  /\ NoFile \notin [entries : Seq(Entry), torn : BOOLEAN]
  /\ None \notin Owners \cup Paths \cup [Ids -> Row \cup {Absent}]
  /\ None \notin [mem : Memory, origin : [Ids -> Row \cup {Absent}] \cup {None}]

VARIABLES
  mem,      \* the KvMemory
  pc,       \* the method in progress
  todo,     \* bulk_insert: rows to apply; cascade, restore: ids to come to
  by,       \* the owner it is called with
  removed,  \* cascade: ok_ids
  path,     \* save_parquet: where to
  fresh,    \* restore: the memory being built
  facts,    \* the Parquet file at each path
  audit,    \* the audit file of each stem
  faults,
  files,    \* saves, loads and restores so far
  \* history, read by the properties only
  origin,   \* the rows the audit log starts from, None when they are unknown
  since,    \* length of the audit log when the cascade began
  saved     \* what the last save to each path was to keep, None while unfinished

callVars == << pc, todo, by, removed, path, since, fresh >>
diskVars == << facts, audit, saved >>
vars == << mem, callVars, diskVars, faults, files, origin >>

Item      == [id : Ids, val : Vals]
FactRow   == [id : Ids, row : Row]
AuditFile == [entries : Seq(Entry), torn : BOOLEAN]

Rows      == [Ids -> Row \cup {Absent}]
Save      == [mem : Memory, origin : Rows \cup {None}]

TypeOK ==
  /\ mem \in Memory
  /\ pc \in {"idle", "bulk", "cascade", "restore", "facts", "audit", "entries"}
  /\ todo \in IF pc = "bulk" THEN Seq(Item) ELSE Seq(Ids)
  /\ by \in IF pc \in {"bulk", "cascade"} THEN Owners ELSE {None}
  /\ removed \in Seq(Ids) /\ since \in Nat
  /\ path \in IF pc \in {"facts", "audit", "entries"} THEN Paths ELSE {None}
  /\ fresh \in Memory
  /\ facts \in [Paths -> Seq(FactRow) \cup {NoFile, Torn}]
  /\ audit \in [Stems -> AuditFile \cup {NoFile}]
  /\ origin \in Rows \cup {None} /\ saved \in [Paths -> Save \cup {None}]
  /\ faults \in 0..MaxFaults /\ files \in 0..MaxFiles

-----------------------------------------------------------------------------
Idle == pc = "idle"

\* The locals of a method end with it.
Return ==
  /\ pc' = "idle" /\ todo' = <<>> /\ removed' = <<>> /\ since' = 0
  /\ by' = None /\ path' = None /\ fresh' = Empty

Room == Len(mem.log) < MaxLog

Write(id, val, owner) ==
  /\ Idle /\ Room
  /\ CanWrite(mem, id, owner)
  /\ mem' = Written(mem, id, val, owner)
  /\ UNCHANGED << callVars, diskVars, faults, files, origin >>

Delete(id, owner) ==
  /\ Idle /\ Room
  /\ CanDelete(mem, id, owner)
  /\ mem' = Deleted(mem, id, owner)
  /\ UNCHANGED << callVars, diskVars, faults, files, origin >>

\* Mutated form: the batch is not scanned before it is applied.
BulkUnchecked(batch, owner) ==
  /\ Idle /\ Len(mem.log) + Len(batch) <= MaxLog
  /\ pc' = "bulk" /\ todo' = batch /\ by' = owner
  /\ UNCHANGED << mem, removed, path, since, fresh, diskVars, faults, files, origin >>

\* bulk_insert: every row is checked before any is applied.
BulkBegin(batch, owner) ==
  /\ Idle /\ Len(mem.log) + Len(batch) <= MaxLog
  /\ \A n \in DOMAIN batch : CanWrite(mem, batch[n].id, owner)
  /\ pc' = "bulk" /\ todo' = batch /\ by' = owner
  /\ UNCHANGED << mem, removed, path, since, fresh, diskVars, faults, files, origin >>

\* The loop applies a row without looking at its owner again.
BulkRow ==
  /\ pc = "bulk" /\ todo # <<>>
  /\ mem' = Written(mem, Head(todo).id, Head(todo).val, by)
  /\ todo' = Tail(todo)
  /\ UNCHANGED << pc, by, removed, path, since, fresh, diskVars, faults, files, origin >>

BulkEnd ==
  /\ pc = "bulk" /\ todo = <<>>
  /\ Return
  /\ UNCHANGED << mem, diskVars, faults, files, origin >>

\* CascadePlan::execute, for the one table whose memory it is given.
CascadeBegin(ids, owner) ==
  /\ Idle /\ Len(mem.log) + Len(ids) <= MaxLog
  /\ pc' = "cascade" /\ todo' = ids /\ by' = owner
  /\ removed' = <<>> /\ since' = Len(mem.log)
  /\ UNCHANGED << mem, path, fresh, diskVars, faults, files, origin >>

CascadeDelete ==
  /\ pc = "cascade" /\ todo # <<>>
  /\ CanDelete(mem, Head(todo), by)
  /\ mem' = Deleted(mem, Head(todo), by)
  /\ removed' = Append(removed, Head(todo))
  /\ todo' = Tail(todo)
  /\ UNCHANGED << pc, by, path, since, fresh, diskVars, faults, files, origin >>

\* Mutated form: a fact that could not be deleted is reported as deleted.
CascadeSkipCounted ==
  /\ pc = "cascade" /\ todo # <<>>
  /\ ~CanDelete(mem, Head(todo), by)
  /\ removed' = Append(removed, Head(todo))
  /\ todo' = Tail(todo)
  /\ UNCHANGED << mem, pc, by, path, since, fresh, diskVars, faults, files, origin >>

\* Any error is counted and dropped: an absent fact, or another owner's.
CascadeSkip ==
  /\ pc = "cascade" /\ todo # <<>>
  /\ ~CanDelete(mem, Head(todo), by)
  /\ todo' = Tail(todo)
  /\ UNCHANGED << mem, pc, by, removed, path, since, fresh, diskVars, faults, files, origin >>

CascadeEnd ==
  /\ pc = "cascade" /\ todo = <<>>
  /\ Return
  /\ UNCHANGED << mem, diskVars, faults, files, origin >>

\* A memory restored from the snapshot of this one takes its place.  The
\* snapshot goes by insertion order and skips tombstones.
RestoreBegin ==
  /\ Idle /\ files < MaxFiles
  /\ files' = files + 1
  /\ pc' = "restore" /\ todo' = mem.order
  /\ UNCHANGED << mem, by, removed, path, since, fresh, diskVars, faults, origin >>

\* Mutated form: tombstones are copied too.
RestoreAnyRow ==
  /\ pc = "restore" /\ todo # <<>>
  /\ fresh' = Copied(fresh, mem, Head(todo))
  /\ todo' = Tail(todo)
  /\ UNCHANGED << mem, pc, by, removed, path, since, diskVars, faults, files, origin >>

\* An id met twice would be a DuplicateKey error.
RestoreRow ==
  /\ pc = "restore" /\ todo # <<>>
  /\ Live(mem, Head(todo)) /\ fresh.rows[Head(todo)] = Absent
  /\ fresh' = Copied(fresh, mem, Head(todo))
  /\ todo' = Tail(todo)
  /\ UNCHANGED << mem, pc, by, removed, path, since, diskVars, faults, files, origin >>

RestoreSkip ==
  /\ pc = "restore" /\ todo # <<>>
  /\ ~Live(mem, Head(todo))
  /\ todo' = Tail(todo)
  /\ UNCHANGED << mem, pc, by, removed, path, since, fresh, diskVars, faults, files, origin >>

RestoreEnd ==
  /\ pc = "restore" /\ todo = <<>>
  /\ mem' = fresh /\ origin' = fresh.rows
  /\ Return
  /\ UNCHANGED << diskVars, faults, files >>

-----------------------------------------------------------------------------
(* save_parquet and load_parquet.                                           *)

\* File::create truncates what was there.
SaveFacts(p) ==
  /\ Idle /\ files < MaxFiles
  /\ files' = files + 1
  /\ pc' = "facts" /\ path' = p
  /\ facts' = [facts EXCEPT ![p] = Torn]
  /\ saved' = [saved EXCEPT ![p] = None]
  /\ UNCHANGED << mem, todo, by, removed, since, fresh, audit, faults, origin >>

\* Mutated form: tombstones are not written.
LiveFactsOf(m) ==
  LET live == SelectSeq(m.order, LAMBDA id : Live(m, id))
  IN  [n \in DOMAIN live |-> [id |-> live[n], row |-> m.rows[live[n]]]]

FactsOf(m) == [n \in DOMAIN m.order |-> [id |-> m.order[n], row |-> m.rows[m.order[n]]]]

CloseFacts ==
  /\ pc = "facts"
  /\ pc' = "audit"
  /\ facts' = [facts EXCEPT ![path] = FactsOf(mem)]
  /\ UNCHANGED << mem, todo, by, removed, path, since, fresh, audit, saved, faults, files, origin >>

\* Mutated form: an audit file that exists is appended to.
OpenAudit ==
  /\ pc = "audit"
  /\ pc' = "entries"
  /\ audit' = IF audit[Stem(path)] # NoFile THEN audit
              ELSE [audit EXCEPT ![Stem(path)] = [entries |-> <<>>, torn |-> FALSE]]
  /\ UNCHANGED << mem, todo, by, removed, path, since, fresh, facts, saved, faults, files, origin >>

CreateAudit ==
  /\ pc = "audit"
  /\ pc' = "entries"
  /\ audit' = [audit EXCEPT ![Stem(path)] = [entries |-> <<>>, torn |-> FALSE]]
  /\ UNCHANGED << mem, todo, by, removed, path, since, fresh, facts, saved, faults, files, origin >>

Entries == audit[Stem(path)].entries

SaveEntry ==
  /\ pc = "entries" /\ Len(Entries) < Len(mem.log)
  /\ audit' = [audit EXCEPT ![Stem(path)].entries =
                              Append(@, mem.log[Len(Entries) + 1])]
  /\ UNCHANGED << mem, callVars, facts, saved, faults, files, origin >>

SaveEnd ==
  /\ pc = "entries" /\ Len(Entries) = Len(mem.log)
  /\ Return
  /\ saved' = [saved EXCEPT ![path] = [mem |-> mem, origin |-> origin]]
  /\ UNCHANGED << mem, facts, audit, faults, files, origin >>

\* The write under way may leave part of its line in the audit file.
MayTear ==
  \/ UNCHANGED audit
  \/ /\ pc = "entries" /\ Len(Entries) < Len(mem.log)
     /\ audit' = [audit EXCEPT ![Stem(path)].torn = TRUE]

\* A write fails (the disk is full) and save_parquet returns the error.
SaveFails ==
  /\ faults < MaxFaults
  /\ pc \in {"facts", "audit", "entries"}
  /\ Return /\ faults' = faults + 1
  /\ MayTear
  /\ UNCHANGED << mem, facts, saved, files, origin >>

\* The process dies; the next one starts with KvMemory::new.
Crash ==
  /\ faults < MaxFaults
  /\ faults' = faults + 1
  /\ mem' = Empty /\ origin' = Empty.rows
  /\ Return
  /\ MayTear
  /\ UNCHANGED << facts, saved, files >>

\* The log of the audit file, empty when there is none.
LogAt(p) == IF audit[Stem(p)] = NoFile THEN <<>> ELSE audit[Stem(p)].entries

\* An entry that does not parse fails the whole load.
Loadable(p) ==
  /\ facts[p] \notin {NoFile, Torn}
  /\ audit[Stem(p)] # NoFile => ~audit[Stem(p)].torn

\* Mutated form: the deleted column is not read back.
FromFilesAlive(file, log) ==
  [rows  |-> [id \in Ids |->
                IF \E n \in DOMAIN file : file[n].id = id
                THEN [file[CHOOSE n \in DOMAIN file : file[n].id = id].row
                        EXCEPT !.deleted = FALSE]
                ELSE Absent],
   order |-> [n \in DOMAIN file |-> file[n].id],
   log   |-> log]

FromFiles(file, log) ==
  [rows  |-> [id \in Ids |->
                IF \E n \in DOMAIN file : file[n].id = id
                THEN file[CHOOSE n \in DOMAIN file : file[n].id = id].row
                ELSE Absent],
   order |-> [n \in DOMAIN file |-> file[n].id],
   log   |-> log]

Loaded(p) == FromFiles(facts[p], LogAt(p))

\* After an unfinished save the two files need not belong together.
Load(p) ==
  /\ Idle /\ files < MaxFiles /\ Loadable(p)
  /\ files' = files + 1
  /\ mem' = Loaded(p)
  /\ origin' = IF saved[p] = None THEN None ELSE saved[p].origin
  /\ UNCHANGED << callVars, diskVars, faults >>

-----------------------------------------------------------------------------
Init ==
  /\ mem = Empty /\ origin = Empty.rows
  /\ pc = "idle" /\ todo = <<>> /\ removed = <<>> /\ since = 0
  /\ by = None /\ path = None /\ fresh = Empty
  /\ facts = [p \in Paths |-> NoFile] /\ saved = [p \in Paths |-> None]
  /\ audit = [s \in Stems |-> NoFile]
  /\ faults = 0 /\ files = 0

Next ==
  \/ \E id \in Ids, owner \in Owners :
       Delete(id, owner) \/ \E val \in Vals : Write(id, val, owner)
  \/ \E owner \in Owners :
       \/ \E batch \in BoundedSeq(Item, MaxBatch) : BulkBegin(batch, owner)
       \/ \E ids \in BoundedSeq(Ids, MaxBatch) : CascadeBegin(ids, owner)
  \/ BulkRow \/ BulkEnd \/ CascadeDelete \/ CascadeSkip \/ CascadeEnd
  \/ RestoreBegin \/ RestoreRow \/ RestoreSkip \/ RestoreEnd
  \/ \E p \in Paths : SaveFacts(p) \/ Load(p)
  \/ CloseFacts \/ CreateAudit \/ SaveEntry \/ SaveEnd
  \/ SaveFails \/ Crash

Spec == Init /\ [][Next]_vars

-----------------------------------------------------------------------------
(* Safety.                                                                  *)

\* The insertion order of m names every id that has a row exactly once.
Listed(m) ==
  /\ \A id \in Ids : m.rows[id] # Absent <=> \E n \in DOMAIN m.order : m.order[n] = id
  /\ \A n, k \in DOMAIN m.order : m.order[n] = m.order[k] => n = k

\* No fact is scanned twice and none is missed, whatever was overwritten,
\* deleted, rewritten, restored or loaded: attention_query, snapshot and
\* save_parquet go by the insertion order.
OrderExact == Listed(mem)

\* The last entry of an id.
LastOf(log, n) == \A k \in DOMAIN log : k > n => log[k].id # log[n].id

\* The log of m, begun when the rows were those of from, accounts for its rows.
Explains(m, from) ==
  /\ \A n \in DOMAIN m.log : LastOf(m.log, n) =>
       LET row == m.rows[m.log[n].id]
       IN  /\ row # Absent
           /\ row.owner = m.log[n].owner
           /\ row.deleted <=> m.log[n].op = "delete"
  /\ \A id \in Ids : (\A n \in DOMAIN m.log : m.log[n].id # id) => m.rows[id] = from[id]

\* The audit log accounts for the rows: an id's last entry says who owns its
\* row and whether it is deleted, and an id without an entry has the row the
\* log started from.  (Not claimed of a memory loaded from the files of a
\* save that did not finish.)
LogExplains == origin # None => Explains(mem, origin)

\* The doc comments on AuditEntry (a history of every write and delete) and on
\* load_parquet (it restores the audit log): the log of any memory accounts for
\* its rows, whatever files it was loaded from, given some rows to start from.
LoadExplains == \E from \in Rows : Explains(mem, from)

\* Two entries of the same id with none of that id between them.
Consecutive(log, n, k) ==
  /\ n < k /\ log[n].id = log[k].id
  /\ \A j \in DOMAIN log : n < j /\ j < k => log[j].id # log[n].id

Lawful(log) ==
  \A n, k \in DOMAIN log : Consecutive(log, n, k) =>
    /\ log[k].op # "insert"
    /\ log[k].op = "delete" => log[n].op # "delete"
    /\ log[k].owner # log[n].owner => log[n].op = "delete"

\* The audit log is a history the owner rule allows, batches and cascades
\* included: an id is inserted once, a deleted one is not deleted again, and
\* a fact passes from one owner to another only after it was deleted.
LogLegal == origin # None => Lawful(mem.log)

\* bulk_insert does what one write for each row would do: whenever it comes
\* to a row, duplicates of earlier rows included, write would accept it.
BulkIsWrites ==
  pc = "bulk" => \A n \in DOMAIN todo : CanWrite(mem, todo[n].id, by)

\* The receipt of a cascade names the facts it deleted, no more and no fewer:
\* the entries it added to the audit log.
ReceiptExact ==
  pc = "cascade" =>
    /\ Len(mem.log) = since + Len(removed)
    /\ \A n \in DOMAIN removed :
         mem.log[since + n] = [op |-> "delete", id |-> removed[n], owner |-> by]

\* What save_parquet wrote, load_parquet reads back, tombstones, order and
\* audit log included, until that path is saved to again.
SavedIsLoaded ==
  \A p \in Paths : saved[p] # None => Loadable(p) /\ Loaded(p) = saved[p].mem

\* The ids of a scan that have a live row in m.
LiveOf(m, ids) == Select(ids, {n \in DOMAIN ids : Live(m, ids[n])})

\* A memory restored from a snapshot reads as the one it was taken of, owners
\* included, and scans in the same order; no id comes up twice on the way.
RestoreExact ==
  pc = "restore" =>
    /\ todo # <<>> /\ Live(mem, Head(todo)) => fresh.rows[Head(todo)] = Absent
    /\ todo = <<>> =>
         /\ \A id \in Ids : fresh.rows[id] = IF Live(mem, id) THEN mem.rows[id] ELSE Absent
         /\ fresh.order = LiveOf(mem, mem.order)
=============================================================================
