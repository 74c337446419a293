---------------------------- MODULE KvInvariant -----------------------------
(***************************************************************************)
(* The inductive invariant behind the safety properties of KvMemory: what  *)
(* holds of the memory in place, of the one a restore is building, and of  *)
(* the files, between the steps of each method.                            *)
(***************************************************************************)
EXTENDS KvMemory

\* No two paths share an audit file.
ASSUME OwnAudit == \A p, q \in Paths : Stem(p) = Stem(q) => p = q

Distinct(s) == \A n, k \in DOMAIN s : s[n] = s[k] => n = k

\* Each live row is in the new memory or still to come; nothing else is.
RestoreInv ==
  /\ pc # "restore" => fresh = Empty
  /\ pc = "restore" =>
       /\ fresh.log = <<>> /\ Listed(fresh)
       /\ Distinct(todo)
       /\ \A id \in Ids :
            \/ /\ fresh.rows[id] = Absent
               /\ Live(mem, id) => \E n \in DOMAIN todo : todo[n] = id
            \/ /\ Live(mem, id) /\ fresh.rows[id] = mem.rows[id]
               /\ \A n \in DOMAIN todo : todo[n] # id

\* What a restore has left of the scan, and that it copies in the scan's order.
CopyInv ==
  pc = "restore" =>
    \E done \in 0..Len(mem.order) :
      /\ todo = SubSeq(mem.order, done + 1, Len(mem.order))
      /\ fresh.order = LiveOf(mem, SubSeq(mem.order, 1, done))

\* A whole rows file lists its facts once.
FilesInv ==
  \A p \in Paths : facts[p] \notin {NoFile, Torn} =>
    \A n, k \in DOMAIN facts[p] : facts[p][n].id = facts[p][k].id => n = k

\* What a save has written so far.
SavingInv ==
  /\ pc \in {"facts", "audit", "entries"} => saved[path] = None
  /\ pc \in {"audit", "entries"} => facts[path] = FactsOf(mem)
  /\ pc = "entries" =>
       /\ audit[Stem(path)] # NoFile /\ ~audit[Stem(path)].torn
       /\ Len(Entries) <= Len(mem.log)
       /\ \A n \in DOMAIN Entries : Entries[n] = mem.log[n]

\* What finished saves keep is as good as the memory was.
SavedInv ==
  \A p \in Paths : saved[p] # None =>
    /\ Loadable(p) /\ Loaded(p) = saved[p].mem
    /\ saved[p].origin # None =>
         Explains(saved[p].mem, saved[p].origin) /\ Lawful(saved[p].mem.log)

KvInv ==
  /\ TypeOK
  /\ OrderExact /\ LogExplains /\ LogLegal
  /\ BulkIsWrites /\ ReceiptExact
  /\ RestoreInv /\ CopyInv /\ FilesInv /\ SavingInv /\ SavedInv
=============================================================================
