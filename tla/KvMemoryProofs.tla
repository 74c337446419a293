--------------------------- MODULE KvMemoryProofs ---------------------------
(***************************************************************************)
(* KvMemory: the invariant KvInv is inductive, for any number of facts,    *)
(* owners, paths and calls.                                                *)
(***************************************************************************)
EXTENDS KvInvariant, MerkleLog, SelectionProofs

-----------------------------------------------------------------------------
(* What a write, a delete and a copied row make of a memory.                *)

\* A write leaves a memory.
LEMMA WrittenType ==
  ASSUME NEW m \in Memory, NEW id \in Ids, NEW val \in Vals, NEW owner \in Owners
  PROVE  Written(m, id, val, owner) \in Memory
BY DEF Written, Memory, Entry, Row

\* A delete leaves a memory.
LEMMA DeletedType ==
  ASSUME NEW m \in Memory, NEW id \in Ids, NEW owner \in Owners, m.rows[id] # Absent
  PROVE  Deleted(m, id, owner) \in Memory
<1>1. m.rows[id] \in Row BY DEF Memory
<1>2. [m.rows[id] EXCEPT !.deleted = TRUE] \in Row BY <1>1 DEF Row
<1>3. [op |-> "delete", id |-> id, owner |-> owner] \in Entry BY DEF Entry
<1> QED BY <1>2, <1>3 DEF Deleted, Memory

\* A copied row leaves a memory.
LEMMA CopiedType ==
  ASSUME NEW m \in Memory, NEW to \in Memory, NEW id \in Ids
  PROVE  Copied(to, m, id) \in Memory
BY DEF Copied, Memory

\* Appending an id that has no row yet keeps the order exact.
LEMMA ListedAppend ==
  ASSUME NEW m \in Memory, NEW w \in Memory, NEW id \in Ids, Listed(m),
         m.rows[id] = Absent, w.rows[id] # Absent,
         \A other \in Ids : other # id => w.rows[other] = m.rows[other],
         w.order = Append(m.order, id)
  PROVE  Listed(w)
<1> DEFINE s == m.order
<1>1. s \in Seq(Ids) BY DEF Memory
<1>2. \A n \in DOMAIN s : s[n] # id BY DEF Listed
<1>3. /\ DOMAIN Append(s, id) = 1..(Len(s) + 1) /\ DOMAIN s = 1..Len(s) /\ Len(s) \in Nat
      /\ Append(s, id)[Len(s) + 1] = id
      /\ \A n \in 1..Len(s) : Append(s, id)[n] = s[n]
  BY <1>1
<1>4. \A other \in Ids : w.rows[other] # Absent <=> \E n \in DOMAIN w.order : w.order[n] = other
  <2> TAKE other \in Ids
  <2>1. CASE other = id BY <2>1, <1>3
  <2>2. CASE other # id BY <2>2, <1>3 DEF Listed
  <2> QED BY <2>1, <2>2
<1>5. \A n, k \in DOMAIN w.order : w.order[n] = w.order[k] => n = k
  BY <1>2, <1>3 DEF Listed
<1> QED BY <1>4, <1>5 DEF Listed

\* A write keeps the insertion order exact.
LEMMA WrittenListed ==
  ASSUME NEW m \in Memory, NEW id \in Ids, NEW val \in Vals, NEW owner \in Owners, Listed(m)
  PROVE  Listed(Written(m, id, val, owner))
<1> DEFINE w == Written(m, id, val, owner)
<1>1. /\ w \in Memory BY WrittenType
<1>2. w.rows[id] # Absent
  <2> DEFINE row == [val |-> val, owner |-> owner, deleted |-> FALSE]
  <2>1. row \in Row BY DEF Row
  <2>2. w.rows[id] = row BY DEF Written, Memory
  <2> QED BY <2>1, <2>2, KvAssumption
<1>3. \A other \in Ids : other # id => w.rows[other] = m.rows[other]
  BY DEF Written, Memory
<1>4. CASE m.rows[id] = Absent
  <2>1. w.order = Append(m.order, id) BY <1>4 DEF Written
  <2> QED BY <1>1, <1>2, <1>3, <1>4, <2>1, ListedAppend
<1>5. CASE m.rows[id] # Absent
  <2>1. w.order = m.order BY <1>5 DEF Written
  <2> QED BY <1>2, <1>3, <1>5, <2>1 DEF Listed
<1> QED BY <1>4, <1>5

\* A delete keeps the insertion order exact.
LEMMA DeletedListed ==
  ASSUME NEW m \in Memory, NEW id \in Ids, NEW owner \in Owners, m.rows[id] # Absent, Listed(m)
  PROVE  Listed(Deleted(m, id, owner))
<1> DEFINE w == Deleted(m, id, owner)
<1>1. w.order = m.order BY DEF Deleted, Memory
<1>2. \A other \in Ids : w.rows[other] # Absent <=> m.rows[other] # Absent
  BY KvAssumption DEF Deleted, Memory, Row
<1> QED BY <1>1, <1>2 DEF Listed

\* A copied row keeps the order of the new memory exact.
LEMMA CopiedListed ==
  ASSUME NEW m \in Memory, NEW to \in Memory, NEW id \in Ids,
         m.rows[id] # Absent, to.rows[id] = Absent, Listed(to)
  PROVE  Listed(Copied(to, m, id))
<1> DEFINE w == Copied(to, m, id)
<1>1. w \in Memory BY CopiedType
<1>2. /\ w.rows[id] # Absent /\ w.order = Append(to.order, id)
      /\ \A other \in Ids : other # id => w.rows[other] = to.rows[other]
  BY DEF Copied, Memory
<1> QED BY <1>1, <1>2, ListedAppend

\* An entry for id appended to a log that accounts for the rows, with the row
\* of id changed to what the entry says.
LEMMA ExplainsAppend ==
  ASSUME NEW m \in Memory, NEW w \in Memory, NEW id \in Ids, NEW from, NEW e \in Entry,
         Explains(m, from),
         e.id = id, w.log = Append(m.log, e),
         \A other \in Ids : other # id => w.rows[other] = m.rows[other],
         w.rows[id] # Absent, w.rows[id].owner = e.owner,
         w.rows[id].deleted <=> e.op = "delete"
  PROVE  Explains(w, from)
<1> DEFINE s == m.log
<1>1. s \in Seq(Entry) BY DEF Memory
<1>2. /\ DOMAIN Append(s, e) = 1..(Len(s) + 1) /\ DOMAIN s = 1..Len(s) /\ Len(s) \in Nat
      /\ Append(s, e)[Len(s) + 1] = e
      /\ \A n \in 1..Len(s) : Append(s, e)[n] = s[n]
  BY <1>1
<1>3. \A n \in 1..Len(s) : s[n].id \in Ids
  <2>1. \A n \in 1..Len(s) : s[n] \in Entry BY <1>1
  <2> QED BY <2>1 DEF Entry
<1>4. ASSUME NEW n \in DOMAIN w.log, LastOf(w.log, n)
      PROVE  LET row == w.rows[w.log[n].id]
             IN  /\ row # Absent
                 /\ row.owner = w.log[n].owner
                 /\ row.deleted <=> w.log[n].op = "delete"
  <2>1. CASE n = Len(s) + 1 BY <2>1, <1>2
  <2>2. CASE n # Len(s) + 1
    <3>1. n \in DOMAIN s /\ w.log[n] = s[n] BY <2>2, <1>2
    <3>2. s[n].id # id
      <4>1. Len(s) + 1 \in DOMAIN w.log /\ Len(s) + 1 > n BY <1>2, <3>1
      <4> QED BY <4>1, <1>2, <1>4, <3>1 DEF LastOf
    <3>3. LastOf(s, n) BY <1>2, <1>4, <3>1 DEF LastOf
    <3>4. w.rows[s[n].id] = m.rows[s[n].id] BY <1>2, <1>3, <3>1, <3>2
    <3> QED BY <3>1, <3>3, <3>4 DEF Explains
  <2> QED BY <2>1, <2>2
<1>5. ASSUME NEW other \in Ids, \A n \in DOMAIN w.log : w.log[n].id # other
      PROVE  w.rows[other] = from[other]
  <2>1. other # id BY <1>2, <1>5
  <2>2. \A n \in DOMAIN s : s[n].id # other BY <1>2, <1>5
  <2> QED BY <2>1, <2>2 DEF Explains
<1> QED BY <1>4, <1>5 DEF Explains

\* Such a log stays lawful when its last entry for id admits the new one.
LEMMA LawfulAppend ==
  ASSUME NEW log \in Seq(Entry), NEW e \in Entry, Lawful(log),
         \A n \in DOMAIN log : log[n].id = e.id /\ LastOf(log, n) =>
           /\ e.op # "insert"
           /\ e.op = "delete" => log[n].op # "delete"
           /\ e.owner # log[n].owner => log[n].op = "delete"
  PROVE  Lawful(Append(log, e))
<1> DEFINE s == Append(log, e)
<1>1. /\ DOMAIN s = 1..(Len(log) + 1) /\ DOMAIN log = 1..Len(log) /\ Len(log) \in Nat
      /\ s[Len(log) + 1] = e
      /\ \A n \in 1..Len(log) : s[n] = log[n]
  OBVIOUS
<1> HIDE DEF s
<1>2. SUFFICES ASSUME NEW n \in DOMAIN s, NEW k \in DOMAIN s, Consecutive(s, n, k)
               PROVE  /\ s[k].op # "insert"
                      /\ s[k].op = "delete" => s[n].op # "delete"
                      /\ s[k].owner # s[n].owner => s[n].op = "delete"
  BY DEF Lawful, s
<1>3. n < k /\ s[n].id = s[k].id BY <1>2 DEF Consecutive
<1>4. n \in DOMAIN log /\ s[n] = log[n] BY <1>1, <1>3
<1>5. CASE k \in DOMAIN log
  <2>1. s[k] = log[k] BY <1>1, <1>5
  <2>2. Consecutive(log, n, k) BY <1>1, <1>2, <1>4, <1>5, <2>1 DEF Consecutive
  <2> QED BY <1>4, <1>5, <2>1, <2>2 DEF Lawful
<1>6. CASE k \notin DOMAIN log
  <2>1. k = Len(log) + 1 /\ s[k] = e BY <1>1, <1>6
  <2>2. LastOf(log, n) BY <1>1, <1>2, <1>3, <1>4, <2>1 DEF Consecutive, LastOf
  <2> QED BY <1>3, <1>4, <2>1, <2>2
<1> QED BY <1>5, <1>6

\* A write the owner rule admits leaves a log that accounts for the rows and
\* is lawful.
LEMMA WrittenHistory ==
  ASSUME NEW m \in Memory, NEW id \in Ids, NEW val \in Vals, NEW owner \in Owners, NEW from,
         CanWrite(m, id, owner), Explains(m, from), Lawful(m.log)
  PROVE  /\ Explains(Written(m, id, val, owner), from)
         /\ Lawful(Written(m, id, val, owner).log)
<1> DEFINE w == Written(m, id, val, owner)
           e == [op |-> IF m.rows[id] = Absent THEN "insert" ELSE "update",
                 id |-> id, owner |-> owner]
           row == [val |-> val, owner |-> owner, deleted |-> FALSE]
<1>1. w \in Memory BY WrittenType
<1>2. e \in Entry /\ e.id = id /\ e.owner = owner /\ e.op # "delete"
      /\ (e.op = "insert" <=> m.rows[id] = Absent)
  BY DEF Entry
<1>3. w.rows[id] = row /\ \A other \in Ids : other # id => w.rows[other] = m.rows[other]
  BY DEF Written, Memory
<1>4. row \in Row /\ row.owner = owner /\ row.deleted = FALSE BY DEF Row
<1>5. w.log = Append(m.log, e) BY DEF Written
<1> HIDE DEF w, e, row
<1>6. Explains(w, from)
  BY <1>1, <1>2, <1>3, <1>4, <1>5, KvAssumption, ExplainsAppend
<1>7. ASSUME NEW n \in DOMAIN m.log, m.log[n].id = e.id, LastOf(m.log, n)
      PROVE  /\ e.op # "insert"
             /\ e.op = "delete" => m.log[n].op # "delete"
             /\ e.owner # m.log[n].owner => m.log[n].op = "delete"
  <2>1. /\ m.rows[id] # Absent /\ m.rows[id].owner = m.log[n].owner
        /\ m.rows[id].deleted <=> m.log[n].op = "delete"
    BY <1>2, <1>7 DEF Explains
  <2> QED BY <1>2, <2>1 DEF CanWrite, Live
<1>8. m.log \in Seq(Entry) BY DEF Memory
<1>9. Lawful(Append(m.log, e)) BY <1>2, <1>7, <1>8, LawfulAppend
<1> QED BY <1>5, <1>6, <1>9 DEF w

\* So does a delete the owner rule admits.
LEMMA DeletedHistory ==
  ASSUME NEW m \in Memory, NEW id \in Ids, NEW owner \in Owners, NEW from,
         CanDelete(m, id, owner), Explains(m, from), Lawful(m.log)
  PROVE  /\ Explains(Deleted(m, id, owner), from)
         /\ Lawful(Deleted(m, id, owner).log)
<1> DEFINE w == Deleted(m, id, owner)
           e == [op |-> "delete", id |-> id, owner |-> owner]
           row == [m.rows[id] EXCEPT !.deleted = TRUE]
<1>1. w \in Memory /\ m.rows[id] # Absent BY DeletedType DEF CanDelete, Live
<1>2. e \in Entry /\ e.id = id /\ e.owner = owner /\ e.op = "delete" BY DEF Entry
<1>3. w.rows[id] = row /\ \A other \in Ids : other # id => w.rows[other] = m.rows[other]
  BY DEF Deleted, Memory
<1>4. row \in Row /\ row.owner = owner /\ row.deleted = TRUE
  <2>1. m.rows[id] \in Row BY <1>1 DEF Memory
  <2> QED BY <2>1 DEF Row, CanDelete
<1>5. w.log = Append(m.log, e) BY DEF Deleted, Memory
<1> HIDE DEF w, e, row
<1>6. Explains(w, from)
  BY <1>1, <1>2, <1>3, <1>4, <1>5, KvAssumption, ExplainsAppend
<1>7. ASSUME NEW n \in DOMAIN m.log, m.log[n].id = e.id, LastOf(m.log, n)
      PROVE  /\ e.op # "insert"
             /\ e.op = "delete" => m.log[n].op # "delete"
             /\ e.owner # m.log[n].owner => m.log[n].op = "delete"
  <2>1. /\ m.rows[id].owner = m.log[n].owner
        /\ m.rows[id].deleted <=> m.log[n].op = "delete"
    BY <1>2, <1>7 DEF Explains
  <2> QED BY <1>2, <2>1 DEF CanDelete, Live
<1>8. m.log \in Seq(Entry) BY DEF Memory
<1>9. Lawful(Append(m.log, e)) BY <1>2, <1>7, <1>8, LawfulAppend
<1> QED BY <1>5, <1>6, <1>9 DEF w

-----------------------------------------------------------------------------
(* What the files give back.                                                *)

\* A rows file that lists its facts once makes a memory with an exact order.
LEMMA FromFilesListed ==
  ASSUME NEW file \in Seq(FactRow), NEW log \in Seq(Entry),
         \A n, k \in DOMAIN file : file[n].id = file[k].id => n = k
  PROVE  FromFiles(file, log) \in Memory /\ Listed(FromFiles(file, log))
<1> DEFINE w == FromFiles(file, log)
<1>1. \A n \in DOMAIN file : file[n].id \in Ids /\ file[n].row \in Row
  <2>1. \A n \in DOMAIN file : file[n] \in FactRow OBVIOUS
  <2> QED BY <2>1 DEF FactRow
<1>2. ASSUME NEW id \in Ids
      PROVE  /\ \A n \in DOMAIN file : file[n].id = id => w.rows[id] = file[n].row
             /\ (\A n \in DOMAIN file : file[n].id # id) => w.rows[id] = Absent
  <2>1. ASSUME NEW n \in DOMAIN file, file[n].id = id
        PROVE  w.rows[id] = file[n].row
    <3> DEFINE c == CHOOSE k \in DOMAIN file : file[k].id = id
    <3>1. c \in DOMAIN file /\ file[c].id = id BY <2>1
    <3>2. c = n BY <2>1, <3>1
    <3>3. w.rows[id] = file[c].row BY <2>1 DEF FromFiles
    <3> QED BY <3>2, <3>3
  <2>2. ASSUME \A n \in DOMAIN file : file[n].id # id
        PROVE  w.rows[id] = Absent
    BY <2>2 DEF FromFiles
  <2> QED BY <2>1, <2>2
<1>3. w.rows = [id \in Ids |-> w.rows[id]] /\ w.log = log
      /\ w.order = [n \in DOMAIN file |-> file[n].id]
      /\ w = [rows |-> w.rows, order |-> w.order, log |-> w.log]
  BY DEF FromFiles
<1> HIDE DEF w
<1>4. \A id \in Ids : w.rows[id] \in Row \cup {Absent} BY <1>1, <1>2
<1>5. w.rows \in [Ids -> Row \cup {Absent}] BY <1>3, <1>4
<1>6. DOMAIN file = 1..Len(file) /\ Len(file) \in Nat OBVIOUS
<1>7. w.order \in Seq(Ids) /\ DOMAIN w.order = DOMAIN file
  BY <1>1, <1>3, <1>6
<1>8. w \in Memory BY <1>3, <1>5, <1>7 DEF Memory
<1>9. ASSUME NEW id \in Ids
      PROVE  w.rows[id] # Absent <=> \E n \in DOMAIN w.order : w.order[n] = id
  BY <1>1, <1>2, <1>3, <1>7, KvAssumption
<1>10. \A n, k \in DOMAIN w.order : w.order[n] = w.order[k] => n = k
  BY <1>3, <1>7
<1> QED BY <1>8, <1>9, <1>10 DEF Listed, w

\* The rows written out and read back, with the log, are the memory.
LEMMA FactsRoundTrip ==
  ASSUME NEW m \in Memory, Listed(m)
  PROVE  /\ FactsOf(m) \in Seq(FactRow)
         /\ \A n, k \in DOMAIN FactsOf(m) : FactsOf(m)[n].id = FactsOf(m)[k].id => n = k
         /\ FromFiles(FactsOf(m), m.log) = m
<1> DEFINE file == FactsOf(m)
           w == FromFiles(file, m.log)
<1>1. /\ DOMAIN file = DOMAIN m.order
      /\ file = [n \in DOMAIN m.order |-> file[n]]
  BY DEF FactsOf
<1>2a. \A n \in DOMAIN m.order : file[n] = [id |-> m.order[n], row |-> m.rows[m.order[n]]]
  BY DEF FactsOf
<1> HIDE DEF file
<1>2b. ASSUME NEW n \in DOMAIN m.order
      PROVE  file[n].id = m.order[n] /\ file[n].row = m.rows[m.order[n]]
  <2>1. file[n] = [id |-> m.order[n], row |-> m.rows[m.order[n]]] BY <1>2a
  <2> QED BY <2>1
<1>2. m.order \in Seq(Ids) /\ m.rows \in [Ids -> Row \cup {Absent}] BY DEF Memory
<1>3. \A n \in DOMAIN file : m.order[n] \in Ids /\ m.rows[m.order[n]] \in Row
  <2>1. \A n \in DOMAIN m.order : m.order[n] \in Ids BY <1>2
  <2> QED BY <1>1, <1>2, <2>1 DEF Listed
<1>4. \A n \in DOMAIN file : file[n] \in FactRow
  <2> TAKE n \in DOMAIN file
  <2>1. file[n] = [id |-> m.order[n], row |-> m.rows[m.order[n]]] BY <1>2a, <1>1
  <2> QED BY <1>3, <2>1 DEF FactRow
<1>5. file \in Seq(FactRow)
  <2>1. DOMAIN m.order = 1..Len(m.order) /\ Len(m.order) \in Nat BY <1>2
  <2> QED BY <1>1, <1>4, <2>1
<1>6. ASSUME NEW n \in DOMAIN file, NEW k \in DOMAIN file, file[n].id = file[k].id
      PROVE  n = k
  <2>1. m.order[n] = m.order[k] BY <1>1, <1>2b, <1>6
  <2> QED BY <1>1, <2>1 DEF Listed
<1>7. w.order = m.order /\ w.log = m.log
      /\ w = [rows |-> w.rows, order |-> w.order, log |-> w.log]
  <2>1. w.order = [n \in DOMAIN m.order |-> m.order[n]]
    <3>1. w.order = [n \in DOMAIN file |-> file[n].id] BY DEF FromFiles
    <3>2. \A n \in DOMAIN m.order : file[n].id = m.order[n] BY <1>2b
    <3> HIDE DEF w
    <3> QED BY <1>1, <3>1, <3>2
  <2>2. m.order = [n \in DOMAIN m.order |-> m.order[n]] BY <1>2
  <2> QED BY <2>1, <2>2 DEF FromFiles
<1>8. ASSUME NEW id \in Ids
      PROVE  w.rows[id] = m.rows[id]
  <2>1. CASE \E n \in DOMAIN file : file[n].id = id
    <3> DEFINE c == CHOOSE n \in DOMAIN file : file[n].id = id
    <3>1. c \in DOMAIN file /\ file[c].id = id BY <2>1
    <3>2. w.rows[id] = file[c].row BY <2>1 DEF FromFiles
    <3> HIDE DEF w, c
    <3>3. file[c].row = m.rows[m.order[c]] /\ file[c].id = m.order[c] BY <1>2b, <1>1, <3>1
    <3> QED BY <3>1, <3>2, <3>3
  <2>2. CASE ~\E n \in DOMAIN file : file[n].id = id
    <3>1. w.rows[id] = Absent BY <2>2 DEF FromFiles
    <3> HIDE DEF w
    <3>2. \A n \in DOMAIN m.order : m.order[n] # id BY <1>2b, <1>1, <2>2
    <3> QED BY <3>1, <3>2 DEF Listed
  <2> QED BY <2>1, <2>2
<1>9. w.rows = [id \in Ids |-> w.rows[id]] /\ m.rows = [id \in Ids |-> m.rows[id]]
  BY <1>2 DEF FromFiles
<1>10. m = [rows |-> m.rows, order |-> m.order, log |-> m.log] BY DEF Memory
<1> HIDE DEF w, file
<1>11. w.rows = m.rows BY <1>8, <1>9
<1> QED BY <1>5, <1>6, <1>7, <1>10, <1>11 DEF w, file

-----------------------------------------------------------------------------
(* TypeOK.                                                                  *)

\* The memory before the first write.
LEMMA EmptyType == Empty \in Memory /\ Empty.log = <<>> /\ Listed(Empty)
<1>1. Empty.rows \in [Ids -> Row \cup {Absent}] /\ \A id \in Ids : Empty.rows[id] = Absent
  BY DEF Empty
<1> QED BY <1>1 DEF Empty, Memory, Listed

\* A method that returns leaves locals of the right types.
LEMMA ReturnType ==
  ASSUME Return
  PROVE  /\ pc' = "idle" /\ todo' \in Seq(Ids) /\ by' = None /\ path' = None
         /\ removed' \in Seq(Ids) /\ since' \in Nat /\ fresh' \in Memory
BY EmptyType DEF Return

\* Writes, deletes and batches keep the types.
LEMMA StoreTypes ==
  ASSUME KvInv,
         \/ \E id \in Ids, owner \in Owners :
              Delete(id, owner) \/ \E val \in Vals : Write(id, val, owner)
         \/ \E owner \in Owners, batch \in Seq(Item) : BulkBegin(batch, owner)
         \/ BulkRow \/ BulkEnd
  PROVE  TypeOK'
<1> USE DEF KvInv
<1>1. CASE \E id \in Ids, owner \in Owners : Delete(id, owner)
  <2>1. PICK id \in Ids, owner \in Owners : Delete(id, owner) BY <1>1
  <2>2. mem' \in Memory
    BY <2>1, DeletedType DEF TypeOK, Delete, CanDelete, Live
  <2> QED BY <2>1, <2>2 DEF TypeOK, Delete, callVars, diskVars
<1>2. CASE \E id \in Ids, owner \in Owners, val \in Vals : Write(id, val, owner)
  <2>1. PICK id \in Ids, owner \in Owners, val \in Vals : Write(id, val, owner) BY <1>2
  <2>2. mem' \in Memory BY <2>1, WrittenType DEF TypeOK, Write
  <2> QED BY <2>1, <2>2 DEF TypeOK, Write, callVars, diskVars
<1>3. CASE \E owner \in Owners, batch \in Seq(Item) : BulkBegin(batch, owner)
  BY <1>3 DEF TypeOK, BulkBegin, Idle, diskVars
<1>4. CASE BulkRow
  <2>1. todo \in Seq(Item) /\ todo # <<>> /\ by \in Owners BY <1>4 DEF BulkRow, TypeOK
  <2>2. Head(todo) \in Item /\ Tail(todo) \in Seq(Item) BY <2>1
  <2>3. mem' \in Memory
    BY <1>4, <2>1, <2>2, WrittenType DEF TypeOK, BulkRow, Item
  <2> QED BY <1>4, <2>2, <2>3 DEF TypeOK, BulkRow, diskVars
<1>5. CASE BulkEnd
  BY <1>5, ReturnType DEF TypeOK, BulkEnd, diskVars
<1> QED BY <1>1, <1>2, <1>3, <1>4, <1>5

\* So do cascades.
LEMMA CascadeTypes ==
  ASSUME KvInv,
         \/ \E owner \in Owners, ids \in Seq(Ids) : CascadeBegin(ids, owner)
         \/ CascadeDelete \/ CascadeSkip \/ CascadeEnd
  PROVE  TypeOK'
<1> USE DEF KvInv
<1>1. CASE \E owner \in Owners, ids \in Seq(Ids) : CascadeBegin(ids, owner)
  <2>1. Len(mem.log) \in Nat BY DEF TypeOK, Memory
  <2> QED BY <1>1, <2>1 DEF TypeOK, CascadeBegin, Idle, diskVars
<1>2. CASE CascadeDelete
  <2>1. todo \in Seq(Ids) /\ todo # <<>> /\ by \in Owners BY <1>2 DEF CascadeDelete, TypeOK
  <2>2. Head(todo) \in Ids /\ Tail(todo) \in Seq(Ids) BY <2>1
  <2>3. mem' \in Memory
    BY <1>2, <2>1, <2>2, DeletedType DEF TypeOK, CascadeDelete, CanDelete, Live
  <2> QED BY <1>2, <2>2, <2>3 DEF TypeOK, CascadeDelete, diskVars
<1>3. CASE CascadeSkip
  <2>1. todo \in Seq(Ids) /\ todo # <<>> BY <1>3 DEF CascadeSkip, TypeOK
  <2>2. Tail(todo) \in Seq(Ids) BY <2>1
  <2> QED BY <1>3, <2>2 DEF TypeOK, CascadeSkip, diskVars
<1>4. CASE CascadeEnd
  BY <1>4, ReturnType DEF TypeOK, CascadeEnd, diskVars
<1> QED BY <1>1, <1>2, <1>3, <1>4

\* So do restores.
LEMMA RestoreTypes ==
  ASSUME KvInv, RestoreBegin \/ RestoreRow \/ RestoreSkip \/ RestoreEnd
  PROVE  TypeOK'
<1> USE DEF KvInv
<1>0. mem.order \in Seq(Ids) /\ fresh.rows \in Rows BY DEF TypeOK, Memory, Rows
<1>1. CASE RestoreBegin
  BY <1>0, <1>1, KvMemoryAssumption DEF TypeOK, RestoreBegin, Idle, diskVars
<1>2. CASE RestoreRow
  <2>1. todo \in Seq(Ids) /\ todo # <<>> BY <1>2 DEF RestoreRow, TypeOK
  <2>2. Head(todo) \in Ids /\ Tail(todo) \in Seq(Ids) BY <2>1
  <2>3. fresh' \in Memory BY <1>2, <2>2, CopiedType DEF TypeOK, RestoreRow
  <2> QED BY <1>2, <2>2, <2>3 DEF TypeOK, RestoreRow, diskVars
<1>3. CASE RestoreSkip
  <2>1. todo \in Seq(Ids) /\ todo # <<>> BY <1>3 DEF RestoreSkip, TypeOK
  <2>2. Tail(todo) \in Seq(Ids) BY <2>1
  <2> QED BY <1>3, <2>2 DEF TypeOK, RestoreSkip, diskVars
<1>4. CASE RestoreEnd
  BY <1>0, <1>4, ReturnType DEF TypeOK, RestoreEnd, diskVars
<1> QED BY <1>1, <1>2, <1>3, <1>4

\* A torn audit file is an audit file.
LEMMA TearType ==
  ASSUME KvInv, MayTear
  PROVE  audit' \in [Stems -> AuditFile \cup {NoFile}]
<1> USE DEF KvInv
<1>1. CASE UNCHANGED audit BY <1>1 DEF TypeOK
<1>2. CASE pc = "entries" /\ audit' = [audit EXCEPT ![Stem(path)].torn = TRUE]
  <2>1. path \in Paths /\ Stem(path) \in Stems BY <1>2, KvMemoryAssumption DEF TypeOK
  <2>2. audit[Stem(path)] \in AuditFile BY <1>2, <2>1 DEF TypeOK, SavingInv
  <2>3. [audit[Stem(path)] EXCEPT !.torn = TRUE] \in AuditFile BY <2>2 DEF AuditFile
  <2> QED BY <1>2, <2>1, <2>3 DEF TypeOK
<1> QED BY <1>1, <1>2 DEF MayTear

\* So do saves.
LEMMA SaveTypes ==
  ASSUME KvInv, \/ \E p \in Paths : SaveFacts(p)
                \/ CloseFacts \/ CreateAudit \/ SaveEntry \/ SaveEnd \/ SaveFails
  PROVE  TypeOK'
<1> USE DEF KvInv
<1>1. CASE \E p \in Paths : SaveFacts(p)
  BY <1>1, KvMemoryAssumption DEF TypeOK, SaveFacts, Idle
<1>2. CASE CloseFacts
  <2>1. FactsOf(mem) \in Seq(FactRow) BY FactsRoundTrip DEF TypeOK, OrderExact
  <2> QED BY <1>2, <2>1 DEF TypeOK, CloseFacts
<1>3. CASE CreateAudit
  <2>1. [entries |-> <<>>, torn |-> FALSE] \in AuditFile BY DEF AuditFile
  <2> QED BY <1>3, <2>1 DEF TypeOK, CreateAudit
<1>4. CASE SaveEntry
  <2>1. path \in Paths /\ Stem(path) \in Stems BY <1>4, KvMemoryAssumption DEF TypeOK, SaveEntry
  <2>2. audit[Stem(path)] \in AuditFile BY <1>4, <2>1 DEF TypeOK, SaveEntry, SavingInv
  <2>3. mem.log \in Seq(Entry) /\ Entries \in Seq(Entry) BY <2>2 DEF TypeOK, Memory, AuditFile, Entries
  <2>4. mem.log[Len(Entries) + 1] \in Entry BY <1>4, <2>3 DEF SaveEntry
  <2>5. Append(Entries, mem.log[Len(Entries) + 1]) \in Seq(Entry) BY <2>3, <2>4
  <2>6. [audit[Stem(path)] EXCEPT !.entries = Append(Entries, mem.log[Len(Entries) + 1])] \in AuditFile
    BY <2>2, <2>5 DEF AuditFile
  <2>7. audit' = [audit EXCEPT ![Stem(path)] =
                   [audit[Stem(path)] EXCEPT !.entries = Append(Entries, mem.log[Len(Entries) + 1])]]
    BY <1>4 DEF SaveEntry, Entries
  <2>8. audit' \in [Stems -> AuditFile \cup {NoFile}] BY <2>1, <2>6, <2>7 DEF TypeOK
  <2> QED BY <1>4, <2>8 DEF TypeOK, SaveEntry, callVars
<1>5. CASE SaveEnd
  <2>1. [mem |-> mem, origin |-> origin] \in Save BY DEF TypeOK, Save
  <2> QED BY <1>5, <2>1, ReturnType DEF TypeOK, SaveEnd
<1>6. CASE SaveFails
  <2>1. audit' \in [Stems -> AuditFile \cup {NoFile}] BY <1>6, TearType DEF SaveFails
  <2>2. faults' \in 0..MaxFaults BY <1>6, KvMemoryAssumption DEF TypeOK, SaveFails
  <2> QED BY <1>6, <2>1, <2>2, ReturnType DEF TypeOK, SaveFails
<1> QED BY <1>1, <1>2, <1>3, <1>4, <1>5, <1>6

\* So do the death of the process and a load.
LEMMA RestartTypes ==
  ASSUME KvInv, Crash \/ \E p \in Paths : Load(p)
  PROVE  TypeOK'
<1> USE DEF KvInv
<1>1. CASE Crash
  <2>1. Empty.rows \in Rows BY EmptyType DEF Memory, Rows
  <2>2. audit' \in [Stems -> AuditFile \cup {NoFile}] BY <1>1, TearType DEF Crash
  <2>3. faults' \in 0..MaxFaults BY <1>1, KvMemoryAssumption DEF TypeOK, Crash
  <2> QED BY <1>1, <2>1, <2>2, <2>3, EmptyType, ReturnType DEF TypeOK, Crash
<1>2. CASE \E p \in Paths : Load(p)
  <2>1. PICK p \in Paths : Load(p) BY <1>2
  <2>2. Loaded(p) \in Memory
    <3>1. facts[p] \in Seq(FactRow) BY <2>1 DEF TypeOK, Load, Loadable
    <3>2. LogAt(p) \in Seq(Entry) BY KvMemoryAssumption DEF LogAt, TypeOK, AuditFile
    <3> QED BY <2>1, <3>1, <3>2, FromFilesListed DEF Loaded, Load, Loadable, FilesInv
  <2>3. origin' \in Rows \cup {None} BY <2>1 DEF Load, TypeOK, Save
  <2> QED BY <2>1, <2>2, <2>3, KvMemoryAssumption DEF TypeOK, Load, callVars, diskVars, Idle
<1> QED BY <1>1, <1>2

-----------------------------------------------------------------------------
(* The memory: OrderExact, LogExplains and LogLegal.                        *)

StoreInv == OrderExact /\ LogExplains /\ LogLegal

\* A memory with an empty log is explained by its own rows.
LEMMA BlankHistory ==
  ASSUME NEW m, m.log = <<>>
  PROVE  Explains(m, m.rows) /\ Lawful(m.log)
BY DEF Explains, Lawful, Consecutive

\* A legal write keeps the three.
LEMMA WriteKeeps ==
  ASSUME mem \in Memory, StoreInv, UNCHANGED origin,
         NEW id \in Ids, NEW val \in Vals, NEW owner \in Owners,
         CanWrite(mem, id, owner), mem' = Written(mem, id, val, owner)
  PROVE  StoreInv'
BY WrittenListed, WrittenHistory DEF StoreInv, OrderExact, LogExplains, LogLegal

\* So does a legal delete.
LEMMA DeleteKeeps ==
  ASSUME mem \in Memory, StoreInv, UNCHANGED origin,
         NEW id \in Ids, NEW owner \in Owners,
         CanDelete(mem, id, owner), mem' = Deleted(mem, id, owner)
  PROVE  StoreInv'
<1>1. mem.rows[id] # Absent BY DEF CanDelete, Live
<1> QED BY <1>1, DeletedListed, DeletedHistory DEF StoreInv, OrderExact, LogExplains, LogLegal

\* Every step keeps the three.
LEMMA StoreStep ==
  ASSUME KvInv, [Next]_vars
  PROVE  StoreInv'
<1> USE DEF KvInv
<1>1. mem \in Memory /\ StoreInv BY DEF TypeOK, StoreInv
<1>2. CASE \E id \in Ids, owner \in Owners : Delete(id, owner)
  BY <1>1, <1>2, DeleteKeeps DEF Delete
<1>3. CASE \E id \in Ids, owner \in Owners, val \in Vals : Write(id, val, owner)
  BY <1>1, <1>3, WriteKeeps DEF Write
<1>4. CASE BulkRow
  <2>1. todo \in Seq(Item) /\ todo # <<>> /\ by \in Owners BY <1>4 DEF BulkRow, TypeOK
  <2>2. Head(todo) = todo[1] /\ 1 \in DOMAIN todo /\ todo[1] \in Item BY <2>1
  <2>3. CanWrite(mem, Head(todo).id, by) BY <1>4, <2>2 DEF BulkRow, BulkIsWrites
  <2>4. Head(todo).id \in Ids /\ Head(todo).val \in Vals BY <2>2 DEF Item
  <2> QED BY <1>1, <1>4, <2>1, <2>3, <2>4, WriteKeeps DEF BulkRow
<1>5. CASE CascadeDelete
  <2>1. todo \in Seq(Ids) /\ todo # <<>> /\ by \in Owners BY <1>5 DEF CascadeDelete, TypeOK
  <2>2. Head(todo) \in Ids BY <2>1
  <2> QED BY <1>1, <1>5, <2>1, <2>2, DeleteKeeps DEF CascadeDelete
<1>6. CASE RestoreEnd
  BY <1>6, BlankHistory
  DEF RestoreEnd, RestoreInv, StoreInv, OrderExact, LogExplains, LogLegal
<1>7. CASE Crash
  BY <1>7, EmptyType, BlankHistory DEF Crash, StoreInv, OrderExact, LogExplains, LogLegal
<1>8. CASE \E p \in Paths : Load(p)
  <2>1. PICK p \in Paths : Load(p) BY <1>8
  <2>2. facts[p] \in Seq(FactRow) BY <2>1 DEF TypeOK, Load, Loadable
  <2>3. LogAt(p) \in Seq(Entry) BY KvMemoryAssumption DEF LogAt, TypeOK, AuditFile
  <2>4. OrderExact'
    BY <2>1, <2>2, <2>3, FromFilesListed DEF Load, Loadable, Loaded, FilesInv, OrderExact
  <2>5. LogExplains' /\ LogLegal'
    BY <2>1 DEF Load, SavedInv, LogExplains, LogLegal
  <2> QED BY <2>4, <2>5 DEF StoreInv
<1>9. CASE UNCHANGED << mem, origin >>
  BY <1>1, <1>9 DEF StoreInv, OrderExact, LogExplains, LogLegal
<1>10. \/ \E id \in Ids, owner \in Owners :
             Delete(id, owner) \/ \E val \in Vals : Write(id, val, owner)
       \/ BulkRow \/ CascadeDelete \/ RestoreEnd \/ Crash \/ \E p \in Paths : Load(p)
       \/ UNCHANGED << mem, origin >>
  BY DEF Next, vars, BulkBegin, BulkEnd, CascadeBegin, CascadeSkip, CascadeEnd, RestoreBegin,
         RestoreRow, RestoreSkip, SaveFacts, CloseFacts, CreateAudit, SaveEntry, SaveEnd, SaveFails
<1> QED BY <1>2, <1>3, <1>4, <1>5, <1>6, <1>7, <1>8, <1>9, <1>10

-----------------------------------------------------------------------------
(* The methods in progress: BulkIsWrites, ReceiptExact and RestoreInv.      *)

CallInv == BulkIsWrites /\ ReceiptExact /\ RestoreInv

\* No call in progress: nothing to keep.
LEMMA CallIdle ==
  ASSUME pc' \notin {"bulk", "cascade", "restore"}, fresh' = Empty
  PROVE  CallInv'
BY DEF CallInv, BulkIsWrites, ReceiptExact, RestoreInv

\* The first element of a sequence and the rest of it.
LEMMA HeadAndTail ==
  ASSUME NEW S, NEW s \in Seq(S), s # <<>>
  PROVE  /\ Head(s) = s[1] /\ 1 \in DOMAIN s /\ Head(s) \in S /\ Tail(s) \in Seq(S)
         /\ \A n \in DOMAIN Tail(s) : n + 1 \in DOMAIN s /\ Tail(s)[n] = s[n + 1]
         /\ \A n \in DOMAIN s : n # 1 => n - 1 \in DOMAIN Tail(s) /\ Tail(s)[n - 1] = s[n]
         /\ DOMAIN s \subseteq Nat /\ DOMAIN Tail(s) \subseteq Nat \ {0}
OBVIOUS

\* What a sequence holds, its first element or the rest holds.
LEMMA TailHolds ==
  ASSUME NEW S, NEW s \in Seq(S), s # <<>>, NEW x, x # Head(s),
         \E n \in DOMAIN s : s[n] = x
  PROVE  \E n \in DOMAIN Tail(s) : Tail(s)[n] = x
<1>1. PICK n \in DOMAIN s : s[n] = x OBVIOUS
<1>2. n # 1 BY <1>1, HeadAndTail
<1>3. n - 1 \in DOMAIN Tail(s) /\ Tail(s)[n - 1] = x BY <1>1, <1>2, HeadAndTail
<1> QED BY <1>3

\* Of a sequence without repetitions, the rest does not repeat the first.
LEMMA DistinctTail ==
  ASSUME NEW S, NEW s \in Seq(S), s # <<>>, Distinct(s)
  PROVE  /\ Distinct(Tail(s))
         /\ \A n \in DOMAIN Tail(s) : Tail(s)[n] # Head(s)
<1>1. ASSUME NEW n \in DOMAIN Tail(s), NEW k \in DOMAIN Tail(s), Tail(s)[n] = Tail(s)[k]
      PROVE  n = k
  <2>1. n + 1 \in DOMAIN s /\ k + 1 \in DOMAIN s /\ s[n + 1] = s[k + 1] BY <1>1, HeadAndTail
  <2>2. n + 1 = k + 1 BY <2>1 DEF Distinct
  <2> QED BY <2>2, HeadAndTail
<1>2. ASSUME NEW n \in DOMAIN Tail(s), Tail(s)[n] = Head(s)
      PROVE  FALSE
  <2>1. n + 1 \in DOMAIN s /\ 1 \in DOMAIN s /\ s[n + 1] = s[1] BY <1>2, HeadAndTail
  <2>2. n + 1 = 1 BY <2>1 DEF Distinct
  <2> QED BY <2>2, HeadAndTail
<1> QED BY <1>1, <1>2 DEF Distinct

\* Batches.
LEMMA BulkStep ==
  ASSUME KvInv, \/ \E owner \in Owners, batch \in Seq(Item) : BulkBegin(batch, owner)
                \/ BulkRow
  PROVE  CallInv'
<1> USE DEF KvInv
<1>1. CASE \E owner \in Owners, batch \in Seq(Item) : BulkBegin(batch, owner)
  BY <1>1 DEF BulkBegin, Idle, CallInv, BulkIsWrites, ReceiptExact, RestoreInv
<1>2. CASE BulkRow
  <2>1. todo \in Seq(Item) /\ todo # <<>> /\ by \in Owners /\ mem \in Memory
    BY <1>2 DEF BulkRow, TypeOK
  <2>2. \A n \in DOMAIN todo : todo[n].id \in Ids
    <3>1. \A n \in DOMAIN todo : todo[n] \in Item BY <2>1
    <3> QED BY <3>1 DEF Item
  <2>3. ASSUME NEW n \in DOMAIN todo'
        PROVE  CanWrite(mem', todo'[n].id, by')
    <3> DEFINE id == todo'[n].id
               head == Head(todo).id
               row == [val |-> Head(todo).val, owner |-> by, deleted |-> FALSE]
    <3>1. id \in Ids /\ CanWrite(mem, id, by)
      BY <1>2, <2>1, <2>2, HeadAndTail DEF BulkRow, BulkIsWrites
    <3>2. head \in Ids BY <2>1, <2>2, HeadAndTail
    <3>3. mem'.rows = [mem.rows EXCEPT ![head] = row] /\ by' = by
      BY <1>2 DEF BulkRow, Written
    <3>4. row.owner = by OBVIOUS
    <3> HIDE DEF id, head, row
    <3>5. mem'.rows[id] = IF id = head THEN row ELSE mem.rows[id]
      BY <2>1, <3>1, <3>2, <3>3 DEF Memory
    <3>6. CanWrite(mem', id, by) BY <3>1, <3>4, <3>5 DEF CanWrite, Live
    <3> QED BY <3>3, <3>6 DEF id
  <2>4. pc' = "bulk" /\ fresh' = Empty BY <1>2 DEF BulkRow, RestoreInv
  <2> QED BY <2>3, <2>4 DEF CallInv, BulkIsWrites, ReceiptExact, RestoreInv
<1> QED BY <1>1, <1>2

\* Cascades.
LEMMA CascadeStep ==
  ASSUME KvInv, \/ \E owner \in Owners, ids \in Seq(Ids) : CascadeBegin(ids, owner)
                \/ CascadeDelete \/ CascadeSkip
  PROVE  CallInv'
<1> USE DEF KvInv
<1>0. Len(mem.log) \in Nat /\ mem.log \in Seq(Entry) BY DEF TypeOK, Memory
<1>1. CASE \E owner \in Owners, ids \in Seq(Ids) : CascadeBegin(ids, owner)
  BY <1>0, <1>1 DEF CascadeBegin, Idle, CallInv, BulkIsWrites, ReceiptExact, RestoreInv
<1>2. CASE CascadeDelete
  <2>1. /\ todo \in Seq(Ids) /\ todo # <<>> /\ by \in Owners
        /\ removed \in Seq(Ids) /\ since \in Nat
    BY <1>2 DEF CascadeDelete, TypeOK
  <2> DEFINE e == [op |-> "delete", id |-> Head(todo), owner |-> by]
  <2>2. Head(todo) \in Ids BY <2>1
  <2>3. e \in Entry BY <2>1, <2>2 DEF Entry
  <2>4. mem'.log = Append(mem.log, e) /\ removed' = Append(removed, Head(todo))
        /\ since' = since /\ by' = by
    BY <1>2 DEF CascadeDelete, Deleted
  <2>5. e = [op |-> "delete", id |-> Head(todo), owner |-> by] OBVIOUS
  <2> HIDE DEF e
  <2>6. Len(mem.log) = since + Len(removed)
        /\ \A n \in DOMAIN removed :
             mem.log[since + n] = [op |-> "delete", id |-> removed[n], owner |-> by]
    BY <1>2 DEF CascadeDelete, ReceiptExact
  <2>7. Len(mem'.log) = since' + Len(removed')
    <3>1. Len(Append(mem.log, e)) = Len(mem.log) + 1 BY <1>0, <2>3
    <3>2. Len(Append(removed, Head(todo))) = Len(removed) + 1 /\ Len(removed) \in Nat
      BY <2>1, <2>2
    <3> QED BY <2>1, <2>4, <2>6, <3>1, <3>2
  <2>8. ASSUME NEW n \in DOMAIN removed'
        PROVE  mem'.log[since' + n] = [op |-> "delete", id |-> removed'[n], owner |-> by']
    <3>1. CASE n \in DOMAIN removed
      <4>1. removed'[n] = removed[n] /\ since + n \in DOMAIN mem.log
        BY <1>0, <2>1, <2>2, <2>4, <2>6, <3>1
      <4>2. mem'.log[since + n] = mem.log[since + n] BY <1>0, <2>3, <2>4, <4>1
      <4> QED BY <2>4, <2>6, <3>1, <4>1, <4>2
    <3>2. CASE n \notin DOMAIN removed
      <4>1. n = Len(removed) + 1 /\ removed'[n] = Head(todo) BY <2>1, <2>2, <2>4, <3>2
      <4>2. since + n = Len(mem.log) + 1 BY <1>0, <2>1, <2>6, <4>1
      <4>3. mem'.log[since + n] = e BY <1>0, <2>3, <2>4, <4>2
      <4> QED BY <2>4, <2>5, <4>1, <4>3
    <3> QED BY <3>1, <3>2
  <2>9. pc' = "cascade" /\ fresh' = Empty BY <1>2 DEF CascadeDelete, RestoreInv
  <2> QED BY <2>7, <2>8, <2>9 DEF CallInv, BulkIsWrites, ReceiptExact, RestoreInv
<1>3. CASE CascadeSkip
  BY <1>3 DEF CascadeSkip, CallInv, BulkIsWrites, ReceiptExact, RestoreInv
<1> QED BY <1>1, <1>2, <1>3

\* Restores.
LEMMA RestoreStep ==
  ASSUME KvInv, RestoreBegin \/ RestoreRow \/ RestoreSkip
  PROVE  CallInv'
<1> USE DEF KvInv
<1>0. pc' = "restore" => BulkIsWrites' /\ ReceiptExact' BY DEF BulkIsWrites, ReceiptExact
<1>1. CASE RestoreBegin
  <2>1. /\ pc' = "restore" /\ todo' = mem.order /\ mem' = mem
        /\ fresh' = Empty
    BY <1>1 DEF RestoreBegin, Idle, RestoreInv
  <2>2. Distinct(mem.order) BY DEF OrderExact, Listed, Distinct
  <2>3. \A id \in Ids : Live(mem, id) => \E n \in DOMAIN mem.order : mem.order[n] = id
    BY DEF OrderExact, Listed, Live
  <2>4. \A id \in Ids : Empty.rows[id] = Absent BY DEF Empty
  <2>5. RestoreInv' BY <2>1, <2>2, <2>3, <2>4, EmptyType DEF RestoreInv
  <2> QED BY <1>0, <2>1, <2>5 DEF CallInv
<1>2. CASE RestoreRow
  <2> DEFINE head == Head(todo)
  <2>1. /\ todo \in Seq(Ids) /\ todo # <<>> /\ pc = "restore" /\ pc' = "restore"
        /\ mem' = mem /\ todo' = Tail(todo) /\ fresh' = Copied(fresh, mem, head)
        /\ Live(mem, head) /\ fresh.rows[head] = Absent
        /\ mem \in Memory /\ fresh \in Memory
    BY <1>2 DEF RestoreRow, TypeOK
  <2>2. head \in Ids BY <2>1, HeadAndTail
  <2>3. /\ fresh.log = <<>> /\ Listed(fresh) /\ Distinct(todo) BY <2>1 DEF RestoreInv
  <2>4. Distinct(Tail(todo)) /\ \A n \in DOMAIN Tail(todo) : Tail(todo)[n] # head
    BY <2>1, <2>3, DistinctTail
  <2>5. fresh'.log = <<>> /\ Listed(fresh')
    <3>1. mem.rows[head] # Absent BY <2>1 DEF Live
    <3>2. fresh'.log = fresh.log BY <2>1 DEF Copied
    <3> QED BY <2>1, <2>2, <2>3, <3>1, <3>2, CopiedListed
  <2>6. fresh'.rows[head] = mem.rows[head]
        /\ \A id \in Ids : id # head => fresh'.rows[id] = fresh.rows[id]
    BY <2>1, <2>2 DEF Copied, Memory
  <2>7. ASSUME NEW id \in Ids
        PROVE  \/ /\ fresh'.rows[id] = Absent
                  /\ Live(mem, id) => \E n \in DOMAIN Tail(todo) : Tail(todo)[n] = id
               \/ /\ Live(mem, id) /\ fresh'.rows[id] = mem.rows[id]
                  /\ \A n \in DOMAIN Tail(todo) : Tail(todo)[n] # id
    <3>1. CASE id = head BY <2>1, <2>4, <2>6, <3>1
    <3>2. CASE id # head
      <4>1. fresh'.rows[id] = fresh.rows[id] BY <2>6, <3>2
      <4>2. (\E n \in DOMAIN todo : todo[n] = id) => \E n \in DOMAIN Tail(todo) : Tail(todo)[n] = id
        BY <2>1, <3>2, TailHolds
      <4>3. (\A n \in DOMAIN todo : todo[n] # id) => \A n \in DOMAIN Tail(todo) : Tail(todo)[n] # id
        BY <2>1, HeadAndTail
      <4> QED BY <2>1, <4>1, <4>2, <4>3 DEF RestoreInv
    <3> QED BY <3>1, <3>2
  <2>8. RestoreInv' BY <2>1, <2>4, <2>5, <2>7 DEF RestoreInv
  <2> QED BY <1>0, <2>1, <2>8 DEF CallInv
<1>3. CASE RestoreSkip
  <2> DEFINE head == Head(todo)
  <2>1. /\ todo \in Seq(Ids) /\ todo # <<>> /\ pc = "restore" /\ pc' = "restore"
        /\ mem' = mem /\ todo' = Tail(todo) /\ fresh' = fresh /\ ~Live(mem, head)
    BY <1>3 DEF RestoreSkip, TypeOK
  <2>2. fresh.log = <<>> /\ Listed(fresh) /\ Distinct(todo) BY <2>1 DEF RestoreInv
  <2>3. Distinct(Tail(todo)) BY <2>1, <2>2, DistinctTail
  <2>4. ASSUME NEW id \in Ids
        PROVE  \/ /\ fresh.rows[id] = Absent
                  /\ Live(mem, id) => \E n \in DOMAIN Tail(todo) : Tail(todo)[n] = id
               \/ /\ Live(mem, id) /\ fresh.rows[id] = mem.rows[id]
                  /\ \A n \in DOMAIN Tail(todo) : Tail(todo)[n] # id
    <3>1. Live(mem, id) => id # head BY <2>1
    <3>2. Live(mem, id) /\ (\E n \in DOMAIN todo : todo[n] = id)
            => \E n \in DOMAIN Tail(todo) : Tail(todo)[n] = id
      BY <2>1, <3>1, TailHolds
    <3>3. (\A n \in DOMAIN todo : todo[n] # id) => \A n \in DOMAIN Tail(todo) : Tail(todo)[n] # id
      BY <2>1, HeadAndTail
    <3> QED BY <2>1, <3>2, <3>3 DEF RestoreInv
  <2>5. RestoreInv' BY <2>1, <2>2, <2>3, <2>4 DEF RestoreInv
  <2> QED BY <1>0, <2>1, <2>5 DEF CallInv
<1> QED BY <1>1, <1>2, <1>3

\* Every step keeps what the methods in progress rely on.
LEMMA CallStep ==
  ASSUME KvInv, [Next]_vars
  PROVE  CallInv'
<1> USE DEF KvInv
<1>1. CASE \/ \E owner \in Owners, batch \in Seq(Item) : BulkBegin(batch, owner)
           \/ BulkRow
  BY <1>1, BulkStep
<1>2. CASE \/ \E owner \in Owners, ids \in Seq(Ids) : CascadeBegin(ids, owner)
           \/ CascadeDelete \/ CascadeSkip
  BY <1>2, CascadeStep
<1>3. CASE RestoreBegin \/ RestoreRow \/ RestoreSkip BY <1>3, RestoreStep
<1>4. CASE UNCHANGED << mem, callVars >>
  BY <1>4 DEF callVars, CallInv, BulkIsWrites, ReceiptExact, RestoreInv
<1>5. CASE pc' \notin {"bulk", "cascade", "restore"} /\ fresh' = Empty BY <1>5, CallIdle
<1>6. \A owner \in Owners, batch \in BoundedSeq(Item, MaxBatch) : batch \in Seq(Item)
  BY KvMemoryAssumption DEF BoundedSeq, SeqOf
<1>7. \A owner \in Owners, ids \in BoundedSeq(Ids, MaxBatch) : ids \in Seq(Ids)
  BY KvMemoryAssumption DEF BoundedSeq, SeqOf
<1>8. pc # "restore" => fresh = Empty BY DEF RestoreInv
<1>9. \/ \E owner \in Owners, batch \in BoundedSeq(Item, MaxBatch) : BulkBegin(batch, owner)
      \/ BulkRow
      \/ \E owner \in Owners, ids \in BoundedSeq(Ids, MaxBatch) : CascadeBegin(ids, owner)
      \/ CascadeDelete \/ CascadeSkip
      \/ RestoreBegin \/ RestoreRow \/ RestoreSkip
      \/ UNCHANGED << mem, callVars >>
      \/ pc' \notin {"bulk", "cascade", "restore"} /\ fresh' = Empty
  <2>1. CASE \/ \E id \in Ids, owner \in Owners :
                  Delete(id, owner) \/ \E val \in Vals : Write(id, val, owner)
             \/ \E p \in Paths : Load(p)
    BY <1>8, <2>1 DEF Delete, Write, Load, Idle, callVars
  <2>2. CASE BulkEnd \/ CascadeEnd \/ RestoreEnd \/ SaveEnd \/ SaveFails \/ Crash
    BY <2>2 DEF BulkEnd, CascadeEnd, RestoreEnd, SaveEnd, SaveFails, Crash, Return
  <2>3. CASE (\E p \in Paths : SaveFacts(p)) \/ CloseFacts \/ CreateAudit \/ SaveEntry
    BY <1>8, <2>3 DEF SaveFacts, CloseFacts, CreateAudit, SaveEntry, Idle, callVars
  <2>4. CASE UNCHANGED vars BY <2>4 DEF vars
  <2> QED BY <2>1, <2>2, <2>3, <2>4 DEF Next
<1> QED BY <1>1, <1>2, <1>3, <1>4, <1>5, <1>6, <1>7, <1>9

-----------------------------------------------------------------------------
(* The files: FilesInv, SavingInv and SavedInv.                             *)

FileInv == FilesInv /\ SavingInv /\ SavedInv

\* A finished save is as good as its two files and the memory it was of.
LEMMA SavedCarries ==
  ASSUME SavedInv,
         \A p \in Paths : saved'[p] # None =>
           saved'[p] = saved[p] /\ facts'[p] = facts[p] /\ audit'[Stem(p)] = audit[Stem(p)]
  PROVE  SavedInv'
BY DEF SavedInv, Loadable, Loaded, LogAt

\* A step that leaves the files alone and no save in progress keeps the three.
LEMMA DiskQuiet ==
  ASSUME KvInv, UNCHANGED diskVars, pc' \notin {"facts", "audit", "entries"}
  PROVE  FileInv'
<1>1. FilesInv' BY DEF KvInv, FilesInv, diskVars
<1>2. SavingInv' BY DEF SavingInv
<1>3. SavedInv' BY SavedCarries DEF KvInv, diskVars
<1> QED BY <1>1, <1>2, <1>3 DEF FileInv

\* So does one that may tear the audit file of the save in progress.
LEMMA TearStep ==
  ASSUME KvInv, MayTear, UNCHANGED << facts, saved >>, pc' = "idle"
  PROVE  FileInv'
<1>1. FilesInv' /\ SavingInv' BY DEF KvInv, FilesInv, SavingInv
<1>2. ASSUME NEW p \in Paths, saved[p] # None
      PROVE  audit'[Stem(p)] = audit[Stem(p)]
  <2>1. CASE UNCHANGED audit BY <2>1
  <2>2. CASE pc = "entries" /\ audit' = [audit EXCEPT ![Stem(path)].torn = TRUE]
    <3>1. path \in Paths /\ saved[path] = None BY <2>2 DEF KvInv, TypeOK, SavingInv
    <3>2. Stem(p) # Stem(path) BY <1>2, <3>1, OwnAudit
    <3> QED BY <2>2, <3>2, KvMemoryAssumption DEF KvInv, TypeOK
  <2> QED BY <2>1, <2>2 DEF MayTear
<1>3. SavedInv' BY <1>2, SavedCarries DEF KvInv
<1> QED BY <1>1, <1>3 DEF FileInv

\* The steps of a save.
LEMMA SaveStep ==
  ASSUME KvInv, \/ \E p \in Paths : SaveFacts(p)
                \/ CloseFacts \/ CreateAudit \/ SaveEntry \/ SaveEnd \/ SaveFails
  PROVE  FileInv'
<1> USE DEF KvInv
<1>1. CASE \E p \in Paths : SaveFacts(p)
  <2>1. PICK q \in Paths : SaveFacts(q) BY <1>1
  <2>2. /\ pc' = "facts" /\ path' = q /\ audit' = audit
        /\ saved' = [saved EXCEPT ![q] = None] /\ facts' = [facts EXCEPT ![q] = Torn]
        /\ saved \in [Paths -> Save \cup {None}]
        /\ facts \in [Paths -> Seq(FactRow) \cup {NoFile, Torn}]
    BY <2>1 DEF SaveFacts, TypeOK
  <2>3. SavedInv' BY <2>2, SavedCarries
  <2>4. SavingInv' BY <2>2 DEF SavingInv
  <2>5. FilesInv' BY <2>2 DEF FilesInv
  <2> QED BY <2>3, <2>4, <2>5 DEF FileInv
<1>2. CASE CloseFacts
  <2>1. /\ pc = "facts" /\ pc' = "audit" /\ path' = path /\ mem' = mem
        /\ audit' = audit /\ saved' = saved
        /\ facts' = [facts EXCEPT ![path] = FactsOf(mem)]
        /\ path \in Paths /\ mem \in Memory
        /\ facts \in [Paths -> Seq(FactRow) \cup {NoFile, Torn}]
    BY <1>2 DEF CloseFacts, TypeOK
  <2>2. saved[path] = None BY <2>1 DEF SavingInv
  <2>3. SavedInv' BY <2>1, <2>2, SavedCarries
  <2>4. SavingInv' BY <2>1, <2>2 DEF SavingInv, FactsOf
  <2>5. \A n, k \in DOMAIN FactsOf(mem) : FactsOf(mem)[n].id = FactsOf(mem)[k].id => n = k
    BY <2>1, FactsRoundTrip DEF OrderExact
  <2>6. FilesInv' BY <2>1, <2>5 DEF FilesInv
  <2> QED BY <2>3, <2>4, <2>6 DEF FileInv
<1>3. CASE CreateAudit
  <2> DEFINE blank == [entries |-> <<>>, torn |-> FALSE]
  <2>1. /\ pc = "audit" /\ pc' = "entries" /\ path' = path /\ mem' = mem
        /\ facts' = facts /\ saved' = saved
        /\ audit' = [audit EXCEPT ![Stem(path)] = blank]
        /\ path \in Paths /\ Stem(path) \in Stems
        /\ audit \in [Stems -> AuditFile \cup {NoFile}]
    BY <1>3, KvMemoryAssumption DEF CreateAudit, TypeOK
  <2>2. saved[path] = None /\ facts[path] = FactsOf(mem) BY <2>1 DEF SavingInv
  <2>3. \A p \in Paths : p # path => audit'[Stem(p)] = audit[Stem(p)] /\ Stem(p) \in Stems
    BY <2>1, OwnAudit, KvMemoryAssumption
  <2>4. SavedInv' BY <2>1, <2>2, <2>3, SavedCarries
  <2>5. blank \in AuditFile /\ blank.entries = <<>> /\ blank.torn = FALSE BY DEF AuditFile
  <2> HIDE DEF blank
  <2>6. audit'[Stem(path)] = blank BY <2>1
  <2>7. Entries' = <<>> BY <2>1, <2>5, <2>6 DEF Entries
  <2>8. Len(mem.log) \in Nat BY DEF TypeOK, Memory
  <2>9. SavingInv'
    BY <2>1, <2>2, <2>5, <2>6, <2>7, <2>8, KvMemoryAssumption DEF SavingInv, FactsOf, AuditFile
  <2>10. FilesInv' BY <2>1 DEF FilesInv
  <2> QED BY <2>4, <2>9, <2>10 DEF FileInv
<1>4. CASE SaveEntry
  <2> DEFINE next == mem.log[Len(Entries) + 1]
             file == [audit[Stem(path)] EXCEPT !.entries = Append(Entries, next)]
  <2>1. /\ pc = "entries" /\ pc' = pc /\ path' = path /\ mem' = mem
        /\ facts' = facts /\ saved' = saved
        /\ audit' = [audit EXCEPT ![Stem(path)] = file]
        /\ Len(Entries) < Len(mem.log)
        /\ path \in Paths /\ Stem(path) \in Stems
        /\ audit \in [Stems -> AuditFile \cup {NoFile}]
    BY <1>4, KvMemoryAssumption DEF SaveEntry, TypeOK, callVars, Entries
  <2>2. /\ saved[path] = None /\ facts[path] = FactsOf(mem)
        /\ audit[Stem(path)] # NoFile /\ ~audit[Stem(path)].torn
        /\ \A n \in DOMAIN Entries : Entries[n] = mem.log[n]
    BY <2>1 DEF SavingInv
  <2>3. \A p \in Paths : p # path => audit'[Stem(p)] = audit[Stem(p)] /\ Stem(p) \in Stems
    BY <2>1, OwnAudit, KvMemoryAssumption
  <2>4. SavedInv' BY <2>1, <2>2, <2>3, SavedCarries
  <2>5. audit[Stem(path)] \in AuditFile BY <2>1, <2>2
  <2>6. mem.log \in Seq(Entry) /\ Entries \in Seq(Entry) BY <2>5 DEF TypeOK, Memory, AuditFile, Entries
  <2>7. next \in Entry BY <2>1, <2>6
  <2>8. /\ file \in AuditFile /\ file.torn = audit[Stem(path)].torn
        /\ file.entries = Append(Entries, next)
    <3>1. Append(Entries, next) \in Seq(Entry) BY <2>6, <2>7
    <3> HIDE DEF next
    <3> QED BY <2>5, <3>1 DEF AuditFile
  <2>9. next = mem.log[Len(Entries) + 1] OBVIOUS
  <2> HIDE DEF file, next
  <2>10. audit'[Stem(path)] = file BY <2>1
  <2>11. Entries' = Append(Entries, next) BY <2>1, <2>8, <2>10 DEF Entries
  <2>12. Len(Entries') <= Len(mem'.log) BY <2>1, <2>6, <2>7, <2>11
  <2>13. \A n \in DOMAIN Entries' : Entries'[n] = mem'.log[n]
    <3> TAKE n \in DOMAIN Entries'
    <3>1. CASE n \in DOMAIN Entries
      <4>1. Entries'[n] = Entries[n] BY <2>6, <2>7, <2>11, <3>1
      <4> QED BY <2>1, <2>2, <3>1, <4>1
    <3>2. CASE n \notin DOMAIN Entries
      <4>1. n = Len(Entries) + 1 /\ Entries'[n] = next BY <2>6, <2>7, <2>11, <3>2
      <4> QED BY <2>1, <2>9, <4>1
    <3> QED BY <3>1, <3>2
  <2>14. file # NoFile BY <2>8, KvMemoryAssumption DEF AuditFile
  <2>15. SavingInv'
    BY <2>1, <2>2, <2>8, <2>10, <2>12, <2>13, <2>14 DEF SavingInv, FactsOf
  <2>16. FilesInv' BY <2>1 DEF FilesInv
  <2> QED BY <2>4, <2>15, <2>16 DEF FileInv
<1>5. CASE SaveEnd
  <2> DEFINE save == [mem |-> mem, origin |-> origin]
  <2>1. /\ pc = "entries" /\ pc' = "idle" /\ facts' = facts /\ audit' = audit
        /\ Len(Entries) = Len(mem.log) /\ path \in Paths
        /\ saved' = [saved EXCEPT ![path] = save]
        /\ saved \in [Paths -> Save \cup {None}]
        /\ audit \in [Stems -> AuditFile \cup {NoFile}]
        /\ mem \in Memory /\ Stem(path) \in Stems
    BY <1>5, KvMemoryAssumption DEF SaveEnd, Return, TypeOK
  <2>2. save.mem = mem /\ save.origin = origin OBVIOUS
  <2>3. /\ facts[path] = FactsOf(mem)
        /\ audit[Stem(path)] # NoFile /\ ~audit[Stem(path)].torn
        /\ \A n \in DOMAIN Entries : Entries[n] = mem.log[n]
    BY <2>1 DEF SavingInv
  <2>4. mem.log \in Seq(Entry) /\ Entries \in Seq(Entry)
    BY <2>1, <2>3 DEF Memory, AuditFile, Entries
  <2>5. Entries = mem.log BY <2>1, <2>3, <2>4
  <2>6. FactsOf(mem) \in Seq([id : Ids, row : Row]) /\ FromFiles(FactsOf(mem), mem.log) = mem
    BY <2>1, FactsRoundTrip DEF OrderExact, FactRow
  <2>7. Loadable(path) /\ Loaded(path) = mem
    <3>1. FactsOf(mem) \notin {NoFile, Torn} BY <2>6, KvMemoryAssumption
    <3>2. LogAt(path) = mem.log BY <2>3, <2>5 DEF LogAt, Entries
    <3> QED BY <2>3, <2>6, <3>1, <3>2 DEF Loadable, Loaded
  <2>8. origin # None => Explains(mem, origin) /\ Lawful(mem.log) BY DEF LogExplains, LogLegal
  <2> HIDE DEF save
  <2>9. SavedInv'
    <3> SUFFICES ASSUME NEW p \in Paths, saved'[p] # None
                 PROVE  /\ Loadable(p) /\ Loaded(p) = saved'[p].mem
                        /\ saved'[p].origin # None =>
                             Explains(saved'[p].mem, saved'[p].origin) /\ Lawful(saved'[p].mem.log)
      BY <2>1 DEF SavedInv, Loadable, Loaded, LogAt
    <3>1. CASE p = path
      <4>1. saved'[p] = save BY <2>1, <3>1
      <4> QED BY <2>2, <2>7, <2>8, <3>1, <4>1
    <3>2. CASE p # path
      <4>1. saved'[p] = saved[p] BY <2>1, <3>2
      <4> QED BY <4>1 DEF SavedInv
    <3> QED BY <3>1, <3>2
  <2>10. FilesInv' /\ SavingInv' BY <2>1 DEF FilesInv, SavingInv
  <2> QED BY <2>9, <2>10 DEF FileInv
<1>6. CASE SaveFails BY <1>6, TearStep DEF SaveFails, Return
<1> QED BY <1>1, <1>2, <1>3, <1>4, <1>5, <1>6

\* Every step keeps what the files promise.
LEMMA FileStep ==
  ASSUME KvInv, [Next]_vars
  PROVE  FileInv'
<1>1. CASE \/ \E p \in Paths : SaveFacts(p)
           \/ CloseFacts \/ CreateAudit \/ SaveEntry \/ SaveEnd \/ SaveFails
  BY <1>1, SaveStep
<1>2. CASE UNCHANGED diskVars /\ pc' \notin {"facts", "audit", "entries"}
  BY <1>2, DiskQuiet
<1>3. CASE UNCHANGED vars
  <2>1. SavedInv' BY <1>3, SavedCarries DEF KvInv, vars, diskVars
  <2>2. FilesInv' /\ SavingInv'
    BY <1>3 DEF KvInv, FilesInv, SavingInv, Entries, vars, callVars, diskVars, FactsOf
  <2> QED BY <2>1, <2>2 DEF FileInv
<1>4. CASE \/ \E id \in Ids, owner \in Owners :
                Delete(id, owner) \/ \E val \in Vals : Write(id, val, owner)
           \/ \E owner \in Owners :
                \/ \E batch \in BoundedSeq(Item, MaxBatch) : BulkBegin(batch, owner)
                \/ \E ids \in BoundedSeq(Ids, MaxBatch) : CascadeBegin(ids, owner)
           \/ BulkRow \/ BulkEnd \/ CascadeDelete \/ CascadeSkip \/ CascadeEnd
           \/ RestoreBegin \/ RestoreRow \/ RestoreSkip \/ RestoreEnd
           \/ \E p \in Paths : Load(p)
  BY <1>2, <1>4 DEF Delete, Write, BulkBegin, BulkRow, BulkEnd, CascadeBegin, CascadeDelete,
     CascadeSkip, CascadeEnd, RestoreBegin, RestoreRow, RestoreSkip, RestoreEnd, Load,
     Return, Idle, callVars
<1>5. CASE Crash BY <1>5, TearStep DEF Crash, Return
<1> QED BY <1>1, <1>3, <1>4, <1>5 DEF Next

-----------------------------------------------------------------------------
(* The order a restore copies in: CopyInv.                                  *)

\* One id more of a scan comes last, if its row is live.
LEMMA LiveOfNext ==
  ASSUME NEW m, NEW ids \in Seq(Ids), NEW id \in Ids
  PROVE  LiveOf(m, Append(ids, id)) =
           IF Live(m, id) THEN Append(LiveOf(m, ids), id) ELSE LiveOf(m, ids)
<1> DEFINE kept == {n \in DOMAIN ids : Live(m, ids[n])}
           next == {n \in DOMAIN Append(ids, id) : Live(m, Append(ids, id)[n])}
<1>1. /\ Len(ids) \in Nat /\ DOMAIN ids = 1..Len(ids)
      /\ DOMAIN Append(ids, id) = 1..(Len(ids) + 1)
      /\ \A n \in 1..Len(ids) : Append(ids, id)[n] = ids[n]
      /\ Append(ids, id)[Len(ids) + 1] = id
  BY LenProperties, AppendProperties
<1>2. ~ Live(m, id) => next = kept
  BY <1>1
<1>3. Live(m, id) => next = kept \cup {Len(ids) + 1}
  BY <1>1
<1>4. kept \in SUBSET (DOMAIN ids)
  OBVIOUS
<1>5. /\ LiveOf(m, ids) = Select(ids, kept)
      /\ LiveOf(m, Append(ids, id)) = Select(Append(ids, id), next)
  BY DEF LiveOf
<1> HIDE DEF kept, next
<1>6. Select(Append(ids, id), kept) = Select(ids, kept)
  BY <1>4, SelectWithout
<1>7. Select(Append(ids, id), kept \cup {Len(ids) + 1}) = Append(Select(ids, kept), id)
  BY <1>4, SelectWith
<1> QED BY <1>2, <1>3, <1>5, <1>6, <1>7

\* A restore that has not begun to copy has copied nothing.
LEMMA LiveOfNone ==
  ASSUME NEW m
  PROVE  LiveOf(m, << >>) = << >>
<1>1. {n \in DOMAIN << >> : Live(m, << >>[n])} = {}
  OBVIOUS
<1> QED BY <1>1, SelectEmpty DEF LiveOf

\* One id further, the restore has copied what one id more of the scan makes.
LEMMA CopyNext ==
  ASSUME TypeOK, CopyInv, pc = "restore", todo # << >>
  PROVE  /\ Head(todo) \in Ids
         /\ \E done \in 0..Len(mem.order) :
              /\ Tail(todo) = SubSeq(mem.order, done + 1, Len(mem.order))
              /\ LiveOf(mem, SubSeq(mem.order, 1, done)) =
                   IF Live(mem, Head(todo)) THEN Append(fresh.order, Head(todo)) ELSE fresh.order
<1>1. PICK order \in Seq(Ids) : order = mem.order
  BY DEF TypeOK, Memory
<1>2. PICK done \in 0..Len(order) : /\ todo = SubSeq(order, done + 1, Len(order))
                                   /\ fresh.order = LiveOf(mem, SubSeq(order, 1, done))
  BY <1>1 DEF CopyInv
<1>3. done + 1 \in 1..Len(order) /\ Len(order) \in Nat
  <2>1. CASE done = Len(order)
    BY <1>2, <2>1, LenProperties, SubSeqProperties
  <2> QED BY <1>2, <2>1, LenProperties
<1>4. /\ Head(todo) = order[done + 1]
      /\ Tail(todo) = SubSeq(order, done + 2, Len(order))
  BY <1>2, <1>3, SubSeqProperties, HeadTailProperties
<1>5. /\ SubSeq(order, 1, done + 1) = Append(SubSeq(order, 1, done), order[done + 1])
      /\ SubSeq(order, 1, done) \in Seq(Ids) /\ order[done + 1] \in Ids
  BY <1>3, SubSeqProperties, AppendProperties, ElementOfSeq
<1>6. LiveOf(mem, SubSeq(order, 1, done + 1)) =
        IF Live(mem, Head(todo)) THEN Append(fresh.order, Head(todo)) ELSE fresh.order
  BY <1>2, <1>4, <1>5, LiveOfNext
<1>7. (done + 1) + 1 = done + 2 /\ done + 1 \in 0..Len(order)
  BY <1>3
<1> QED BY <1>1, <1>4, <1>5, <1>6, <1>7

\* Every step keeps the order of the copy.
LEMMA CopyStep ==
  ASSUME KvInv, [Next]_vars
  PROVE  CopyInv'
<1> USE DEF KvInv
<1>1. ASSUME pc' # "restore"
      PROVE  CopyInv'
  BY <1>1 DEF CopyInv
<1>2. CASE RestoreBegin
  <2>1. /\ pc' = "restore" /\ todo' = mem.order /\ mem' = mem /\ fresh' = fresh /\ pc = "idle"
    BY <1>2 DEF RestoreBegin, Idle
  <2>2. fresh.order = << >>
    BY <2>1 DEF RestoreInv, Empty
  <2>3. PICK order \in Seq(Ids) : order = mem.order
    BY DEF TypeOK, Memory
  <2>4. /\ order = SubSeq(order, 0 + 1, Len(order)) /\ SubSeq(order, 1, 0) = << >>
        /\ 0 \in 0..Len(order)
    OBVIOUS
  <2>5. \E done \in 0..Len(order) :
          /\ order = SubSeq(order, done + 1, Len(order))
          /\ fresh.order = LiveOf(mem, SubSeq(order, 1, done))
    BY <2>2, <2>4, LiveOfNone
  <2> QED BY <2>1, <2>3, <2>5 DEF CopyInv
<1>3. CASE RestoreRow \/ RestoreSkip
  <2>1. /\ pc = "restore" /\ todo # << >> /\ pc' = pc /\ mem' = mem /\ todo' = Tail(todo)
        /\ fresh'.order = IF Live(mem, Head(todo)) THEN Append(fresh.order, Head(todo)) ELSE fresh.order
    <3>1. CASE RestoreRow
      BY <3>1 DEF RestoreRow, Copied
    <3>2. CASE RestoreSkip
      BY <3>2 DEF RestoreSkip
    <3> QED BY <1>3, <3>1, <3>2
  <2> QED BY <2>1, CopyNext DEF CopyInv
<1>4. CASE UNCHANGED vars
  BY <1>4 DEF vars, callVars, CopyInv
<1>5. CASE RestoreEnd \/ Crash \/ BulkEnd \/ CascadeEnd \/ SaveEnd \/ SaveFails
  BY <1>1, <1>5 DEF RestoreEnd, Crash, BulkEnd, CascadeEnd, SaveEnd, SaveFails, Return
<1>6. CASE \/ \E id \in Ids, owner \in Owners :
                Delete(id, owner) \/ \E val \in Vals : Write(id, val, owner)
           \/ \E owner \in Owners :
                \/ \E batch \in BoundedSeq(Item, MaxBatch) : BulkBegin(batch, owner)
                \/ \E ids \in BoundedSeq(Ids, MaxBatch) : CascadeBegin(ids, owner)
           \/ BulkRow \/ CascadeDelete \/ CascadeSkip
  BY <1>1, <1>6 DEF Delete, Write, BulkBegin, BulkRow, CascadeBegin, CascadeDelete, CascadeSkip,
     Idle, callVars
<1>7. CASE \/ \E p \in Paths : SaveFacts(p) \/ Load(p)
           \/ CloseFacts \/ CreateAudit \/ SaveEntry
  BY <1>1, <1>7 DEF SaveFacts, Load, CloseFacts, CreateAudit, SaveEntry, Idle, callVars
<1> QED BY <1>2, <1>3, <1>4, <1>5, <1>6, <1>7 DEF Next

-----------------------------------------------------------------------------
(* The invariant and what follows from it.                                  *)

\* A new memory and no files.
LEMMA InitInv == Init => KvInv
<1> SUFFICES ASSUME Init PROVE KvInv OBVIOUS
<1>1. mem = Empty /\ fresh = Empty /\ pc = "idle" /\ origin = Empty.rows BY DEF Init
<1>2. Empty.rows \in Rows BY EmptyType DEF Memory, Rows
<1>3. TypeOK BY <1>2, EmptyType, KvMemoryAssumption DEF Init, TypeOK
<1>4. OrderExact /\ LogExplains /\ LogLegal
  BY <1>1, EmptyType, BlankHistory DEF OrderExact, LogExplains, LogLegal
<1>5. BulkIsWrites /\ ReceiptExact /\ RestoreInv /\ CopyInv /\ SavingInv
  BY <1>1 DEF BulkIsWrites, ReceiptExact, RestoreInv, CopyInv, SavingInv
<1>6. FilesInv /\ SavedInv BY DEF Init, FilesInv, SavedInv
<1> QED BY <1>3, <1>4, <1>5, <1>6 DEF KvInv

\* Every step keeps the types.
LEMMA TypeStep ==
  ASSUME KvInv, [Next]_vars
  PROVE  TypeOK'
<1>1. \A owner \in Owners, batch \in BoundedSeq(Item, MaxBatch) : batch \in Seq(Item)
  BY KvMemoryAssumption DEF BoundedSeq, SeqOf
<1>2. \A owner \in Owners, ids \in BoundedSeq(Ids, MaxBatch) : ids \in Seq(Ids)
  BY KvMemoryAssumption DEF BoundedSeq, SeqOf
<1>3. CASE \/ \E id \in Ids, owner \in Owners :
                Delete(id, owner) \/ \E val \in Vals : Write(id, val, owner)
           \/ \E owner \in Owners, batch \in BoundedSeq(Item, MaxBatch) : BulkBegin(batch, owner)
           \/ BulkRow \/ BulkEnd
  BY <1>1, <1>3, StoreTypes
<1>4. CASE \/ \E owner \in Owners, ids \in BoundedSeq(Ids, MaxBatch) : CascadeBegin(ids, owner)
           \/ CascadeDelete \/ CascadeSkip \/ CascadeEnd
  BY <1>2, <1>4, CascadeTypes
<1>5. CASE RestoreBegin \/ RestoreRow \/ RestoreSkip \/ RestoreEnd BY <1>5, RestoreTypes
<1>6. CASE \/ \E p \in Paths : SaveFacts(p)
           \/ CloseFacts \/ CreateAudit \/ SaveEntry \/ SaveEnd \/ SaveFails
  BY <1>6, SaveTypes
<1>7. CASE Crash \/ \E p \in Paths : Load(p) BY <1>7, RestartTypes
<1>8. CASE UNCHANGED vars BY <1>8 DEF KvInv, TypeOK, vars, callVars, diskVars
<1> QED BY <1>3, <1>4, <1>5, <1>6, <1>7, <1>8 DEF Next

\* KvInv is an invariant: between any two steps of any method the memory, the
\* memory a restore builds and the files are as KvInvariant says.
THEOREM KvInvariantHolds == Spec => []KvInv
<1>1. KvInv /\ [Next]_vars => KvInv'
  BY TypeStep, StoreStep, CallStep, CopyStep, FileStep DEF KvInv, StoreInv, CallInv, FileInv
<1> QED BY <1>1, InitInv, PTL DEF Spec

\* The fields, locals and files have their types.
THEOREM TypeCorrect == Spec => []TypeOK
<1>1. KvInv => TypeOK BY DEF KvInv
<1> QED BY <1>1, KvInvariantHolds, PTL

\* The insertion order names every id that has a row exactly once, whatever
\* was overwritten, deleted, rewritten, restored or loaded (memory.rs: write,
\* bulk_insert, restore, load_parquet).
THEOREM OrderIsExact == Spec => []OrderExact
<1>1. KvInv => OrderExact BY DEF KvInv
<1> QED BY <1>1, KvInvariantHolds, PTL

\* The audit log accounts for every row's owner and tombstone.
THEOREM LogExplainsRows == Spec => []LogExplains
<1>1. KvInv => LogExplains BY DEF KvInv
<1> QED BY <1>1, KvInvariantHolds, PTL

\* The audit log is a history the owner rule allows.
THEOREM LogIsLegal == Spec => []LogLegal
<1>1. KvInv => LogLegal BY DEF KvInv
<1> QED BY <1>1, KvInvariantHolds, PTL

\* bulk_insert, which checks owners once before the first row, does what one
\* write for each row would do.
THEOREM BulkInsertIsWrites == Spec => []BulkIsWrites
<1>1. KvInv => BulkIsWrites BY DEF KvInv
<1> QED BY <1>1, KvInvariantHolds, PTL

\* The receipt of a cascade names exactly the facts it deleted.
THEOREM CascadeReceiptIsExact == Spec => []ReceiptExact
<1>1. KvInv => ReceiptExact BY DEF KvInv
<1> QED BY <1>1, KvInvariantHolds, PTL

\* What a finished save_parquet wrote, load_parquet reads back.
THEOREM SavedIsLoadedBack == Spec => []SavedIsLoaded
<1>1. KvInv => SavedIsLoaded BY DEF KvInv, SavedInv, SavedIsLoaded
<1> QED BY <1>1, KvInvariantHolds, PTL

\* A memory restored from a snapshot has the live rows of the one it was taken
\* of, in the order they scan in, and meets no id twice.
THEOREM RestoreIsExact == Spec => []RestoreExact
<1>1. KvInv => RestoreExact
  <2> SUFFICES ASSUME KvInv, pc = "restore"
               PROVE  /\ todo # <<>> /\ Live(mem, Head(todo)) => fresh.rows[Head(todo)] = Absent
                      /\ todo = <<>> =>
                           /\ \A id \in Ids : fresh.rows[id] = IF Live(mem, id) THEN mem.rows[id] ELSE Absent
                           /\ fresh.order = LiveOf(mem, mem.order)
    BY DEF RestoreExact
  <2>1. \A id \in Ids :
          \/ /\ fresh.rows[id] = Absent
             /\ Live(mem, id) => \E n \in DOMAIN todo : todo[n] = id
          \/ /\ Live(mem, id) /\ fresh.rows[id] = mem.rows[id]
             /\ \A n \in DOMAIN todo : todo[n] # id
    BY DEF KvInv, RestoreInv
  <2>2. ASSUME todo # << >>
        PROVE  fresh.rows[Head(todo)] = Absent
    <3>1. todo \in Seq(Ids)
      BY DEF KvInv, TypeOK
    <3>2. Head(todo) \in Ids /\ 1 \in DOMAIN todo /\ todo[1] = Head(todo)
      BY <2>2, <3>1
    <3> QED BY <2>1, <3>2
  <2>3. ASSUME todo = << >>, NEW id \in Ids
        PROVE  fresh.rows[id] = IF Live(mem, id) THEN mem.rows[id] ELSE Absent
    BY <2>1, <2>3
  <2>4. ASSUME todo = << >>
        PROVE  fresh.order = LiveOf(mem, mem.order)
    <3>1. PICK order \in Seq(Ids) : order = mem.order
      BY DEF KvInv, TypeOK, Memory
    <3>2. PICK done \in 0..Len(order) : /\ todo = SubSeq(order, done + 1, Len(order))
                                       /\ fresh.order = LiveOf(mem, SubSeq(order, 1, done))
      BY <3>1 DEF KvInv, CopyInv
    <3>3. done = Len(order) /\ SubSeq(order, 1, Len(order)) = order
      BY <2>4, <3>2, NothingLeft
    <3> QED BY <3>1, <3>2, <3>3
  <2> QED BY <2>2, <2>3, <2>4
<1> QED BY <1>1, KvInvariantHolds, PTL

-----------------------------------------------------------------------------
(* MerkleLog.                                                              *)

-----------------------------------------------------------------------------
(* Terms and levels.                                                        *)

\* A hash is of one thing only.
LEMMA HashFacts ==
  /\ \A l, r, s, t : Pair(l, r) = Pair(s, t) => l = s /\ r = t
  /\ \A a, b : Leaf(a) = Leaf(b) => a = b
  /\ \A a, l, r : Leaf(a) # Pair(l, r)
  /\ \A a : Leaf(a) # EmptyRoot
  /\ \A l, r : Pair(l, r) # EmptyRoot
<1>1. ASSUME NEW l, NEW r, NEW s, NEW t, Pair(l, r) = Pair(s, t)
      PROVE  l = s /\ r = t
  BY <1>1 DEF Pair
<1>2. ASSUME NEW a, NEW b, Leaf(a) = Leaf(b)
      PROVE  a = b
  BY <1>2 DEF Leaf
<1>3. ASSUME NEW a, NEW l, NEW r
      PROVE  Leaf(a) # Pair(l, r)
  <2>1. Len(Leaf(a)) = 1 /\ Len(Pair(l, r)) = 2
    BY DEF Leaf, Pair
  <2> QED BY <2>1
<1>4. ASSUME NEW a
      PROVE  Leaf(a) # EmptyRoot
  <2>1. Len(Leaf(a)) = 1 /\ Len(EmptyRoot) = 0
    BY DEF Leaf, EmptyRoot
  <2> QED BY <2>1
<1>5. ASSUME NEW l, NEW r
      PROVE  Pair(l, r) # EmptyRoot
  <2>1. Len(Pair(l, r)) = 2 /\ Len(EmptyRoot) = 0
    BY DEF Pair, EmptyRoot
  <2> QED BY <2>1
<1> QED BY <1>1, <1>2, <1>3, <1>4, <1>5

\* A level of m hashes.
IsLevel(level, m) == m \in Nat /\ level = [n \in 1..m |-> level[n]]

\* It is a sequence of them,
LEMMA LevelIsSeq ==
  ASSUME NEW level, NEW m, IsLevel(level, m)
  PROVE  /\ m \in Nat /\ Len(level) = m /\ DOMAIN level = 1..m
         /\ level \in Seq({level[n] : n \in DOMAIN level})
<1>1. m \in Nat /\ DOMAIN level = 1..m
  BY DEF IsLevel
<1> DEFINE S == {level[n] : n \in DOMAIN level}
<1>2. level \in [1..m -> S]
  BY <1>1 DEF IsLevel
<1> HIDE DEF S
<1>3. level \in Seq(S)
  BY <1>1, <1>2
<1>4. Len(level) = m
  BY <1>1, <1>3
<1> QED BY <1>1, <1>3, <1>4 DEF S

\* as is a sequence of anything.
LEMMA SeqIsLevel ==
  ASSUME NEW S, NEW s \in Seq(S)
  PROVE  IsLevel(s, Len(s))
BY DEF IsLevel

\* Half a size, rounded up, is less than it as long as there are two.
LEMMA HalfFacts ==
  ASSUME NEW m \in Nat
  PROVE  /\ HalfUp(m) \in Nat
         /\ m >= 2 => HalfUp(m) >= 1 /\ HalfUp(m) < m
         /\ m <= 2 * HalfUp(m) /\ 2 * HalfUp(m) <= m + 1
BY DEF HalfUp

\* The level above has half as many hashes.
LEMMA AboveIsLevel ==
  ASSUME NEW level, NEW m, IsLevel(level, m)
  PROVE  /\ IsLevel(LevelAbove(level), HalfUp(m))
         /\ \A n \in 1..HalfUp(m) :
              /\ 2 * n <= m => LevelAbove(level)[n] = Pair(level[2 * n - 1], level[2 * n])
              /\ 2 * n > m => LevelAbove(level)[n] = level[2 * n - 1] /\ 2 * n = m + 1
<1>1. m \in Nat /\ Len(level) = m
  BY LevelIsSeq
<1>2. HalfUp(m) \in Nat /\ 2 * HalfUp(m) <= m + 1
  BY <1>1, HalfFacts
<1>3. IsLevel(LevelAbove(level), HalfUp(m))
  BY <1>1, <1>2 DEF IsLevel, LevelAbove
<1>4. \A n \in 1..HalfUp(m) :
        LevelAbove(level)[n] = IF 2 * n <= m THEN Pair(level[2 * n - 1], level[2 * n])
                                             ELSE level[2 * n - 1]
  BY <1>1 DEF LevelAbove
<1>5. \A n \in 1..HalfUp(m) : 2 * n <= m + 1
  BY <1>1, <1>2
<1> QED BY <1>1, <1>2, <1>3, <1>4, <1>5

\* What is above a position: it and its sibling, or it alone at an odd end.
LEMMA AbovePosition ==
  ASSUME NEW level, NEW m, IsLevel(level, m), m >= 2, NEW at \in 0..(m - 1)
  PROVE  /\ at \div 2 \in 0..(HalfUp(m) - 1)
         /\ LevelAbove(level)[at \div 2 + 1] =
              IF at % 2 # 0 THEN Pair(level[at], level[at + 1])
              ELSE IF at + 1 >= m THEN level[at + 1]
              ELSE Pair(level[at + 1], level[at + 2])
<1>1. m \in Nat
  BY LevelIsSeq
<1>2. PICK n : n = at \div 2 + 1
  OBVIOUS
<1>3. n \in Nat /\ n >= 1 /\ (at % 2 = 0 => 2 * n = at + 2) /\ (at % 2 # 0 => 2 * n = at + 1)
  BY <1>1, <1>2
<1>4. n \in 1..HalfUp(m)
  <2>1. HalfUp(m) \in Nat /\ m <= 2 * HalfUp(m)
    BY <1>1, HalfFacts
  <2>2. at <= m - 1 /\ 2 * n <= at + 2
    BY <1>1, <1>3
  <2> QED BY <1>1, <1>3, <2>1, <2>2
<1>5. /\ 2 * n <= m => LevelAbove(level)[n] = Pair(level[2 * n - 1], level[2 * n])
      /\ 2 * n > m => LevelAbove(level)[n] = level[2 * n - 1] /\ 2 * n = m + 1
  BY <1>4, AboveIsLevel
<1>6. at \div 2 \in 0..(HalfUp(m) - 1)
  <2>1. HalfUp(m) \in Nat
    BY <1>1, HalfFacts
  <2> QED BY <1>2, <1>3, <1>4, <2>1
<1>7. CASE at % 2 # 0
  <2>1. 2 * n = at + 1 /\ 2 * n - 1 = at /\ 2 * n <= m
    BY <1>1, <1>3, <1>7
  <2> QED BY <1>2, <1>5, <1>6, <1>7, <2>1
<1>8. CASE at % 2 = 0
  <2>1. 2 * n = at + 2 /\ 2 * n - 1 = at + 1
    BY <1>1, <1>3, <1>8
  <2>2. CASE at + 1 >= m
    <3>1. 2 * n > m
      BY <1>1, <2>1, <2>2
    <3> QED BY <1>2, <1>5, <1>6, <1>8, <2>1, <2>2, <3>1
  <2>3. CASE ~ (at + 1 >= m)
    <3>1. 2 * n <= m
      BY <1>1, <2>1, <2>3
    <3> QED BY <1>2, <1>5, <1>6, <1>8, <2>1, <2>3, <3>1
  <2> QED BY <2>2, <2>3
<1> QED BY <1>7, <1>8
-----------------------------------------------------------------------------
(* The loops, round by round.                                               *)

\* A round of the tree: the next level, as long as there is one.
NextLevel(level) == IF Len(level) <= 1 THEN level ELSE LevelAbove(level)

\* s is the levels of the tree over ls, up to the mth.
TreeRounds(s, ls, m) ==
  s = [k \in 0..m |-> IF k = 0 THEN ls ELSE NextLevel(s[k - 1])]

\* There are such levels.
LEMMA TreeRoundsExist ==
  ASSUME NEW ls, NEW m \in Nat
  PROVE  \E s : TreeRounds(s, ls, m)
<1> DEFINE bad == {k \in Nat : ~ \E s : TreeRounds(s, ls, k)}
<1>1. ASSUME bad # {}
      PROVE  FALSE
  <2>1. bad \in SUBSET Nat
    OBVIOUS
  <2> HIDE DEF bad
  <2>2. PICK j \in bad : \A i \in bad : j <= i
    BY <1>1, <2>1, LeastNumber
  <2>3. j \in Nat /\ (j # 0 => j - 1 \in Nat /\ j - 1 \notin bad)
    <3>1. j \in Nat
      BY <2>1, <2>2
    <3>2. j - 1 \notin bad
      BY <2>2, <3>1
    <3> QED BY <3>1, <3>2
  <2>4. CASE j = 0
    <3>1. TreeRounds([k \in 0..0 |-> ls], ls, 0)
      BY DEF TreeRounds
    <3> QED BY <2>4, <3>1, <2>2 DEF bad
  <2>5. CASE j # 0
    <3>1. PICK s : TreeRounds(s, ls, j - 1)
      BY <2>3, <2>5 DEF bad
    <3>2. s = [k \in 0..(j - 1) |-> IF k = 0 THEN ls ELSE NextLevel(s[k - 1])]
      BY <3>1 DEF TreeRounds
    <3> DEFINE g == [k \in 0..j |-> IF k = j THEN NextLevel(s[j - 1]) ELSE s[k]]
    <3>3. ASSUME NEW k \in 0..j
          PROVE  g[k] = IF k = 0 THEN ls ELSE NextLevel(g[k - 1])
      <4>1. CASE k = j
        <5>1. g[k] = NextLevel(s[j - 1])
          BY <4>1
        <5>2. j - 1 \in 0..j /\ j - 1 # j
          BY <2>3, <2>5
        <5>3. g[j - 1] = s[j - 1]
          BY <5>2
        <5> HIDE DEF g
        <5> QED BY <4>1, <5>1, <5>3, <2>5
      <4>2. CASE k # j
        <5>1. k \in 0..(j - 1)
          BY <4>2, <2>3
        <5>2. g[k] = s[k]
          BY <4>2
        <5>3. s[k] = IF k = 0 THEN ls ELSE NextLevel(s[k - 1])
          BY <3>2, <5>1
        <5>4. k # 0 => k - 1 \in 0..j /\ k - 1 # j
          BY <5>1, <2>3
        <5>5. k # 0 => g[k - 1] = s[k - 1]
          BY <5>4
        <5> HIDE DEF g
        <5> QED BY <5>2, <5>3, <5>5
      <4> QED BY <4>1, <4>2
    <3>4. g = [k \in 0..j |-> g[k]]
      OBVIOUS
    <3> HIDE DEF g
    <3>5. TreeRounds(g, ls, j)
      BY <3>3, <3>4 DEF TreeRounds
    <3> QED BY <3>5, <2>2 DEF bad
  <2> QED BY <2>4, <2>5
<1> QED BY <1>1

\* s is the states of the loop that collects a proof from the levels tree, up to the mth.
PathRounds(s, start, tree, m) ==
  s = [k \in 0..m |-> IF k = 0 THEN start ELSE PathRound(s[k - 1], tree[k - 1])]

\* There are such states.
LEMMA PathRoundsExist ==
  ASSUME NEW start, NEW tree, NEW m \in Nat
  PROVE  \E s : PathRounds(s, start, tree, m)
<1> DEFINE bad == {k \in Nat : ~ \E s : PathRounds(s, start, tree, k)}
<1>1. ASSUME bad # {}
      PROVE  FALSE
  <2>1. bad \in SUBSET Nat
    OBVIOUS
  <2> HIDE DEF bad
  <2>2. PICK j \in bad : \A i \in bad : j <= i
    BY <1>1, <2>1, LeastNumber
  <2>3. j \in Nat /\ (j # 0 => j - 1 \in Nat /\ j - 1 \notin bad)
    <3>1. j \in Nat
      BY <2>1, <2>2
    <3>2. j - 1 \notin bad
      BY <2>2, <3>1
    <3> QED BY <3>1, <3>2
  <2>4. CASE j = 0
    <3>1. PathRounds([k \in 0..0 |-> start], start, tree, 0)
      BY DEF PathRounds
    <3> QED BY <2>4, <3>1, <2>2 DEF bad
  <2>5. CASE j # 0
    <3>1. PICK s : PathRounds(s, start, tree, j - 1)
      BY <2>3, <2>5 DEF bad
    <3>2. s = [k \in 0..(j - 1) |-> IF k = 0 THEN start ELSE PathRound(s[k - 1], tree[k - 1])]
      BY <3>1 DEF PathRounds
    <3> DEFINE g == [k \in 0..j |-> IF k = j THEN PathRound(s[j - 1], tree[j - 1]) ELSE s[k]]
    <3>3. ASSUME NEW k \in 0..j
          PROVE  g[k] = IF k = 0 THEN start ELSE PathRound(g[k - 1], tree[k - 1])
      <4>1. CASE k = j
        <5>1. g[k] = PathRound(s[j - 1], tree[j - 1])
          BY <4>1
        <5>2. j - 1 \in 0..j /\ j - 1 # j
          BY <2>3, <2>5
        <5>3. g[j - 1] = s[j - 1]
          BY <5>2
        <5> HIDE DEF g
        <5> QED BY <4>1, <5>1, <5>3, <2>5
      <4>2. CASE k # j
        <5>1. k \in 0..(j - 1)
          BY <4>2, <2>3
        <5>2. g[k] = s[k]
          BY <4>2
        <5>3. s[k] = IF k = 0 THEN start ELSE PathRound(s[k - 1], tree[k - 1])
          BY <3>2, <5>1
        <5>4. k # 0 => k - 1 \in 0..j /\ k - 1 # j
          BY <5>1, <2>3
        <5>5. k # 0 => g[k - 1] = s[k - 1]
          BY <5>4
        <5> HIDE DEF g
        <5> QED BY <5>2, <5>3, <5>5
      <4> QED BY <4>1, <4>2
    <3>4. g = [k \in 0..j |-> g[k]]
      OBVIOUS
    <3> HIDE DEF g
    <3>5. PathRounds(g, start, tree, j)
      BY <3>3, <3>4 DEF PathRounds
    <3> QED BY <3>5, <2>2 DEF bad
  <2> QED BY <2>4, <2>5
<1> QED BY <1>1

\* s is the states of the loop that verifies a proof, up to the mth.
AscentRounds(s, start, proof, m) ==
  s = [k \in 0..m |-> IF k = 0 THEN start ELSE VerifyRound(s[k - 1], proof)]

\* There are such states.
LEMMA AscentRoundsExist ==
  ASSUME NEW start, NEW proof, NEW m \in Nat
  PROVE  \E s : AscentRounds(s, start, proof, m)
<1> DEFINE bad == {k \in Nat : ~ \E s : AscentRounds(s, start, proof, k)}
<1>1. ASSUME bad # {}
      PROVE  FALSE
  <2>1. bad \in SUBSET Nat
    OBVIOUS
  <2> HIDE DEF bad
  <2>2. PICK j \in bad : \A i \in bad : j <= i
    BY <1>1, <2>1, LeastNumber
  <2>3. j \in Nat /\ (j # 0 => j - 1 \in Nat /\ j - 1 \notin bad)
    <3>1. j \in Nat
      BY <2>1, <2>2
    <3>2. j - 1 \notin bad
      BY <2>2, <3>1
    <3> QED BY <3>1, <3>2
  <2>4. CASE j = 0
    <3>1. AscentRounds([k \in 0..0 |-> start], start, proof, 0)
      BY DEF AscentRounds
    <3> QED BY <2>4, <3>1, <2>2 DEF bad
  <2>5. CASE j # 0
    <3>1. PICK s : AscentRounds(s, start, proof, j - 1)
      BY <2>3, <2>5 DEF bad
    <3>2. s = [k \in 0..(j - 1) |-> IF k = 0 THEN start ELSE VerifyRound(s[k - 1], proof)]
      BY <3>1 DEF AscentRounds
    <3> DEFINE g == [k \in 0..j |-> IF k = j THEN VerifyRound(s[j - 1], proof) ELSE s[k]]
    <3>3. ASSUME NEW k \in 0..j
          PROVE  g[k] = IF k = 0 THEN start ELSE VerifyRound(g[k - 1], proof)
      <4>1. CASE k = j
        <5>1. g[k] = VerifyRound(s[j - 1], proof)
          BY <4>1
        <5>2. j - 1 \in 0..j /\ j - 1 # j
          BY <2>3, <2>5
        <5>3. g[j - 1] = s[j - 1]
          BY <5>2
        <5> HIDE DEF g
        <5> QED BY <4>1, <5>1, <5>3, <2>5
      <4>2. CASE k # j
        <5>1. k \in 0..(j - 1)
          BY <4>2, <2>3
        <5>2. g[k] = s[k]
          BY <4>2
        <5>3. s[k] = IF k = 0 THEN start ELSE VerifyRound(s[k - 1], proof)
          BY <3>2, <5>1
        <5>4. k # 0 => k - 1 \in 0..j /\ k - 1 # j
          BY <5>1, <2>3
        <5>5. k # 0 => g[k - 1] = s[k - 1]
          BY <5>4
        <5> HIDE DEF g
        <5> QED BY <5>2, <5>3, <5>5
      <4> QED BY <4>1, <4>2
    <3>4. g = [k \in 0..j |-> g[k]]
      OBVIOUS
    <3> HIDE DEF g
    <3>5. AscentRounds(g, start, proof, j)
      BY <3>3, <3>4 DEF AscentRounds
    <3> QED BY <3>5, <2>2 DEF bad
  <2> QED BY <2>4, <2>5
<1> QED BY <1>1

\* T has the levels over m leaves ls, and the root is alone in the last one.
GrownTree(T, ls, m) ==
  /\ T[0] = ls
  /\ \A k \in 0..m : IsLevel(T[k], Len(T[k])) /\ Len(T[k]) >= 1
  /\ Len(T[m]) = 1 /\ Root(ls) = T[m][1]
  /\ \A k \in 1..m : IF Len(T[k - 1]) <= 1
                     THEN T[k] = T[k - 1]
                     ELSE /\ T[k] = LevelAbove(T[k - 1])
                          /\ Len(T[k]) = HalfUp(Len(T[k - 1]))

\* The tree over a log that is not empty is such a tree.
LEMMA TreeIsGrown ==
  ASSUME NEW ls, NEW m, IsLevel(ls, m), m >= 1
  PROVE  GrownTree(Tree(ls), ls, m)
<1>1. m \in Nat /\ Len(ls) = m
  BY LevelIsSeq
<1>2. \E s : s = [k \in 0..m |-> IF k = 0 THEN ls ELSE NextLevel(s[k - 1])]
  <2>1. \E s : TreeRounds(s, ls, m)
    BY <1>1, TreeRoundsExist
  <2> QED BY <2>1 DEF TreeRounds
<1> DEFINE T == CHOOSE s : s = [k \in 0..m |-> IF k = 0 THEN ls ELSE NextLevel(s[k - 1])]
<1>3. T = [k \in 0..m |-> IF k = 0 THEN ls ELSE NextLevel(T[k - 1])]
  BY <1>2
<1>4. Tree(ls) = T
  BY <1>1 DEF Tree, NextLevel
<1> HIDE DEF T
<1>5. T[0] = ls /\ \A k \in 1..m : T[k] = NextLevel(T[k - 1])
  BY <1>1, <1>3
<1> DEFINE fine(k) == /\ IsLevel(T[k], Len(T[k])) /\ Len(T[k]) >= 1
                      /\ Len(T[k]) = 1 \/ Len(T[k]) <= m - k
           next(k) == IF Len(T[k - 1]) <= 1
                      THEN T[k] = T[k - 1]
                      ELSE T[k] = LevelAbove(T[k - 1]) /\ Len(T[k]) = HalfUp(Len(T[k - 1]))
           bad == {k \in 0..m : ~ fine(k)}
<1>6. fine(0)
  BY <1>1, <1>5
<1>7. ASSUME NEW k \in 1..m, fine(k - 1)
      PROVE  fine(k) /\ next(k)
  <2>1. T[k] = NextLevel(T[k - 1])
    BY <1>5
  <2>2. PICK l \in Nat : l = Len(T[k - 1])
    BY <1>7, LevelIsSeq
  <2>3. CASE l <= 1
    <3>1. T[k] = T[k - 1]
      BY <2>1, <2>2, <2>3 DEF NextLevel
    <3>2. l >= 1
      BY <1>7, <2>2 DEF fine
    <3>3. Len(T[k]) = 1
      <4>1. l = 1
        <5>1. l \in Nat
          OBVIOUS
        <5> QED BY <2>3, <3>2, <5>1
      <4>2. Len(T[k]) = l
        BY <2>2, <3>1
      <4> QED BY <4>1, <4>2
    <3> QED BY <1>7, <2>2, <2>3, <3>1, <3>3 DEF fine
  <2>4. CASE l >= 2
    <3>1. T[k] = LevelAbove(T[k - 1])
      BY <2>1, <2>2, <2>4 DEF NextLevel
    <3>2. IsLevel(T[k], HalfUp(l))
      BY <1>7, <2>2, <3>1, AboveIsLevel
    <3>3. Len(T[k]) = HalfUp(l)
      BY <3>2, LevelIsSeq
    <3>4. HalfUp(l) \in Nat /\ HalfUp(l) >= 1 /\ HalfUp(l) < l
      BY <2>4, HalfFacts
    <3>5. l <= m - (k - 1)
      <4>1. l = 1 \/ l <= m - (k - 1)
        BY <1>7, <2>2 DEF fine
      <4> QED BY <2>4, <4>1
    <3>6. Len(T[k]) <= m - k
      BY <1>1, <3>3, <3>4, <3>5
    <3> QED BY <2>2, <2>4, <3>1, <3>2, <3>3, <3>4, <3>6
  <2> QED BY <2>2, <2>3, <2>4
<1> HIDE DEF fine, next
<1>8. ASSUME bad # {}
      PROVE  FALSE
  <2>1. bad \in SUBSET Nat /\ \A k \in 0..m : k \in bad <=> ~ fine(k)
    OBVIOUS
  <2>2. \A k \in bad : k \in 0..m
    OBVIOUS
  <2> HIDE DEF bad
  <2>3. PICK k \in bad : \A j \in bad : k <= j
    BY <1>8, <2>1, LeastNumber
  <2>4. k \in 0..m /\ ~ fine(k)
    BY <2>1, <2>2, <2>3
  <2>5. k \in 1..m /\ k - 1 \in 0..m /\ ~ (k <= k - 1)
    <3>1. k # 0
      BY <1>6, <2>4
    <3> QED BY <1>1, <2>4, <3>1
  <2>6. fine(k - 1)
    BY <2>1, <2>3, <2>5
  <2> QED BY <1>7, <2>4, <2>5, <2>6
<1>9. \A k \in 0..m : fine(k)
  BY <1>8
<1>10. \A k \in 1..m : next(k)
  <2>1. \A k \in 1..m : k - 1 \in 0..m
    BY <1>1
  <2> QED BY <1>7, <1>9, <2>1
<1>11. Len(T[m]) = 1
  <2>1. fine(m)
    BY <1>1, <1>9
  <2>2. Len(T[m]) \in Nat
    BY <2>1, LevelIsSeq DEF fine
  <2> QED BY <1>1, <2>1, <2>2 DEF fine
<1>12. Root(ls) = T[m][1]
  <2>1. ls # << >>
    BY <1>1
  <2> QED BY <1>1, <1>4, <2>1 DEF Root
<1>13. \A k \in 0..m : IsLevel(T[k], Len(T[k])) /\ Len(T[k]) >= 1
  BY <1>9 DEF fine
<1> QED BY <1>4, <1>5, <1>10, <1>11, <1>12, <1>13 DEF GrownTree, next

\* p is the states of the loop that collects the proof of idx from m levels.
IsPath(p, T, idx, m) ==
  /\ p[0] = [at |-> idx, path |-> << >>]
  /\ \A k \in 1..m : p[k] = PathRound(p[k - 1], T[k - 1])

\* The loop of a proof has them, and ends with the proof.
LEMMA PathIsRounds ==
  ASSUME NEW ls, NEW m, IsLevel(ls, m), NEW idx
  PROVE  \E p : IsPath(p, Tree(ls), idx, m) /\ Proof(ls, idx) = p[m].path
<1>1. m \in Nat /\ Len(ls) = m
  BY LevelIsSeq
<1> DEFINE start == [at |-> idx, path |-> << >>]
           step == CHOOSE s : s = [k \in 0..m |-> IF k = 0 THEN start
                                                  ELSE PathRound(s[k - 1], Tree(ls)[k - 1])]
<1>2. Path(ls, idx) = step
  BY <1>1 DEF Path
<1> HIDE DEF start
<1>3. \E s : s = [k \in 0..m |-> IF k = 0 THEN start ELSE PathRound(s[k - 1], Tree(ls)[k - 1])]
  <2>1. \E s : PathRounds(s, start, Tree(ls), m)
    BY <1>1, PathRoundsExist
  <2> QED BY <2>1 DEF PathRounds
<1>4. step = [k \in 0..m |-> IF k = 0 THEN start ELSE PathRound(step[k - 1], Tree(ls)[k - 1])]
  BY <1>3
<1> HIDE DEF step
<1>5. step[0] = start /\ \A k \in 1..m : step[k] = PathRound(step[k - 1], Tree(ls)[k - 1])
  BY <1>1, <1>4
<1>6. Proof(ls, idx) = step[m].path
  BY <1>1, <1>2 DEF Proof
<1>7. IsPath(step, Tree(ls), idx, m)
  BY <1>5 DEF IsPath, start
<1> QED BY <1>6, <1>7

\* s is the states of the loop that verifies a proof.
IsAscent(s, payload, idx, m, proof) ==
  /\ s[0] = [at |-> idx, size |-> m, used |-> 0, hash |-> Leaf(payload), ok |-> TRUE]
  /\ \A k \in 1..m : s[k] = VerifyRound(s[k - 1], proof)

\* The loop of verify has them, and ends with the last.
LEMMA AscentIsRounds ==
  ASSUME NEW payload, NEW idx, NEW m \in Nat, NEW proof
  PROVE  \E s : IsAscent(s, payload, idx, m, proof) /\ Ascent(payload, idx, m, proof)[m] = s[m]
<1> DEFINE start == [at |-> idx, size |-> m, used |-> 0, hash |-> Leaf(payload), ok |-> TRUE]
           step == CHOOSE s : s = [k \in 0..m |-> IF k = 0 THEN start
                                                  ELSE VerifyRound(s[k - 1], proof)]
<1>1. Ascent(payload, idx, m, proof) = step
  BY DEF Ascent
<1> HIDE DEF start
<1>2. \E s : s = [k \in 0..m |-> IF k = 0 THEN start ELSE VerifyRound(s[k - 1], proof)]
  <2>1. \E s : AscentRounds(s, start, proof, m)
    BY AscentRoundsExist
  <2> QED BY <2>1 DEF AscentRounds
<1>3. step = [k \in 0..m |-> IF k = 0 THEN start ELSE VerifyRound(step[k - 1], proof)]
  BY <1>2
<1> HIDE DEF step
<1>4. step[0] = start /\ \A k \in 1..m : step[k] = VerifyRound(step[k - 1], proof)
  BY <1>3
<1>5. IsAscent(step, payload, idx, m, proof)
  BY <1>4 DEF IsAscent, start
<1> QED BY <1>1, <1>5

-----------------------------------------------------------------------------
(* One round.                                                               *)

\* s stands in a level: its size is the level's, and its position one of it.
StandsIn(s, level) == s.size = Len(level) /\ s.at \in 0..(Len(level) - 1)

\* A round above the first goes up a level, and its hash is the one there only if the hash it
\* started from was the one below.
LEMMA RoundGoesUp ==
  ASSUME NEW level, NEW m, IsLevel(level, m), m >= 2, NEW s, StandsIn(s, level), NEW proof,
         VerifyRound(s, proof).ok, s.ok
  PROVE  LET r  == VerifyRound(s, proof)
             up == LevelAbove(level)
         IN  StandsIn(r, up) /\ (r.hash = up[r.at + 1] => s.hash = level[s.at + 1])
<1>1. m \in Nat /\ Len(level) = m
  BY LevelIsSeq
<1>2. PICK at \in Nat : at = s.at
  BY <1>1 DEF StandsIn
<1>3. at \in 0..(m - 1) /\ s.size = m
  BY <1>1, <1>2 DEF StandsIn
<1> DEFINE r  == VerifyRound(s, proof)
           up == LevelAbove(level)
           last == at % 2 = 0 /\ at + 1 >= m
<1>4. /\ r.at = at \div 2 /\ r.size = HalfUp(m)
      /\ r.hash = IF last THEN s.hash
                  ELSE IF at % 2 = 0 THEN Pair(s.hash, proof[s.used + 1])
                  ELSE Pair(proof[s.used + 1], s.hash)
  <2>1. ~ (s.size <= 1 \/ ~ s.ok)
    BY <1>3, <1>1
  <2>2. /\ r.at = s.at \div 2 /\ r.size = HalfUp(s.size)
        /\ r.hash = LET even == s.at % 2 = 0
                        end == even /\ s.at + 1 >= s.size
                        missing == ~ end /\ s.used >= Len(proof)
                    IN  IF end \/ missing THEN s.hash
                        ELSE IF even THEN Pair(s.hash, proof[s.used + 1])
                                     ELSE Pair(proof[s.used + 1], s.hash)
        /\ r.ok = ~ (~ (s.at % 2 = 0 /\ s.at + 1 >= s.size) /\ s.used >= Len(proof))
    BY <2>1 DEF VerifyRound
  <2> QED BY <1>2, <1>3, <2>2
<1>5. /\ at \div 2 \in 0..(HalfUp(m) - 1)
      /\ up[at \div 2 + 1] = IF at % 2 # 0 THEN Pair(level[at], level[at + 1])
                             ELSE IF at + 1 >= m THEN level[at + 1]
                             ELSE Pair(level[at + 1], level[at + 2])
  BY <1>3, AbovePosition
<1>6. Len(up) = HalfUp(m)
  BY AboveIsLevel, LevelIsSeq
<1> HIDE DEF r, up
<1>7. StandsIn(r, up)
  BY <1>4, <1>5, <1>6 DEF StandsIn
<1>8. ASSUME r.hash = up[r.at + 1]
      PROVE  s.hash = level[at + 1]
  <2>1. r.hash = up[at \div 2 + 1]
    BY <1>4, <1>8
  <2>2. CASE at % 2 # 0
    <3>1. Pair(proof[s.used + 1], s.hash) = Pair(level[at], level[at + 1])
      BY <1>4, <1>5, <2>1, <2>2
    <3> QED BY <3>1, HashFacts
  <2>3. CASE at % 2 = 0 /\ at + 1 >= m
    BY <1>4, <1>5, <2>1, <2>3
  <2>4. CASE at % 2 = 0 /\ ~ (at + 1 >= m)
    <3>1. Pair(s.hash, proof[s.used + 1]) = Pair(level[at + 1], level[at + 2])
      BY <1>4, <1>5, <2>1, <2>4
    <3> QED BY <3>1, HashFacts
  <2> QED BY <2>2, <2>3, <2>4
<1> QED BY <1>2, <1>7, <1>8 DEF r, up

\* A round that failed stays so, and one in the last level changes nothing.
LEMMA RoundStays ==
  ASSUME NEW s, NEW proof, s.size <= 1 \/ ~ s.ok
  PROVE  VerifyRound(s, proof) = s
BY DEF VerifyRound

-----------------------------------------------------------------------------
(* What verify accepts.                                                     *)

\* An ascent that ends with the root started from the leaf at its index.
LEMMA AcceptedIsTheLeaf ==
  ASSUME NEW T, NEW ls, NEW m, IsLevel(ls, m), m >= 1, GrownTree(T, ls, m),
         NEW payload, NEW idx \in 0..(m - 1), NEW proof, NEW s,
         IsAscent(s, payload, idx, m, proof), s[m].ok, s[m].hash = Root(ls)
  PROVE  Leaf(payload) = ls[idx + 1]
<1>1. m \in Nat /\ Len(ls) = m
  BY LevelIsSeq
<1>2. /\ s[0] = [at |-> idx, size |-> m, used |-> 0, hash |-> Leaf(payload), ok |-> TRUE]
      /\ \A k \in 1..m : s[k] = VerifyRound(s[k - 1], proof)
  BY DEF IsAscent
<1>3. /\ T[0] = ls /\ Len(T[m]) = 1 /\ Root(ls) = T[m][1]
      /\ \A k \in 0..m : IsLevel(T[k], Len(T[k])) /\ Len(T[k]) >= 1
  BY DEF GrownTree
<1>4. \A k \in 1..m : IF Len(T[k - 1]) <= 1 THEN T[k] = T[k - 1] ELSE T[k] = LevelAbove(T[k - 1])
  BY DEF GrownTree
<1> DEFINE stands(k)  == s[k].ok => StandsIn(s[k], T[k])
           matches(k) == s[k].ok => s[k].hash = T[k][s[k].at + 1]
           fallen  == {k \in 0..m : ~ stands(k)}
           matched == {k \in 0..m : s[k].ok /\ stands(k) /\ matches(k)}
<1>5. stands(0)
  BY <1>1, <1>2, <1>3 DEF StandsIn
<1>6. ASSUME NEW k \in 1..m, stands(k - 1)
      PROVE  stands(k) /\ (s[k].ok /\ matches(k) => s[k - 1].ok /\ matches(k - 1))
  <2>1. s[k] = VerifyRound(s[k - 1], proof)
    BY <1>2
  <2>2. k - 1 \in 0..m
    BY <1>1
  <2>3. CASE ~ s[k - 1].ok
    <3>1. s[k] = s[k - 1]
      BY <2>1, <2>3, RoundStays
    <3> QED BY <2>3, <3>1
  <2>4. CASE s[k - 1].ok /\ Len(T[k - 1]) <= 1
    <3>1. s[k - 1].size <= 1
      BY <1>6, <2>4 DEF StandsIn
    <3>2. s[k] = s[k - 1]
      BY <2>1, <3>1, RoundStays
    <3>3. T[k] = T[k - 1]
      BY <1>4, <2>4
    <3> QED BY <1>6, <3>2, <3>3
  <2>5. CASE s[k - 1].ok /\ ~ (Len(T[k - 1]) <= 1)
    <3>1. IsLevel(T[k - 1], Len(T[k - 1])) /\ Len(T[k - 1]) \in Nat
      BY <1>3, <2>2, LevelIsSeq
    <3>2. Len(T[k - 1]) >= 2
      BY <2>5, <3>1
    <3>3. T[k] = LevelAbove(T[k - 1])
      BY <1>4, <2>5
    <3>4. CASE ~ s[k].ok
      BY <3>4
    <3>5. CASE s[k].ok
      <4>1. VerifyRound(s[k - 1], proof).ok
        BY <2>1, <3>5
      <4>2. StandsIn(s[k - 1], T[k - 1])
        BY <1>6, <2>5
      <4>3. /\ StandsIn(s[k], T[k])
            /\ s[k].hash = T[k][s[k].at + 1] => s[k - 1].hash = T[k - 1][s[k - 1].at + 1]
        BY <2>1, <2>5, <3>1, <3>2, <3>3, <4>1, <4>2, RoundGoesUp
      <4> QED BY <2>5, <3>5, <4>3
    <3> QED BY <3>4, <3>5
  <2> QED BY <2>3, <2>4, <2>5
<1> HIDE DEF stands, matches
<1>7. ASSUME fallen # {}
      PROVE  FALSE
  <2>1. fallen \in SUBSET Nat /\ \A k \in 0..m : k \in fallen <=> ~ stands(k)
    OBVIOUS
  <2>2. \A k \in fallen : k \in 0..m
    OBVIOUS
  <2> HIDE DEF fallen
  <2>3. PICK k \in fallen : \A j \in fallen : k <= j
    BY <1>7, <2>1, LeastNumber
  <2>4. k \in 0..m /\ ~ stands(k)
    BY <2>1, <2>2, <2>3
  <2>5. k \in 1..m /\ k - 1 \in 0..m /\ ~ (k <= k - 1)
    <3>1. k # 0
      BY <1>5, <2>4
    <3> QED BY <1>1, <2>4, <3>1
  <2>6. stands(k - 1)
    BY <2>1, <2>3, <2>5
  <2> QED BY <1>6, <2>4, <2>5, <2>6
<1>8. \A k \in 0..m : stands(k)
  BY <1>7
<1>9. m \in matched
  <2>1. StandsIn(s[m], T[m])
    BY <1>1, <1>8 DEF stands
  <2>2. s[m].at = 0
    BY <1>3, <2>1 DEF StandsIn
  <2>3. matches(m)
    BY <1>3, <2>2 DEF matches
  <2> QED BY <1>1, <1>8, <2>3
<1>10. 0 \in matched
  <2>1. matched \in SUBSET Nat /\ \A k \in matched : k \in 0..m /\ s[k].ok /\ matches(k)
    OBVIOUS
  <2>2. \A k \in 0..m : s[k].ok /\ matches(k) => k \in matched
    BY <1>8
  <2>3. matched # {}
    BY <1>9
  <2> HIDE DEF matched
  <2>4. PICK k \in matched : \A j \in matched : k <= j
    BY <2>1, <2>3, LeastNumber
  <2>5. k \in 0..m /\ s[k].ok /\ matches(k)
    BY <2>1, <2>4
  <2>6. CASE k # 0
    <3>1. k \in 1..m /\ k - 1 \in 0..m /\ ~ (k <= k - 1)
      BY <1>1, <2>5, <2>6
    <3>2. s[k - 1].ok /\ matches(k - 1)
      BY <1>6, <1>8, <2>5, <3>1
    <3>3. k - 1 \in matched
      BY <2>2, <3>1, <3>2
    <3> QED BY <2>4, <3>1, <3>3
  <2> QED BY <2>4, <2>6
<1>11. s[0].hash = T[0][s[0].at + 1]
  <2>1. s[0].ok /\ matches(0)
    BY <1>10
  <2> QED BY <2>1 DEF matches
<1> QED BY <1>2, <1>3, <1>11

\* One path is the start of another.
Extends(short, longer) ==
  Len(short) <= Len(longer) /\ \A j \in 1..Len(short) : longer[j] = short[j]

\* A state of the loop that verifies has used just what the loop of the proof has collected, and
\* both are at one position, whose hash it has.
InStep(s, c, level) ==
  /\ s.ok /\ StandsIn(s, level)
  /\ c.at = s.at /\ s.used = Len(c.path)
  /\ s.hash = level[s.at + 1]

\* d is c after a round in a level, which may add a hash of it.
Collects(c, d, level) ==
  /\ d.at = c.at \div 2
  /\ IF Sibling(c.at) < Len(level)
     THEN /\ Len(d.path) = Len(c.path) + 1
          /\ d.path[Len(d.path)] = level[Sibling(c.at) + 1]
          /\ \A j \in 1..Len(c.path) : d.path[j] = c.path[j]
     ELSE d.path = c.path

\* What is collected in a round is still there, and at most one hash of the level is added.
LEMMA PathGrows ==
  ASSUME NEW H, NEW level, NEW m, IsLevel(level, m), \A n \in 1..m : level[n] \in H,
         NEW c, c.path \in Seq(H), c.at \in 0..(m - 1), m >= 1,
         NEW d, d = PathRound(c, level)
  PROVE  d.path \in Seq(H) /\ Collects(c, d, level)
<1>1. m \in Nat /\ Len(level) = m
  BY LevelIsSeq
<1>2. d.at = c.at \div 2 /\ d.path = IF Sibling(c.at) < m
                                     THEN Append(c.path, level[Sibling(c.at) + 1]) ELSE c.path
  BY <1>1 DEF PathRound
<1>3. Len(c.path) \in Nat
  BY LenProperties
<1>4. PICK at \in Nat : at = c.at /\ at <= m - 1
  BY <1>1
<1>5. Sibling(c.at) = IF at % 2 = 0 THEN at + 1 ELSE at - 1
  BY <1>4 DEF Sibling
<1>6. CASE Sibling(c.at) < m
  <2>1. Sibling(c.at) + 1 \in 1..m
    <3>1. PICK i : i = Sibling(c.at)
      OBVIOUS
    <3>2. i \in Nat
      BY <1>4, <1>5, <3>1
    <3>3. i < m
      BY <1>6, <3>1
    <3> QED BY <1>1, <3>1, <3>2, <3>3
  <2>2. level[Sibling(c.at) + 1] \in H
    BY <2>1
  <2> QED BY <1>1, <1>2, <1>3, <1>6, <2>2 DEF Collects
<1>7. CASE ~ (Sibling(c.at) < m)
  BY <1>1, <1>2, <1>7 DEF Collects
<1> QED BY <1>6, <1>7

\* A round above the first, in step with the proof's own, stays in step.
LEMMA RoundKeepsStep ==
  ASSUME NEW H, NEW level, NEW m, IsLevel(level, m), \A n \in 1..m : level[n] \in H, m >= 2,
         NEW c, c.path \in Seq(H), NEW s, InStep(s, c, level), NEW proof \in Seq(H),
         Extends(PathRound(c, level).path, proof)
  PROVE  InStep(VerifyRound(s, proof), PathRound(c, level), LevelAbove(level))
<1>1. m \in Nat /\ Len(level) = m
  BY LevelIsSeq
<1>2. PICK at \in Nat : at = s.at
  BY <1>1 DEF InStep, StandsIn
<1>3. at \in 0..(m - 1) /\ s.size = m /\ c.at = at /\ s.ok
  BY <1>1, <1>2 DEF InStep, StandsIn
<1>4. s.hash = level[at + 1] /\ s.used = Len(c.path)
  BY <1>2 DEF InStep
<1> DEFINE d    == PathRound(c, level)
           r    == VerifyRound(s, proof)
           up   == LevelAbove(level)
           last == at % 2 = 0 /\ at + 1 >= m
<1>5. /\ d.at = at \div 2 /\ d.path \in Seq(H)
      /\ IF Sibling(at) < m
         THEN /\ Len(d.path) = Len(c.path) + 1
              /\ d.path[Len(d.path)] = level[Sibling(at) + 1]
         ELSE d.path = c.path
  <2>1. c.at \in 0..(m - 1) /\ m >= 1
    BY <1>1, <1>3
  <2>2. d.path \in Seq(H) /\ Collects(c, d, level)
    BY <2>1, PathGrows
  <2> QED BY <1>1, <1>3, <2>2 DEF Collects
<1>6. Sibling(at) < m <=> ~ last
  BY <1>1, <1>2, <1>3 DEF Sibling
<1>7. Sibling(at) + 1 = IF at % 2 = 0 THEN at + 2 ELSE at
  BY <1>2 DEF Sibling
<1>8. Len(c.path) \in Nat /\ Len(d.path) \in Nat /\ Len(proof) \in Nat
  BY <1>5, LenProperties
<1>9. Len(d.path) <= Len(proof) /\ \A j \in 1..Len(d.path) : proof[j] = d.path[j]
  BY DEF Extends
<1>10. ~ (s.size <= 1 \/ ~ s.ok)
  BY <1>1, <1>3
<1>11. /\ r.at = s.at \div 2 /\ r.size = HalfUp(s.size)
       /\ LET even    == s.at % 2 = 0
              end     == even /\ s.at + 1 >= s.size
              missing == ~ end /\ s.used >= Len(proof)
          IN  /\ r.ok = ~ missing
              /\ r.used = IF end \/ missing THEN s.used ELSE s.used + 1
              /\ r.hash = IF end \/ missing THEN s.hash
                          ELSE IF even THEN Pair(s.hash, proof[s.used + 1])
                                       ELSE Pair(proof[s.used + 1], s.hash)
  BY <1>10 DEF VerifyRound
<1>12. /\ at \div 2 \in 0..(HalfUp(m) - 1)
       /\ up[at \div 2 + 1] = IF at % 2 # 0 THEN Pair(level[at], level[at + 1])
                              ELSE IF at + 1 >= m THEN level[at + 1]
                              ELSE Pair(level[at + 1], level[at + 2])
  BY <1>3, AbovePosition
<1>13. Len(up) = HalfUp(m)
  BY AboveIsLevel, LevelIsSeq
<1> HIDE DEF d, r, up
<1>14. StandsIn(r, up) /\ d.at = r.at /\ r.at = at \div 2
  BY <1>2, <1>3, <1>5, <1>11, <1>12, <1>13 DEF StandsIn
<1>15. r.ok /\ r.used = Len(d.path) /\ r.hash = up[at \div 2 + 1]
  <2>1. CASE last
    <3>1. at % 2 = 0 /\ at + 1 >= m
      BY <2>1
    <3>2. r.ok = TRUE /\ r.used = s.used /\ r.hash = s.hash
      BY <1>2, <1>3, <1>11, <3>1
    <3>3. d.path = c.path
      BY <1>5, <1>6, <2>1
    <3>4. up[at \div 2 + 1] = level[at + 1]
      BY <1>12, <3>1
    <3> QED BY <1>4, <3>2, <3>3, <3>4
  <2>2. CASE ~ last
    <3>1. Len(d.path) = Len(c.path) + 1 /\ d.path[Len(d.path)] = level[Sibling(at) + 1]
      BY <1>5, <1>6, <2>2
    <3>2. Len(d.path) \in 1..Len(d.path)
      BY <1>8, <3>1
    <3>3. proof[s.used + 1] = level[Sibling(at) + 1]
      BY <1>4, <1>9, <3>1, <3>2
    <3>4. ~ (s.used >= Len(proof))
      BY <1>4, <1>8, <1>9, <3>1
    <3>5. ~ (s.at % 2 = 0 /\ s.at + 1 >= s.size)
      BY <1>2, <1>3, <2>2
    <3>6. /\ r.ok = TRUE /\ r.used = s.used + 1
          /\ r.hash = IF s.at % 2 = 0 THEN Pair(s.hash, proof[s.used + 1])
                                      ELSE Pair(proof[s.used + 1], s.hash)
      BY <1>11, <3>4, <3>5
    <3>7. r.used = Len(d.path)
      BY <1>4, <3>1, <3>6
    <3>8. CASE at % 2 = 0
      <4>1. ~ (at + 1 >= m)
        BY <2>2, <3>8
      <4>2. up[at \div 2 + 1] = Pair(level[at + 1], level[at + 2])
        BY <1>12, <3>8, <4>1
      <4>3. r.hash = Pair(level[at + 1], level[at + 2])
        BY <1>2, <1>4, <1>7, <3>3, <3>6, <3>8
      <4> QED BY <3>6, <3>7, <4>2, <4>3
    <3>9. CASE at % 2 # 0
      <4>1. up[at \div 2 + 1] = Pair(level[at], level[at + 1])
        BY <1>12, <3>9
      <4>2. r.hash = Pair(level[at], level[at + 1])
        BY <1>2, <1>4, <1>7, <3>3, <3>6, <3>9
      <4> QED BY <3>6, <3>7, <4>1, <4>2
    <3> QED BY <3>8, <3>9
  <2> QED BY <2>1, <2>2
<1>16. InStep(r, d, up)
  BY <1>14, <1>15 DEF InStep
<1> QED BY <1>16 DEF d, r, up

\* In the last level neither loop does anything more.
LEMMA LastRoundKeepsStep ==
  ASSUME NEW level, NEW c, NEW s, Len(level) = 1, InStep(s, c, level), NEW proof
  PROVE  InStep(VerifyRound(s, proof), PathRound(c, level), level)
<1>1. s.size = 1 /\ s.at = 0 /\ c.at = 0
  BY DEF InStep, StandsIn
<1>2. VerifyRound(s, proof) = s
  BY <1>1, RoundStays
<1>3. ~ (Sibling(c.at) < Len(level))
  BY <1>1 DEF Sibling
<1>4. PathRound(c, level).at = 0 /\ PathRound(c, level).path = c.path
  BY <1>1, <1>3 DEF PathRound
<1> QED BY <1>1, <1>2, <1>4 DEF InStep

\* The proof the log hands out for the leaf at an index ends the ascent from it with the root.
LEMMA OwnProofAccepted ==
  ASSUME NEW T, NEW ls, NEW m, IsLevel(ls, m), m >= 1, GrownTree(T, ls, m),
         NEW idx \in 0..(m - 1), NEW payload, Leaf(payload) = ls[idx + 1],
         NEW p, IsPath(p, T, idx, m), NEW s, IsAscent(s, payload, idx, m, p[m].path)
  PROVE  s[m].ok /\ s[m].hash = Root(ls)
<1>1. m \in Nat /\ Len(ls) = m
  BY LevelIsSeq
<1>2. PICK proof : proof = p[m].path
  OBVIOUS
<1>3. /\ s[0] = [at |-> idx, size |-> m, used |-> 0, hash |-> Leaf(payload), ok |-> TRUE]
      /\ \A k \in 1..m : s[k] = VerifyRound(s[k - 1], proof)
  BY <1>2 DEF IsAscent
<1>4. /\ p[0] = [at |-> idx, path |-> << >>]
      /\ \A k \in 1..m : p[k] = PathRound(p[k - 1], T[k - 1])
  BY DEF IsPath
<1>5. /\ T[0] = ls /\ Len(T[m]) = 1 /\ Root(ls) = T[m][1]
      /\ \A k \in 0..m : IsLevel(T[k], Len(T[k])) /\ Len(T[k]) >= 1
  BY DEF GrownTree
<1>6. \A k \in 1..m : IF Len(T[k - 1]) <= 1
                      THEN T[k] = T[k - 1]
                      ELSE T[k] = LevelAbove(T[k - 1]) /\ Len(T[k]) = HalfUp(Len(T[k - 1]))
  BY DEF GrownTree
<1>7. \A k \in 0..m : Len(T[k]) \in Nat
  BY <1>5, LevelIsSeq
<1> DEFINE H == UNION {{T[k][n] : n \in 1..Len(T[k])} : k \in 0..m}
<1>8. \A k \in 0..m : \A n \in 1..Len(T[k]) : T[k][n] \in H
  OBVIOUS
<1> HIDE DEF H
<1>9. \A k \in 1..m : k - 1 \in 0..m
  BY <1>1
<1> DEFINE walks(k)   == p[k].path \in Seq(H) /\ p[k].at \in 0..(Len(T[k]) - 1)
           kept(k)    == Extends(p[k].path, proof)
           inStep(k)  == InStep(s[k], p[k], T[k])
           badWalk    == {k \in 0..m : ~ walks(k)}
           keepers    == {k \in Nat : k <= m /\ \A j \in k..m : kept(j)}
           badStep    == {k \in 0..m : ~ inStep(k)}
<1>10. walks(0)
  <2>1. p[0].path = << >> /\ p[0].at = idx
    BY <1>4
  <2> QED BY <1>1, <1>5, <2>1
<1>11. ASSUME NEW k \in 1..m, walks(k - 1)
       PROVE  /\ walks(k)
              /\ Len(p[k - 1].path) <= Len(p[k].path)
              /\ \A j \in 1..Len(p[k - 1].path) : p[k].path[j] = p[k - 1].path[j]
  <2>1. p[k] = PathRound(p[k - 1], T[k - 1])
    BY <1>4
  <2>2. IsLevel(T[k - 1], Len(T[k - 1])) /\ Len(T[k - 1]) >= 1 /\ Len(T[k - 1]) \in Nat
    BY <1>5, <1>7, <1>9
  <2>3. \A n \in 1..Len(T[k - 1]) : T[k - 1][n] \in H
    BY <1>8, <1>9
  <2>4. p[k].path \in Seq(H) /\ Collects(p[k - 1], p[k], T[k - 1])
    <3>1. p[k - 1].path \in Seq(H) /\ p[k - 1].at \in 0..(Len(T[k - 1]) - 1)
      BY <1>11
    <3> QED BY <2>1, <2>2, <2>3, <3>1, PathGrows
  <2>5. p[k].at \in 0..(Len(T[k]) - 1)
    <3>1. CASE Len(T[k - 1]) <= 1
      <4>1. T[k] = T[k - 1]
        BY <1>6, <3>1
      <4>2. p[k - 1].at = 0
        BY <1>11, <2>2, <3>1
      <4>3. p[k].at = 0
        BY <2>4, <4>2 DEF Collects
      <4> QED BY <2>2, <4>1, <4>3
    <3>2. CASE ~ (Len(T[k - 1]) <= 1)
      <4>1. Len(T[k - 1]) >= 2
        BY <2>2, <3>2
      <4>2. p[k - 1].at \div 2 \in 0..(HalfUp(Len(T[k - 1])) - 1)
        BY <1>11, <2>2, <4>1, AbovePosition
      <4>3. Len(T[k]) = HalfUp(Len(T[k - 1]))
        BY <1>6, <3>2
      <4>4. p[k].at = p[k - 1].at \div 2
        BY <2>4 DEF Collects
      <4>5. 0..(HalfUp(Len(T[k - 1])) - 1) = 0..(Len(T[k]) - 1)
        BY <4>3, Zenon
      <4> QED BY <4>2, <4>4, <4>5, Zenon
    <3> QED BY <3>1, <3>2
  <2>6. Len(p[k - 1].path) \in Nat
    BY <1>11, LenProperties
  <2>7. walks(k)
    BY <2>4, <2>5
  <2>8. /\ Len(p[k - 1].path) <= Len(p[k].path)
        /\ \A j \in 1..Len(p[k - 1].path) : p[k].path[j] = p[k - 1].path[j]
    <3>1. CASE Sibling(p[k - 1].at) < Len(T[k - 1])
      <4>1. Len(p[k].path) = Len(p[k - 1].path) + 1
        BY <2>4, <3>1 DEF Collects
      <4>2. \A j \in 1..Len(p[k - 1].path) : p[k].path[j] = p[k - 1].path[j]
        BY <2>4, <3>1 DEF Collects
      <4> QED BY <2>6, <4>1, <4>2
    <3>2. CASE ~ (Sibling(p[k - 1].at) < Len(T[k - 1]))
      <4>1. p[k].path = p[k - 1].path
        BY <2>4, <3>2 DEF Collects
      <4> QED BY <2>6, <4>1
    <3> QED BY <3>1, <3>2
  <2> QED BY <2>7, <2>8
<1> HIDE DEF walks
<1>12. ASSUME badWalk # {}
      PROVE  FALSE
  <2>1. badWalk \in SUBSET Nat /\ \A k \in 0..m : k \in badWalk <=> ~ walks(k)
    OBVIOUS
  <2>2. \A k \in badWalk : k \in 0..m
    OBVIOUS
  <2> HIDE DEF badWalk
  <2>3. PICK k \in badWalk : \A j \in badWalk : k <= j
    BY <1>12, <2>1, LeastNumber
  <2>4. k \in 0..m /\ ~ walks(k)
    BY <2>1, <2>2, <2>3
  <2>5. k \in 1..m /\ k - 1 \in 0..m /\ ~ (k <= k - 1)
    <3>1. k # 0
      BY <1>10, <2>4
    <3> QED BY <1>1, <2>4, <3>1
  <2>6. walks(k - 1)
    BY <2>1, <2>3, <2>5
  <2> QED BY <1>11, <2>4, <2>5, <2>6
<1>13. \A k \in 0..m : walks(k)
  BY <1>12
<1>14. \A k \in 0..m : Len(p[k].path) \in Nat
  <2>1. \A k \in 0..m : p[k].path \in Seq(H)
    BY <1>13 DEF walks
  <2> QED BY <2>1, LenProperties
<1>15. kept(m)
  BY <1>1, <1>2, <1>14 DEF Extends
<1>16. ASSUME NEW k \in 1..m, kept(k)
       PROVE  kept(k - 1)
  <2>1. /\ Len(p[k - 1].path) <= Len(p[k].path)
        /\ \A j \in 1..Len(p[k - 1].path) : p[k].path[j] = p[k - 1].path[j]
    BY <1>9, <1>11, <1>13
  <2>2. Len(p[k].path) <= Len(proof) /\ \A j \in 1..Len(p[k].path) : proof[j] = p[k].path[j]
    BY <1>16 DEF Extends
  <2>3. Len(p[k].path) \in Nat /\ Len(p[k - 1].path) \in Nat /\ Len(proof) \in Nat
    BY <1>1, <1>2, <1>9, <1>14
  <2>4. \A j \in 1..Len(p[k - 1].path) : j \in 1..Len(p[k].path)
    BY <2>1, <2>3
  <2> QED BY <2>1, <2>2, <2>3, <2>4 DEF Extends
<1> HIDE DEF kept
<1>17. \A k \in 0..m : kept(k)
  <2>1. keepers \in SUBSET Nat /\ m \in keepers
    <3>1. \A j \in m..m : j = m
      BY <1>1
    <3> QED BY <1>1, <1>15, <3>1
  <2>2. \A k \in keepers : k \in 0..m /\ \A j \in k..m : kept(j)
    OBVIOUS
  <2>3. \A k \in Nat : k <= m /\ (\A j \in k..m : kept(j)) => k \in keepers
    OBVIOUS
  <2> HIDE DEF keepers
  <2>4. PICK k \in keepers : \A j \in keepers : k <= j
    BY <2>1, LeastNumber
  <2>5. k \in 0..m /\ \A j \in k..m : kept(j)
    BY <2>2, <2>4
  <2>6. CASE k # 0
    <3>1. k \in 1..m /\ k \in k..m /\ k - 1 \in Nat /\ k - 1 <= m /\ ~ (k <= k - 1)
      BY <1>1, <2>5, <2>6
    <3>2. kept(k - 1)
      BY <1>16, <2>5, <3>1
    <3>3. \A j \in (k - 1)..m : j = k - 1 \/ j \in k..m
      BY <3>1
    <3>4. k - 1 \in keepers
      BY <2>3, <2>5, <3>1, <3>2, <3>3
    <3> QED BY <2>4, <3>1, <3>4
  <2>7. CASE k = 0
    BY <2>5, <2>7
  <2> QED BY <2>6, <2>7
<1>18. inStep(0)
  <2>1. /\ s[0].at = idx /\ s[0].size = m /\ s[0].used = 0 /\ s[0].hash = Leaf(payload)
        /\ s[0].ok = TRUE /\ p[0].at = idx /\ p[0].path = << >>
    BY <1>3, <1>4
  <2> QED BY <1>1, <1>5, <2>1 DEF InStep, StandsIn
<1>19. ASSUME NEW k \in 1..m, inStep(k - 1)
       PROVE  inStep(k)
  <2>1. p[k] = PathRound(p[k - 1], T[k - 1]) /\ s[k] = VerifyRound(s[k - 1], proof)
    BY <1>3, <1>4
  <2>2. IsLevel(T[k - 1], Len(T[k - 1])) /\ Len(T[k - 1]) >= 1 /\ Len(T[k - 1]) \in Nat
    BY <1>5, <1>7, <1>9
  <2>3. CASE Len(T[k - 1]) <= 1
    <3>1. T[k] = T[k - 1]
      BY <1>6, <2>3
    <3>2. Len(T[k - 1]) = 1
      <4>1. \A l \in Nat : l >= 1 /\ l <= 1 => l = 1
        OBVIOUS
      <4> QED BY <2>2, <2>3, <4>1
    <3> QED BY <1>19, <2>1, <3>1, <3>2, LastRoundKeepsStep
  <2>4. CASE ~ (Len(T[k - 1]) <= 1)
    <3>1. T[k] = LevelAbove(T[k - 1])
      BY <1>6, <2>4
    <3>2. Len(T[k - 1]) >= 2
      BY <2>2, <2>4
    <3>3. \A n \in 1..Len(T[k - 1]) : T[k - 1][n] \in H
      BY <1>8, <1>9
    <3>4. p[k - 1].path \in Seq(H) /\ proof \in Seq(H)
      BY <1>1, <1>2, <1>9, <1>13 DEF walks
    <3>5. Extends(PathRound(p[k - 1], T[k - 1]).path, proof)
      <4>1. kept(k)
        BY <1>17
      <4> QED BY <2>1, <4>1 DEF kept
    <3>6. InStep(s[k - 1], p[k - 1], T[k - 1])
      BY <1>19
    <3>7. InStep(VerifyRound(s[k - 1], proof), PathRound(p[k - 1], T[k - 1]),
                 LevelAbove(T[k - 1]))
      BY <2>2, <3>2, <3>3, <3>4, <3>5, <3>6, RoundKeepsStep
    <3> QED BY <2>1, <3>1, <3>7
  <2> QED BY <2>3, <2>4
<1> HIDE DEF inStep
<1>20. ASSUME badStep # {}
      PROVE  FALSE
  <2>1. badStep \in SUBSET Nat /\ \A k \in 0..m : k \in badStep <=> ~ inStep(k)
    OBVIOUS
  <2>2. \A k \in badStep : k \in 0..m
    OBVIOUS
  <2> HIDE DEF badStep
  <2>3. PICK k \in badStep : \A j \in badStep : k <= j
    BY <1>20, <2>1, LeastNumber
  <2>4. k \in 0..m /\ ~ inStep(k)
    BY <2>1, <2>2, <2>3
  <2>5. k \in 1..m /\ k - 1 \in 0..m /\ ~ (k <= k - 1)
    <3>1. k # 0
      BY <1>18, <2>4
    <3> QED BY <1>1, <2>4, <3>1
  <2>6. inStep(k - 1)
    BY <2>1, <2>3, <2>5
  <2> QED BY <1>19, <2>4, <2>5, <2>6
<1>21. InStep(s[m], p[m], T[m])
  <2>1. inStep(m)
    BY <1>1, <1>20
  <2> QED BY <2>1 DEF inStep
<1>22. s[m].ok /\ s[m].at = 0 /\ s[m].hash = T[m][s[m].at + 1]
  BY <1>5, <1>21 DEF InStep, StandsIn
<1> QED BY <1>5, <1>22

-----------------------------------------------------------------------------
(* How deep a hash is.                                                      *)

\* f goes down the left of x, d pairs deep, to a leaf.
Spine(f, x, d) ==
  /\ f[0] = x /\ \E payload : f[d] = Leaf(payload)
  /\ \A k \in 0..(d - 1) : \E r : f[k] = Pair(f[k + 1], r)

\* The left of x is d pairs deep.
Deep(x, d) == d \in Nat /\ \E f : Spine(f, x, d)

\* A leaf is no pair deep,
LEMMA LeafDepth ==
  ASSUME NEW payload
  PROVE  Deep(Leaf(payload), 0)
<1> DEFINE f == [k \in {0} |-> Leaf(payload)]
<1>1. f[0] = Leaf(payload)
  OBVIOUS
<1> HIDE DEF f
<1>2. Spine(f, Leaf(payload), 0)
  BY <1>1 DEF Spine
<1> QED BY <1>2 DEF Deep

\* a pair is one deeper than its left,
LEMMA PairDepth ==
  ASSUME NEW l, NEW r, NEW d, Deep(l, d)
  PROVE  Deep(Pair(l, r), d + 1)
<1>1. d \in Nat /\ \E f : Spine(f, l, d)
  BY DEF Deep
<1>2. PICK f : Spine(f, l, d)
  BY <1>1
<1>3. /\ f[0] = l /\ \E payload : f[d] = Leaf(payload)
      /\ \A k \in 0..(d - 1) : \E q : f[k] = Pair(f[k + 1], q)
  BY <1>2 DEF Spine
<1> DEFINE g == [k \in 0..(d + 1) |-> IF k = 0 THEN Pair(l, r) ELSE f[k - 1]]
<1>4. g[0] = Pair(l, r) /\ \A k \in 0..d : g[k + 1] = f[k]
  <2>1. \A k \in 0..d : k + 1 \in 0..(d + 1) /\ k + 1 # 0 /\ (k + 1) - 1 = k
    BY <1>1
  <2>2. 0 \in 0..(d + 1)
    BY <1>1
  <2> QED BY <2>1, <2>2
<1> HIDE DEF g
<1>5. \E payload : g[d + 1] = Leaf(payload)
  BY <1>1, <1>3, <1>4
<1>6. ASSUME NEW k \in 0..d
      PROVE  \E q : g[k] = Pair(g[k + 1], q)
  <2>1. CASE k = 0
    BY <1>1, <1>3, <1>4, <2>1
  <2>2. CASE k # 0
    <3>1. k - 1 \in 0..(d - 1) /\ k - 1 \in 0..d /\ (k - 1) + 1 = k
      BY <1>1, <2>2
    <3>2. PICK q : f[k - 1] = Pair(f[k], q)
      BY <1>3, <3>1
    <3>3. g[k] = f[k - 1]
      BY <1>4, <3>1
    <3>4. g[k + 1] = f[k]
      BY <1>4
    <3> QED BY <3>2, <3>3, <3>4
  <2> QED BY <2>1, <2>2
<1>7. Spine(g, Pair(l, r), d + 1)
  <2>1. (d + 1) - 1 = d
    BY <1>1
  <2> QED BY <1>4, <1>5, <1>6, <2>1 DEF Spine
<1> QED BY <1>1, <1>7 DEF Deep

\* and a hash is so deep and no deeper.
LEMMA OneDepth ==
  ASSUME NEW x, NEW d, NEW e, Deep(x, d), Deep(x, e)
  PROVE  d = e
<1>1. ASSUME NEW a, NEW b, Deep(x, a), Deep(x, b), a < b
      PROVE  FALSE
  <2>1. a \in Nat /\ b \in Nat /\ (\E f : Spine(f, x, a)) /\ \E f : Spine(f, x, b)
    BY <1>1 DEF Deep
  <2>2. PICK f : Spine(f, x, a)
    BY <2>1
  <2>3. PICK g : Spine(g, x, b)
    BY <2>1
  <2>4. /\ f[0] = x /\ \E payload : f[a] = Leaf(payload)
        /\ \A k \in 0..(a - 1) : \E r : f[k] = Pair(f[k + 1], r)
    BY <2>2 DEF Spine
  <2>5. /\ g[0] = x /\ \A k \in 0..(b - 1) : \E r : g[k] = Pair(g[k + 1], r)
    BY <2>3 DEF Spine
  <2> DEFINE apart == {k \in 0..a : f[k] # g[k]}
  <2>6. ASSUME apart # {}
        PROVE  FALSE
    <3>1. apart \in SUBSET Nat /\ \A k \in 0..a : k \in apart <=> f[k] # g[k]
      OBVIOUS
    <3>2. \A k \in apart : k \in 0..a
      OBVIOUS
    <3> HIDE DEF apart
    <3>3. PICK k \in apart : \A j \in apart : k <= j
      BY <2>6, <3>1, LeastNumber
    <3>4. k \in 0..a /\ f[k] # g[k]
      BY <3>1, <3>2, <3>3
    <3>5. k # 0
      BY <2>4, <2>5, <3>4
    <3>6. /\ k - 1 \in 0..a /\ k - 1 \in 0..(a - 1) /\ k - 1 \in 0..(b - 1)
          /\ (k - 1) + 1 = k /\ ~ (k <= k - 1)
      BY <1>1, <2>1, <3>4, <3>5
    <3>7. f[k - 1] = g[k - 1]
      BY <3>1, <3>3, <3>6
    <3>8. PICK r : f[k - 1] = Pair(f[k], r)
      BY <2>4, <3>6
    <3>9. PICK q : g[k - 1] = Pair(g[k], q)
      BY <2>5, <3>6
    <3>10. Pair(f[k], r) = Pair(g[k], q)
      BY <3>7, <3>8, <3>9
    <3>11. f[k] = g[k]
      BY <3>10, HashFacts
    <3> QED BY <3>4, <3>11
  <2>7. f[a] = g[a]
    <3>1. a \in 0..a
      BY <2>1
    <3> QED BY <2>6, <3>1
  <2>8. a \in 0..(b - 1)
    BY <1>1, <2>1
  <2>9. PICK r : g[a] = Pair(g[a + 1], r)
    BY <2>5, <2>8
  <2>10. PICK payload : f[a] = Leaf(payload)
    BY <2>4
  <2>11. Leaf(payload) = Pair(g[a + 1], r)
    BY <2>7, <2>9, <2>10
  <2> QED BY <2>11, HashFacts
<1>2. d \in Nat /\ e \in Nat
  BY DEF Deep
<1>3. ~ (d < e) /\ ~ (e < d)
  BY <1>1
<1> QED BY <1>2, <1>3

\* No hash that has a depth is the root of the empty log.
LEMMA DeepIsNotEmpty ==
  ASSUME NEW x, NEW d, Deep(x, d)
  PROVE  x # EmptyRoot
<1>1. d \in Nat /\ \E f : Spine(f, x, d)
  BY DEF Deep
<1>2. PICK f : Spine(f, x, d)
  BY <1>1
<1>3. /\ f[0] = x /\ \E payload : f[d] = Leaf(payload)
      /\ \A k \in 0..(d - 1) : \E r : f[k] = Pair(f[k + 1], r)
  BY <1>2 DEF Spine
<1>4. CASE d = 0
  BY <1>3, <1>4, HashFacts
<1>5. CASE d # 0
  <2>1. 0 \in 0..(d - 1)
    BY <1>1, <1>5
  <2>2. PICK r : f[0] = Pair(f[0 + 1], r)
    BY <1>3, <2>1
  <2> QED BY <1>3, <2>2, HashFacts
<1> QED BY <1>4, <1>5

\* In a level k rounds up every hash is at most k deep, and the first, and every one but the
\* last, just k.
DeepLevel(level, k) ==
  \A n \in 1..Len(level) : /\ \E d \in 0..k : Deep(level[n], d)
                           /\ n < Len(level) \/ n = 1 => Deep(level[n], k)

\* The leaves are such a level,
LEMMA LeavesAreDeep ==
  ASSUME NEW ls, \A n \in 1..Len(ls) : \E payload : ls[n] = Leaf(payload)
  PROVE  DeepLevel(ls, 0)
<1>1. \A n \in 1..Len(ls) : Deep(ls[n], 0)
  BY LeafDepth
<1>2. 0 \in 0..0
  OBVIOUS
<1> QED BY <1>1, <1>2 DEF DeepLevel

\* and so is the level above one that has two.
LEMMA AboveIsDeeper ==
  ASSUME NEW level, NEW m, IsLevel(level, m), m >= 2, NEW k \in Nat, DeepLevel(level, k)
  PROVE  DeepLevel(LevelAbove(level), k + 1)
<1>1. m \in Nat /\ Len(level) = m
  BY LevelIsSeq
<1>2. PICK up : up = LevelAbove(level)
  OBVIOUS
<1>3. Len(up) = HalfUp(m) /\ HalfUp(m) \in Nat /\ m <= 2 * HalfUp(m) /\ 2 * HalfUp(m) <= m + 1
  BY <1>1, <1>2, AboveIsLevel, LevelIsSeq, HalfFacts
<1>4. \A n \in 1..HalfUp(m) :
        /\ 2 * n <= m => up[n] = Pair(level[2 * n - 1], level[2 * n])
        /\ 2 * n > m => up[n] = level[2 * n - 1] /\ 2 * n = m + 1
  BY <1>2, AboveIsLevel
<1>5. \A n \in 1..m : /\ \E d \in 0..k : Deep(level[n], d)
                      /\ n < m \/ n = 1 => Deep(level[n], k)
  BY <1>1 DEF DeepLevel
<1>6. ASSUME NEW n \in 1..HalfUp(m)
      PROVE  /\ \E d \in 0..(k + 1) : Deep(up[n], d)
             /\ n < HalfUp(m) \/ n = 1 => Deep(up[n], k + 1)
  <2>1. 2 * n - 1 \in 1..m
    BY <1>1, <1>3
  <2>2. CASE 2 * n <= m
    <3>1. 2 * n - 1 < m
      BY <1>1, <2>2
    <3>2. Deep(level[2 * n - 1], k)
      BY <1>5, <2>1, <3>1
    <3>3. Deep(up[n], k + 1)
      BY <1>4, <2>2, <3>2, PairDepth
    <3>4. k + 1 \in 0..(k + 1)
      OBVIOUS
    <3> QED BY <3>3, <3>4
  <2>3. CASE 2 * n > m
    <3>1. up[n] = level[2 * n - 1] /\ 2 * n = m + 1
      BY <1>4, <2>3
    <3>2. ~ (n < HalfUp(m) \/ n = 1)
      BY <1>1, <1>3, <3>1
    <3>3. PICK d \in 0..k : Deep(level[2 * n - 1], d)
      BY <1>5, <2>1
    <3>4. d \in 0..(k + 1)
      BY <3>3
    <3> QED BY <3>1, <3>2, <3>3, <3>4
  <2> QED BY <1>1, <1>3, <2>2, <2>3
<1>7. DeepLevel(up, k + 1)
  BY <1>3, <1>6 DEF DeepLevel
<1> QED BY <1>2, <1>7

\* A level of an odd size has not the same level above as one that is a hash longer.
LEMMA OddIsNotEven ==
  ASSUME NEW a, NEW b, NEW h \in Nat, IsLevel(a, 2 * h - 1), IsLevel(b, 2 * h), h >= 1,
         NEW k \in Nat, DeepLevel(a, k), DeepLevel(b, k), LevelAbove(a) = LevelAbove(b)
  PROVE  FALSE
<1>1. Len(a) = 2 * h - 1 /\ Len(b) = 2 * h
  BY LevelIsSeq
<1>2. HalfUp(2 * h - 1) = h /\ HalfUp(2 * h) = h /\ h \in 1..h
  BY DEF HalfUp
<1>3. LevelAbove(a)[h] = a[2 * h - 1]
  <2>1. 2 * h > 2 * h - 1
    OBVIOUS
  <2> QED BY <1>2, <2>1, AboveIsLevel
<1>4. LevelAbove(b)[h] = Pair(b[2 * h - 1], b[2 * h])
  BY <1>2, AboveIsLevel
<1>5. PICK d \in 0..k : Deep(a[2 * h - 1], d)
  <2>1. 2 * h - 1 \in 1..(2 * h - 1)
    OBVIOUS
  <2> QED BY <1>1, <2>1 DEF DeepLevel
<1>6. Deep(b[2 * h - 1], k)
  <2>1. 2 * h - 1 \in 1..(2 * h) /\ 2 * h - 1 < 2 * h
    OBVIOUS
  <2> QED BY <1>1, <2>1 DEF DeepLevel
<1>7. Deep(a[2 * h - 1], k + 1)
  BY <1>3, <1>4, <1>6, PairDepth
<1>8. d = k + 1
  BY <1>5, <1>7, OneDepth
<1> QED BY <1>5, <1>8

\* Two levels as high as each other are one if the level above them is.
LEMMA OneBelow ==
  ASSUME NEW a, NEW b, NEW m, NEW n, IsLevel(a, m), IsLevel(b, n), m >= 2, n >= 2,
         NEW k \in Nat, DeepLevel(a, k), DeepLevel(b, k), LevelAbove(a) = LevelAbove(b)
  PROVE  a = b
<1>1. m \in Nat /\ n \in Nat /\ Len(a) = m /\ Len(b) = n
  BY LevelIsSeq
<1>2. HalfUp(m) = HalfUp(n)
  <2>1. Len(LevelAbove(a)) = HalfUp(m)
    BY AboveIsLevel, LevelIsSeq
  <2>2. Len(LevelAbove(b)) = HalfUp(n)
    BY AboveIsLevel, LevelIsSeq
  <2> QED BY <2>1, <2>2
<1>3. PICK h : h = HalfUp(m)
  OBVIOUS
<1>4. /\ h \in Nat /\ h >= 1 /\ h = HalfUp(n)
      /\ m <= 2 * h /\ 2 * h <= m + 1 /\ n <= 2 * h /\ 2 * h <= n + 1
  <2>1. h \in Nat /\ h >= 1 /\ m <= 2 * h /\ 2 * h <= m + 1
    BY <1>1, <1>3, HalfFacts
  <2>2. h = HalfUp(n) /\ n <= 2 * h /\ 2 * h <= n + 1
    BY <1>1, <1>2, <1>3, HalfFacts
  <2> QED BY <2>1, <2>2
<1>5. m = n
  <2>1. \/ m = n
        \/ m = 2 * h - 1 /\ n = 2 * h
        \/ n = 2 * h - 1 /\ m = 2 * h
    BY <1>1, <1>4
  <2>2. CASE m = 2 * h - 1 /\ n = 2 * h
    <3>1. IsLevel(a, 2 * h - 1) /\ IsLevel(b, 2 * h)
      BY <2>2
    <3> QED BY <1>4, <3>1, OddIsNotEven
  <2>3. CASE n = 2 * h - 1 /\ m = 2 * h
    <3>1. IsLevel(b, 2 * h - 1) /\ IsLevel(a, 2 * h)
      BY <2>3
    <3> QED BY <1>4, <3>1, OddIsNotEven
  <2> QED BY <2>1, <2>2, <2>3
<1>6. \A j \in 1..h :
        /\ 2 * j <= m => LevelAbove(a)[j] = Pair(a[2 * j - 1], a[2 * j])
        /\ 2 * j > m => LevelAbove(a)[j] = a[2 * j - 1]
  BY <1>3, AboveIsLevel
<1>7. \A j \in 1..h :
        /\ 2 * j <= m => LevelAbove(b)[j] = Pair(b[2 * j - 1], b[2 * j])
        /\ 2 * j > m => LevelAbove(b)[j] = b[2 * j - 1]
  BY <1>4, <1>5, AboveIsLevel
<1>8. ASSUME NEW j \in 1..h
      PROVE  a[2 * j - 1] = b[2 * j - 1] /\ (2 * j <= m => a[2 * j] = b[2 * j])
  <2>1. CASE 2 * j <= m
    <3>1. Pair(a[2 * j - 1], a[2 * j]) = Pair(b[2 * j - 1], b[2 * j])
      BY <1>6, <1>7, <2>1
    <3> QED BY <3>1, HashFacts
  <2>2. CASE 2 * j > m
    <3>1. a[2 * j - 1] = b[2 * j - 1]
      BY <1>6, <1>7, <2>2
    <3> QED BY <1>1, <2>2, <3>1
  <2> QED BY <1>1, <2>1, <2>2
<1>9. ASSUME NEW i \in 1..m
      PROVE  a[i] = b[i]
  <2>1. PICK j : j = HalfUp(i)
    OBVIOUS
  <2>2. j \in Nat /\ (i = 2 * j \/ i = 2 * j - 1)
    BY <1>1, <2>1 DEF HalfUp
  <2>3. j \in 1..h
    BY <1>1, <1>4, <2>2
  <2>4. CASE i = 2 * j
    <3>1. 2 * j <= m
      BY <1>1, <2>4
    <3> QED BY <1>8, <2>3, <2>4, <3>1
  <2>5. CASE i = 2 * j - 1
    BY <1>8, <2>3, <2>5
  <2> QED BY <2>2, <2>4, <2>5
<1> QED BY <1>5, <1>9 DEF IsLevel

-----------------------------------------------------------------------------
(* Two logs with one root.                                                  *)

\* T has the levels over ls, the root is alone in level h and in none below it.
TreeOfHeight(T, ls, h) ==
  /\ h \in Nat /\ T[0] = ls
  /\ Len(T[h]) = 1 /\ Root(ls) = T[h][1]
  /\ \A k \in 0..h : IsLevel(T[k], Len(T[k])) /\ Len(T[k]) >= 1
  /\ \A k \in 1..h : Len(T[k - 1]) >= 2 /\ T[k] = LevelAbove(T[k - 1])

\* A tree has a height.
LEMMA TreeHasHeight ==
  ASSUME NEW T, NEW ls, NEW m \in Nat, GrownTree(T, ls, m)
  PROVE  \E h : TreeOfHeight(T, ls, h)
<1>1. /\ T[0] = ls /\ Len(T[m]) = 1 /\ Root(ls) = T[m][1]
      /\ \A k \in 0..m : IsLevel(T[k], Len(T[k])) /\ Len(T[k]) >= 1
  BY DEF GrownTree
<1>2. \A k \in 1..m : IF Len(T[k - 1]) <= 1 THEN T[k] = T[k - 1] ELSE T[k] = LevelAbove(T[k - 1])
  BY DEF GrownTree
<1>3. \A k \in 0..m : Len(T[k]) \in Nat
  BY <1>1, LevelIsSeq
<1> DEFINE done == {k \in 0..m : Len(T[k]) = 1}
           unlike(h) == {k \in h..m : T[k] # T[h]}
<1>4. PICK h \in 0..m : Len(T[h]) = 1 /\ \A k \in 0..m : k < h => Len(T[k]) # 1
  <2>1. done \in SUBSET Nat /\ done # {} /\ \A k \in 0..m : k \in done <=> Len(T[k]) = 1
    BY <1>1
  <2>2. \A k \in done : k \in 0..m
    OBVIOUS
  <2> HIDE DEF done
  <2>3. PICK h \in done : \A j \in done : h <= j
    BY <2>1, LeastNumber
  <2>4. h \in 0..m /\ Len(T[h]) = 1
    BY <2>1, <2>2, <2>3
  <2>5. \A k \in 0..m : k < h => k \notin done
    BY <2>3, <2>4
  <2> QED BY <2>1, <2>4, <2>5
<1>5. h \in Nat /\ h <= m
  BY <1>4
<1>6. ASSUME unlike(h) # {}
      PROVE  FALSE
  <2>1. unlike(h) \in SUBSET Nat
    BY <1>5
  <2>2. \A k \in h..m : k \in unlike(h) <=> T[k] # T[h]
    OBVIOUS
  <2>3. \A k \in unlike(h) : k \in h..m
    OBVIOUS
  <2> HIDE DEF unlike
  <2>4. PICK k \in unlike(h) : \A j \in unlike(h) : k <= j
    BY <1>6, <2>1, LeastNumber
  <2>5. k \in h..m /\ T[k] # T[h]
    BY <2>2, <2>3, <2>4
  <2>6. k # h
    BY <2>5
  <2>7. k \in 1..m /\ k - 1 \in h..m /\ ~ (k <= k - 1)
    BY <1>5, <2>5, <2>6
  <2>8. T[k - 1] = T[h]
    BY <2>2, <2>4, <2>7
  <2>9. Len(T[k - 1]) <= 1
    <3>1. Len(T[k - 1]) = 1
      BY <1>4, <2>8
    <3> QED BY <3>1
  <2> QED BY <1>2, <2>5, <2>7, <2>8, <2>9
<1>7. T[m] = T[h]
  <2>1. m \in h..m
    BY <1>5
  <2> QED BY <1>6, <2>1
<1>8. ASSUME NEW k \in 1..h
      PROVE  Len(T[k - 1]) >= 2 /\ T[k] = LevelAbove(T[k - 1])
  <2>1. k \in 1..m /\ k - 1 \in 0..m /\ k - 1 < h
    BY <1>5
  <2>2. Len(T[k - 1]) \in Nat /\ Len(T[k - 1]) >= 1 /\ Len(T[k - 1]) # 1
    BY <1>1, <1>3, <1>4, <2>1
  <2>3. \A l \in Nat : l >= 1 /\ l # 1 => l >= 2 /\ ~ (l <= 1)
    OBVIOUS
  <2>4. Len(T[k - 1]) >= 2 /\ ~ (Len(T[k - 1]) <= 1)
    BY <2>2, <2>3
  <2> QED BY <1>2, <2>1, <2>4
<1>9. \A k \in 0..h : IsLevel(T[k], Len(T[k])) /\ Len(T[k]) >= 1
  <2>1. \A k \in 0..h : k \in 0..m
    BY <1>5
  <2> QED BY <1>1, <2>1
<1> QED BY <1>1, <1>4, <1>5, <1>7, <1>8, <1>9 DEF TreeOfHeight

\* Every level of a tree over leaves is as deep as it is high.
LEMMA LevelsAreDeep ==
  ASSUME NEW T, NEW ls, NEW h, TreeOfHeight(T, ls, h),
         \A n \in 1..Len(ls) : \E payload : ls[n] = Leaf(payload)
  PROVE  /\ \A k \in 0..h : DeepLevel(T[k], k)
         /\ Deep(Root(ls), h)
<1>1. /\ h \in Nat /\ T[0] = ls /\ Len(T[h]) = 1 /\ Root(ls) = T[h][1]
      /\ \A k \in 0..h : IsLevel(T[k], Len(T[k]))
      /\ \A k \in 1..h : Len(T[k - 1]) >= 2 /\ T[k] = LevelAbove(T[k - 1])
  BY DEF TreeOfHeight
<1> DEFINE flat == {k \in 0..h : ~ DeepLevel(T[k], k)}
<1>2. DeepLevel(T[0], 0)
  BY <1>1, LeavesAreDeep
<1>3. ASSUME flat # {}
      PROVE  FALSE
  <2>1. flat \in SUBSET Nat /\ \A k \in 0..h : k \in flat <=> ~ DeepLevel(T[k], k)
    OBVIOUS
  <2>2. \A k \in flat : k \in 0..h
    OBVIOUS
  <2> HIDE DEF flat
  <2>3. PICK k \in flat : \A j \in flat : k <= j
    BY <1>3, <2>1, LeastNumber
  <2>4. k \in 0..h /\ ~ DeepLevel(T[k], k)
    BY <2>1, <2>2, <2>3
  <2>5. k # 0
    BY <1>2, <2>4
  <2>6. k \in 1..h /\ k - 1 \in 0..h /\ k - 1 \in Nat /\ (k - 1) + 1 = k /\ ~ (k <= k - 1)
    BY <1>1, <2>4, <2>5
  <2>7. DeepLevel(T[k - 1], k - 1)
    BY <2>1, <2>3, <2>6
  <2>8. DeepLevel(LevelAbove(T[k - 1]), (k - 1) + 1)
    BY <1>1, <2>6, <2>7, AboveIsDeeper
  <2> QED BY <1>1, <2>4, <2>6, <2>8
<1>4. \A k \in 0..h : DeepLevel(T[k], k)
  BY <1>3
<1>5. Deep(T[h][1], h)
  <2>1. DeepLevel(T[h], h)
    BY <1>1, <1>4
  <2> QED BY <1>1, <2>1 DEF DeepLevel
<1> QED BY <1>1, <1>4, <1>5

\* Trees over leaves with one root are over the same leaves.
LEMMA OneRootOneLog ==
  ASSUME NEW T, NEW ls, NEW h, TreeOfHeight(T, ls, h),
         NEW U, NEW us, NEW g, TreeOfHeight(U, us, g),
         \A n \in 1..Len(ls) : \E payload : ls[n] = Leaf(payload),
         \A n \in 1..Len(us) : \E payload : us[n] = Leaf(payload),
         Root(ls) = Root(us)
  PROVE  ls = us
<1>1. /\ \A k \in 0..h : DeepLevel(T[k], k)
      /\ Deep(Root(ls), h)
  BY LevelsAreDeep
<1>2. /\ \A k \in 0..g : DeepLevel(U[k], k)
      /\ Deep(Root(us), g)
  BY LevelsAreDeep
<1>3. h = g
  BY <1>1, <1>2, OneDepth
<1>4. /\ h \in Nat /\ T[0] = ls /\ Len(T[h]) = 1 /\ Root(ls) = T[h][1]
      /\ \A k \in 0..h : IsLevel(T[k], Len(T[k]))
      /\ \A k \in 1..h : Len(T[k - 1]) >= 2 /\ T[k] = LevelAbove(T[k - 1])
  BY DEF TreeOfHeight
<1>5. /\ U[0] = us /\ Len(U[h]) = 1 /\ Root(us) = U[h][1]
      /\ \A k \in 0..h : IsLevel(U[k], Len(U[k]))
      /\ \A k \in 1..h : Len(U[k - 1]) >= 2 /\ U[k] = LevelAbove(U[k - 1])
  BY <1>3 DEF TreeOfHeight
<1>6. T[h] = U[h]
  <2>1. IsLevel(T[h], 1) /\ IsLevel(U[h], 1)
    <3>1. h \in 0..h
      BY <1>4
    <3>2. IsLevel(T[h], Len(T[h])) /\ IsLevel(U[h], Len(U[h]))
      BY <1>4, <1>5, <3>1
    <3> QED BY <1>4, <1>5, <3>2
  <2>2. \A n \in 1..1 : T[h][n] = U[h][n]
    <3>1. T[h][1] = U[h][1]
      BY <1>4, <1>5
    <3>2. \A n \in 1..1 : n = 1
      OBVIOUS
    <3> QED BY <3>1, <3>2
  <2> QED BY <2>1, <2>2 DEF IsLevel
<1> DEFINE same == {k \in 0..h : T[k] = U[k]}
<1>7. 0 \in same
  <2>1. same \in SUBSET Nat /\ \A k \in same : k \in 0..h /\ T[k] = U[k]
    OBVIOUS
  <2>2. \A k \in 0..h : T[k] = U[k] => k \in same
    OBVIOUS
  <2>3. same # {}
    <3>1. h \in 0..h
      BY <1>4
    <3> QED BY <1>6, <3>1
  <2> HIDE DEF same
  <2>4. PICK k \in same : \A j \in same : k <= j
    BY <2>1, <2>3, LeastNumber
  <2>5. k \in 0..h /\ T[k] = U[k]
    BY <2>1, <2>4
  <2>6. CASE k # 0
    <3>1. k \in 1..h /\ k - 1 \in 0..h /\ k - 1 \in Nat /\ ~ (k <= k - 1)
      BY <1>4, <2>5, <2>6
    <3>2. IsLevel(T[k - 1], Len(T[k - 1])) /\ Len(T[k - 1]) >= 2
      BY <1>4, <3>1
    <3>3. IsLevel(U[k - 1], Len(U[k - 1])) /\ Len(U[k - 1]) >= 2
      BY <1>5, <3>1
    <3>4. DeepLevel(T[k - 1], k - 1) /\ DeepLevel(U[k - 1], k - 1)
      BY <1>1, <1>2, <1>3, <3>1
    <3>5. LevelAbove(T[k - 1]) = LevelAbove(U[k - 1])
      BY <1>4, <1>5, <2>5, <3>1
    <3>6. T[k - 1] = U[k - 1]
      BY <3>1, <3>2, <3>3, <3>4, <3>5, OneBelow
    <3>7. k - 1 \in same
      BY <2>2, <3>1, <3>6
    <3> QED BY <2>4, <3>1, <3>7
  <2> QED BY <2>4, <2>6
<1> QED BY <1>4, <1>5, <1>7

-----------------------------------------------------------------------------
(* The theorems.                                                            *)

\* The leaves of a log of these payloads.
LeavesOf(ps) == [n \in DOMAIN ps |-> Leaf(ps[n])]

\* merkle.rs: the log is the leaves of what was appended, in order.
MerkleInv ==
  /\ payloads \in Seq(Payloads)
  /\ leaves = LeavesOf(payloads)

\* They are a level, and each is a leaf.
LEMMA LeavesAreLeaves ==
  ASSUME NEW S, NEW ps \in Seq(S)
  PROVE  /\ IsLevel(LeavesOf(ps), Len(ps)) /\ Len(LeavesOf(ps)) = Len(ps) /\ Len(ps) \in Nat
         /\ \A n \in 1..Len(ps) : LeavesOf(ps)[n] = Leaf(ps[n])
<1>1. Len(ps) \in Nat /\ DOMAIN ps = 1..Len(ps)
  BY LenProperties
<1>2. LeavesOf(ps) = [n \in 1..Len(ps) |-> Leaf(ps[n])]
  BY <1>1 DEF LeavesOf
<1>3. \A n \in 1..Len(ps) : LeavesOf(ps)[n] = Leaf(ps[n])
  BY <1>2
<1>4. IsLevel(LeavesOf(ps), Len(ps))
  BY <1>1, <1>2 DEF IsLevel
<1> QED BY <1>1, <1>3, <1>4, LevelIsSeq

\* The tree over the leaves of a log that is not empty has a height.
LEMMA LogHasTree ==
  ASSUME NEW S, NEW ps \in Seq(S), ps # << >>
  PROVE  /\ GrownTree(Tree(LeavesOf(ps)), LeavesOf(ps), Len(ps))
         /\ \E T, h : TreeOfHeight(T, LeavesOf(ps), h)
         /\ Len(ps) >= 1
<1>1. Len(ps) \in Nat /\ Len(ps) >= 1
  BY EmptySeq, LenProperties
<1>2. IsLevel(LeavesOf(ps), Len(ps))
  BY LeavesAreLeaves
<1>3. GrownTree(Tree(LeavesOf(ps)), LeavesOf(ps), Len(ps))
  BY <1>1, <1>2, TreeIsGrown
<1>4. \E h : TreeOfHeight(Tree(LeavesOf(ps)), LeavesOf(ps), h)
  BY <1>1, <1>3, TreeHasHeight
<1> QED BY <1>1, <1>3, <1>4

\* In every reachable state the leaves are those of the payloads appended.
THEOREM MerkleInvariant == MerkleSpec => []MerkleInv
<1>1. MerkleInit => MerkleInv
  BY DEF MerkleInit, MerkleInv, LeavesOf
<1>2. MerkleInv /\ [MerkleNext]_merkleVars => MerkleInv'
  <2> SUFFICES ASSUME MerkleInv, [MerkleNext]_merkleVars
               PROVE  MerkleInv'
    OBVIOUS
  <2>1. ASSUME NEW payload \in Payloads, AppendEntry(payload)
        PROVE  MerkleInv'
    <3>1. payloads \in Seq(Payloads) /\ leaves = LeavesOf(payloads)
      BY DEF MerkleInv
    <3>2. payloads' = Append(payloads, payload) /\ leaves' = Append(leaves, Leaf(payload))
      BY <2>1 DEF AppendEntry
    <3>3. PICK m \in Nat : m = Len(payloads)
      BY <3>1, LenProperties
    <3>4. IsLevel(leaves, m) /\ \A n \in 1..m : leaves[n] = Leaf(payloads[n])
      BY <3>1, <3>3, LeavesAreLeaves
    <3>5. payloads' \in Seq(Payloads) /\ DOMAIN payloads' = 1..(m + 1)
      BY <3>1, <3>2, <3>3
    <3>6. leaves' = [n \in 1..(m + 1) |-> IF n <= m THEN leaves[n] ELSE Leaf(payload)]
      <4>1. Len(leaves) = m
        BY <3>4, LevelIsSeq
      <4>2. PICK H : leaves \in Seq(H) /\ Leaf(payload) \in H
        <5>1. leaves \in Seq({leaves[n] : n \in DOMAIN leaves})
          BY <3>4, LevelIsSeq
        <5>2. leaves \in Seq({leaves[n] : n \in DOMAIN leaves} \cup {Leaf(payload)})
          BY <5>1
        <5> QED BY <5>2
      <4>3. /\ leaves' \in Seq(H) /\ Len(leaves') = m + 1
            /\ \A n \in 1..m : leaves'[n] = leaves[n]
            /\ leaves'[m + 1] = Leaf(payload)
        BY <3>2, <4>1, <4>2, AppendProperties
      <4>4. leaves' = [n \in 1..(m + 1) |-> leaves'[n]]
        BY <4>3
      <4>5. \A n \in 1..(m + 1) : (n \in 1..m /\ n <= m) \/ (n = m + 1 /\ ~ (n <= m))
        OBVIOUS
      <4>6. \A n \in 1..(m + 1) : leaves'[n] = IF n <= m THEN leaves[n] ELSE Leaf(payload)
        BY <4>3, <4>5
      <4> QED BY <4>4, <4>6
    <3>7. \A n \in 1..(m + 1) : payloads'[n] = IF n <= m THEN payloads[n] ELSE payload
      BY <3>1, <3>2, <3>3
    <3>8. leaves' = [n \in 1..(m + 1) |-> Leaf(payloads'[n])]
      BY <3>4, <3>6, <3>7
    <3> QED BY <3>5, <3>8 DEF MerkleInv, LeavesOf
  <2>2. CASE Ask
    BY <2>2 DEF Ask, merkleVars, MerkleInv, LeavesOf
  <2>3. CASE UNCHANGED merkleVars
    BY <2>3 DEF merkleVars, MerkleInv, LeavesOf
  <2> QED BY <2>1, <2>2, <2>3 DEF MerkleNext
<1> QED BY <1>1, <1>2, PTL DEF MerkleSpec

\* Every proof the log hands out is accepted for its own entry (proof, verify).
THEOREM ProofsVerifyHolds == MerkleSpec => []ProofsVerify
<1>1. MerkleInv => ProofsVerify
  <2> SUFFICES ASSUME MerkleInv, NEW idx \in Indices
               PROVE  Verify(payloads[idx + 1], idx, Len(leaves), Proof(leaves, idx), Root(leaves))
    BY DEF ProofsVerify
  <2>1. payloads \in Seq(Payloads) /\ leaves = LeavesOf(payloads)
    BY DEF MerkleInv
  <2>2. PICK m \in Nat : m = Len(payloads)
    BY <2>1, LenProperties
  <2>3. /\ IsLevel(leaves, m) /\ Len(leaves) = m
        /\ \A n \in 1..m : leaves[n] = Leaf(payloads[n])
    BY <2>1, <2>2, LeavesAreLeaves
  <2>4. idx \in 0..(m - 1) /\ m >= 1 /\ m # 0 /\ idx + 1 \in 1..m
    BY <2>2, <2>3 DEF Indices
  <2>5. GrownTree(Tree(leaves), leaves, m)
    BY <2>3, <2>4, TreeIsGrown
  <2>6. PICK p : IsPath(p, Tree(leaves), idx, m) /\ Proof(leaves, idx) = p[m].path
    BY <2>3, PathIsRounds
  <2>7. PICK payload : payload = payloads[idx + 1] /\ Leaf(payload) = leaves[idx + 1]
    BY <2>3, <2>4
  <2>8. PICK s : IsAscent(s, payload, idx, m, p[m].path)
                 /\ Ascent(payload, idx, m, p[m].path)[m] = s[m]
    BY AscentIsRounds
  <2>9. s[m].ok /\ s[m].hash = Root(leaves)
    BY <2>3, <2>4, <2>5, <2>6, <2>7, <2>8, OwnProofAccepted
  <2>10. Verify(payload, idx, m, p[m].path, Root(leaves))
    BY <2>4, <2>8, <2>9 DEF Verify
  <2> QED BY <2>3, <2>6, <2>7, <2>10
<1> QED BY <1>1, MerkleInvariant, PTL

\* No proof makes another payload pass for an entry of the log, whatever the proof is made of.
LEMMA AcceptedIsTheEntry ==
  ASSUME MerkleInv, leaves # << >>, NEW proof, NEW idx \in Indices, NEW payload,
         Verify(payload, idx, Len(leaves), proof, Root(leaves))
  PROVE  payload = payloads[idx + 1]
<1>1. payloads \in Seq(Payloads) /\ leaves = LeavesOf(payloads)
  BY DEF MerkleInv
<1>2. PICK m \in Nat : m = Len(payloads)
  BY <1>1, LenProperties
<1>3. /\ IsLevel(leaves, m) /\ Len(leaves) = m
      /\ \A n \in 1..m : leaves[n] = Leaf(payloads[n])
  BY <1>1, <1>2, LeavesAreLeaves
<1>4. idx \in 0..(m - 1) /\ m >= 1 /\ idx + 1 \in 1..m
  BY <1>2, <1>3 DEF Indices
<1>5. GrownTree(Tree(leaves), leaves, m)
  BY <1>3, <1>4, TreeIsGrown
<1>6. PICK s : IsAscent(s, payload, idx, m, proof) /\ Ascent(payload, idx, m, proof)[m] = s[m]
  BY AscentIsRounds
<1>7. s[m].ok /\ s[m].hash = Root(leaves)
  BY <1>3, <1>6 DEF Verify
<1>8. Leaf(payload) = leaves[idx + 1]
  <2>1. IsLevel(leaves, m) /\ m >= 1 /\ idx \in 0..(m - 1)
    BY <1>3, <1>4
  <2>2. IsAscent(s, payload, idx, m, proof)
    BY <1>6
  <2> QED BY <1>5, <1>7, <2>1, <2>2, AcceptedIsTheLeaf
<1>9. Leaf(payload) = Leaf(payloads[idx + 1])
  BY <1>3, <1>4, <1>8
<1> QED BY <1>9, HashFacts

\* No proof put together from hashes of the tree, and no longer than the first entry's, makes
\* verify accept another payload for the entry at a position.
THEOREM VerifySoundHolds == MerkleSpec => []VerifySound
<1>1. MerkleInv => VerifySound
  BY AcceptedIsTheEntry DEF VerifySound
<1> QED BY <1>1, MerkleInvariant, PTL

\* merkle.rs: no log but this one has its root, whatever was inserted, edited or deleted.
LEMMA OneRootOneHistory ==
  ASSUME MerkleInv, leaves # << >>, NEW S, NEW other \in Seq(S),
         Root(LeavesOf(other)) = Root(leaves)
  PROVE  other = payloads
<1>1. payloads \in Seq(Payloads) /\ leaves = LeavesOf(payloads)
  BY DEF MerkleInv
<1>2. /\ IsLevel(leaves, Len(payloads)) /\ Len(leaves) = Len(payloads) /\ Len(payloads) \in Nat
      /\ \A n \in 1..Len(payloads) : leaves[n] = Leaf(payloads[n])
  BY <1>1, LeavesAreLeaves
<1>3. PICK os : os = LeavesOf(other)
  OBVIOUS
<1>4. /\ IsLevel(os, Len(other)) /\ Len(os) = Len(other) /\ Len(other) \in Nat
      /\ \A n \in 1..Len(other) : os[n] = Leaf(other[n])
  BY <1>3, LeavesAreLeaves
<1>5. payloads # << >>
  <2>1. payloads = << >> => leaves = << >>
    BY <1>1 DEF LeavesOf
  <2> QED BY <2>1
<1>6. PICK T, h : TreeOfHeight(T, leaves, h)
  BY <1>1, <1>5, LogHasTree
<1>7. \A n \in 1..Len(leaves) : \E payload : leaves[n] = Leaf(payload)
  BY <1>2
<1>8. CASE other = << >>
  <2>1. os = << >>
    BY <1>3, <1>8 DEF LeavesOf
  <2>2. Root(os) = EmptyRoot
    BY <2>1 DEF Root
  <2>3. Deep(Root(leaves), h)
    BY <1>6, <1>7, LevelsAreDeep
  <2>4. Root(leaves) # EmptyRoot
    BY <2>3, DeepIsNotEmpty
  <2> QED BY <1>3, <2>2, <2>4
<1>9. CASE other # << >>
  <2>1. PICK U, g : TreeOfHeight(U, os, g)
    BY <1>3, <1>9, LogHasTree
  <2>2. \A n \in 1..Len(os) : \E payload : os[n] = Leaf(payload)
    BY <1>4
  <2>3. Root(leaves) = Root(os)
    BY <1>3
  <2>4. leaves = os
    BY <1>6, <1>7, <2>1, <2>2, <2>3, OneRootOneLog
  <2>5. Len(other) = Len(payloads)
    BY <1>2, <1>4, <2>4
  <2>6. \A n \in 1..Len(payloads) : other[n] = payloads[n]
    <3> SUFFICES ASSUME NEW n \in 1..Len(payloads)
                 PROVE  other[n] = payloads[n]
      OBVIOUS
    <3>1. Leaf(other[n]) = Leaf(payloads[n])
      BY <1>2, <1>4, <2>4, <2>5
    <3> QED BY <3>1, HashFacts
  <2> QED BY <1>1, <2>5, <2>6, SeqEqual
<1> QED BY <1>8, <1>9

\* merkle.rs: no other log within the bound, the empty one included, has the root of this one:
\* an inserted, edited or deleted entry shows.
THEOREM TamperEvidentHolds == MerkleSpec => []TamperEvident
<1>1. MerkleInv => TamperEvident
  <2> SUFFICES ASSUME MerkleInv, leaves # << >>, NEW other \in BoundedSeq(Payloads, MaxLeaves),
                      Root([n \in DOMAIN other |-> Leaf(other[n])]) = Root(leaves)
               PROVE  other = payloads
    BY DEF TamperEvident
  <2>1. other \in Seq(Payloads)
    <3>1. PICK m \in 0..MaxLeaves : other \in [1..m -> Payloads]
      BY DEF BoundedSeq, SeqOf
    <3>2. m \in Nat
      BY <3>1, MerkleAssumption
    <3> QED BY <3>1, <3>2
  <2>2. Root(LeavesOf(other)) = Root(leaves)
    BY DEF LeavesOf
  <2> QED BY <2>1, <2>2, OneRootOneHistory
<1> QED BY <1>1, MerkleInvariant, PTL
=============================================================================
