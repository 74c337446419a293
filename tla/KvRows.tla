------------------------------- MODULE KvRows -------------------------------
(***************************************************************************)
(* The fact store KvMemory (memory.rs) as a value, and what its methods    *)
(* make of it: rows with an owner and a tombstone, the insertion order,    *)
(* and the audit log.  A key vector and a value vector are one abstract    *)
(* value; timestamps and dimension checks are left out.  KvMemory and      *)
(* FactServer are built from these operators.                              *)
(***************************************************************************)
EXTENDS Integers, Sequences

CONSTANTS Ids,     \* fact ids
          Owners,
          Vals,    \* the (k, v) vectors of a fact
          Absent   \* no row

Row   == [val : Vals, owner : Owners, deleted : BOOLEAN]
Entry == [op : {"insert", "update", "delete"}, id : Ids, owner : Owners]

ASSUME KvAssumption == Absent \notin Row

\* The fields rows, insertion_order and log.
Memory == [rows : [Ids -> Row \cup {Absent}], order : Seq(Ids), log : Seq(Entry)]

Empty == [rows |-> [id \in Ids |-> Absent], order |-> <<>>, log |-> <<>>]

Live(m, id) == m.rows[id] # Absent /\ ~m.rows[id].deleted

\* Mutated form: no owner check.
AnyoneCanWrite(m, id, owner) == TRUE

\* Only the owner of a live row may overwrite it.
CanWrite(m, id, owner) == Live(m, id) => m.rows[id].owner = owner

\* Mutated form: an id that was deleted is listed a second time.
WrittenTwice(m, id, val, owner) ==
  [rows  |-> [m.rows EXCEPT ![id] = [val |-> val, owner |-> owner, deleted |-> FALSE]],
   order |-> IF Live(m, id) THEN m.order ELSE Append(m.order, id),
   log   |-> Append(m.log, [op |-> IF m.rows[id] = Absent THEN "insert" ELSE "update",
                            id |-> id, owner |-> owner])]

Written(m, id, val, owner) ==
  [rows  |-> [m.rows EXCEPT ![id] = [val |-> val, owner |-> owner, deleted |-> FALSE]],
   order |-> IF m.rows[id] = Absent THEN Append(m.order, id) ELSE m.order,
   log   |-> Append(m.log, [op |-> IF m.rows[id] = Absent THEN "insert" ELSE "update",
                            id |-> id, owner |-> owner])]

CanDelete(m, id, owner) == Live(m, id) /\ m.rows[id].owner = owner

Deleted(m, id, owner) ==
  [rows  |-> [m.rows EXCEPT ![id].deleted = TRUE],
   order |-> m.order,
   log   |-> Append(m.log, [op |-> "delete", id |-> id, owner |-> owner])]

\* restore: a row of the snapshot of m is added to a new memory, which keeps
\* its owner and has an empty audit log.
Copied(to, m, id) ==
  [rows  |-> [to.rows EXCEPT ![id] = m.rows[id]],
   order |-> Append(to.order, id),
   log   |-> to.log]
=============================================================================
