---------------------------- MODULE MC_CdcStream ----------------------------
(* An instance of CdcStream: transactions that set NULL and leave a value    *)
(* untouched, or delete and truncate; a column is renamed.                   *)
EXTENDS CdcStream

CONSTANTS r1

S(op, rel, old, new) == [op |-> op, rel |-> rel, old |-> old, new |-> new]

MCSchemas   == { << "id" >>, << "key" >> }
MCIdentity  == [r \in Rels |-> "d"]
MCTxShapes  == { << S("insert", r1, NoTuple, "null"), S("update", r1, NoTuple, "toast") >>,
                 << S("delete", r1, "text", NoTuple), S("truncate", r1, NoTuple, NoTuple) >> }
MCFirst     == << "id" >>
=============================================================================
