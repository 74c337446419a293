-------------------------- MODULE CdcStreamProofs ---------------------------
(***************************************************************************)
(* Proofs about CdcStream: IInv is inductive, the safety properties follow *)
(* from it, and the stream implements TxSource, for every set of relations *)
(* and schemas, every transaction the publisher makes and every bound.     *)
(***************************************************************************)
EXTENDS CdcStreamInvariant, SelectionProofs

-----------------------------------------------------------------------------
(* The messages.                                                            *)

\* A row that is encoded and decoded is the row.
LEMMA RoundTrip ==
  ASSUME NEW s \in Schemas, NEW v \in Values \cup {NoTuple}
  PROVE  /\ Encoded(Row(v, s)) \in Encodings
         /\ Encoded(Row(v, s)) = NoTuple <=> v = NoTuple
         /\ v # NoTuple => Zip(s, Decoded(Encoded(Row(v, s)))) = Zip(s, Row(v, s))
<1>1. CASE v = NoTuple
  BY <1>1 DEF Row, Encoded, Encodings
<1>2. CASE v # NoTuple
  <2>1. v \in Values /\ Marker[v] \in Markers /\ Datum(Marker[v]) = v
    BY <1>2 DEF Values, Markers, Marker, Datum
  <2>2. Row(v, s) = [i \in DOMAIN s |-> v] /\ Row(v, s) # NoTuple
    BY <1>2, <2>1, StreamAssumption DEF Row
  <2>3. Encoded(Row(v, s)) = [i \in DOMAIN s |-> Marker[v]]
    BY <2>2 DEF Encoded
  <2>4. Encoded(Row(v, s)) # NoTuple
    BY <2>1, <2>3, StreamAssumption
  <2>5. Encoded(Row(v, s)) \in Encodings
    BY <2>1, <2>3 DEF Encodings
  <2>6. Decoded(Encoded(Row(v, s))) = Row(v, s)
    BY <2>1, <2>2, <2>3, <2>4 DEF Decoded
  <2> QED BY <1>2, <2>4, <2>5, <2>6
<1> QED BY <1>1, <1>2

\* The messages the walsender makes are messages.
LEMMA MessageTypes ==
  /\ \A tag \in {"B", "C", "k", "k!", "c", "E"}, end \in Nat : Message(tag, end) \in Messages
  /\ \A c \in Change, end \in Nat :
       RelationMessage(c, end) \in Messages /\ ChangeMessage(c, end) \in Messages
<1>1. NoTuple \in Encodings
  BY DEF Encodings
<1>2. \A tag \in {"B", "C", "k", "k!", "c", "E"}, end \in Nat : Message(tag, end) \in Messages
  BY <1>1 DEF Message, Messages
<1>3. ASSUME NEW c \in Change, NEW end \in Nat
      PROVE  RelationMessage(c, end) \in Messages
  BY <1>1 DEF Message, Messages, RelationMessage, Change, Stmt
<1>4. ASSUME NEW c \in Change, NEW end \in Nat
      PROVE  ChangeMessage(c, end) \in Messages
  <2>1. /\ c.cols \in Schemas /\ c.stmt.rel \in Rels
        /\ c.stmt.old \in Values \cup {NoTuple} /\ c.stmt.new \in Values \cup {NoTuple}
        /\ c.stmt.op \in {"insert", "delete", "update", "truncate"}
    BY DEF Change, Stmt
  <2>2. Tag[c.stmt.op] \in {"I", "D", "U", "T"}
    BY <2>1 DEF Tag
  <2>3. /\ Encoded(Row(c.stmt.old, c.cols)) \in Encodings
        /\ Encoded(Row(c.stmt.new, c.cols)) \in Encodings
    BY <2>1, RoundTrip
  <2> QED BY <1>1, <2>1, <2>2, <2>3 DEF ChangeMessage, Message, Messages
<1> QED BY <1>2, <1>3, <1>4

\* The row changes of a transaction and one more change.
LEMMA RowChangesNext ==
  ASSUME NEW t \in Seq(Change), NEW c \in Change
  PROVE  RowChangesOf(Append(t, c)) =
           IF c.stmt.op = "truncate" THEN RowChangesOf(t) ELSE Append(RowChangesOf(t), AsNamed(c))
<1> DEFINE K == {i \in DOMAIN t : t[i].stmt.op # "truncate"}
           u == Append(t, c)
           L == {i \in DOMAIN u : u[i].stmt.op # "truncate"}
<1>1. /\ u \in Seq(Change) /\ Len(u) = Len(t) + 1 /\ Len(t) \in Nat
      /\ \A i \in 1..Len(t) : u[i] = t[i]
      /\ u[Len(t) + 1] = c /\ DOMAIN t = 1..Len(t) /\ DOMAIN u = 1..(Len(t) + 1)
  BY AppendProperties, LenProperties
<1>2. K \in SUBSET DOMAIN t
  OBVIOUS
<1> HIDE DEF u
<1>3. CASE c.stmt.op = "truncate"
  <2>1. L = K
    BY <1>1, <1>3
  <2> HIDE DEF K, L
  <2>2. Select(u, L) = Select(t, K)
    BY <1>2, <2>1, SelectWithout DEF u
  <2> QED BY <1>3, <2>2 DEF RowChangesOf, u, K, L
<1>4. CASE c.stmt.op # "truncate"
  <2>1. L = K \cup {Len(t) + 1}
    BY <1>1, <1>4
  <2> DEFINE rows == Select(t, K)
             n == Len(rows)
  <2>2. Select(u, L) = Append(rows, c)
    BY <1>2, <2>1, SelectWith, SMTT(30) DEF u
  <2>3. rows \in Seq(Change)
    BY <1>2, SelectType
  <2> HIDE DEF rows, K
  <2>4. /\ n \in Nat /\ DOMAIN rows = 1..n /\ DOMAIN Append(rows, c) = 1..(n + 1)
        /\ \A i \in 1..n : Append(rows, c)[i] = rows[i]
        /\ Append(rows, c)[n + 1] = c
    BY <2>3, AppendProperties, LenProperties
  <2>5. RowChangesOf(t) = [i \in 1..n |-> AsNamed(rows[i])]
    BY <2>4 DEF RowChangesOf, rows, K
  <2>6. RowChangesOf(u) = [i \in 1..(n + 1) |-> AsNamed(Append(rows, c)[i])]
    BY <2>2, <2>4 DEF RowChangesOf
  <2>7. RowChangesOf(u) = Append(RowChangesOf(t), AsNamed(c))
    <3> DEFINE f == [i \in 1..n |-> AsNamed(rows[i])]
               e == AsNamed(c)
               S == {e} \cup {AsNamed(rows[i]) : i \in 1..n}
               g == [i \in 1..(n + 1) |-> AsNamed(Append(rows, c)[i])]
    <3>1. f \in [1..n -> S] /\ g \in [1..(n + 1) -> S]
      BY <2>4
    <3>2. \A i \in 1..n : g[i] = f[i]
      BY <2>4
    <3>3. g[n + 1] = e
      BY <2>4
    <3>4. e \in S
      OBVIOUS
    <3> HIDE DEF f, e, S, g
    <3>5. f \in Seq(S) /\ Len(f) = n /\ g \in Seq(S) /\ Len(g) = n + 1
      BY <2>4, <3>1
    <3>6. /\ Append(f, e) \in Seq(S) /\ Len(Append(f, e)) = n + 1
          /\ \A i \in 1..n : Append(f, e)[i] = f[i]
          /\ Append(f, e)[n + 1] = e
      BY <3>4, <3>5, AppendProperties
    <3>7. \A i \in 1..Len(g) : g[i] = Append(f, e)[i]
      BY <2>4, <3>2, <3>3, <3>5, <3>6
    <3>8. g = Append(f, e)
      BY <3>5, <3>6, <3>7, SeqEqual
    <3> QED BY <2>5, <2>6, <3>8 DEF f, e, g
  <2> QED BY <1>4, <2>7 DEF u
<1> QED BY <1>3, <1>4

\* No change yet is no row change.
LEMMA RowChangesNone == RowChangesOf(<< >>) = << >>
<1>1. {i \in DOMAIN << >> : << >>[i].stmt.op # "truncate"} = {}
  OBVIOUS
<1>2. Select(<< >>, {i \in DOMAIN << >> : << >>[i].stmt.op # "truncate"}) = << >>
  BY <1>1, SelectEmpty
<1> QED BY <1>2 DEF RowChangesOf

-----------------------------------------------------------------------------
(* Places in the stream, and what leads from one to the next.               *)

\* What a place is.
LEMMA PlaceFacts ==
  \A p : p \in Places <=> /\ p = [tx |-> p.tx, part |-> p.part, known |-> p.known]
                          /\ p.tx \in 1..(Len(wal) + 1)
                          /\ p.part \in Parts(p.tx) /\ p.known \in Known
BY DEF Places

\* A message of the stream is a message, and leads to a place.
LEMMA CarriesType ==
  ASSUME TypeOK, NEW p \in Places, NEW m, NEW q, Carries(wal, p, m, q)
  PROVE  q \in Places /\ m \in Messages
<1>1. /\ p = [tx |-> p.tx, part |-> p.part, known |-> p.known]
      /\ p.tx \in 1..(Len(wal) + 1) /\ p.part \in Parts(p.tx) /\ p.known \in Known
  BY PlaceFacts
<1>2. /\ Len(wal) \in Nat /\ DOMAIN wal = 1..Len(wal)
      /\ \A n \in DOMAIN wal : wal[n] \in Seq(Change)
  BY LenProperties, ElementOfSeq DEF TypeOK
<1>3. \A n \in DOMAIN wal : /\ Len(wal[n]) \in Nat /\ DOMAIN wal[n] = 1..Len(wal[n])
                            /\ Parts(n) = 0..(Len(wal[n]) + 1)
                            /\ \A i \in DOMAIN wal[n] : wal[n][i] \in Change
  BY <1>2, LenProperties, ElementOfSeq DEF Parts
<1>4. \A n : 0 \in Parts(n)
  BY <1>3 DEF Parts
<1>5. CASE Begins(wal, p, m, q)
  <2>1. m \in Messages
    BY <1>1, <1>5, MessageTypes DEF Begins
  <2>2. 1 \in Parts(p.tx)
    BY <1>3, <1>5 DEF Begins
  <2>3. q = [tx |-> p.tx, part |-> 1, known |-> p.known]
    BY <1>1, <1>5 DEF Begins
  <2>4. q.tx = p.tx /\ q.part = 1 /\ q.known = p.known
    BY <2>3
  <2>5. q \in Places
    BY <1>1, <2>2, <2>3, <2>4, PlaceFacts
  <2> QED BY <2>1, <2>5
<1>6. CASE Announces(wal, p, m, q)
  <2> DEFINE c == wal[p.tx][p.part]
             known == [p.known EXCEPT ![c.stmt.rel] = c.cols]
  <2>1. p.tx \in DOMAIN wal /\ p.part \in DOMAIN wal[p.tx] /\ m = RelationMessage(c, p.tx)
        /\ q = [p EXCEPT !.known[c.stmt.rel] = c.cols]
    BY <1>6 DEF Announces
  <2>2. c \in Change
    BY <1>3, <2>1
  <2>3. m \in Messages
    BY <1>1, <2>1, <2>2, MessageTypes
  <2>4. q = [tx |-> p.tx, part |-> p.part, known |-> known]
    BY <1>1, <2>1
  <2>5. c.stmt.rel \in Rels /\ c.cols \in Schemas
    BY <2>2 DEF Change, Stmt
  <2>6. known \in Known
    BY <1>1, <2>5 DEF Known
  <2> HIDE DEF known
  <2>7. q.tx = p.tx /\ q.part = p.part /\ q.known = known
    BY <2>4
  <2>8. q \in Places
    BY <1>1, <2>4, <2>6, <2>7, PlaceFacts
  <2> QED BY <2>3, <2>8
<1>7. CASE Changes(wal, p, m, q)
  <2> DEFINE c == wal[p.tx][p.part]
  <2>1. p.tx \in DOMAIN wal /\ p.part \in DOMAIN wal[p.tx] /\ m = ChangeMessage(c, p.tx)
        /\ q = [p EXCEPT !.part = p.part + 1]
    BY <1>7 DEF Changes
  <2>2. m \in Messages
    BY <1>1, <1>3, <2>1, MessageTypes
  <2>3. q = [tx |-> p.tx, part |-> p.part + 1, known |-> p.known]
    BY <1>1, <2>1
  <2>4. q.tx = p.tx /\ q.part = p.part + 1 /\ q.known = p.known
    BY <2>3
  <2>5. p.part + 1 \in Parts(p.tx)
    BY <1>3, <2>1
  <2>6. q \in Places
    BY <1>1, <2>3, <2>4, <2>5, PlaceFacts
  <2> QED BY <2>2, <2>6
<1>8. CASE Commits(wal, p, m, q)
  <2>1. m \in Messages
    BY <1>1, <1>8, MessageTypes DEF Commits
  <2>2. q = [tx |-> p.tx + 1, part |-> 0, known |-> p.known]
    BY <1>1, <1>8 DEF Commits
  <2>3. q.tx = p.tx + 1 /\ q.part = 0 /\ q.known = p.known
    BY <2>2
  <2>4. p.tx + 1 \in 1..(Len(wal) + 1)
    BY <1>2, <1>8 DEF Commits
  <2>5. q \in Places
    BY <1>1, <1>4, <2>2, <2>3, <2>4, PlaceFacts
  <2> QED BY <2>1, <2>5
<1>9. CASE Asides(p, m, q)
  BY <1>9, MessageTypes DEF Asides
<1> QED BY <1>5, <1>6, <1>7, <1>8, <1>9 DEF Carries

\* A prefix is the prefix before it and one element more.
LEMMA PrefixNext ==
  ASSUME NEW S, NEW s \in Seq(S), NEW k \in 1..Len(s)
  PROVE  /\ SubSeq(s, 1, k - 1) \in Seq(S)
         /\ SubSeq(s, 1, k) = Append(SubSeq(s, 1, k - 1), s[k])
<1>1. Len(s) \in Nat /\ s[k] \in S /\ 1 \in 1..Len(s) /\ k \in 1..Len(s)
  BY LenProperties, ElementOfSeq
<1>2. \A i \in 1..(k - 1) : s[i] \in S
  BY <1>1, ElementOfSeq
<1>3. SubSeq(s, 1, k - 1) \in Seq(S)
  BY <1>1, <1>2, SubSeqProperties
<1>4. SubSeq(s, 1, k) = SubSeq(s, 1, k - 1) \o << s[k] >>
  BY <1>1, SubSeqRecursiveSecond
<1>5. Append(SubSeq(s, 1, k - 1), s[k]) = SubSeq(s, 1, k - 1) \o << s[k] >>
  BY <1>1, <1>3, AppendIsConcat
<1> QED BY <1>3, <1>4, <1>5

\* What the assembler makes of each message.
LEMMA AssembleCases ==
  ASSUME NEW m, asm = [relations |-> asm.relations, pending |-> asm.pending]
  PROVE  /\ m.tag \in {"B", "C"} =>
              Assemble(m) = [relations |-> asm.relations, pending |-> << >>]
         /\ m.tag = "R" =>
              Assemble(m) = [relations |-> [asm.relations EXCEPT ![m.rel] = m.cols],
                             pending |-> asm.pending]
         /\ IsChange(m) =>
              Assemble(m) = [relations |-> asm.relations,
                             pending |-> Append(asm.pending,
                               [tag |-> m.tag, rel |-> m.rel,
                                old |-> Named(m, m.old), new |-> Named(m, m.new)])]
         /\ m.tag \in {"T", "k", "k!", "c", "E"} => Assemble(m) = asm
<1> DEFINE c == [tag |-> m.tag, rel |-> m.rel,
                old |-> Named(m, m.old), new |-> Named(m, m.new)]
<1>1. CASE m.tag \in {"B", "C"}
  <2>1. m.tag # "R" /\ ~IsChange(m)
    BY <1>1 DEF IsChange
  <2>2. Assemble(m) = [asm EXCEPT !.pending = << >>]
    BY <1>1, <2>1 DEF Assemble
  <2>3. [asm EXCEPT !.pending = << >>] = [relations |-> asm.relations, pending |-> << >>]
    OBVIOUS
  <2> QED BY <1>1, <2>1, <2>2, <2>3
<1>2. CASE m.tag = "R"
  <2>1. m.tag \notin {"B", "C", "T", "k", "k!", "c", "E"} /\ ~IsChange(m)
    BY <1>2 DEF IsChange
  <2>2. Assemble(m) = [asm EXCEPT !.relations[m.rel] = m.cols]
    BY <1>2, <2>1, Zenon DEF Assemble
  <2>3. [asm EXCEPT !.relations[m.rel] = m.cols] =
          [relations |-> [asm.relations EXCEPT ![m.rel] = m.cols], pending |-> asm.pending]
    OBVIOUS
  <2> QED BY <1>2, <2>1, <2>2, <2>3
<1>3. CASE IsChange(m)
  <2>1. m.tag \notin {"B", "C", "R", "T", "k", "k!", "c", "E"}
    BY <1>3 DEF IsChange
  <2> HIDE DEF c
  <2>2. Assemble(m) = [asm EXCEPT !.pending = Append(asm.pending, c)]
    BY <1>3, <2>1 DEF Assemble, c
  <2>3. [asm EXCEPT !.pending = Append(asm.pending, c)] =
          [relations |-> asm.relations, pending |-> Append(asm.pending, c)]
    OBVIOUS
  <2> QED BY <1>3, <2>1, <2>2, <2>3 DEF c
<1>4. CASE m.tag \in {"T", "k", "k!", "c", "E"}
  <2>1. m.tag \notin {"B", "C", "R"} /\ ~IsChange(m)
    BY <1>4 DEF IsChange
  <2>2. Assemble(m) = asm
    BY <2>1 DEF Assemble
  <2> QED BY <2>1, <2>2
<1> QED BY <1>1, <1>2, <1>3, <1>4

\* Reading a message of the stream takes the client where the message leads.
LEMMA ClientReads ==
  ASSUME TypeOK, NEW p \in Places, NEW m, NEW q, Carries(wal, p, m, q), ClientAt(p),
         wal' = wal, asm' = Assemble(m), at' = IF m.tag = "C" THEN m.end ELSE at
  PROVE  ClientAt(q)'
<1>1. /\ p = [tx |-> p.tx, part |-> p.part, known |-> p.known]
      /\ p.tx \in 1..(Len(wal) + 1) /\ p.known \in Known
      /\ at = p.tx - 1 /\ asm.relations = p.known
      /\ p.part > 0 => asm.pending = RowChangesOf(SubSeq(wal[p.tx], 1, p.part - 1))
      /\ asm = [relations |-> asm.relations, pending |-> asm.pending]
  BY PlaceFacts DEF ClientAt, TypeOK
<1>2. /\ Len(wal) \in Nat /\ DOMAIN wal = 1..Len(wal)
      /\ \A n \in DOMAIN wal : wal[n] \in Seq(Change)
  BY LenProperties, ElementOfSeq DEF TypeOK
<1>3. CASE Begins(wal, p, m, q)
  <2>1. m.tag = "B" /\ q.tx = p.tx /\ q.part = 1 /\ q.known = p.known
    BY <1>1, <1>3 DEF Begins, Message
  <2>2. asm' = [relations |-> asm.relations, pending |-> << >>]
    BY <1>1, <2>1, AssembleCases
  <2>3. SubSeq(wal[q.tx], 1, q.part - 1) = << >>
    <3>1. SubSeq(wal[q.tx], 1, 0) = << >>
      BY SubSeqEmpty
    <3>2. q.part - 1 = 0
      BY <2>1
    <3> QED BY <3>1, <3>2
  <2>4. asm'.pending = RowChangesOf(SubSeq(wal[q.tx], 1, q.part - 1))
    <3>1. asm'.pending = << >>
      BY <2>2
    <3> QED BY <2>3, <3>1, RowChangesNone, Zenon
  <2> QED BY <1>1, <2>1, <2>2, <2>4 DEF ClientAt
<1>4. CASE Announces(wal, p, m, q)
  <2> DEFINE c == wal[p.tx][p.part]
             known == [p.known EXCEPT ![c.stmt.rel] = c.cols]
  <2>1. m.tag = "R" /\ m.rel = c.stmt.rel /\ m.cols = c.cols
    BY <1>4 DEF Announces, RelationMessage, Message
  <2>2. q = [tx |-> p.tx, part |-> p.part, known |-> known]
    BY <1>1, <1>4 DEF Announces
  <2>3. asm' = [relations |-> known, pending |-> asm.pending]
    BY <1>1, <2>1, AssembleCases
  <2> HIDE DEF known
  <2> QED BY <1>1, <2>1, <2>2, <2>3 DEF ClientAt
<1>5. CASE Changes(wal, p, m, q)
  <2> DEFINE t == wal[p.tx]
             c == t[p.part]
  <2>1. /\ p.tx \in DOMAIN wal /\ p.part \in DOMAIN t /\ m = ChangeMessage(c, p.tx)
        /\ q = [p EXCEPT !.part = p.part + 1] /\ p.known[c.stmt.rel] = c.cols
    BY <1>5 DEF Changes
  <2>2. /\ t \in Seq(Change) /\ Len(t) \in Nat /\ DOMAIN t = 1..Len(t) /\ c \in Change
    BY <1>2, <2>1, LenProperties, ElementOfSeq
  <2> HIDE DEF t, c
  <2>3. /\ SubSeq(t, 1, p.part - 1) \in Seq(Change)
        /\ SubSeq(t, 1, p.part) = Append(SubSeq(t, 1, p.part - 1), c)
    BY <2>1, <2>2, PrefixNext DEF c
  <2>4. RowChangesOf(SubSeq(t, 1, p.part)) =
          IF c.stmt.op = "truncate" THEN asm.pending ELSE Append(asm.pending, AsNamed(c))
    <3>1. p.part > 0 /\ asm.pending = RowChangesOf(SubSeq(t, 1, p.part - 1))
      BY <1>1, <2>1, <2>2 DEF t
    <3> QED BY <2>2, <2>3, <3>1, RowChangesNext
  <2>5. /\ m.tag = Tag[c.stmt.op] /\ m.rel = c.stmt.rel
        /\ m.old = Encoded(Row(c.stmt.old, c.cols)) /\ m.new = Encoded(Row(c.stmt.new, c.cols))
    BY <2>1 DEF ChangeMessage, Message
  <2>6. /\ c.stmt.rel \in Rels /\ c.cols \in Schemas
        /\ c.stmt.old \in Values \cup {NoTuple} /\ c.stmt.new \in Values \cup {NoTuple}
        /\ c.stmt.op \in {"insert", "delete", "update", "truncate"}
    BY <2>2 DEF Change, Stmt
  <2>7. Columns(m) = c.cols
    BY <1>1, <2>1, <2>5 DEF Columns
  <2>8. /\ Named(m, m.old) = NamedRow(c.stmt.old, c.cols)
        /\ Named(m, m.new) = NamedRow(c.stmt.new, c.cols)
    BY <2>5, <2>6, <2>7, RoundTrip DEF Named, NamedRow
  <2>9. /\ asm'.relations = asm.relations
        /\ asm'.pending = RowChangesOf(SubSeq(t, 1, p.part))
    <3>1. CASE c.stmt.op = "truncate"
      <4>1. m.tag = "T"
        BY <2>5, <3>1 DEF Tag
      <4>2. asm' = asm
        BY <1>1, <4>1, AssembleCases
      <4> QED BY <2>4, <3>1, <4>2
    <3>2. CASE c.stmt.op # "truncate"
      <4>1. m.tag \in {"I", "D", "U"}
        BY <2>5, <2>6, <3>2 DEF Tag
      <4>2. [tag |-> m.tag, rel |-> m.rel, old |-> Named(m, m.old), new |-> Named(m, m.new)]
              = AsNamed(c)
        BY <2>5, <2>8 DEF AsNamed
      <4>3. asm' = [relations |-> asm.relations, pending |-> Append(asm.pending, AsNamed(c))]
        BY <1>1, <4>1, <4>2, AssembleCases DEF IsChange
      <4> QED BY <1>1, <2>4, <3>2, <4>3
    <3> QED BY <3>1, <3>2
  <2>10. q.tx = p.tx /\ q.part = p.part + 1 /\ q.known = p.known /\ p.part \in Nat
    BY <1>1, <2>1, <2>2
  <2>11. m.tag # "C"
    BY <2>5, <2>6 DEF Tag
  <2> QED BY <1>1, <2>9, <2>10, <2>11 DEF ClientAt, t
<1>6. CASE Commits(wal, p, m, q)
  <2>1. m.tag = "C" /\ m.end = p.tx /\ q.tx = p.tx + 1 /\ q.part = 0 /\ q.known = p.known
    BY <1>1, <1>6 DEF Commits, Message
  <2>2. asm' = [relations |-> asm.relations, pending |-> << >>]
    BY <1>1, <2>1, AssembleCases
  <2> QED BY <1>1, <2>1, <2>2 DEF ClientAt
<1>7. CASE Asides(p, m, q)
  <2>1. m.tag \in {"k", "k!", "c", "E"} /\ q = p
    BY <1>7 DEF Asides
  <2>2. asm' = asm
    BY <1>1, <2>1, AssembleCases
  <2> QED BY <1>1, <2>1, <2>2 DEF ClientAt
<1> QED BY <1>3, <1>4, <1>5, <1>6, <1>7 DEF Carries

-----------------------------------------------------------------------------
(* The path through the socket, and what a step makes of it.                *)

\* A stream has a path through its socket.
LEMMA PathExists ==
  ASSUME TypeOK, StreamInv, conn = "copy"
  PROVE  \E path : /\ Len(toClient) \in Nat /\ DOMAIN toClient = 1..Len(toClient)
                   /\ \A i \in 1..(Len(toClient) + 1) : path[i] \in Places
                   /\ Leads(path)
<1>1. PICK path \in [1..(Len(toClient) + 1) -> Places] : Leads(path)
  BY DEF StreamInv
<1>2. Len(toClient) \in Nat /\ DOMAIN toClient = 1..Len(toClient)
  BY LenProperties DEF TypeOK
<1>3. \A i \in 1..(Len(toClient) + 1) : path[i] \in Places
  BY <1>1
<1> QED BY <1>1, <1>2, <1>3

\* A walsender that still has its client is at a place of the stream.
LEMMA SenderPlace ==
  ASSUME TypeOK, StreamInv, conn = "copy", sender.attached
  PROVE  PlaceOf(sender) \in Places
<1>1. PICK path : /\ Len(toClient) \in Nat
                  /\ \A i \in 1..(Len(toClient) + 1) : path[i] \in Places
                  /\ Leads(path)
  BY PathExists
<1>2. PlaceOf(sender) = path[Len(toClient) + 1]
  BY <1>1 DEF Leads
<1>3. Len(toClient) + 1 \in 1..(Len(toClient) + 1)
  BY <1>1
<1> QED BY <1>1, <1>2, <1>3

\* The client is at a place, and the next message leads from there.
LEMMA HeadCarried ==
  ASSUME TypeOK, StreamInv, conn = "copy", toClient # << >>
  PROVE  \E p, q \in Places : ClientAt(p) /\ Carries(wal, p, Head(toClient), q)
<1>1. PICK path : /\ Len(toClient) \in Nat /\ DOMAIN toClient = 1..Len(toClient)
                  /\ \A i \in 1..(Len(toClient) + 1) : path[i] \in Places
                  /\ Leads(path)
  BY PathExists
<1>2. 1 \in 1..Len(toClient) /\ Head(toClient) = toClient[1]
  BY <1>1, EmptySeq DEF TypeOK
<1>3. path[1] \in Places /\ path[2] \in Places
  BY <1>1, <1>2
<1>4. ClientAt(path[1]) /\ Carries(wal, path[1], toClient[1], path[1 + 1])
  BY <1>1, <1>2 DEF Leads
<1>5. 1 + 1 = 2
  OBVIOUS
<1> QED BY <1>2, <1>3, <1>4, <1>5

\* The places depend on the WAL only.
LEMMA SamePlaces ==
  ASSUME wal' = wal
  PROVE  Places' = Places
<1>1. \A n : Parts(n)' = Parts(n)
  BY DEF Parts
<1> QED BY <1>1 DEF Places

\* A step that touches neither the socket nor what the client has read leaves the
\* path, and a walsender at its end, alone.
LEMMA StreamKept ==
  ASSUME TypeOK, StreamInv, UNCHANGED << wal, toClient, asm, at >>,
         conn' = "copy" => conn = "copy",
         sender'.attached => sender' = sender
  PROVE  StreamInv'
<1> SUFFICES ASSUME conn' = "copy"
             PROVE  \E path \in [1..(Len(toClient) + 1) -> Places]' : Leads(path)'
  BY DEF StreamInv
<1>1. PICK path \in [1..(Len(toClient) + 1) -> Places] : Leads(path)
  BY DEF StreamInv
<1>2. path \in [1..(Len(toClient) + 1) -> Places]'
  BY <1>1, SamePlaces
<1>3. ClientAt(path[1])'
  BY <1>1 DEF Leads, ClientAt
<1>4. \A i \in DOMAIN toClient' : Carries(wal, path[i], toClient[i], path[i + 1])'
  BY <1>1 DEF Leads
<1>5. sender'.attached => PlaceOf(sender)' = path[Len(toClient') + 1]
  BY <1>1 DEF Leads, PlaceOf
<1> QED BY <1>2, <1>3, <1>4, <1>5 DEF Leads

\* Without a stream there is nothing to say.
LEMMA StreamGone ==
  ASSUME conn' # "copy"
  PROVE  StreamInv'
BY DEF StreamInv

\* A message that is read is taken off the path.
LEMMA StreamRead ==
  ASSUME TypeOK, StreamInv, conn = "copy", toClient # << >>,
         wal' = wal, sender' = sender, toClient' = Tail(toClient),
         asm' = Assemble(Head(toClient)),
         at' = IF Head(toClient).tag = "C" THEN Head(toClient).end ELSE at
  PROVE  StreamInv'
<1>1. PICK path : /\ Len(toClient) \in Nat /\ DOMAIN toClient = 1..Len(toClient)
                  /\ \A i \in 1..(Len(toClient) + 1) : path[i] \in Places
                  /\ Leads(path)
  BY PathExists
<1> DEFINE n == Len(toClient)
<1>2. /\ n \in Nat \ {0} /\ Head(toClient) = toClient[1]
      /\ Len(toClient') = n - 1 /\ DOMAIN toClient' = 1..(n - 1)
      /\ \A i \in 1..(n - 1) : toClient'[i] = toClient[i + 1]
  BY EmptySeq, HeadTailProperties, LenProperties DEF TypeOK
<1>3. ClientAt(path[1]) /\ \A i \in 1..n : Carries(wal, path[i], toClient[i], path[i + 1])
  BY <1>1 DEF Leads
<1>4. ClientAt(path[2])'
  <2>1. path[1] \in Places /\ Carries(wal, path[1], toClient[1], path[2])
    <3>1. 1 \in 1..n /\ 1 \in 1..(n + 1) /\ 1 + 1 = 2
      BY <1>2
    <3> QED BY <1>1, <1>3, <3>1
  <2> DEFINE p == path[1]
             q == path[2]
             m == Head(toClient)
  <2>2. p \in Places /\ Carries(wal, p, m, q) /\ ClientAt(p)
    BY <1>2, <1>3, <2>1
  <2> QED BY <2>2, ClientReads
<1>r. PICK rest : rest = [i \in 1..n |-> path[i + 1]]
  OBVIOUS
<1>5. rest \in [1..(Len(toClient') + 1) -> Places']
  <2>1. \A i \in 1..n : path[i + 1] \in Places
    BY <1>1, <1>2
  <2>2. Len(toClient') + 1 = n
    BY <1>2
  <2> QED BY <1>r, <2>1, <2>2, SamePlaces
<1>6. \A i \in DOMAIN toClient' : Carries(wal', rest[i], toClient'[i], rest[i + 1])
  <2>1. ASSUME NEW i \in 1..(n - 1)
        PROVE  Carries(wal, rest[i], toClient'[i], rest[i + 1])
    <3>1. i + 1 \in 1..n /\ i \in 1..n /\ i \in Nat
      BY <1>2
    <3>2. Carries(wal, path[i + 1], toClient[i + 1], path[i + 1 + 1])
      BY <1>3, <3>1
    <3>3. toClient'[i] = toClient[i + 1]
      BY <1>2
    <3>4. rest[i] = path[i + 1] /\ rest[i + 1] = path[i + 1 + 1]
      BY <1>r, <3>1
    <3> QED BY <3>2, <3>3, <3>4
  <2> QED BY <1>2, <2>1
<1>7. rest[1] = path[2] /\ rest[Len(toClient') + 1] = path[n + 1]
  BY <1>2, <1>r
<1>8. sender'.attached => PlaceOf(sender)' = rest[Len(toClient') + 1]
  BY <1>1, <1>7 DEF Leads, PlaceOf
<1>9. Leads(rest)'
  BY <1>4, <1>6, <1>7, <1>8 DEF Leads
<1> QED BY <1>5, <1>9 DEF StreamInv

\* A message that is sent leads the path on, to where the walsender is then.
LEMMA StreamSent ==
  ASSUME TypeOK, StreamInv, conn = "copy", sender.attached,
         NEW m, NEW q, Carries(wal, PlaceOf(sender), m, q),
         UNCHANGED << wal, asm, at >>, toClient' = Append(toClient, m),
         sender'.attached => PlaceOf(sender)' = q
  PROVE  StreamInv'
<1>1. PICK path : /\ Len(toClient) \in Nat /\ DOMAIN toClient = 1..Len(toClient)
                  /\ \A i \in 1..(Len(toClient) + 1) : path[i] \in Places
                  /\ Leads(path)
  BY PathExists
<1> DEFINE n == Len(toClient)
<1>2. q \in Places /\ m \in Messages
  BY SenderPlace, CarriesType
<1>3. /\ n \in Nat /\ Len(toClient') = n + 1 /\ DOMAIN toClient' = 1..(n + 1)
      /\ \A i \in 1..n : toClient'[i] = toClient[i]
      /\ toClient'[n + 1] = m
  BY <1>1, <1>2, AppendProperties, LenProperties DEF TypeOK
<1>4. /\ ClientAt(path[1]) /\ \A i \in 1..n : Carries(wal, path[i], toClient[i], path[i + 1])
      /\ PlaceOf(sender) = path[n + 1]
  BY <1>1 DEF Leads
<1>l. PICK longer : longer = [i \in 1..(n + 2) |-> IF i = n + 2 THEN q ELSE path[i]]
  OBVIOUS
<1>5. longer \in [1..(Len(toClient') + 1) -> Places']
  <2>1. \A i \in 1..(n + 2) : i # n + 2 => i \in 1..(n + 1)
    BY <1>3
  <2>2. \A i \in 1..(n + 2) : (IF i = n + 2 THEN q ELSE path[i]) \in Places
    BY <1>1, <1>2, <2>1
  <2>3. Len(toClient') + 1 = n + 2
    BY <1>3
  <2> QED BY <1>l, <2>2, <2>3, SamePlaces
<1>6. longer[1] = path[1] /\ longer[n + 2] = q /\ \A i \in 1..(n + 1) : longer[i] = path[i]
  BY <1>3, <1>l
<1>7. \A i \in DOMAIN toClient' : Carries(wal', longer[i], toClient'[i], longer[i + 1])
  <2>1. ASSUME NEW i \in 1..n
        PROVE  Carries(wal, longer[i], toClient'[i], longer[i + 1])
    <3>1. i \in 1..(n + 1) /\ i + 1 \in 1..(n + 1)
      BY <1>3
    <3> QED BY <1>3, <1>4, <1>6, <3>1
  <2>2. Carries(wal, longer[n + 1], toClient'[n + 1], longer[n + 1 + 1])
    <3>1. n + 1 \in 1..(n + 1) /\ n + 1 + 1 = n + 2
      BY <1>3
    <3>2. longer[n + 1] = PlaceOf(sender) /\ longer[n + 1 + 1] = q
      BY <1>4, <1>6, <3>1
    <3> QED BY <1>3, <3>2
  <2>3. \A i \in 1..(n + 1) : i \in 1..n \/ i = n + 1
    BY <1>3
  <2> QED BY <1>3, <2>1, <2>2, <2>3
<1>8. ClientAt(longer[1])'
  BY <1>4, <1>6 DEF ClientAt
<1>9. sender'.attached => PlaceOf(sender)' = longer[Len(toClient') + 1]
  <2>1. Len(toClient') + 1 = n + 2
    BY <1>3
  <2> QED BY <1>6, <2>1
<1>10. Leads(longer)'
  BY <1>7, <1>8, <1>9 DEF Leads
<1> QED BY <1>5, <1>10 DEF StreamInv

\* A commit adds to the WAL, and the stream is about what was there before.
LEMMA StreamGrows ==
  ASSUME TypeOK, StreamInv, NEW t \in Seq(Change), wal' = Append(wal, t),
         UNCHANGED << toClient, asm, at, conn, sender >>
  PROVE  StreamInv'
<1>1. /\ Len(wal) \in Nat /\ DOMAIN wal = 1..Len(wal)
      /\ Len(wal') = Len(wal) + 1 /\ DOMAIN wal' = 1..(Len(wal) + 1)
      /\ \A n \in 1..Len(wal) : wal'[n] = wal[n]
      /\ wal'[Len(wal) + 1] = t
      /\ Len(t) \in Nat
  BY AppendProperties, LenProperties DEF TypeOK
<1>2. \A p \in Places : p \in Places'
  <2> SUFFICES ASSUME NEW p \in Places PROVE p \in Places'
    OBVIOUS
  <2>1. /\ p = [tx |-> p.tx, part |-> p.part, known |-> p.known]
        /\ p.tx \in 1..(Len(wal) + 1) /\ p.part \in Parts(p.tx) /\ p.known \in Known
    BY PlaceFacts
  <2>2. p.tx \in 1..(Len(wal') + 1)
    BY <1>1, <2>1
  <2>3. p.part \in Parts(p.tx)'
    BY <1>1, <2>1 DEF Parts
  <2> DEFINE n == p.tx
  <2>4. p \in [tx : {n}, part : Parts(n)', known : Known]
    BY <2>1, <2>3
  <2> QED BY <2>2, <2>4 DEF Places
<1>3. ASSUME NEW p, NEW m, NEW q, Carries(wal, p, m, q)
      PROVE  Carries(wal', p, m, q)
  <2>1. \A n \in DOMAIN wal : n \in DOMAIN wal' /\ wal'[n] = wal[n]
    BY <1>1
  <2>2. Begins(wal, p, m, q) => Begins(wal', p, m, q)
    BY <2>1 DEF Begins
  <2>3. Announces(wal, p, m, q) => Announces(wal', p, m, q)
    BY <2>1 DEF Announces
  <2>4. Changes(wal, p, m, q) => Changes(wal', p, m, q)
    BY <2>1 DEF Changes
  <2>5. Commits(wal, p, m, q) => Commits(wal', p, m, q)
    BY <2>1 DEF Commits
  <2> QED BY <1>3, <2>2, <2>3, <2>4, <2>5 DEF Carries
<1>4. ASSUME NEW p \in Places, ClientAt(p)
      PROVE  ClientAt(p)'
  <2>1. p.tx \in 1..(Len(wal) + 1) /\ p.part \in Parts(p.tx)
    BY PlaceFacts
  <2>2. p.part > 0 => p.tx \in DOMAIN wal
    BY <2>1 DEF Parts
  <2>3. p.part > 0 => wal'[p.tx] = wal[p.tx]
    BY <1>1, <2>2
  <2> QED BY <1>4, <2>3 DEF ClientAt
<1>5. CASE conn = "copy"
  <2>1. PICK path \in [1..(Len(toClient) + 1) -> Places] : Leads(path)
    BY <1>5 DEF StreamInv
  <2>2. Len(toClient) \in Nat
    BY LenProperties DEF TypeOK
  <2>3. path[1] \in Places
    BY <2>1, <2>2
  <2>4. path \in [1..(Len(toClient') + 1) -> Places']
    BY <1>2, <2>1
  <2>5. \A i \in DOMAIN toClient' : Carries(wal', path[i], toClient'[i], path[i + 1])
    BY <1>3, <2>1 DEF Leads
  <2>6. ClientAt(path[1])'
    BY <1>4, <2>1, <2>3 DEF Leads
  <2>7. sender'.attached => PlaceOf(sender)' = path[Len(toClient') + 1]
    BY <2>1 DEF Leads, PlaceOf
  <2>8. Leads(path)'
    BY <2>5, <2>6, <2>7 DEF Leads
  <2> QED BY <2>4, <2>8 DEF StreamInv
<1>6. CASE conn # "copy"
  BY <1>6, StreamGone
<1> QED BY <1>5, <1>6

\* A stream starts after what PostgreSQL has confirmed, with nothing known.
LEMMA StreamStarts ==
  ASSUME TypeOK, confirmed <= Len(wal), Start, asm = EmptyAsm, toClient = << >>
  PROVE  StreamInv'
<1> DEFINE known == [r \in Rels |-> NoTuple]
<1>1. /\ UNCHANGED << wal, confirmed, toClient, asm >> /\ at' = confirmed
      /\ sender' = [tx |-> confirmed + 1, part |-> 0, known |-> known,
                    attached |-> TRUE, done |-> FALSE]
  BY DEF Start, serverVars
<1>2. asm'.relations = known
  BY <1>1 DEF EmptyAsm
<1>3. known \in Known
  BY DEF Known
<1> HIDE DEF known
<1>p. PICK p : p = [tx |-> confirmed + 1, part |-> 0, known |-> known]
  OBVIOUS
<1>4. PlaceOf(sender)' = p
  BY <1>1, <1>p DEF PlaceOf
<1>5. p.tx = confirmed + 1 /\ p.part = 0 /\ p.known = known
  BY <1>p
<1>6. p = [tx |-> p.tx, part |-> p.part, known |-> p.known]
  BY <1>p
<1>q. PICK path : path = [i \in 1..1 |-> p]
  OBVIOUS
<1>7. Len(wal) \in Nat /\ confirmed \in Nat
  BY LenProperties DEF TypeOK
<1>8. 0 \in Parts(p.tx)
  BY <1>7, LenProperties, ElementOfSeq DEF Parts, TypeOK
<1>9. p \in Places
  BY <1>3, <1>5, <1>6, <1>7, <1>8, PlaceFacts
<1>10. ClientAt(p)'
  BY <1>1, <1>2, <1>5, <1>7 DEF ClientAt
<1>11. Len(toClient') = 0 /\ DOMAIN toClient' = {}
  BY <1>1
<1>12. path \in [1..(Len(toClient') + 1) -> Places'] /\ path[1] = p
  BY <1>1, <1>q, <1>9, <1>11, SamePlaces
<1>13. Leads(path)'
  BY <1>4, <1>10, <1>11, <1>12 DEF Leads
<1> QED BY <1>12, <1>13 DEF StreamInv

-----------------------------------------------------------------------------
(* PostgreSQL's steps.                                                      *)

\* The WAL is a sequence of sequences.
LEMMA WalFacts ==
  ASSUME TypeOK
  PROVE  /\ Len(wal) \in Nat /\ DOMAIN wal = 1..Len(wal)
         /\ \A n \in DOMAIN wal : wal[n] \in Seq(Change) /\ Len(wal[n]) \in Nat
                                  /\ DOMAIN wal[n] = 1..Len(wal[n])
         /\ \A n \in DOMAIN wal : \A i \in DOMAIN wal[n] : wal[n][i] \in Change
<1>1. /\ Len(wal) \in Nat /\ DOMAIN wal = 1..Len(wal)
      /\ \A n \in DOMAIN wal : wal[n] \in Seq(Change)
  BY LenProperties, ElementOfSeq DEF TypeOK
<1> QED BY <1>1, LenProperties, ElementOfSeq

\* NoSender is no attached walsender, and no walsender that streams.
LEMMA NoSenderFacts == ~ NoSender.attached /\ NoSender \notin Senders
<1>1. NoSender.tx = 0
  BY DEF NoSender
<1> QED BY <1>1 DEF NoSender, Senders

\* A step of PostgreSQL that leaves the WAL, its walsender and the socket alone.
LEMMA QuietStep ==
  ASSUME IInv, TypeOK',
         UNCHANGED << wal, confirmed, sender, toClient, toServer, clientVars, history >>
  PROVE  IInv'
<1>1. ConnInv'
  BY DEF IInv, ConnInv, clientVars
<1>2. AckInv'
  BY DEF IInv, AckInv, clientVars, history
<1>3. StreamInv'
  BY StreamKept DEF IInv, clientVars, history
<1>4. DeliveredWhole'
  BY DEF IInv, DeliveredWhole, clientVars
<1> QED BY <1>1, <1>2, <1>3, <1>4 DEF IInv

\* AlterTable, FastShutdown, Stopped and Boot are such steps.
LEMMA QuietSteps ==
  ASSUME IInv, AlterTable \/ FastShutdown \/ Stopped \/ Boot
  PROVE  IInv'
<1>1. /\ UNCHANGED << wal, confirmed, sender, toClient, toServer, clientVars, history >>
      /\ server' \in {"up", "stopping", "down"} /\ slotOk' \in BOOLEAN
      /\ peer' \in {"open", "closed"} /\ schema' \in [Rels -> Schemas]
  <2>1. CASE AlterTable
    BY <2>1 DEF AlterTable, IInv, TypeOK, socketVars
  <2>2. CASE FastShutdown \/ Stopped \/ Boot
    BY <2>2 DEF FastShutdown, Stopped, Boot, IInv, TypeOK, socketVars
  <2> QED BY <2>1, <2>2
<1>2. TypeOK'
  BY <1>1 DEF IInv, TypeOK, clientVars, history
<1> QED BY <1>1, <1>2, QuietStep

\* Commit only adds to the WAL.
LEMMA CommitStep ==
  ASSUME IInv, Commit
  PROVE  IInv'
<1>1. PICK shape \in TxShapes : wal' = Append(wal, Committed(shape))
  BY DEF Commit
<1>2. UNCHANGED << schema, server, slotOk, confirmed, sender, socketVars, clientVars, history >>
  BY DEF Commit
<1>3. Committed(shape) \in Seq(Change)
  <2>1. shape \in Seq(Stmt)
    BY StreamAssumption
  <2>2. /\ DOMAIN shape = 1..Len(shape) /\ Len(shape) \in Nat
        /\ \A i \in 1..Len(shape) : shape[i] \in Stmt
    BY <2>1, LenProperties, ElementOfSeq
  <2>3. \A i \in 1..Len(shape) : shape[i].rel \in Rels
    BY <2>2 DEF Stmt
  <2>4. \A i \in 1..Len(shape) : schema[shape[i].rel] \in Schemas
    BY <2>3 DEF IInv, TypeOK
  <2>5. \A i \in 1..Len(shape) : [stmt |-> shape[i], cols |-> schema[shape[i].rel]] \in Change
    BY <2>2, <2>4 DEF Change
  <2>6. Committed(shape) \in [1..Len(shape) -> Change]
    BY <2>2, <2>5 DEF Committed
  <2> QED BY <2>2, <2>6
<1>4. /\ wal' \in Seq(Seq(Change)) /\ Len(wal') = Len(wal) + 1
      /\ DOMAIN wal' = 1..(Len(wal) + 1) /\ Len(wal) \in Nat /\ DOMAIN wal = 1..Len(wal)
      /\ \A n \in 1..Len(wal) : wal'[n] = wal[n]
  BY <1>1, <1>3, AppendProperties, LenProperties DEF IInv, TypeOK
<1>5. TypeOK'
  BY <1>2, <1>4 DEF IInv, TypeOK, socketVars, clientVars, history
<1>6. ConnInv'
  BY <1>2 DEF IInv, ConnInv, socketVars, clientVars
<1>7. AckInv'
  BY <1>2, <1>4 DEF IInv, TypeOK, AckInv, socketVars, clientVars, history
<1>8. StreamInv'
  BY <1>1, <1>2, <1>3, StreamGrows DEF IInv, socketVars, clientVars, history
<1>9. DeliveredWhole'
  BY <1>2, <1>4 DEF IInv, DeliveredWhole, clientVars
<1> QED BY <1>5, <1>6, <1>7, <1>8, <1>9 DEF IInv

\* What SendNext sends carries the stream on.
LEMMA SendNextCarries ==
  ASSUME IInv, SendNext
  PROVE  \E m, q : /\ Carries(wal, PlaceOf(sender), m, q)
                   /\ toClient' = Append(toClient, m)
                   /\ PlaceOf(sender)' = q
                   /\ sender' \in Senders /\ sender'.attached
<1> DEFINE n == sender.tx
           p == sender.part
           c == wal[n][p]
           place == PlaceOf(sender)
<1>1. /\ sender \in Senders /\ sender.attached /\ conn = "copy"
      /\ sender = [tx |-> n, part |-> p, known |-> sender.known,
                   attached |-> sender.attached, done |-> sender.done]
      /\ n \in Nat \ {0} /\ p \in Nat /\ sender.known \in Known
  BY NoSenderFacts DEF SendNext, Streaming, IInv, TypeOK, ConnInv, Senders
<1>2. place.tx = n /\ place.part = p /\ place.known = sender.known
      /\ place = [tx |-> n, part |-> p, known |-> sender.known]
  BY DEF PlaceOf
<1>3. /\ n \in DOMAIN wal /\ Len(wal[n]) \in Nat /\ DOMAIN wal[n] = 1..Len(wal[n])
      /\ \A i \in DOMAIN wal[n] : wal[n][i] \in Change
  <2>1. n <= Len(wal)
    BY DEF SendNext
  <2> QED BY <1>1, <2>1, WalFacts DEF IInv
<1>4. p \in 0..(Len(wal[n]) + 1)
  BY <1>1, <1>2, <1>3, SenderPlace, PlaceFacts DEF IInv, Parts
<1> HIDE DEF place
<1>5. CASE p = 0
  <2>1. toClient' = Append(toClient, Message("B", n)) /\ sender' = [sender EXCEPT !.part = 1]
    <3>1. p \notin DOMAIN wal[n] /\ ~ (p > Len(wal[n]))
      BY <1>3, <1>5
    <3> QED BY <1>5, <3>1 DEF SendNext
  <2>2. sender' = [tx |-> n, part |-> 1, known |-> sender.known,
                   attached |-> sender.attached, done |-> sender.done]
    BY <1>1, <2>1
  <2>3. PlaceOf(sender)' = [place EXCEPT !.part = 1]
    BY <1>2, <2>2 DEF PlaceOf
  <2>4. Carries(wal, place, Message("B", n), [place EXCEPT !.part = 1])
    BY <1>2, <1>3, <1>5 DEF Carries, Begins
  <2>5. sender' \in Senders /\ sender'.attached
    BY <1>1, <2>2, SMTT(30) DEF Senders
  <2> QED BY <2>1, <2>3, <2>4, <2>5, SMTT(30) DEF place
<1>6. CASE p \in DOMAIN wal[n] /\ sender.known[c.stmt.rel] # c.cols
  <2>1. /\ toClient' = Append(toClient, RelationMessage(c, n))
        /\ sender' = [sender EXCEPT !.known[c.stmt.rel] = c.cols]
    <3>1. p # 0 /\ ~ (p > Len(wal[n]))
      BY <1>3, <1>6
    <3> QED BY <1>6, <3>1 DEF SendNext
  <2> DEFINE known == [sender.known EXCEPT ![c.stmt.rel] = c.cols]
  <2>2. sender' = [tx |-> n, part |-> p, known |-> known,
                   attached |-> sender.attached, done |-> sender.done]
    BY <1>1, <2>1
  <2>3. [place EXCEPT !.known[c.stmt.rel] = c.cols] = [tx |-> n, part |-> p, known |-> known]
    <3>1. PICK k : k = sender.known
      OBVIOUS
    <3>2. PICK r : r = c.stmt.rel
      OBVIOUS
    <3>3. PICK here : here = [tx |-> n, part |-> p, known |-> k]
      OBVIOUS
    <3>4. [here EXCEPT !.known[r] = c.cols] =
            [tx |-> n, part |-> p, known |-> [k EXCEPT ![r] = c.cols]]
      BY <3>3
    <3> QED BY <1>2, <3>1, <3>2, <3>3, <3>4
  <2>4. c.stmt.rel \in Rels /\ c.cols \in Schemas
    BY <1>3, <1>6 DEF Change, Stmt
  <2>5. known \in Known
    BY <1>1, <2>4 DEF Known
  <2>6. Carries(wal, place, RelationMessage(c, n), [place EXCEPT !.known[c.stmt.rel] = c.cols])
    BY <1>2, <1>3, <1>6 DEF Carries, Announces
  <2> HIDE DEF known
  <2>7. PlaceOf(sender)' = [tx |-> n, part |-> p, known |-> known]
    BY <2>2 DEF PlaceOf
  <2>8. sender' \in Senders /\ sender'.attached
    BY <1>1, <2>2, <2>5 DEF Senders
  <2> QED BY <2>1, <2>3, <2>6, <2>7, <2>8 DEF place
<1>7. CASE p \in DOMAIN wal[n] /\ sender.known[c.stmt.rel] = c.cols
  <2>1. /\ toClient' = Append(toClient, ChangeMessage(c, n))
        /\ sender' = [sender EXCEPT !.part = p + 1]
    <3>1. p # 0 /\ ~ (p > Len(wal[n]))
      BY <1>3, <1>7
    <3> QED BY <1>7, <3>1 DEF SendNext
  <2>2. sender' = [tx |-> n, part |-> p + 1, known |-> sender.known,
                   attached |-> sender.attached, done |-> sender.done]
    BY <1>1, <2>1
  <2>3. PlaceOf(sender)' = [place EXCEPT !.part = p + 1]
    BY <1>2, <2>2 DEF PlaceOf
  <2>4. Carries(wal, place, ChangeMessage(c, n), [place EXCEPT !.part = p + 1])
    BY <1>2, <1>3, <1>7 DEF Carries, Changes
  <2>5. sender' \in Senders /\ sender'.attached
    BY <1>1, <2>2 DEF Senders
  <2> QED BY <2>1, <2>3, <2>4, <2>5 DEF place
<1>8. CASE p = Len(wal[n]) + 1
  <2>1. /\ toClient' = Append(toClient, Message("C", n))
        /\ sender' = [sender EXCEPT !.tx = n + 1, !.part = 0]
    <3>1. p # 0 /\ p > Len(wal[n]) /\ p \notin DOMAIN wal[n]
      BY <1>3, <1>8
    <3> QED BY <3>1 DEF SendNext
  <2>2. sender' = [tx |-> n + 1, part |-> 0, known |-> sender.known,
                   attached |-> sender.attached, done |-> sender.done]
    BY <1>1, <2>1
  <2>3. PlaceOf(sender)' = [tx |-> n + 1, part |-> 0, known |-> place.known]
    BY <1>2, <2>2 DEF PlaceOf
  <2>4. Carries(wal, place, Message("C", n), [tx |-> n + 1, part |-> 0, known |-> place.known])
    BY <1>2, <1>3, <1>8 DEF Carries, Commits
  <2>5. sender' \in Senders /\ sender'.attached
    BY <1>1, <2>2 DEF Senders
  <2> QED BY <2>1, <2>3, <2>4, <2>5 DEF place
<1>9. p = 0 \/ p \in DOMAIN wal[n] \/ p = Len(wal[n]) + 1
  BY <1>3, <1>4
<1> QED BY <1>5, <1>6, <1>7, <1>8, <1>9

\* SendNext sends what carries the stream on.
LEMMA SendNextStep ==
  ASSUME IInv, SendNext
  PROVE  IInv'
<1>1. PICK m, q : /\ Carries(wal, PlaceOf(sender), m, q)
                  /\ toClient' = Append(toClient, m)
                  /\ PlaceOf(sender)' = q
                  /\ sender' \in Senders /\ sender'.attached
  BY SendNextCarries
<1>2. UNCHANGED << wal, schema, server, slotOk, confirmed, peer, toServer, clientVars, history >>
  BY DEF SendNext
<1>3. sender.attached /\ conn = "copy"
  BY DEF SendNext, Streaming, IInv, ConnInv
<1>4. m \in Messages
  BY <1>1, <1>3, SenderPlace, CarriesType DEF IInv
<1>5. toClient' \in Seq(Messages)
  BY <1>1, <1>4, AppendProperties DEF IInv, TypeOK
<1>6. TypeOK'
  BY <1>1, <1>2, <1>5 DEF IInv, TypeOK, clientVars, history
<1>7. ConnInv'
  BY <1>2, <1>3 DEF IInv, ConnInv, clientVars
<1>8. AckInv'
  BY <1>2 DEF IInv, AckInv, clientVars, history
<1>9. StreamInv'
  BY <1>1, <1>2, <1>3, StreamSent DEF IInv, clientVars, history
<1>10. DeliveredWhole'
  BY <1>2 DEF IInv, DeliveredWhole, clientVars
<1> QED BY <1>6, <1>7, <1>8, <1>9, <1>10 DEF IInv

\* An aside carries the stream from any place to itself.
LEMMA AsideCarries ==
  ASSUME NEW tag \in {"k", "k!", "c", "E"}, NEW end \in Nat, NEW p
  PROVE  Carries(wal, p, Message(tag, end), p) /\ Message(tag, end) \in Messages
<1>1. Message(tag, end).tag = tag /\ Message(tag, end).end = end
  BY DEF Message
<1> QED BY <1>1, MessageTypes DEF Carries, Asides

\* A keepalive and the end of the copy are asides.
LEMMA SendIdleStep ==
  ASSUME IInv, SendIdle
  PROVE  IInv'
<1>1. PICK tag \in {"k", "k!", "c", "E"}, end \in Nat : toClient' = << Message(tag, end) >>
  BY WalFacts DEF SendIdle, IInv
<1>2. /\ UNCHANGED << wal, schema, server, slotOk, confirmed, peer, toServer, clientVars, history >>
      /\ toClient = << >> /\ sender.attached /\ conn = "copy" /\ sender \in Senders
  BY NoSenderFacts DEF SendIdle, Streaming, IInv, TypeOK, ConnInv
<1>3. sender' \in Senders /\ PlaceOf(sender)' = PlaceOf(sender)
  <2>1. \/ sender' = sender
        \/ sender' = [sender EXCEPT !.done = TRUE]
    BY DEF SendIdle
  <2> QED BY <1>2, <2>1 DEF Senders, PlaceOf
<1> DEFINE m == Message(tag, end)
<1>4. Carries(wal, PlaceOf(sender), m, PlaceOf(sender)) /\ m \in Messages
  BY AsideCarries
<1> HIDE DEF m
<1>5. toClient' = Append(toClient, m) /\ toClient' \in Seq(Messages)
  BY <1>1, <1>2, <1>4 DEF m
<1>6. TypeOK'
  BY <1>2, <1>3, <1>5 DEF IInv, TypeOK, clientVars, history
<1>7. ConnInv'
  BY <1>2 DEF IInv, ConnInv, clientVars
<1>8. AckInv'
  BY <1>2 DEF IInv, AckInv, clientVars, history
<1>9. StreamInv'
  BY <1>2, <1>3, <1>4, <1>5, StreamSent DEF IInv, clientVars, history
<1>10. DeliveredWhole'
  BY <1>2 DEF IInv, DeliveredWhole, clientVars
<1> QED BY <1>6, <1>7, <1>8, <1>9, <1>10 DEF IInv

\* What is confirmed was on its way.
LEMMA ConfirmStep ==
  ASSUME IInv, Confirm
  PROVE  IInv'
<1>1. UNCHANGED << wal, schema, server, slotOk, sender, peer, toClient, clientVars, history >>
  BY DEF Confirm
<1>2. /\ confirmed' = Larger(confirmed, Head(toServer)) /\ toServer' = Tail(toServer)
      /\ toServer \in Seq(Nat) /\ toServer # << >>
  BY DEF Confirm, IInv, TypeOK
<1>3. /\ Head(toServer) \in Nat /\ Head(toServer) <= acked /\ toServer' \in Seq(Nat)
      /\ \A i \in DOMAIN toServer' : toServer'[i] <= acked
  <2>1. /\ Head(toServer) \in Nat /\ toServer' \in Seq(Nat) /\ Len(toServer') = Len(toServer) - 1
        /\ \A i \in 1..Len(toServer') : toServer'[i] = toServer[i + 1]
    BY <1>2, HeadTailProperties
  <2>2. /\ Len(toServer) \in Nat \ {0} /\ DOMAIN toServer = 1..Len(toServer)
        /\ DOMAIN toServer' = 1..Len(toServer') /\ Head(toServer) = toServer[1]
    BY <1>2, <2>1, EmptySeq, LenProperties
  <2>3. \A i \in 1..Len(toServer) : toServer[i] <= acked
    BY <2>2 DEF IInv, AckInv
  <2>4. \A i \in 1..Len(toServer') : i + 1 \in 1..Len(toServer)
    BY <2>1, <2>2
  <2> QED BY <2>1, <2>2, <2>3, <2>4, SMTT(30)
<1>4. confirmed' \in Nat /\ confirmed' <= acked
  BY <1>2, <1>3 DEF IInv, TypeOK, AckInv, Larger
<1>5. TypeOK'
  BY <1>1, <1>3, <1>4 DEF IInv, TypeOK, clientVars, history
<1>6. ConnInv'
  BY <1>1 DEF IInv, ConnInv, clientVars
<1>7. AckInv'
  BY <1>1, <1>3, <1>4 DEF IInv, AckInv, clientVars, history
<1>8. StreamInv'
  BY <1>1, StreamKept DEF IInv, clientVars, history
<1>9. DeliveredWhole'
  BY <1>1 DEF IInv, DeliveredWhole, clientVars
<1> QED BY <1>5, <1>6, <1>7, <1>8, <1>9 DEF IInv

\* A walsender that ends by itself had lost its client; a crash ends any.
LEMMA SenderEndsStep ==
  ASSUME IInv, SenderExits \/ Crash
  PROVE  IInv'
<1>1. /\ UNCHANGED << wal, schema, slotOk, toClient, clientVars, history >>
      /\ sender' = NoSender /\ toServer' = << >>
      /\ server' \in {"up", "stopping", "down"} /\ peer' \in {"open", "closed"}
      /\ confirmed' \in Nat /\ confirmed' <= confirmed
  BY DEF SenderExits, Crash, IInv, TypeOK
<1>2. ~ sender'.attached
  BY <1>1, NoSenderFacts
<1>3. TypeOK'
  BY <1>1 DEF IInv, TypeOK, clientVars, history
<1>4. ConnInv'
  BY <1>1, <1>2 DEF IInv, ConnInv, clientVars
<1>5. AckInv'
  BY <1>1 DEF IInv, TypeOK, AckInv, clientVars, history
<1>6. StreamInv'
  BY <1>1, <1>2, StreamKept DEF IInv, clientVars, history
<1>7. DeliveredWhole'
  BY <1>1 DEF IInv, DeliveredWhole, clientVars
<1> QED BY <1>3, <1>4, <1>5, <1>6, <1>7 DEF IInv

\* A walsender that is killed leaves its client an error message, an aside.
LEMMA SenderKilledStep ==
  ASSUME IInv, SenderKilled
  PROVE  IInv'
<1>1. /\ UNCHANGED << wal, schema, server, confirmed, clientVars, history >>
      /\ sender' = NoSender /\ toServer' = << >> /\ slotOk' \in BOOLEAN
  BY DEF SenderKilled, IInv, TypeOK
<1>2. ~ sender'.attached
  BY <1>1, NoSenderFacts
<1> DEFINE m == Message("E", 0)
           p == PlaceOf(sender)
<1>3. Carries(wal, p, m, p) /\ m \in Messages
  BY AsideCarries
<1> HIDE DEF m, p
<1>4. /\ toClient' \in Seq(Messages) /\ peer' \in {"open", "closed"}
      /\ \/ sender.attached /\ toClient' = Append(toClient, m)
         \/ toClient' = toClient
  <2>1. toClient \in Seq(Messages) /\ peer \in {"open", "closed"}
    BY DEF IInv, TypeOK
  <2>2. \/ sender.attached /\ toClient' = Append(toClient, m) /\ peer' = "closed"
        \/ toClient' = toClient /\ peer' = peer
    BY DEF SenderKilled, m
  <2> QED BY <1>3, <2>1, <2>2, AppendProperties
<1>5. TypeOK'
  BY <1>1, <1>4 DEF IInv, TypeOK, clientVars, history
<1>6. ConnInv'
  BY <1>1, <1>2, <1>4 DEF IInv, ConnInv, clientVars
<1>7. AckInv'
  BY <1>1 DEF IInv, AckInv, clientVars, history
<1>8. StreamInv'
  <2>1. CASE sender.attached /\ toClient' = Append(toClient, m)
    <3>1. conn = "copy"
      BY <2>1 DEF IInv, ConnInv
    <3> QED BY <1>1, <1>2, <1>3, <2>1, <3>1, StreamSent DEF IInv, clientVars, history, p
  <2>2. CASE toClient' = toClient
    BY <1>1, <1>2, <2>2, StreamKept DEF IInv, clientVars, history
  <2> QED BY <1>4, <2>1, <2>2
<1>9. DeliveredWhole'
  BY <1>1 DEF IInv, DeliveredWhole, clientVars
<1> QED BY <1>5, <1>6, <1>7, <1>8, <1>9 DEF IInv

-----------------------------------------------------------------------------
(* The client's steps.                                                      *)

\* A call that ends in an error for good ends the connection.
LEMMA FailStep ==
  ASSUME IInv, Fail, UNCHANGED serverVars, UNCHANGED history
  PROVE  IInv'
<1>1. /\ UNCHANGED << wal, schema, server, slotOk, confirmed, toServer, at, reached, acked >>
      /\ phase' = "stopped" /\ resume' = "fresh" /\ attempts' = 0
      /\ asm' = EmptyAsm /\ last_recv' = 0 /\ last_ack' = 0 /\ got' = NoTx
      /\ conn' = "closed" /\ peer' = "closed" /\ toClient' = << >>
      /\ sender' = IF sender = NoSender THEN NoSender ELSE [sender EXCEPT !.attached = FALSE]
  BY DEF Fail, CloseSocket, serverVars, history
<1>2. sender' \in Senders \cup {NoSender} /\ ~ sender'.attached
  BY <1>1, NoSenderFacts DEF IInv, TypeOK, Senders
<1>3. /\ asm' = [relations |-> asm'.relations, pending |-> asm'.pending]
      /\ asm'.relations \in Known
  BY <1>1 DEF EmptyAsm, Known
<1>4. TypeOK'
  BY <1>1, <1>2, <1>3 DEF IInv, TypeOK
<1>5. ConnInv'
  BY <1>1, <1>2 DEF ConnInv
<1>6. AckInv'
  BY <1>1 DEF IInv, TypeOK, AckInv
<1>7. StreamInv'
  BY <1>1, StreamGone
<1>8. DeliveredWhole'
  BY <1>1 DEF DeliveredWhole
<1> QED BY <1>4, <1>5, <1>6, <1>7, <1>8 DEF IInv

\* A step of the client's thread that reads and writes nothing on its connection.
LEMMA ThreadStep ==
  ASSUME IInv, TypeOK', ConnInv',
         UNCHANGED << serverVars, sender, socketVars, conn, asm, last_ack, got, history >>
  PROVE  IInv'
<1>1. AckInv'
  BY DEF IInv, AckInv, serverVars, socketVars, history
<1>2. StreamInv'
  BY StreamKept DEF IInv, serverVars, socketVars, history
<1>3. DeliveredWhole'
  BY DEF IInv, DeliveredWhole, serverVars
<1> QED BY <1>1, <1>2, <1>3 DEF IInv

\* Asking for more, and a read that finds nothing or the end of the socket.
LEMMA WaitSteps ==
  ASSUME IInv, CallNext \/ ReadIdle \/ ReadEof
  PROVE  IInv'
<1>1. /\ UNCHANGED << serverVars, sender, socketVars, conn, asm, last_recv, last_ack, got, history >>
      /\ phase \in {"caller", "reading"}
      /\ \/ phase' \in {"caller", "reading"} /\ UNCHANGED << resume, attempts >>
         \/ phase' = "retry" /\ resume' = "next" /\ attempts' = 0
  BY DEF CallNext, ReadIdle, ReadEof, Reconnect
<1>2. TypeOK'
  BY <1>1 DEF IInv, TypeOK, serverVars, socketVars, history
<1>3. ConnInv'
  BY <1>1 DEF IInv, ConnInv, socketVars
<1> QED BY <1>1, <1>2, <1>3, ThreadStep

\* What is known of a message the client takes: it is next on the path.
LEMMA TakenFacts ==
  ASSUME IInv, NEW m, Arrives(m)
  PROVE  /\ conn = "copy" /\ toClient # << >> /\ m = Head(toClient) /\ m \in Messages
         /\ Tail(toClient) \in Seq(Messages)
         /\ \E p, q \in Places : ClientAt(p) /\ Carries(wal, p, m, q)
<1>1. conn = "copy" /\ toClient # << >> /\ m = Head(toClient)
  BY DEF Arrives, IInv, ConnInv
<1>2. toClient \in Seq(Messages) /\ TypeOK /\ StreamInv
  BY DEF IInv, TypeOK
<1>3. m \in Messages /\ Tail(toClient) \in Seq(Messages)
  BY <1>1, <1>2, HeadTailProperties
<1>4. \E p, q \in Places : ClientAt(p) /\ Carries(wal, p, m, q)
  BY <1>1, <1>2, HeadCarried
<1> QED BY <1>1, <1>3, <1>4

\* The tag of a message tells how it carries the stream on.
LEMMA CarriesTag ==
  ASSUME TypeOK, NEW p, NEW m, NEW q
  PROVE  /\ Begins(wal, p, m, q) => m.tag = "B"
         /\ Announces(wal, p, m, q) => m.tag = "R"
         /\ Changes(wal, p, m, q) => m.tag \in {"I", "D", "U", "T"}
         /\ Commits(wal, p, m, q) => m.tag = "C"
         /\ Asides(p, m, q) => m.tag \in {"k", "k!", "c", "E"}
<1>1. Begins(wal, p, m, q) => m.tag = "B"
  BY DEF Begins, Message
<1>2. Announces(wal, p, m, q) => m.tag = "R"
  BY DEF Announces, RelationMessage, Message
<1>3. ASSUME Changes(wal, p, m, q) PROVE m.tag \in {"I", "D", "U", "T"}
  <2>1. p.tx \in DOMAIN wal /\ p.part \in DOMAIN wal[p.tx]
        /\ m = ChangeMessage(wal[p.tx][p.part], p.tx)
    BY <1>3 DEF Changes
  <2>2. wal[p.tx][p.part] \in Change
    BY <2>1, WalFacts
  <2>3. wal[p.tx][p.part].stmt.op \in {"insert", "delete", "update", "truncate"}
    BY <2>2 DEF Change, Stmt
  <2>4. m.tag = Tag[wal[p.tx][p.part].stmt.op]
    BY <2>1 DEF ChangeMessage, Message
  <2>5. /\ Tag["insert"] = "I" /\ Tag["delete"] = "D" /\ Tag["update"] = "U"
        /\ Tag["truncate"] = "T"
    BY DEF Tag
  <2> QED BY <2>3, <2>4, <2>5
<1>4. Commits(wal, p, m, q) => m.tag = "C"
  BY DEF Commits, Message
<1> QED BY <1>1, <1>2, <1>3, <1>4 DEF Asides

\* The assembler stays an assembler.
LEMMA AssembleType ==
  ASSUME IInv, NEW m, Arrives(m)
  PROVE  /\ Assemble(m) = [relations |-> Assemble(m).relations, pending |-> Assemble(m).pending]
         /\ Assemble(m).relations \in Known
<1>1. PICK p, q \in Places : ClientAt(p) /\ Carries(wal, p, m, q)
  BY TakenFacts
<1>2. /\ asm = [relations |-> asm.relations, pending |-> asm.pending]
      /\ asm.relations \in Known
  BY DEF IInv, TypeOK
<1>3. m \in Messages
  BY TakenFacts
<1>4. CASE m.tag = "R"
  <2>1. Announces(wal, p, m, q)
    BY <1>1, <1>4, CarriesTag DEF Carries, IInv
  <2>2. m.rel \in Rels /\ m.cols \in Schemas
    <3>1. p.tx \in DOMAIN wal /\ p.part \in DOMAIN wal[p.tx]
          /\ m = RelationMessage(wal[p.tx][p.part], p.tx)
      BY <2>1 DEF Announces
    <3>2. wal[p.tx][p.part] \in Change
      BY <3>1, WalFacts DEF IInv
    <3>3. m.rel = wal[p.tx][p.part].stmt.rel /\ m.cols = wal[p.tx][p.part].cols
      BY <3>1 DEF RelationMessage, Message
    <3> QED BY <3>2, <3>3 DEF Change, Stmt
  <2>3. [asm.relations EXCEPT ![m.rel] = m.cols] \in Known
    BY <1>2, <2>2 DEF Known
  <2>4. Assemble(m) = [relations |-> [asm.relations EXCEPT ![m.rel] = m.cols],
                       pending |-> asm.pending]
    BY <1>2, <1>4, AssembleCases
  <2> QED BY <2>3, <2>4
<1>5. CASE m.tag \in {"B", "C"}
  <2>1. Assemble(m) = [relations |-> asm.relations, pending |-> << >>]
    BY <1>2, <1>5, AssembleCases
  <2> QED BY <1>2, <2>1
<1>6. CASE IsChange(m)
  <2>1. PICK e : Assemble(m) = [relations |-> asm.relations, pending |-> Append(asm.pending, e)]
    BY <1>2, <1>6, AssembleCases
  <2> QED BY <1>2, <2>1
<1>7. CASE m.tag \in {"T", "k", "k!", "c", "E"}
  <2>1. Assemble(m) = asm
    BY <1>2, <1>7, AssembleCases
  <2> QED BY <1>2, <2>1
<1>8. m.tag \in {"B", "R", "I", "D", "U", "T", "C", "k", "k!", "c", "E"}
  BY <1>3 DEF Messages
<1> QED BY <1>4, <1>5, <1>6, <1>7, <1>8 DEF IsChange

\* The larger of two numbers is one of them.
LEMMA LargerFacts ==
  \A a, b \in Nat : /\ Larger(a, b) \in Nat /\ a <= Larger(a, b) /\ b <= Larger(a, b)
                    /\ \A c \in Nat : a <= c /\ b <= c => Larger(a, b) <= c
BY DEF Larger

\* A message that is taken without a word to anyone but the assembler.
LEMMA ReadPartStep ==
  ASSUME IInv, NEW m, ReadPart(m) \/ ReadKeepalive(m)
  PROVE  IInv'
<1>1. /\ Arrives(m) /\ toClient' = Tail(toClient)
      /\ UNCHANGED << peer, toServer, serverVars, sender, conn, phase, resume, attempts,
                      last_ack, got, history >>
      /\ last_recv' = Larger(last_recv, m.end) /\ m.tag # "C"
  BY DEF ReadPart, ReadKeepalive, Taken
<1>2. /\ conn = "copy" /\ toClient # << >> /\ m = Head(toClient) /\ m \in Messages
      /\ Tail(toClient) \in Seq(Messages)
  BY <1>1, TakenFacts
<1>3. asm' = Assemble(m)
  <2>1. CASE ReadPart(m)
    BY <2>1 DEF ReadPart
  <2>2. CASE ReadKeepalive(m)
    BY <2>2, AssembleCases DEF ReadKeepalive, IInv, TypeOK
  <2> QED BY <2>1, <2>2
<1>4. /\ asm' = [relations |-> asm'.relations, pending |-> asm'.pending]
      /\ asm'.relations \in Known
  BY <1>1, <1>3, AssembleType
<1>5. last_recv' \in Nat
  BY <1>1, <1>2, LargerFacts DEF IInv, TypeOK, Messages
<1>6. TypeOK'
  BY <1>1, <1>2, <1>4, <1>5 DEF IInv, TypeOK, serverVars, history
<1>7. ConnInv'
  BY <1>1, <1>2 DEF IInv, ConnInv, Arrives
<1>8. AckInv'
  BY <1>1 DEF IInv, AckInv, serverVars, history
<1>9. StreamInv'
  BY <1>1, <1>2, <1>3, StreamRead DEF IInv, serverVars, history
<1>10. DeliveredWhole'
  BY <1>1 DEF IInv, DeliveredWhole, serverVars
<1> QED BY <1>6, <1>7, <1>8, <1>9, <1>10 DEF IInv

\* The Commit message the client takes is that of the transaction after the one it
\* had last, and it has all of that transaction's changes.
LEMMA CommitRead ==
  ASSUME IInv, NEW m, ReadCommit(m)
  PROVE  /\ m.end = at + 1 /\ m.end \in DOMAIN wal /\ asm.pending = RowChangesOf(wal[m.end])
<1>1. Arrives(m) /\ m.tag = "C"
  BY DEF ReadCommit
<1>2. PICK p, q \in Places : ClientAt(p) /\ Carries(wal, p, m, q)
  BY <1>1, TakenFacts
<1>3. Commits(wal, p, m, q)
  BY <1>1, <1>2, CarriesTag DEF Carries, IInv
<1>4. m.end = p.tx /\ p.tx \in DOMAIN wal /\ p.part = Len(wal[p.tx]) + 1
  BY <1>3 DEF Commits, Message
<1>5. p.tx \in Nat /\ Len(wal[p.tx]) \in Nat /\ wal[p.tx] \in Seq(Change)
  BY <1>4, WalFacts DEF IInv
<1>6. p.part - 1 = Len(wal[p.tx]) /\ p.part > 0
  BY <1>4, <1>5
<1>7. asm.pending = RowChangesOf(SubSeq(wal[p.tx], 1, Len(wal[p.tx])))
  BY <1>2, <1>6 DEF ClientAt
<1>8. at + 1 = p.tx
  BY <1>2, <1>5 DEF ClientAt
<1> QED BY <1>4, <1>5, <1>7, <1>8, SubSeqFull

\* The caller gets the transaction.
LEMMA ReadCommitStep ==
  ASSUME IInv, NEW m, ReadCommit(m)
  PROVE  IInv'
<1>1. /\ Arrives(m) /\ m.tag = "C" /\ toClient' = Tail(toClient) /\ asm' = Assemble(m)
      /\ got' = [lsn |-> m.end, changes |-> asm.pending]
      /\ UNCHANGED << peer, toServer, serverVars, sender, conn, resume, attempts, last_ack, acked >>
      /\ last_recv' = Larger(last_recv, m.end) /\ phase' = "caller"
      /\ at' = m.end /\ reached' = Larger(reached, m.end)
  BY DEF ReadCommit, Taken
<1>2. /\ conn = "copy" /\ toClient # << >> /\ m = Head(toClient) /\ m \in Messages
      /\ Tail(toClient) \in Seq(Messages)
  BY <1>1, TakenFacts
<1>3. /\ asm' = [relations |-> asm'.relations, pending |-> asm'.pending]
      /\ asm'.relations \in Known
  BY <1>1, AssembleType
<1>4. m.end \in DOMAIN wal /\ asm.pending = RowChangesOf(wal[m.end]) /\ m.end \in 1..Len(wal)
      /\ Len(wal) \in Nat
  BY CommitRead, WalFacts DEF IInv
<1>5. /\ last_recv' \in Nat /\ reached' \in Nat /\ reached <= reached' /\ m.end <= reached'
      /\ reached' <= Len(wal)
  <2>1. /\ last_recv \in Nat /\ reached \in Nat /\ m.end \in Nat
        /\ reached <= Len(wal) /\ m.end <= Len(wal) /\ Len(wal) \in Nat
    BY <1>4 DEF IInv, TypeOK, AckInv
  <2> QED BY <1>1, <2>1 DEF Larger
<1>6. TypeOK'
  <2>1. at' \in Nat
    BY <1>1, <1>4
  <2>2. TypeOK
    BY DEF IInv
  <2> QED BY <1>1, <1>2, <1>3, <1>5, <2>1, <2>2 DEF TypeOK, serverVars
<1>7. ConnInv'
  BY <1>1, <1>2 DEF IInv, ConnInv
<1>8. AckInv'
  BY <1>1, <1>5, <1>6 DEF IInv, TypeOK, AckInv, serverVars
<1>9. StreamInv'
  BY <1>1, <1>2, StreamRead DEF IInv, serverVars
<1>10. DeliveredWhole'
  BY <1>1, <1>4 DEF DeliveredWhole, serverVars
<1> QED BY <1>6, <1>7, <1>8, <1>9, <1>10 DEF IInv

\* A status update repeats what was acknowledged.
LEMMA StatusType ==
  ASSUME IInv, NEW lsn \in Nat, lsn <= acked', acked <= acked', acked' \in Nat,
         toServer' = Append(toServer, lsn)
  PROVE  /\ toServer' \in Seq(Nat)
         /\ \A i \in DOMAIN toServer' : toServer'[i] <= acked'
<1>1. /\ toServer \in Seq(Nat) /\ acked \in Nat
      /\ \A i \in DOMAIN toServer : toServer[i] <= acked
  BY DEF IInv, TypeOK, AckInv
<1>2. /\ toServer' \in Seq(Nat) /\ DOMAIN toServer' = 1..(Len(toServer) + 1)
      /\ Len(toServer) \in Nat /\ DOMAIN toServer = 1..Len(toServer)
      /\ \A i \in 1..Len(toServer) : toServer'[i] = toServer[i] /\ toServer[i] \in Nat
      /\ toServer'[Len(toServer) + 1] = lsn
  BY <1>1, AppendProperties, LenProperties, ElementOfSeq
<1>3. ASSUME NEW i \in 1..(Len(toServer) + 1)
      PROVE  toServer'[i] <= acked'
  <2>1. CASE i = Len(toServer) + 1
    BY <1>2, <2>1
  <2>2. CASE i # Len(toServer) + 1
    <3>1. i \in 1..Len(toServer)
      BY <1>2, <2>2
    <3>2. toServer[i] <= acked /\ toServer[i] \in Nat /\ toServer'[i] = toServer[i]
      BY <1>1, <1>2, <3>1
    <3> QED BY <1>1, <3>2
  <2> QED BY <2>1, <2>2
<1> QED BY <1>2, <1>3

\* A keepalive that asks for a reply is answered, or found to be from the dead.
LEMMA ReplyStep ==
  ASSUME IInv, NEW m, Reply(m)
  PROVE  IInv'
<1>1. /\ Arrives(m) /\ m.tag = "k!" /\ last_recv' = Larger(last_recv, m.end)
      /\ UNCHANGED << serverVars, last_ack, history, peer, conn, asm, got, sender >>
  BY DEF Reply, Reconnect, socketVars
<1>2. /\ conn = "copy" /\ toClient # << >> /\ m = Head(toClient) /\ m \in Messages
      /\ Tail(toClient) \in Seq(Messages)
  BY <1>1, TakenFacts
<1>3. last_recv' \in Nat
  BY <1>1, <1>2, LargerFacts DEF IInv, TypeOK, Messages
<1>4. CASE peer = "closed" /\ Reconnect("next")
  <2>1. /\ phase' = "retry" /\ resume' = "next" /\ attempts' = 0
        /\ UNCHANGED << conn, asm, got, sender, socketVars >>
    BY <1>4 DEF Reconnect
  <2>2. TypeOK'
    BY <1>1, <1>3, <2>1 DEF IInv, TypeOK, serverVars, socketVars, history
  <2>3. ConnInv'
    BY <1>1, <2>1 DEF IInv, ConnInv, socketVars
  <2> QED BY <1>1, <2>1, <2>2, <2>3, ThreadStep
<1>5. CASE peer = "open" /\ toClient' = Tail(toClient) /\ toServer' = Append(toServer, last_ack)
           /\ UNCHANGED << phase, resume, attempts >>
  <2>1. /\ toServer' \in Seq(Nat)
        /\ \A i \in DOMAIN toServer' : toServer'[i] <= acked'
    <3>1. last_ack \in Nat /\ last_ack <= acked' /\ acked <= acked' /\ acked' \in Nat
      BY <1>1 DEF IInv, TypeOK, AckInv, history
    <3> QED BY <1>5, <3>1, StatusType
  <2>2. asm' = Assemble(m)
    BY <1>1, AssembleCases DEF IInv, TypeOK
  <2>3. TypeOK'
    BY <1>1, <1>2, <1>3, <1>5, <2>1 DEF IInv, TypeOK, serverVars, history
  <2>4. ConnInv'
    BY <1>1, <1>2, <1>5 DEF IInv, ConnInv, Arrives
  <2>5. AckInv'
    BY <1>1, <2>1 DEF IInv, AckInv, serverVars, history
  <2>6. StreamInv'
    BY <1>1, <1>2, <1>5, <2>2, StreamRead DEF IInv, serverVars, history
  <2>7. DeliveredWhole'
    BY <1>1 DEF IInv, DeliveredWhole, serverVars
  <2> QED BY <2>3, <2>4, <2>5, <2>6, <2>7 DEF IInv
<1> QED BY <1>4, <1>5 DEF Reply

\* A message that breaks the call starts a reconnect or ends it.
LEMMA ReadBrokenStep ==
  ASSUME IInv, NEW m, ReadBroken(m)
  PROVE  IInv'
<1>1. CASE Misfit(m)
  BY <1>1, FailStep DEF ReadBroken
<1>2. CASE ~ Misfit(m)
  <2>1. /\ phase' = "retry" /\ resume' = "next" /\ attempts' = 0 /\ phase = "reading"
        /\ UNCHANGED << conn, asm, got, sender, socketVars, last_recv, last_ack, serverVars, history >>
    BY <1>2 DEF ReadBroken, Reconnect, Arrives
  <2>2. TypeOK'
    BY <2>1 DEF IInv, TypeOK, serverVars, socketVars, history
  <2>3. ConnInv'
    BY <2>1 DEF IInv, ConnInv, socketVars
  <2> QED BY <2>1, <2>2, <2>3, ThreadStep
<1> QED BY <1>1, <1>2

\* An acknowledgement is of what the caller got.
LEMMA AcknowledgeStep ==
  ASSUME IInv, Acknowledge
  PROVE  IInv' /\ acked <= acked' /\ acked' <= reached
<1>1. /\ phase = "caller" /\ got # NoTx
      /\ last_ack' = Larger(last_ack, got.lsn) /\ acked' = Larger(acked, got.lsn)
      /\ UNCHANGED << serverVars, last_recv, at, reached, conn, asm, sender, peer, toClient >>
  BY DEF Acknowledge, SendStatus, Reconnect, socketVars
<1>2. /\ got.lsn \in Nat /\ got.lsn <= reached /\ reached \in Nat /\ acked \in Nat /\ last_ack \in Nat
      /\ acked <= reached /\ last_ack <= acked
  BY <1>1, WalFacts, SMTT(30) DEF IInv, TypeOK, AckInv, DeliveredWhole
<1>3. /\ last_ack' \in Nat /\ acked' \in Nat /\ last_ack' <= acked' /\ acked <= acked'
      /\ acked' <= reached
  BY <1>1, <1>2 DEF Larger
<1>4. \/ /\ toServer' = Append(toServer, last_ack') /\ got' = NoTx
         /\ UNCHANGED << phase, resume, attempts >>
      \/ /\ phase' = "retry" /\ resume' = "ack" /\ attempts' = 0 /\ UNCHANGED << toServer, got >>
  BY DEF Acknowledge, SendStatus, Reconnect, socketVars
<1>5. /\ toServer' \in Seq(Nat)
      /\ \A i \in DOMAIN toServer' : toServer'[i] <= acked'
  <2>1. CASE toServer' = Append(toServer, last_ack')
    <3>1. PICK lsn : lsn = last_ack'
      OBVIOUS
    <3> QED BY <1>3, <2>1, <3>1, StatusType
  <2>2. CASE toServer' = toServer
    <3>1. \A i \in DOMAIN toServer : toServer[i] \in Nat /\ toServer[i] <= acked
      BY LenProperties, ElementOfSeq DEF IInv, TypeOK, AckInv
    <3> QED BY <1>2, <1>3, <2>2, <3>1 DEF IInv, TypeOK
  <2> QED BY <1>4, <2>1, <2>2
<1>6. /\ phase' \in {"caller", "retry"} /\ resume' \in {"fresh", "next", "ack"} /\ attempts' \in Nat
      /\ phase' = "retry" => attempts' = 0
  BY <1>1, <1>4 DEF IInv, TypeOK
<1>7. TypeOK'
  BY <1>1, <1>3, <1>5, <1>6 DEF IInv, TypeOK, serverVars
<1>8. ConnInv'
  BY <1>1, <1>6 DEF IInv, ConnInv
<1>9. AckInv'
  <2>1. confirmed' <= acked'
    BY <1>1, <1>2, <1>3 DEF IInv, TypeOK, AckInv, serverVars
  <2>2. reached' <= Len(wal') /\ reached' = reached
    BY <1>1 DEF IInv, AckInv, serverVars
  <2>3. got' # NoTx => got'.lsn <= reached'
    BY <1>2, <1>4, <2>2
  <2> QED BY <1>3, <1>5, <2>1, <2>2, <2>3 DEF AckInv
<1>10. StreamInv'
  BY <1>1, StreamKept DEF IInv, serverVars
<1>11. DeliveredWhole'
  BY <1>1, <1>4 DEF IInv, DeliveredWhole, serverVars
<1> QED BY <1>3, <1>7, <1>8, <1>9, <1>10, <1>11 DEF IInv

\* The acknowledgement is sent once more on the new connection, or lost.
LEMMA AcknowledgeAgainStep ==
  ASSUME IInv, AcknowledgeAgain
  PROVE  IInv'
<1>1. phase = "reack" /\ UNCHANGED << serverVars, history >>
  BY DEF AcknowledgeAgain
<1>2. CASE peer = "closed" /\ Fail
  BY <1>1, <1>2, FailStep
<1>3. CASE /\ toServer' = Append(toServer, last_ack) /\ got' = NoTx /\ phase' = "caller"
           /\ UNCHANGED << conn, resume, attempts, asm, last_recv, last_ack, sender, peer, toClient >>
  <2>1. /\ toServer' \in Seq(Nat)
        /\ \A i \in DOMAIN toServer' : toServer'[i] <= acked'
    <3>1. last_ack \in Nat /\ last_ack <= acked' /\ acked <= acked' /\ acked' \in Nat
      BY <1>1 DEF IInv, TypeOK, AckInv, history
    <3> QED BY <1>3, <3>1, StatusType
  <2>2. TypeOK'
    BY <1>1, <1>3, <2>1 DEF IInv, TypeOK, serverVars, history
  <2>3. ConnInv'
    BY <1>1, <1>3 DEF IInv, ConnInv
  <2>4. AckInv'
    BY <1>1, <1>3, <2>1 DEF IInv, AckInv, serverVars, history
  <2>5. StreamInv'
    BY <1>1, <1>3, StreamKept DEF IInv, serverVars, history
  <2>6. DeliveredWhole'
    BY <1>3 DEF DeliveredWhole
  <2> QED BY <2>2, <2>3, <2>4, <2>5, <2>6 DEF IInv
<1> QED BY <1>2, <1>3 DEF AcknowledgeAgain, SendStatus

\* The old connection is closed, or replaced by a new one, before it streams.
LEMMA HangUpStep ==
  ASSUME IInv, HangUp \/ Dial
  PROVE  IInv'
<1>1. /\ UNCHANGED << serverVars, toServer, resume, attempts, last_recv, last_ack, got, history >>
      /\ phase' \in {"dial", "start"} /\ conn' \in {"closed", "ready"}
      /\ phase' = "start" => conn' = "ready" /\ asm' = EmptyAsm
      /\ asm' \in {asm, EmptyAsm} /\ peer' \in {"open", "closed"} /\ toClient' = << >>
      /\ sender' = IF sender = NoSender THEN NoSender ELSE [sender EXCEPT !.attached = FALSE]
  BY DEF HangUp, Dial, CloseSocket
<1>2. sender' \in Senders \cup {NoSender} /\ ~ sender'.attached
  BY <1>1, NoSenderFacts DEF IInv, TypeOK, Senders
<1>3. /\ asm' = [relations |-> asm'.relations, pending |-> asm'.pending]
      /\ asm'.relations \in Known
  <2>1. CASE asm' = asm
    BY <2>1 DEF IInv, TypeOK
  <2>2. CASE asm' = EmptyAsm
    BY <2>2 DEF EmptyAsm, Known
  <2> QED BY <1>1, <2>1, <2>2
<1>4. TypeOK'
  BY <1>1, <1>2, <1>3 DEF IInv, TypeOK, serverVars, history
<1>5. ConnInv'
  BY <1>1, <1>2 DEF ConnInv
<1>6. AckInv'
  BY <1>1 DEF IInv, AckInv, serverVars, history
<1>7. StreamInv'
  BY <1>1, StreamGone
<1>8. DeliveredWhole'
  BY <1>1 DEF IInv, DeliveredWhole, serverVars
<1> QED BY <1>4, <1>5, <1>6, <1>7, <1>8 DEF IInv

\* Attempts that fail, and the beginning of a new process.
LEMMA AttemptSteps ==
  ASSUME IInv, DialFails \/ StartFails \/ SlotInvalidated \/ GiveUp \/ Restart
  PROVE  IInv'
<1>1. CASE Fail /\ UNCHANGED << serverVars, history >>
  BY <1>1, FailStep
<1>2. CASE /\ phase \in {"dial", "start", "stopped"} /\ phase' \in {"retry", "dial"}
           /\ attempts' \in {attempts, attempts + 1}
           /\ UNCHANGED << sender, socketVars, conn, resume, asm, last_recv, last_ack, got >>
           /\ UNCHANGED << serverVars, history >>
  <2>1. TypeOK'
    BY <1>2 DEF IInv, TypeOK, serverVars, socketVars, history
  <2>2. ConnInv'
    BY <1>2 DEF IInv, ConnInv, socketVars
  <2> QED BY <1>2, <2>1, <2>2, ThreadStep
<1>3. CASE DialFails \/ StartFails
  BY <1>1, <1>2, <1>3 DEF DialFails, StartFails, AttemptFails
<1>4. CASE SlotInvalidated \/ GiveUp
  BY <1>1, <1>4 DEF SlotInvalidated, GiveUp
<1>5. CASE Restart
  BY <1>2, <1>5 DEF Restart
<1> QED BY <1>3, <1>4, <1>5

\* The stream starts on the new connection.
LEMMA StartStep ==
  ASSUME IInv, Start
  PROVE  IInv'
<1>1. /\ phase = "start" /\ conn' = "copy" /\ toServer' = << >> /\ at' = confirmed
      /\ attempts' = 0
      /\ sender' = [tx |-> confirmed + 1, part |-> 0, known |-> [r \in Rels |-> NoTuple],
                    attached |-> TRUE, done |-> FALSE]
      /\ UNCHANGED << serverVars, peer, toClient, resume, asm, last_recv, last_ack, got,
                      reached, acked >>
  BY DEF Start
<1>2. conn = "ready" /\ asm = EmptyAsm /\ toClient = << >>
  BY <1>1 DEF IInv, ConnInv
<1>3. phase' \in {"caller", "reading", "reack"}
  <2>1. resume \in {"fresh", "next", "ack"}
    BY DEF IInv, TypeOK
  <2> QED BY <2>1 DEF Start
<1>4. sender' \in Senders
  <2>1. [r \in Rels |-> NoTuple] \in Known
    BY DEF Known
  <2>2. confirmed + 1 \in Nat \ {0}
    BY DEF IInv, TypeOK
  <2> QED BY <1>1, <2>1, <2>2 DEF Senders
<1>5. TypeOK'
  BY <1>1, <1>3, <1>4 DEF IInv, TypeOK, serverVars
<1>6. ConnInv'
  BY <1>1, <1>3 DEF ConnInv
<1>7. AckInv'
  BY <1>1 DEF IInv, AckInv, serverVars
<1>8. StreamInv'
  <2>1. confirmed <= Len(wal)
    BY WalFacts DEF IInv, TypeOK, AckInv
  <2> QED BY <1>2, <2>1, StreamStarts DEF IInv
<1>9. DeliveredWhole'
  BY <1>1 DEF IInv, DeliveredWhole, serverVars
<1> QED BY <1>5, <1>6, <1>7, <1>8, <1>9 DEF IInv

-----------------------------------------------------------------------------
(* The theorems.                                                            *)

\* The first state: nothing is committed and no process runs.
THEOREM StreamInvInit == Init => IInv
<1> SUFFICES ASSUME Init PROVE IInv
  OBVIOUS
<1>1. /\ asm = [relations |-> asm.relations, pending |-> asm.pending]
      /\ asm.relations \in Known
  BY DEF Init, EmptyAsm, Known
<1>2. [r \in Rels |-> FirstSchema] \in [Rels -> Schemas]
  BY StreamAssumption
<1>3. TypeOK
  BY <1>1, <1>2 DEF Init, TypeOK
<1>4. ConnInv
  BY NoSenderFacts DEF Init, ConnInv
<1>5. AckInv
  BY DEF Init, AckInv
<1>6. StreamInv
  BY DEF Init, StreamInv
<1>7. DeliveredWhole
  BY DEF Init, DeliveredWhole
<1> QED BY <1>3, <1>4, <1>5, <1>6, <1>7 DEF IInv

\* Every step keeps the messages in the socket in line with the WAL, the assembler
\* and the walsender.
THEOREM StreamInvStep == IInv /\ [Next]_vars => IInv'
<1> SUFFICES ASSUME IInv, [Next]_vars PROVE IInv'
  OBVIOUS
<1>1. CASE Commit
  BY <1>1, CommitStep
<1>2. CASE AlterTable \/ FastShutdown \/ Stopped \/ Boot
  BY <1>2, QuietSteps
<1>3. CASE SendNext
  BY <1>3, SendNextStep
<1>4. CASE SendIdle
  BY <1>4, SendIdleStep
<1>5. CASE Confirm
  BY <1>5, ConfirmStep
<1>6. CASE SenderExits \/ Crash
  BY <1>6, SenderEndsStep
<1>7. CASE SenderKilled
  BY <1>7, SenderKilledStep
<1>8. CASE Read
  <2>1. CASE ReadEof \/ ReadIdle
    BY <2>1, WaitSteps
  <2>2. CASE \E m : ReadPart(m) \/ ReadCommit(m) \/ ReadKeepalive(m) \/ Reply(m) \/ ReadBroken(m)
    BY <2>2, ReadPartStep, ReadCommitStep, ReplyStep, ReadBrokenStep
  <2> QED BY <1>8, <2>1, <2>2 DEF Read
<1>9. CASE CallNext
  BY <1>9, WaitSteps
<1>10. CASE Acknowledge
  BY <1>10, AcknowledgeStep
<1>11. CASE AcknowledgeAgain
  BY <1>11, AcknowledgeAgainStep
<1>12. CASE HangUp \/ Dial
  BY <1>12, HangUpStep
<1>13. CASE DialFails \/ StartFails \/ SlotInvalidated \/ GiveUp \/ Restart
  BY <1>13, AttemptSteps
<1>14. CASE Start
  BY <1>14, StartStep
<1>15. CASE UNCHANGED vars
  <2>1. UNCHANGED << serverVars, sender, socketVars, clientVars, history >>
    BY <1>15 DEF vars, pgVars, serverVars
  <2>2. TypeOK'
    BY <2>1 DEF IInv, TypeOK, serverVars, socketVars, clientVars, history
  <2> QED BY <2>1, <2>2, QuietStep DEF serverVars, socketVars
<1> QED
  BY <1>1, <1>2, <1>3, <1>4, <1>5, <1>6, <1>7, <1>8, <1>9, <1>10, <1>11, <1>12, <1>13, <1>14, <1>15
  DEF Next, Client, Server

\* The inductive invariant holds.
THEOREM StreamInvariant == Spec => []IInv
BY StreamInvInit, StreamInvStep, PTL DEF Spec

\* A transaction handed to the caller is the committed one of its LSN, whole, in
\* order and under the column names of its time, whatever is cut, retried, renamed
\* or restarted between two calls (source.rs 128-236, 352-371).
THEOREM DeliveredWholeHolds == Spec => []DeliveredWhole
<1>1. IInv => DeliveredWhole
  BY DEF IInv
<1> QED BY <1>1, StreamInvariant, PTL

\* A reconnecting client never waits for a PostgreSQL that waits for it, whatever
\* the number of attempts (protocol.rs 287-300, source.rs 353-358).
THEOREM NoWaitCycleHolds == Spec => []NoWaitCycle
<1>1. IInv => NoWaitCycle
  BY DEF IInv, ConnInv, NoWaitCycle, WaitsForClient, WaitsForServer
<1> QED BY <1>1, StreamInvariant, PTL

\* No change reaches the assembler before the Relation message that names its columns:
\* a connection that is cut and dialled again announces every relation again, and the
\* assembler of the old one is dropped with it (source.rs 241-243, 353-371).
THEOREM NeverOrphanedHolds == Spec => []NeverOrphaned
<1>1. IInv => NeverOrphaned
  <2> SUFFICES ASSUME IInv, phase = "reading", toClient # << >>, IsChange(Head(toClient))
               PROVE  ~ Unknown(Head(toClient))
    BY DEF NeverOrphaned, Orphaned
  <2> DEFINE m == Head(toClient)
  <2>1. conn = "copy"
    BY DEF IInv, ConnInv
  <2>2. PICK p, q \in Places : ClientAt(p) /\ Carries(wal, p, m, q)
    BY <2>1, HeadCarried DEF IInv
  <2>3. m.tag \in {"I", "D", "U"}
    BY DEF IsChange
  <2>4. Changes(wal, p, m, q)
    BY <2>2, <2>3, CarriesTag DEF Carries, IInv
  <2>5. p.tx \in DOMAIN wal /\ p.part \in DOMAIN wal[p.tx]
    BY <2>4 DEF Changes
  <2> DEFINE c == wal[p.tx][p.part]
  <2>6. m.rel = c.stmt.rel /\ p.known[c.stmt.rel] = c.cols
    BY <2>4 DEF Changes, ChangeMessage, Message
  <2>7. c.cols \in Schemas
    BY <2>5, WalFacts DEF IInv, Change
  <2>8. Columns(m) = c.cols
    BY <2>2, <2>6 DEF Columns, ClientAt
  <2> QED BY <2>7, <2>8, StreamAssumption DEF Unknown
<1> QED BY <1>1, StreamInvariant, PTL

-----------------------------------------------------------------------------
(* The refinement of TxSource.                                              *)

\* What is committed is published.
LEMMA PublishStep ==
  ASSUME IInv, Commit
  PROVE  Source!Publish
<1>1. PICK shape \in TxShapes : wal' = Append(wal, Committed(shape))
  BY DEF Commit
<1>2. Len(wal') = Len(wal) + 1
  BY <1>1, AppendProperties DEF IInv, TypeOK
<1>3. UNCHANGED << at, reached, acked, confirmed >>
  BY DEF Commit, history
<1> QED BY <1>2, <1>3 DEF Source!Publish

\* The Commit message hands the next transaction over.
LEMMA HandOverStep ==
  ASSUME IInv, NEW m, ReadCommit(m)
  PROVE  Source!HandOver
<1>1. /\ at' = m.end /\ reached' = Larger(reached, m.end)
      /\ UNCHANGED << wal, acked, confirmed >>
  BY DEF ReadCommit, serverVars
<1>2. m.end = at + 1 /\ m.end \in 1..Len(wal) /\ Len(wal) \in Nat /\ at \in Nat /\ reached \in Nat
  BY CommitRead, WalFacts DEF IInv, TypeOK
<1>3. at < Len(wal) /\ at' = at + 1
  BY <1>1, <1>2
<1>4. reached' = IF at' > reached THEN at' ELSE reached
  BY <1>1, <1>2 DEF Larger
<1> QED BY <1>1, <1>3, <1>4 DEF Source!HandOver

\* What is acknowledged was handed over.
LEMMA AckStep ==
  ASSUME IInv, Acknowledge
  PROVE  Source!Ack
<1>1. acked <= acked' /\ acked' <= reached /\ acked \in Nat /\ reached \in Nat /\ acked' \in Nat
  BY AcknowledgeStep DEF IInv, TypeOK
<1>2. acked' \in acked..reached
  BY <1>1
<1>3. UNCHANGED << wal, at, reached, confirmed >>
  BY DEF Acknowledge, serverVars
<1> QED BY <1>2, <1>3 DEF Source!Ack

\* What is confirmed was acknowledged.
LEMMA SourceConfirmStep ==
  ASSUME IInv, Confirm
  PROVE  Source!Confirm
<1>1. confirmed' <= acked' /\ acked' = acked /\ confirmed' \in Nat /\ acked \in Nat
  BY ConfirmStep DEF IInv, TypeOK, AckInv, Confirm, history
<1>2. Head(toServer) \in Nat /\ confirmed \in Nat
  BY HeadTailProperties DEF Confirm, IInv, TypeOK
<1>3. confirmed <= confirmed'
  BY <1>2 DEF Confirm, Larger
<1>4. confirmed' \in confirmed..acked
  BY <1>1, <1>2, <1>3
<1>5. UNCHANGED << wal, at, reached, acked >>
  BY DEF Confirm, history
<1> QED BY <1>4, <1>5 DEF Source!Confirm

\* Only a crash takes a confirmation back, and only Start goes back to it.
LEMMA ForgetAndResume ==
  /\ Crash => Source!Forget
  /\ Start => Source!Resume
<1>1. Crash => Source!Forget
  BY DEF Crash, Source!Forget, history
<1>2. Start => Source!Resume
  BY DEF Start, Source!Resume, serverVars
<1> QED BY <1>1, <1>2

\* The caller of the stream sees no other step.
LEMMA SourceStutters ==
  ASSUME \/ AlterTable \/ FastShutdown \/ Stopped \/ Boot \/ SendNext \/ SendIdle
         \/ SenderExits \/ SenderKilled \/ ReadEof \/ ReadIdle \/ CallNext \/ AcknowledgeAgain
         \/ HangUp \/ Dial \/ DialFails \/ StartFails \/ SlotInvalidated \/ GiveUp \/ Restart
         \/ \E m : ReadPart(m) \/ ReadKeepalive(m) \/ Reply(m) \/ ReadBroken(m)
  PROVE  UNCHANGED Source!vars
<1> SUFFICES UNCHANGED << wal, history, confirmed >>
  BY DEF Source!vars, history
<1>1. CASE \/ AlterTable \/ FastShutdown \/ Stopped \/ Boot \/ SendNext \/ SendIdle
           \/ SenderExits \/ SenderKilled
  BY <1>1 DEF AlterTable, FastShutdown, Stopped, Boot, SendNext, SendIdle, SenderExits, SenderKilled
<1>2. CASE \/ ReadEof \/ ReadIdle \/ CallNext \/ AcknowledgeAgain \/ HangUp \/ Dial
           \/ DialFails \/ StartFails \/ SlotInvalidated \/ GiveUp \/ Restart
  BY <1>2 DEF ReadEof, ReadIdle, CallNext, AcknowledgeAgain, HangUp, Dial, DialFails, StartFails,
              AttemptFails, SlotInvalidated, GiveUp, Restart, serverVars
<1>3. CASE \E m : ReadPart(m) \/ ReadKeepalive(m) \/ Reply(m) \/ ReadBroken(m)
  BY <1>3 DEF ReadPart, ReadKeepalive, Reply, ReadBroken, serverVars
<1> QED BY <1>1, <1>2, <1>3

\* Every step of the stream is one of the contract, or none.
THEOREM StreamStepRefines == IInv /\ [Next]_vars => [Source!Next]_(Source!vars)
<1> SUFFICES ASSUME IInv, [Next]_vars
             PROVE  Source!Next \/ UNCHANGED Source!vars
  OBVIOUS
<1>1. CASE Commit
  BY <1>1, PublishStep DEF Source!Next
<1>2. CASE \E m : ReadCommit(m)
  BY <1>2, HandOverStep DEF Source!Next
<1>3. CASE Acknowledge
  BY <1>3, AckStep DEF Source!Next
<1>4. CASE Confirm
  BY <1>4, SourceConfirmStep DEF Source!Next
<1>5. CASE Crash \/ Start
  BY <1>5, ForgetAndResume DEF Source!Next
<1>6. CASE \/ AlterTable \/ FastShutdown \/ Stopped \/ Boot \/ SendNext \/ SendIdle
           \/ SenderExits \/ SenderKilled \/ ReadEof \/ ReadIdle \/ CallNext \/ AcknowledgeAgain
           \/ HangUp \/ Dial \/ DialFails \/ StartFails \/ SlotInvalidated \/ GiveUp \/ Restart
           \/ \E m : ReadPart(m) \/ ReadKeepalive(m) \/ Reply(m) \/ ReadBroken(m)
  BY <1>6, SourceStutters
<1>7. CASE UNCHANGED vars
  BY <1>7 DEF vars, pgVars, history, Source!vars
<1> QED BY <1>1, <1>2, <1>3, <1>4, <1>5, <1>6, <1>7 DEF Next, Client, Server, Read

\* The byte stream implements TxSource: whatever is cut, retried or restarted, no
\* transaction is skipped, none is handed over before the one ahead of it, and none
\* is confirmed that the caller did not acknowledge (source.rs 71-80, 339-351, 456-466).
THEOREM StreamImplementsTxSource == Spec => ImplementsTxSource
<1>1. Init => Source!Init
  BY DEF Init, Source!Init
<1> QED BY <1>1, StreamInvariant, StreamStepRefines, PTL DEF Spec, ImplementsTxSource, Source!Spec
=============================================================================
