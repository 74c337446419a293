-------------------------- MODULE FactServerProofs --------------------------
(***************************************************************************)
(* Proofs about FactServer: its inductive invariant, and from it that the  *)
(* two audit trails agree, which acknowledged operations a restart loses,  *)
(* and that it reproduces what the file holds.                             *)
(***************************************************************************)
EXTENDS FactServerInvariant, SelectionProofs

\* The text a start reads, and the numbers of the requests in a text.
FileText(old, rest) ==
  LET all == IF rest = None THEN old ELSE Append(old, rest)
  IN  IF \E n \in DOMAIN all : all[n] = BadText THEN <<>> ELSE all
Numbers(text) == {text[n].seq : n \in {k \in DOMAIN text : text[k] \in Record}}
Unreadable(old, rest) == rest = BadText \/ \E n \in DOMAIN old : old[n] = BadText

-----------------------------------------------------------------------------
(* Requests, and what they do.                                              *)

\* Nothing, and the lines that do not parse, are no records, and not each
\* other unless both lines are one.
LEMMA Markings ==
  /\ Garbage \notin Record /\ BadText \notin Record /\ None \notin Record
  /\ None # Garbage /\ None # BadText
  /\ Requests \subseteq Record /\ None \notin FileLine
BY ServerAssumption DEF Requests, FileLine, Replayable

\* The fields of a request; one that writes has a value.
LEMMA RequestFields ==
  ASSUME NEW r \in Requests
  PROVE  /\ r.op \in {"write", "delete"} /\ r.id \in Ids /\ r.owner \in Owners
         /\ r.seq \in 1..MaxOps /\ (r.op = "write" => r.val \in Vals)
BY DEF Requests, Record

\* A request that is accepted makes a memory of a memory, and the memory's log
\* is one entry longer.
LEMMA ResultType ==
  ASSUME NEW m \in Memory, NEW r \in Requests, Accepted(m, r)
  PROVE  /\ Result(m, r) \in Memory
         /\ \E e \in Entry : /\ Result(m, r).log = Append(m.log, e)
                             /\ e.op = "delete" <=> r.op = "delete"
                             /\ e.id = r.id /\ e.owner = r.owner
<1>1. /\ m.rows \in [Ids -> Row \cup {Absent}] /\ m.order \in Seq(Ids) /\ m.log \in Seq(Entry)
  BY DEF Memory
<1>2. /\ r.op \in {"write", "delete"} /\ r.id \in Ids /\ r.owner \in Owners
      /\ (r.op = "write" => r.val \in Vals)
  BY RequestFields
<1>3. CASE r.op = "write"
  <2> DEFINE row == [val |-> r.val, owner |-> r.owner, deleted |-> FALSE]
             e   == [op |-> IF m.rows[r.id] = Absent THEN "insert" ELSE "update",
                     id |-> r.id, owner |-> r.owner]
             order == IF m.rows[r.id] = Absent THEN Append(m.order, r.id) ELSE m.order
  <2>1. row \in Row
    BY <1>2, <1>3 DEF Row
  <2>2. [m.rows EXCEPT ![r.id] = row] \in [Ids -> Row \cup {Absent}]
    BY <1>1, <1>2, <2>1
  <2>3. e \in Entry /\ e.op # "delete" /\ e.id = r.id /\ e.owner = r.owner
    BY <1>2 DEF Entry
  <2>4. order \in Seq(Ids)
    BY <1>1, <1>2
  <2>5. Append(m.log, e) \in Seq(Entry)
    BY <1>1, <2>3
  <2>6. Result(m, r) = [rows |-> [m.rows EXCEPT ![r.id] = row], order |-> order,
                        log |-> Append(m.log, e)]
    BY <1>3 DEF Result, Written
  <2> HIDE DEF row, e, order
  <2>7. Result(m, r) \in Memory
    BY <2>2, <2>4, <2>5, <2>6 DEF Memory
  <2>8. Result(m, r).log = Append(m.log, e)
    BY <2>6
  <2> QED BY <1>3, <2>3, <2>7, <2>8
<1>4. CASE r.op = "delete"
  <2> DEFINE e == [op |-> "delete", id |-> r.id, owner |-> r.owner]
  <2>1. m.rows[r.id] \in Row
    BY <1>1, <1>2, <1>4 DEF Accepted, CanDelete, Live
  <2>2. [m.rows EXCEPT ![r.id].deleted = TRUE] \in [Ids -> Row \cup {Absent}]
    BY <1>1, <1>2, <2>1 DEF Row
  <2>3. e \in Entry /\ e.op = "delete" /\ e.id = r.id /\ e.owner = r.owner
    BY <1>2 DEF Entry
  <2>5. Append(m.log, e) \in Seq(Entry)
    BY <1>1, <2>3
  <2>6. Result(m, r) = [rows |-> [m.rows EXCEPT ![r.id].deleted = TRUE], order |-> m.order,
                        log |-> Append(m.log, e)]
    BY <1>4 DEF Result, Deleted
  <2> HIDE DEF e
  <2>7. Result(m, r) \in Memory
    BY <1>1, <2>2, <2>5, <2>6 DEF Memory
  <2>8. Result(m, r).log = Append(m.log, e)
    BY <2>6
  <2> QED BY <1>4, <2>3, <2>7, <2>8
<1> QED BY <1>2, <1>3, <1>4

\* The audit entry of a request is not one of /audit/append.
LEMMA EntryType ==
  ASSUME NEW r \in Requests
  PROVE  AuditEntry(r) \in Audit /\ AuditEntry(r) # Custom /\ Custom \in Audit
BY RequestFields DEF AuditEntry, Audit, Custom

-----------------------------------------------------------------------------
(* The audit log without the entries of /audit/append.                      *)

\* A selection of every position is the sequence.
LEMMA SelectAll ==
  ASSUME NEW S, NEW s \in Seq(S)
  PROVE  Select(s, DOMAIN s) = s
<1>1. Len(s) \in Nat /\ DOMAIN s = 1..Len(s) /\ s = [n \in 1..Len(s) |-> s[n]]
  BY LenProperties
<1>2. ASSUME NEW n \in 1..Len(s)
      PROVE  Rank(1..Len(s), n) = n
  <2>1. {k \in 1..Len(s) : k <= n} = 1..n
    BY <1>1
  <2>2. n \in Nat /\ 1 \in Int /\ n \in Int /\ ~ (1 > n)
    OBVIOUS
  <2>3. Cardinality(1..n) = n
    BY <2>2, FS_Interval
  <2> QED BY <2>1, <2>3 DEF Rank
<1>3. Cardinality(1..Len(s)) = Len(s)
  BY <1>1, FS_Interval
<1>4. ASSUME NEW r \in 1..Len(s)
      PROVE  (CHOOSE n \in 1..Len(s) : Rank(1..Len(s), n) = r) = r
  <2>1. \E n \in 1..Len(s) : Rank(1..Len(s), n) = r
    BY <1>2
  <2>2. /\ (CHOOSE n \in 1..Len(s) : Rank(1..Len(s), n) = r) \in 1..Len(s)
        /\ Rank(1..Len(s), CHOOSE n \in 1..Len(s) : Rank(1..Len(s), n) = r) = r
    BY <2>1
  <2> QED BY <1>2, <2>2
<1> QED BY <1>1, <1>3, <1>4 DEF Select

\* A custom entry at the end changes nothing, another one comes last.
LEMMA OperationsAppend ==
  ASSUME NEW entries \in Seq(Audit), NEW e \in Audit
  PROVE  /\ e = Custom => Operations(Append(entries, e)) = Operations(entries)
         /\ e # Custom => Operations(Append(entries, e)) = Append(Operations(entries), e)
<1> DEFINE kept == {n \in DOMAIN entries : entries[n] # Custom}
           next == {n \in DOMAIN Append(entries, e) : Append(entries, e)[n] # Custom}
<1>1. /\ Len(entries) \in Nat /\ DOMAIN entries = 1..Len(entries)
      /\ DOMAIN Append(entries, e) = 1..(Len(entries) + 1)
      /\ \A n \in 1..Len(entries) : Append(entries, e)[n] = entries[n]
      /\ Append(entries, e)[Len(entries) + 1] = e
  BY LenProperties, AppendProperties
<1>2. e = Custom => next = kept
  BY <1>1
<1>3. e # Custom => next = kept \cup {Len(entries) + 1}
  BY <1>1
<1>4. kept \in SUBSET (DOMAIN entries)
  OBVIOUS
<1>5. /\ Operations(entries) = Select(entries, kept)
      /\ Operations(Append(entries, e)) = Select(Append(entries, e), next)
  BY DEF Operations
<1> HIDE DEF kept, next
<1>6. Select(Append(entries, e), kept) = Select(entries, kept)
  BY <1>4, SelectWithout
<1>7. Select(Append(entries, e), kept \cup {Len(entries) + 1}) = Append(Select(entries, kept), e)
  BY <1>4, SelectWith
<1> QED BY <1>2, <1>3, <1>5, <1>6, <1>7

\* Where no entry is custom, nothing is left out.
LEMMA OperationsAll ==
  ASSUME NEW entries \in Seq(Audit), \A n \in DOMAIN entries : entries[n] # Custom
  PROVE  Operations(entries) = entries
<1>1. {n \in DOMAIN entries : entries[n] # Custom} = DOMAIN entries
  OBVIOUS
<1> QED BY <1>1, SelectAll DEF Operations

-----------------------------------------------------------------------------
(* What a replay makes of a text.                                           *)

\* f is what a replay has made of text after each of its first m lines.
Runs(f, text, m) ==
  f = [n \in 0..m |-> IF n = 0 THEN Blank ELSE Replay(f[n - 1], text[n])]

\* There is such a function for every text,
LEMMA RunExists ==
  ASSUME NEW text, NEW m \in Nat
  PROVE  \E f : Runs(f, text, m)
<1> DEFINE bad == {k \in Nat : ~ \E f : Runs(f, text, k)}
<1>1. ASSUME bad # {}
      PROVE  FALSE
  <2>1. bad \in SUBSET Nat
    OBVIOUS
  <2> HIDE DEF bad
  <2>2. PICK k \in bad : \A j \in bad : k <= j
    BY <1>1, <2>1, LeastNumber
  <2>3. k \in Nat /\ (\A j \in 0..(k - 1) : j \notin bad)
    BY <2>1, <2>2
  <2>4. CASE k = 0
    <3>1. Runs([n \in 0..0 |-> Blank], text, 0)
      BY DEF Runs
    <3> QED BY <2>4, <3>1, <2>2 DEF bad
  <2>5. CASE k # 0
    <3>1. k - 1 \in Nat /\ k - 1 \notin bad
      BY <2>3, <2>5
    <3>2. PICK f : Runs(f, text, k - 1)
      BY <3>1 DEF bad
    <3> DEFINE g == [n \in 0..k |-> IF n = k THEN Replay(f[k - 1], text[k]) ELSE f[n]]
    <3>3. ASSUME NEW n \in 0..k
          PROVE  g[n] = IF n = 0 THEN Blank ELSE Replay(g[n - 1], text[n])
      <4>1. CASE n = k
        <5>1. g[n] = Replay(f[k - 1], text[k])
          BY <4>1
        <5>2. k - 1 \in 0..k /\ k - 1 # k
          BY <3>1, <2>3
        <5>3. g[k - 1] = f[k - 1]
          BY <5>2
        <5> HIDE DEF g
        <5> QED BY <4>1, <5>1, <5>3, <2>5
      <4>2. CASE n # k
        <5>1. n \in 0..(k - 1)
          BY <4>2, <2>3
        <5>2. g[n] = f[n]
          BY <4>2
        <5>3. f[n] = IF n = 0 THEN Blank ELSE Replay(f[n - 1], text[n])
          BY <3>2, <5>1 DEF Runs
        <5>4. n # 0 => n - 1 \in 0..k /\ n - 1 # k
          BY <5>1, <2>3
        <5>5. n # 0 => g[n - 1] = f[n - 1]
          BY <5>4
        <5> HIDE DEF g
        <5> QED BY <5>2, <5>3, <5>5
      <4> QED BY <4>1, <4>2
    <3>4. g = [n \in 0..k |-> g[n]]
      OBVIOUS
    <3> HIDE DEF g
    <3>5. Runs(g, text, k)
      BY <3>3, <3>4 DEF Runs
    <3> QED BY <3>5, <2>2 DEF bad
  <2> QED BY <2>4, <2>5
<1> QED BY <1>1

\* and where two texts agree, so do their functions.
LEMMA RunsAgree ==
  ASSUME NEW text, NEW other, NEW f, NEW g, NEW m \in Nat, NEW l \in Nat, NEW i \in Nat,
         Runs(f, text, m), Runs(g, other, l), i <= m, i <= l,
         \A n \in 1..i : text[n] = other[n]
  PROVE  f[i] = g[i]
<1> DEFINE bad == {k \in 0..i : f[k] # g[k]}
<1>1. ASSUME bad # {}
      PROVE  FALSE
  <2>1. bad \in SUBSET Nat
    OBVIOUS
  <2>2. \A k \in bad : k \in 0..i /\ f[k] # g[k]
    OBVIOUS
  <2>3. \A k \in 0..i : k \notin bad => f[k] = g[k]
    OBVIOUS
  <2> HIDE DEF bad
  <2>4. PICK k \in bad : \A j \in bad : k <= j
    BY <1>1, <2>1, LeastNumber
  <2>5. /\ k \in 0..m /\ k \in 0..l /\ k \in Nat
        /\ (k # 0 => k \in 1..i /\ k - 1 \in 0..i /\ k - 1 \notin bad)
    BY <2>1, <2>2, <2>4
  <2>6. f[k] = IF k = 0 THEN Blank ELSE Replay(f[k - 1], text[k])
    BY <2>5 DEF Runs
  <2>7. g[k] = IF k = 0 THEN Blank ELSE Replay(g[k - 1], other[k])
    BY <2>5 DEF Runs
  <2>8. k # 0 => f[k - 1] = g[k - 1] /\ text[k] = other[k]
    BY <2>3, <2>5
  <2>9. f[k] = g[k]
    BY <2>6, <2>7, <2>8
  <2> QED BY <2>2, <2>4, <2>9
<1>2. i \in 0..i
  OBVIOUS
<1> QED BY <1>1, <1>2

\* A replay's result is the last value of such a function.
LEMMA ReplayRun ==
  ASSUME NEW S, NEW text \in Seq(S)
  PROVE  \E f : Runs(f, text, Len(text)) /\ ReplayOf(text) = f[Len(text)]
<1>1. \E f : Runs(f, text, Len(text))
  BY RunExists
<1>2. \E f : f = [n \in 0..Len(text) |-> IF n = 0 THEN Blank ELSE Replay(f[n - 1], text[n])]
  BY <1>1 DEF Runs
<1> DEFINE upTo == CHOOSE f : f = [n \in 0..Len(text) |->
                              IF n = 0 THEN Blank ELSE Replay(f[n - 1], text[n])]
<1>3. upTo = [n \in 0..Len(text) |-> IF n = 0 THEN Blank ELSE Replay(upTo[n - 1], text[n])]
  BY <1>2
<1>4. ReplayOf(text) = upTo[Len(text)]
  BY DEF ReplayOf
<1> HIDE DEF upTo
<1> QED BY <1>3, <1>4 DEF Runs

\* An empty text leaves a new memory,
LEMMA ReplayNone == ReplayOf(<< >>) = Blank
<1>1. << >> \in Seq(Nat) /\ Len(<< >>) = 0
  OBVIOUS
<1>2. PICK f : Runs(f, << >>, Len(<< >>)) /\ ReplayOf(<< >>) = f[Len(<< >>)]
  BY <1>1, ReplayRun
<1>3. Runs(f, << >>, 0) /\ ReplayOf(<< >>) = f[0]
  BY <1>1, <1>2
<1>4. f[0] = Blank
  BY <1>3 DEF Runs
<1> QED BY <1>3, <1>4

\* and a line at the end is replayed last.
LEMMA ReplayNext ==
  ASSUME NEW S, NEW text \in Seq(S), NEW line \in S
  PROVE  ReplayOf(Append(text, line)) = Replay(ReplayOf(text), line)
<1> DEFINE m == Len(text)
           next == Append(text, line)
<1>1. /\ next \in Seq(S) /\ Len(next) = m + 1 /\ m \in Nat
      /\ next[m + 1] = line /\ \A n \in 1..m : next[n] = text[n]
  BY LenProperties, AppendProperties
<1> HIDE DEF m, next
<1>2. PICK f : Runs(f, text, m) /\ ReplayOf(text) = f[m]
  BY ReplayRun DEF m
<1>3. PICK g : Runs(g, next, m + 1) /\ ReplayOf(next) = g[m + 1]
  BY <1>1, ReplayRun
<1>4. m + 1 \in Nat /\ m <= m + 1 /\ m <= m /\ m + 1 \in 0..(m + 1) /\ m + 1 # 0 /\ (m + 1) - 1 = m
  BY <1>1
<1>5. g[m] = f[m]
  BY <1>1, <1>2, <1>3, <1>4, RunsAgree
<1>6. g[m + 1] = IF m + 1 = 0 THEN Blank ELSE Replay(g[(m + 1) - 1], next[m + 1])
  BY <1>3, <1>4 DEF Runs
<1>7. g[m + 1] = Replay(f[m], line)
  BY <1>1, <1>4, <1>5, <1>6
<1> QED BY <1>2, <1>3, <1>7 DEF next

-----------------------------------------------------------------------------
(* What the file says.                                                      *)

\* The text and its numbers, as functions of the file.
LEMMA TextOfFile ==
  /\ Text = FileText(lines, tail) /\ Logged = Numbers(Text)
  /\ Spoiled <=> Unreadable(lines, tail)
  /\ Replayed = ReplayOf(Text)
BY DEF Text, FileText, Logged, Numbers, Spoiled, Unreadable, Replayed

LEMMA TextOfNextFile ==
  /\ Text' = FileText(lines', tail') /\ Logged' = Numbers(Text')
  /\ Spoiled' <=> Unreadable(lines', tail')
  /\ Replayed' = ReplayOf(Text')
BY DEF Text, FileText, Logged, Numbers, Spoiled, Unreadable, Replayed

\* A readable file is its lines and the unfinished one; an unreadable one is
\* nothing.
LEMMA FileTextFacts ==
  ASSUME NEW old \in Seq(FileLine), NEW rest \in FileLine \cup {None}
  PROVE  /\ Unreadable(old, rest) => FileText(old, rest) = << >>
         /\ ~ Unreadable(old, rest) =>
              FileText(old, rest) = IF rest = None THEN old ELSE Append(old, rest)
         /\ FileText(old, rest) \in Seq(Replayable)
<1>1. /\ Len(old) \in Nat /\ DOMAIN old = 1..Len(old) /\ old = [n \in 1..Len(old) |-> old[n]]
      /\ \A n \in 1..Len(old) : old[n] \in FileLine
  BY LenProperties, ElementOfSeq
<1>2. rest # None => /\ DOMAIN Append(old, rest) = 1..(Len(old) + 1)
                     /\ \A n \in 1..Len(old) : Append(old, rest)[n] = old[n]
                     /\ Append(old, rest)[Len(old) + 1] = rest
  BY AppendProperties, LenProperties
<1> DEFINE all == IF rest = None THEN old ELSE Append(old, rest)
<1>3. (\E n \in DOMAIN all : all[n] = BadText) <=> Unreadable(old, rest)
  <2>1. CASE rest = None
    BY <2>1, Markings DEF Unreadable
  <2>2. CASE rest # None
    <3>1. Len(old) + 1 \in DOMAIN all /\ \A n \in DOMAIN old : n \in DOMAIN all /\ all[n] = old[n]
      BY <1>1, <1>2, <2>2
    <3>2. \A n \in DOMAIN all : n \in DOMAIN old \/ n = Len(old) + 1
      BY <1>1, <1>2, <2>2
    <3>3. all[Len(old) + 1] = rest
      BY <1>2, <2>2
    <3> HIDE DEF all
    <3> QED BY <3>1, <3>2, <3>3 DEF Unreadable
  <2> QED BY <2>1, <2>2
<1>4. FileText(old, rest) = IF \E n \in DOMAIN all : all[n] = BadText THEN <<>> ELSE all
  BY DEF FileText
<1>5. ASSUME ~ Unreadable(old, rest)
      PROVE  all \in Seq(Replayable)
  <2>1. \A n \in 1..Len(old) : old[n] \in Replayable
    BY <1>1, <1>5 DEF Unreadable, FileLine
  <2>2. old \in Seq(Replayable)
    BY <1>1, <2>1
  <2>3. rest # None => rest \in Replayable
    BY <1>5 DEF Unreadable, FileLine
  <2>4. rest # None => Append(old, rest) \in Seq(Replayable)
    BY <2>2, <2>3
  <2> QED BY <2>2, <2>4
<1> HIDE DEF all
<1>6. << >> \in Seq(Replayable)
  OBVIOUS
<1> QED BY <1>3, <1>4, <1>5, <1>6 DEF all

\* A line at the end adds its number, if it is a record.
LEMMA NumbersNext ==
  ASSUME NEW S, NEW text \in Seq(S), NEW line \in S
  PROVE  Numbers(Append(text, line)) =
           Numbers(text) \cup (IF line \in Record THEN {line.seq} ELSE {})
<1>1. /\ Len(text) \in Nat /\ DOMAIN text = 1..Len(text)
      /\ DOMAIN Append(text, line) = 1..(Len(text) + 1)
      /\ \A n \in 1..Len(text) : Append(text, line)[n] = text[n]
      /\ Append(text, line)[Len(text) + 1] = line
  BY LenProperties, AppendProperties
<1> DEFINE m == Len(text)
           next == Append(text, line)
<1>2. \A n \in DOMAIN text : n \in DOMAIN next /\ next[n] = text[n]
  BY <1>1
<1>3. \A n \in DOMAIN next : n \in DOMAIN text \/ n = m + 1
  BY <1>1
<1>4. m + 1 \in DOMAIN next /\ next[m + 1] = line
  BY <1>1
<1> HIDE DEF m, next
<1>5. Numbers(next) \subseteq Numbers(text) \cup (IF line \in Record THEN {line.seq} ELSE {})
  BY <1>2, <1>3, <1>4 DEF Numbers
<1>6. Numbers(text) \cup (IF line \in Record THEN {line.seq} ELSE {}) \subseteq Numbers(next)
  BY <1>2, <1>4 DEF Numbers
<1> QED BY <1>5, <1>6 DEF next

\* The number of a record in the file is that of a line or of the unfinished one.
LEMMA NumberPlace ==
  ASSUME NEW old \in Seq(FileLine), NEW rest \in FileLine \cup {None},
         NEW seq \in Numbers(FileText(old, rest))
  PROVE  \/ \E n \in DOMAIN old : old[n] \in Record /\ old[n].seq = seq
         \/ rest \in Record /\ rest.seq = seq
<1>1. Numbers(<< >>) = {}
  BY DEF Numbers
<1>2. /\ ~ Unreadable(old, rest)
      /\ FileText(old, rest) = IF rest = None THEN old ELSE Append(old, rest)
  BY <1>1, FileTextFacts
<1>3. CASE rest = None
  BY <1>2, <1>3 DEF Numbers
<1>4. CASE rest # None
  <2>1. rest \in FileLine /\ FileText(old, rest) = Append(old, rest)
    BY <1>2, <1>4
  <2>2. seq \in Numbers(old) \/ (rest \in Record /\ rest.seq = seq)
    BY <2>1, NumbersNext
  <2> QED BY <2>2 DEF Numbers
<1> QED BY <1>3, <1>4

\* A newline changes nothing that a start would read.
LEMMA NewlineText ==
  ASSUME NEW old \in Seq(FileLine), NEW rest \in FileLine
  PROVE  /\ FileText(Append(old, rest), None) = FileText(old, rest)
         /\ Unreadable(Append(old, rest), None) <=> Unreadable(old, rest)
<1>1. rest # None /\ BadText # None
  BY Markings
<1>2. FileText(Append(old, rest), None) = FileText(old, rest)
  BY <1>1 DEF FileText
<1>3. /\ Len(old) \in Nat /\ DOMAIN old = 1..Len(old)
      /\ DOMAIN Append(old, rest) = 1..(Len(old) + 1)
      /\ \A n \in 1..Len(old) : Append(old, rest)[n] = old[n]
      /\ Append(old, rest)[Len(old) + 1] = rest
  BY LenProperties, AppendProperties
<1>4. \A n \in DOMAIN old : n \in DOMAIN Append(old, rest)
  BY <1>3
<1>5. Len(old) + 1 \in DOMAIN Append(old, rest)
  BY <1>3
<1>6. \A n \in DOMAIN Append(old, rest) : n \in DOMAIN old \/ n = Len(old) + 1
  BY <1>3
<1> QED BY <1>1, <1>2, <1>3, <1>4, <1>5, <1>6 DEF Unreadable

-----------------------------------------------------------------------------
(* What a step makes of the file.                                           *)

\* Bytes glued to an unfinished line never make a record of it, and never make
\* a broken character whole.
LEMMA GluedFacts ==
  ASSUME NEW old \in FileLine \cup {None}, NEW new \in FileLine
  PROVE  /\ Glued(old, new) \in FileLine /\ Glued(old, new) # None
         /\ old = None => Glued(old, new) = new
         /\ old # None => Glued(old, new) \in {Garbage, BadText}
         /\ BadText \in {old, new} => Glued(old, new) = BadText
BY Markings DEF Glued, FileLine, Replayable

\* A step that leaves the file alone leaves what a start would make of it.
LEMMA SameFile ==
  ASSUME UNCHANGED fileVars
  PROVE  /\ Text' = Text /\ Logged' = Logged /\ Replayed' = Replayed
         /\ Spoiled' <=> Spoiled
<1>1. lines' = lines /\ tail' = tail
  BY DEF fileVars
<1>2. Text' = Text
  BY <1>1, TextOfFile, TextOfNextFile
<1> QED BY <1>1, <1>2, TextOfFile, TextOfNextFile

\* The newline that ends a line changes nothing either.
LEMMA NewlineFile ==
  ASSUME TypeOK, NumberInv, AppendNewline
  PROVE  /\ tail \in FileLine /\ req \in Requests
         /\ Text' = Text /\ Logged' = Logged /\ Replayed' = Replayed
         /\ Spoiled' <=> Spoiled
<1>1. /\ lines' = Append(lines, tail) /\ tail' = None /\ lines \in Seq(FileLine)
      /\ req \in Requests
  BY DEF AppendNewline, TypeOK
<1>2. tail \in FileLine
  BY <1>1 DEF AppendNewline, NumberInv, FileLine, Replayable
<1>3. FileText(lines', tail') = FileText(lines, tail) /\ (Unreadable(lines', tail') <=> Unreadable(lines, tail))
  BY <1>1, <1>2, NewlineText
<1>4. Text' = Text
  BY <1>3, TextOfFile, TextOfNextFile
<1> QED BY <1>1, <1>2, <1>3, <1>4, TextOfFile, TextOfNextFile

\* The record under way is not in the file yet.
LEMMA NotLogged ==
  ASSUME TypeOK, NumberInv, pc = "append"
  PROVE  ops \notin Logged
<1>1. lines \in Seq(FileLine) /\ tail \in FileLine \cup {None}
  BY DEF TypeOK
<1>2. /\ \A n \in DOMAIN lines : lines[n] \in Record => lines[n].seq # ops
      /\ tail \in Record => tail.seq # ops
  BY DEF NumberInv
<1> QED BY <1>1, <1>2, NumberPlace, TextOfFile

\* A line that is torn, or glued to an unfinished one, can take only that one's record with it,
\* and a file that cannot be read stays so.
LEMMA GluedFile ==
  ASSUME TypeOK, NumberInv, UNCHANGED lines, tail' \in {Garbage, BadText},
         tail = BadText => tail' = BadText
  PROVE  /\ Spoiled => Spoiled'
         /\ ~ Spoiled' => \A seq \in Logged : seq \in Logged' \/ (tail \in Record /\ seq = tail.seq)
         /\ \A seq \in Logged' : \E n \in DOMAIN lines : lines[n] \in Record /\ lines[n].seq = seq
<1>1. /\ lines \in Seq(FileLine) /\ tail \in FileLine \cup {None}
      /\ lines' = lines /\ tail' \in FileLine \cup {None} /\ tail' \notin Record /\ tail' # None
  BY Markings DEF TypeOK, FileLine, Replayable
<1>2. Spoiled => Spoiled'
  BY <1>1 DEF Spoiled
<1>3. ASSUME ~ Spoiled'
      PROVE  Logged' = Numbers(lines) /\ Logged = Numbers(lines) \cup (IF tail \in Record THEN {tail.seq} ELSE {})
  <2>1. ~ Unreadable(lines, tail) /\ ~ Unreadable(lines', tail')
    BY <1>2, <1>3, TextOfFile, TextOfNextFile
  <2>2. /\ Text = IF tail = None THEN lines ELSE Append(lines, tail)
        /\ Text' = Append(lines', tail')
    <3>1. FileText(lines, tail) = IF tail = None THEN lines ELSE Append(lines, tail)
      BY <1>1, <2>1, FileTextFacts
    <3>2. FileText(lines', tail') = Append(lines', tail')
      BY <1>1, <2>1, FileTextFacts
    <3> QED BY <3>1, <3>2, TextOfFile, TextOfNextFile
  <2>3. tail # None =>
          Numbers(Append(lines, tail)) = Numbers(lines) \cup (IF tail \in Record THEN {tail.seq} ELSE {})
    BY <1>1, NumbersNext
  <2>4. Numbers(Append(lines, tail')) = Numbers(lines) \cup (IF tail' \in Record THEN {tail'.seq} ELSE {})
    <3>1. PICK t : t = tail'
      OBVIOUS
    <3>2. t \in FileLine /\ t \notin Record
      BY <1>1, <3>1
    <3>3. Numbers(Append(lines, t)) = Numbers(lines) \cup (IF t \in Record THEN {t.seq} ELSE {})
      BY <1>1, <3>2, NumbersNext
    <3> QED BY <3>1, <3>3
  <2>5. tail = None => tail \notin Record
    BY Markings
  <2> QED BY <1>1, <2>2, <2>3, <2>4, <2>5, TextOfFile, TextOfNextFile
<1>4. ASSUME NEW seq \in Logged'
      PROVE  \E n \in DOMAIN lines : lines[n] \in Record /\ lines[n].seq = seq
  <2>1. PICK t : t = tail'
    OBVIOUS
  <2>2. seq \in Numbers(FileText(lines, t))
    BY <1>1, <1>4, <2>1, TextOfNextFile
  <2>3. t \in FileLine \cup {None} /\ t \notin Record
    BY <1>1, <2>1
  <2> QED BY <1>1, <2>2, <2>3, NumberPlace
<1> QED BY <1>2, <1>3, <1>4

\* A record that begins a line is in the file at once, unless the file cannot be
\* read.
LEMMA RecordFile ==
  ASSUME TypeOK, UNCHANGED lines, tail = None, tail' = req, req \in Requests
  PROVE  /\ Spoiled' <=> Spoiled
         /\ Spoiled => Logged' = {}
         /\ ~ Spoiled => /\ Logged' = Logged \cup {req.seq}
                         /\ Replayed' = Replay(Replayed, req)
                         /\ Text' = Append(Text, req)
<1>1. /\ lines \in Seq(FileLine) /\ lines' = lines /\ req \in Record /\ req # BadText
      /\ tail' = req /\ tail # BadText /\ req # None
      /\ req \in FileLine /\ req \in Replayable
  BY Markings DEF TypeOK, FileLine, Replayable
<1>2. Spoiled' <=> Spoiled
  BY <1>1 DEF Spoiled
<1>3. /\ Unreadable(lines, req) <=> Spoiled
      /\ Text' = FileText(lines, req) /\ Text = FileText(lines, None)
  BY <1>1, <1>2, TextOfFile, TextOfNextFile
<1>4. ASSUME Spoiled
      PROVE  Logged' = {}
  <2>1. FileText(lines, req) = << >>
    BY <1>1, <1>3, <1>4, FileTextFacts
  <2> QED BY <1>3, <2>1, TextOfNextFile DEF Numbers
<1>5. ASSUME ~ Spoiled
      PROVE  Text' = Append(Text, req) /\ Text \in Seq(Replayable)
  <2>1. FileText(lines, req) = Append(lines, req)
    BY <1>1, <1>3, <1>5, FileTextFacts
  <2>2. ~ Unreadable(lines, None)
    BY <1>5, TextOfFile
  <2>3. FileText(lines, None) = lines /\ FileText(lines, None) \in Seq(Replayable)
    BY <1>1, <2>2, FileTextFacts
  <2> QED BY <1>3, <2>1, <2>3
<1>6. ASSUME ~ Spoiled
      PROVE  Logged' = Logged \cup {req.seq} /\ Replayed' = Replay(Replayed, req)
  <2>1. Numbers(Append(Text, req)) = Numbers(Text) \cup {req.seq}
    BY <1>1, <1>5, <1>6, NumbersNext
  <2>2. ReplayOf(Append(Text, req)) = Replay(ReplayOf(Text), req)
    BY <1>1, <1>5, <1>6, ReplayNext
  <2> QED BY <1>5, <1>6, <2>1, <2>2, TextOfFile, TextOfNextFile
<1> QED BY <1>2, <1>4, <1>5, <1>6

\* A write that fails part way tears the line under way, or leaves the file alone.
LEMMA TornFile ==
  ASSUME TypeOK, UNCHANGED lines, MayTear
  PROVE  \/ UNCHANGED fileVars
         \/ /\ pc = "append" /\ tail' \in {Garbage, BadText}
            /\ tail = BadText => tail' = BadText
<1>1. CASE UNCHANGED tail
  BY <1>1 DEF fileVars
<1>2. CASE pc = "append" /\ \E cut \in {Garbage, BadText} : tail' = Glued(tail, cut)
  <2>1. PICK cut \in {Garbage, BadText} : tail' = Glued(tail, cut)
    BY <1>2
  <2>2. tail \in FileLine \cup {None} /\ cut \in FileLine
    BY DEF TypeOK, FileLine, Replayable
  <2> QED BY <1>2, <2>1, <2>2, GluedFacts
<1> QED BY <1>1, <1>2 DEF MayTear

-----------------------------------------------------------------------------
(* Every step keeps the types.                                              *)

\* The first of the lines still to replay.
LEMMA NextLine ==
  ASSUME todo \in Seq(Replayable), todo # << >>
  PROVE  /\ Head(todo) \in Replayable /\ Tail(todo) \in Seq(Replayable)
         /\ Head(todo) # Garbage => Head(todo) \in Requests
BY HeadTailProperties DEF Replayable

\* What a start reads are lines it can replay.
LEMMA TextType ==
  ASSUME TypeOK
  PROVE  Text \in Seq(Replayable)
BY FileTextFacts, TextOfFile DEF TypeOK

\* A torn line is a line.
LEMMA TornType ==
  ASSUME TypeOK, UNCHANGED lines, MayTear
  PROVE  lines' \in Seq(FileLine) /\ tail' \in FileLine \cup {None}
<1>1. UNCHANGED fileVars \/ tail' \in {Garbage, BadText}
  BY TornFile
<1> QED BY <1>1 DEF TypeOK, fileVars, FileLine, Replayable

LEMMA TypeStep ==
  ASSUME TypeOK, NumberInv, Next
  PROVE  TypeOK'
<1> USE ServerAssumption
<1>1. ASSUME NEW r \in Requests, Handle(r)
      PROVE  TypeOK'
  <2>1. /\ mem \in Memory /\ Accepted(mem, r) /\ mem' = Result(mem, r)
        /\ audit \in Seq(Audit) /\ audit' = Append(audit, AuditEntry(r))
        /\ pc' = "append" /\ req' = r /\ ops < MaxOps /\ r.seq = ops + 1
        /\ ops' = ops + 1 /\ applied' = applied \cup {r.seq} /\ acked' = acked
        /\ about' = Append(about, r.id)
        /\ UNCHANGED << lines, tail, todo, faults >>
    BY <1>1 DEF Handle, TypeOK, fileVars
  <2>2. mem' \in Memory
    BY <2>1, ResultType
  <2>3. audit' \in Seq(Audit)
    BY <2>1, EntryType
  <2>4. ops \in 0..MaxOps /\ ops' \in 0..MaxOps /\ 1..ops \subseteq 1..ops' /\ ops + 1 \in 1..ops'
    BY <2>1 DEF TypeOK
  <2>5. applied' \subseteq 1..ops' /\ acked' \subseteq 1..ops'
    BY <2>1, <2>4 DEF TypeOK
  <2>6. about' \in Seq(Ids) /\ Len(about') = ops'
    BY <2>1, RequestFields, AppendProperties DEF TypeOK
  <2> QED BY <2>1, <2>2, <2>3, <2>4, <2>5, <2>6 DEF TypeOK
<1>2. CASE AppendRecord
  <2>1. /\ pc = "append" /\ pc' = "newline" /\ tail' = Glued(tail, req)
        /\ UNCHANGED << mem, audit, lines, req, todo, faults, ops, applied, acked, about >>
    BY <1>2 DEF AppendRecord, historyVars
  <2>2. req \in Requests /\ req \in FileLine /\ tail \in FileLine \cup {None}
    BY <2>1 DEF TypeOK, FileLine, Replayable
  <2>3. tail' \in FileLine
    BY <2>1, <2>2, GluedFacts
  <2> QED BY <2>1, <2>2, <2>3 DEF TypeOK
<1>3. CASE AppendFails
  <2>1. /\ pc' = "serving" /\ req' = None /\ faults' = faults + 1 /\ lines' = lines /\ MayTear
        /\ UNCHANGED << mem, audit, todo, ops, applied, acked, about >>
    BY <1>3 DEF AppendFails, historyVars
  <2>2. tail' \in FileLine \cup {None}
    BY <2>1, TornType
  <2> QED BY <2>1, <2>2 DEF TypeOK
<1>4. CASE AppendNewline
  <2>1. /\ pc = "newline" /\ pc' = "serving" /\ req' = None
        /\ lines' = Append(lines, tail) /\ tail' = None /\ acked' = acked \cup {req.seq}
        /\ UNCHANGED << mem, audit, todo, faults, ops, applied, about >>
    BY <1>4 DEF AppendNewline
  <2>2. tail \in FileLine
    BY <1>4, NewlineFile
  <2>3. lines' \in Seq(FileLine)
    BY <2>1, <2>2 DEF TypeOK
  <2>4. req.seq = ops /\ ops \in applied /\ applied \subseteq 1..ops
    BY <2>1 DEF NumberInv, TypeOK
  <2> QED BY <2>1, <2>3, <2>4 DEF TypeOK
<1>5. CASE AuditAppend
  <2>1. /\ audit' = Append(audit, Custom)
        /\ UNCHANGED << mem, lines, tail, pc, req, todo, faults, ops, applied, acked, about >>
    BY <1>5 DEF AuditAppend, fileVars, historyVars
  <2>2. audit' \in Seq(Audit)
    BY <2>1 DEF TypeOK, Audit, Custom
  <2> QED BY <2>1, <2>2 DEF TypeOK
<1>6. CASE Answer
  BY <1>6 DEF Answer, vars, fileVars, historyVars, TypeOK
<1>7. CASE Kill
  <2>1. /\ pc' = "down" /\ mem' = Empty /\ audit' = << >> /\ req' = None /\ todo' = << >>
        /\ applied' = {} /\ faults' = faults + 1 /\ lines' = lines /\ MayTear
        /\ UNCHANGED << ops, acked, about >>
    BY <1>7 DEF Kill
  <2>2. tail' \in FileLine \cup {None}
    BY <2>1, TornType
  <2>3. Empty \in Memory
    BY DEF Empty, Memory
  <2> QED BY <2>1, <2>2, <2>3 DEF TypeOK
<1>8. CASE Start
  <2>1. Text \in Seq(Replayable)
    BY TextType
  <2> QED BY <1>8, <2>1 DEF Start, TypeOK, fileVars, historyVars
<1>9. CASE ReplayRecord
  <2>1. /\ pc = "replaying" /\ todo # << >> /\ Head(todo) # Garbage /\ Accepted(mem, Head(todo))
        /\ mem' = Result(mem, Head(todo)) /\ audit' = Append(audit, AuditEntry(Head(todo)))
        /\ todo' = Tail(todo)
        /\ UNCHANGED << lines, tail, pc, req, faults, ops, applied, acked, about >>
    BY <1>9 DEF ReplayRecord, fileVars, historyVars
  <2>2. Head(todo) \in Requests /\ Tail(todo) \in Seq(Replayable)
    BY <2>1, NextLine DEF TypeOK
  <2>3. mem' \in Memory
    BY <2>1, <2>2, ResultType DEF TypeOK
  <2>4. audit' \in Seq(Audit)
    BY <2>1, <2>2, EntryType DEF TypeOK
  <2> QED BY <2>1, <2>2, <2>3, <2>4 DEF TypeOK
<1>10. CASE ReplayRefused \/ ReplayBadLine
  <2>1. /\ pc = "replaying" /\ todo # << >> /\ todo' = Tail(todo)
        /\ UNCHANGED << mem, audit, lines, tail, pc, req, faults, ops, applied, acked, about >>
    BY <1>10 DEF ReplayRefused, ReplayBadLine, fileVars, historyVars
  <2>2. Tail(todo) \in Seq(Replayable)
    BY <2>1, NextLine DEF TypeOK
  <2> QED BY <2>1, <2>2 DEF TypeOK
<1>11. CASE Serve
  BY <1>11 DEF Serve, TypeOK, fileVars, historyVars
<1> QED BY <1>1, <1>2, <1>3, <1>4, <1>5, <1>6, <1>7, <1>8, <1>9, <1>10, <1>11 DEF Next

-----------------------------------------------------------------------------
(* Every step keeps the numbers of the requests apart.                      *)

LEMMA NumberStep ==
  ASSUME TypeOK, NumberInv, Next
  PROVE  NumberInv'
<1> USE ServerAssumption, Markings
<1>0. /\ ops \in Nat /\ applied \subseteq 1..ops /\ acked \subseteq 1..ops
      /\ \A r \in Record : r.seq \in Nat
  BY DEF TypeOK, Record
<1>1. ASSUME NEW r \in Requests, Handle(r)
      PROVE  NumberInv'
  <2>1. /\ pc = "serving" /\ pc' = "append" /\ req' = r /\ r.seq = ops + 1
        /\ ops' = ops + 1 /\ applied' = applied \cup {r.seq} /\ acked' = acked
        /\ lines' = lines /\ tail' = tail
    BY <1>1 DEF Handle, fileVars
  <2>2. ops' \notin acked'
    BY <1>0, <2>1
  <2>3. \A n \in DOMAIN lines : lines[n] \in Record => lines[n].seq <= ops' /\ lines[n].seq # ops'
    BY <1>0, <2>1 DEF NumberInv
  <2>4. tail \in Record => tail.seq <= ops' /\ tail.seq # ops' /\ tail.seq \notin acked'
    BY <1>0, <2>1 DEF NumberInv
  <2> QED BY <2>1, <2>2, <2>3, <2>4 DEF NumberInv
<1>2. CASE AppendRecord
  <2>1. /\ pc = "append" /\ pc' = "newline" /\ tail' = Glued(tail, req)
        /\ lines' = lines /\ req' = req /\ ops' = ops /\ applied' = applied /\ acked' = acked
    BY <1>2 DEF AppendRecord, historyVars
  <2>2. req \in Requests /\ req \in FileLine /\ tail \in FileLine \cup {None}
    BY <2>1 DEF TypeOK, FileLine, Replayable
  <2>3. tail' = req \/ tail' \in {Garbage, BadText}
    BY <2>1, <2>2, GluedFacts
  <2>4. req.seq = ops /\ ops \notin acked /\ ops \in applied
    BY <2>1 DEF NumberInv
  <2>5. tail' \in Record => tail'.seq = ops
    BY <2>3, <2>4
  <2> QED BY <1>0, <2>1, <2>3, <2>4, <2>5 DEF NumberInv
<1>3. CASE AppendFails \/ Kill
  <2>1. /\ pc' \notin {"append", "newline"} /\ lines' = lines /\ MayTear
        /\ ops' = ops /\ acked' = acked
    BY <1>3 DEF AppendFails, Kill, historyVars
  <2>2. tail' = tail \/ tail' \notin Record
    BY <2>1, TornFile DEF fileVars
  <2> QED BY <1>0, <2>1, <2>2 DEF NumberInv
<1>4. CASE AppendNewline
  <2>1. /\ pc = "newline" /\ pc' = "serving" /\ lines' = Append(lines, tail) /\ tail' = None
        /\ ops' = ops
    BY <1>4 DEF AppendNewline
  <2>2. tail \in FileLine /\ lines \in Seq(FileLine)
    BY <1>4, NewlineFile DEF TypeOK
  <2>3. \A n \in DOMAIN lines' : lines'[n] = tail \/ (n \in DOMAIN lines /\ lines'[n] = lines[n])
    <3>1. /\ DOMAIN lines' = 1..(Len(lines) + 1) /\ DOMAIN lines = 1..Len(lines)
          /\ lines'[Len(lines) + 1] = tail /\ \A n \in 1..Len(lines) : lines'[n] = lines[n]
          /\ Len(lines) \in Nat
      BY <2>1, <2>2, AppendProperties, LenProperties
    <3> QED BY <3>1
  <2>4. \A n \in DOMAIN lines' : lines'[n] \in Record => lines'[n].seq <= ops
    BY <2>3 DEF NumberInv
  <2> QED BY <2>1, <2>4 DEF NumberInv
<1>5. CASE AuditAppend \/ Answer
  BY <1>5 DEF AuditAppend, Answer, vars, NumberInv, fileVars, historyVars
<1>6. CASE Start \/ ReplayRecord \/ ReplayRefused \/ ReplayBadLine \/ Serve
  BY <1>6 DEF Start, ReplayRecord, ReplayRefused, ReplayBadLine, Serve, NumberInv, fileVars, historyVars
<1> QED BY <1>1, <1>2, <1>3, <1>4, <1>5, <1>6 DEF Next

-----------------------------------------------------------------------------
(* The two audit trails.                                                    *)

\* The entries the Merkle log has for the entries of a memory's log.
Trail(log) == [n \in DOMAIN log |->
                [op |-> IF log[n].op = "delete" THEN "DELETE" ELSE "WRITE",
                 id |-> log[n].id, owner |-> log[n].owner]]

\* One more entry of the memory's log is one more of the Merkle log.
LEMMA TrailNext ==
  ASSUME NEW log \in Seq(Entry), NEW e \in Entry
  PROVE  Trail(Append(log, e)) =
           Append(Trail(log), [op |-> IF e.op = "delete" THEN "DELETE" ELSE "WRITE",
                               id |-> e.id, owner |-> e.owner])
<1> DEFINE told(x) == [op |-> IF x.op = "delete" THEN "DELETE" ELSE "WRITE",
                       id |-> x.id, owner |-> x.owner]
           m == Len(log)
<1>1. /\ m \in Nat /\ DOMAIN log = 1..m /\ DOMAIN Append(log, e) = 1..(m + 1)
      /\ \A n \in 1..m : Append(log, e)[n] = log[n]
      /\ Append(log, e)[m + 1] = e
  BY LenProperties, AppendProperties
<1>2. Trail(log) = [n \in 1..m |-> told(log[n])]
  BY <1>1 DEF Trail
<1>3. Trail(Append(log, e)) = [n \in 1..(m + 1) |-> told(Append(log, e)[n])]
  BY <1>1 DEF Trail
<1> DEFINE Told == {told(x) : x \in Entry}
<1>4. \A n \in 1..m : log[n] \in Entry
  BY ElementOfSeq
<1>5. Trail(log) \in Seq(Told) /\ Len(Trail(log)) = m
  <2>1. \A n \in 1..m : told(log[n]) \in Told
    BY <1>4
  <2> HIDE DEF Told, told, m
  <2> QED BY <1>1, <1>2, <2>1
<1>6. told(e) \in Told
  OBVIOUS
<1> HIDE DEF Told, told, m
<1>7. /\ DOMAIN Append(Trail(log), told(e)) = 1..(m + 1)
      /\ \A n \in 1..m : Append(Trail(log), told(e))[n] = told(log[n])
      /\ Append(Trail(log), told(e))[m + 1] = told(e)
      /\ Append(Trail(log), told(e)) \in Seq(Told)
      /\ Len(Append(Trail(log), told(e))) = m + 1
  BY <1>1, <1>2, <1>5, <1>6, AppendProperties
<1>8. Append(Trail(log), told(e)) = [n \in 1..(m + 1) |-> told(Append(log, e)[n])]
  <2>1. \A n \in 1..(m + 1) : Append(Trail(log), told(e))[n] = told(Append(log, e)[n])
    BY <1>1, <1>7
  <2>2. Append(Trail(log), told(e)) = [n \in 1..(m + 1) |-> Append(Trail(log), told(e))[n]]
    BY <1>1, <1>7, LenProperties
  <2> QED BY <2>1, <2>2
<1> QED BY <1>3, <1>8 DEF told

\* A request adds the same to both.
LEMMA TrailRequest ==
  ASSUME NEW m \in Memory, NEW r \in Requests, Accepted(m, r)
  PROVE  Trail(Result(m, r).log) = Append(Trail(m.log), AuditEntry(r))
<1>1. PICK e \in Entry : /\ Result(m, r).log = Append(m.log, e)
                         /\ e.op = "delete" <=> r.op = "delete"
                         /\ e.id = r.id /\ e.owner = r.owner
  BY ResultType
<1>2. m.log \in Seq(Entry)
  BY DEF Memory
<1>3. AuditEntry(r) = [op |-> IF e.op = "delete" THEN "DELETE" ELSE "WRITE",
                       id |-> e.id, owner |-> e.owner]
  BY <1>1, RequestFields DEF AuditEntry
<1> QED BY <1>1, <1>2, <1>3, TrailNext

LEMMA AuditStep ==
  ASSUME TypeOK, AuditMatchesLog, Next
  PROVE  AuditMatchesLog'
<1>0. mem \in Memory /\ audit \in Seq(Audit) /\ Operations(audit) = Trail(mem.log)
  BY DEF TypeOK, AuditMatchesLog, Trail
<1>1. SUFFICES Operations(audit') = Trail(mem'.log)
  BY DEF AuditMatchesLog, Trail, Operations
<1>2. ASSUME NEW r \in Requests, Accepted(mem, r), mem' = Result(mem, r),
             audit' = Append(audit, AuditEntry(r))
      PROVE  Operations(audit') = Trail(mem'.log)
  <2>1. Operations(Append(audit, AuditEntry(r))) = Append(Operations(audit), AuditEntry(r))
    BY <1>0, EntryType, OperationsAppend
  <2>2. Trail(Result(mem, r).log) = Append(Trail(mem.log), AuditEntry(r))
    BY <1>0, <1>2, TrailRequest
  <2> QED BY <1>0, <1>2, <2>1, <2>2
<1>3. ASSUME NEW r \in Requests, Handle(r)
      PROVE  Operations(audit') = Trail(mem'.log)
  BY <1>2, <1>3 DEF Handle
<1>4. CASE ReplayRecord
  <2>1. Head(todo) \in Requests
    BY <1>4, NextLine DEF ReplayRecord, TypeOK
  <2> QED BY <1>2, <1>4, <2>1 DEF ReplayRecord
<1>5. CASE AuditAppend
  <2>1. Operations(Append(audit, Custom)) = Operations(audit)
    <3>1. Custom \in Audit
      BY DEF Audit, Custom
    <3> QED BY <1>0, <3>1, OperationsAppend
  <2> QED BY <1>0, <1>5, <2>1 DEF AuditAppend
<1>6. CASE Kill
  <2>1. Operations(<< >>) = << >>
    <3>1. << >> \in Seq(Audit) /\ \A n \in DOMAIN << >> : << >>[n] # Custom
      OBVIOUS
    <3> QED BY <3>1, OperationsAll
  <2>2. Trail(<< >>) = << >>
    BY DEF Trail
  <2>3. audit' = << >> /\ mem'.log = << >>
    BY <1>6 DEF Kill, Empty
  <2> QED BY <2>1, <2>2, <2>3
<1>7. CASE mem' = mem /\ audit' = audit
  BY <1>0, <1>7
<1>8. CASE AppendRecord \/ AppendFails \/ AppendNewline \/ Answer
  BY <1>7, <1>8 DEF AppendRecord, AppendFails, AppendNewline, Answer, vars
<1>9. CASE Start \/ ReplayRefused \/ ReplayBadLine \/ Serve
  BY <1>7, <1>9 DEF Start, ReplayRefused, ReplayBadLine, Serve
<1> QED BY <1>3, <1>4, <1>5, <1>6, <1>8, <1>9 DEF Next

-----------------------------------------------------------------------------
(* A replay goes through the text line by line.                             *)

\* One line further, the replay has made of the text what one line more makes.
LEMMA ReplayLine ==
  ASSUME TypeOK, ReplayInv, pc = "replaying", todo # << >>
  PROVE  \E done \in 0..Len(Text) :
           /\ Tail(todo) = SubSeq(Text, done + 1, Len(Text))
           /\ Replay([mem |-> mem, audit |-> audit], Head(todo)) = ReplayOf(SubSeq(Text, 1, done))
<1> DEFINE text == Text
<1>1. text \in Seq(Replayable) /\ Len(text) \in Nat
  BY TextType, LenProperties
<1>2. PICK done \in 0..Len(text) :
        /\ todo = SubSeq(text, done + 1, Len(text))
        /\ [mem |-> mem, audit |-> audit] = ReplayOf(SubSeq(text, 1, done))
  BY DEF ReplayInv
<1> HIDE DEF text
<1>3. done + 1 \in 1..Len(text)
  <2>1. CASE done = Len(text)
    BY <1>1, <1>2, <2>1, SubSeqProperties
  <2> QED BY <1>1, <1>2, <2>1
<1>4. /\ Head(todo) = text[done + 1]
      /\ Tail(todo) = SubSeq(text, done + 2, Len(text))
  BY <1>1, <1>2, <1>3, SubSeqProperties, HeadTailProperties
<1>5. SubSeq(text, 1, done + 1) = Append(SubSeq(text, 1, done), text[done + 1])
  BY <1>1, <1>3, SubSeqProperties, AppendProperties
<1>6. SubSeq(text, 1, done) \in Seq(Replayable) /\ text[done + 1] \in Replayable
  BY <1>1, <1>3, SubSeqProperties, ElementOfSeq
<1>7. ReplayOf(SubSeq(text, 1, done + 1)) = Replay(ReplayOf(SubSeq(text, 1, done)), text[done + 1])
  BY <1>5, <1>6, ReplayNext
<1>8. (done + 1) + 1 = done + 2 /\ done + 1 \in 0..Len(text)
  BY <1>1, <1>3
<1> QED BY <1>2, <1>4, <1>7, <1>8 DEF text

LEMMA ReplayStep ==
  ASSUME TypeOK, ReplayInv, Next
  PROVE  ReplayInv'
<1> USE ServerAssumption
<1>1. ASSUME pc' \notin {"down", "replaying"}
      PROVE  ReplayInv'
  BY <1>1 DEF ReplayInv
<1>2. CASE Kill
  <2>1. pc' = "down" /\ mem' = Empty /\ audit' = << >> /\ applied' = {}
    BY <1>2 DEF Kill
  <2> QED BY <2>1 DEF ReplayInv
<1>3. CASE Start
  <2>1. /\ pc = "down" /\ pc' = "replaying" /\ todo' = Text /\ mem' = mem /\ audit' = audit
        /\ applied' = applied /\ UNCHANGED fileVars
    BY <1>3 DEF Start, historyVars
  <2>2. mem = Empty /\ audit = << >> /\ applied = {}
    BY <2>1 DEF ReplayInv
  <2>3. Text' = Text
    BY <2>1, SameFile
  <2>4. Text \in Seq(Replayable) /\ Len(Text) \in Nat
    BY TextType, LenProperties
  <2>5. Text = SubSeq(Text, 0 + 1, Len(Text)) /\ SubSeq(Text, 1, 0) = << >>
    BY <2>4
  <2>6. /\ todo' = SubSeq(Text', 0 + 1, Len(Text'))
        /\ [mem |-> mem', audit |-> audit'] = ReplayOf(SubSeq(Text', 1, 0))
    BY <2>1, <2>2, <2>3, <2>5, ReplayNone DEF Blank
  <2>7. 0 \in 0..Len(Text')
    BY <2>3, <2>4
  <2>8. \E done \in 0..Len(Text') :
           /\ todo' = SubSeq(Text', done + 1, Len(Text'))
           /\ [mem |-> mem', audit |-> audit'] = ReplayOf(SubSeq(Text', 1, done))
    BY <2>6, <2>7
  <2>9. \A n \in DOMAIN audit' : audit'[n] # Custom
    BY <2>1, <2>2
  <2> QED BY <2>1, <2>2, <2>8, <2>9 DEF ReplayInv
<1>4. ASSUME pc = "replaying", todo # << >>, pc' = pc, applied' = applied, UNCHANGED fileVars,
             todo' = Tail(todo),
             [mem |-> mem', audit |-> audit'] = Replay([mem |-> mem, audit |-> audit], Head(todo)),
             \A n \in DOMAIN audit' : audit'[n] # Custom
      PROVE  ReplayInv'
  <2>1. Text' = Text
    BY <1>4, SameFile
  <2>2. \E done \in 0..Len(Text') :
           /\ todo' = SubSeq(Text', done + 1, Len(Text'))
           /\ [mem |-> mem', audit |-> audit'] = ReplayOf(SubSeq(Text', 1, done))
    BY <1>4, <2>1, ReplayLine
  <2> QED BY <1>4, <2>2 DEF ReplayInv
<1>5. CASE ReplayRecord
  <2>1. /\ pc = "replaying" /\ todo # << >> /\ Head(todo) # Garbage /\ Accepted(mem, Head(todo))
        /\ mem' = Result(mem, Head(todo)) /\ audit' = Append(audit, AuditEntry(Head(todo)))
        /\ pc' = pc /\ applied' = applied /\ UNCHANGED fileVars /\ todo' = Tail(todo)
    BY <1>5 DEF ReplayRecord, historyVars
  <2>2. audit \in Seq(Audit) /\ AuditEntry(Head(todo)) # Custom /\ AuditEntry(Head(todo)) \in Audit
    BY <2>1, NextLine, EntryType DEF TypeOK
  <2>3. \A n \in DOMAIN audit' : audit'[n] # Custom
    <3>1. \A n \in DOMAIN audit : audit[n] # Custom
      BY <2>1 DEF ReplayInv
    <3>2. /\ DOMAIN audit = 1..Len(audit) /\ Len(audit) \in Nat
          /\ DOMAIN audit' = 1..(Len(audit) + 1) /\ audit'[Len(audit) + 1] = AuditEntry(Head(todo))
          /\ \A n \in 1..Len(audit) : audit'[n] = audit[n]
      BY <2>1, <2>2, AppendProperties, LenProperties
    <3>3. \A n \in 1..(Len(audit) + 1) : n \in 1..Len(audit) \/ n = Len(audit) + 1
      BY <3>2
    <3> QED BY <2>2, <3>1, <3>2, <3>3
  <2>4. [mem |-> mem', audit |-> audit'] = Replay([mem |-> mem, audit |-> audit], Head(todo))
    BY <2>1 DEF Replay
  <2> QED BY <1>4, <2>1, <2>3, <2>4
<1>6. CASE ReplayRefused \/ ReplayBadLine
  <2>1. /\ pc = "replaying" /\ todo # << >>
        /\ Head(todo) = Garbage \/ ~ Accepted(mem, Head(todo))
        /\ mem' = mem /\ audit' = audit
        /\ pc' = pc /\ applied' = applied /\ UNCHANGED fileVars /\ todo' = Tail(todo)
    BY <1>6 DEF ReplayRefused, ReplayBadLine, historyVars
  <2>2. \A n \in DOMAIN audit' : audit'[n] # Custom
    BY <2>1 DEF ReplayInv
  <2>3. [mem |-> mem', audit |-> audit'] = Replay([mem |-> mem, audit |-> audit], Head(todo))
    BY <2>1 DEF Replay
  <2> QED BY <1>4, <2>1, <2>2, <2>3
<1>7. ASSUME NEW r \in Requests, Handle(r)
      PROVE  ReplayInv'
  BY <1>1, <1>7 DEF Handle
<1>8. CASE AppendRecord \/ AppendFails \/ AppendNewline \/ Serve \/ AuditAppend \/ Answer
  <2>1. pc' \notin {"down", "replaying"}
    BY <1>8 DEF AppendRecord, AppendFails, AppendNewline, Serve, AuditAppend, Answer, vars
  <2> QED BY <1>1, <2>1
<1> QED BY <1>2, <1>3, <1>5, <1>6, <1>7, <1>8 DEF Next

-----------------------------------------------------------------------------
(* A process whose requests are all in the file has what the file makes.    *)

\* When no line is left, the process has what the file makes,
LEMMA ReplayDone ==
  ASSUME TypeOK, ReplayInv, Serve
  PROVE  Served = Replayed
<1>1. pc = "replaying" /\ todo = << >> /\ audit \in Seq(Audit)
  BY DEF Serve, TypeOK
<1>2. Operations(audit) = audit
  BY <1>1, OperationsAll DEF ReplayInv
<1>3. PICK done \in 0..Len(Text) :
        /\ todo = SubSeq(Text, done + 1, Len(Text))
        /\ [mem |-> mem, audit |-> audit] = ReplayOf(SubSeq(Text, 1, done))
  BY <1>1 DEF ReplayInv
<1>4. Text \in Seq(Replayable) /\ Len(Text) \in Nat
  BY TextType, LenProperties
<1>5. done = Len(Text)
  <2>1. PICK text \in Seq(Replayable) : text = Text
    BY <1>4
  <2>2. SubSeq(text, done + 1, Len(text)) = << >> /\ done \in 0..Len(text)
    BY <1>1, <1>3, <2>1
  <2> QED BY <2>1, <2>2, NothingLeft
<1>6. SubSeq(Text, 1, Len(Text)) = Text
  BY <1>4
<1> QED BY <1>2, <1>3, <1>5, <1>6, TextOfFile DEF Served

\* and it keeps it.
LEMMA ServeStep ==
  ASSUME TypeOK, NumberInv, ReplayInv, ServeInv, Next
  PROVE  ServeInv'
<1> USE ServerAssumption
<1>0. /\ ops \in Nat /\ applied \subseteq 1..ops /\ audit \in Seq(Audit)
  BY DEF TypeOK
<1>1. ASSUME NEW r \in Requests, Handle(r)
      PROVE  ServeInv'
  <2>1. /\ pc = "serving" /\ pc' = "append" /\ req' = r /\ r.seq = ops + 1
        /\ Accepted(mem, r) /\ mem' = Result(mem, r) /\ audit' = Append(audit, AuditEntry(r))
        /\ ops' = ops + 1 /\ applied' = applied \cup {r.seq} /\ UNCHANGED fileVars
    BY <1>1 DEF Handle
  <2>2. Logged' = Logged /\ Replayed' = Replayed
    BY <2>1, SameFile
  <2>3. applied' \ {ops'} = applied
    BY <1>0, <2>1
  <2>4. Operations(Append(audit, AuditEntry(r))) = Append(Operations(audit), AuditEntry(r))
    BY <1>0, EntryType, OperationsAppend
  <2>5. Operations(audit)' = Append(Operations(audit), AuditEntry(r))
    BY <2>1, <2>4 DEF Operations
  <2>6. ASSUME applied' \ {ops'} \subseteq Logged'
        PROVE  Served' = Replay(Replayed', req')
    <3>1. Replayed = [mem |-> mem, audit |-> Operations(audit)]
      BY <2>1, <2>2, <2>3, <2>6 DEF ServeInv, Served
    <3>2. r # Garbage
      BY Markings
    <3>3. Replay(Replayed, r) = [mem |-> Result(mem, r),
                                 audit |-> Append(Operations(audit), AuditEntry(r))]
      BY <2>1, <3>1, <3>2 DEF Replay
    <3> QED BY <2>1, <2>2, <2>5, <3>3 DEF Served
  <2> QED BY <2>1, <2>6 DEF ServeInv
<1>2. CASE AppendRecord
  <2>1. /\ pc = "append" /\ pc' = "newline" /\ tail' = Glued(tail, req) /\ lines' = lines
        /\ mem' = mem /\ audit' = audit /\ req' = req /\ ops' = ops /\ applied' = applied
    BY <1>2 DEF AppendRecord, historyVars
  <2>2. req \in Requests /\ req \in FileLine /\ tail \in FileLine \cup {None}
    BY <2>1 DEF TypeOK, FileLine, Replayable
  <2>3. req.seq = ops /\ ops \in applied
    BY <2>1 DEF NumberInv
  <2>4. CASE tail = None
    <3>1. tail' = req
      BY <2>1, <2>2, <2>4, GluedFacts
    <3>2. /\ Spoiled => Logged' = {}
          /\ ~ Spoiled => Logged' = Logged \cup {ops} /\ Replayed' = Replay(Replayed, req)
      BY <2>1, <2>2, <2>3, <2>4, <3>1, RecordFile
    <3>3. ASSUME applied' \subseteq Logged'
          PROVE  Served' = Replayed'
      <4>1. Logged' = Logged \cup {ops} /\ Replayed' = Replay(Replayed, req)
        BY <2>1, <2>3, <3>2, <3>3
      <4>2. applied \ {ops} \subseteq Logged
        BY <2>1, <3>3, <4>1
      <4>3. Served = Replay(Replayed, req)
        BY <2>1, <4>2 DEF ServeInv
      <4>4. Served' = Served
        BY <2>1 DEF Served, Operations
      <4> QED BY <4>1, <4>3, <4>4
    <3> QED BY <2>1, <3>3 DEF ServeInv
  <2>5. CASE tail # None
    <3>1. tail' \in {Garbage, BadText} /\ (tail = BadText => tail' = BadText)
      BY <2>1, <2>2, <2>5, GluedFacts
    <3>2. ops \notin Logged'
      BY <2>1, <3>1, GluedFile DEF NumberInv
    <3> QED BY <2>1, <2>3, <3>2 DEF ServeInv
  <2> QED BY <2>4, <2>5
<1>3. CASE AppendFails
  <2>1. /\ pc \in {"append", "newline"} /\ pc' = "serving" /\ lines' = lines /\ MayTear
        /\ mem' = mem /\ audit' = audit /\ ops' = ops /\ applied' = applied
    BY <1>3 DEF AppendFails, historyVars
  <2>2. CASE pc = "append"
    <3>1. ops \in applied
      BY <2>2 DEF NumberInv
    <3>2. ops \notin Logged'
      <4>1. CASE UNCHANGED fileVars
        BY <2>2, <4>1, SameFile, NotLogged
      <4>2. CASE tail' \in {Garbage, BadText} /\ (tail = BadText => tail' = BadText)
        BY <2>1, <2>2, <4>2, GluedFile DEF NumberInv
      <4> QED BY <2>1, <4>1, <4>2, TornFile
    <3> QED BY <2>1, <3>1, <3>2 DEF ServeInv
  <2>3. CASE pc = "newline"
    <3>1. UNCHANGED fileVars
      BY <2>1, <2>3, TornFile
    <3>2. Logged' = Logged /\ Replayed' = Replayed
      BY <3>1, SameFile
    <3>3. Served' = Served
      BY <2>1 DEF Served, Operations
    <3> QED BY <2>1, <2>3, <3>2, <3>3 DEF ServeInv
  <2> QED BY <2>1, <2>2, <2>3
<1>4. CASE AppendNewline
  <2>1. /\ pc = "newline" /\ pc' = "serving" /\ mem' = mem /\ audit' = audit /\ applied' = applied
    BY <1>4 DEF AppendNewline
  <2>2. Logged' = Logged /\ Replayed' = Replayed
    BY <1>4, NewlineFile
  <2>3. Served' = Served
    BY <2>1 DEF Served, Operations
  <2> QED BY <2>1, <2>2, <2>3 DEF ServeInv
<1>5. CASE AuditAppend
  <2>1. /\ pc = "serving" /\ pc' = pc /\ mem' = mem /\ audit' = Append(audit, Custom)
        /\ applied' = applied /\ UNCHANGED fileVars
    BY <1>5 DEF AuditAppend, historyVars
  <2>2. Logged' = Logged /\ Replayed' = Replayed
    BY <2>1, SameFile
  <2>3. Operations(Append(audit, Custom)) = Operations(audit)
    <3>1. Custom \in Audit
      BY DEF Audit, Custom
    <3> QED BY <1>0, <3>1, OperationsAppend
  <2>4. Served' = Served
    BY <2>1, <2>3 DEF Served, Operations
  <2> QED BY <2>1, <2>2, <2>4 DEF ServeInv
<1>6. CASE Answer
  <2>1. /\ pc = "serving" /\ pc' = pc /\ mem' = mem /\ audit' = audit
        /\ applied' = applied /\ UNCHANGED fileVars
    BY <1>6 DEF Answer, vars, historyVars
  <2>2. Logged' = Logged /\ Replayed' = Replayed
    BY <2>1, SameFile
  <2>3. Served' = Served
    BY <2>1 DEF Served, Operations
  <2> QED BY <2>1, <2>2, <2>3 DEF ServeInv
<1>7. CASE Serve
  <2>1. /\ pc = "replaying" /\ todo = << >> /\ pc' = "serving" /\ mem' = mem /\ audit' = audit
        /\ UNCHANGED fileVars
    BY <1>7 DEF Serve
  <2>2. Replayed' = Replayed
    BY <2>1, SameFile
  <2>8. Served = Replayed
    BY <1>7, ReplayDone
  <2>9. Served' = Served
    BY <2>1 DEF Served, Operations
  <2> QED BY <2>1, <2>2, <2>8, <2>9 DEF ServeInv
<1>8. CASE Kill \/ Start \/ ReplayRecord \/ ReplayRefused \/ ReplayBadLine
  <2>1. pc' \in {"down", "replaying"}
    BY <1>8 DEF Kill, Start, ReplayRecord, ReplayRefused, ReplayBadLine
  <2> QED BY <2>1 DEF ServeInv
<1> QED BY <1>1, <1>2, <1>3, <1>4, <1>5, <1>6, <1>7, <1>8 DEF Next

-----------------------------------------------------------------------------
(* Each failure costs one acknowledged operation at most.                   *)

\* The requests answered are finitely many.
LEMMA LostFinite ==
  ASSUME TypeOK
  PROVE  IsFiniteSet(acked \ Logged) /\ Cardinality(acked \ Logged) \in Nat
<1>1. acked \subseteq 1..ops /\ ops \in Int
  BY DEF TypeOK
<1>2. IsFiniteSet(1..ops)
  BY <1>1, FS_Interval
<1>3. IsFiniteSet(acked \ Logged)
  BY <1>1, <1>2, FS_Subset
<1> QED BY <1>3, FS_CardinalityType

\* A step that loses no request more keeps the bound, and may leave an unfinished
\* line if it is a failure.
LEMMA NoMoreLost ==
  ASSUME TypeOK, LossInv, faults' \in Nat, faults <= faults',
         ~ Spoiled' => ~ Spoiled /\ acked' \ Logged' \subseteq acked \ Logged,
         Dangling' => Dangling \/ faults' = faults + 1
  PROVE  LossInv'
<1>1. ASSUME ~ Spoiled'
      PROVE  Cardinality(acked' \ Logged') + (IF Dangling' THEN 1 ELSE 0) <= faults'
  <2>1. Cardinality(acked \ Logged) + (IF Dangling THEN 1 ELSE 0) <= faults
    BY <1>1 DEF LossInv
  <2>2. /\ Cardinality(acked' \ Logged') <= Cardinality(acked \ Logged)
        /\ Cardinality(acked' \ Logged') \in Nat
    <3>1. IsFiniteSet(acked' \ Logged')
      BY <1>1, LostFinite, FS_Subset
    <3>2. Cardinality(acked' \ Logged') <= Cardinality(acked \ Logged)
      BY <1>1, LostFinite, FS_Subset
    <3> QED BY <3>1, <3>2, FS_CardinalityType
  <2>3. Cardinality(acked \ Logged) \in Nat /\ faults \in Nat
    BY LostFinite DEF TypeOK
  <2>4. PICK lost, lostNow, d, dNow :
          /\ lost = Cardinality(acked \ Logged) /\ lostNow = Cardinality(acked' \ Logged')
          /\ d = (IF Dangling THEN 1 ELSE 0) /\ dNow = (IF Dangling' THEN 1 ELSE 0)
    OBVIOUS
  <2>5. d \in {0, 1} /\ dNow \in {0, 1} /\ (dNow = 1 => d = 1 \/ faults' = faults + 1)
    BY <2>4
  <2>6. lostNow + dNow <= faults'
    BY <2>1, <2>2, <2>3, <2>4, <2>5
  <2> QED BY <2>4, <2>6
<1> QED BY <1>1 DEF LossInv

\* The newline that ends a line of which the record is not part acknowledges what
\* is lost.
LEMMA LostWithLine ==
  ASSUME TypeOK, LossInv, faults' = faults, Dangling, ~ Dangling', NEW seq,
         ~ Spoiled' => ~ Spoiled /\ acked' \ Logged' \subseteq (acked \ Logged) \cup {seq}
  PROVE  LossInv'
<1>1. ASSUME ~ Spoiled'
      PROVE  Cardinality(acked' \ Logged') <= faults'
  <2>1. Cardinality(acked \ Logged) + 1 <= faults
    BY <1>1 DEF LossInv
  <2>2. /\ IsFiniteSet((acked \ Logged) \cup {seq})
        /\ \/ Cardinality((acked \ Logged) \cup {seq}) = Cardinality(acked \ Logged)
           \/ Cardinality((acked \ Logged) \cup {seq}) = Cardinality(acked \ Logged) + 1
    BY LostFinite, FS_AddElement
  <2>3. /\ IsFiniteSet(acked' \ Logged')
        /\ Cardinality(acked' \ Logged') <= Cardinality((acked \ Logged) \cup {seq})
    BY <1>1, <2>2, FS_Subset
  <2>4. Cardinality(acked' \ Logged') \in Nat /\ Cardinality(acked \ Logged) \in Nat /\ faults \in Nat
    BY <2>3, LostFinite, FS_CardinalityType DEF TypeOK
  <2> QED BY <2>1, <2>2, <2>3, <2>4
<1>2. ASSUME ~ Spoiled'
      PROVE  Cardinality(acked' \ Logged') + 0 <= faults'
  <2>1. IsFiniteSet(acked' \ Logged')
    <3>1. IsFiniteSet((acked \ Logged) \cup {seq})
      BY LostFinite, FS_AddElement
    <3> QED BY <1>2, <3>1, FS_Subset
  <2>2. Cardinality(acked' \ Logged') \in Nat
    BY <2>1, FS_CardinalityType
  <2> QED BY <1>1, <1>2, <2>2
<1> QED BY <1>2 DEF LossInv

LEMMA LossStep ==
  ASSUME TypeOK, NumberInv, LossInv, Next
  PROVE  LossInv'
<1> USE ServerAssumption
<1>0. faults \in Nat /\ faults + 1 \in Nat /\ faults <= faults + 1 /\ faults <= faults
  BY DEF TypeOK
<1>1. CASE AppendRecord
  <2>1. /\ pc = "append" /\ pc' = "newline" /\ tail' = Glued(tail, req) /\ lines' = lines
        /\ req' = req /\ faults' = faults /\ acked' = acked
    BY <1>1 DEF AppendRecord, historyVars
  <2>2. req \in Requests /\ req \in FileLine /\ tail \in FileLine \cup {None}
    BY <2>1 DEF TypeOK, FileLine, Replayable
  <2>3. CASE tail = None
    <3>1. tail' = req
      BY <2>1, <2>2, <2>3, GluedFacts
    <3>2. /\ Spoiled' <=> Spoiled
          /\ ~ Spoiled => Logged' = Logged \cup {req.seq}
      BY <2>1, <2>2, <2>3, <3>1, RecordFile
    <3>3. ~ Dangling'
      BY <2>1, <3>1 DEF Dangling
    <3>4. ~ Spoiled' => ~ Spoiled /\ acked' \ Logged' \subseteq acked \ Logged
      BY <2>1, <3>2
    <3> QED BY <1>0, <2>1, <3>3, <3>4, NoMoreLost
  <2>4. CASE tail # None
    <3>1. tail' \in {Garbage, BadText} /\ (tail = BadText => tail' = BadText)
      BY <2>1, <2>2, <2>4, GluedFacts
    <3>2. /\ Spoiled => Spoiled'
          /\ ~ Spoiled' => \A seq \in Logged : seq \in Logged' \/ (tail \in Record /\ seq = tail.seq)
      BY <2>1, <3>1, GluedFile
    <3>3. tail \in Record => tail.seq \notin acked
      BY DEF NumberInv
    <3>4. ~ Spoiled' => ~ Spoiled /\ acked' \ Logged' \subseteq acked \ Logged
      BY <2>1, <3>2, <3>3
    <3>5. Dangling
      BY <2>1, <2>4 DEF Dangling
    <3> QED BY <1>0, <2>1, <3>4, <3>5, NoMoreLost
  <2> QED BY <2>3, <2>4
<1>2. CASE AppendFails \/ Kill
  <2>1. /\ lines' = lines /\ MayTear /\ faults' = faults + 1 /\ acked' = acked
    BY <1>2 DEF AppendFails, Kill, historyVars
  <2>2. ~ Spoiled' => ~ Spoiled /\ acked' \ Logged' \subseteq acked \ Logged
    <3>1. CASE UNCHANGED fileVars
      BY <2>1, <3>1, SameFile
    <3>2. CASE tail' \in {Garbage, BadText} /\ (tail = BadText => tail' = BadText)
      <4>1. /\ Spoiled => Spoiled'
            /\ ~ Spoiled' => \A seq \in Logged : seq \in Logged' \/ (tail \in Record /\ seq = tail.seq)
        BY <2>1, <3>2, GluedFile
      <4>2. tail \in Record => tail.seq \notin acked
        BY DEF NumberInv
      <4> QED BY <2>1, <4>1, <4>2
    <3> QED BY <2>1, <3>1, <3>2, TornFile
  <2> QED BY <1>0, <2>1, <2>2, NoMoreLost
<1>3. CASE AppendNewline
  <2>1. /\ pc = "newline" /\ tail' = None /\ acked' = acked \cup {req.seq} /\ faults' = faults
    BY <1>3 DEF AppendNewline
  <2>2. /\ tail \in FileLine /\ req \in Requests /\ Logged' = Logged /\ (Spoiled' <=> Spoiled)
    BY <1>3, NewlineFile
  <2>3. ~ Dangling'
    BY <2>1 DEF Dangling
  <2>4. CASE tail = req
    <3>1. ASSUME ~ Spoiled
          PROVE  req.seq \in Logged
      <4>1. lines \in Seq(FileLine) /\ req \in FileLine /\ req # None /\ req \in Record
        BY <2>2, <2>4, Markings DEF TypeOK
      <4>2. FileText(lines, tail) = Append(lines, req)
        BY <2>2, <2>4, <3>1, <4>1, TextOfFile, FileTextFacts
      <4>3. req.seq \in Numbers(Append(lines, req))
        BY <4>1, NumbersNext
      <4> QED BY <4>2, <4>3, TextOfFile
    <3>2. ~ Spoiled' => ~ Spoiled /\ acked' \ Logged' \subseteq acked \ Logged
      BY <2>1, <2>2, <3>1
    <3> QED BY <1>0, <2>1, <2>3, <3>2, NoMoreLost
  <2>5. CASE tail # req
    <3>1. Dangling
      BY <2>2, <2>5, Markings DEF Dangling
    <3>2. ~ Spoiled' => ~ Spoiled /\ acked' \ Logged' \subseteq (acked \ Logged) \cup {req.seq}
      BY <2>1, <2>2
    <3> QED BY <2>1, <2>3, <3>1, <3>2, LostWithLine
  <2> QED BY <2>4, <2>5
<1>4. ASSUME UNCHANGED fileVars, faults' = faults, acked' = acked, pc # "newline", pc' # "newline"
      PROVE  LossInv'
  <2>1. ~ Spoiled' => ~ Spoiled /\ acked' \ Logged' \subseteq acked \ Logged
    BY <1>4, SameFile
  <2>2. Dangling' => Dangling
    BY <1>4 DEF Dangling, fileVars
  <2> QED BY <1>0, <1>4, <2>1, <2>2, NoMoreLost
<1>5. ASSUME NEW r \in Requests, Handle(r)
      PROVE  LossInv'
  BY <1>4, <1>5 DEF Handle
<1>6. CASE Start \/ ReplayRecord \/ ReplayRefused \/ ReplayBadLine \/ Serve \/ AuditAppend \/ Answer
  <2>1. UNCHANGED fileVars /\ faults' = faults /\ acked' = acked /\ pc # "newline" /\ pc' # "newline"
    BY <1>6 DEF Start, ReplayRecord, ReplayRefused, ReplayBadLine, Serve, AuditAppend, Answer,
                vars, historyVars
  <2> QED BY <1>4, <2>1
<1> QED BY <1>1, <1>2, <1>3, <1>5, <1>6 DEF Next

-----------------------------------------------------------------------------
(* A record that replay refuses comes after a request that is not in the    *)
(* file, about the same fact.                                               *)

\* What a request does depends on the row of its fact alone, and changes no
\* other.
LEMMA RowDecides ==
  ASSUME NEW m \in Memory, NEW other \in Memory, NEW r \in Requests,
         m.rows[r.id] = other.rows[r.id]
  PROVE  /\ Accepted(m, r) <=> Accepted(other, r)
         /\ Accepted(m, r) => Result(m, r).rows[r.id] = Result(other, r).rows[r.id]
<1>1. /\ m.rows \in [Ids -> Row \cup {Absent}] /\ other.rows \in [Ids -> Row \cup {Absent}]
      /\ r.op \in {"write", "delete"} /\ r.id \in Ids
  BY RequestFields DEF Memory
<1>2. Accepted(m, r) <=> Accepted(other, r)
  BY DEF Accepted, CanWrite, CanDelete, Live
<1>3. CASE r.op = "write"
  <2>1. /\ Result(m, r).rows = [m.rows EXCEPT ![r.id] =
                                  [val |-> r.val, owner |-> r.owner, deleted |-> FALSE]]
        /\ Result(other, r).rows = [other.rows EXCEPT ![r.id] =
                                      [val |-> r.val, owner |-> r.owner, deleted |-> FALSE]]
    BY <1>3 DEF Result, Written
  <2> QED BY <1>1, <1>2, <2>1
<1>4. CASE r.op = "delete"
  <2>1. /\ Result(m, r).rows = [m.rows EXCEPT ![r.id].deleted = TRUE]
        /\ Result(other, r).rows = [other.rows EXCEPT ![r.id].deleted = TRUE]
    BY <1>4 DEF Result, Deleted
  <2> QED BY <1>1, <1>2, <2>1
<1> QED BY <1>1, <1>3, <1>4

LEMMA OtherRow ==
  ASSUME NEW m \in Memory, NEW r \in Requests, NEW id \in Ids, id # r.id
  PROVE  Result(m, r).rows[id] = m.rows[id]
<1>1. m.rows \in [Ids -> Row \cup {Absent}] /\ r.op \in {"write", "delete"} /\ r.id \in Ids
  BY RequestFields DEF Memory
<1>2. CASE r.op = "write"
  <2>1. Result(m, r).rows = [m.rows EXCEPT ![r.id] =
                               [val |-> r.val, owner |-> r.owner, deleted |-> FALSE]]
    BY <1>2 DEF Result, Written
  <2> QED BY <1>1, <2>1
<1>3. CASE r.op = "delete"
  <2>1. Result(m, r).rows = [m.rows EXCEPT ![r.id].deleted = TRUE]
    BY <1>3 DEF Result, Deleted
  <2> QED BY <1>1, <2>1
<1> QED BY <1>1, <1>2, <1>3

\* A replayed line makes a memory of a memory, and leaves the other facts alone.
LEMMA ReplayLineFacts ==
  ASSUME NEW s, s.mem \in Memory, NEW line \in Replayable
  PROVE  /\ Replay(s, line).mem \in Memory
         /\ \A id \in Ids : line = Garbage \/ id # line.id =>
              Replay(s, line).mem.rows[id] = s.mem.rows[id]
<1>1. CASE line = Garbage \/ ~ Accepted(s.mem, line)
  BY <1>1 DEF Replay
<1>2. CASE line # Garbage /\ Accepted(s.mem, line)
  <2>1. line \in Requests
    BY <1>2 DEF Replayable
  <2>2. Replay(s, line).mem = Result(s.mem, line)
    BY <1>2 DEF Replay
  <2>3. Result(s.mem, line) \in Memory
    BY <1>2, <2>1, ResultType
  <2>4. \A id \in Ids : id # line.id => Result(s.mem, line).rows[id] = s.mem.rows[id]
    BY <2>1, OtherRow
  <2> QED BY <1>2, <2>2, <2>3, <2>4
<1> QED BY <1>1, <1>2

\* What a replay makes is a memory.
LEMMA ReplayMemory ==
  ASSUME NEW text \in Seq(Replayable)
  PROVE  ReplayOf(text).mem \in Memory
<1>1. PICK f : Runs(f, text, Len(text)) /\ ReplayOf(text) = f[Len(text)]
  BY ReplayRun
<1> DEFINE bad == {k \in 0..Len(text) : f[k].mem \notin Memory}
<1>2. Len(text) \in Nat /\ \A n \in 1..Len(text) : text[n] \in Replayable
  BY LenProperties, ElementOfSeq
<1>3. ASSUME bad # {}
      PROVE  FALSE
  <2>1. bad \in SUBSET Nat
    BY <1>2
  <2>2. \A k \in bad : k \in 0..Len(text) /\ f[k].mem \notin Memory
    OBVIOUS
  <2>3. \A k \in 0..Len(text) : k \notin bad => f[k].mem \in Memory
    OBVIOUS
  <2> HIDE DEF bad
  <2>4. PICK k \in bad : \A j \in bad : k <= j
    BY <1>3, <2>1, LeastNumber
  <2>5. k \in 0..Len(text) /\ k \in Nat
    BY <2>1, <2>2, <2>4
  <2>6. f[k] = IF k = 0 THEN Blank ELSE Replay(f[k - 1], text[k])
    BY <1>1, <2>5 DEF Runs
  <2>7. CASE k = 0
    <3>1. Empty \in Memory
      BY DEF Empty, Memory
    <3> QED BY <2>2, <2>4, <2>6, <2>7, <3>1 DEF Blank
  <2>8. CASE k # 0
    <3>1. k \in 1..Len(text) /\ k - 1 \in 0..Len(text) /\ ~ (k <= k - 1)
      BY <2>5, <2>8, <1>2
    <3>2. k - 1 \notin bad
      BY <2>4, <3>1
    <3>3. f[k - 1].mem \in Memory /\ text[k] \in Replayable
      BY <1>2, <2>3, <3>1, <3>2
    <3>4. Replay(f[k - 1], text[k]).mem \in Memory
      BY <3>3, ReplayLineFacts
    <3> QED BY <2>2, <2>4, <2>6, <2>8, <3>4
  <2> QED BY <2>7, <2>8
<1>4. Len(text) \in 0..Len(text)
  BY <1>2
<1> QED BY <1>1, <1>3, <1>4

LEMMA ReplayedType ==
  ASSUME TypeOK
  PROVE  Replayed.mem \in Memory
BY TextType, ReplayMemory, TextOfFile

\* A line of the text stands in the file.
LEMMA TextPlace ==
  ASSUME NEW n \in DOMAIN Text, TypeOK
  PROVE  (n \in DOMAIN lines /\ Text[n] = lines[n]) \/ (Text[n] = tail /\ tail # None)
<1>1. lines \in Seq(FileLine) /\ tail \in FileLine \cup {None}
  BY DEF TypeOK
<1>2. ~ Unreadable(lines, tail)
  <2>1. ASSUME Unreadable(lines, tail)
        PROVE  FALSE
    <3>1. Text = << >>
      BY <1>1, <2>1, FileTextFacts, TextOfFile
    <3>2. DOMAIN << >> = {}
      OBVIOUS
    <3> QED BY <3>1, <3>2
  <2> QED BY <2>1
<1>3. Text = IF tail = None THEN lines ELSE Append(lines, tail)
  BY <1>1, <1>2, FileTextFacts, TextOfFile
<1>4. CASE tail = None
  BY <1>3, <1>4
<1>5. CASE tail # None
  <2>1. /\ DOMAIN Append(lines, tail) = 1..(Len(lines) + 1) /\ DOMAIN lines = 1..Len(lines)
        /\ \A k \in 1..Len(lines) : Append(lines, tail)[k] = lines[k]
        /\ Append(lines, tail)[Len(lines) + 1] = tail /\ Len(lines) \in Nat
    BY <1>1, <1>5, AppendProperties, LenProperties
  <2>2. n \in 1..Len(lines) \/ n = Len(lines) + 1
    BY <1>3, <1>5, <2>1
  <2> QED BY <1>3, <1>5, <2>1, <2>2
<1> QED BY <1>4, <1>5

\* Its number is that of a request.
LEMMA TextNumber ==
  ASSUME TypeOK, NumberInv, NEW n \in DOMAIN Text, Text[n] \in Record
  PROVE  /\ Text[n].seq \in 1..ops /\ Text[n].seq \in Logged
         /\ pc = "append" => Text[n].seq # ops
<1>1. Text[n].seq \in Logged
  BY DEF Logged
<1>2. Text[n].seq \in 1..MaxOps /\ ops \in Nat
  BY DEF Record, TypeOK
<1>3. Text[n].seq <= ops /\ (pc = "append" => Text[n].seq # ops)
  BY TextPlace DEF NumberInv
<1> QED BY <1>1, <1>2, <1>3, ServerAssumption

\* What a torn or glued line does: the facts that neither it nor the unfinished
\* line names are left as they were, and so are the lines before.
LEMMA GluedRows ==
  ASSUME TypeOK, NumberInv, AboutInv, UNCHANGED lines, tail' \in {Garbage, BadText},
         tail = BadText => tail' = BadText, ~ Spoiled'
  PROVE  /\ ~ Spoiled /\ Logged' \subseteq Logged
         /\ tail \in Record => tail.seq \notin Logged'
         /\ \A id \in Ids : (tail \in Record => id # tail.id) =>
              Replayed'.mem.rows[id] = Replayed.mem.rows[id]
         /\ \A n \in DOMAIN Text' : Text'[n] \in Record =>
              /\ n \in DOMAIN Text /\ Text'[n] = Text[n]
              /\ SubSeq(Text', 1, n - 1) = SubSeq(Text, 1, n - 1)
<1>1. /\ lines \in Seq(FileLine) /\ tail \in FileLine \cup {None}
      /\ lines' = lines /\ tail' = Garbage /\ tail' # None /\ Garbage \notin Record
      /\ Garbage \in Replayable /\ Garbage \in FileLine
  BY Markings DEF TypeOK, Spoiled, Replayable, FileLine
<1>2. ~ Spoiled /\ ~ Unreadable(lines, tail) /\ ~ Unreadable(lines, Garbage)
  BY <1>1, GluedFile, TextOfFile, TextOfNextFile
<1>3. /\ Text = IF tail = None THEN lines ELSE Append(lines, tail)
      /\ Text' = Append(lines, Garbage)
  <2>1. FileText(lines, Garbage) = Append(lines, Garbage)
    BY <1>1, <1>2, FileTextFacts
  <2>2. Text' = FileText(lines, Garbage)
    BY <1>1, TextOfNextFile
  <2> QED BY <1>1, <1>2, <2>1, <2>2, FileTextFacts, TextOfFile
<1>4. lines \in Seq(Replayable) /\ (tail # None => tail \in Replayable)
  <2>1. FileText(lines, None) = lines /\ FileText(lines, None) \in Seq(Replayable)
    <3>1. ~ Unreadable(lines, None)
      BY <1>2, Markings DEF Unreadable
    <3> QED BY <1>1, <3>1, FileTextFacts
  <2> QED BY <1>1, <1>2, <2>1 DEF Unreadable, FileLine
<1>5. /\ Len(lines) \in Nat /\ DOMAIN lines = 1..Len(lines)
      /\ DOMAIN Append(lines, Garbage) = 1..(Len(lines) + 1)
      /\ Append(lines, Garbage)[Len(lines) + 1] = Garbage
      /\ \A n \in 1..Len(lines) : Append(lines, Garbage)[n] = lines[n]
  BY <1>1, <1>4, AppendProperties, LenProperties
<1>6. /\ \A n \in 1..Len(lines) : n \in DOMAIN Text /\ Text[n] = lines[n]
  <2>1. CASE tail = None
    BY <1>3, <1>5, <2>1
  <2>2. CASE tail # None
    BY <1>3, <1>4, <1>5, <2>2, AppendProperties
  <2> QED BY <2>1, <2>2
<1>7. Text \in Seq(Replayable) /\ Append(lines, Garbage) \in Seq(Replayable) /\ Len(Text) \in Nat
      /\ DOMAIN Text = 1..Len(Text)
  BY <1>1, <1>4, TextType, LenProperties
<1>8. ASSUME NEW n \in DOMAIN Text', Text'[n] \in Record
      PROVE  /\ n \in 1..Len(lines) /\ n \in DOMAIN Text /\ Text'[n] = lines[n] /\ Text'[n] = Text[n]
             /\ SubSeq(Text', 1, n - 1) = SubSeq(Text, 1, n - 1)
  <2>1. n \in 1..Len(lines)
    BY <1>1, <1>3, <1>5, <1>8
  <2>2. Text'[n] = lines[n] /\ n \in DOMAIN Text /\ Text[n] = lines[n]
    BY <1>3, <1>5, <1>6, <2>1
  <2> DEFINE glued == Append(lines, Garbage)
  <2>3. \A k \in 1..(n - 1) : glued[k] = Text[k]
    BY <1>5, <1>6, <2>1
  <2>4. n - 1 \in 0..Len(Text) /\ n - 1 \in 0..Len(glued)
    <3>1. Len(glued) = Len(lines) + 1
      BY <1>1, <1>4, AppendProperties
    <3> QED BY <1>5, <1>7, <2>1, <2>2, <3>1
  <2>5. glued \in Seq(Replayable)
    BY <1>7
  <2> HIDE DEF glued
  <2>6. SubSeq(glued, 1, n - 1) = [k \in 1..(n - 1) |-> glued[k]]
    BY <2>4, <2>5, SubSeqProperties
  <2>7. SubSeq(Text, 1, n - 1) = [k \in 1..(n - 1) |-> Text[k]]
    BY <1>7, <2>4, SubSeqProperties
  <2>8. SubSeq(glued, 1, n - 1) = SubSeq(Text, 1, n - 1)
    BY <2>3, <2>6, <2>7
  <2> QED BY <1>3, <2>1, <2>2, <2>8 DEF glued
<1>9. Logged' \subseteq Logged
  <2>1. Logged' = {Text'[n].seq : n \in {k \in DOMAIN Text' : Text'[k] \in Record}}
    BY DEF Logged
  <2> QED BY <1>8, <2>1 DEF Logged
<1>10. tail \in Record => tail.seq \notin Logged'
  <2>1. \A seq \in Logged' : \E n \in DOMAIN lines : lines[n] \in Record /\ lines[n].seq = seq
    BY <1>1, GluedFile
  <2> QED BY <2>1 DEF AboutInv
<1>11. ASSUME NEW id \in Ids, tail \in Record => id # tail.id
       PROVE  Replayed'.mem.rows[id] = Replayed.mem.rows[id]
  <2>1. ReplayOf(lines).mem \in Memory
    BY <1>4, ReplayMemory
  <2>2. ReplayOf(Append(lines, Garbage)) = Replay(ReplayOf(lines), Garbage)
    BY <1>1, <1>4, ReplayNext
  <2>3. Replayed' = ReplayOf(lines)
    BY <1>3, <2>2, TextOfNextFile DEF Replay
  <2>4. CASE tail = None
    BY <1>3, <2>3, <2>4, TextOfFile
  <2>5. CASE tail # None
    <3>1. Replayed = Replay(ReplayOf(lines), tail)
      BY <1>3, <1>4, <2>5, ReplayNext, TextOfFile
    <3>2. tail = Garbage \/ id # tail.id
      BY <1>4, <1>11, <2>5, Markings DEF Replayable
    <3>3. Replay(ReplayOf(lines), tail).mem.rows[id] = ReplayOf(lines).mem.rows[id]
      BY <1>4, <2>1, <2>5, <3>2, ReplayLineFacts
    <3> QED BY <2>3, <3>1, <3>3
  <2> QED BY <2>4, <2>5
<1> QED BY <1>2, <1>8, <1>9, <1>10, <1>11

\* The requests so far keep their numbers and facts.
LEMMA AboutKept ==
  ASSUME TypeOK, NEW id \in Ids, about' = Append(about, id)
  PROVE  about'[ops + 1] = id /\ \A s \in 1..ops : about'[s] = about[s]
BY AppendProperties DEF TypeOK

LEMMA AboutStep ==
  ASSUME TypeOK, NumberInv, AboutInv, Next
  PROVE  AboutInv'
<1> USE Markings
<1>0. /\ ops \in Nat /\ about \in Seq(Ids) /\ lines \in Seq(FileLine)
      /\ \A r \in Record : r.seq \in Nat /\ 1 <= r.seq
  BY ServerAssumption DEF TypeOK, Record
<1>1. ASSUME NEW r \in Requests, Handle(r)
      PROVE  AboutInv'
  <2>1. /\ pc' = "append" /\ req' = r /\ ops' = ops + 1 /\ about' = Append(about, r.id)
        /\ lines' = lines /\ tail' = tail
    BY <1>1 DEF Handle, fileVars
  <2>2. about'[ops + 1] = r.id /\ \A s \in 1..ops : about'[s] = about[s]
    BY <2>1, AboutKept, RequestFields
  <2>3. \A n \in DOMAIN lines : lines[n] \in Record => lines[n].seq \in 1..ops
    BY <1>0 DEF NumberInv
  <2>4. tail \in Record => tail.seq \in 1..ops
    BY <1>0 DEF NumberInv
  <2> QED BY <2>1, <2>2, <2>3, <2>4 DEF AboutInv
<1>2. CASE AppendRecord
  <2>1. /\ pc = "append" /\ pc' = "newline" /\ tail' = Glued(tail, req) /\ lines' = lines
        /\ req' = req /\ ops' = ops /\ about' = about
    BY <1>2 DEF AppendRecord, historyVars
  <2>2. req \in Requests /\ req \in FileLine /\ tail \in FileLine \cup {None}
    BY <2>1 DEF TypeOK, FileLine, Replayable
  <2>3. tail' = req \/ tail' \in {Garbage, BadText}
    BY <2>1, <2>2, GluedFacts
  <2>4. req.seq = ops /\ about[ops] = req.id
    BY <2>1 DEF NumberInv, AboutInv
  <2>5. \A n \in DOMAIN lines : lines[n] \in Record => lines[n].seq # ops
    BY <2>1 DEF NumberInv
  <2>6. tail' \in Record => tail'.seq = ops /\ tail'.id = req.id
    BY <2>3, <2>4
  <2> QED BY <2>1, <2>4, <2>5, <2>6 DEF AboutInv
<1>3. CASE AppendFails \/ Kill
  <2>1. /\ pc' \notin {"append", "newline"} /\ lines' = lines /\ MayTear /\ about' = about
    BY <1>3 DEF AppendFails, Kill, historyVars
  <2>2. tail' = tail \/ tail' \notin Record
    BY <2>1, TornFile DEF fileVars
  <2> QED BY <2>1, <2>2 DEF AboutInv
<1>4. CASE AppendNewline
  <2>1. /\ pc' = "serving" /\ lines' = Append(lines, tail) /\ tail' = None /\ about' = about
    BY <1>4 DEF AppendNewline
  <2>2. tail \in FileLine
    BY <1>4, NewlineFile
  <2>3. \A n \in DOMAIN lines' : lines'[n] = tail \/ (n \in DOMAIN lines /\ lines'[n] = lines[n])
    <3>1. /\ DOMAIN lines' = 1..(Len(lines) + 1) /\ DOMAIN lines = 1..Len(lines)
          /\ lines'[Len(lines) + 1] = tail /\ \A n \in 1..Len(lines) : lines'[n] = lines[n]
          /\ Len(lines) \in Nat
      BY <1>0, <2>1, <2>2, AppendProperties, LenProperties
    <3> QED BY <3>1
  <2>4. \A n \in DOMAIN lines' : lines'[n] \in Record => about[lines'[n].seq] = lines'[n].id
    BY <2>3 DEF AboutInv
  <2> QED BY <2>1, <2>4 DEF AboutInv
<1>5. CASE AuditAppend \/ Answer
  BY <1>5 DEF AuditAppend, Answer, vars, AboutInv, fileVars, historyVars
<1>6. CASE Start \/ ReplayRecord \/ ReplayRefused \/ ReplayBadLine \/ Serve
  BY <1>6 DEF Start, ReplayRecord, ReplayRefused, ReplayBadLine, Serve, AboutInv, fileVars, historyVars
<1> QED BY <1>1, <1>2, <1>3, <1>4, <1>5, <1>6 DEF Next

\* The record under way leaves the other facts alone.
LEMMA RecordRows ==
  ASSUME TypeOK, pc = "append", NEW id \in Ids, id # req.id
  PROVE  Replay(Replayed, req).mem.rows[id] = Replayed.mem.rows[id]
<1>1. req \in Requests /\ req \in Replayable
  BY DEF TypeOK, Replayable
<1> QED BY <1>1, ReplayedType, ReplayLineFacts

\* When the record under way is torn or glued, its fact is no longer known, nor
\* that of the unfinished line.
LEMMA LostFact ==
  ASSUME TypeOK, NumberInv, AboutInv, FactInv, pc = "append",
         UNCHANGED << lines, mem, ops, about >>, tail' \in {Garbage, BadText},
         tail = BadText => tail' = BadText, ~ Spoiled',
         NEW id \in Ids, Known(id, ops)'
  PROVE  mem'.rows[id] = Replayed'.mem.rows[id]
<1>1. /\ ~ Spoiled /\ Logged' \subseteq Logged
      /\ tail \in Record => tail.seq \notin Logged'
      /\ \A i \in Ids : (tail \in Record => i # tail.id) =>
           Replayed'.mem.rows[i] = Replayed.mem.rows[i]
  BY GluedRows
<1>2. /\ ops \in Nat /\ ops' = ops /\ about' = about /\ mem' = mem
      /\ \A s \in 1..ops : about[s] = id => s \in Logged'
  BY DEF Known, TypeOK
<1>3. ops \in 1..ops /\ about[ops] = req.id
  <2>1. ops \in applied /\ applied \subseteq 1..ops
    BY DEF NumberInv, TypeOK
  <2> QED BY <2>1 DEF AboutInv
<1>4. id # req.id
  <2>1. \A seq \in Logged' : \E n \in DOMAIN lines : lines[n] \in Record /\ lines[n].seq = seq
    BY GluedFile
  <2>2. ops \notin Logged'
    BY <2>1 DEF NumberInv
  <2> QED BY <1>2, <1>3, <2>2
<1>5. tail \in Record => id # tail.id
  <2>1. tail \in Record => tail.seq \in 1..ops /\ about[tail.seq] = tail.id
    <3>1. \A r \in Record : r.seq \in Nat /\ 1 <= r.seq
      BY ServerAssumption DEF Record
    <3> QED BY <1>2, <3>1 DEF NumberInv, AboutInv
  <2> QED BY <1>1, <1>2, <2>1
<1>6. Known(id, ops - 1)
  BY <1>1, <1>2 DEF Known
<1>7. mem.rows[id] = Replay(Replayed, req).mem.rows[id]
  BY <1>1, <1>6 DEF FactInv
<1> QED BY <1>1, <1>2, <1>4, <1>5, <1>7, RecordRows

LEMMA FactStep ==
  ASSUME TypeOK, NumberInv, ReplayInv, AboutInv, FactInv, Next
  PROVE  FactInv'
<1>0. ops \in Nat /\ mem \in Memory /\ Replayed.mem \in Memory /\ applied \subseteq 1..ops
  BY ReplayedType DEF TypeOK
<1>1. ASSUME NEW r \in Requests, Handle(r)
      PROVE  FactInv'
  <2>1. /\ pc = "serving" /\ pc' = "append" /\ req' = r /\ Accepted(mem, r) /\ mem' = Result(mem, r)
        /\ ops' = ops + 1 /\ about' = Append(about, r.id) /\ UNCHANGED fileVars
    BY <1>1 DEF Handle
  <2>2. Logged' = Logged /\ Replayed' = Replayed /\ (Spoiled' <=> Spoiled)
    BY <2>1, SameFile
  <2>3. \A s \in 1..ops : about'[s] = about[s]
    BY <2>1, AboutKept, RequestFields
  <2>4. ASSUME ~ Spoiled', NEW id \in Ids, Known(id, ops - 1)'
        PROVE  /\ mem'.rows[id] = Replay(Replayed', req').mem.rows[id]
               /\ id = req'.id => Accepted(Replayed'.mem, req')
    <3>1. Known(id, ops)
      <4>1. \A s \in 1..(ops' - 1) : about'[s] = id => s \in Logged'
        BY <2>4 DEF Known
      <4>2. ops' - 1 = ops
        BY <1>0, <2>1
      <4> QED BY <2>2, <2>3, <4>1, <4>2 DEF Known
    <3>2. mem.rows[id] = Replayed.mem.rows[id]
      BY <2>1, <2>2, <2>4, <3>1 DEF FactInv
    <3>3. r \in Replayable /\ r # Garbage
      BY Markings DEF Replayable
    <3>4. CASE id = r.id
      <4>1. Accepted(Replayed.mem, r) /\ Result(mem, r).rows[id] = Result(Replayed.mem, r).rows[id]
        BY <1>0, <2>1, <3>2, <3>4, RowDecides
      <4>2. Replay(Replayed, r).mem = Result(Replayed.mem, r)
        BY <3>3, <4>1 DEF Replay
      <4> QED BY <2>1, <2>2, <4>1, <4>2
    <3>5. CASE id # r.id
      <4>1. Result(mem, r).rows[id] = mem.rows[id]
        BY <1>0, <3>5, OtherRow
      <4>2. Replay(Replayed, r).mem.rows[id] = Replayed.mem.rows[id]
        BY <1>0, <3>3, <3>5, ReplayLineFacts
      <4> QED BY <2>1, <2>2, <3>2, <3>5, <4>1, <4>2
    <3> QED BY <3>4, <3>5
  <2> QED BY <2>1, <2>4 DEF FactInv
<1>2. CASE AppendRecord
  <2>1. /\ pc = "append" /\ pc' = "newline" /\ tail' = Glued(tail, req) /\ lines' = lines
        /\ mem' = mem /\ req' = req /\ ops' = ops /\ about' = about
    BY <1>2 DEF AppendRecord, historyVars
  <2>2. req \in Requests /\ req \in FileLine /\ tail \in FileLine \cup {None}
    BY <2>1 DEF TypeOK, FileLine, Replayable
  <2>3. req.seq = ops
    BY <2>1 DEF NumberInv
  <2>4. ASSUME ~ Spoiled', NEW id \in Ids, Known(id, ops)'
        PROVE  mem'.rows[id] = Replayed'.mem.rows[id]
    <3>1. CASE tail = None
      <4>1. tail' = req
        BY <2>1, <2>2, <3>1, GluedFacts
      <4>2. ~ Spoiled /\ Logged' = Logged \cup {ops} /\ Replayed' = Replay(Replayed, req)
        BY <2>1, <2>2, <2>3, <2>4, <3>1, <4>1, RecordFile
      <4>3. Known(id, ops - 1)
        <5>1. \A s \in 1..ops : about[s] = id => s \in Logged \cup {ops}
          BY <2>1, <2>4, <4>2 DEF Known
        <5> QED BY <1>0, <5>1 DEF Known
      <4>4. mem.rows[id] = Replay(Replayed, req).mem.rows[id]
        BY <2>1, <4>2, <4>3 DEF FactInv
      <4> QED BY <2>1, <4>2, <4>4
    <3>2. CASE tail # None
      <4>1. tail' \in {Garbage, BadText} /\ (tail = BadText => tail' = BadText)
        BY <2>1, <2>2, <3>2, GluedFacts
      <4> QED BY <2>1, <2>4, <4>1, LostFact
    <3> QED BY <3>1, <3>2
  <2> QED BY <2>1, <2>4 DEF FactInv
<1>3. CASE AppendFails
  <2>1. /\ pc \in {"append", "newline"} /\ pc' = "serving" /\ lines' = lines /\ MayTear
        /\ mem' = mem /\ ops' = ops /\ about' = about
    BY <1>3 DEF AppendFails, historyVars
  <2>2. ASSUME ~ Spoiled', NEW id \in Ids, Known(id, ops)'
        PROVE  mem'.rows[id] = Replayed'.mem.rows[id]
    <3>1. CASE UNCHANGED fileVars
      <4>1. Logged' = Logged /\ Replayed' = Replayed /\ ~ Spoiled
        BY <2>2, <3>1, SameFile
      <4>2. \A s \in 1..ops : about[s] = id => s \in Logged
        BY <2>1, <2>2, <4>1 DEF Known
      <4>3. CASE pc = "append"
        <5>1. ops \in 1..ops /\ about[ops] = req.id /\ ops \notin Logged
          BY <1>0, <4>3, NotLogged DEF NumberInv, AboutInv
        <5>2. id # req.id
          BY <4>2, <5>1
        <5>3. Known(id, ops - 1)
          BY <1>0, <4>2 DEF Known
        <5>4. mem.rows[id] = Replay(Replayed, req).mem.rows[id]
          BY <4>1, <4>3, <5>3 DEF FactInv
        <5> QED BY <2>1, <4>1, <4>3, <5>2, <5>4, RecordRows
      <4>4. CASE pc = "newline"
        BY <2>1, <4>1, <4>2, <4>4 DEF FactInv, Known
      <4> QED BY <2>1, <4>3, <4>4
    <3>2. CASE pc = "append" /\ tail' \in {Garbage, BadText} /\ (tail = BadText => tail' = BadText)
      BY <2>1, <2>2, <3>2, LostFact
    <3> QED BY <2>1, <3>1, <3>2, TornFile
  <2> QED BY <2>1, <2>2 DEF FactInv
<1>4. ASSUME pc \in {"serving", "newline"}, pc' = "serving", mem' = mem, ops' = ops, about' = about,
             Logged' = Logged, Replayed' = Replayed, Spoiled' <=> Spoiled
      PROVE  FactInv'
  BY <1>4 DEF FactInv, Known
<1>5. CASE AppendNewline
  <2>1. pc = "newline" /\ pc' = "serving" /\ mem' = mem /\ ops' = ops /\ about' = about
    BY <1>5 DEF AppendNewline
  <2> QED BY <1>4, <1>5, <2>1, NewlineFile
<1>6. CASE AuditAppend \/ Answer
  <2>1. /\ pc = "serving" /\ pc' = "serving" /\ mem' = mem /\ ops' = ops /\ about' = about
        /\ UNCHANGED fileVars
    BY <1>6 DEF AuditAppend, Answer, vars, historyVars
  <2> QED BY <1>4, <2>1, SameFile
<1>7. CASE Serve
  <2>1. pc' = "serving" /\ mem' = mem /\ UNCHANGED fileVars
    BY <1>7 DEF Serve
  <2>2. mem = Replayed.mem /\ Replayed' = Replayed
    BY <1>7, <2>1, ReplayDone, SameFile DEF Served
  <2> QED BY <2>1, <2>2 DEF FactInv
<1>8. CASE Kill \/ Start \/ ReplayRecord \/ ReplayRefused \/ ReplayBadLine
  <2>1. pc' \in {"down", "replaying"}
    BY <1>8 DEF Kill, Start, ReplayRecord, ReplayRefused, ReplayBadLine
  <2> QED BY <2>1 DEF FactInv
<1> QED BY <1>1, <1>2, <1>3, <1>5, <1>6, <1>7, <1>8 DEF Next

LEMMA RefusedStep ==
  ASSUME TypeOK, NumberInv, AboutInv, FactInv, RefusedInv, Next
  PROVE  RefusedInv'
<1>0. ops \in Nat
  BY DEF TypeOK
<1>1. ASSUME Text' = Text, Logged' = Logged, Spoiled' <=> Spoiled,
             \A s \in 1..ops : about'[s] = about[s]
      PROVE  RefusedInv'
  <2>1. ASSUME ~ Spoiled', NEW n \in DOMAIN Text', RefusedAt(n)'
        PROVE  \E r \in (1..(Text'[n].seq - 1)) \ Logged' : about'[r] = Text'[n].id
    <3>1. n \in DOMAIN Text /\ RefusedAt(n) /\ Text[n] \in Record
      BY <1>1, <2>1 DEF RefusedAt
    <3>2. PICK r \in (1..(Text[n].seq - 1)) \ Logged : about[r] = Text[n].id
      BY <1>1, <2>1, <3>1 DEF RefusedInv
    <3>3. Text[n].seq \in 1..ops
      BY <3>1, TextNumber
    <3>4. r \in 1..ops
      BY <1>0, <3>2, <3>3
    <3> QED BY <1>1, <3>2, <3>4
  <2> QED BY <2>1 DEF RefusedInv
<1>2. CASE UNCHANGED fileVars
  <2>1. Text' = Text /\ Logged' = Logged /\ (Spoiled' <=> Spoiled)
    BY <1>2, SameFile
  <2>2. \A s \in 1..ops : about'[s] = about[s]
    <3>1. ASSUME NEW r \in Requests, Handle(r)
          PROVE  \A s \in 1..ops : about'[s] = about[s]
      BY <3>1, AboutKept, RequestFields DEF Handle
    <3>2. ASSUME ~ \E r \in Requests : Handle(r)
          PROVE  about' = about
      BY <3>2 DEF Next, AppendRecord, AppendFails, AppendNewline, AuditAppend, Answer, Kill, Start,
                  ReplayRecord, ReplayRefused, ReplayBadLine, Serve, vars, historyVars
    <3> QED BY <3>1, <3>2
  <2> QED BY <1>1, <2>1, <2>2
<1>3. ASSUME UNCHANGED lines, about' = about, tail' \in {Garbage, BadText}, tail = BadText => tail' = BadText
      PROVE  RefusedInv'
  <2>1. ASSUME ~ Spoiled', NEW n \in DOMAIN Text', RefusedAt(n)'
        PROVE  \E r \in (1..(Text'[n].seq - 1)) \ Logged' : about'[r] = Text'[n].id
    <3>1. Text'[n] \in Record /\ ~ Accepted(ReplayOf(SubSeq(Text', 1, n - 1)).mem, Text'[n])
      BY <2>1 DEF RefusedAt
    <3>2. /\ ~ Spoiled /\ Logged' \subseteq Logged /\ n \in DOMAIN Text /\ Text'[n] = Text[n]
          /\ SubSeq(Text', 1, n - 1) = SubSeq(Text, 1, n - 1)
      BY <1>3, <2>1, <3>1, GluedRows
    <3>3. RefusedAt(n)
      BY <3>1, <3>2 DEF RefusedAt
    <3>4. PICK r \in (1..(Text[n].seq - 1)) \ Logged : about[r] = Text[n].id
      BY <3>2, <3>3 DEF RefusedInv
    <3> QED BY <1>3, <3>2, <3>4
  <2> QED BY <2>1 DEF RefusedInv
<1>4. CASE AppendRecord
  <2>1. /\ pc = "append" /\ tail' = Glued(tail, req) /\ lines' = lines /\ about' = about
    BY <1>4 DEF AppendRecord, historyVars
  <2>2. req \in Requests /\ req \in FileLine /\ tail \in FileLine \cup {None} /\ req \in Replayable
    BY <2>1 DEF TypeOK, FileLine, Replayable
  <2>3. CASE tail = None
    <3>1. tail' = req
      BY <2>1, <2>2, <2>3, GluedFacts
    <3>2. ASSUME ~ Spoiled', NEW n \in DOMAIN Text', RefusedAt(n)'
          PROVE  \E r \in (1..(Text'[n].seq - 1)) \ Logged' : about'[r] = Text'[n].id
      <4>1. /\ ~ Spoiled /\ Text' = Append(Text, req) /\ Logged' = Logged \cup {ops} /\ req.seq = ops
        BY <2>1, <2>2, <2>3, <3>1, <3>2, RecordFile DEF NumberInv
      <4>2. PICK text \in Seq(Replayable) : text = Text
        BY TextType
      <4>3. /\ DOMAIN Append(text, req) = 1..(Len(text) + 1) /\ DOMAIN text = 1..Len(text)
            /\ Append(text, req)[Len(text) + 1] = req /\ Len(text) \in Nat
            /\ \A k \in 1..Len(text) : Append(text, req)[k] = text[k]
            /\ Append(text, req) \in Seq(Replayable) /\ Len(Append(text, req)) = Len(text) + 1
        BY <2>2, AppendProperties, LenProperties
      <4>4. n \in 1..(Len(text) + 1)
        BY <3>2, <4>1, <4>2, <4>3
      <4>5. SubSeq(Append(text, req), 1, n - 1) = SubSeq(text, 1, n - 1)
        <5> DEFINE longer == Append(text, req)
        <5>1. n - 1 \in 0..Len(text) /\ n - 1 \in 0..Len(longer) /\ longer \in Seq(Replayable)
          BY <4>3, <4>4
        <5>2. \A k \in 1..(n - 1) : longer[k] = text[k]
          BY <4>3, <4>4
        <5> HIDE DEF longer
        <5>3. SubSeq(longer, 1, n - 1) = [k \in 1..(n - 1) |-> longer[k]]
          BY <5>1, SubSeqProperties
        <5>4. SubSeq(text, 1, n - 1) = [k \in 1..(n - 1) |-> text[k]]
          BY <5>1, SubSeqProperties
        <5>5. SubSeq(longer, 1, n - 1) = SubSeq(text, 1, n - 1)
          BY <5>2, <5>3, <5>4
        <5> QED BY <5>5 DEF longer
      <4>6. /\ Text'[n] \in Record /\ ~ Accepted(ReplayOf(SubSeq(text, 1, n - 1)).mem, Text'[n])
        BY <3>2, <4>1, <4>2, <4>5 DEF RefusedAt
      <4>7. CASE n \in 1..Len(text)
        <5>1. n \in DOMAIN Text /\ Text'[n] = Text[n]
          BY <4>1, <4>2, <4>3, <4>7
        <5>2. RefusedAt(n)
          BY <4>2, <4>6, <5>1 DEF RefusedAt
        <5>3. PICK r \in (1..(Text[n].seq - 1)) \ Logged : about[r] = Text[n].id
          BY <4>1, <5>1, <5>2 DEF RefusedInv
        <5>4. Text[n].seq \in 1..ops
          BY <4>6, <5>1, TextNumber
        <5>5. r # ops
          BY <1>0, <5>3, <5>4
        <5> QED BY <2>1, <4>1, <5>1, <5>3, <5>5
      <4>8. CASE n = Len(text) + 1
        <5>1. Text'[n] = req /\ SubSeq(text, 1, n - 1) = text
          BY <4>1, <4>2, <4>3, <4>8
        <5>2. ~ Accepted(Replayed.mem, req)
          BY <4>2, <4>6, <5>1, TextOfFile
        <5>3. ~ Known(req.id, ops - 1)
          BY <2>1, <2>2, <4>1, <5>2, RequestFields DEF FactInv
        <5>4. PICK s \in 1..(ops - 1) : about[s] = req.id /\ s \notin Logged
          BY <5>3 DEF Known
        <5>5. s # ops /\ s \in 1..(req.seq - 1)
          BY <1>0, <4>1, <5>4
        <5> QED BY <2>1, <4>1, <5>1, <5>4, <5>5
      <4> QED BY <4>3, <4>4, <4>7, <4>8
    <3> QED BY <3>2 DEF RefusedInv
  <2>4. CASE tail # None
    <3>1. tail' \in {Garbage, BadText} /\ (tail = BadText => tail' = BadText)
      BY <2>1, <2>2, <2>4, GluedFacts
    <3> QED BY <1>3, <2>1, <3>1
  <2> QED BY <2>3, <2>4
<1>5. CASE AppendFails \/ Kill
  <2>1. lines' = lines /\ MayTear /\ about' = about
    BY <1>5 DEF AppendFails, Kill, historyVars
  <2> QED BY <1>2, <1>3, <2>1, TornFile
<1>6. CASE AppendNewline
  <2>1. about' = about
    BY <1>6 DEF AppendNewline
  <2> QED BY <1>1, <1>6, <2>1, NewlineFile
<1>7. ASSUME NEW r \in Requests, Handle(r)
      PROVE  RefusedInv'
  BY <1>2, <1>7 DEF Handle
<1>8. CASE AuditAppend \/ Answer \/ Start \/ ReplayRecord \/ ReplayRefused \/ ReplayBadLine \/ Serve
  <2>1. UNCHANGED fileVars
    BY <1>8 DEF AuditAppend, Answer, Start, ReplayRecord, ReplayRefused, ReplayBadLine, Serve, vars
  <2> QED BY <1>2, <2>1
<1> QED BY <1>4, <1>5, <1>6, <1>7, <1>8 DEF Next

-----------------------------------------------------------------------------
(* The theorems.                                                            *)

\* A new file and a process that has not started satisfy the invariant.
LEMMA ServerInit == Init => IInv
<1> SUFFICES ASSUME Init
             PROVE  IInv
  OBVIOUS
<1>1. /\ mem = Empty /\ audit = << >> /\ lines = << >> /\ tail = None /\ pc = "down" /\ req = None
      /\ todo = << >> /\ faults = 0 /\ ops = 0 /\ applied = {} /\ acked = {}
      /\ about = << >>
  BY DEF Init
<1>2. Empty \in Memory /\ Empty.log = << >>
  BY DEF Empty, Memory
<1>3. TypeOK
  BY <1>1, <1>2, ServerAssumption DEF TypeOK
<1>4. NumberInv
  BY <1>1, Markings DEF NumberInv
<1>5. ReplayInv /\ ServeInv
  BY <1>1 DEF ReplayInv, ServeInv
<1>6. LossInv
  <2>1. Cardinality(acked \ Logged) = 0
    BY <1>1, FS_EmptySet
  <2>2. ~ Dangling
    BY <1>1 DEF Dangling
  <2> QED BY <1>1, <2>1, <2>2 DEF LossInv
<1>8. AboutInv /\ FactInv /\ RefusedInv
  <2>1. Text = << >>
    BY <1>1 DEF Text
  <2> QED BY <1>1, <2>1, Markings DEF AboutInv, FactInv, RefusedInv
<1>7. AuditMatchesLog
  <2>1. Operations(<< >>) = << >>
    <3>1. << >> \in Seq(Audit) /\ \A n \in DOMAIN << >> : << >>[n] # Custom
      OBVIOUS
    <3> QED BY <3>1, OperationsAll
  <2>2. Trail(<< >>) = << >>
    BY DEF Trail
  <2> QED BY <1>1, <1>2, <2>1, <2>2 DEF AuditMatchesLog, Trail
<1> QED BY <1>3, <1>4, <1>5, <1>6, <1>7, <1>8 DEF IInv

LEMMA ServerStep == IInv /\ [Next]_vars => IInv'
<1> SUFFICES ASSUME IInv, [Next]_vars
             PROVE  IInv'
  OBVIOUS
<1>1. CASE Next
  BY <1>1, TypeStep, NumberStep, ReplayStep, ServeStep, LossStep, AboutStep, FactStep, RefusedStep,
     AuditStep DEF IInv
<1>2. CASE UNCHANGED vars
  <2>1. UNCHANGED << mem, audit, lines, tail, pc, req, todo, faults, ops, applied, acked, about >>
    BY <1>2 DEF vars, fileVars, historyVars
  <2>2. UNCHANGED fileVars
    BY <2>1 DEF fileVars
  <2>3. Text' = Text /\ Logged' = Logged /\ Replayed' = Replayed /\ (Spoiled' <=> Spoiled)
    BY <2>2, SameFile
  <2>4. (Dangling' <=> Dangling) /\ Served' = Served
    BY <2>1 DEF Dangling, Served, Operations
  <2>5. TypeOK' /\ NumberInv' /\ AuditMatchesLog'
    BY <2>1 DEF IInv, TypeOK, NumberInv, AuditMatchesLog, Operations
  <2>6. ReplayInv'
    BY <2>1, <2>3 DEF IInv, ReplayInv
  <2>7. ServeInv' /\ LossInv'
    BY <2>1, <2>3, <2>4 DEF IInv, ServeInv, LossInv
  <2>8. AboutInv' /\ FactInv'
    BY <2>1, <2>3 DEF IInv, AboutInv, FactInv, Known
  <2>9. RefusedInv'
    BY <2>1, <2>3 DEF IInv, RefusedInv, RefusedAt
  <2> QED BY <2>5, <2>6, <2>7, <2>8, <2>9 DEF IInv
<1> QED BY <1>1, <1>2

\* The invariant holds in every state of the server, its crashes and restarts
\* included.
THEOREM ServerInvariant == Spec => []IInv
BY ServerInit, ServerStep, PTL DEF Spec

\* While everything the running process executed is in the file, a restart would
\* reproduce its memory and its audit log exactly.
THEOREM ReplayExactHolds == Spec => []ReplayExact
<1>1. IInv => ReplayExact
  BY DEF IInv, ServeInv, ReplayExact, Served
<1> QED BY <1>1, ServerInvariant, PTL

\* The Merkle audit log and the memory's own log tell the same story, before,
\* during and after every restart.
THEOREM AuditMatchesLogHolds == Spec => []AuditMatchesLog
<1>1. IInv => AuditMatchesLog
  BY DEF IInv
<1> QED BY <1>1, ServerInvariant, PTL

\* While the file can be read, an acknowledged operation that a restart loses is
\* not in the file, which each failed append and each death has caused once at
\* most, or it is refused because an earlier one on the same fact is not.
THEOREM LossExplainedHolds == Spec => []LossExplained
<1>1. IInv => LossExplained
  <2> SUFFICES ASSUME IInv, ~ Spoiled
               PROVE  /\ Cardinality(acked \ Logged) <= faults
                      /\ \A s \in Logged \ Restored :
                           \E r \in (1..(s - 1)) \ Logged : about[r] = about[s]
    BY DEF LossExplained
  <2>1. Cardinality(acked \ Logged) + (IF Dangling THEN 1 ELSE 0) <= faults
    BY DEF IInv, LossInv
  <2>2. Cardinality(acked \ Logged) \in Nat /\ faults \in Nat
    BY LostFinite DEF IInv, TypeOK
  <2>3. ASSUME NEW s \in Logged \ Restored
        PROVE  \E r \in (1..(s - 1)) \ Logged : about[r] = about[s]
    <3>1. PICK n \in DOMAIN Text : Text[n] \in Record /\ Text[n].seq = s
      BY <2>3 DEF Logged
    <3>2. RefusedAt(n)
      BY <2>3, <3>1 DEF Restored, RefusedAt
    <3>3. PICK r \in (1..(s - 1)) \ Logged : about[r] = Text[n].id
      BY <3>1, <3>2 DEF IInv, RefusedInv
    <3>4. about[s] = Text[n].id
      BY <3>1, TextPlace DEF IInv, AboutInv
    <3> QED BY <3>3, <3>4
  <2> QED BY <2>1, <2>2, <2>3
<1> QED BY <1>1, ServerInvariant, PTL
=============================================================================
