--------------------------- MODULE DatabaseProofs ---------------------------
(***************************************************************************)
(* Proofs about Database: whatever is registered, attached, inserted and   *)
(* deleted, statistics that are not marked stale are those of the table,   *)
(* an index stays in step with the rows of its table, a view says what the *)
(* rows of its table say, and a query is answered with its meaning, or     *)
(* within the bound its plan was admitted on.                              *)
(***************************************************************************)
EXTENDS DatabaseInvariant, SoftAvgProofs

-----------------------------------------------------------------------------
(* What the writes make of an index.                                        *)

\* The fields of an index.
LEMMA IndexFields ==
  ASSUME NEW ix \in Index
  PROVE  /\ ix.vectors \in Seq(Scalars) /\ DOMAIN ix.vectors = 1..Len(ix.vectors)
         /\ ix.rowIds \in Seq(Nat) /\ DOMAIN ix.rowIds = 1..Len(ix.rowIds)
         /\ ix.idToRow \in Seq(Nat \cup {Tombstone}) /\ DOMAIN ix.idToRow = 1..Len(ix.idToRow)
         /\ Len(ix.vectors) \in Nat /\ Len(ix.rowIds) \in Nat /\ Len(ix.idToRow) \in Nat
         /\ ix.dead \subseteq Nat
BY LenProperties DEF Index

\* An index is made of its four parts.
LEMMA IndexMade ==
  ASSUME NEW v \in Seq(Scalars), NEW d \in SUBSET Nat, NEW r \in Seq(Nat),
         NEW i \in Seq(Nat \cup {Tombstone})
  PROVE  LET x == [vectors |-> v, dead |-> d, rowIds |-> r, idToRow |-> i]
         IN  x \in Index /\ x.vectors = v /\ x.dead = d /\ x.rowIds = r /\ x.idToRow = i
BY DEF Index

\* An index built over a column of keys is in step with its rows.
LEMMA BuiltInStep ==
  ASSUME NEW rows \in Seq(DbRow), NEW ks, ks = [i \in DOMAIN rows |-> rows[i].k],
         NEW ix, ix = [vectors |-> ks, dead |-> {}, rowIds |-> [i \in DOMAIN ks |-> i],
                       idToRow |-> [i \in DOMAIN ks |-> i]]
  PROVE  ix \in Index /\ InStep(ix, rows) /\ SameKeys(ix, rows)
<1>1. DOMAIN rows = 1..Len(rows) /\ Len(rows) \in Nat /\ \A i \in DOMAIN rows : rows[i] \in DbRow
  BY LenProperties, ElementOfSeq
<1>2. /\ ks \in Seq(Scalars) /\ DOMAIN ks = 1..Len(rows) /\ Len(ks) = Len(rows)
      /\ \A i \in 1..Len(rows) : ks[i] = rows[i].k
  <2>1. \A i \in 1..Len(rows) : rows[i].k \in Scalars
    BY <1>1 DEF DbRow
  <2> QED BY <1>1, <2>1
<1> DEFINE same == [i \in DOMAIN ks |-> i]
<1>3. /\ same \in Seq(Nat) /\ same \in Seq(Nat \cup {Tombstone})
      /\ DOMAIN same = 1..Len(rows) /\ Len(same) = Len(rows)
      /\ \A i \in 1..Len(rows) : same[i] = i
  BY <1>1, <1>2
<1> HIDE DEF same
<1>4. ix = [vectors |-> ks, dead |-> {}, rowIds |-> same, idToRow |-> same]
  BY DEF same
<1>5. ix \in Index /\ ix.vectors = ks /\ ix.dead = {} /\ ix.rowIds = same /\ ix.idToRow = same
  <2>1. {} \in SUBSET Nat
    OBVIOUS
  <2>2. ks \in Seq(Scalars) /\ same \in Seq(Nat) /\ same \in Seq(Nat \cup {Tombstone})
    BY <1>2, <1>3
  <2>3. LET x == [vectors |-> ks, dead |-> {}, rowIds |-> same, idToRow |-> same]
        IN  x \in Index /\ x.vectors = ks /\ x.dead = {} /\ x.rowIds = same /\ x.idToRow = same
    BY <2>1, <2>2, IndexMade, Zenon
  <2> QED BY <1>4, <2>3
<1>6. {same[r] : r \in DOMAIN same} = DOMAIN ks \ {}
  BY <1>2, <1>3
<1>7. {ix.rowIds[r] : r \in DOMAIN ix.rowIds} = LiveIn(ix)
  BY <1>5, <1>6 DEF LiveIn
<1>8. \A r \in DOMAIN rows : ix.idToRow[ix.rowIds[r]] = r /\ ix.vectors[ix.rowIds[r]] = rows[r].k
  BY <1>1, <1>2, <1>3, <1>5
<1> QED BY <1>2, <1>3, <1>5, <1>7, <1>8 DEF InStep, SameKeys

\* A row and its key at the end leave them in step, with the same keys if they had them.
LEMMA ExtendedInStep ==
  ASSUME NEW ix \in Index, NEW rows \in Seq(DbRow), NEW row \in DbRow,
         InStep(ix, rows), ix.dead \subseteq DOMAIN ix.vectors
  PROVE  LET next == Extended(ix, row.k)
         IN  /\ next \in Index /\ InStep(next, Append(rows, row))
             /\ next.dead \subseteq DOMAIN next.vectors
             /\ SameKeys(ix, rows) => SameKeys(next, Append(rows, row))
<1> DEFINE m == Len(ix.vectors)
           l == Len(ix.rowIds)
           vectors == Append(ix.vectors, row.k)
           rowIds  == Append(ix.rowIds, m + 1)
           idToRow == Append(ix.idToRow, l + 1)
           next    == Extended(ix, row.k)
           after   == Append(rows, row)
<1>1. /\ ix.vectors \in Seq(Scalars) /\ DOMAIN ix.vectors = 1..m /\ m \in Nat
      /\ ix.rowIds \in Seq(Nat) /\ DOMAIN ix.rowIds = 1..l /\ l \in Nat
      /\ ix.idToRow \in Seq(Nat \cup {Tombstone}) /\ DOMAIN ix.idToRow = 1..m /\ Len(ix.idToRow) = m
      /\ Len(rows) = l /\ DOMAIN rows = 1..l
  BY IndexFields, LenProperties DEF InStep
<1>2. row.k \in Scalars
  BY DEF DbRow
<1>3. /\ vectors \in Seq(Scalars) /\ DOMAIN vectors = 1..(m + 1) /\ Len(vectors) = m + 1
      /\ vectors[m + 1] = row.k /\ \A n \in 1..m : vectors[n] = ix.vectors[n]
  BY <1>1, <1>2, AppendProperties
<1>4. /\ rowIds \in Seq(Nat) /\ DOMAIN rowIds = 1..(l + 1) /\ Len(rowIds) = l + 1
      /\ rowIds[l + 1] = m + 1 /\ \A n \in 1..l : rowIds[n] = ix.rowIds[n]
  BY <1>1, AppendProperties
<1>5. /\ idToRow \in Seq(Nat \cup {Tombstone}) /\ DOMAIN idToRow = 1..(m + 1) /\ Len(idToRow) = m + 1
      /\ idToRow[m + 1] = l + 1 /\ \A n \in 1..m : idToRow[n] = ix.idToRow[n]
  BY <1>1, AppendProperties
<1>6. /\ DOMAIN after = 1..(l + 1) /\ Len(after) = l + 1
      /\ after[l + 1] = row /\ \A n \in 1..l : after[n] = rows[n]
  BY <1>1, AppendProperties
<1>7. next = [vectors |-> vectors, dead |-> ix.dead, rowIds |-> rowIds, idToRow |-> idToRow]
  BY DEF Extended
<1> HIDE DEF m, l, vectors, rowIds, idToRow, next, after
<1>8. /\ next \in Index /\ next.vectors = vectors /\ next.dead = ix.dead
      /\ next.rowIds = rowIds /\ next.idToRow = idToRow
  BY <1>3, <1>4, <1>5, <1>7, IndexFields, IndexMade
<1>9. next.dead \subseteq DOMAIN next.vectors
  BY <1>1, <1>3, <1>8
<1>10. {ix.rowIds[r] : r \in 1..l} = (1..m) \ ix.dead
  BY <1>1 DEF InStep, LiveIn
<1>11. {rowIds[r] : r \in 1..(l + 1)} = (1..(m + 1)) \ ix.dead
  <2>1. {rowIds[r] : r \in 1..(l + 1)} = {ix.rowIds[r] : r \in 1..l} \cup {m + 1}
    <3>1. \A r \in 1..(l + 1) : r \in 1..l \/ r = l + 1
      BY <1>1
    <3>2. \A r \in 1..l : r \in 1..(l + 1)
      BY <1>1
    <3>3. l + 1 \in 1..(l + 1)
      BY <1>1
    <3> QED BY <1>4, <3>1, <3>2, <3>3
  <2>2. m + 1 \notin ix.dead /\ 1..(m + 1) = (1..m) \cup {m + 1}
    BY <1>1
  <2> QED BY <1>10, <2>1, <2>2
<1>12. ASSUME NEW r \in 1..(l + 1)
       PROVE  /\ idToRow[rowIds[r]] = r
              /\ SameKeys(ix, rows) => vectors[rowIds[r]] = after[r].k
  <2>1. CASE r = l + 1
    BY <1>3, <1>4, <1>5, <1>6, <2>1
  <2>2. CASE r # l + 1
    <3>1. r \in 1..l
      BY <1>1, <2>2
    <3>2. ix.rowIds[r] \in 1..m
      BY <1>10, <3>1
    <3>3. /\ ix.idToRow[ix.rowIds[r]] = r
          /\ SameKeys(ix, rows) => ix.vectors[ix.rowIds[r]] = rows[r].k
      BY <1>1, <3>1 DEF InStep, SameKeys
    <3> QED BY <1>3, <1>4, <1>5, <1>6, <3>1, <3>2, <3>3
  <2> QED BY <2>1, <2>2
<1>13. ASSUME NEW id \in ix.dead
       PROVE  idToRow[id] = Tombstone
  BY <1>1, <1>5 DEF InStep
<1>14. {next.rowIds[r] : r \in DOMAIN next.rowIds} = LiveIn(next)
  <2>1. DOMAIN next.rowIds = 1..(l + 1) /\ next.rowIds = rowIds
    BY <1>4, <1>8
  <2>2. LiveIn(next) = (1..(m + 1)) \ ix.dead
    BY <1>3, <1>8 DEF LiveIn
  <2> QED BY <1>11, <2>1, <2>2
<1>15. InStep(next, after)
  BY <1>3, <1>4, <1>5, <1>6, <1>8, <1>12, <1>13, <1>14 DEF InStep
<1>16. SameKeys(ix, rows) => SameKeys(next, after)
  BY <1>6, <1>8, <1>12 DEF SameKeys
<1> QED BY <1>8, <1>9, <1>15, <1>16 DEF next, after

\* Rows deleted from both leave them in step, with the same keys if they had them.
LEMMA RemapInStep ==
  ASSUME NEW ix \in Index, NEW rows \in Seq(DbRow), NEW doomed \in SUBSET (DOMAIN rows),
         InStep(ix, rows), ix.dead \subseteq DOMAIN ix.vectors
  PROVE  LET next == Remap(ix, doomed)
             rest == Select(rows, DOMAIN rows \ doomed)
         IN  /\ next \in Index /\ InStep(next, rest)
             /\ next.dead \subseteq DOMAIN next.vectors
             /\ SameKeys(ix, rows) => SameKeys(next, rest)
<1> DEFINE m == Len(ix.vectors)
           l == Len(ix.rowIds)
           kept == DOMAIN rows \ doomed
           left == Cardinality(kept)
           gone == {ix.rowIds[r] : r \in doomed}
           rest == Select(ix.rowIds, kept)
           after == Select(rows, kept)
           idToRow == [id \in DOMAIN ix.idToRow |->
                        IF id \in gone THEN Tombstone
                        ELSE IF \E r \in DOMAIN rest : rest[r] = id
                               THEN CHOOSE r \in DOMAIN rest : rest[r] = id ELSE ix.idToRow[id]]
           next == Remap(ix, doomed)
<1>1. /\ ix.vectors \in Seq(Scalars) /\ DOMAIN ix.vectors = 1..m /\ m \in Nat
      /\ ix.rowIds \in Seq(Nat) /\ DOMAIN ix.rowIds = 1..l /\ l \in Nat
      /\ ix.idToRow \in Seq(Nat \cup {Tombstone}) /\ DOMAIN ix.idToRow = 1..m /\ Len(ix.idToRow) = m
      /\ Len(rows) = l /\ DOMAIN rows = 1..l
  BY IndexFields, LenProperties DEF InStep
<1>2. kept \in SUBSET (1..l) /\ DOMAIN ix.rowIds \ doomed = kept
  BY <1>1
<1>3. next = [vectors |-> ix.vectors, dead |-> ix.dead \cup gone, rowIds |-> rest, idToRow |-> idToRow]
  BY <1>2 DEF Remap
<1>4. /\ {ix.rowIds[r] : r \in 1..l} = (1..m) \ ix.dead
      /\ \A r \in 1..l : ix.idToRow[ix.rowIds[r]] = r
      /\ \A id \in ix.dead : ix.idToRow[id] = Tombstone
      /\ SameKeys(ix, rows) => \A r \in 1..l : ix.vectors[ix.rowIds[r]] = rows[r].k
  BY <1>1 DEF InStep, LiveIn, SameKeys
<1>5. \A r, q \in 1..l : ix.rowIds[r] = ix.rowIds[q] => r = q
  BY <1>4
<1>6. \A r \in 1..l : ix.rowIds[r] \in 1..m /\ ix.rowIds[r] \notin ix.dead
  BY <1>4
<1>7. \A id \in (1..m) \ ix.dead : \E r \in 1..l : ix.rowIds[r] = id
  BY <1>4
<1>8. doomed \subseteq 1..l /\ \A r \in 1..l : r \in kept <=> r \notin doomed
  BY <1>1
<1>9. gone \subseteq 1..m
  BY <1>6, <1>8
<1>10. \A r \in 1..l : ix.rowIds[r] \in gone => r \in doomed
  BY <1>5, <1>8
<1> HIDE DEF m, l, kept, left, rest, after
<1>c. left \in Nat
  BY <1>1, <1>2, RankFacts DEF left
<1>11. /\ rest \in Seq(Nat) /\ Len(rest) = left
       /\ after \in Seq(DbRow) /\ Len(after) = left
  BY <1>1, <1>2, SelectType DEF rest, after, left
<1>12. /\ DOMAIN rest = 1..left /\ DOMAIN after = 1..left
       /\ \A r \in 1..left : rest[r] = ix.rowIds[Place(kept, r)] /\ after[r] = rows[Place(kept, r)]
  BY <1>1, <1>2, SelectPlaces DEF rest, after, left
<1>13. /\ \A r \in 1..left : Place(kept, r) \in kept
       /\ \A r, q \in 1..left : Place(kept, r) = Place(kept, q) => r = q
       /\ \A n \in kept : \E r \in 1..left : Place(kept, r) = n
  <2>1. left = Cardinality(kept)
    BY DEF left
  <2>2. l \in Nat /\ kept \in SUBSET (1..l)
    BY <1>1, <1>2
  <2>3. /\ \A r \in 1..Cardinality(kept) : Place(kept, r) \in kept
        /\ \A r, q \in 1..Cardinality(kept) : Place(kept, r) = Place(kept, q) => r = q
        /\ \A n \in kept : \E r \in 1..Cardinality(kept) : Place(kept, r) = n
    BY <2>2, PlacesOfSet, Zenon
  <2> QED BY <2>1, <2>3, Zenon
<1>14. ASSUME NEW r \in 1..left
       PROVE  /\ rest[r] \in 1..m /\ rest[r] \notin ix.dead /\ rest[r] \notin gone
              /\ SameKeys(ix, rows) => ix.vectors[rest[r]] = after[r].k
  <2>1. Place(kept, r) \in 1..l /\ Place(kept, r) \notin doomed
    BY <1>2, <1>8, <1>13
  <2> QED BY <1>4, <1>6, <1>10, <1>12, <2>1
<1>15. \A r, q \in 1..left : rest[r] = rest[q] => r = q
  <2> SUFFICES ASSUME NEW r \in 1..left, NEW q \in 1..left, rest[r] = rest[q]
               PROVE  r = q
    OBVIOUS
  <2>1. Place(kept, r) \in 1..l /\ Place(kept, q) \in 1..l
    BY <1>2, <1>13
  <2>2. ix.rowIds[Place(kept, r)] = ix.rowIds[Place(kept, q)]
    BY <1>12
  <2> QED BY <1>5, <1>13, <2>1, <2>2
<1>16. ASSUME NEW id \in (1..m) \ (ix.dead \cup gone)
       PROVE  \E r \in 1..left : rest[r] = id
  <2>1. PICK n \in 1..l : ix.rowIds[n] = id
    BY <1>7
  <2>2. n \in kept
    BY <1>8, <2>1
  <2> QED BY <1>12, <1>13, <2>1, <2>2
<1> HIDE DEF gone
<1>17. ASSUME NEW r \in 1..left
       PROVE  idToRow[rest[r]] = r
  <2>1. rest[r] \in DOMAIN ix.idToRow /\ rest[r] \notin gone /\ r \in DOMAIN rest
    BY <1>1, <1>12, <1>14
  <2>2. PICK q \in DOMAIN rest : q = CHOOSE k \in DOMAIN rest : rest[k] = rest[r]
    BY <2>1
  <2>3. rest[q] = rest[r]
    BY <2>1, <2>2
  <2>4. q = r
    BY <1>12, <1>15, <2>3
  <2> QED BY <2>1, <2>2, <2>4
<1>18. ASSUME NEW id \in ix.dead \cup gone
       PROVE  idToRow[id] = Tombstone
  <2>1. id \in DOMAIN ix.idToRow
    BY <1>1, <1>9
  <2>2. \A r \in DOMAIN rest : rest[r] # id
    BY <1>12, <1>14
  <2> QED BY <1>4, <2>1, <2>2
<1>19. idToRow \in Seq(Nat \cup {Tombstone}) /\ DOMAIN idToRow = 1..m /\ Len(idToRow) = m
  <2>1. DOMAIN idToRow = 1..m
    BY <1>1
  <2>2. ASSUME NEW id \in 1..m
        PROVE  idToRow[id] \in Nat \cup {Tombstone}
    <3>1. CASE id \in ix.dead \cup gone
      BY <1>18, <3>1, SMTT(30)
    <3>2. CASE id \notin ix.dead \cup gone
      <4>1. PICK r \in 1..left : rest[r] = id
        BY <1>16, <3>2
      <4> QED BY <1>c, <1>17, <4>1, SMTT(30)
    <3> QED BY <3>1, <3>2
  <2>3. idToRow = [id \in 1..m |-> idToRow[id]]
    BY <2>1
  <2> HIDE DEF idToRow
  <2>4. m \in Nat /\ idToRow \in [1..m -> Nat \cup {Tombstone}]
    BY <1>1, <2>2, <2>3
  <2> QED BY <2>4
<1> HIDE DEF idToRow, next
<1>a. ix.dead \cup gone \in SUBSET (1..m) /\ ix.dead \cup gone \in SUBSET Nat
  <2>1. ix.dead \subseteq 1..m
    BY <1>1
  <2>2. 1..m \subseteq Nat
    BY <1>1
  <2> QED BY <1>9, <2>1, <2>2
<1>b. /\ next \in Index /\ next.vectors = ix.vectors /\ next.dead = ix.dead \cup gone
      /\ next.rowIds = rest /\ next.idToRow = idToRow
  BY <1>1, <1>3, <1>a, <1>11, <1>19, IndexMade
<1>20. next.dead \subseteq DOMAIN next.vectors
  BY <1>1, <1>a, <1>b
<1>21. {rest[r] : r \in 1..left} = (1..m) \ (ix.dead \cup gone)
  BY <1>14, <1>16
<1>22. {next.rowIds[r] : r \in DOMAIN next.rowIds} = LiveIn(next)
  <2>1. LiveIn(next) = (1..m) \ (ix.dead \cup gone)
    BY <1>1, <1>b DEF LiveIn
  <2>2. next.rowIds = rest /\ DOMAIN rest = 1..left
    BY <1>b, <1>12
  <2> QED BY <1>21, <2>1, <2>2
<1>23. InStep(next, after)
  BY <1>1, <1>b, <1>11, <1>12, <1>14, <1>17, <1>18, <1>19, <1>22 DEF InStep
<1>24. SameKeys(ix, rows) => SameKeys(next, after)
  BY <1>b, <1>12, <1>14 DEF SameKeys
<1> QED BY <1>b, <1>20, <1>23, <1>24 DEF next, after, kept

-----------------------------------------------------------------------------
(* What the writes make of the catalog and its statistics.                  *)

\* The parts of a table.
LEMMA TableFields ==
  ASSUME NEW tab \in Table
  PROVE  /\ tab.rows \in Seq(DbRow) /\ tab.dict \in Seq(Labels)
         /\ DOMAIN tab.rows = 1..Len(tab.rows) /\ DOMAIN tab.dict = 1..Len(tab.dict)
         /\ Len(tab.rows) \in Nat /\ Len(tab.dict) \in Nat
         /\ tab.key \in {"none", "F32", "F64"}
BY LenProperties DEF Table

\* A table that is replaced, its statistics marked stale, leaves the catalog well formed and
\* every statistic that is not marked current.
LEMMA RewrittenTable ==
  ASSUME CatalogInv, StatsFresh, NEW t \in DOMAIN catalog, NEW tab \in Table,
         catalog' = [catalog EXCEPT ![t] = tab], stats' = [stats EXCEPT ![t] = Stale]
  PROVE  /\ CatalogInv' /\ StatsFresh' /\ DOMAIN catalog' = DOMAIN catalog /\ catalog'[t] = tab
         /\ \A u \in DOMAIN catalog : u # t => catalog'[u] = catalog[u]
<1>1. /\ DOMAIN catalog' = DOMAIN catalog /\ catalog'[t] = tab
      /\ \A u \in DOMAIN catalog : u # t => catalog'[u] = catalog[u]
  OBVIOUS
<1>2. /\ DOMAIN stats = DOMAIN catalog /\ DOMAIN stats' = DOMAIN stats
      /\ stats' = [u \in DOMAIN stats' |-> stats'[u]]
      /\ catalog' = [u \in DOMAIN catalog' |-> catalog'[u]]
  BY DEF CatalogInv
<1>3. stats'[t] = Stale /\ \A u \in DOMAIN catalog : u # t => stats'[u] = stats[u]
  BY <1>2
<1>4. CatalogInv'
  BY <1>1, <1>2 DEF CatalogInv
<1>5. ASSUME NEW u \in DOMAIN catalog
      PROVE  stats'[u] \in {Stale, CollectStats(catalog'[u])}
  <2>1. CASE u = t
    BY <1>3, <2>1
  <2>2. CASE u # t
    BY <1>1, <1>3, <2>2 DEF StatsFresh
  <2> QED BY <2>1, <2>2
<1> QED BY <1>1, <1>4, <1>5 DEF StatsFresh

-----------------------------------------------------------------------------
(* The inductive invariant holds.                                           *)

\* It holds before the first table is registered.
LEMMA DbInvInit == DbInit => DbInv
<1> SUFFICES ASSUME DbInit PROVE DbInv
  OBVIOUS
<1>1. DOMAIN catalog = {} /\ DOMAIN stats = {} /\ DOMAIN indexes = {}
  BY DEF DbInit
<1>2. << >> = [t \in {} |-> << >>[t]]
  OBVIOUS
<1>3. CatalogInv /\ IndexInv /\ Recorded
  BY <1>1, <1>2 DEF CatalogInv, IndexInv, Recorded, DbInit
<1> QED BY <1>1, <1>3 DEF DbInv, StatsFresh, IndexExact

\* Registering a table keeps it: the index of a table it replaces goes with it.
LEMMA RegisterStep ==
  ASSUME DbInv, NEW t \in Tables, NEW c \in Contents, Register(t, c)
  PROVE  DbInv'
<1>1. /\ catalog' = Bind(catalog, t, c) /\ stats' = Bind(stats, t, CollectStats(c))
      /\ indexes' = Drop(indexes, t)
      /\ outdated' = [views   |-> {views'[i].name : i \in DOMAIN views'} \cap outdated.views,
                      indexes |-> DOMAIN indexes' \cap outdated.indexes]
  BY DEF Register
<1>2. DOMAIN stats = DOMAIN catalog
  BY DEF DbInv, CatalogInv
<1>3. c \in Table
  BY DatabaseAssumption
<1>4. CatalogInv'
  BY <1>1, <1>2, <1>3 DEF DbInv, CatalogInv, Bind
<1>5. StatsFresh'
  <2> SUFFICES ASSUME NEW u \in DOMAIN catalog'
               PROVE  stats'[u] \in {Stale, CollectStats(catalog'[u])}
    BY DEF StatsFresh
  <2>1. CASE u = t
    BY <1>1, <2>1 DEF Bind
  <2>2. CASE u # t
    <3>1. u \in DOMAIN catalog /\ u \in DOMAIN stats
      BY <1>1, <1>2, <2>2 DEF Bind
    <3>2. catalog'[u] = catalog[u] /\ stats'[u] = stats[u]
      BY <1>1, <2>2, <3>1 DEF Bind
    <3> QED BY <3>1, <3>2 DEF DbInv, StatsFresh
  <2> QED BY <2>1, <2>2
<1>6. ASSUME NEW u \in DOMAIN indexes'
      PROVE  /\ u \in DOMAIN indexes /\ indexes'[u] = indexes[u]
             /\ u \in DOMAIN catalog' /\ catalog'[u] = catalog[u]
             /\ u \in outdated'.indexes <=> u \in outdated.indexes
  <2>1. u \in DOMAIN indexes /\ u # t
    BY <1>1 DEF Drop
  <2>2. u \in DOMAIN catalog
    BY <2>1 DEF DbInv, IndexInv
  <2>3. u \in outdated'.indexes <=> u \in outdated.indexes
    BY <1>1
  <2> QED BY <1>1, <2>1, <2>2, <2>3 DEF Bind, Drop
<1>7. IndexInv' /\ IndexExact'
  BY <1>1, <1>6 DEF DbInv, IndexInv, IndexExact, Drop
<1>8. Recorded'
  BY <1>1 DEF Recorded
<1> QED BY <1>4, <1>5, <1>7, <1>8 DEF DbInv

\* Attaching a key column keeps it: the mapping of an index stays, its keys may not.
LEMMA AttachStep ==
  ASSUME DbInv, NEW t \in DOMAIN catalog, NEW ks \in [DOMAIN catalog[t].rows -> KeyValues],
         NEW dtype \in {"F64", "F32"}, AttachKey(t, ks, dtype)
  PROVE  DbInv'
<1> DEFINE tab == catalog[t]
<1>1. tab \in Table
  BY DEF DbInv, CatalogInv
<1>2. /\ Keyed(tab, ks, dtype) \in Table /\ Keyed(tab, ks, dtype).key = dtype
      /\ Len(Keyed(tab, ks, dtype).rows) = Len(tab.rows)
      /\ DOMAIN Keyed(tab, ks, dtype).rows = DOMAIN tab.rows
  <2>1. \A i \in DOMAIN tab.rows : tab.rows[i] \in DbRow /\ ks[i] \in Scalars
    BY <1>1, TableFields, ElementOfSeq, DatabaseAssumption
  <2>2. \A i \in DOMAIN tab.rows : [tab.rows[i] EXCEPT !.k = ks[i]] \in DbRow
    BY <2>1 DEF DbRow
  <2>3. /\ [i \in DOMAIN tab.rows |-> [tab.rows[i] EXCEPT !.k = ks[i]]] \in Seq(DbRow)
        /\ Len([i \in DOMAIN tab.rows |-> [tab.rows[i] EXCEPT !.k = ks[i]]]) = Len(tab.rows)
    BY <1>1, <2>2, TableFields
  <2> QED BY <1>1, <2>3, TableFields DEF Keyed, Table
<1> DEFINE next == Keyed(tab, ks, dtype)
<1> HIDE DEF next
<1>3. catalog' = [catalog EXCEPT ![t] = next] /\ stats' = [stats EXCEPT ![t] = Stale]
        /\ UNCHANGED indexes
  BY DEF AttachKey, next
<1>4. outdated' = [views   |-> outdated.views \cup ViewsOf(t),
                   indexes |-> outdated.indexes \cup ({t} \cap DOMAIN indexes)]
  BY DEF AttachKey, Outdate
<1>5. /\ CatalogInv' /\ StatsFresh' /\ DOMAIN catalog' = DOMAIN catalog /\ catalog'[t] = next
      /\ \A u \in DOMAIN catalog : u # t => catalog'[u] = catalog[u]
  BY <1>2, <1>3, RewrittenTable DEF DbInv, next
<1>6. ASSUME NEW u \in DOMAIN indexes
      PROVE  /\ u \in DOMAIN catalog' /\ catalog'[u].key # "none"
             /\ InStep(indexes[u], catalog'[u].rows)
             /\ u \notin outdated'.indexes => SameKeys(indexes[u], catalog'[u].rows)
  <2>1. u \in DOMAIN catalog /\ catalog[u].key # "none" /\ InStep(indexes[u], catalog[u].rows)
          /\ (u \notin outdated.indexes => SameKeys(indexes[u], catalog[u].rows))
    BY DEF DbInv, IndexInv, IndexExact
  <2>2. CASE u = t
    <3>1. u \in outdated'.indexes
      BY <1>4, <2>2
    <3>2. Len(next.rows) = Len(tab.rows) /\ DOMAIN next.rows = DOMAIN tab.rows /\ next.key # "none"
      BY <1>2 DEF next
    <3>3. InStep(indexes[u], next.rows)
      BY <2>1, <2>2, <3>2 DEF InStep
    <3> QED BY <1>5, <2>2, <3>1, <3>2, <3>3
  <2>3. CASE u # t
    BY <1>4, <1>5, <2>1, <2>3
  <2> QED BY <2>2, <2>3
<1>7. IndexInv' /\ IndexExact'
  BY <1>3, <1>6 DEF DbInv, IndexInv, IndexExact
<1>8. Recorded'
  BY <1>4 DEF Recorded
<1> QED BY <1>5, <1>7, <1>8 DEF DbInv

\* Building an index keeps it.
LEMMA CreateIndexStep ==
  ASSUME DbInv, NEW t \in DOMAIN catalog, CreateIndex(t)
  PROVE  DbInv'
<1> DEFINE tab == catalog[t]
           ks == [i \in DOMAIN tab.rows |-> tab.rows[i].k]
           ix == [vectors |-> ks, dead |-> {}, rowIds |-> [i \in DOMAIN ks |-> i],
                  idToRow |-> [i \in DOMAIN ks |-> i]]
<1>1. tab \in Table /\ tab.key = "F64" /\ tab.rows \in Seq(DbRow)
  BY TableFields DEF DbInv, CatalogInv, CreateIndex
<1>2. indexes' = Bind(indexes, t, ix) /\ UNCHANGED << catalog, stats >>
        /\ outdated' = [outdated EXCEPT !.indexes = @ \ {t}]
  BY DEF CreateIndex, Column
<1>a. Recorded' /\ outdated'.indexes = outdated.indexes \ {t}
  BY <1>2 DEF DbInv, Recorded
<1>3. ix \in Index /\ InStep(ix, tab.rows) /\ SameKeys(ix, tab.rows) /\ ix.dead = {}
  BY <1>1, BuiltInStep
<1> HIDE DEF ix
<1>4. ASSUME NEW u \in DOMAIN indexes'
      PROVE  /\ u \in DOMAIN catalog /\ catalog[u].key # "none" /\ indexes'[u] \in Index
             /\ indexes'[u].dead \subseteq DOMAIN indexes'[u].vectors
             /\ InStep(indexes'[u], catalog[u].rows)
             /\ u \notin outdated'.indexes => SameKeys(indexes'[u], catalog[u].rows)
  <2>1. CASE u = t
    BY <1>1, <1>2, <1>3, <2>1 DEF Bind
  <2>2. CASE u # t
    <3>1. u \in DOMAIN indexes /\ indexes'[u] = indexes[u]
      BY <1>2, <2>2 DEF Bind
    <3> QED BY <1>a, <2>2, <3>1 DEF DbInv, IndexInv, IndexExact
  <2> QED BY <2>1, <2>2
<1>5. IndexInv' /\ IndexExact'
  BY <1>2, <1>4 DEF IndexInv, IndexExact, Bind
<1> QED BY <1>a, <1>2, <1>5 DEF DbInv, CatalogInv, StatsFresh

\* A write to the rows of a table keeps it when it keeps its index in step with them.
LEMMA WrittenTable ==
  ASSUME DbInv, NEW t \in DOMAIN catalog, NEW tab \in Table, tab.key = catalog[t].key,
         catalog' = [catalog EXCEPT ![t] = tab], stats' = [stats EXCEPT ![t] = Stale],
         NEW ix, indexes' = IF t \notin DOMAIN indexes THEN indexes
                            ELSE [indexes EXCEPT ![t] = ix],
         UNCHANGED outdated,
         t \in DOMAIN indexes => /\ ix \in Index /\ InStep(ix, tab.rows)
                                 /\ ix.dead \subseteq DOMAIN ix.vectors
                                 /\ t \notin outdated.indexes => SameKeys(ix, tab.rows)
  PROVE  DbInv'
<1>1. /\ CatalogInv' /\ StatsFresh' /\ DOMAIN catalog' = DOMAIN catalog /\ catalog'[t] = tab
      /\ \A u \in DOMAIN catalog : u # t => catalog'[u] = catalog[u]
  BY RewrittenTable DEF DbInv
<1>2. /\ DOMAIN indexes' = DOMAIN indexes
      /\ indexes' = [u \in DOMAIN indexes' |-> indexes'[u]]
      /\ t \in DOMAIN indexes => indexes'[t] = ix
      /\ \A u \in DOMAIN indexes : u # t => indexes'[u] = indexes[u]
  BY DEF DbInv, IndexInv
<1>3. ASSUME NEW u \in DOMAIN indexes
      PROVE  /\ u \in DOMAIN catalog' /\ catalog'[u].key # "none" /\ indexes'[u] \in Index
             /\ indexes'[u].dead \subseteq DOMAIN indexes'[u].vectors
             /\ InStep(indexes'[u], catalog'[u].rows)
             /\ u \notin outdated.indexes => SameKeys(indexes'[u], catalog'[u].rows)
  <2>1. u \in DOMAIN catalog /\ catalog[u].key # "none"
    BY DEF DbInv, IndexInv
  <2>2. CASE u = t
    BY <1>1, <1>2, <2>1, <2>2
  <2>3. CASE u # t
    BY <1>1, <1>2, <2>1, <2>3 DEF DbInv, IndexInv, IndexExact
  <2> QED BY <2>2, <2>3
<1>4. IndexInv' /\ IndexExact'
  BY <1>2, <1>3 DEF IndexInv, IndexExact
<1>5. Recorded'
  BY DEF DbInv, Recorded
<1> QED BY <1>1, <1>4, <1>5 DEF DbInv

\* Inserting a row keeps it.
LEMMA InsertStep ==
  ASSUME DbInv, NEW t \in DOMAIN catalog, NEW new \in NewRows, InsertRow(t, new)
  PROVE  DbInv'
<1> DEFINE tab  == catalog[t]
           dict == IF Known(tab.dict, new.label) THEN tab.dict ELSE Append(tab.dict, new.label)
           row  == [g |-> CodeOf(dict, new.label), v |-> new.v,
                    k |-> IF tab.key = "none" THEN NaN ELSE new.k]
           next == [rows |-> Append(tab.rows, row), dict |-> dict, key |-> tab.key]
           ix   == Extended(indexes[t], row.k)
<1>1. tab \in Table
  BY DEF DbInv, CatalogInv
<1>2. /\ catalog' = [catalog EXCEPT ![t] = next] /\ stats' = [stats EXCEPT ![t] = Stale]
      /\ indexes' = IF t \notin DOMAIN indexes THEN indexes ELSE [indexes EXCEPT ![t] = ix]
      /\ UNCHANGED outdated
  BY DEF InsertRow
<1>3. dict \in Seq(Labels) /\ \E g \in DOMAIN dict : dict[g] = new.label
  <2>1. new.label \in Labels
    BY DEF Labels
  <2>2. CASE Known(tab.dict, new.label)
    BY <1>1, <2>2, TableFields DEF Known
  <2>3. CASE ~Known(tab.dict, new.label)
    <3>1. /\ Append(tab.dict, new.label) \in Seq(Labels)
          /\ DOMAIN Append(tab.dict, new.label) = 1..(Len(tab.dict) + 1)
          /\ Append(tab.dict, new.label)[Len(tab.dict) + 1] = new.label
      BY <1>1, <2>1, TableFields, AppendProperties
    <3>2. Len(tab.dict) + 1 \in 1..(Len(tab.dict) + 1)
      BY <1>1, TableFields
    <3> QED BY <2>3, <3>1, <3>2
  <2> QED BY <2>2, <2>3
<1> HIDE DEF dict
<1>4. CodeOf(dict, new.label) \in Nat
  <2>1. CodeOf(dict, new.label) \in DOMAIN dict
    BY <1>3 DEF CodeOf
  <2> QED BY <1>3, <2>1, LenProperties
<1>5. row \in DbRow
  BY <1>4, DatabaseAssumption DEF DbRow, Scalars
<1> HIDE DEF row
<1>6. next \in Table /\ next.key = tab.key /\ next.rows = Append(tab.rows, row)
  <2>1. Append(tab.rows, row) \in Seq(DbRow)
    BY <1>1, <1>5, TableFields, AppendProperties
  <2> QED BY <1>1, <1>3, <2>1, TableFields DEF Table
<1> HIDE DEF next
<1>7. t \in DOMAIN indexes =>
        /\ ix \in Index /\ InStep(ix, next.rows) /\ ix.dead \subseteq DOMAIN ix.vectors
        /\ t \notin outdated.indexes => SameKeys(ix, next.rows)
  <2> SUFFICES ASSUME t \in DOMAIN indexes
               PROVE  /\ ix \in Index /\ InStep(ix, next.rows)
                      /\ ix.dead \subseteq DOMAIN ix.vectors
                      /\ t \notin outdated.indexes => SameKeys(ix, next.rows)
    OBVIOUS
  <2>1. /\ indexes[t] \in Index /\ InStep(indexes[t], tab.rows)
        /\ indexes[t].dead \subseteq DOMAIN indexes[t].vectors
        /\ t \notin outdated.indexes => SameKeys(indexes[t], tab.rows)
    BY DEF DbInv, IndexInv, IndexExact
  <2> QED BY <1>1, <1>5, <1>6, <2>1, TableFields, ExtendedInStep
<1> HIDE DEF ix
<1> QED BY <1>2, <1>6, <1>7, WrittenTable

\* Deleting rows keeps it.
LEMMA DeleteStep ==
  ASSUME DbInv, NEW t \in DOMAIN catalog, NEW p, DeleteWhere(t, p)
  PROVE  DbInv'
<1> DEFINE tab    == catalog[t]
           doomed == {i \in DOMAIN tab.rows : Holds(p, tab.rows[i])}
           rest   == Select(tab.rows, DOMAIN tab.rows \ doomed)
           next   == [tab EXCEPT !.rows = rest]
           ix     == Remap(indexes[t], doomed)
<1>1. tab \in Table
  BY DEF DbInv, CatalogInv
<1>2. /\ catalog' = [catalog EXCEPT ![t] = next] /\ stats' = [stats EXCEPT ![t] = Stale]
      /\ indexes' = IF t \notin DOMAIN indexes THEN indexes ELSE [indexes EXCEPT ![t] = ix]
      /\ UNCHANGED outdated
  BY DEF DeleteWhere
<1>3. doomed \in SUBSET (DOMAIN tab.rows)
  OBVIOUS
<1> HIDE DEF doomed
<1>4. rest \in Seq(DbRow)
  <2>1. DOMAIN tab.rows \ doomed \in SUBSET (DOMAIN tab.rows)
    OBVIOUS
  <2> QED BY <1>1, <2>1, TableFields, SelectType
<1>5. next \in Table /\ next.key = tab.key /\ next.rows = rest
  <2> HIDE DEF rest
  <2> QED BY <1>1, <1>4 DEF Table
<1> HIDE DEF next
<1>6. t \in DOMAIN indexes =>
        /\ ix \in Index /\ InStep(ix, next.rows) /\ ix.dead \subseteq DOMAIN ix.vectors
        /\ t \notin outdated.indexes => SameKeys(ix, next.rows)
  <2> SUFFICES ASSUME t \in DOMAIN indexes
               PROVE  /\ ix \in Index /\ InStep(ix, next.rows)
                      /\ ix.dead \subseteq DOMAIN ix.vectors
                      /\ t \notin outdated.indexes => SameKeys(ix, next.rows)
    OBVIOUS
  <2>1. /\ indexes[t] \in Index /\ InStep(indexes[t], tab.rows)
        /\ indexes[t].dead \subseteq DOMAIN indexes[t].vectors
        /\ t \notin outdated.indexes => SameKeys(indexes[t], tab.rows)
    BY DEF DbInv, IndexInv, IndexExact
  <2> QED BY <1>1, <1>3, <1>5, <2>1, TableFields, RemapInStep
<1> HIDE DEF ix
<1> QED BY <1>2, <1>5, <1>6, WrittenTable

\* A query keeps it: it may only bring the statistics of its table up to date.
LEMMA RunStep ==
  ASSUME DbInv, NEW q \in Queries, q.table \in DOMAIN catalog, Run(q)
  PROVE  DbInv'
<1> DEFINE t     == q.table
           fresh == IF stats[t] = Stale THEN CollectStats(catalog[t]) ELSE stats[t]
<1>1. UNCHANGED << catalog, indexes, outdated >> /\ stats' \in {stats, [stats EXCEPT ![t] = fresh]}
  BY DEF Run
<1>2. IndexInv' /\ IndexExact' /\ Recorded'
  BY <1>1 DEF DbInv, IndexInv, IndexExact, Recorded
<1>3. DOMAIN stats = DOMAIN catalog /\ \A u \in DOMAIN catalog : stats[u] \in {Stale, CollectStats(catalog[u])}
  BY DEF DbInv, CatalogInv, StatsFresh
<1>4. fresh \in {Stale, CollectStats(catalog[t])}
  BY <1>3
<1> HIDE DEF fresh
<1>5. /\ DOMAIN stats' = DOMAIN stats
      /\ \A u \in DOMAIN stats : stats'[u] \in {stats[u], IF u = t THEN fresh ELSE stats[u]}
  BY <1>1
<1>6. stats' = [u \in DOMAIN catalog' |-> stats'[u]]
  BY <1>1, <1>3 DEF DbInv, CatalogInv
<1>7. CatalogInv'
  BY <1>1, <1>6 DEF DbInv, CatalogInv
<1>8. StatsFresh'
  BY <1>1, <1>3, <1>4, <1>5 DEF StatsFresh
<1> QED BY <1>2, <1>7, <1>8 DEF DbInv

\* Every call keeps it.
LEMMA DbInvStep == DbInv /\ [DbNext]_dbVars => DbInv'
<1> SUFFICES ASSUME DbInv, [DbNext]_dbVars PROVE DbInv'
  OBVIOUS
<1>1. CASE UNCHANGED << catalog, stats, indexes, outdated.indexes >> /\ Recorded'
  BY <1>1 DEF DbInv, CatalogInv, IndexInv, StatsFresh, IndexExact
<1>2. CASE Take \/ UNCHANGED dbVars
  BY <1>1, <1>2 DEF Take, dbVars, DbInv, Recorded
<1>3. ASSUME NEW t \in Tables, NEW c \in Contents, Register(t, c) PROVE DbInv'
  BY <1>3, RegisterStep
<1>4. ASSUME NEW t \in DOMAIN catalog,
             \/ \E ks \in [DOMAIN catalog[t].rows -> KeyValues], dtype \in {"F64", "F32"} :
                  AttachKey(t, ks, dtype)
             \/ \E name \in ViewNames, x \in ViewXs, eps \in ViewEps : CreateView(name, t, x, eps)
             \/ CreateIndex(t)
             \/ \E new \in NewRows : InsertRow(t, new)
             \/ \E p \in Preds : DeleteWhere(t, p)
      PROVE  DbInv'
  <2>1. ASSUME NEW ks \in [DOMAIN catalog[t].rows -> KeyValues], NEW dtype \in {"F64", "F32"},
               AttachKey(t, ks, dtype)
        PROVE  DbInv'
    BY <2>1, AttachStep
  <2>2. ASSUME NEW name \in ViewNames, NEW x \in ViewXs, NEW eps \in ViewEps,
               CreateView(name, t, x, eps)
        PROVE  DbInv'
    <3>1. /\ UNCHANGED << catalog, stats, indexes >>
          /\ outdated' = [outdated EXCEPT !.views = @ \ {name}]
      BY <2>2 DEF CreateView
    <3>2. Recorded' /\ outdated'.indexes = outdated.indexes
      BY <3>1 DEF DbInv, Recorded
    <3> QED BY <1>1, <3>1, <3>2
  <2>3. CASE CreateIndex(t)
    BY <2>3, CreateIndexStep
  <2>4. ASSUME NEW new \in NewRows, InsertRow(t, new) PROVE DbInv'
    BY <2>4, InsertStep
  <2>5. ASSUME NEW p \in Preds, DeleteWhere(t, p) PROVE DbInv'
    BY <2>5, DeleteStep
  <2> QED BY <1>4, <2>1, <2>2, <2>3, <2>4, <2>5
<1>5. ASSUME NEW q \in Queries, q.table \in DOMAIN catalog, Run(q) PROVE DbInv'
  BY <1>5, RunStep
<1> QED BY <1>2, <1>3, <1>4, <1>5 DEF DbNext

\* The inductive invariant of the database holds of every behaviour.
THEOREM DbInvariant == DbSpec => []DbInv
BY DbInvInit, DbInvStep, PTL DEF DbSpec

\* Statistics the planner may read are those of the table as it is.
THEOREM StatsFreshHolds == DbSpec => []StatsFresh
<1>1. DbInv => StatsFresh
  BY DEF DbInv
<1> QED BY <1>1, DbInvariant, PTL

\* Row positions and live ids of an index stay the inverse of each other, whatever keys are
\* attached again, and they name the same keys until then.
THEOREM IndexExactHolds == DbSpec => []IndexExact
<1>1. DbInv => IndexExact
  BY DEF DbInv
<1> QED BY <1>1, DbInvariant, PTL

-----------------------------------------------------------------------------
(* The groups of a view.                                                    *)

\* A score and a value for each row, 0 for a value that is NULL.
RecsOf(rows, x) == [r \in DOMAIN rows |-> [s |-> rows[r].k * x,
                                           v |-> IF rows[r].v = NaN THEN 0 ELSE rows[r].v]]

\* The state of a group that holds the rows at K.
GroupOf(grp, rows, K, x, eps) ==
  /\ grp = [sum |-> grp.sum, n |-> grp.n] /\ grp.n = Cardinality(K)
  /\ Anchored(grp.sum, RecsOf(rows, x), K, eps)
  /\ (\E r \in K : rows[r].v = NaN) => grp.sum.num = NaN
  /\ grp.sum.num = NaN => NaN \in WrittenValues

\* Views are over tables with keys, for a query and a temperature there are.
Viewed(x, eps) == x \in ViewXs /\ eps \in ViewEps /\ eps # EpsZero

\* What a table holds was written to it.
Coded(tab) == \A i \in DOMAIN tab.rows :
                /\ tab.rows[i].g \in DOMAIN tab.dict /\ tab.rows[i].v \in WrittenValues
                /\ tab.key # "none" => tab.rows[i].k \in WrittenKeys

CodedInv == \A t \in DOMAIN catalog : Coded(catalog[t])

\* The parts of a view, a group for each of m labels.
Shaped(v, m) ==
  /\ v = [name |-> v.name, table |-> v.table, x |-> v.x, eps |-> v.eps, groups |-> v.groups]
  /\ v.groups = [g \in 1..m |-> v.groups[g]]
  /\ Viewed(v.x, v.eps)

\* A view of the rows at K.
ViewOf(v, rows, K, m) ==
  /\ Shaped(v, m)
  /\ \A g \in 1..m : GroupOf(v.groups[g], rows, InGroup(rows, g) \cap K, v.x, v.eps)

\* A view of a table.
OfTable(v, tab) == tab.key # "none" /\ ViewOf(v, tab.rows, DOMAIN tab.rows, Len(tab.dict))

\* A sequence, of whatever.
Listing(s) == s \in Seq({s[i] : i \in DOMAIN s})

\* The parts of a view.
IsView(v) ==
  v = [name |-> v.name, table |-> v.table, x |-> v.x, eps |-> v.eps, groups |-> v.groups]

\* A view among tables, exact unless its table was given other keys.
Standing(v, tables, old) ==
  /\ IsView(v) /\ v.table \in DOMAIN tables
  /\ v.name \notin old => OfTable(v, tables[v.table])

ViewInv ==
  /\ Listing(views)
  /\ \A i \in DOMAIN views : Standing(views[i], catalog, outdated.views)
-----------------------------------------------------------------------------
(* One row of a group.                                                      *)

\* The rows at K were written to a table with a key column.
AllWritten(rows, K) == K \in SUBSET DOMAIN rows /\ IsFiniteSet(K)
                         /\ \A r \in K : rows[r].v \in WrittenValues /\ rows[r].k \in WrittenKeys

\* Values and keys that get into a table are numbers, or a NULL value.
LEMMA WrittenScalars == WrittenValues \subseteq Int \cup {NaN} /\ WrittenKeys \subseteq Int
<1>1. ASSUME NEW c \in Contents, NEW i \in DOMAIN c.rows
      PROVE  c.rows[i].v \in Scalars
  <2>1. c.rows \in Seq(DbRow)
    BY DatabaseAssumption DEF Table
  <2>2. c.rows[i] \in DbRow
    BY <2>1, ElementOfSeq
  <2> QED BY <2>2 DEF DbRow
<1>2. ASSUME NEW new \in NewRows
      PROVE  new.v \in Scalars
  BY DatabaseAssumption
<1>3. WrittenValues \subseteq Scalars
  BY <1>1, <1>2 DEF WrittenValues
<1> QED BY <1>3, ViewAssumption DEF Scalars

\* The score of a row and its value, or what stands for it.
LEMMA RecordOf ==
  ASSUME NEW rows, NEW K, AllWritten(rows, K), NEW x \in ViewXs, NEW i \in K
  PROVE  /\ RecsOf(rows, x)[i].s = rows[i].k * x
         /\ rows[i].v \in {NaN, RecsOf(rows, x)[i].v} /\ RecsOf(rows, x)[i].v \in Int
         /\ rows[i].k * x \in Int /\ rows[i].v \in Int \cup {NaN}
         /\ (rows[i].v # NaN => RecsOf(rows, x)[i].v = rows[i].v)
<1>1. i \in DOMAIN rows /\ rows[i].v \in Int \cup {NaN} /\ rows[i].k \in Int /\ x \in Int
  BY WrittenScalars, ViewAssumption DEF AllWritten
<1>2. RecsOf(rows, x)[i] = [s |-> rows[i].k * x, v |-> IF rows[i].v = NaN THEN 0 ELSE rows[i].v]
  BY <1>1 DEF RecsOf
<1>3. \A a, b \in Int : a * b \in Int
  OBVIOUS
<1> QED BY <1>1, <1>2, <1>3

\* Written rows have exact weights.
LEMMA WrittenLevel ==
  ASSUME NEW rows, NEW K, AllWritten(rows, K), NEW x, NEW eps, Viewed(x, eps)
  PROVE  Level(RecsOf(rows, x), K, eps) /\ eps \in Nat
<1> DEFINE rs == RecsOf(rows, x)
<1>1. x \in ViewXs /\ eps \in ViewEps /\ eps \in Nat
  BY ViewAssumption DEF Viewed
<1>2. \A i \in K : /\ rs[i].s = rows[i].k * x /\ rs[i].v \in Int /\ rs[i].s \in Int
                   /\ rows[i].k \in WrittenKeys
  BY <1>1, RecordOf DEF AllWritten
<1> HIDE DEF rs
<1>3. \A i \in K : NegInf < rs[i].s /\ rs[i].s < PosInf
  <2> TAKE i \in K
  <2>1. \A k \in WrittenKeys : NegInf < k * x /\ k * x < PosInf
    BY <1>1, ViewAssumption
  <2> QED BY <1>2, <2>1
<1>4. \A i, j \in K : IsSoft(eps) => eps * (rs[i].s - rs[j].s) <= Spread
  <2> TAKE i, j \in K
  <2>1. \A k, h \in WrittenKeys : IsSoft(eps) => eps * (k * x - h * x) <= Spread
    BY <1>1, ViewAssumption
  <2>2. IsSoft(eps) => eps * (rows[i].k * x - rows[j].k * x) <= Spread
    BY <1>2, <2>1
  <2> QED BY <1>2, <2>2
<1>5. \A i \in K : rs[i].s \in NegInf..PosInf /\ rs[i].s # NegInf /\ Finite(rs[i].s)
  BY <1>2, <1>3, InfinityFacts, NotANumber DEF Finite
<1>6. IsFiniteSet(K)
  BY DEF AllWritten
<1>7. Scored(rs, K, eps)
  BY <1>1, <1>2, <1>4, <1>5, <1>6 DEF Scored
<1> QED BY <1>1, <1>5, <1>7 DEF Level, rs

\* A group with no row in it.
LEMMA GroupOfNone ==
  ASSUME NEW rows, NEW x, NEW eps
  PROVE  GroupOf(EmptyGroup, rows, {}, x, eps) /\ EmptyGroup.sum = EmptySum /\ EmptyGroup.n = 0
<1>1. EmptyGroup = [sum |-> EmptySum, n |-> 0] /\ EmptySum = [m |-> NegInf, num |-> 0, den |-> 0]
  BY DEF EmptyGroup, EmptySum
<1>2. EmptyGroup.sum = EmptySum /\ EmptyGroup.n = 0 /\ EmptyGroup = [sum |-> EmptyGroup.sum, n |-> EmptyGroup.n]
      /\ EmptySum.m = NegInf /\ EmptySum.num = 0 /\ EmptySum.den = 0
  BY <1>1
<1>3. Cardinality({}) = 0
  BY FS_EmptySet
<1>4. Anchored(EmptySum, RecsOf(rows, x), {}, eps)
  BY <1>1, <1>2, NoSums DEF Anchored
<1>5. 0 # NaN
  BY NotANumber
<1> QED BY <1>2, <1>3, <1>4, <1>5 DEF GroupOf

\* A row more in a group.
Grown(grp, row, x, eps) == [sum |-> Added(grp.sum, row.k * x, row.v, eps), n |-> grp.n + 1]

\* A group of a view takes a row in.
LEMMA GroupGrown ==
  ASSUME NEW rows, NEW K, NEW i, i \notin K, AllWritten(rows, K \cup {i}), NEW x, NEW eps,
         Viewed(x, eps), NEW grp, GroupOf(grp, rows, K, x, eps)
  PROVE  GroupOf(Grown(grp, rows[i], x, eps), rows, K \cup {i}, x, eps)
<1> DEFINE rs  == RecsOf(rows, x)
           row == rows[i]
           st  == Added(grp.sum, row.k * x, row.v, eps)
<1>1. Level(rs, K \cup {i}, eps)
  BY WrittenLevel
<1>2. rs[i].s = row.k * x /\ row.v \in {NaN, rs[i].v} /\ row.v \in WrittenValues
  BY RecordOf DEF Viewed, AllWritten
<1>3. Anchored(grp.sum, rs, K, eps)
  BY DEF GroupOf
<1> HIDE DEF rs
<1>4. Anchored(Added(grp.sum, rs[i].s, row.v, eps), rs, K \cup {i}, eps)
        /\ NaNFrom(Added(grp.sum, rs[i].s, row.v, eps), grp.sum, row.v)
  BY <1>1, <1>2, <1>3, AddedExact
<1>5. Anchored(st, rs, K \cup {i}, eps) /\ (st.num = NaN <=> NaN \in {grp.sum.num, row.v})
  BY <1>2, <1>4 DEF NaNFrom
<1>6. IsFiniteSet(K) /\ grp.n = Cardinality(K)
  BY FS_Subset DEF AllWritten, GroupOf
<1>7. Cardinality(K \cup {i}) = grp.n + 1
  BY <1>6, FS_AddElement
<1>8. Grown(grp, row, x, eps) = [sum |-> st, n |-> grp.n + 1]
  BY DEF Grown
<1> HIDE DEF st
<1>9. (\E r \in K \cup {i} : rows[r].v = NaN) => st.num = NaN
  BY <1>5 DEF GroupOf
<1>10. st.num = NaN => NaN \in WrittenValues
  BY <1>2, <1>5 DEF GroupOf
<1> DEFINE next == Grown(grp, row, x, eps)
<1>11. next.sum = st /\ next.n = grp.n + 1 /\ next = [sum |-> next.sum, n |-> next.n]
  BY <1>8
<1> HIDE DEF next
<1>12. GroupOf(next, rows, K \cup {i}, x, eps)
  BY <1>5, <1>7, <1>9, <1>10, <1>11 DEF GroupOf, rs
<1> QED BY <1>12 DEF next

\* A row less, one that does not tie the anchor.
Shrunk(grp, row, x, eps) ==
  [sum |-> Subtracted(grp.sum, row.k * x, row.v, eps), n |-> Larger(grp.n - 1, 0)]

\* A group of a view loses a row.
LEMMA GroupShrunk ==
  ASSUME NEW rows, NEW K, NEW i \in K, AllWritten(rows, K), NEW x, NEW eps,
         Viewed(x, eps), NEW grp, GroupOf(grp, rows, K, x, eps),
         ~ Anchors(grp.sum, rows[i].k * x)
  PROVE  GroupOf(Shrunk(grp, rows[i], x, eps), rows, K \ {i}, x, eps)
<1> DEFINE rs  == RecsOf(rows, x)
           row == rows[i]
           st  == Subtracted(grp.sum, row.k * x, row.v, eps)
<1>1. Level(rs, K, eps)
  BY WrittenLevel
<1>2. rs[i].s = row.k * x /\ row.v \in {NaN, rs[i].v} /\ row.v \in WrittenValues
  BY RecordOf DEF Viewed, AllWritten
<1>3. Anchored(grp.sum, rs, K, eps)
  BY DEF GroupOf
<1> HIDE DEF rs
<1>a. ~ Anchors(grp.sum, rs[i].s)
  BY <1>2
<1>b. TakenOff(Subtracted(grp.sum, rs[i].s, row.v, eps), grp.sum, rs, K, i, row.v, eps)
  BY <1>1, <1>2, <1>3, <1>a, SubtractedExact
<1>4. Anchored(Subtracted(grp.sum, rs[i].s, row.v, eps), rs, K \ {i}, eps)
        /\ NaNFrom(Subtracted(grp.sum, rs[i].s, row.v, eps), grp.sum, row.v)
  BY <1>b DEF TakenOff
<1>5. Anchored(st, rs, K \ {i}, eps) /\ (st.num = NaN <=> NaN \in {grp.sum.num, row.v})
  BY <1>2, <1>4 DEF NaNFrom
<1>6. IsFiniteSet(K) /\ grp.n = Cardinality(K) /\ grp.n \in Nat
  BY FS_CardinalityType DEF AllWritten, GroupOf
<1>7. Cardinality(K \ {i}) = Larger(grp.n - 1, 0)
  <2>1. Cardinality(K \ {i}) = grp.n - 1 /\ IsFiniteSet(K \ {i})
    BY <1>6, FS_RemoveElement
  <2>2. Cardinality(K \ {i}) \in Nat
    BY <2>1, FS_CardinalityType
  <2> QED BY <1>6, <2>1, <2>2 DEF Larger
<1>8. Shrunk(grp, row, x, eps) = [sum |-> st, n |-> Larger(grp.n - 1, 0)]
  BY DEF Shrunk
<1> HIDE DEF st
<1>9. (\E r \in K \ {i} : rows[r].v = NaN) => st.num = NaN
  BY <1>5 DEF GroupOf
<1>10. st.num = NaN => NaN \in WrittenValues
  BY <1>2, <1>5 DEF GroupOf
<1> DEFINE next == Shrunk(grp, row, x, eps)
<1>11. next.sum = st /\ next.n = Larger(grp.n - 1, 0) /\ next = [sum |-> next.sum, n |-> next.n]
  BY <1>8
<1> HIDE DEF next
<1>12. GroupOf(next, rows, K \ {i}, x, eps)
  BY <1>5, <1>7, <1>9, <1>10, <1>11 DEF GroupOf, rs
<1> QED BY <1>12 DEF next

-----------------------------------------------------------------------------
(* Folds along a sequence, one step at a time.                              *)

\* The greatest of a set of positions.
LEMMA GreatestFacts ==
  ASSUME NEW n \in Nat, NEW U \in SUBSET (1..n), U # {}
  PROVE  /\ Max(U) \in U
         /\ \A T \in SUBSET U : Max(U) \in T => Max(T) = Max(U)
<1>1. \A T \in SUBSET U : T # {} => Max(T) \in T /\ \A y \in T : Max(T) >= y
  <2> TAKE T \in SUBSET U
  <2> SUFFICES ASSUME T # {} PROVE Max(T) \in T /\ \A y \in T : Max(T) >= y
    OBVIOUS
  <2> DEFINE D == {n - k : k \in T}
  <2>1. \A k \in T : k \in 1..n /\ n - k \in Nat
    OBVIOUS
  <2>2. D \in SUBSET Nat /\ D # {}
    BY <2>1
  <2> HIDE DEF D
  <2>3. PICK d \in D : \A e \in D : d <= e
    BY <2>2, LeastNumber
  <2>4. PICK k \in T : d = n - k
    BY <2>3 DEF D
  <2>5. ASSUME NEW j \in T PROVE k >= j
    <3>1. n - j \in D
      BY DEF D
    <3>2. n - k <= n - j
      BY <2>3, <2>4, <3>1
    <3> QED BY <2>1, <3>2
  <2> QED BY <2>5 DEF Max
<1>2. ASSUME NEW T \in SUBSET U, Max(U) \in T
      PROVE  Max(T) = Max(U)
  <2>1. Max(T) \in T /\ \A y \in T : Max(T) >= y
    BY <1>1, <1>2
  <2>2. Max(U) \in U /\ \A y \in U : Max(U) >= y
    BY <1>1
  <2> DEFINE a == Max(T)
             b == Max(U)
  <2> HIDE DEF a, b
  <2>3. a \in 1..n /\ b \in 1..n /\ a >= b /\ b >= a
    BY <1>2, <2>1, <2>2 DEF a, b
  <2>4. a = b
    BY <2>3
  <2> QED BY <2>4 DEF a, b
<1> QED BY <1>1, <1>2

\* The greatest of those up to one.
LEMMA GreatestUpTo ==
  ASSUME NEW n \in Nat, NEW j \in 1..n
  PROVE  Max(1..j) = j /\ (1..j) \ {j} = 1..(j - 1) /\ 1..j \in SUBSET (1..n) /\ 1..j # {}
<1>1. Max(1..j) \in 1..j /\ \A y \in 1..j : Max(1..j) >= y
  <2>1. j \in 1..j /\ \A y \in 1..j : j >= y
    OBVIOUS
  <2> QED BY <2>1 DEF Max
<1>2. j \in 1..j
  OBVIOUS
<1> QED BY <1>1, <1>2

\* The rows of l inserted into a view in order.
InsertedAlong(l, base) == FoldLeft(ApplyInsert, base, l)

\* A function that inserts the rows of l into a view, along the subsets of U.
InsertsAlong(h, U, base, l) ==
  h = [T \in SUBSET U |-> IF T = {} THEN base
                          ELSE ApplyInsert(h[T \ {Max(T)}], l[Max(T)])]

\* The views on the way from one to the other.
LEMMA InsertsInOrder ==
  ASSUME NEW n \in Nat, NEW l, DOMAIN l = 1..n, NEW base
  PROVE  \E c : /\ c[0] = base /\ c[n] = InsertedAlong(l, base)
               /\ \A j \in 1..n : c[j] = ApplyInsert(c[j - 1], l[j])
<1> DEFINE C == {U \in SUBSET (1..n) : \E h : InsertsAlong(h, U, base, l)}
<1>1. ASSUME NEW U \in SUBSET (1..n), \A V \in SUBSET U : V # U => V \in C
      PROVE  U \in C
  <2>1. CASE U = {}
    <3>1. InsertsAlong([T \in SUBSET U |-> base], U, base, l)
      BY <2>1 DEF InsertsAlong
    <3> QED BY <3>1
  <2>2. CASE U # {}
    <3> DEFINE top == Max(U)
               V == U \ {top}
    <3>1. top \in U /\ \A T \in SUBSET U : top \in T => Max(T) = top
      BY <2>2, GreatestFacts
    <3>2. V \in C
      BY <1>1, <3>1
    <3>3. PICK h : InsertsAlong(h, V, base, l)
      BY <3>2
    <3> DEFINE at(T) == IF top \notin T THEN h[T] ELSE ApplyInsert(h[T \ {top}], l[top])
               g == [T \in SUBSET U |-> at(T)]
    <3> HIDE DEF top
    <3>4. ASSUME NEW T \in SUBSET U
          PROVE  g[T] = IF T = {} THEN base ELSE ApplyInsert(g[T \ {Max(T)}], l[Max(T)])
      <4>1. CASE top \notin T
        <5>1. T \in SUBSET V /\ g[T] = h[T]
          BY <4>1
        <5>2. h[T] = IF T = {} THEN base ELSE ApplyInsert(h[T \ {Max(T)}], l[Max(T)])
          BY <3>3, <5>1 DEF InsertsAlong
        <5>3. g[T \ {Max(T)}] = h[T \ {Max(T)}]
          BY <4>1
        <5> QED BY <5>1, <5>2, <5>3
      <4>2. CASE top \in T
        <5>1. Max(T) = top /\ T # {}
          BY <3>1, <4>2
        <5>2. g[T \ {top}] = h[T \ {top}]
          OBVIOUS
        <5>3. g[T] = ApplyInsert(h[T \ {top}], l[top])
          BY <4>2
        <5> QED BY <5>1, <5>2, <5>3
      <4> QED BY <4>1, <4>2
    <3>5. g = [T \in SUBSET U |-> g[T]]
      OBVIOUS
    <3> HIDE DEF g
    <3>6. InsertsAlong(g, U, base, l)
      BY <3>4, <3>5 DEF InsertsAlong
    <3> QED BY <3>6
  <2> QED BY <2>1, <2>2
<1>2. IsFiniteSet(1..n)
  BY FS_Interval
<1> HIDE DEF C
<1>3. \A U \in SUBSET (1..n) : U \in C
  BY <1>1, <1>2, SubsetInduct
<1> DEFINE iter == CHOOSE h : InsertsAlong(h, 1..n, base, l)
<1>4. InsertsAlong(iter, 1..n, base, l)
  <2>1. 1..n \in C
    BY <1>3
  <2>2. \E h : InsertsAlong(h, 1..n, base, l)
    BY <2>1 DEF C
  <2> QED BY <2>2
<1>5. InsertedAlong(l, base) = iter[1..n]
  BY DEF InsertedAlong, FoldLeft, MapThenFoldSet, InsertsAlong
<1> HIDE DEF iter
<1> DEFINE c == [j \in 0..n |-> iter[1..j]]
<1>6. c[0] = base
  <2>1. 1..0 = {} /\ {} \in SUBSET (1..n)
    OBVIOUS
  <2>2. iter[{}] = base
    BY <1>4 DEF InsertsAlong
  <2> QED BY <2>1, <2>2
<1>7. ASSUME NEW j \in 1..n
      PROVE  c[j] = ApplyInsert(c[j - 1], l[j])
  <2>1. iter[1..j] = ApplyInsert(iter[(1..j) \ {Max(1..j)}], l[Max(1..j)])
    BY <1>4, GreatestUpTo DEF InsertsAlong
  <2>2. iter[1..j] = ApplyInsert(iter[1..(j - 1)], l[j])
    BY <2>1, GreatestUpTo
  <2>3. c[j] = iter[1..j] /\ c[j - 1] = iter[1..(j - 1)]
    OBVIOUS
  <2> QED BY <2>2, <2>3
<1>8. c[n] = iter[1..n]
  OBVIOUS
<1> QED BY <1>5, <1>6, <1>7, <1>8

\* The sums of the rows of l, added to base in order.
SumAlong(l, base, x, eps) == FoldLeft(LAMBDA st, r : Added(st, r.k * x, r.v, eps), base, l)

\* A function that adds the rows of l to the sums.
AddsAlong(h, U, x, eps, base, l) ==
  h = [T \in SUBSET U |-> IF T = {} THEN base
                          ELSE Added(h[T \ {Max(T)}], l[Max(T)].k * x, l[Max(T)].v, eps)]

\* The sums on the way.
AddsTo(c, n, l, base, x, eps) ==
  /\ c[0] = base /\ c[n] = SumAlong(l, base, x, eps)
  /\ \A j \in 1..n : c[j] = Added(c[j - 1], l[j].k * x, l[j].v, eps)

\* There are such sums.
LEMMA AddsInOrder ==
  ASSUME NEW n \in Nat, NEW l, DOMAIN l = 1..n, NEW base, NEW x, NEW eps
  PROVE  \E c : AddsTo(c, n, l, base, x, eps)
<1> DEFINE C == {U \in SUBSET (1..n) : \E h : AddsAlong(h, U, x, eps, base, l)}
<1>1. ASSUME NEW U \in SUBSET (1..n), \A V \in SUBSET U : V # U => V \in C
      PROVE  U \in C
  <2>1. CASE U = {}
    <3>1. AddsAlong([T \in SUBSET U |-> base], U, x, eps, base, l)
      BY <2>1 DEF AddsAlong
    <3> QED BY <3>1
  <2>2. CASE U # {}
    <3> DEFINE top == Max(U)
               V == U \ {top}
    <3>1. top \in U /\ \A T \in SUBSET U : top \in T => Max(T) = top
      BY <2>2, GreatestFacts
    <3>2. V \in C
      BY <1>1, <3>1
    <3>3. PICK h : AddsAlong(h, V, x, eps, base, l)
      BY <3>2
    <3> DEFINE at(T) == IF top \notin T THEN h[T] ELSE Added(h[T \ {top}], l[top].k * x, l[top].v, eps)
               g == [T \in SUBSET U |-> at(T)]
    <3> HIDE DEF top
    <3>4. ASSUME NEW T \in SUBSET U
          PROVE  g[T] = IF T = {} THEN base ELSE Added(g[T \ {Max(T)}], l[Max(T)].k * x, l[Max(T)].v, eps)
      <4>1. CASE top \notin T
        <5>1. T \in SUBSET V /\ g[T] = h[T]
          BY <4>1
        <5>2. h[T] = IF T = {} THEN base ELSE Added(h[T \ {Max(T)}], l[Max(T)].k * x, l[Max(T)].v, eps)
          BY <3>3, <5>1 DEF AddsAlong
        <5>3. g[T \ {Max(T)}] = h[T \ {Max(T)}]
          BY <4>1
        <5> QED BY <5>1, <5>2, <5>3
      <4>2. CASE top \in T
        <5>1. Max(T) = top /\ T # {}
          BY <3>1, <4>2
        <5>2. g[T \ {top}] = h[T \ {top}]
          OBVIOUS
        <5>3. g[T] = Added(h[T \ {top}], l[top].k * x, l[top].v, eps)
          BY <4>2
        <5> QED BY <5>1, <5>2, <5>3
      <4> QED BY <4>1, <4>2
    <3>5. g = [T \in SUBSET U |-> g[T]]
      OBVIOUS
    <3> HIDE DEF g
    <3>6. AddsAlong(g, U, x, eps, base, l)
      BY <3>4, <3>5 DEF AddsAlong
    <3> QED BY <3>6
  <2> QED BY <2>1, <2>2
<1>2. IsFiniteSet(1..n)
  BY FS_Interval
<1> HIDE DEF C
<1>3. \A U \in SUBSET (1..n) : U \in C
  BY <1>1, <1>2, SubsetInduct
<1> DEFINE iter == CHOOSE h : AddsAlong(h, 1..n, x, eps, base, l)
<1>4. AddsAlong(iter, 1..n, x, eps, base, l)
  <2>1. 1..n \in C
    BY <1>3
  <2>2. \E h : AddsAlong(h, 1..n, x, eps, base, l)
    BY <2>1 DEF C
  <2> QED BY <2>2
<1>5. SumAlong(l, base, x, eps) = iter[1..n]
  BY DEF SumAlong, FoldLeft, MapThenFoldSet, AddsAlong
<1> HIDE DEF iter
<1> DEFINE c == [j \in 0..n |-> iter[1..j]]
<1>6. c[0] = base
  <2>1. 1..0 = {} /\ {} \in SUBSET (1..n)
    OBVIOUS
  <2>2. iter[{}] = base
    BY <1>4 DEF AddsAlong
  <2> QED BY <2>1, <2>2
<1>7. ASSUME NEW j \in 1..n
      PROVE  c[j] = Added(c[j - 1], l[j].k * x, l[j].v, eps)
  <2>1. iter[1..j] = Added(iter[(1..j) \ {Max(1..j)}], l[Max(1..j)].k * x, l[Max(1..j)].v, eps)
    BY <1>4, GreatestUpTo DEF AddsAlong
  <2>2. iter[1..j] = Added(iter[1..(j - 1)], l[j].k * x, l[j].v, eps)
    BY <2>1, GreatestUpTo
  <2>3. c[j] = iter[1..j] /\ c[j - 1] = iter[1..(j - 1)]
    OBVIOUS
  <2> QED BY <2>2, <2>3
<1>8. c[n] = iter[1..n]
  OBVIOUS
<1> HIDE DEF c
<1>9. AddsTo(c, n, l, base, x, eps)
  BY <1>5, <1>6, <1>7, <1>8 DEF AddsTo
<1> QED BY <1>9

\* The rows of l deleted from a view in order.
DeletedAlong(l, base, rest) == FoldLeft(LAMBDA acc, r : DeleteRow(acc, r, rest), base, l)

\* A function that deletes the rows of l from a view.
DeletesAlong(h, U, rest, base, l) ==
  h = [T \in SUBSET U |-> IF T = {} THEN base
                          ELSE DeleteRow(h[T \ {Max(T)}], l[Max(T)], rest)]

\* The views on the way, and what is settled.
DeletesTo(c, n, l, base, rest) ==
  /\ c[0] = base /\ c[n] = DeletedAlong(l, base, rest)
  /\ \A j \in 1..n : c[j] = DeleteRow(c[j - 1], l[j], rest)

\* There are such views.
LEMMA DeletesInOrder ==
  ASSUME NEW n \in Nat, NEW l, DOMAIN l = 1..n, NEW base, NEW rest
  PROVE  \E c : DeletesTo(c, n, l, base, rest)
<1> DEFINE C == {U \in SUBSET (1..n) : \E h : DeletesAlong(h, U, rest, base, l)}
<1>1. ASSUME NEW U \in SUBSET (1..n), \A V \in SUBSET U : V # U => V \in C
      PROVE  U \in C
  <2>1. CASE U = {}
    <3>1. DeletesAlong([T \in SUBSET U |-> base], U, rest, base, l)
      BY <2>1 DEF DeletesAlong
    <3> QED BY <3>1
  <2>2. CASE U # {}
    <3> DEFINE top == Max(U)
               V == U \ {top}
    <3>1. top \in U /\ \A T \in SUBSET U : top \in T => Max(T) = top
      BY <2>2, GreatestFacts
    <3>2. V \in C
      BY <1>1, <3>1
    <3>3. PICK h : DeletesAlong(h, V, rest, base, l)
      BY <3>2
    <3> DEFINE at(T) == IF top \notin T THEN h[T] ELSE DeleteRow(h[T \ {top}], l[top], rest)
               g == [T \in SUBSET U |-> at(T)]
    <3> HIDE DEF top
    <3>4. ASSUME NEW T \in SUBSET U
          PROVE  g[T] = IF T = {} THEN base ELSE DeleteRow(g[T \ {Max(T)}], l[Max(T)], rest)
      <4>1. CASE top \notin T
        <5>1. T \in SUBSET V /\ g[T] = h[T]
          BY <4>1
        <5>2. h[T] = IF T = {} THEN base ELSE DeleteRow(h[T \ {Max(T)}], l[Max(T)], rest)
          BY <3>3, <5>1 DEF DeletesAlong
        <5>3. g[T \ {Max(T)}] = h[T \ {Max(T)}]
          BY <4>1
        <5> QED BY <5>1, <5>2, <5>3
      <4>2. CASE top \in T
        <5>1. Max(T) = top /\ T # {}
          BY <3>1, <4>2
        <5>2. g[T \ {top}] = h[T \ {top}]
          OBVIOUS
        <5>3. g[T] = DeleteRow(h[T \ {top}], l[top], rest)
          BY <4>2
        <5> QED BY <5>1, <5>2, <5>3
      <4> QED BY <4>1, <4>2
    <3>5. g = [T \in SUBSET U |-> g[T]]
      OBVIOUS
    <3> HIDE DEF g
    <3>6. DeletesAlong(g, U, rest, base, l)
      BY <3>4, <3>5 DEF DeletesAlong
    <3> QED BY <3>6
  <2> QED BY <2>1, <2>2
<1>2. IsFiniteSet(1..n)
  BY FS_Interval
<1> HIDE DEF C
<1>3. \A U \in SUBSET (1..n) : U \in C
  BY <1>1, <1>2, SubsetInduct
<1> DEFINE iter == CHOOSE h : DeletesAlong(h, 1..n, rest, base, l)
<1>4. DeletesAlong(iter, 1..n, rest, base, l)
  <2>1. 1..n \in C
    BY <1>3
  <2>2. \E h : DeletesAlong(h, 1..n, rest, base, l)
    BY <2>1 DEF C
  <2> QED BY <2>2
<1>5. DeletedAlong(l, base, rest) = iter[1..n]
  BY DEF DeletedAlong, FoldLeft, MapThenFoldSet, DeletesAlong
<1> HIDE DEF iter
<1> DEFINE c == [j \in 0..n |-> iter[1..j]]
<1>6. c[0] = base
  <2>1. 1..0 = {} /\ {} \in SUBSET (1..n)
    OBVIOUS
  <2>2. iter[{}] = base
    BY <1>4 DEF DeletesAlong
  <2> QED BY <2>1, <2>2
<1>7. ASSUME NEW j \in 1..n
      PROVE  c[j] = DeleteRow(c[j - 1], l[j], rest)
  <2>1. iter[1..j] = DeleteRow(iter[(1..j) \ {Max(1..j)}], l[Max(1..j)], rest)
    BY <1>4, GreatestUpTo DEF DeletesAlong
  <2>2. iter[1..j] = DeleteRow(iter[1..(j - 1)], l[j], rest)
    BY <2>1, GreatestUpTo
  <2>3. c[j] = iter[1..j] /\ c[j - 1] = iter[1..(j - 1)]
    OBVIOUS
  <2> QED BY <2>2, <2>3
<1>8. c[n] = iter[1..n]
  OBVIOUS
<1> HIDE DEF c
<1>9. DeletesTo(c, n, l, base, rest)
  BY <1>5, <1>6, <1>7, <1>8 DEF DeletesTo
<1> QED BY <1>9

-----------------------------------------------------------------------------
(* Rows that move, and groups that are built row by row.                    *)

\* A claim about the counts up to n holds if it holds of 0 and goes from each to the next.
LEMMA CountUp ==
  ASSUME NEW n \in Nat, NEW C, 0 \in C, \A j \in 1..n : j - 1 \in C => j \in C
  PROVE  \A j \in 0..n : j \in C
<1> SUFFICES ASSUME NEW j \in 0..n, j \notin C PROVE FALSE
  OBVIOUS
<1> DEFINE bad == {k \in 0..n : k \notin C}
<1>1. bad \in SUBSET Nat /\ bad # {}
  OBVIOUS
<1>2. PICK k \in bad : \A e \in bad : k <= e
  <2> HIDE DEF bad
  <2> QED BY <1>1, LeastNumber
<1>3. k \in 1..n /\ k - 1 \in 0..n /\ k \notin C
  OBVIOUS
<1>4. k - 1 \in bad
  BY <1>3
<1>5. k <= k - 1
  BY <1>2, <1>4
<1> QED BY <1>3, <1>5

\* The first j places of a selection at K.
PlacedUpTo(K, j) == {Place(K, r) : r \in 1..j}

\* They grow by one at a time.
LEMMA PlacedFacts ==
  ASSUME NEW m \in Nat, NEW K \in SUBSET (1..m), NEW d, d = Cardinality(K)
  PROVE  /\ d \in Nat /\ PlacedUpTo(K, 0) = {} /\ PlacedUpTo(K, d) = K
         /\ \A j \in 1..d : /\ Place(K, j) \in K /\ Place(K, j) \notin PlacedUpTo(K, j - 1)
                            /\ PlacedUpTo(K, j) = PlacedUpTo(K, j - 1) \cup {Place(K, j)}
                            /\ PlacedUpTo(K, j) \in SUBSET K
<1>1. /\ d \in Nat
      /\ \A r \in 1..d : Place(K, r) \in K
      /\ \A r, q \in 1..d : Place(K, r) = Place(K, q) => r = q
      /\ \A n \in K : \E r \in 1..d : Place(K, r) = n
  <2>1. Cardinality(K) \in Nat
    BY RankFacts
  <2>2. /\ \A r \in 1..Cardinality(K) : Place(K, r) \in K
        /\ \A r, q \in 1..Cardinality(K) : Place(K, r) = Place(K, q) => r = q
        /\ \A n \in K : \E r \in 1..Cardinality(K) : Place(K, r) = n
    BY PlacesOfSet
  <2> QED BY <2>1, <2>2
<1>2. PlacedUpTo(K, 0) = {} /\ PlacedUpTo(K, d) = K
  <2>1. 1..0 = {}
    OBVIOUS
  <2>2. {Place(K, r) : r \in {}} = {}
    OBVIOUS
  <2> DEFINE J == 1..d
  <2> HIDE DEF J
  <2>3. {Place(K, r) : r \in J} = K
    <3>1. \A r \in J : Place(K, r) \in K
      BY <1>1 DEF J
    <3>2. \A n \in K : \E r \in J : Place(K, r) = n
      BY <1>1 DEF J
    <3> QED BY <3>1, <3>2
  <2> QED BY <2>1, <2>2, <2>3 DEF PlacedUpTo, J
<1>3. ASSUME NEW j \in 1..d
      PROVE  /\ Place(K, j) \notin PlacedUpTo(K, j - 1)
             /\ PlacedUpTo(K, j) = PlacedUpTo(K, j - 1) \cup {Place(K, j)}
             /\ PlacedUpTo(K, j) \in SUBSET K
  <2>1. 1..j = (1..(j - 1)) \cup {j} /\ j \notin 1..(j - 1) /\ 1..j \in SUBSET (1..d)
          /\ 1..(j - 1) \in SUBSET (1..d)
    BY <1>1
  <2> DEFINE J == 1..(j - 1)
  <2> HIDE DEF J
  <2>2. Place(K, j) \notin {Place(K, r) : r \in J}
    BY <1>1, <2>1 DEF J
  <2>3. {Place(K, r) : r \in J \cup {j}} = {Place(K, r) : r \in J} \cup {Place(K, j)}
    OBVIOUS
  <2>4. {Place(K, r) : r \in 1..j} \in SUBSET K
    BY <1>1, <2>1
  <2> QED BY <2>1, <2>2, <2>3, <2>4 DEF PlacedUpTo, J
<1> QED BY <1>1, <1>2, <1>3

\* The rows at K are those of rest at S, under other positions.
Moves(at, rows, K, rest, S) ==
  /\ S \in SUBSET DOMAIN rest /\ IsFiniteSet(S) /\ OneToOne(at, S) /\ Through(at, S) = K
  /\ \A r \in S : rest[r] = rows[at[r]]

\* A group is one of the rows it holds, wherever in a table they are.
LEMMA GroupMoved ==
  ASSUME NEW rows, NEW K, AllWritten(rows, K), NEW x, NEW eps, Viewed(x, eps),
         NEW grp, GroupOf(grp, rows, K, x, eps),
         NEW rest, NEW S, NEW at, Moves(at, rows, K, rest, S)
  PROVE  GroupOf(grp, rest, S, x, eps)
<1>0. /\ S \in SUBSET DOMAIN rest /\ IsFiniteSet(S) /\ OneToOne(at, S) /\ Through(at, S) = K
      /\ \A r \in S : rest[r] = rows[at[r]]
  BY DEF Moves
<1> DEFINE rs == RecsOf(rows, x)
           l  == RecsOf(rest, x)
           st == grp.sum
<1>1. \A r \in S : at[r] \in K /\ at[r] \in DOMAIN rows
  BY <1>0 DEF Through, AllWritten
<1>2. \A r \in S : l[r] = rs[at[r]]
  BY <1>0, <1>1 DEF RecsOf
<1>3. Level(rs, K, eps) /\ Anchored(st, rs, K, eps)
  BY WrittenLevel DEF GroupOf
<1>4. S = {} <=> K = {}
  BY <1>0 DEF Through
<1>5. \A i \in K : \E r \in S : at[r] = i
  BY <1>0 DEF Through
<1> HIDE DEF rs, l
<1>6. TopOf(l, S) = TopOf(rs, K)
  <2>1. {l[r].s : r \in S} = {rs[i].s : i \in K}
    BY <1>1, <1>2, <1>5
  <2> QED BY <2>1 DEF TopOf
<1>7. ZAt(l, S, st.m, eps) = ZAt(rs, K, st.m, eps) /\ UAt(l, S, st.m, eps) = UAt(rs, K, st.m, eps)
  <2>1. CASE K = {}
    BY <1>4, <2>1, NoSums
  <2>2. CASE K # {}
    <3>1. st.m = TopOf(rs, K)
      BY <1>3, <2>2 DEF Anchored
    <3>2. HasWeights(rs, K, st.m, eps)
      BY <1>3, <2>2, <3>1, LevelFacts
    <3> QED BY <1>0, <1>2, <3>2, SumsVia
  <2> QED BY <2>1, <2>2
<1>8. Anchored(st, l, S, eps)
  BY <1>3, <1>4, <1>6, <1>7 DEF Anchored
<1>9. Cardinality(S) = Cardinality(K)
  <2> DEFINE h == [r \in S |-> at[r]]
  <2>1. h \in Bijection(S, K)
    BY <1>0, <1>1, <1>5 DEF Bijection, Injection, Surjection, OneToOne, IsInjective
  <2>2. ExistsBijection(S, K)
    BY <2>1 DEF ExistsBijection
  <2> QED BY <1>0, <2>2, FS_Bijection
<1>10. (\E r \in S : rest[r].v = NaN) => grp.sum.num = NaN
  BY <1>0, <1>1 DEF GroupOf
<1> QED BY <1>8, <1>9, <1>10 DEF GroupOf, l

\* A part of what was written was written.
LEMMA WrittenPart ==
  ASSUME NEW rows, NEW K, AllWritten(rows, K)
  PROVE  \A R \in SUBSET K : AllWritten(rows, R)
BY FS_Subset DEF AllWritten

\* A group anchored anew is that of the rows that stay.
LEMMA ReanchoredExact ==
  ASSUME NEW S, NEW rest \in Seq(S), AllWritten(rest, DOMAIN rest), NEW g, NEW v,
         Viewed(v.x, v.eps)
  PROVE  GroupOf(Reanchored(v, g, rest), rest, InGroup(rest, g), v.x, v.eps)
<1> DEFINE K == InGroup(rest, g)
           l == Select(rest, K)
           d == Cardinality(K)
           x == v.x
           eps == v.eps
<1>1. K \in SUBSET DOMAIN rest /\ DOMAIN rest = 1..Len(rest) /\ Len(rest) \in Nat
  BY LenProperties DEF InGroup
<1> HIDE DEF K
<1>2. DOMAIN l = 1..d /\ Len(l) = d /\ \A r \in 1..d : l[r] = rest[Place(K, r)]
  BY <1>1, SelectPlaces, SelectType
<1>3. /\ d \in Nat /\ PlacedUpTo(K, 0) = {} /\ PlacedUpTo(K, d) = K
      /\ \A j \in 1..d : /\ Place(K, j) \in K /\ Place(K, j) \notin PlacedUpTo(K, j - 1)
                         /\ PlacedUpTo(K, j) = PlacedUpTo(K, j - 1) \cup {Place(K, j)}
                         /\ PlacedUpTo(K, j) \in SUBSET K
  BY <1>1, PlacedFacts
<1> HIDE DEF l, d
<1>a. PICK c : AddsTo(c, d, l, EmptySum, x, eps)
  <2>1. d \in Nat /\ DOMAIN l = 1..d
    BY <1>2, <1>3
  <2> HIDE DEF x, eps
  <2> QED BY <2>1, AddsInOrder
<1>4. /\ c[0] = EmptySum /\ c[d] = SumAlong(l, EmptySum, x, eps)
      /\ \A j \in 1..d : c[j] = Added(c[j - 1], l[j].k * x, l[j].v, eps)
  BY <1>a DEF AddsTo
<1> DEFINE grp(j) == [sum |-> c[j], n |-> j]
           built(j) == GroupOf(grp(j), rest, PlacedUpTo(K, j), x, eps)
           C == {j \in 0..d : built(j)}
<1> HIDE DEF grp, built
<1>5. 0 \in C
  <2>1. GroupOf(EmptyGroup, rest, {}, x, eps)
    BY GroupOfNone
  <2>2. EmptyGroup = grp(0)
    BY <1>4 DEF EmptyGroup, grp
  <2>3. built(0)
    BY <1>3, <2>1, <2>2 DEF built
  <2> QED BY <1>3, <2>3
<1>6. ASSUME NEW j \in 1..d, j - 1 \in C
      PROVE  j \in C
  <2> DEFINE i == Place(K, j)
             R == PlacedUpTo(K, j - 1)
             h == grp(j - 1)
  <2>1. i \notin R /\ R \cup {i} \in SUBSET K /\ PlacedUpTo(K, j) = R \cup {i}
    BY <1>3
  <2>2. GroupOf(h, rest, R, x, eps)
    BY <1>6 DEF built
  <2>3. AllWritten(rest, R \cup {i})
    BY <1>1, <2>1, WrittenPart
  <2> HIDE DEF i, R, h
  <2>4. GroupOf(Grown(h, rest[i], x, eps), rest, R \cup {i}, x, eps)
    BY <2>1, <2>2, <2>3, GroupGrown
  <2>5. Grown(h, rest[i], x, eps) = grp(j)
    <3>1. h.sum = c[j - 1] /\ h.n = j - 1 /\ l[j] = rest[i]
      BY <1>2 DEF h, i, grp
    <3>2. c[j] = Added(c[j - 1], l[j].k * x, l[j].v, eps) /\ (j - 1) + 1 = j
      BY <1>3, <1>4
    <3> QED BY <3>1, <3>2 DEF Grown, grp
  <2>6. built(j)
    BY <2>1, <2>4, <2>5 DEF built
  <2> QED BY <2>6
<1> HIDE DEF C
<1>7. \A j \in 0..d : j \in C
  BY <1>3, <1>5, <1>6, CountUp
<1>8. GroupOf(grp(d), rest, K, x, eps)
  BY <1>3, <1>7 DEF C, built
<1>9. Reanchored(v, g, rest) = grp(d)
  BY <1>2, <1>4 DEF Reanchored, SumAlong, K, l, grp
<1> QED BY <1>8, <1>9 DEF K

-----------------------------------------------------------------------------
(* Views that are built and inserted into.                                  *)

\* The length of what has positions 1 to l.
LEMMA LengthIs ==
  ASSUME NEW l \in Nat, NEW s, s = [i \in 1..l |-> s[i]]
  PROVE  Len(s) = l
<1>1. s \in Seq({s[i] : i \in 1..l})
  OBVIOUS
<1>2. DOMAIN s = 1..l /\ DOMAIN s = 1..Len(s) /\ Len(s) \in Nat
  BY <1>1, LenProperties
<1> QED BY <1>2

\* Another state of the same view.
SameView(w, v) == w.name = v.name /\ w.table = v.table /\ w.x = v.x /\ w.eps = v.eps

\* A row inserted is in its group, and the groups up to its code exist.
LEMMA RowInserted ==
  ASSUME NEW rows, NEW K, NEW i \in DOMAIN rows, i \notin K, AllWritten(rows, K \cup {i}),
         NEW l \in Nat, NEW v, ViewOf(v, rows, K, l), rows[i].g \in Nat \ {0},
         \A r \in K : rows[r].g \in 1..l, NEW m, m = Larger(l, rows[i].g)
  PROVE  ViewOf(ApplyInsert(v, rows[i]), rows, K \cup {i}, m) /\ SameView(ApplyInsert(v, rows[i]), v)
<1> DEFINE row == rows[i]
           gs  == ResizedTo(v.groups, row.g)
           grp == Grown(gs[row.g], row, v.x, v.eps)
           w   == ApplyInsert(v, row)
<1>1. /\ v = [name |-> v.name, table |-> v.table, x |-> v.x, eps |-> v.eps, groups |-> v.groups]
      /\ v.groups = [g \in 1..l |-> v.groups[g]] /\ Viewed(v.x, v.eps)
      /\ \A g \in 1..l : GroupOf(v.groups[g], rows, InGroup(rows, g) \cap K, v.x, v.eps)
  BY DEF ViewOf, Shaped
<1>2. Len(v.groups) = l /\ m \in Nat /\ row.g \in 1..m /\ 1..l \in SUBSET (1..m)
  <2>1. Len(v.groups) = l
    BY <1>1, LengthIs
  <2> QED BY <2>1 DEF Larger
<1>3. gs = [g \in 1..m |-> IF g <= l THEN v.groups[g] ELSE EmptyGroup]
  BY <1>2 DEF ResizedTo
<1>4. w = [name |-> v.name, table |-> v.table, x |-> v.x, eps |-> v.eps,
           groups |-> [gs EXCEPT ![row.g] = grp]]
  <2>1. w = [v EXCEPT !.groups = [gs EXCEPT ![row.g] = grp]]
    BY DEF ApplyInsert, Grown
  <2> HIDE DEF w, gs, grp
  <2> QED BY <1>1, <2>1
<1>5. ASSUME NEW g \in 1..m
      PROVE  GroupOf(gs[g], rows, InGroup(rows, g) \cap K, v.x, v.eps)
  <2>1. CASE g <= l
    <3>1. g \in 1..l /\ gs[g] = v.groups[g]
      BY <1>2, <1>3, <2>1
    <3> QED BY <1>1, <3>1
  <2>2. CASE ~ (g <= l)
    <3>1. gs[g] = EmptyGroup
      BY <1>3, <2>2
    <3>2. InGroup(rows, g) \cap K = {}
      BY <2>2 DEF InGroup
    <3>3. GroupOf(EmptyGroup, rows, {}, v.x, v.eps)
      BY GroupOfNone
    <3> QED BY <3>1, <3>2, <3>3
  <2> QED BY <2>1, <2>2
<1> HIDE DEF gs
<1>6. GroupOf(grp, rows, InGroup(rows, row.g) \cap (K \cup {i}), v.x, v.eps)
  <2> DEFINE R == InGroup(rows, row.g) \cap K
             h == gs[row.g]
  <2>1. GroupOf(h, rows, R, v.x, v.eps)
    BY <1>2, <1>5
  <2>2. InGroup(rows, row.g) \cap (K \cup {i}) = R \cup {i}
    BY DEF InGroup
  <2>3. i \notin R /\ R \cup {i} \in SUBSET (K \cup {i})
    OBVIOUS
  <2>4. AllWritten(rows, R \cup {i})
    <3> HIDE DEF R
    <3> QED BY <2>3, WrittenPart
  <2> HIDE DEF R, h
  <2>5. GroupOf(Grown(h, rows[i], v.x, v.eps), rows, R \cup {i}, v.x, v.eps)
    BY <1>1, <2>1, <2>3, <2>4, GroupGrown
  <2> QED BY <2>2, <2>5 DEF h
<1> HIDE DEF grp
<1>7. ASSUME NEW g \in 1..m, g # row.g
      PROVE  InGroup(rows, g) \cap (K \cup {i}) = InGroup(rows, g) \cap K
  BY <1>7 DEF InGroup
<1> HIDE DEF w
<1>8. w.groups = [gs EXCEPT ![row.g] = grp] /\ SameView(w, v) /\ w.x = v.x /\ w.eps = v.eps
        /\ w = [name |-> w.name, table |-> w.table, x |-> w.x, eps |-> w.eps, groups |-> w.groups]
  BY <1>4 DEF SameView
<1>9. w.groups = [g \in 1..m |-> w.groups[g]] /\ w.groups[row.g] = grp
        /\ \A g \in 1..m : g # row.g => w.groups[g] = gs[g]
  BY <1>2, <1>3, <1>8 DEF gs
<1>10. ASSUME NEW g \in 1..m
       PROVE  GroupOf(w.groups[g], rows, InGroup(rows, g) \cap (K \cup {i}), v.x, v.eps)
  <2>1. CASE g = row.g
    BY <1>6, <1>9, <2>1
  <2>2. CASE g # row.g
    BY <1>5, <1>7, <1>9, <2>2
  <2> QED BY <2>1, <2>2
<1>11. ViewOf(w, rows, K \cup {i}, m)
  BY <1>1, <1>8, <1>9, <1>10 DEF ViewOf, Shaped
<1> QED BY <1>8, <1>11 DEF w

\* A view built over a table holds its rows.
LEMMA BuiltExact ==
  ASSUME NEW t \in Table, \A r \in DOMAIN t.rows : t.rows[r].g \in DOMAIN t.dict,
         AllWritten(t.rows, DOMAIN t.rows), NEW name, NEW table, NEW x, NEW eps, Viewed(x, eps)
  PROVE  /\ ViewOf(BuildView(name, table, t, x, eps), t.rows, DOMAIN t.rows, Len(t.dict))
         /\ BuildView(name, table, t, x, eps).table = table
         /\ BuildView(name, table, t, x, eps).name = name
<1> DEFINE rows == t.rows
           n    == Len(t.rows)
           m    == Len(t.dict)
           base == [name |-> name, table |-> table, x |-> x, eps |-> eps,
                    groups |-> [g \in DOMAIN t.dict |-> EmptyGroup]]
<1>1. n \in Nat /\ m \in Nat /\ DOMAIN rows = 1..n /\ DOMAIN t.dict = 1..m
  BY LenProperties DEF Table
<1>2. ViewOf(base, rows, {}, m)
  <2>1. base.groups = [g \in 1..m |-> EmptyGroup] /\ base.x = x /\ base.eps = eps
    BY <1>1
  <2>2. Shaped(base, m)
    BY <2>1 DEF Shaped
  <2>3. \A g \in 1..m : base.groups[g] = EmptyGroup /\ InGroup(rows, g) \cap {} = {}
    BY <2>1
  <2>4. GroupOf(EmptyGroup, rows, {}, x, eps)
    BY GroupOfNone
  <2> HIDE DEF base
  <2> QED BY <2>1, <2>2, <2>3, <2>4 DEF ViewOf
<1>3. base.table = table /\ base.name = name
  OBVIOUS
<1>4. BuildView(name, table, t, x, eps) = InsertedAlong(rows, base)
  BY DEF BuildView, InsertedAlong
<1> HIDE DEF base, m, n
<1>5. PICK c : /\ c[0] = base /\ c[n] = InsertedAlong(rows, base)
               /\ \A j \in 1..n : c[j] = ApplyInsert(c[j - 1], rows[j])
  BY <1>1, InsertsInOrder
<1> DEFINE built(j) == ViewOf(c[j], rows, 1..j, m) /\ c[j].table = table /\ c[j].name = name
           C == {j \in 0..n : built(j)}
<1> HIDE DEF built
<1>6. 0 \in C
  <2>1. 1..0 = {}
    OBVIOUS
  <2>2. built(0)
    BY <1>2, <1>3, <1>5, <2>1 DEF built
  <2> QED BY <1>1, <2>2
<1>7. ASSUME NEW j \in 1..n, j - 1 \in C
      PROVE  j \in C
  <2> DEFINE K == 1..(j - 1)
             v == c[j - 1]
  <2>1. j \in DOMAIN rows /\ j \notin K /\ K \cup {j} = 1..j /\ K \cup {j} \in SUBSET DOMAIN rows
    BY <1>1
  <2>2. ViewOf(v, rows, K, m) /\ v.table = table /\ v.name = name
    BY <1>7 DEF built
  <2>3. rows[j].g \in 1..m /\ rows[j].g \in Nat \ {0} /\ m = Larger(m, rows[j].g)
    <3>1. rows[j].g \in 1..m
      BY <1>1, <2>1
    <3> QED BY <1>1, <3>1 DEF Larger
  <2>4. \A r \in K : rows[r].g \in 1..m
    BY <1>1, <2>1
  <2>5. c[j] = ApplyInsert(v, rows[j])
    BY <1>5
  <2> HIDE DEF K, v
  <2>6. AllWritten(rows, K \cup {j})
    BY <2>1, WrittenPart
  <2>7. ViewOf(ApplyInsert(v, rows[j]), rows, K \cup {j}, m) /\ SameView(ApplyInsert(v, rows[j]), v)
    BY <1>1, <2>1, <2>2, <2>3, <2>4, <2>6, RowInserted
  <2>8. built(j)
    BY <2>1, <2>2, <2>5, <2>7 DEF SameView, built
  <2> QED BY <2>8
<1> HIDE DEF C
<1>8. \A j \in 0..n : j \in C
  BY <1>1, <1>6, <1>7, CountUp
<1>9. ViewOf(c[n], rows, 1..n, m) /\ c[n].table = table /\ c[n].name = name
  BY <1>1, <1>8 DEF C, built
<1> QED BY <1>1, <1>4, <1>5, <1>9 DEF m

\* A row appended to a table and inserted into a view of it.
LEMMA InsertedExact ==
  ASSUME NEW S, NEW rows \in Seq(S), NEW row \in S, NEW v, NEW l \in Nat,
         ViewOf(v, rows, DOMAIN rows, l), AllWritten(rows, DOMAIN rows),
         \A r \in DOMAIN rows : rows[r].g \in 1..l,
         row.g \in Nat \ {0}, row.v \in WrittenValues, row.k \in WrittenKeys,
         NEW m, m = Larger(l, row.g), NEW next, next = Append(rows, row)
  PROVE  ViewOf(ApplyInsert(v, row), next, DOMAIN next, m) /\ SameView(ApplyInsert(v, row), v)
<1> DEFINE n == Len(rows)
           K == DOMAIN rows
           i == n + 1
<1>1. /\ n \in Nat /\ K = 1..n /\ DOMAIN next = K \cup {i} /\ i \notin K /\ next[i] = row
      /\ \A r \in K : next[r] = rows[r]
  <2>1. n \in Nat /\ K = 1..n
    BY LenProperties
  <2>2. DOMAIN next = 1..(n + 1) /\ next[n + 1] = row /\ \A r \in 1..n : next[r] = rows[r]
    BY AppendProperties
  <2>3. 1..(n + 1) = (1..n) \cup {n + 1}
    BY <2>1
  <2> QED BY <2>1, <2>2, <2>3
<1>2. IsFiniteSet(K) /\ IsFiniteSet(K \cup {i})
  <2>1. IsFiniteSet(K)
    BY <1>1, FS_Interval
  <2> QED BY <2>1, FS_AddElement
<1> HIDE DEF K, n, i
<1>3. AllWritten(next, K \cup {i}) /\ AllWritten(rows, K)
  BY <1>1, <1>2 DEF AllWritten, K
<1>4. ViewOf(v, next, K, l)
  <2>1. Shaped(v, l) /\ \A g \in 1..l : GroupOf(v.groups[g], rows, InGroup(rows, g) \cap K, v.x, v.eps)
    BY DEF ViewOf, K
  <2>2. Viewed(v.x, v.eps)
    BY <2>1 DEF Shaped
  <2>3. ASSUME NEW g \in 1..l
        PROVE  GroupOf(v.groups[g], next, InGroup(next, g) \cap K, v.x, v.eps)
    <3> DEFINE R  == InGroup(rows, g) \cap K
               at == [r \in R |-> r]
    <3>1. InGroup(next, g) \cap K = R
      BY <1>1 DEF InGroup, K
    <3>2. R \in SUBSET K
      OBVIOUS
    <3>3. GroupOf(v.groups[g], rows, R, v.x, v.eps)
      BY <2>1
    <3> HIDE DEF R
    <3>4. OneToOne(at, R) /\ Through(at, R) = R /\ \A r \in R : next[r] = rows[at[r]]
      <4>1. \A r \in R : at[r] = r /\ next[r] = rows[r]
        BY <1>1, <3>2
      <4>2. OneToOne(at, R)
        BY <4>1 DEF OneToOne
      <4>3. Through(at, R) = R
        BY <4>1 DEF Through
      <4> QED BY <4>1, <4>2, <4>3
    <3>5. AllWritten(rows, R)
      BY <1>3, <3>2, WrittenPart
    <3>6. IsFiniteSet(R) /\ R \in SUBSET DOMAIN next
      BY <1>1, <1>2, <3>2, FS_Subset
    <3> DEFINE x   == v.x
               eps == v.eps
               h   == v.groups[g]
    <3>7. Viewed(x, eps) /\ GroupOf(h, rows, R, x, eps)
      BY <2>2, <3>3
    <3> HIDE DEF at, x, eps, h
    <3>8. Moves(at, rows, R, next, R)
      BY <3>4, <3>6 DEF Moves
    <3>9. GroupOf(h, next, R, x, eps)
      BY <3>5, <3>7, <3>8, GroupMoved
    <3> QED BY <3>1, <3>9 DEF h, x, eps
  <2> QED BY <2>1, <2>3 DEF ViewOf
<1>5. \A r \in K : next[r].g \in 1..l
  BY <1>1 DEF K
<1>6. i \in DOMAIN next
  BY <1>1
<1>7. ViewOf(ApplyInsert(v, next[i]), next, K \cup {i}, m) /\ SameView(ApplyInsert(v, next[i]), v)
  BY <1>1, <1>3, <1>4, <1>5, <1>6, RowInserted
<1> QED BY <1>1, <1>7

-----------------------------------------------------------------------------
(* Views whose rows are deleted.                                            *)

\* The rows at E are off the groups but those that were settled, and these are of the rows that
\* stay.
Deleting(acc, v, rows, rest, E, m) ==
  /\ acc = [view |-> acc.view, settled |-> acc.settled]
  /\ Shaped(acc.view, m) /\ SameView(acc.view, v)
  /\ \A g \in 1..m :
       /\ g \in acc.settled => GroupOf(acc.view.groups[g], rest, InGroup(rest, g), v.x, v.eps)
       /\ g \notin acc.settled => GroupOf(acc.view.groups[g], rows, InGroup(rows, g) \ E, v.x, v.eps)

\* One row more: it settles its group when it tied the anchor.
LEMMA RowDeleted ==
  ASSUME NEW S, NEW rest \in Seq(S), AllWritten(rest, DOMAIN rest),
         NEW rows, AllWritten(rows, DOMAIN rows), NEW E, NEW i \in DOMAIN rows, i \notin E,
         NEW m, rows[i].g \in 1..m, NEW v, NEW acc, Deleting(acc, v, rows, rest, E, m)
  PROVE  Deleting(DeleteRow(acc, rows[i], rest), v, rows, rest, E \cup {i}, m)
<1> DEFINE row == rows[i]
           u   == acc.view
           g0  == row.g
           F   == E \cup {i}
           top == Tops(u, row)
           grp == IF top THEN Reanchored(u, g0, rest) ELSE Shrunk(u.groups[g0], row, u.x, u.eps)
           w   == OnDelete(u, row, rest)
           acc2 == DeleteRow(acc, row, rest)
<1>1. /\ acc = [view |-> u, settled |-> acc.settled] /\ Shaped(u, m) /\ SameView(u, v)
      /\ u.x = v.x /\ u.eps = v.eps /\ Viewed(u.x, u.eps)
      /\ \A g \in 1..m :
           /\ g \in acc.settled => GroupOf(u.groups[g], rest, InGroup(rest, g), v.x, v.eps)
           /\ g \notin acc.settled => GroupOf(u.groups[g], rows, InGroup(rows, g) \ E, v.x, v.eps)
  BY DEF Deleting, Shaped, SameView
<1>2. \A g : g # g0 => InGroup(rows, g) \ F = InGroup(rows, g) \ E
  BY DEF InGroup
<1>3. CASE g0 \in acc.settled
  <2>1. acc2 = acc
    BY <1>3 DEF DeleteRow
  <2>2. \A g \in 1..m : g \notin acc.settled => GroupOf(u.groups[g], rows, InGroup(rows, g) \ F, v.x, v.eps)
    BY <1>1, <1>2, <1>3
  <2> HIDE DEF F, acc2, u
  <2>3. Deleting(acc, v, rows, rest, F, m)
    BY <1>1, <2>2 DEF Deleting, u
  <2> QED BY <2>1, <2>3 DEF F, acc2
<1>4. CASE g0 \notin acc.settled
  <2>1. acc2 = [view |-> w, settled |-> IF top THEN acc.settled \cup {g0} ELSE acc.settled]
    BY <1>4 DEF DeleteRow
  <2>2. w = [u EXCEPT !.groups = [u.groups EXCEPT ![g0] = grp]]
    BY DEF OnDelete, Shrunk
  <2>3. GroupOf(u.groups[g0], rows, InGroup(rows, g0) \ E, v.x, v.eps)
    BY <1>1, <1>4
  <2>4. /\ top => GroupOf(grp, rest, InGroup(rest, g0), v.x, v.eps)
        /\ ~ top => GroupOf(grp, rows, InGroup(rows, g0) \ F, v.x, v.eps)
    <3>1. CASE top
      <4>1. GroupOf(Reanchored(u, g0, rest), rest, InGroup(rest, g0), u.x, u.eps)
        BY <1>1, ReanchoredExact
      <4> QED BY <1>1, <3>1, <4>1
    <3>2. CASE ~ top
      <4> DEFINE K == InGroup(rows, g0) \ E
                 h == u.groups[g0]
      <4>1. i \in K /\ K \in SUBSET DOMAIN rows /\ InGroup(rows, g0) \ F = K \ {i}
        BY DEF InGroup
      <4>2. GroupOf(h, rows, K, u.x, u.eps)
        BY <1>1, <2>3
      <4>3. ~ Anchors(h.sum, row.k * u.x)
        BY <3>2 DEF Tops
      <4> HIDE DEF K, h, u
      <4>4. AllWritten(rows, K)
        BY <4>1, WrittenPart
      <4>5. GroupOf(Shrunk(h, rows[i], u.x, u.eps), rows, K \ {i}, u.x, u.eps)
        BY <1>1, <4>1, <4>2, <4>3, <4>4, GroupShrunk
      <4> QED BY <1>1, <3>2, <4>1, <4>5 DEF h
    <3> QED BY <3>1, <3>2
  <2> HIDE DEF grp, w, top, F, acc2
  <2>5. /\ w.groups = [u.groups EXCEPT ![g0] = grp] /\ w.x = u.x /\ w.eps = u.eps /\ w.name = u.name
        /\ w.table = u.table
        /\ w = [name |-> w.name, table |-> w.table, x |-> w.x, eps |-> w.eps, groups |-> w.groups]
    <3> HIDE DEF u
    <3>1. u = [name |-> u.name, table |-> u.table, x |-> u.x, eps |-> u.eps, groups |-> u.groups]
      BY <1>1 DEF Shaped
    <3> QED BY <2>2, <3>1
  <2>6. w.groups = [g \in 1..m |-> w.groups[g]] /\ w.groups[g0] = grp
          /\ \A g \in 1..m : g # g0 => w.groups[g] = u.groups[g]
    <3>1. u.groups = [g \in 1..m |-> u.groups[g]]
      BY <1>1 DEF Shaped
    <3> QED BY <2>5, <3>1
  <2>7. Shaped(w, m) /\ SameView(w, v)
    BY <1>1, <2>5, <2>6 DEF Shaped, SameView
  <2> HIDE DEF u
  <2>8. acc2.view = w /\ acc2.settled = (IF top THEN acc.settled \cup {g0} ELSE acc.settled)
          /\ acc2 = [view |-> acc2.view, settled |-> acc2.settled]
    BY <2>1
  <2>9. ASSUME NEW g \in 1..m
        PROVE  /\ g \in acc2.settled => GroupOf(w.groups[g], rest, InGroup(rest, g), v.x, v.eps)
               /\ g \notin acc2.settled => GroupOf(w.groups[g], rows, InGroup(rows, g) \ F, v.x, v.eps)
    <3>1. CASE g = g0
      <4>1. g \in acc2.settled <=> top
        BY <1>4, <2>8, <3>1
      <4> QED BY <2>4, <2>6, <3>1, <4>1
    <3>2. CASE g # g0
      <4>1. g \in acc2.settled <=> g \in acc.settled
        BY <2>8, <3>2
      <4> QED BY <1>1, <1>2, <2>6, <3>2, <4>1
    <3> QED BY <3>1, <3>2
  <2>10. Deleting(acc2, v, rows, rest, F, m)
    BY <2>7, <2>8, <2>9 DEF Deleting
  <2> QED BY <2>10 DEF F, acc2
<1> QED BY <1>3, <1>4

\* The rows that stay: each was a row, and each group loses its doomed rows and no other.
LEMMA RowsThatStay ==
  ASSUME NEW S, NEW rows \in Seq(S), AllWritten(rows, DOMAIN rows), NEW D \in SUBSET DOMAIN rows,
         NEW rest, rest = Select(rows, DOMAIN rows \ D)
  PROVE  /\ rest \in Seq(S) /\ AllWritten(rest, DOMAIN rest)
         /\ \A r \in DOMAIN rest : \E i \in DOMAIN rows : rest[r] = rows[i]
         /\ \A g : \E at : Moves(at, rows, InGroup(rows, g) \ D, rest, InGroup(rest, g))
<1> DEFINE kept == DOMAIN rows \ D
           d    == Cardinality(kept)
           at   == [r \in DOMAIN rest |-> Place(kept, r)]
<1>1. DOMAIN rows = 1..Len(rows) /\ Len(rows) \in Nat /\ kept \in SUBSET (1..Len(rows))
        /\ kept \in SUBSET (DOMAIN rows) /\ d \in Nat
  <2>1. DOMAIN rows = 1..Len(rows) /\ Len(rows) \in Nat /\ kept \in SUBSET (1..Len(rows))
    BY LenProperties
  <2> HIDE DEF kept
  <2>2. d \in Nat
    BY <2>1, RankFacts
  <2> QED BY <2>1, <2>2
<1>2. rest \in Seq(S) /\ DOMAIN rest = 1..d /\ \A r \in 1..d : rest[r] = rows[Place(kept, r)]
  <2> HIDE DEF kept
  <2>1. rest = Select(rows, kept)
    BY DEF kept
  <2>2. Select(rows, kept) \in Seq(S)
    BY <1>1, SelectType
  <2>3. DOMAIN Select(rows, kept) = 1..Cardinality(kept)
        /\ \A r \in 1..Cardinality(kept) : Select(rows, kept)[r] = rows[Place(kept, r)]
    BY <1>1, SelectPlaces
  <2> QED BY <2>1, <2>2, <2>3
<1>3. /\ \A r \in 1..d : Place(kept, r) \in kept
      /\ \A r, q \in 1..d : Place(kept, r) = Place(kept, q) => r = q
      /\ \A n \in kept : \E r \in 1..d : Place(kept, r) = n
  <2>1. Len(rows) \in Nat /\ kept \in SUBSET (1..Len(rows))
    BY <1>1
  <2> HIDE DEF kept
  <2> QED BY <2>1, PlacesOfSet
<1>4. \A r \in DOMAIN rest : at[r] \in kept /\ rest[r] = rows[at[r]]
  BY <1>2, <1>3
<1>5. /\ \A r, q \in DOMAIN rest : at[r] = at[q] => r = q
      /\ \A n \in kept : \E r \in DOMAIN rest : at[r] = n
  BY <1>2, <1>3
<1>6. IsFiniteSet(DOMAIN rest)
  BY <1>1, <1>2, FS_Interval
<1> HIDE DEF at, d
<1>7. \A r \in DOMAIN rest : at[r] \in DOMAIN rows
  BY <1>4
<1>8. AllWritten(rest, DOMAIN rest)
  BY <1>4, <1>6, <1>7 DEF AllWritten
<1>9. ASSUME NEW g
      PROVE  Moves(at, rows, InGroup(rows, g) \ D, rest, InGroup(rest, g))
  <2> DEFINE R == InGroup(rest, g)
  <2>1. R \in SUBSET DOMAIN rest /\ IsFiniteSet(R)
    BY <1>6, FS_Subset DEF InGroup
  <2>2. \A r \in R : at[r] \in InGroup(rows, g) \ D
    BY <1>4, <1>7 DEF InGroup
  <2>3. ASSUME NEW n \in InGroup(rows, g) \ D
        PROVE  \E r \in R : at[r] = n
    <3>1. n \in kept /\ rows[n].g = g
      BY DEF InGroup
    <3>2. PICK r \in DOMAIN rest : at[r] = n
      BY <1>5, <3>1
    <3>3. rest[r].g = g
      BY <1>4, <3>1, <3>2
    <3> QED BY <3>2, <3>3 DEF InGroup
  <2>4. Through(at, R) = InGroup(rows, g) \ D
    BY <2>2, <2>3 DEF Through
  <2>5. OneToOne(at, R)
    BY <1>5, <2>1 DEF OneToOne
  <2> HIDE DEF R
  <2>6. \A r \in R : rest[r] = rows[at[r]]
    BY <1>4, <2>1
  <2>7. Moves(at, rows, InGroup(rows, g) \ D, rest, R)
    BY <2>1, <2>4, <2>5, <2>6 DEF Moves
  <2> QED BY <2>7 DEF R
<1>10. \A g : \E a : Moves(a, rows, InGroup(rows, g) \ D, rest, InGroup(rest, g))
  BY <1>9
<1> QED BY <1>2, <1>4, <1>7, <1>8, <1>10

\* What a delete leaves of a view is the view of rest, when that is the rows that stay.
LEMMA DeletedTo ==
  ASSUME NEW S, NEW rows \in Seq(S), AllWritten(rows, DOMAIN rows), NEW D \in SUBSET DOMAIN rows,
         NEW rest \in Seq(S), AllWritten(rest, DOMAIN rest),
         \A g : \E at : Moves(at, rows, InGroup(rows, g) \ D, rest, InGroup(rest, g)),
         NEW m \in Nat, \A r \in DOMAIN rows : rows[r].g \in 1..m,
         NEW v, ViewOf(v, rows, DOMAIN rows, m)
  PROVE  /\ ViewOf(DeleteRows(v, Select(rows, D), rest), rest, DOMAIN rest, m)
         /\ SameView(DeleteRows(v, Select(rows, D), rest), v)
<1> DEFINE l    == Select(rows, D)
           d    == Cardinality(D)
           base == [view |-> v, settled |-> {}]
           w    == DeleteRows(v, l, rest)
<1>1. rest \in Seq(S) /\ AllWritten(rest, DOMAIN rest)
        /\ \A g : \E at : Moves(at, rows, InGroup(rows, g) \ D, rest, InGroup(rest, g))
  OBVIOUS
<1>2. DOMAIN rows = 1..Len(rows) /\ Len(rows) \in Nat /\ D \in SUBSET (1..Len(rows))
  BY LenProperties
<1>3. DOMAIN l = 1..d /\ \A j \in 1..d : l[j] = rows[Place(D, j)]
  BY SelectPlaces
<1>4. /\ d \in Nat /\ PlacedUpTo(D, 0) = {} /\ PlacedUpTo(D, d) = D
      /\ \A j \in 1..d : /\ Place(D, j) \in D /\ Place(D, j) \notin PlacedUpTo(D, j - 1)
                         /\ PlacedUpTo(D, j) = PlacedUpTo(D, j - 1) \cup {Place(D, j)}
                         /\ PlacedUpTo(D, j) \in SUBSET D
  BY <1>2, PlacedFacts
<1>5. w = DeletedAlong(l, base, rest).view
  BY DEF DeleteRows, DeletedAlong
<1>6. Shaped(v, m) /\ Viewed(v.x, v.eps)
        /\ \A g \in 1..m : GroupOf(v.groups[g], rows, InGroup(rows, g) \cap DOMAIN rows, v.x, v.eps)
  BY DEF ViewOf, Shaped
<1>7. Deleting(base, v, rows, rest, {}, m)
  <2>1. SameView(v, v) /\ \A g : InGroup(rows, g) \cap DOMAIN rows = InGroup(rows, g) \ {}
    BY DEF SameView, InGroup
  <2>2. base.view = v /\ base.settled = {} /\ base = [view |-> base.view, settled |-> base.settled]
    OBVIOUS
  <2> HIDE DEF base
  <2> QED BY <1>6, <2>1, <2>2 DEF Deleting
<1> HIDE DEF l, d, base, w
<1>a. d \in Nat /\ DOMAIN l = 1..d
  BY <1>3, <1>4
<1>b. PICK c : DeletesTo(c, d, l, base, rest)
  BY <1>a, DeletesInOrder
<1>8. /\ c[0] = base /\ c[d] = DeletedAlong(l, base, rest)
      /\ \A j \in 1..d : c[j] = DeleteRow(c[j - 1], l[j], rest)
  BY <1>b DEF DeletesTo
<1> DEFINE gone(j) == Deleting(c[j], v, rows, rest, PlacedUpTo(D, j), m)
           C == {j \in 0..d : gone(j)}
<1> HIDE DEF gone
<1>9. 0 \in C
  <2>1. gone(0)
    BY <1>4, <1>7, <1>8 DEF gone
  <2> QED BY <1>4, <2>1
<1>10. ASSUME NEW j \in 1..d, j - 1 \in C
       PROVE  j \in C
  <2> DEFINE i == Place(D, j)
             E == PlacedUpTo(D, j - 1)
             acc == c[j - 1]
  <2>1. i \in DOMAIN rows /\ i \notin E /\ PlacedUpTo(D, j) = E \cup {i} /\ l[j] = rows[i]
    BY <1>3, <1>4
  <2>2. Deleting(acc, v, rows, rest, E, m)
    BY <1>10 DEF gone
  <2>3. c[j] = DeleteRow(acc, l[j], rest)
    BY <1>8
  <2> HIDE DEF i, E, acc
  <2>4. rows[i].g \in 1..m
    BY <2>1
  <2>5. Deleting(DeleteRow(acc, rows[i], rest), v, rows, rest, E \cup {i}, m)
    BY <1>1, <2>1, <2>2, <2>4, RowDeleted
  <2>6. gone(j)
    BY <2>1, <2>3, <2>5 DEF gone
  <2> QED BY <2>6
<1> HIDE DEF C
<1>11. \A j \in 0..d : j \in C
  BY <1>4, <1>9, <1>10, CountUp
<1>12. Deleting(c[d], v, rows, rest, D, m)
  <2>1. d \in 0..d /\ PlacedUpTo(D, d) = D
    BY <1>4
  <2>2. gone(d)
    BY <1>11, <2>1 DEF C
  <2> QED BY <2>1, <2>2 DEF gone
<1>13. w = c[d].view
  BY <1>5, <1>8
<1>14. ASSUME NEW g \in 1..m
       PROVE  GroupOf(w.groups[g], rest, InGroup(rest, g), v.x, v.eps)
  <2> DEFINE x   == v.x
             eps == v.eps
             h   == w.groups[g]
             K   == InGroup(rows, g) \ D
  <2>1. CASE g \in c[d].settled
    BY <1>12, <1>13, <2>1 DEF Deleting
  <2>2. CASE g \notin c[d].settled
    <3>1. GroupOf(h, rows, K, x, eps) /\ Viewed(x, eps)
      BY <1>6, <1>12, <1>13, <2>2 DEF Deleting
    <3>2. K \in SUBSET DOMAIN rows
      BY DEF InGroup
    <3>3. PICK at : Moves(at, rows, K, rest, InGroup(rest, g))
      BY <1>1
    <3> HIDE DEF x, eps, h, K
    <3>4. AllWritten(rows, K)
      BY <3>2, WrittenPart
    <3>5. GroupOf(h, rest, InGroup(rest, g), x, eps)
      BY <3>1, <3>3, <3>4, GroupMoved
    <3> QED BY <3>5 DEF x, eps, h
  <2> QED BY <2>1, <2>2
<1>15. Shaped(w, m) /\ SameView(w, v) /\ w.x = v.x /\ w.eps = v.eps
  BY <1>12, <1>13 DEF Deleting, SameView
<1>16. \A g : InGroup(rest, g) \cap DOMAIN rest = InGroup(rest, g)
  BY DEF InGroup
<1>17. ViewOf(w, rest, DOMAIN rest, m)
  BY <1>14, <1>15, <1>16 DEF ViewOf
<1> QED BY <1>15, <1>17 DEF w, l

\* A delete of any rows, one after the other against those that stay, leaves the view of these.
THEOREM DeletedExact ==
  ASSUME NEW S, NEW rows \in Seq(S), AllWritten(rows, DOMAIN rows), NEW D \in SUBSET DOMAIN rows,
         NEW m \in Nat, \A r \in DOMAIN rows : rows[r].g \in 1..m,
         NEW v, ViewOf(v, rows, DOMAIN rows, m)
  PROVE  LET rest == Select(rows, DOMAIN rows \ D)
         IN  ViewOf(DeleteRows(v, Select(rows, D), rest), rest, DOMAIN rest, m)
<1> DEFINE rest == Select(rows, DOMAIN rows \ D)
<1>1. /\ rest \in Seq(S) /\ AllWritten(rest, DOMAIN rest)
      /\ \A g : \E at : Moves(at, rows, InGroup(rows, g) \ D, rest, InGroup(rest, g))
  BY RowsThatStay
<1>2. ViewOf(DeleteRows(v, Select(rows, D), rest), rest, DOMAIN rest, m)
  <2> HIDE DEF rest
  <2> QED BY <1>1, DeletedTo
<1> QED BY <1>2

-----------------------------------------------------------------------------
(* Whatever its groups say, a write leaves a view the view it was.          *)

\* A row inserted.
LEMMA InsertedSame ==
  ASSUME NEW v, IsView(v), NEW row
  PROVE  IsView(ApplyInsert(v, row)) /\ SameView(ApplyInsert(v, row), v)
<1>1. PICK gs : ApplyInsert(v, row) = [v EXCEPT !.groups = gs]
  BY DEF ApplyInsert
<1>2. [v EXCEPT !.groups = gs] =
        [name |-> v.name, table |-> v.table, x |-> v.x, eps |-> v.eps, groups |-> gs]
  BY DEF IsView
<1>3. PICK w : w = ApplyInsert(v, row)
  OBVIOUS
<1>4. w = [name |-> v.name, table |-> v.table, x |-> v.x, eps |-> v.eps, groups |-> gs]
  BY <1>1, <1>2, <1>3
<1>5. IsView(w) /\ SameView(w, v)
  BY <1>4 DEF IsView, SameView
<1> QED BY <1>3, <1>5

\* Rows deleted, one after the other.
LEMMA DeletedSame ==
  ASSUME NEW v, IsView(v), NEW n \in Nat, NEW l, DOMAIN l = 1..n, NEW rest
  PROVE  IsView(DeleteRows(v, l, rest)) /\ SameView(DeleteRows(v, l, rest), v)
<1> DEFINE base == [view |-> v, settled |-> {}]
           kept(acc) == /\ acc = [view |-> acc.view, settled |-> acc.settled]
                        /\ IsView(acc.view) /\ SameView(acc.view, v)
<1>1. PICK c : DeletesTo(c, n, l, base, rest)
  BY DeletesInOrder
<1>2. /\ c[0] = base /\ c[n] = DeletedAlong(l, base, rest)
      /\ \A j \in 1..n : c[j] = DeleteRow(c[j - 1], l[j], rest)
  BY <1>1 DEF DeletesTo
<1>3. kept(base)
  BY DEF SameView
<1>4. ASSUME NEW acc, kept(acc), NEW row
      PROVE  kept(DeleteRow(acc, row, rest))
  <2> DEFINE u == acc.view
             w == OnDelete(u, row, rest)
  <2>1. DeleteRow(acc, row, rest) = acc
          \/ \E settled : DeleteRow(acc, row, rest) = [view |-> w, settled |-> settled]
    BY DEF DeleteRow
  <2>2. PICK grp : w = [u EXCEPT !.groups[row.g] = grp]
    BY DEF OnDelete
  <2>3. PICK gs : gs = [u.groups EXCEPT ![row.g] = grp]
    OBVIOUS
  <2> HIDE DEF u, w
  <2>4. w = [name |-> u.name, table |-> u.table, x |-> u.x, eps |-> u.eps, groups |-> gs]
    BY <1>4, <2>2, <2>3 DEF IsView, u
  <2>5. IsView(w) /\ SameView(w, v)
    BY <1>4, <2>4 DEF IsView, SameView, u
  <2>6. \A settled : kept([view |-> w, settled |-> settled])
    BY <2>5
  <2> QED BY <1>4, <2>1, <2>6
<1> DEFINE C == {j \in 0..n : kept(c[j])}
<1> HIDE DEF kept, base
<1>5. 0 \in C
  BY <1>2, <1>3
<1>6. ASSUME NEW j \in 1..n, j - 1 \in C
      PROVE  j \in C
  BY <1>2, <1>4, <1>6
<1> HIDE DEF C
<1>7. \A j \in 0..n : j \in C
  BY <1>5, <1>6, CountUp
<1>8. kept(c[n])
  BY <1>7 DEF C
<1>9. DeleteRows(v, l, rest) = c[n].view
  BY <1>2 DEF DeleteRows, DeletedAlong, base
<1> QED BY <1>8, <1>9 DEF kept

-----------------------------------------------------------------------------
(* What a group answers.                                                    *)

\* The average of records whose scores are finite, as its two sums.
LEMMA LevelAverage ==
  ASSUME NEW rs, NEW K, NEW eps, Level(rs, K, eps)
  PROVE  AverageOf(rs, K, eps)
           = IF K = {} THEN None ELSE << UAt(rs, K, TopOf(rs, K), eps), ZAt(rs, K, TopOf(rs, K), eps) >>
<1>1. Weighty(rs, K, eps) = K
  <2>1. \A i \in K : rs[i].s \in Int /\ rs[i].v \in Int /\ rs[i].s # NegInf
    BY LevelFacts DEF Level, Finite
  <2>2. \A i \in K : ~ IsNull(rs[i])
    BY <2>1, NotANumber DEF IsNull
  <2> QED BY <2>1, <2>2 DEF Weighty
<1> DEFINE t == TopOf(rs, K)
           w == [i \in K |-> WeightBelow(t, rs[i].s, eps)]
<1>2. AverageOf(rs, K, eps)
        = IF K = {} THEN None
          ELSE << SumFunctionOnSet([i \in K |-> w[i] * rs[i].v], K), SumFunctionOnSet(w, K) >>
  BY <1>1 DEF AverageOf, TopOf
<1>3. w = WeightsAt(rs, K, t, eps) /\ [i \in K |-> w[i] * rs[i].v] = TermsAt(rs, K, t, eps)
  BY DEF WeightsAt, TermsAt
<1> QED BY <1>2, <1>3 DEF UAt, ZAt

\* The answer of a group without a NULL.
LEMMA GroupAnswers ==
  ASSUME NEW rs, NEW K, NEW eps, Level(rs, K, eps), NEW st, Anchored(st, rs, K, eps), st.num # NaN
  PROVE  SameAnswer(Ratio(st), AverageOf(rs, K, eps))
<1>1. CASE K = {}
  <2>1. st.den = 0 /\ st.num = 0
    BY <1>1, NoSums DEF Anchored
  <2>2. Ratio(st) = None
    <3>1. NaN \notin {st.num, st.den} /\ st.den <= 0
      BY <2>1, NotANumber
    <3> QED BY <3>1 DEF Ratio
  <2>3. AverageOf(rs, K, eps) = None
    BY <1>1, LevelAverage
  <2> QED BY <2>2, <2>3, SameAsItself
<1>2. CASE K # {}
  <2> DEFINE u == UAt(rs, K, TopOf(rs, K), eps)
             z == ZAt(rs, K, TopOf(rs, K), eps)
  <2>1. z \in Nat \ {0} /\ u \in Int
    BY <1>2, AccFacts DEF Level
  <2>2. st.num = u /\ st.den = z
    BY <1>2 DEF Anchored
  <2>3. AverageOf(rs, K, eps) = << u, z >>
    BY <1>2, LevelAverage
  <2> HIDE DEF u, z
  <2>4. NaN \notin {st.num, st.den} /\ ~ (st.den <= 0)
    BY <2>1, <2>2, NotANumber
  <2>5. Ratio(st) = << u, z >>
    BY <2>2, <2>4 DEF Ratio
  <2> QED BY <2>3, <2>5, SameAsItself
<1> QED BY <1>1, <1>2

\* A denominator counts the rows there are.
LEMMA DenominatorOf ==
  ASSUME NEW rs, NEW K, NEW eps, Level(rs, K, eps), NEW st, Anchored(st, rs, K, eps)
  PROVE  st.den \in Nat /\ st.den # NaN /\ (K # {} => st.den > 0)
<1>1. CASE K = {}
  BY <1>1, NoSums, NotANumber DEF Anchored
<1>2. CASE K # {}
  <2>1. ZAt(rs, K, TopOf(rs, K), eps) \in Nat \ {0}
    BY <1>2, AccFacts DEF Level
  <2>2. st.den \in Nat \ {0}
    BY <1>2, <2>1 DEF Anchored
  <2> QED BY <2>2, NotANumber
<1> QED BY <1>1, <1>2

\* A row is in the group of its code.
LEMMA ViewExact ==
  ASSUME NEW rows, AllWritten(rows, DOMAIN rows), NEW v, NEW m \in Nat,
         ViewOf(v, rows, DOMAIN rows, m), NEW g \in DOMAIN v.groups,
         NEW l, l = [r \in DOMAIN rows |-> [s |-> rows[r].k * v.x, v |-> rows[r].v]]
  PROVE  LET of   == InGroup(rows, g)
             sum  == v.groups[g].sum
         IN  /\ v.groups[g].n = Cardinality(of)
             /\ sum.den # NaN
             /\ (g \in Covered(v) <=> of # {})
             /\ (\E r \in of : rows[r].v = NaN) => sum.num = NaN
             /\ IF sum.num = NaN THEN NaN \in WrittenValues
                ELSE SameAnswer(Ratio(sum), AverageOf(l, of, v.eps))
<1> DEFINE of  == InGroup(rows, g)
           sum == v.groups[g].sum
           rs  == RecsOf(rows, v.x)
<1>1. of \in SUBSET DOMAIN rows /\ of \cap DOMAIN rows = of
  BY DEF InGroup
<1>2. GroupOf(v.groups[g], rows, of, v.x, v.eps) /\ Viewed(v.x, v.eps)
  <2>1. g \in 1..m
    BY DEF ViewOf, Shaped
  <2> QED BY <1>1, <2>1 DEF ViewOf, Shaped
<1> HIDE DEF of
<1>3. AllWritten(rows, of)
  BY <1>1, WrittenPart
<1>4. Level(rs, of, v.eps)
  BY <1>2, <1>3, WrittenLevel
<1>5. Anchored(sum, rs, of, v.eps)
  BY <1>2 DEF GroupOf
<1>6. v.groups[g].n = Cardinality(of) /\ IsFiniteSet(of)
        /\ ((\E r \in of : rows[r].v = NaN) => sum.num = NaN)
        /\ (sum.num = NaN => NaN \in WrittenValues)
  BY <1>2, <1>3 DEF GroupOf, AllWritten
<1>7. sum.den \in Nat /\ sum.den # NaN /\ (of # {} => sum.den > 0)
  BY <1>4, <1>5, DenominatorOf
<1>8. Cardinality(of) > 0 <=> of # {}
  BY <1>6, FS_EmptySet, FS_CardinalityType
<1>9. g \in Covered(v) <=> of # {}
  BY <1>6, <1>7, <1>8 DEF Covered
<1>10. ASSUME sum.num # NaN
       PROVE  SameAnswer(Ratio(sum), AverageOf(l, of, v.eps))
  <2>1. \A r \in of : l[r] = rs[r]
    BY <1>1, <1>6, <1>10 DEF RecsOf
  <2> HIDE DEF rs, sum
  <2>2. Level(l, of, v.eps) /\ Anchored(sum, l, of, v.eps)
    BY <1>4, <1>5, <2>1, SameSums
  <2> QED BY <1>10, <2>2, GroupAnswers
<1> QED BY <1>6, <1>7, <1>9, <1>10 DEF of

-----------------------------------------------------------------------------
(* The invariant of the views.                                              *)

\* What a table holds, in the words of the lemmas.
LEMMA CodedFacts ==
  ASSUME NEW tab \in Table, Coded(tab)
  PROVE  /\ tab.rows \in Seq(DbRow) /\ Len(tab.dict) \in Nat
         /\ \A r \in DOMAIN tab.rows : tab.rows[r].g \in 1..Len(tab.dict)
         /\ tab.key # "none" => AllWritten(tab.rows, DOMAIN tab.rows)
<1>1. /\ tab.rows \in Seq(DbRow) /\ Len(tab.dict) \in Nat /\ DOMAIN tab.dict = 1..Len(tab.dict)
      /\ DOMAIN tab.rows = 1..Len(tab.rows) /\ Len(tab.rows) \in Nat
  BY TableFields
<1>2. IsFiniteSet(DOMAIN tab.rows)
  <2>1. IsFiniteSet(1..Len(tab.rows))
    BY <1>1, FS_Interval
  <2> QED BY <1>1, <2>1
<1> QED BY <1>1, <1>2 DEF Coded, AllWritten

\* The elements of a listing.
LEMMA ListingFacts ==
  ASSUME NEW s, Listing(s)
  PROVE  /\ s \in Seq({s[i] : i \in DOMAIN s}) /\ Len(s) \in Nat /\ DOMAIN s = 1..Len(s)
         /\ s = [i \in 1..Len(s) |-> s[i]]
<1> DEFINE R == {s[i] : i \in DOMAIN s}
<1>1. s \in Seq(R)
  BY DEF Listing
<1> HIDE DEF R
<1>2. Len(s) \in Nat /\ DOMAIN s = 1..Len(s) /\ s = [i \in 1..Len(s) |-> s[i]]
  BY <1>1, LenProperties
<1> QED BY <1>1, <1>2 DEF R

\* One more,
LEMMA ListingMore ==
  ASSUME NEW s, Listing(s), NEW e
  PROVE  /\ Append(s, e) = [i \in 1..(Len(s) + 1) |-> Append(s, e)[i]]
         /\ Append(s, e)[Len(s) + 1] = e /\ \A i \in 1..Len(s) : Append(s, e)[i] = s[i]
<1> DEFINE R == {s[i] : i \in DOMAIN s} \cup {e}
<1>1. s \in Seq(R) /\ e \in R
  <2>1. /\ Len(s) \in Nat /\ DOMAIN s = 1..Len(s) /\ s = [i \in 1..Len(s) |-> s[i]]
    BY ListingFacts
  <2>2. \A i \in 1..Len(s) : s[i] \in R
    BY <2>1
  <2> HIDE DEF R
  <2>3. s \in Seq(R)
    BY <2>1, <2>2
  <2> QED BY <2>3 DEF R
<1> HIDE DEF R
<1>2. /\ Append(s, e) \in Seq(R) /\ Len(Append(s, e)) = Len(s) + 1
      /\ Append(s, e)[Len(s) + 1] = e /\ \A i \in 1..Len(s) : Append(s, e)[i] = s[i]
  BY <1>1, AppendProperties
<1>3. PICK a : a = Append(s, e)
  OBVIOUS
<1>4. a \in Seq(R)
  BY <1>2, <1>3
<1>5. a = [i \in 1..Len(a) |-> a[i]]
  BY <1>4, LenProperties
<1> QED BY <1>2, <1>3, <1>5

\* and whatever has positions from 1 up.
LEMMA ListingMade ==
  ASSUME NEW n \in Nat, NEW s, s = [i \in 1..n |-> s[i]]
  PROVE  Listing(s)
<1>1. DOMAIN s = 1..n
  OBVIOUS
<1>2. s \in Seq({s[i] : i \in 1..n})
  OBVIOUS
<1> QED BY <1>1, <1>2 DEF Listing

\* The views keep the invariant when each is one of its table as that is now.
LEMMA ViewInvKept ==
  ASSUME NEW n \in Nat, views' = [i \in 1..n |-> views'[i]],
         \A i \in 1..n : Standing(views'[i], catalog', outdated'.views)
  PROVE  ViewInv'
<1>1. DOMAIN views' = 1..n
  OBVIOUS
<1>2. Listing(views')
  BY ListingMade
<1> QED BY <1>1, <1>2 DEF ViewInv, Listing

\* What may be registered.
LEMMA CodedContents ==
  ASSUME NEW c \in Contents
  PROVE  Coded(c)
<1> SUFFICES ASSUME NEW i \in DOMAIN c.rows
             PROVE  /\ c.rows[i].g \in DOMAIN c.dict /\ c.rows[i].v \in WrittenValues
                    /\ c.key # "none" => c.rows[i].k \in WrittenKeys
  BY DEF Coded
<1>1. c.rows[i].g \in DOMAIN c.dict
  BY ViewAssumption
<1>2. c.rows[i].v \in WrittenValues
  BY DEF WrittenValues
<1>3. ASSUME c.key # "none" PROVE c.rows[i].k \in WrittenKeys
  <2>1. c \in {d \in Contents : d.key # "none"}
    BY <1>3
  <2>2. c.rows[i].k \in {c.rows[j].k : j \in DOMAIN c.rows}
    OBVIOUS
  <2> QED BY <2>1, <2>2 DEF WrittenKeys
<1> QED BY <1>1, <1>2, <1>3

\* Registering a table: the views of one it replaces go with it.
LEMMA RegisterViews ==
  ASSUME DbInv, CodedInv, ViewInv, NEW t \in Tables, NEW c \in Contents, Register(t, c)
  PROVE  CodedInv' /\ ViewInv'
<1> DEFINE kept == IF t \in DOMAIN catalog THEN {i \in DOMAIN views : views[i].table # t} ELSE DOMAIN views
<1>1. catalog' = Bind(catalog, t, c)
        /\ views' = IF t \in DOMAIN catalog THEN Select(views, {i \in DOMAIN views : views[i].table # t})
                    ELSE views
  BY DEF Register
<1>a. outdated'.views = {views'[i].name : i \in DOMAIN views'} \cap outdated.views
  <2>1. outdated' = [views   |-> {views'[i].name : i \in DOMAIN views'} \cap outdated.views,
                     indexes |-> DOMAIN indexes' \cap outdated.indexes]
    BY DEF Register
  <2> QED BY <2>1
<1>2. /\ DOMAIN catalog' = DOMAIN catalog \cup {t} /\ catalog'[t] = c
      /\ \A u \in DOMAIN catalog : u # t => catalog'[u] = catalog[u]
  BY <1>1 DEF Bind
<1>3. CodedInv'
  BY <1>2, CodedContents DEF CodedInv
<1>4. /\ Listing(views)
      /\ \A i \in DOMAIN views : Standing(views[i], catalog, outdated.views)
  BY DEF ViewInv
<1>5. ASSUME NEW i \in DOMAIN views, views[i].table # t, NEW j \in DOMAIN views',
             views'[j] = views[i]
      PROVE  Standing(views'[j], catalog', outdated'.views)
  <2>1. views[i].name \in {views'[k].name : k \in DOMAIN views'}
    BY <1>5
  <2>2. views[i].name \in outdated.views => views[i].name \in outdated'.views
    BY <1>a, <2>1
  <2>3. Standing(views[i], catalog, outdated.views)
    BY <1>4
  <2>4. Standing(views[i], catalog', outdated'.views)
    BY <1>2, <1>5, <2>2, <2>3 DEF Standing
  <2> QED BY <1>5, <2>4
<1>6. CASE t \notin DOMAIN catalog
  <2>1. views' = views /\ Len(views) \in Nat /\ DOMAIN views = 1..Len(views)
          /\ views = [i \in DOMAIN views |-> views[i]]
    <3>1. Len(views) \in Nat /\ DOMAIN views = 1..Len(views) /\ views = [i \in 1..Len(views) |-> views[i]]
      BY <1>4, ListingFacts
    <3>2. views' = views
      BY <1>1, <1>6
    <3> QED BY <3>1, <3>2
  <2>2. \A i \in DOMAIN views : views[i].table # t
    BY <1>4, <1>6 DEF Standing
  <2>3. ViewInv'
    BY <1>5, <2>1, <2>2, ViewInvKept
  <2> QED BY <1>3, <2>3
<1>7. CASE t \in DOMAIN catalog
  <2> DEFINE K == {i \in DOMAIN views : views[i].table # t}
             d == Cardinality(K)
             R == {views[i] : i \in DOMAIN views}
  <2>1. views \in Seq(R) /\ DOMAIN views = 1..Len(views) /\ Len(views) \in Nat
    BY <1>4, ListingFacts
  <2>2. views' = Select(views, K)
    BY <1>1, <1>7
  <2>3. K \in SUBSET DOMAIN views /\ K \in SUBSET (1..Len(views))
          /\ \A i \in K : i \in DOMAIN views /\ views[i].table # t
    BY <2>1
  <2> HIDE DEF K, R
  <2>4. d \in Nat
    BY <2>1, <2>3, RankFacts
  <2>5. DOMAIN Select(views, K) = 1..d /\ \A r \in 1..d : Select(views, K)[r] = views[Place(K, r)]
    BY <2>1, <2>3, SelectPlaces
  <2>6. \A r \in 1..d : Place(K, r) \in K
    BY <2>1, <2>3, PlacesOfSet
  <2>7. views' = [i \in 1..d |-> views'[i]]
    BY <2>2, <2>5 DEF Select
  <2> HIDE DEF d
  <2>8. DOMAIN views' = 1..d
    BY <2>7
  <2>9. ViewInv'
    BY <1>5, <2>2, <2>3, <2>4, <2>5, <2>6, <2>7, <2>8, ViewInvKept
  <2> QED BY <1>3, <2>9
<1> QED BY <1>6, <1>7

\* Attaching a key column: the views of the table are outdated.
LEMMA AttachViews ==
  ASSUME DbInv, CodedInv, ViewInv, NEW t \in DOMAIN catalog,
         NEW ks \in [DOMAIN catalog[t].rows -> KeyValues], NEW dtype \in {"F64", "F32"},
         AttachKey(t, ks, dtype)
  PROVE  CodedInv' /\ ViewInv'
<1> DEFINE tab  == catalog[t]
           next == Keyed(tab, ks, dtype)
<1>1. catalog' = [catalog EXCEPT ![t] = next] /\ UNCHANGED views
        /\ outdated'.views = outdated.views \cup ViewsOf(t)
  BY DEF AttachKey, Outdate
<1>2. Coded(next)
  <2>1. Coded(tab) /\ tab \in Table
    BY DEF CodedInv, DbInv, CatalogInv
  <2>2. next.dict = tab.dict /\ next.rows = [i \in DOMAIN tab.rows |-> [tab.rows[i] EXCEPT !.k = ks[i]]]
    BY DEF Keyed
  <2>3. \A i \in DOMAIN tab.rows : tab.rows[i] \in DbRow /\ ks[i] \in WrittenKeys
    BY <2>1, TableFields, ElementOfSeq DEF WrittenKeys
  <2>4. \A i \in DOMAIN tab.rows : LET r == [tab.rows[i] EXCEPT !.k = ks[i]] IN
          r.g = tab.rows[i].g /\ r.v = tab.rows[i].v /\ r.k = ks[i]
    BY <2>3 DEF DbRow
  <2> HIDE DEF next
  <2> QED BY <2>1, <2>2, <2>3, <2>4 DEF Coded
<1> HIDE DEF next
<1>3. /\ DOMAIN catalog' = DOMAIN catalog /\ catalog'[t] = next
      /\ \A u \in DOMAIN catalog : u # t => catalog'[u] = catalog[u]
  BY <1>1
<1>4. CodedInv'
  BY <1>2, <1>3 DEF CodedInv
<1>5. ASSUME NEW i \in DOMAIN views
      PROVE  Standing(views[i], catalog', outdated'.views)
  <2>1. Standing(views[i], catalog, outdated.views)
    BY DEF ViewInv
  <2>2. views[i].table = t => views[i].name \in outdated'.views
    BY <1>1 DEF ViewsOf
  <2> QED BY <1>1, <1>3, <2>1, <2>2 DEF Standing
<1>6. ViewInv'
  BY <1>1, <1>5 DEF ViewInv, Listing
<1> QED BY <1>4, <1>6

\* Creating a view.
LEMMA CreateViews ==
  ASSUME DbInv, CodedInv, ViewInv, NEW t \in DOMAIN catalog, NEW name \in ViewNames,
         NEW x \in ViewXs, NEW eps \in ViewEps, CreateView(name, t, x, eps)
  PROVE  CodedInv' /\ ViewInv'
<1> DEFINE tab == catalog[t]
           v   == BuildView(name, t, tab, x, eps)
           n   == Len(views)
<1>1. tab.key # "none" /\ eps # EpsZero /\ views' = Append(views, v) /\ UNCHANGED catalog
        /\ \A i \in DOMAIN views : views[i].name # name
  BY DEF CreateView
<1>a. outdated'.views = outdated.views \ {name}
  BY DEF CreateView, DbInv, Recorded
<1>2. Viewed(x, eps) /\ tab \in Table /\ Coded(tab)
  BY <1>1 DEF Viewed, CodedInv, DbInv, CatalogInv
<1>3. ViewOf(v, tab.rows, DOMAIN tab.rows, Len(tab.dict)) /\ v.table = t /\ v.name = name
  <2> HIDE DEF tab
  <2>1. \A r \in DOMAIN tab.rows : tab.rows[r].g \in DOMAIN tab.dict
    BY <1>2 DEF Coded
  <2>2. AllWritten(tab.rows, DOMAIN tab.rows)
    BY <1>1, <1>2, CodedFacts
  <2> QED BY <1>2, <2>1, <2>2, BuiltExact
<1> HIDE DEF v
<1>4. n \in Nat /\ DOMAIN views = 1..n /\ Listing(views)
  BY ListingFacts DEF ViewInv
<1>5. /\ Append(views, v) = [i \in 1..(n + 1) |-> Append(views, v)[i]]
      /\ Append(views, v)[n + 1] = v /\ \A i \in 1..n : Append(views, v)[i] = views[i]
  BY <1>4, ListingMore
<1>6. ASSUME NEW i \in 1..(n + 1)
      PROVE  Standing(views'[i], catalog', outdated'.views)
  <2>1. CASE i = n + 1
    BY <1>1, <1>3, <1>5, <2>1 DEF OfTable, Standing, IsView, ViewOf, Shaped
  <2>2. CASE i # n + 1
    <3>1. i \in 1..n
      BY <1>4, <2>2
    <3>2. views[i].name \in outdated.views => views[i].name \in outdated'.views
      BY <1>1, <1>a, <1>4, <3>1
    <3> QED BY <1>1, <1>4, <1>5, <3>1, <3>2 DEF ViewInv, Standing
  <2> QED BY <2>1, <2>2
<1>7. ViewInv'
  <2>1. n + 1 \in Nat
    BY <1>4
  <2> QED BY <1>1, <1>5, <1>6, <2>1, ViewInvKept
<1> QED BY <1>1, <1>7 DEF CodedInv

\* The view v becomes w, a view of the table if v is one.
Follows(w, v, next) == /\ IsView(w) /\ SameView(w, v)
                       /\ v.name \notin outdated.views => OfTable(w, next)

\* A table becomes next, and its views become views of that.
Follow(t, next) ==
  /\ catalog' = [catalog EXCEPT ![t] = next]
  /\ views' = [i \in DOMAIN views |-> views'[i]]
  /\ \A i \in DOMAIN views : IF views[i].table = t THEN Follows(views'[i], views[i], next)
                             ELSE views'[i] = views[i]
  /\ UNCHANGED outdated

\* A write to a table that its views follow keeps the invariant.
LEMMA WrittenViews ==
  ASSUME CodedInv, ViewInv, NEW t \in DOMAIN catalog, NEW next, Coded(next), Follow(t, next)
  PROVE  CodedInv' /\ ViewInv'
<1>a. /\ catalog' = [catalog EXCEPT ![t] = next]
      /\ views' = [i \in DOMAIN views |-> views'[i]]
      /\ \A i \in DOMAIN views : IF views[i].table = t THEN Follows(views'[i], views[i], next)
                                 ELSE views'[i] = views[i]
      /\ UNCHANGED outdated
  BY DEF Follow
<1>1. /\ DOMAIN catalog' = DOMAIN catalog /\ catalog'[t] = next
      /\ \A u \in DOMAIN catalog : u # t => catalog'[u] = catalog[u]
  BY <1>a
<1>2. CodedInv'
  BY <1>1 DEF CodedInv
<1> DEFINE n == Len(views)
<1>3. n \in Nat /\ DOMAIN views = 1..n
  BY ListingFacts DEF ViewInv
<1> HIDE DEF n
<1>4. views' = [i \in 1..n |-> views'[i]]
  BY <1>a, <1>3
<1>5. ASSUME NEW i \in 1..n
      PROVE  Standing(views'[i], catalog', outdated'.views)
  <2>1. i \in DOMAIN views
    BY <1>3
  <2>2. CASE views[i].table = t
    BY <1>a, <1>1, <2>1, <2>2 DEF Follows, SameView, Standing
  <2>3. CASE views[i].table # t
    BY <1>a, <1>1, <2>1, <2>3 DEF ViewInv, Standing
  <2> QED BY <2>2, <2>3
<1>6. ViewInv'
  BY <1>3, <1>4, <1>5, ViewInvKept
<1> QED BY <1>2, <1>6

\* A label that is new takes the next code.
LEMMA NextCode ==
  ASSUME NEW old \in Seq(Labels), NEW label \in Labels,
         NEW dict, Known(old, label) => dict = old,
         ~ Known(old, label) => dict = Append(old, label),
         NEW g, g = CodeOf(dict, label)
  PROVE  /\ Len(dict) \in Nat /\ DOMAIN dict = 1..Len(dict) /\ g \in 1..Len(dict)
         /\ Len(dict) = Larger(Len(old), g) /\ DOMAIN old \in SUBSET DOMAIN dict
<1>1. Len(old) \in Nat /\ DOMAIN old = 1..Len(old)
  BY LenProperties
<1>2. CASE Known(old, label)
  <2>1. dict = old /\ \E c \in DOMAIN dict : dict[c] = label
    BY <1>2 DEF Known
  <2>2. g \in DOMAIN dict
    BY <2>1 DEF CodeOf
  <2>3. \A n \in Nat : \A c \in 1..n : Larger(n, c) = n
    BY DEF Larger
  <2>4. g \in 1..Len(old)
    BY <1>1, <2>1, <2>2
  <2>5. Len(old) = Larger(Len(old), g)
    BY <1>1, <2>3, <2>4
  <2> QED BY <1>1, <2>1, <2>4, <2>5
<1>3. CASE ~ Known(old, label)
  <2>1. dict = Append(old, label)
    BY <1>3
  <2> DEFINE l == Len(old)
  <2>2. /\ dict \in Seq(Labels) /\ Len(dict) = l + 1 /\ dict[l + 1] = label
        /\ \A i \in 1..l : dict[i] = old[i]
    BY <2>1, AppendProperties
  <2>3. DOMAIN dict = 1..(l + 1)
    BY <2>2, LenProperties
  <2>4. \A i \in 1..l : dict[i] # label
    BY <1>1, <1>3, <2>2 DEF Known
  <2>5. g \in DOMAIN dict /\ dict[g] = label
    <3>1. l + 1 \in DOMAIN dict
      BY <1>1, <2>3
    <3> QED BY <2>2, <3>1 DEF CodeOf
  <2> HIDE DEF l
  <2>6. l \in Nat
    BY <1>1 DEF l
  <2>7. g = l + 1
    BY <2>3, <2>4, <2>5, <2>6
  <2>8. Larger(l, g) = l + 1 /\ DOMAIN old = 1..l
    BY <1>1, <2>6, <2>7 DEF Larger, l
  <2> QED BY <2>2, <2>3, <2>5, <2>6, <2>8 DEF l
<1> QED BY <1>2, <1>3

\* Inserting a row.
LEMMA InsertViews ==
  ASSUME DbInv, CodedInv, ViewInv, NEW t \in DOMAIN catalog, NEW new \in NewRows, InsertRow(t, new)
  PROVE  CodedInv' /\ ViewInv'
<1> DEFINE tab  == catalog[t]
           rows == tab.rows
           old  == tab.dict
           dict == IF Known(tab.dict, new.label) THEN tab.dict ELSE Append(tab.dict, new.label)
           g    == CodeOf(dict, new.label)
           row  == [g |-> g, v |-> new.v, k |-> IF tab.key = "none" THEN NaN ELSE new.k]
           more == Append(rows, row)
           next == [rows |-> more, dict |-> dict, key |-> tab.key]
           f    == [i \in DOMAIN views |->
                      IF views[i].table = t THEN ApplyInsert(views[i], row) ELSE views[i]]
<1>1. tab \in Table /\ Coded(tab)
  BY DEF DbInv, CatalogInv, CodedInv
<1>2. catalog' = [catalog EXCEPT ![t] = next] /\ views' = f /\ UNCHANGED outdated
  BY DEF InsertRow
<1>3. /\ Len(dict) \in Nat /\ DOMAIN dict = 1..Len(dict) /\ g \in 1..Len(dict)
      /\ Len(dict) = Larger(Len(old), g) /\ DOMAIN old \in SUBSET DOMAIN dict
  <2>1. new.label \in Labels /\ old \in Seq(Labels)
    BY <1>1, TableFields DEF Labels
  <2>2. /\ Known(old, new.label) => dict = old
        /\ ~ Known(old, new.label) => dict = Append(old, new.label)
        /\ g = CodeOf(dict, new.label)
    OBVIOUS
  <2> HIDE DEF old, dict, g
  <2> QED BY <2>1, <2>2, NextCode
<1> HIDE DEF dict, g
<1>4. row.g = g /\ row.v \in WrittenValues /\ (tab.key # "none" => row.k \in WrittenKeys)
  BY DEF WrittenValues, WrittenKeys
<1>5. row \in DbRow
  <2>1. g \in Nat
    BY <1>3
  <2> QED BY <2>1, DatabaseAssumption DEF DbRow, Scalars
<1> HIDE DEF row
<1>6. rows \in Seq(DbRow) /\ Len(rows) \in Nat /\ DOMAIN rows = 1..Len(rows) /\ Len(old) \in Nat
        /\ DOMAIN old = 1..Len(old)
  BY <1>1, TableFields
<1> HIDE DEF tab
<1>7. next.rows = more /\ next.dict = dict /\ next.key = tab.key
  OBVIOUS
<1>8. Coded(next)
  <2>1. /\ more \in Seq(DbRow) /\ Len(more) = Len(rows) + 1 /\ more[Len(rows) + 1] = row
        /\ \A i \in 1..Len(rows) : more[i] = rows[i]
    <3> HIDE DEF rows
    <3> QED BY <1>5, <1>6, AppendProperties
  <2>2. DOMAIN more = 1..(Len(rows) + 1)
    BY <1>6, <2>1
  <2> HIDE DEF more, next
  <2>3. ASSUME NEW i \in DOMAIN more
        PROVE  /\ more[i].g \in DOMAIN dict /\ more[i].v \in WrittenValues
               /\ tab.key # "none" => more[i].k \in WrittenKeys
    <3>1. CASE i = Len(rows) + 1
      BY <1>3, <1>4, <2>1, <3>1
    <3>2. CASE i # Len(rows) + 1
      <4>1. i \in 1..Len(rows) /\ more[i] = rows[i]
        BY <1>6, <2>1, <2>2, <3>2
      <4>2. /\ rows[i].g \in DOMAIN old /\ rows[i].v \in WrittenValues
            /\ tab.key # "none" => rows[i].k \in WrittenKeys
        BY <1>1, <1>6, <4>1 DEF Coded
      <4> QED BY <1>3, <4>1, <4>2
    <3> QED BY <3>1, <3>2
  <2> QED BY <1>7, <2>3 DEF Coded
<1>9. ASSUME NEW i \in DOMAIN views, views[i].table = t
      PROVE  Follows(ApplyInsert(views[i], row), views[i], next)
  <2> DEFINE v == views[i]
             w == ApplyInsert(v, row)
  <2>a. IsView(v) /\ (v.name \notin outdated.views => OfTable(v, tab))
    BY <1>9 DEF ViewInv, Standing, tab
  <2> HIDE DEF v
  <2>b. IsView(w) /\ SameView(w, v)
    BY <2>a, InsertedSame
  <2> SUFFICES ASSUME v.name \notin outdated.views
               PROVE  OfTable(w, next)
    BY <2>b DEF Follows, v, w
  <2>1. OfTable(v, tab)
    BY <2>a
  <2>2. tab.key # "none" /\ ViewOf(v, rows, DOMAIN rows, Len(old))
    BY <2>1 DEF OfTable
  <2>3. AllWritten(rows, DOMAIN rows) /\ \A r \in DOMAIN rows : rows[r].g \in 1..Len(old)
    BY <1>1, <2>2, CodedFacts
  <2>4. row.g \in Nat \ {0} /\ row.v \in WrittenValues /\ row.k \in WrittenKeys
    BY <1>3, <1>4, <2>2
  <2> HIDE DEF old, rows
  <2>5. Len(dict) = Larger(Len(old), row.g)
    BY <1>3, <1>4
  <2>6. ViewOf(w, more, DOMAIN more, Len(dict)) /\ SameView(w, v)
    BY <1>5, <1>6, <2>2, <2>3, <2>4, <2>5, InsertedExact
  <2> HIDE DEF w, more, next
  <2> QED BY <1>7, <2>2, <2>6 DEF OfTable
<1> HIDE DEF next
<1>10. Follow(t, next)
  BY <1>2, <1>9 DEF Follow
<1> QED BY <1>8, <1>10, WrittenViews

\* Deleting rows.
LEMMA DeleteViews ==
  ASSUME DbInv, CodedInv, ViewInv, NEW t \in DOMAIN catalog, NEW p, DeleteWhere(t, p)
  PROVE  CodedInv' /\ ViewInv'
<1> DEFINE tab    == catalog[t]
           rows   == tab.rows
           doomed == {i \in DOMAIN rows : Holds(p, rows[i])}
           gone   == Select(rows, doomed)
           rest   == Select(rows, DOMAIN rows \ doomed)
           next   == [tab EXCEPT !.rows = rest]
           m      == Len(tab.dict)
           f      == [i \in DOMAIN views |->
                       IF views[i].table = t THEN DeleteRows(views[i], gone, rest) ELSE views[i]]
<1>1. tab \in Table /\ Coded(tab)
  BY DEF DbInv, CatalogInv, CodedInv
<1>2. catalog' = [catalog EXCEPT ![t] = next] /\ views' = f /\ UNCHANGED outdated
  BY DEF DeleteWhere
<1>3. doomed \in SUBSET DOMAIN rows
  OBVIOUS
<1> HIDE DEF doomed
<1>4. rows \in Seq(DbRow) /\ m \in Nat /\ \A r \in DOMAIN rows : rows[r].g \in 1..m
  BY <1>1, CodedFacts
<1>5. next.rows = rest /\ next.dict = tab.dict /\ next.key = tab.key
  BY <1>1 DEF Table
<1> HIDE DEF tab
<1>6. Coded(next)
  <2> DEFINE kept == DOMAIN rows \ doomed
             d    == Cardinality(kept)
  <2>1. DOMAIN rows = 1..Len(rows) /\ Len(rows) \in Nat /\ kept \in SUBSET (1..Len(rows))
    BY <1>4, LenProperties
  <2> HIDE DEF rows, kept
  <2>2. DOMAIN Select(rows, kept) = 1..d /\ \A r \in 1..d : Select(rows, kept)[r] = rows[Place(kept, r)]
    BY <1>4, <2>1, SelectPlaces
  <2>3. \A r \in 1..d : Place(kept, r) \in kept
    BY <2>1, PlacesOfSet
  <2>4. ASSUME NEW r \in DOMAIN rest
        PROVE  \E i \in DOMAIN rows : rest[r] = rows[i]
    BY <2>1, <2>2, <2>3 DEF kept
  <2> HIDE DEF next, rest
  <2>5. ASSUME NEW r \in DOMAIN rest
        PROVE  /\ rest[r].g \in DOMAIN tab.dict /\ rest[r].v \in WrittenValues
               /\ tab.key # "none" => rest[r].k \in WrittenKeys
    <3>1. PICK i \in DOMAIN rows : rest[r] = rows[i]
      BY <2>4
    <3> QED BY <1>1, <3>1 DEF Coded, rows
  <2> QED BY <1>5, <2>5 DEF Coded
<1>7. ASSUME NEW i \in DOMAIN views, views[i].table = t
      PROVE  Follows(DeleteRows(views[i], gone, rest), views[i], next)
  <2> DEFINE v == views[i]
             w == DeleteRows(v, gone, rest)
  <2>a. IsView(v) /\ (v.name \notin outdated.views => OfTable(v, tab))
    BY <1>7 DEF ViewInv, Standing, tab
  <2> HIDE DEF v
  <2>b. IsView(w) /\ SameView(w, v)
    <3>1. DOMAIN rows = 1..Len(rows) /\ Len(rows) \in Nat /\ doomed \in SUBSET (1..Len(rows))
      BY <1>3, <1>4, LenProperties
    <3>2. DOMAIN gone = 1..Cardinality(doomed) /\ Cardinality(doomed) \in Nat
      <4> HIDE DEF rows
      <4> QED BY <1>4, <3>1, SelectPlaces, RankFacts
    <3> HIDE DEF gone, rest
    <3> QED BY <2>a, <3>2, DeletedSame
  <2> SUFFICES ASSUME v.name \notin outdated.views
               PROVE  OfTable(w, next)
    BY <2>b DEF Follows, v, w
  <2>1. OfTable(v, tab)
    BY <2>a
  <2>2. tab.key # "none" /\ ViewOf(v, rows, DOMAIN rows, m)
    BY <2>1 DEF OfTable
  <2>3. AllWritten(rows, DOMAIN rows)
    BY <1>1, <2>2, CodedFacts
  <2> HIDE DEF rows, m
  <2>4. /\ rest \in Seq(DbRow) /\ AllWritten(rest, DOMAIN rest)
        /\ \A g : \E at : Moves(at, rows, InGroup(rows, g) \ doomed, rest, InGroup(rest, g))
    BY <1>3, <1>4, <2>3, RowsThatStay
  <2>5. ViewOf(w, rest, DOMAIN rest, m) /\ SameView(w, v)
    <3> HIDE DEF rest
    <3> QED BY <1>3, <1>4, <2>2, <2>3, <2>4, DeletedTo
  <2> HIDE DEF w, rest, next
  <2> QED BY <1>5, <2>2, <2>5 DEF OfTable, m
<1> HIDE DEF next
<1>8. Follow(t, next)
  BY <1>2, <1>7 DEF Follow
<1> QED BY <1>6, <1>8, WrittenViews

\* There are no views before the first table.
LEMMA ViewInvInit == DbInit => CodedInv /\ ViewInv
<1> SUFFICES ASSUME DbInit PROVE CodedInv /\ ViewInv
  OBVIOUS
<1>1. DOMAIN catalog = {} /\ DOMAIN views = {} /\ views \in Seq({})
  BY DEF DbInit
<1>2. {views[i] : i \in DOMAIN views} = {}
  BY <1>1
<1> QED BY <1>1, <1>2 DEF CodedInv, ViewInv, Listing

\* Every call keeps the invariant of the views.
LEMMA ViewInvStep == DbInv /\ CodedInv /\ ViewInv /\ [DbNext]_dbVars => CodedInv' /\ ViewInv'
<1> SUFFICES ASSUME DbInv, CodedInv, ViewInv, [DbNext]_dbVars PROVE CodedInv' /\ ViewInv'
  OBVIOUS
<1>1. CASE UNCHANGED << catalog, views, outdated.views >>
  BY <1>1 DEF CodedInv, ViewInv
<1>2. CASE Take \/ UNCHANGED dbVars
  BY <1>1, <1>2 DEF Take, dbVars
<1>3. ASSUME NEW t \in Tables, NEW c \in Contents, Register(t, c) PROVE CodedInv' /\ ViewInv'
  BY <1>3, RegisterViews
<1>4. ASSUME NEW t \in DOMAIN catalog,
             \/ \E ks \in [DOMAIN catalog[t].rows -> KeyValues], dtype \in {"F64", "F32"} :
                  AttachKey(t, ks, dtype)
             \/ \E name \in ViewNames, x \in ViewXs, eps \in ViewEps : CreateView(name, t, x, eps)
             \/ CreateIndex(t)
             \/ \E new \in NewRows : InsertRow(t, new)
             \/ \E p \in Preds : DeleteWhere(t, p)
      PROVE  CodedInv' /\ ViewInv'
  <2>1. ASSUME NEW ks \in [DOMAIN catalog[t].rows -> KeyValues], NEW dtype \in {"F64", "F32"},
               AttachKey(t, ks, dtype)
        PROVE  CodedInv' /\ ViewInv'
    BY <2>1, AttachViews
  <2>2. ASSUME NEW name \in ViewNames, NEW x \in ViewXs, NEW eps \in ViewEps,
               CreateView(name, t, x, eps)
        PROVE  CodedInv' /\ ViewInv'
    BY <2>2, CreateViews
  <2>3. CASE CreateIndex(t)
    <3>1. outdated'.views = outdated.views
      BY <2>3 DEF CreateIndex, DbInv, Recorded
    <3> QED BY <1>1, <2>3, <3>1 DEF CreateIndex
  <2>4. ASSUME NEW new \in NewRows, InsertRow(t, new) PROVE CodedInv' /\ ViewInv'
    BY <2>4, InsertViews
  <2>5. ASSUME NEW p \in Preds, DeleteWhere(t, p) PROVE CodedInv' /\ ViewInv'
    BY <2>5, DeleteViews
  <2> QED BY <1>4, <2>1, <2>2, <2>3, <2>4, <2>5
<1>5. ASSUME NEW q \in Queries, Run(q) PROVE CodedInv' /\ ViewInv'
  BY <1>1, <1>5 DEF Run
<1> QED BY <1>2, <1>3, <1>4, <1>5 DEF DbNext

\* A view that keeps the invariant says what its rows say.
LEMMA ViewAnswers == DbInv /\ CodedInv /\ ViewInv => ViewsExact
<1> SUFFICES ASSUME DbInv, CodedInv, ViewInv, NEW i \in DOMAIN views,
                    views[i].name \notin outdated.views
             PROVE  Summarises(views[i], catalog[views[i].table].rows)
  BY DEF ViewsExact
<1> DEFINE v   == views[i]
           tab == catalog[v.table]
           rows == tab.rows
           m   == Len(tab.dict)
           l   == [r \in DOMAIN rows |-> [s |-> rows[r].k * v.x, v |-> rows[r].v]]
<1>1. OfTable(v, tab) /\ tab \in Table /\ Coded(tab)
  BY DEF DbInv, CatalogInv, CodedInv, ViewInv, Standing
<1> HIDE DEF v, tab
<1>2. tab.key # "none" /\ ViewOf(v, rows, DOMAIN rows, m)
  BY <1>1 DEF OfTable
<1>3. AllWritten(rows, DOMAIN rows) /\ m \in Nat /\ \A r \in DOMAIN rows : rows[r].g \in 1..m
  BY <1>1, <1>2, CodedFacts
<1>4. DOMAIN v.groups = 1..m
  BY <1>2 DEF ViewOf, Shaped
<1>5. ASSUME NEW g \in DOMAIN v.groups
      PROVE  LET of   == InGroup(rows, g)
                 sum  == v.groups[g].sum
             IN  /\ v.groups[g].n = Cardinality(of)
                 /\ sum.den # NaN
                 /\ (g \in Covered(v) <=> of # {})
                 /\ (\E r \in of : rows[r].v = NaN) => sum.num = NaN
                 /\ IF sum.num = NaN THEN NaN \in WrittenValues
                    ELSE SameAnswer(Ratio(sum), AverageOf(l, of, v.eps))
  <2> HIDE DEF rows, m
  <2>1. PICK a : a = l
    OBVIOUS
  <2> QED BY <1>2, <1>3, <2>1, ViewExact
<1> QED BY <1>3, <1>4, <1>5 DEF v, tab, Summarises

\* Tables hold what was written to them, and each group of a view is the two sums of the rows of
\* its table under its code, anchored at a score no lower than theirs, whatever is registered,
\* inserted and deleted, until its table is given other keys.
THEOREM ViewInvariant == DbSpec => [](CodedInv /\ ViewInv)
<1>1. DbInit => DbInv /\ CodedInv /\ ViewInv
  BY DbInvInit, ViewInvInit
<1>2. (DbInv /\ CodedInv /\ ViewInv) /\ [DbNext]_dbVars => (DbInv /\ CodedInv /\ ViewInv)'
  BY DbInvStep, ViewInvStep
<1> QED BY <1>1, <1>2, PTL DEF DbSpec

\* A view says of every label what the rows of its table say now, unless the table was given
\* other keys since.
THEOREM ViewsExactHolds == DbSpec => []ViewsExact
BY DbInvariant, ViewInvariant, ViewAnswers, PTL

-----------------------------------------------------------------------------
(* What a query means, by the codes and the labels of its table.            *)

\* The labels of a dictionary differ.
LabelsDiffer(dict) == \A g, h \in DOMAIN dict : dict[g] = dict[h] => g = h

\* The labels of every table differ.
LabelInv == \A t \in DOMAIN catalog : LabelsDiffer(catalog[t].dict)

\* What a query averages, and over a group.
RecordsFor(t, q) == [i \in DOMAIN t.rows |-> [s |-> IF Soft(q) THEN ScoreOf(t.rows[i], q) ELSE 0,
                                             v |-> t.rows[i].v]]
MeanOf(t, q, g) == AverageOf(RecordsFor(t, q), RowsIn(t, q, g), q.eps)

\* A table as it may be, whose labels differ.
Sound(t) == t \in Table /\ Coded(t) /\ LabelsDiffer(t.dict)

\* The rows of a label are those of its code.
LEMMA RowsOfLabel ==
  ASSUME NEW t, Sound(t), NEW q, NEW g \in DOMAIN t.dict
  PROVE  {i \in Admitted(t, q) : t.dict[t.rows[i].g] = t.dict[g]} = RowsIn(t, q, g)
<1>1. \A i \in DOMAIN t.rows : t.rows[i].g \in DOMAIN t.dict
  BY DEF Sound, Coded
<1>2. ASSUME NEW i \in RowsIn(t, q, g)
      PROVE  i \in Admitted(t, q) /\ t.dict[t.rows[i].g] = t.dict[g]
  BY DEF Admitted, RowsIn
<1>3. ASSUME NEW i \in Admitted(t, q), t.dict[t.rows[i].g] = t.dict[g]
      PROVE  i \in RowsIn(t, q, g)
  <2>1. PICK h \in DOMAIN t.dict : i \in RowsIn(t, q, h)
    BY DEF Admitted
  <2>2. t.rows[i].g = h
    BY <2>1 DEF RowsIn
  <2>3. h = g
    BY <1>3, <2>2 DEF Sound, LabelsDiffer
  <2> QED BY <2>1, <2>3
<1> QED BY <1>2, <1>3

\* What a query means, by the codes of its table.
ByGroup(m, t, q) ==
  /\ DOMAIN m = {t.dict[g] : g \in {h \in DOMAIN t.dict : MeanOf(t, q, h) # None}}
  /\ \A g \in DOMAIN t.dict : MeanOf(t, q, g) # None => m[t.dict[g]] = MeanOf(t, q, g)

\* A query means of the label of each code the average of the rows of that code.
LEMMA MeaningIs ==
  ASSUME NEW q, NEW t, t = catalog[q.table], Sound(t)
  PROVE  ByGroup(Meaning(q), t, q)
<1> DEFINE avg(l) == AverageOf(RecordsFor(t, q),
                               {i \in Admitted(t, q) : t.dict[t.rows[i].g] = l}, q.eps)
           ls == {t.dict[g] : g \in DOMAIN t.dict}
<1>1. Meaning(q) = [l \in {m \in ls : avg(m) # None} |-> avg(l)]
  BY DEF Meaning, RecordsFor
<1>2. \A g \in DOMAIN t.dict : avg(t.dict[g]) = MeanOf(t, q, g)
  BY RowsOfLabel DEF MeanOf
<1> HIDE DEF avg
<1>3. {m \in ls : avg(m) # None} = {t.dict[g] : g \in {h \in DOMAIN t.dict : MeanOf(t, q, h) # None}}
  BY <1>2
<1> QED BY <1>1, <1>2, <1>3 DEF ByGroup

\* The answers of some groups, under their labels.
Under(of, t, f) == /\ DOMAIN of = {t.dict[g] : g \in DOMAIN f}
                   /\ \A g \in DOMAIN f : of[t.dict[g]] = f[g]

\* Labels that differ carry over the answers of their codes.
LEMMA LabelledIs ==
  ASSUME NEW t, LabelsDiffer(t.dict), NEW f, DOMAIN f \in SUBSET DOMAIN t.dict
  PROVE  Under(Labelled(t, f), t, f)
<1>1. DOMAIN Labelled(t, f) = {t.dict[g] : g \in DOMAIN f}
  BY DEF Labelled
<1>2. ASSUME NEW g \in DOMAIN f
      PROVE  Labelled(t, f)[t.dict[g]] = f[g]
  <2>1. (CHOOSE h \in DOMAIN f : t.dict[h] = t.dict[g]) = g
    BY DEF LabelsDiffer
  <2> QED BY <2>1 DEF Labelled
<1> QED BY <1>1, <1>2 DEF Under

\* An answer that is what the query means, but for a NaN where via admits one.
Right(of, m, via) ==
  /\ DOMAIN m \subseteq DOMAIN of
  /\ \A l \in DOMAIN of : IF of[l] = NaN THEN via # "fused"
                          ELSE l \in DOMAIN m /\ SameAnswer(of[l], m[l])

\* An answer of groups is right when that of each is.
LEMMA RightByGroup ==
  ASSUME NEW q, NEW t, t = catalog[q.table], Sound(t), NEW via,
         NEW f, DOMAIN f \in SUBSET DOMAIN t.dict,
         \A h \in DOMAIN t.dict : MeanOf(t, q, h) # None => h \in DOMAIN f,
         \A g \in DOMAIN f : IF f[g] = NaN THEN via # "fused"
                             ELSE MeanOf(t, q, g) # None /\ SameAnswer(f[g], MeanOf(t, q, g))
  PROVE  Right(Labelled(t, f), Meaning(q), via)
<1> DEFINE of == Labelled(t, f)
           m  == Meaning(q)
<1>1. ByGroup(m, t, q)
  BY MeaningIs
<1>2. Under(of, t, f)
  <2>1. LabelsDiffer(t.dict)
    BY DEF Sound
  <2> QED BY <2>1, LabelledIs
<1> HIDE DEF of, m
<1>3. DOMAIN m \subseteq DOMAIN of
  BY <1>1, <1>2 DEF ByGroup, Under
<1>4. ASSUME NEW l \in DOMAIN of
      PROVE  IF of[l] = NaN THEN via # "fused" ELSE l \in DOMAIN m /\ SameAnswer(of[l], m[l])
  <2>1. PICK g \in DOMAIN f : l = t.dict[g]
    BY <1>2 DEF Under
  <2>2. of[l] = f[g] /\ g \in DOMAIN t.dict
    BY <1>2, <2>1 DEF Under
  <2>3. CASE f[g] = NaN
    BY <2>2, <2>3
  <2>4. CASE f[g] # NaN
    <3>1. MeanOf(t, q, g) # None /\ SameAnswer(f[g], MeanOf(t, q, g))
      BY <2>4
    <3>2. l \in DOMAIN m /\ m[l] = MeanOf(t, q, g)
      BY <1>1, <2>1, <2>2, <3>1 DEF ByGroup
    <3> QED BY <2>2, <2>4, <3>1, <3>2
  <2> QED BY <2>3, <2>4
<1> QED BY <1>3, <1>4 DEF Right, of, m

-----------------------------------------------------------------------------
(* Scores, and the fused scan.                                              *)

\* The rows of K that have a value.
Valued(t, K) == {i \in K : t.rows[i].v # NaN}

\* The rows at K have finite scores.
ScoresAt(t, q, K) ==
  \A i \in K : /\ ScoredRows(t, q)[i].s = ScoreOf(t.rows[i], q) /\ ScoreOf(t.rows[i], q) \in Int
               /\ NegInf < ScoreOf(t.rows[i], q) /\ ScoreOf(t.rows[i], q) < PosInf
               /\ ScoredRows(t, q)[i].v = t.rows[i].v /\ t.rows[i].v \in Int \cup {NaN}

\* A query whose plans score rows, and the table it is asked of.
Scorable(t, q) == Sound(t) /\ t.key # "none" /\ q \in Queries /\ q.x \in Int /\ Soft(q)

\* Every row of a table is scored finitely by a query that can be asked of it.
LEMMA RowsScored ==
  ASSUME NEW t, NEW q, Scorable(t, q), NEW K \in SUBSET DOMAIN t.rows
  PROVE  ScoresAt(t, q, K) /\ IsFiniteSet(K) /\ q.eps \in Nat \cup {EpsZero} /\ q.eps # EpsInf
<1>1. AllWritten(t.rows, DOMAIN t.rows)
  BY CodedFacts DEF Scorable, Sound
<1>2. IsFiniteSet(K) /\ \A i \in K : t.rows[i].v \in WrittenValues /\ t.rows[i].k \in WrittenKeys
  BY <1>1, FS_Subset DEF AllWritten
<1>3. /\ q.eps \in Nat \cup {EpsZero} /\ q.eps # EpsInf /\ q.x \in Int
      /\ \A k \in WrittenKeys : NegInf < k * q.x /\ k * q.x < PosInf
  BY QueryAssumption DEF Scorable, Soft
<1>4. ASSUME NEW i \in K
      PROVE  /\ ScoreOf(t.rows[i], q) = t.rows[i].k * q.x /\ t.rows[i].k * q.x \in Int
             /\ t.rows[i].v \in Int \cup {NaN}
  <2>1. t.rows[i].k \in Int /\ t.rows[i].v \in Int \cup {NaN}
    BY <1>2, WrittenScalars
  <2>2. t.rows[i].k # NaN
    BY <2>1, NotANumber
  <2>3. \A a, b \in Int : a * b \in Int
    OBVIOUS
  <2> QED BY <1>3, <2>1, <2>2, <2>3 DEF ScoreOf
<1>5. ASSUME NEW i \in K
      PROVE  ScoredRows(t, q)[i].s = ScoreOf(t.rows[i], q) /\ ScoredRows(t, q)[i].v = t.rows[i].v
  <2>1. ScoredRows(t, q)[i] = [s |-> ScoreOf(t.rows[i], q), v |-> t.rows[i].v]
    BY DEF ScoredRows
  <2> QED BY <2>1
<1>6. ASSUME NEW i \in K
      PROVE  NegInf < ScoreOf(t.rows[i], q) /\ ScoreOf(t.rows[i], q) < PosInf
  BY <1>2, <1>3, <1>4
<1>7. \A i \in K : ScoreOf(t.rows[i], q) \in Int /\ t.rows[i].v \in Int \cup {NaN}
  BY <1>4
<1>8. ScoresAt(t, q, K)
  <2> SUFFICES ASSUME NEW i \in K
               PROVE  /\ ScoredRows(t, q)[i].s = ScoreOf(t.rows[i], q) /\ ScoreOf(t.rows[i], q) \in Int
                      /\ NegInf < ScoreOf(t.rows[i], q) /\ ScoreOf(t.rows[i], q) < PosInf
                      /\ ScoredRows(t, q)[i].v = t.rows[i].v /\ t.rows[i].v \in Int \cup {NaN}
    BY Zenon DEF ScoresAt
  <2> QED BY <1>5, <1>6, <1>7
<1> QED BY <1>2, <1>3, <1>8

\* Rows that have a value are weighed exactly.
LEMMA ValuedScored ==
  ASSUME NEW t, NEW q, Scorable(t, q), NEW K \in SUBSET DOMAIN t.rows
  PROVE  /\ Weighty(ScoredRows(t, q), K, q.eps) = Valued(t, K)
         /\ Scored(ScoredRows(t, q), Valued(t, K), q.eps)
         /\ Valued(t, K) \in SUBSET K
<1> DEFINE rs == ScoredRows(t, q)
           V  == Valued(t, K)
<1>1. ScoresAt(t, q, K) /\ IsFiniteSet(K) /\ q.eps \in Nat \cup {EpsZero} /\ q.eps # EpsInf
  BY RowsScored
<1>2. \A i \in K : /\ rs[i].s \in Int /\ NegInf < rs[i].s /\ rs[i].s < PosInf
                   /\ rs[i].v = t.rows[i].v /\ rs[i].v \in Int \cup {NaN}
  BY <1>1 DEF ScoresAt
<1> HIDE DEF rs
<1>3. \A i \in K : rs[i].s # NaN /\ rs[i].s # NegInf /\ rs[i].s # PosInf
  BY <1>2, NotANumber, InfinityFacts
<1>4. Weighty(rs, K, q.eps) = V
  BY <1>2, <1>3 DEF Weighty, IsNull, Valued
<1>5. V \in SUBSET K /\ IsFiniteSet(V)
  BY <1>1, FS_Subset DEF Valued
<1>6. \A i \in V : rs[i].v \in Int /\ rs[i].s \in NegInf..PosInf /\ rs[i].s # NegInf
  BY <1>2, <1>3, InfinityFacts DEF Valued
<1>7. ASSUME NEW i \in V, NEW j \in V, IsSoft(q.eps)
      PROVE  q.eps * (rs[i].s - rs[j].s) <= Spread
  <2>1. i \in DOMAIN t.rows /\ j \in DOMAIN t.rows /\ i \in K /\ j \in K
    BY <1>5
  <2>2. AllWritten(t.rows, DOMAIN t.rows)
    BY CodedFacts DEF Scorable, Sound
  <2>3. /\ t.rows[i].k \in WrittenKeys /\ t.rows[j].k \in WrittenKeys
        /\ t.rows[i].k # NaN /\ t.rows[j].k # NaN
    BY <2>1, <2>2, WrittenScalars, NotANumber DEF AllWritten
  <2>4. \A k, h \in WrittenKeys : q.eps * (k * q.x - h * q.x) <= Spread
    BY <1>7, QueryAssumption DEF Scorable
  <2>5. rs[i].s = t.rows[i].k * q.x /\ rs[j].s = t.rows[j].k * q.x
    BY <1>1, <2>1, <2>3 DEF ScoresAt, ScoreOf, rs
  <2> QED BY <2>3, <2>4, <2>5
<1>8. Scored(rs, V, q.eps)
  BY <1>1, <1>5, <1>6, <1>7 DEF Scored
<1> QED BY <1>4, <1>5, <1>8 DEF rs

\* Records of scores are what the query averages.
LEMMA RecordsAre ==
  ASSUME NEW t, NEW q, Soft(q)
  PROVE  RecordsFor(t, q) = ScoredRows(t, q)
BY DEF RecordsFor, ScoredRows

\* The fold of the rows of a group, in their order.
LEMMA ScanExact ==
  ASSUME NEW t, NEW q, Scorable(t, q), NEW K \in SUBSET DOMAIN t.rows
  PROVE  GroupedSoftavg(Select(ScoredRows(t, q), K), q.eps) = AverageOf(ScoredRows(t, q), K, q.eps)
<1> DEFINE rs == ScoredRows(t, q)
           l  == Select(rs, K)
           n  == Cardinality(K)
           at == [r \in 1..n |-> Place(K, r)]
<1>1. t.rows \in Seq(DbRow)
  BY CodedFacts DEF Scorable, Sound
<1>2. Len(t.rows) \in Nat /\ DOMAIN t.rows = 1..Len(t.rows) /\ K \in SUBSET (1..Len(t.rows))
  BY <1>1, LenProperties
<1>3. n \in Nat
  BY <1>2, RankFacts
<1>4. /\ \A r \in 1..n : Place(K, r) \in K
      /\ \A r, k \in 1..n : Place(K, r) = Place(K, k) => r = k
      /\ \A i \in K : \E r \in 1..n : Place(K, r) = i
  BY <1>2, PlacesOfSet
<1>5. DOMAIN l = 1..n /\ \A r \in 1..n : l[r] = rs[at[r]]
  BY DEF Select, Place
<1>6. OneToOne(at, 1..n) /\ Through(at, 1..n) = K
  BY <1>4 DEF OneToOne, Through
<1>7. Weighty(rs, K, q.eps) = Valued(t, K) /\ Scored(rs, Valued(t, K), q.eps)
  BY ValuedScored
<1> DEFINE eps == q.eps
<1> HIDE DEF rs, l, n, at, eps
<1>8. Scored(rs, Weighty(rs, Through(at, 1..n), eps), eps)
  BY <1>6, <1>7 DEF eps
<1>9. FoldRecords(l, eps) = AccOf(rs, Weighty(rs, Through(at, 1..n), eps), eps)
  BY <1>3, <1>5, <1>6, <1>8, FoldExact
<1>10. Finalize(AccOf(rs, Weighty(rs, K, eps), eps)) = AverageOf(rs, K, eps)
  BY <1>7, AnswerExact DEF eps
<1> QED BY <1>6, <1>9, <1>10 DEF GroupedSoftavg, rs, l, eps

\* The average of some rows: none, or a numerator over a positive denominator.
LEMMA MeanIs ==
  ASSUME NEW t, NEW q, Scorable(t, q), NEW K \in SUBSET DOMAIN t.rows,
         NEW rs, rs = ScoredRows(t, q), NEW V, V = Valued(t, K), NEW eps, eps = q.eps
  PROVE  /\ AverageOf(rs, K, eps)
              = IF V = {} THEN None ELSE << UAt(rs, V, TopOf(rs, V), eps), ZAt(rs, V, TopOf(rs, V), eps) >>
         /\ V # {} => /\ UAt(rs, V, TopOf(rs, V), eps) \in Int
                      /\ ZAt(rs, V, TopOf(rs, V), eps) \in Nat \ {0}
                      /\ AverageOf(rs, K, eps) # None /\ AverageOf(rs, K, eps) \in Int \X Int
<1> DEFINE u == UAt(rs, V, TopOf(rs, V), eps)
           z == ZAt(rs, V, TopOf(rs, V), eps)
<1>1. Weighty(rs, K, eps) = V /\ Scored(rs, V, eps)
  BY ValuedScored
<1>2. V # {} => z \in Nat \ {0} /\ u \in Int
  BY <1>1, AccFacts
<1>3. Finalize(AccOf(rs, V, eps)) = AverageOf(rs, K, eps)
  BY <1>1, AnswerExact
<1>4. CASE V = {}
  BY <1>3, <1>4 DEF AccOf, Finalize, IsEmpty, NewAcc
<1>5. CASE V # {}
  <2>1. ~ IsEmpty(AccOf(rs, V, eps))
    BY <1>1, <1>5, AccOfFolded
  <2>2. AverageOf(rs, K, eps) = << u, z >>
    BY <1>3, <1>5, <2>1 DEF Finalize, AccOf
  <2> HIDE DEF u, z
  <2>3. << u, z >> # None /\ << u, z >> \in Int \X Int
    BY <1>2, <1>5 DEF None
  <2> QED BY <1>2, <1>5, <2>2, <2>3 DEF u, z
<1> QED BY <1>4, <1>5

\* The fused scan answers what the query means.
LEMMA FusedRight ==
  ASSUME NEW q, NEW t, t = catalog[q.table], Scorable(t, q)
  PROVE  /\ Right(Fused(t, q), Meaning(q), "fused") /\ DOMAIN Fused(t, q) = DOMAIN Meaning(q)
         /\ \A l \in DOMAIN Meaning(q) : Fused(t, q)[l] = Meaning(q)[l]
<1> DEFINE rs == ScoredRows(t, q)
           ans(g) == GroupedSoftavg(Select(rs, RowsIn(t, q, g)), q.eps)
           D == {h \in DOMAIN t.dict : ans(h) # None}
           f == [g \in D |-> ans(g)]
<1>1. Sound(t) /\ LabelsDiffer(t.dict) /\ RecordsFor(t, q) = rs
  BY RecordsAre DEF Scorable, Sound
<1>2. ASSUME NEW g \in DOMAIN t.dict
      PROVE  ans(g) = MeanOf(t, q, g) /\ (ans(g) # None => ans(g) \in Int \X Int)
  <2> DEFINE K == RowsIn(t, q, g)
             V == Valued(t, K)
  <2>1. K \in SUBSET DOMAIN t.rows
    BY DEF RowsIn
  <2> HIDE DEF K
  <2>2. GroupedSoftavg(Select(rs, K), q.eps) = AverageOf(rs, K, q.eps)
    BY <2>1, ScanExact
  <2>3. AverageOf(rs, K, q.eps) # None => AverageOf(rs, K, q.eps) \in Int \X Int
    <3> HIDE DEF rs, V
    <3>1. PICK eps : eps = q.eps
      OBVIOUS
    <3>2. rs = ScoredRows(t, q) /\ V = Valued(t, K)
      BY DEF rs, V
    <3>3. /\ V = {} => AverageOf(rs, K, eps) = None
          /\ V # {} => AverageOf(rs, K, eps) \in Int \X Int
      BY <2>1, <3>1, <3>2, MeanIs
    <3> QED BY <3>1, <3>3
  <2> QED BY <1>1, <2>2, <2>3 DEF MeanOf, K
<1> HIDE DEF ans
<1>3. DOMAIN f \in SUBSET DOMAIN t.dict /\ \A g \in DOMAIN f : f[g] = ans(g)
  OBVIOUS
<1>4. \A h \in DOMAIN t.dict : MeanOf(t, q, h) # None <=> h \in DOMAIN f
  BY <1>2
<1>5. Fused(t, q) = Labelled(t, f)
  BY DEF Fused, ans
<1>6. \A g \in DOMAIN f : f[g] = MeanOf(t, q, g) /\ f[g] # NaN /\ f[g] # None
  BY <1>2, <1>3, QueryAssumption
<1> HIDE DEF f
<1>7. Right(Labelled(t, f), Meaning(q), "fused")
  BY <1>1, <1>3, <1>4, <1>6, SameAsItself, RightByGroup
<1>8. Under(Labelled(t, f), t, f) /\ ByGroup(Meaning(q), t, q)
  BY <1>1, <1>3, LabelledIs, MeaningIs
<1>9. DOMAIN Labelled(t, f) = DOMAIN Meaning(q)
  BY <1>3, <1>4, <1>8 DEF Under, ByGroup
<1>10. ASSUME NEW l \in DOMAIN Meaning(q)
       PROVE  Labelled(t, f)[l] = Meaning(q)[l]
  <2>1. PICK g \in DOMAIN t.dict : l = t.dict[g] /\ MeanOf(t, q, g) # None
    BY <1>8 DEF ByGroup
  <2> QED BY <1>4, <1>6, <1>8, <2>1 DEF Under, ByGroup
<1> QED BY <1>5, <1>7, <1>9, <1>10

-----------------------------------------------------------------------------
(* A maintained view, and the plain average.                                *)

\* The record of a row, as a view and as a query see it.
LEMMA SameRecords ==
  ASSUME NEW t, NEW q, Scorable(t, q)
  PROVE  [r \in DOMAIN t.rows |-> [s |-> t.rows[r].k * q.x, v |-> t.rows[r].v]] = RecordsFor(t, q)
<1>1. AllWritten(t.rows, DOMAIN t.rows)
  BY CodedFacts DEF Scorable, Sound
<1>2. ASSUME NEW r \in DOMAIN t.rows
      PROVE  t.rows[r].k * q.x = ScoreOf(t.rows[r], q)
  <2>1. t.rows[r].k \in Int
    BY <1>1, WrittenScalars DEF AllWritten, Scorable
  <2> QED BY <2>1, NotANumber DEF ScoreOf
<1>3. Soft(q)
  BY DEF Scorable
<1> QED BY <1>2, <1>3 DEF RecordsFor

\* A view answers what the query means, but for the groups a NULL value poisoned.
LEMMA ViewRight ==
  ASSUME NEW q, NEW t, t = catalog[q.table], Scorable(t, q), ~ Filters(q),
         NEW v, Summarises(v, t.rows), v.x = q.x, v.eps = q.eps
  PROVE  Right(ViewRead(t, v), Meaning(q), "view")
<1> DEFINE f == [g \in Covered(v) |-> Ratio(v.groups[g].sum)]
           mine == RecordsFor(t, q)
<1>1. Sound(t) /\ \A r \in DOMAIN t.rows : t.rows[r].g \in DOMAIN t.dict
  BY DEF Scorable, Sound, Coded
<1>2. [r \in DOMAIN t.rows |-> [s |-> t.rows[r].k * v.x, v |-> t.rows[r].v]] = mine
  BY SameRecords
<1>3. /\ \A r \in DOMAIN t.rows : t.rows[r].g \in DOMAIN v.groups
      /\ \A g \in DOMAIN v.groups :
           /\ v.groups[g].sum.den # NaN
           /\ g \in Covered(v) <=> InGroup(t.rows, g) # {}
           /\ \/ v.groups[g].sum.num = NaN
              \/ SameAnswer(Ratio(v.groups[g].sum), AverageOf(mine, InGroup(t.rows, g), v.eps))
  BY <1>2 DEF Summarises
<1>4. \A g : RowsIn(t, q, g) = InGroup(t.rows, g)
  BY DEF RowsIn, InGroup
<1>5. \A g : MeanOf(t, q, g) = AverageOf(mine, InGroup(t.rows, g), v.eps)
  BY <1>4 DEF MeanOf
<1> HIDE DEF mine
<1>6. DOMAIN f = Covered(v) /\ Covered(v) \in SUBSET DOMAIN t.dict
  <2>1. Covered(v) \subseteq DOMAIN v.groups
    BY DEF Covered
  <2>2. ASSUME NEW g \in Covered(v)
        PROVE  g \in DOMAIN t.dict
    <3>1. PICK r \in DOMAIN t.rows : t.rows[r].g = g
      BY <1>3, <2>1 DEF InGroup
    <3> QED BY <1>1, <3>1
  <2> QED BY <2>2
<1>7. ASSUME NEW h \in DOMAIN t.dict, MeanOf(t, q, h) # None
      PROVE  h \in DOMAIN f
  <2>1. InGroup(t.rows, h) # {}
    BY <1>5, <1>7 DEF AverageOf, Weighty
  <2>2. h \in DOMAIN v.groups
    BY <1>3, <2>1 DEF InGroup
  <2> QED BY <1>3, <1>6, <2>1, <2>2
<1>8. ASSUME NEW g \in DOMAIN f, f[g] # NaN
      PROVE  MeanOf(t, q, g) # None /\ SameAnswer(f[g], MeanOf(t, q, g))
  <2> DEFINE sum == v.groups[g].sum
  <2>1. g \in Covered(v) /\ g \in DOMAIN v.groups /\ sum.den # NaN /\ InGroup(t.rows, g) # {}
    BY <1>3, <1>6 DEF Covered
  <2>2. f[g] = Ratio(sum)
    BY <2>1
  <2>3. sum.num # NaN
    BY <1>8, <2>2 DEF Ratio
  <2>4. SameAnswer(f[g], MeanOf(t, q, g))
    BY <1>3, <1>5, <2>1, <2>2, <2>3
  <2>5. MeanOf(t, q, g) # None
    <3> DEFINE K == RowsIn(t, q, g)
               V == Valued(t, K)
               eps == q.eps
               rs == ScoredRows(t, q)
    <3>1. \A r \in InGroup(t.rows, g) : t.rows[r].v # NaN
      BY <2>1, <2>3 DEF Summarises
    <3>2. V # {} /\ K \in SUBSET DOMAIN t.rows
      BY <1>4, <2>1, <3>1 DEF Valued, InGroup
    <3>3. mine = rs
      BY RecordsAre DEF mine, Scorable
    <3>4. MeanOf(t, q, g) = AverageOf(rs, K, eps)
      BY <1>4, <1>5, <3>3
    <3> HIDE DEF K, V, eps, rs
    <3>5. rs = ScoredRows(t, q) /\ V = Valued(t, K) /\ eps = q.eps
      BY DEF rs, V, eps
    <3>6. AverageOf(rs, K, eps) # None
      BY <3>2, <3>5, MeanIs
    <3> QED BY <3>4, <3>6
  <2> QED BY <2>4, <2>5
<1>9. ViewRead(t, v) = Labelled(t, f)
  BY DEF ViewRead
<1> HIDE DEF f
<1> QED BY <1>1, <1>6, <1>7, <1>8, <1>9, RightByGroup

\* Rows that have a value are the records of a query that does not score.
LEMMA PlainRecords ==
  ASSUME NEW t, Sound(t), NEW q, ~ Soft(q), NEW K \in SUBSET DOMAIN t.rows,
         \A i \in K : t.rows[i].v # NaN
  PROVE  /\ IsFiniteSet(K) /\ \A i \in K : t.rows[i].v \in Int
         /\ Weighty(RecordsFor(t, q), K, q.eps) = K
         /\ \A i \in K : RecordsFor(t, q)[i].v = t.rows[i].v /\ RecordsFor(t, q)[i].s = 0
<1>1. IsFiniteSet(K)
  <2>1. DOMAIN t.rows = 1..Len(t.rows) /\ Len(t.rows) \in Nat
    BY CodedFacts, LenProperties DEF Sound
  <2>2. IsFiniteSet(1..Len(t.rows))
    BY <2>1, FS_Interval
  <2> QED BY <2>1, <2>2, FS_Subset
<1>2. \A i \in K : t.rows[i].v \in Int
  BY WrittenScalars DEF Sound, Coded
<1>3. ASSUME NEW i \in K
      PROVE  RecordsFor(t, q)[i].v = t.rows[i].v /\ RecordsFor(t, q)[i].s = 0
  <2>1. RecordsFor(t, q)[i] = [s |-> 0, v |-> t.rows[i].v]
    BY DEF RecordsFor
  <2> QED BY <2>1
<1>4. \A i \in K : ~ IsNull(RecordsFor(t, q)[i])
  BY <1>3, NotANumber DEF IsNull
<1>5. q.eps = EpsInf
  BY DEF Soft
<1> QED BY <1>1, <1>2, <1>3, <1>4, <1>5 DEF Weighty

\* Weighing every row alike gives their average.
LEMMA PlainGroup ==
  ASSUME NEW t, Sound(t), NEW q, ~ Soft(q), NEW K \in SUBSET DOMAIN t.rows, K # {},
         \A i \in K : t.rows[i].v # NaN
  PROVE  /\ Weighed(t, K, [i \in K |-> 1]) # NaN
         /\ AverageOf(RecordsFor(t, q), K, q.eps) # None
         /\ SameAnswer(Weighed(t, K, [i \in K |-> 1]), AverageOf(RecordsFor(t, q), K, q.eps))
<1> DEFINE rs  == RecordsFor(t, q)
           one == [i \in K |-> 1]
           val == [i \in K |-> one[i] * t.rows[i].v]
           top == TopScore({rs[i].s : i \in K})
           w   == [i \in K |-> WeightBelow(top, rs[i].s, q.eps)]
           wv  == [i \in K |-> w[i] * rs[i].v]
           a == SumFunctionOnSet(val, K)
           n == SumFunctionOnSet(one, K)
<1>1. /\ IsFiniteSet(K) /\ \A i \in K : t.rows[i].v \in Int
      /\ Weighty(rs, K, q.eps) = K /\ \A i \in K : rs[i].v = t.rows[i].v
  BY PlainRecords
<1>2. q.eps = EpsInf /\ One \in Int
  BY InfinityFacts DEF Soft
<1>3. ASSUME NEW i \in K
      PROVE  w[i] = One /\ wv[i] = One * val[i] /\ w[i] = One * one[i] /\ val[i] \in Int /\ one[i] \in Int
  <2>1. ~ Sharp(top, q.eps)
    BY <1>2 DEF Sharp, EpsInf, EpsZero
  <2>2. w[i] = One
    BY <1>2, <2>1 DEF WeightBelow
  <2>3. one[i] = 1 /\ val[i] = 1 * t.rows[i].v /\ wv[i] = w[i] * t.rows[i].v /\ t.rows[i].v \in Int
    BY <1>1
  <2> HIDE DEF w, wv, val, one
  <2>4. 1 * t.rows[i].v = t.rows[i].v /\ One * 1 = One
    BY <1>2, <2>3
  <2> QED BY <2>2, <2>3, <2>4
<1>4. Weighed(t, K, one) = << a, n >>
  BY DEF Weighed
<1>5. AverageOf(rs, K, q.eps) = << SumFunctionOnSet(wv, K), SumFunctionOnSet(w, K) >>
  BY <1>1 DEF AverageOf
<1> HIDE DEF w, wv, val, one, rs
<1>6. Summable(val, K) /\ Summable(one, K)
  BY <1>1, <1>3 DEF Summable
<1>7. SumFunctionOnSet(wv, K) = One * a /\ SumFunctionOnSet(w, K) = One * n
  BY <1>2, <1>3, <1>6, SumScale
<1>8. a \in Int /\ n \in Int
  BY <1>6, SumFacts
<1> HIDE DEF a, n
<1>9. \A x, y, o \in Int : x * (o * y) = (o * x) * y
  OBVIOUS
<1>10. SameAnswer(<< a, n >>, << One * a, One * n >>)
  BY <1>2, <1>8, <1>9 DEF SameAnswer, None
<1>11. << a, n >> # NaN /\ << One * a, One * n >> # None
  BY <1>8, QueryAssumption DEF None
<1> QED BY <1>4, <1>5, <1>7, <1>10, <1>11 DEF one, rs

\* A plain average answers what the query means, but for the groups with a NULL.
LEMMA PlainRight ==
  ASSUME NEW q, NEW t, t = catalog[q.table], Sound(t), ~ Soft(q)
  PROVE  Right(Plain(t, q), Meaning(q), "plain")
<1> DEFINE f == [g \in {h \in DOMAIN t.dict : RowsIn(t, q, h) # {}} |->
                  Weighed(t, RowsIn(t, q, g), [i \in RowsIn(t, q, g) |-> 1])]
<1>1. Plain(t, q) = Labelled(t, f)
  BY DEF Plain
<1>2. DOMAIN f = {h \in DOMAIN t.dict : RowsIn(t, q, h) # {}}
  OBVIOUS
<1>3. ASSUME NEW h \in DOMAIN t.dict, MeanOf(t, q, h) # None
      PROVE  h \in DOMAIN f
  BY <1>2, <1>3 DEF MeanOf, AverageOf, Weighty
<1>4. ASSUME NEW g \in DOMAIN f, f[g] # NaN
      PROVE  MeanOf(t, q, g) # None /\ SameAnswer(f[g], MeanOf(t, q, g))
  <2> DEFINE K == RowsIn(t, q, g)
  <2>1. K \in SUBSET DOMAIN t.rows /\ K # {} /\ f[g] = Weighed(t, K, [i \in K |-> 1])
    BY <1>2 DEF RowsIn
  <2>2. MeanOf(t, q, g) = AverageOf(RecordsFor(t, q), K, q.eps)
    BY DEF MeanOf
  <2> HIDE DEF K, f
  <2>3. \A i \in K : t.rows[i].v # NaN
    BY <1>4, <2>1 DEF Weighed
  <2> QED BY <2>1, <2>2, <2>3, PlainGroup
<1> HIDE DEF f
<1> QED BY <1>1, <1>2, <1>3, <1>4, RightByGroup

-----------------------------------------------------------------------------
(* Labels, and the calls that answer.                                       *)

\* A dictionary takes a label only when it does not know it.
LEMMA AppendedLabel ==
  ASSUME NEW old \in Seq(Labels), NEW label \in Labels, LabelsDiffer(old),
         NEW dict, dict = IF Known(old, label) THEN old ELSE Append(old, label)
  PROVE  LabelsDiffer(dict)
<1>1. CASE Known(old, label)
  BY <1>1
<1>2. CASE ~ Known(old, label)
  <2> DEFINE l == Len(old)
  <2>1. /\ dict = Append(old, label) /\ l \in Nat /\ DOMAIN old = 1..l
        /\ dict \in Seq(Labels) /\ Len(dict) = l + 1 /\ dict[l + 1] = label
        /\ \A i \in 1..l : dict[i] = old[i]
    BY <1>2, AppendProperties, LenProperties
  <2>2. DOMAIN dict = 1..(l + 1)
    BY <2>1, LenProperties
  <2>3. \A i \in 1..l : dict[i] # label
    BY <1>2, <2>1 DEF Known
  <2> HIDE DEF l
  <2>4. ASSUME NEW g \in 1..(l + 1), NEW h \in 1..(l + 1), dict[g] = dict[h]
        PROVE  g = h
    <3>1. CASE g \in 1..l /\ h \in 1..l
      BY <2>1, <2>4, <3>1 DEF LabelsDiffer
    <3>2. CASE g = l + 1 \/ h = l + 1
      BY <2>1, <2>3, <2>4, <3>2
    <3> QED BY <2>1, <3>1, <3>2
  <2> QED BY <2>2, <2>4 DEF LabelsDiffer
<1> QED BY <1>1, <1>2

\* A step of the engine keeps the labels of every table apart.
LEMMA LabelInvStep == DbInv /\ LabelInv /\ [DbNext]_dbVars => LabelInv'
<1> SUFFICES ASSUME DbInv, LabelInv, [DbNext]_dbVars PROVE LabelInv'
  OBVIOUS
<1>1. CASE UNCHANGED catalog
  BY <1>1 DEF LabelInv
<1>2. ASSUME NEW t \in DOMAIN catalog, NEW tab, LabelsDiffer(tab.dict),
             catalog' = [catalog EXCEPT ![t] = tab]
      PROVE  LabelInv'
  BY <1>2 DEF LabelInv
<1>3. ASSUME NEW t \in Tables, NEW c \in Contents, Register(t, c) PROVE LabelInv'
  <2>1. LabelsDiffer(c.dict)
    BY QueryAssumption DEF LabelsDiffer
  <2>2. catalog' = Bind(catalog, t, c)
    BY <1>3 DEF Register
  <2>3. ASSUME NEW u \in DOMAIN catalog'
        PROVE  LabelsDiffer(catalog'[u].dict)
    <3>1. CASE u = t
      BY <2>1, <2>2, <3>1 DEF Bind
    <3>2. CASE u # t
      <4>1. u \in DOMAIN catalog /\ catalog'[u] = catalog[u]
        BY <2>2, <3>2 DEF Bind
      <4> QED BY <4>1 DEF LabelInv
    <3> QED BY <3>1, <3>2
  <2> QED BY <2>3 DEF LabelInv
<1>4. ASSUME NEW t \in DOMAIN catalog,
             \/ \E ks \in [DOMAIN catalog[t].rows -> KeyValues], dtype \in {"F64", "F32"} :
                  AttachKey(t, ks, dtype)
             \/ \E name \in ViewNames, x \in ViewXs, eps \in ViewEps : CreateView(name, t, x, eps)
             \/ CreateIndex(t)
             \/ \E new \in NewRows : InsertRow(t, new)
             \/ \E p \in Preds : DeleteWhere(t, p)
      PROVE  LabelInv'
  <2> DEFINE old == catalog[t].dict
  <2>1. LabelsDiffer(old) /\ catalog[t] \in Table
    BY DEF LabelInv, DbInv, CatalogInv
  <2>2. ASSUME NEW ks \in [DOMAIN catalog[t].rows -> KeyValues], NEW dtype \in {"F64", "F32"},
               AttachKey(t, ks, dtype)
        PROVE  LabelInv'
    <3>1. catalog' = [catalog EXCEPT ![t] = Keyed(catalog[t], ks, dtype)]
      BY <2>2 DEF AttachKey
    <3>2. Keyed(catalog[t], ks, dtype).dict = old
      BY DEF Keyed
    <3> QED BY <1>2, <2>1, <3>1, <3>2
  <2>3. ASSUME NEW name \in ViewNames, NEW x \in ViewXs, NEW eps \in ViewEps, CreateView(name, t, x, eps)
        PROVE  LabelInv'
    BY <1>1, <2>3 DEF CreateView
  <2>4. CASE CreateIndex(t)
    BY <1>1, <2>4 DEF CreateIndex
  <2>5. ASSUME NEW new \in NewRows, InsertRow(t, new) PROVE LabelInv'
    <3> DEFINE dict == IF Known(old, new.label) THEN old ELSE Append(old, new.label)
    <3>1. old \in Seq(Labels) /\ new.label \in Labels
      BY <2>1, TableFields DEF Labels
    <3>2. PICK row : catalog' = [catalog EXCEPT ![t] =
                                   [rows |-> Append(catalog[t].rows, row), dict |-> dict,
                                    key |-> catalog[t].key]]
      BY <2>5 DEF InsertRow
    <3> HIDE DEF old
    <3>3. LabelsDiffer(dict)
      BY <2>1, <3>1, AppendedLabel
    <3> DEFINE next == [rows |-> Append(catalog[t].rows, row), dict |-> dict, key |-> catalog[t].key]
    <3>4. next.dict = dict /\ catalog' = [catalog EXCEPT ![t] = next]
      BY <3>2
    <3> HIDE DEF dict, next
    <3> QED BY <1>2, <3>3, <3>4
  <2>6. ASSUME NEW p \in Preds, DeleteWhere(t, p) PROVE LabelInv'
    <3>1. PICK rest : catalog' = [catalog EXCEPT ![t] = [@ EXCEPT !.rows = rest]]
      BY <2>6 DEF DeleteWhere
    <3> DEFINE next == [catalog[t] EXCEPT !.rows = rest]
    <3>2. next.dict = old /\ catalog' = [catalog EXCEPT ![t] = next]
      BY <2>1, <3>1 DEF Table
    <3> HIDE DEF next, old
    <3> QED BY <1>2, <2>1, <3>2
  <2> QED BY <1>4, <2>2, <2>3, <2>4, <2>5, <2>6
<1>5. ASSUME NEW q \in Queries, Run(q) PROVE LabelInv'
  BY <1>1, <1>5 DEF Run
<1>6. CASE Take \/ UNCHANGED dbVars
  BY <1>1, <1>6 DEF Take, dbVars
<1> QED BY <1>3, <1>4, <1>5, <1>6 DEF DbNext

\* Only a query answers, and the caller takes what it was answered before it calls again.
LEMMA OnlyRunAnswers ==
  ASSUME [DbNext]_dbVars
  PROVE  \/ answer' = Nothing
         \/ UNCHANGED << catalog, views, answer, outdated >>
         \/ \E q \in Queries : q.table \in DOMAIN catalog /\ Run(q)
<1>1. CASE Take \/ UNCHANGED dbVars
  BY <1>1 DEF Take, dbVars
<1>2. ASSUME answer = Nothing, NEW t \in Tables, NEW c \in Contents, Register(t, c)
      PROVE  answer' = Nothing
  BY <1>2 DEF Register
<1>3. ASSUME answer = Nothing, NEW t \in DOMAIN catalog,
             \/ \E ks \in [DOMAIN catalog[t].rows -> KeyValues], dtype \in {"F64", "F32"} :
                  AttachKey(t, ks, dtype)
             \/ \E name \in ViewNames, x \in ViewXs, eps \in ViewEps : CreateView(name, t, x, eps)
             \/ CreateIndex(t)
             \/ \E new \in NewRows : InsertRow(t, new)
             \/ \E p \in Preds : DeleteWhere(t, p)
      PROVE  answer' = Nothing
  BY <1>3 DEF AttachKey, CreateView, CreateIndex, InsertRow, DeleteWhere
<1> QED BY <1>1, <1>2, <1>3 DEF DbNext

\* At first there is no table.
LEMMA LabelInvInit == DbInit => LabelInv
<1>1. DOMAIN << >> = {}
  OBVIOUS
<1> QED BY <1>1 DEF DbInit, LabelInv

\* Labels of every table differ, whatever is registered, attached, inserted and deleted.
THEOREM LabelInvariant == DbSpec => []LabelInv
<1>1. DbInit => DbInv /\ LabelInv
  BY DbInvInit, LabelInvInit
<1>2. (DbInv /\ LabelInv) /\ [DbNext]_dbVars => (DbInv /\ LabelInv)'
  BY DbInvStep, LabelInvStep
<1> QED BY <1>1, <1>2, PTL DEF DbSpec

\* The operators of plans, and what admits them.
LEMMA PlanShape ==
  ASSUME NEW q, NEW st, NEW vs, DOMAIN vs \in SUBSET Nat, NEW indexed,
         NEW plan \in Plans(q, st, vs, indexed)
  PROVE  \/ plan.op = "plain" /\ ~ Soft(q)
         \/ plan.op = "fused" /\ Soft(q)
         \/ /\ plan.op = "view" /\ Soft(q) /\ ~ Filters(q) /\ plan \in ViewPlans(q, vs)
            /\ plan.k \in DOMAIN vs /\ Serves(vs[plan.k], q.table, q.x, q.eps)
         \/ plan.op = "topk" /\ Soft(q) /\ plan \in ContractPlans(q, st)
         \/ plan.op = "probe" /\ Soft(q) /\ plan \in ProbePlans(q, st, indexed)
<1>1. CASE ~ Soft(q)
  <2>1. plan = Plan("plain", 0)
    BY <1>1 DEF Plans
  <2> QED BY <1>1, <2>1 DEF Plan
<1>2. CASE Soft(q) /\ plan = Plan("fused", 0)
  BY <1>2 DEF Plan
<1>3. CASE Soft(q) /\ plan \in ViewPlans(q, vs)
  <2> DEFINE serving == {i \in DOMAIN vs : Serves(vs[i], q.table, q.x, q.eps)}
             first   == CHOOSE i \in serving : \A j \in serving : i <= j
  <2>1. serving # {} /\ ~ Filters(q) /\ plan = Plan("view", first)
    BY <1>3 DEF ViewPlans
  <2>2. serving \in SUBSET Nat
    OBVIOUS
  <2>3. first \in serving
    <3> HIDE DEF serving
    <3>1. \E i \in serving : \A j \in serving : i <= j
      BY <2>1, <2>2, LeastNumber
    <3> QED BY <3>1
  <2>4. plan.op = "view" /\ plan.k = first
    BY <2>1 DEF Plan
  <2> QED BY <1>3, <2>1, <2>3, <2>4
<1>4. CASE Soft(q) /\ plan \in ContractPlans(q, st)
  <2>1. plan.op = "topk"
    BY <1>4 DEF ContractPlans, Plan
  <2> QED BY <1>4, <2>1
<1>5. CASE Soft(q) /\ plan \in ProbePlans(q, st, indexed)
  <2>1. plan.op = "probe"
    BY <1>5 DEF ProbePlans, Plan
  <2> QED BY <1>5, <2>1
<1> QED BY <1>1, <1>2, <1>3, <1>4, <1>5 DEF Plans

\* What AnswersExact says of one answer.
LEMMA ExactByRight ==
  AnswersExact <=>
    \A q \in Queries : AnswerTo(q) /\ answer.via \in {"fused", "plain", "view"} /\ ~ FromOutdated(q) =>
      Right(answer.of, Meaning(q), answer.via)
BY DEF AnswersExact, AnsweredRight, Right

\* A query that is answered at all and scores, scores finitely.
LEMMA NotRefused ==
  ASSUME NEW t, Sound(t), NEW q \in Queries, Soft(q), ~ Refuses(t, q)
  PROVE  Scorable(t, q)
BY QueryAssumption DEF Refuses, Scorable

\* An answer of the three exact plans is what the query means.
LEMMA AnswerRight ==
  ASSUME NEW q \in Queries, q.kind = "Dot", NEW t, t = catalog[q.table], Sound(t),
         NEW plan, NEW a \in Answers(q, plan), a.of # Refused,
         \/ plan.op = "plain" /\ ~ Soft(q)
         \/ plan.op = "fused" /\ Soft(q)
         \/ /\ plan.op = "view" /\ Soft(q) /\ ~ Filters(q) /\ Summarises(views[plan.k], t.rows)
            /\ Serves(views[plan.k], q.table, q.x, q.eps)
  PROVE  Right(a.of, Meaning(q), a.via)
<1> DEFINE got(of) == [query |-> q, via |-> plan.op, of |-> of, hits |-> {}]
<1>1. ~ Refuses(t, q)
  BY DEF Answers
<1>2. CASE plan.op = "plain" /\ ~ Soft(q)
  <2>1. a = got(Plain(t, q))
    BY <1>1, <1>2 DEF Answers
  <2>2. a.of = Plain(t, q) /\ a.via = "plain"
    BY <1>2, <2>1
  <2> QED BY <1>2, <2>2, PlainRight
<1>3. CASE plan.op = "fused" /\ Soft(q)
  <2>1. a = got(Fused(t, q))
    BY <1>1, <1>3 DEF Answers
  <2>2. a.of = Fused(t, q) /\ a.via = "fused"
    BY <1>3, <2>1
  <2> QED BY <1>1, <1>3, <2>2, NotRefused, FusedRight
<1>4. CASE /\ plan.op = "view" /\ Soft(q) /\ ~ Filters(q) /\ Summarises(views[plan.k], t.rows)
           /\ Serves(views[plan.k], q.table, q.x, q.eps)
  <2>1. a = got(ViewRead(t, views[plan.k]))
    BY <1>1, <1>4 DEF Answers
  <2>2. a.of = ViewRead(t, views[plan.k]) /\ a.via = "view"
    BY <1>4, <2>1
  <2>3. views[plan.k].x = q.x /\ views[plan.k].eps = q.eps
    BY <1>4 DEF Serves
  <2> QED BY <1>1, <1>4, <2>2, <2>3, NotRefused, ViewRight
<1> QED BY <1>2, <1>3, <1>4

\* The tables, the views and the statistics a query is answered from.
Ready == DbInv /\ CodedInv /\ ViewInv /\ LabelInv

\* The table of a query is one the engine holds, with statistics of it or none, beside the views.
LEMMA ReadyFacts ==
  ASSUME Ready, NEW u \in DOMAIN catalog
  PROVE  /\ Sound(catalog[u]) /\ stats[u] \in {Stale, CollectStats(catalog[u])}
         /\ DOMAIN views \in SUBSET Nat
<1>1. Sound(catalog[u])
  BY DEF Ready, DbInv, CatalogInv, CodedInv, LabelInv, Sound
<1>2. stats[u] \in {Stale, CollectStats(catalog[u])}
  BY DEF Ready, DbInv, StatsFresh
<1>3. DOMAIN views = 1..Len(views) /\ Len(views) \in Nat
  BY ListingFacts DEF Ready, ViewInv
<1> QED BY <1>1, <1>2, <1>3

\* The plan of a query, made of the statistics of its table as it is.
LEMMA RunAnswers ==
  ASSUME Ready, NEW q \in Queries, q.table \in DOMAIN catalog, Run(q)
  PROVE  /\ UNCHANGED << catalog, views, outdated >>
         /\ \E plan : /\ answer' \in Answers(q, plan)
                      /\ \/ plan = Plan("fused", 0) /\ Soft(q)
                         \/ plan \in Plans(q, CollectStats(catalog[q.table]), views, HasLive(q.table))
<1> DEFINE t     == q.table
           fresh == IF stats[t] = Stale THEN CollectStats(catalog[t]) ELSE stats[t]
<1>1. fresh = CollectStats(catalog[t])
  BY ReadyFacts
<1>2. CASE Invalid(q)
  BY <1>2 DEF Run, Invalid
<1>3. CASE ~ Invalid(q)
  <2>1. \E plan \in Plans(q, fresh, views, HasLive(t)) : answer' \in Answers(q, plan)
    BY <1>3 DEF Run
  <2>2. UNCHANGED << catalog, views, outdated >>
    BY DEF Run
  <2> HIDE DEF fresh
  <2> QED BY <1>1, <2>1, <2>2
<1> QED BY <1>2, <1>3

\* An answer names its query and its plan.
LEMMA AnswerNames ==
  ASSUME NEW q, NEW plan, plan.op \in {"plain", "fused", "view", "topk", "probe"},
         NEW a \in Answers(q, plan)
  PROVE  a.query = q /\ a.via = plan.op
<1> DEFINE t == catalog[q.table]
           got(of) == [query |-> q, via |-> plan.op, of |-> of, hits |-> {}]
<1>1. (\E of : a = got(of)) \/ (\E of, h : a = [got(of) EXCEPT !.hits = h])
  <2>1. CASE Refuses(t, q)
    BY <2>1 DEF Answers
  <2>2. CASE ~ Refuses(t, q) /\ plan.op = "plain"
    BY <2>2 DEF Answers
  <2>3. CASE ~ Refuses(t, q) /\ plan.op = "fused"
    BY <2>3 DEF Answers
  <2>4. CASE ~ Refuses(t, q) /\ plan.op = "view"
    BY <2>4 DEF Answers
  <2>5. CASE ~ Refuses(t, q) /\ plan.op = "topk"
    BY <2>5 DEF Answers
  <2>6. CASE ~ Refuses(t, q) /\ plan.op = "probe"
    BY <2>6 DEF Answers
  <2> QED BY <2>1, <2>2, <2>3, <2>4, <2>5, <2>6
<1>2. \A of, h : got(of).query = q /\ got(of).via = plan.op
                   /\ [got(of) EXCEPT !.hits = h].query = q /\ [got(of) EXCEPT !.hits = h].via = plan.op
  OBVIOUS
<1> QED BY <1>1, <1>2

\* Of a query that has run, the plan is admitted by the table as it is.
LEMMA RunShape ==
  ASSUME Ready, NEW q \in Queries, q.table \in DOMAIN catalog, Run(q)
  PROVE  \E plan :
           /\ answer' \in Answers(q, plan) /\ answer'.query = q /\ answer'.via = plan.op
           /\ \/ plan.op = "plain" /\ ~ Soft(q)
              \/ plan.op = "fused" /\ Soft(q)
              \/ /\ plan.op = "view" /\ Soft(q) /\ ~ Filters(q) /\ plan \in ViewPlans(q, views)
                 /\ plan.k \in DOMAIN views /\ Serves(views[plan.k], q.table, q.x, q.eps)
              \/ /\ plan.op = "topk" /\ Soft(q)
                 /\ plan \in ContractPlans(q, CollectStats(catalog[q.table]))
              \/ /\ plan.op = "probe" /\ Soft(q)
                 /\ plan \in ProbePlans(q, CollectStats(catalog[q.table]), HasLive(q.table))
<1> DEFINE st == CollectStats(catalog[q.table])
           on == HasLive(q.table)
<1>1. PICK plan : /\ answer' \in Answers(q, plan)
                  /\ \/ plan = Plan("fused", 0) /\ Soft(q)
                     \/ plan \in Plans(q, st, views, on)
  BY RunAnswers
<1>2. DOMAIN views \in SUBSET Nat
  BY ReadyFacts
<1> HIDE DEF st, on
<1>3. \/ plan.op = "plain" /\ ~ Soft(q)
      \/ plan.op = "fused" /\ Soft(q)
      \/ /\ plan.op = "view" /\ Soft(q) /\ ~ Filters(q) /\ plan \in ViewPlans(q, views)
         /\ plan.k \in DOMAIN views /\ Serves(views[plan.k], q.table, q.x, q.eps)
      \/ plan.op = "topk" /\ Soft(q) /\ plan \in ContractPlans(q, st)
      \/ plan.op = "probe" /\ Soft(q) /\ plan \in ProbePlans(q, st, on)
  <2>1. CASE plan = Plan("fused", 0) /\ Soft(q)
    BY <2>1 DEF Plan
  <2>2. CASE plan \in Plans(q, st, views, on)
    BY <1>2, <2>2, PlanShape
  <2> QED BY <1>1, <2>1, <2>2
<1>4. answer'.query = q /\ answer'.via = plan.op
  BY <1>1, <1>3, AnswerNames
<1> QED BY <1>1, <1>3, <1>4 DEF st, on

\* A step of the engine keeps the answers of the exact plans right.
LEMMA ExactStep == Ready /\ AnswersExact /\ [DbNext]_dbVars => AnswersExact'
<1> SUFFICES ASSUME Ready, AnswersExact, [DbNext]_dbVars,
                    NEW q \in Queries, AnswerTo(q)', answer'.via \in {"fused", "plain", "view"},
                    ~ FromOutdated(q)'
             PROVE  Right(answer.of, Meaning(q), answer.via)'
  BY DEF AnswersExact, AnsweredRight, Right
<1>1. answer' # Nothing /\ answer'.of # Refused /\ answer'.query = q /\ q.kind = "Dot"
  BY DEF AnswerTo
<1>2. ASSUME UNCHANGED catalog PROVE Meaning(q)' = Meaning(q)
  BY <1>2 DEF Meaning
<1>3. CASE UNCHANGED << catalog, views, answer, outdated >>
  <2>1. AnswerTo(q) /\ answer.via \in {"fused", "plain", "view"} /\ ~ FromOutdated(q)
    BY <1>1, <1>3 DEF AnswerTo, FromOutdated
  <2>2. Right(answer.of, Meaning(q), answer.via)
    BY <2>1, ExactByRight
  <2> QED BY <1>2, <1>3, <2>2 DEF Right
<1>4. ASSUME NEW r \in Queries, r.table \in DOMAIN catalog, Run(r)
      PROVE  Right(answer.of, Meaning(q), answer.via)'
  <2> DEFINE t == catalog[q.table]
  <2>1. PICK plan :
          /\ answer' \in Answers(r, plan) /\ answer'.query = r /\ answer'.via = plan.op
          /\ \/ plan.op = "plain" /\ ~ Soft(r)
             \/ plan.op = "fused" /\ Soft(r)
             \/ /\ plan.op = "view" /\ Soft(r) /\ ~ Filters(r) /\ plan \in ViewPlans(r, views)
                /\ plan.k \in DOMAIN views /\ Serves(views[plan.k], r.table, r.x, r.eps)
             \/ plan.op = "topk" \/ plan.op = "probe"
    BY <1>4, RunShape
  <2>2. r = q
    BY <1>1, <2>1
  <2>3. UNCHANGED << catalog, views, outdated >>
    BY <1>4, RunAnswers
  <2>4. Sound(t)
    BY <1>4, <2>2, ReadyFacts
  <2>5. ASSUME plan.op = "view" PROVE Summarises(views[plan.k], t.rows)
    <3>1. ViewsExact
      BY ViewAnswers DEF Ready
    <3>2. plan.k \in DOMAIN views /\ views[plan.k].table = q.table
      BY <2>1, <2>2, <2>5 DEF Serves
    <3>3. views[plan.k].name \notin outdated.views
      BY <2>1, <2>2, <2>3, <2>5 DEF FromOutdated
    <3> QED BY <3>1, <3>2, <3>3 DEF ViewsExact
  <2> HIDE DEF t
  <2>6. Right(answer'.of, Meaning(q), answer'.via)
    <3>1. t = catalog[q.table]
      BY DEF t
    <3> QED BY <1>1, <2>1, <2>2, <2>4, <2>5, <3>1, AnswerRight
  <2> QED BY <1>2, <2>3, <2>6 DEF Right
<1> QED BY <1>1, <1>3, <1>4, OnlyRunAnswers

\* A query is answered with its meaning by the fused scan, the plain average and a view whose
\* table was not given other keys since it was made.
THEOREM AnswersExactHolds == DbSpec => []AnswersExact
<1>1. DbInit => AnswersExact
  BY DEF DbInit, AnswersExact, AnswerTo
<1>2. Ready /\ AnswersExact /\ [DbNext]_dbVars => AnswersExact'
  BY ExactStep
<1>3. DbInv /\ CodedInv /\ ViewInv /\ LabelInv => Ready
  BY DEF Ready
<1> QED BY <1>1, <1>2, <1>3, DbInvariant, ViewInvariant, LabelInvariant, PTL DEF DbSpec

-----------------------------------------------------------------------------
(* Truncated scans: how far the average of some rows is from that of all.   *)

\* Terms that are no greater have no greater sum.
LEMMA SumAtMost ==
  ASSUME NEW S, NEW f, NEW g, Summable(f, S), Summable(g, S), \A x \in S : f[x] <= g[x]
  PROVE  SumFunctionOnSet(f, S) <= SumFunctionOnSet(g, S)
<1> DEFINE C == {U \in SUBSET S : SumFunctionOnSet(f, U) <= SumFunctionOnSet(g, U)}
<1>1. {} \in C
  BY SumFacts
<1>2. ASSUME NEW U \in SUBSET S, NEW x \in U, U \ {x} \in C
      PROVE  U \in C
  <2>1. Summable(f, U) /\ Summable(g, U) /\ Summable(f, U \ {x}) /\ Summable(g, U \ {x})
    BY SummableSubset
  <2>2. /\ SumFunctionOnSet(f, U) = f[x] + SumFunctionOnSet(f, U \ {x})
        /\ SumFunctionOnSet(g, U) = g[x] + SumFunctionOnSet(g, U \ {x})
    BY <2>1, SumFacts
  <2>3. /\ f[x] \in Int /\ SumFunctionOnSet(f, U \ {x}) \in Int
        /\ g[x] \in Int /\ SumFunctionOnSet(g, U \ {x}) \in Int
    BY <2>1, SumFacts DEF Summable
  <2>4. f[x] <= g[x] /\ SumFunctionOnSet(f, U \ {x}) <= SumFunctionOnSet(g, U \ {x})
    BY <1>2
  <2> QED BY <2>2, <2>3, <2>4
<1>3. IsFiniteSet(S)
  BY DEF Summable
<1> HIDE DEF C
<1>4. \A U \in SUBSET S : U \in C
  BY <1>1, <1>2, <1>3, SetInduct
<1> QED BY <1>4 DEF C

\* Weighed values within c on either side add up to within c times the weights.
LEMMA WeighedWithin ==
  ASSUME NEW S, IsFiniteSet(S), NEW w, NEW f, NEW c \in Nat, NEW v,
         \A x \in S : /\ w[x] \in Nat /\ v[x] \in Int /\ f[x] = w[x] * v[x]
                      /\ v[x] <= c /\ -v[x] <= c
  PROVE  /\ SumFunctionOnSet(f, S) \in Int /\ SumFunctionOnSet(w, S) \in Nat
         /\ SumFunctionOnSet(f, S) <= c * SumFunctionOnSet(w, S)
         /\ -SumFunctionOnSet(f, S) <= c * SumFunctionOnSet(w, S)
<1> DEFINE g == [x \in S |-> c * w[x]]
           h == [x \in S |-> (-1) * f[x]]
<1>1. \A a, k \in Nat : \A b \in Int : b <= k /\ -b <= k
        => a * b \in Int /\ k * a \in Int /\ a * b <= k * a /\ (-1) * (a * b) <= k * a /\ (-1) * (a * b) \in Int
  <2> TAKE a, k \in Nat
  <2> TAKE b \in Int
  <2> HAVE b <= k /\ -b <= k
  <2>1. a * b \in Int /\ k * a \in Int /\ a * k = k * a
    OBVIOUS
  <2>2. a * (k - b) \in Nat /\ a * (k + b) \in Nat
    <3>1. k - b \in Nat /\ k + b \in Nat
      OBVIOUS
    <3>2. \A p \in Nat : a * p \in Nat
      OBVIOUS
    <3> QED BY <3>1, <3>2
  <2>3. a * (k - b) = a * k - a * b /\ a * (k + b) = a * k + a * b
    OBVIOUS
  <2> QED BY <2>1, <2>2, <2>3
<1>2. ASSUME NEW x \in S
      PROVE  /\ f[x] \in Int /\ g[x] \in Int /\ h[x] \in Int /\ f[x] <= g[x] /\ h[x] <= g[x]
             /\ g[x] = c * w[x] /\ h[x] = (-1) * f[x]
  <2>1. g[x] = c * w[x] /\ h[x] = (-1) * (w[x] * v[x]) /\ f[x] = w[x] * v[x]
    OBVIOUS
  <2>2. w[x] \in Nat /\ v[x] \in Int /\ v[x] <= c /\ -v[x] <= c
    OBVIOUS
  <2> HIDE DEF g, h
  <2> QED BY <1>1, <2>1, <2>2
<1> HIDE DEF g, h
<1>3. Summable(f, S) /\ Summable(g, S) /\ Summable(h, S) /\ Summable(w, S)
  BY <1>2 DEF Summable
<1>4. SumFunctionOnSet(f, S) <= SumFunctionOnSet(g, S) /\ SumFunctionOnSet(h, S) <= SumFunctionOnSet(g, S)
  BY <1>2, <1>3, SumAtMost
<1>5. SumFunctionOnSet(g, S) = c * SumFunctionOnSet(w, S)
  BY <1>2, <1>3, SumScale
<1>6. SumFunctionOnSet(h, S) = (-1) * SumFunctionOnSet(f, S)
  BY <1>2, <1>3, SumScale
<1>7. SumFunctionOnSet(f, S) \in Int /\ SumFunctionOnSet(w, S) \in Nat
  BY <1>3, SumFacts, SumNat
<1> QED BY <1>4, <1>5, <1>6, <1>7

\* Two averages as fractions: a / p over a part of the weight, (a + b) / (p + r) over all of it.
LEMMA PartOfSum ==
  ASSUME NEW a \in Int, NEW b \in Int, NEW p \in Nat, NEW r \in Nat, NEW c \in Nat,
         a <= c * p, -a <= c * p, b <= c * r, -b <= c * r
  PROVE  LET d == a * (p + r) - (a + b) * p
         IN  d \in Int /\ d <= 2 * c * (p * r) /\ -d <= 2 * c * (p * r)
<1> DEFINE d == a * (p + r) - (a + b) * p
<1>1. d = a * r - b * p
  OBVIOUS
<1>2. a * r \in Int /\ b * p \in Int /\ c * (p * r) \in Int
  OBVIOUS
<1>3. a * r <= c * (p * r) /\ -(a * r) <= c * (p * r)
  <2>1. (c * p - a) * r \in Nat /\ (c * p + a) * r \in Nat
    <3>1. c * p \in Int /\ c * p - a \in Nat /\ c * p + a \in Nat
      OBVIOUS
    <3>2. \A x \in Nat : x * r \in Nat
      OBVIOUS
    <3> QED BY <3>1, <3>2
  <2>2. (c * p - a) * r = c * (p * r) - a * r /\ (c * p + a) * r = c * (p * r) + a * r
    OBVIOUS
  <2> QED BY <1>2, <2>1, <2>2
<1>4. b * p <= c * (p * r) /\ -(b * p) <= c * (p * r)
  <2>1. (c * r - b) * p \in Nat /\ (c * r + b) * p \in Nat
    <3>1. c * r \in Int /\ c * r - b \in Nat /\ c * r + b \in Nat
      OBVIOUS
    <3>2. \A x \in Nat : x * p \in Nat
      OBVIOUS
    <3> QED BY <3>1, <3>2
  <2>2. (c * r - b) * p = c * (p * r) - b * p /\ (c * r + b) * p = c * (p * r) + b * p
    OBVIOUS
  <2> QED BY <1>2, <2>1, <2>2
<1>5. 2 * c * (p * r) = c * (p * r) + c * (p * r)
  OBVIOUS
<1> HIDE DEF d
<1>6. d \in Int /\ d <= 2 * c * (p * r) /\ -d <= 2 * c * (p * r)
  BY <1>1, <1>2, <1>3, <1>4, <1>5
<1> QED BY <1>6 DEF d

\* Some integers have a greatest.
LEMMA GreatestOf ==
  ASSUME NEW S, IsFiniteSet(S), S # {}, S \in SUBSET Int
  PROVE  TopScore(S) \in S /\ \A x \in S : x <= TopScore(S)
<1> DEFINE C == {U \in SUBSET S : U = {} \/ \E m \in U : \A x \in U : x <= m}
<1>1. {} \in C
  OBVIOUS
<1>2. ASSUME NEW U \in SUBSET S, NEW x \in U, U \ {x} \in C
      PROVE  U \in C
  <2>1. CASE U \ {x} = {}
    <3>1. U = {x} /\ x \in Int
      BY <2>1
    <3> QED BY <3>1
  <2>2. CASE U \ {x} # {}
    <3>1. PICK m \in U \ {x} : \A y \in U \ {x} : y <= m
      BY <1>2, <2>2
    <3>2. \A y \in U : y \in Int
      OBVIOUS
    <3>3. CASE x <= m
      <4>1. \A y \in U : y <= m
        BY <3>1, <3>3
      <4> QED BY <3>1, <4>1
    <3>4. CASE ~ (x <= m)
      <4>1. \A y \in U : y <= x
        <5> TAKE y \in U
        <5>1. x \in Int /\ m \in Int /\ y \in Int /\ m <= x
          BY <3>1, <3>2, <3>4
        <5>2. CASE y = x
          BY <5>1, <5>2
        <5>3. CASE y # x
          <6>1. y <= m
            BY <3>1, <5>3
          <6> QED BY <5>1, <6>1
        <5> QED BY <5>2, <5>3
      <4> QED BY <4>1
    <3> QED BY <3>3, <3>4
  <2> QED BY <2>1, <2>2
<1> HIDE DEF C
<1>3. \A U \in SUBSET S : U \in C
  BY <1>1, <1>2, SetInduct
<1>4. S \in C
  BY <1>3
<1>5. \E m \in S : \A x \in S : x <= m
  BY <1>4 DEF C
<1> QED BY <1>5 DEF TopScore

\* The values of a function at finitely many arguments are finitely many.
LEMMA ImageFinite ==
  ASSUME NEW S, IsFiniteSet(S), NEW f
  PROVE  IsFiniteSet({f[x] : x \in S})
<1> DEFINE g == [x \in S |-> f[x]]
           T == {f[x] : x \in S}
<1>1. g \in Surjection(S, T)
  BY DEF Surjection
<1> HIDE DEF g, T
<1>2. IsFiniteSet(T)
  BY <1>1, FS_Surjection
<1> QED BY <1>2 DEF T

\* The size of a value is at most the largest.
LEMMA LargestIs ==
  ASSUME NEW t, Sound(t)
  PROVE  /\ LargestValue(t) \in Nat
         /\ \A i \in DOMAIN t.rows : t.rows[i].v # NaN =>
              /\ t.rows[i].v \in Int /\ t.rows[i].v <= LargestValue(t) /\ -t.rows[i].v <= LargestValue(t)
<1> DEFINE vs    == {t.rows[i].v : i \in DOMAIN t.rows}
           known == vs \ {NaN}
           sizes == {Larger(v, -v) : v \in known}
           S     == {0} \cup sizes
<1>1. IsFiniteSet(DOMAIN t.rows)
  <2>1. DOMAIN t.rows = 1..Len(t.rows) /\ Len(t.rows) \in Nat
    BY CodedFacts, LenProperties DEF Sound
  <2>2. IsFiniteSet(1..Len(t.rows))
    BY <2>1, FS_Interval
  <2> QED BY <2>1, <2>2
<1>2. \A i \in DOMAIN t.rows : t.rows[i].v \in Int \cup {NaN}
  BY WrittenScalars DEF Sound, Coded
<1>3. known \in SUBSET Int
  BY <1>2
<1>4. \A v \in Int : Larger(v, -v) \in Int /\ v <= Larger(v, -v) /\ -v <= Larger(v, -v)
  BY DEF Larger
<1>5. IsFiniteSet(vs)
  <2> DEFINE f == [i \in DOMAIN t.rows |-> t.rows[i].v]
  <2>1. IsFiniteSet({f[i] : i \in DOMAIN t.rows})
    <3> HIDE DEF f
    <3> QED BY <1>1, ImageFinite
  <2>2. {f[i] : i \in DOMAIN t.rows} = vs
    OBVIOUS
  <2> QED BY <2>1, <2>2
<1> HIDE DEF vs
<1>6. IsFiniteSet(known)
  BY <1>5, FS_Subset
<1>7. \A i \in DOMAIN t.rows : t.rows[i].v # NaN => t.rows[i].v \in known
  BY DEF vs
<1> HIDE DEF known
<1>8. IsFiniteSet(sizes) /\ sizes \in SUBSET Int
  <2> DEFINE f == [v \in known |-> Larger(v, -v)]
  <2>1. IsFiniteSet({f[v] : v \in known})
    <3> HIDE DEF f
    <3> QED BY <1>6, ImageFinite
  <2>2. {f[v] : v \in known} = sizes
    OBVIOUS
  <2>3. sizes \in SUBSET Int
    BY <1>3, <1>4
  <2> QED BY <2>1, <2>2, <2>3
<1>9. \A v \in known : v \in Int /\ Larger(v, -v) \in sizes
  BY <1>3
<1> HIDE DEF sizes
<1>10. IsFiniteSet(S) /\ S # {} /\ S \in SUBSET Int /\ 0 \in S /\ \A s \in sizes : s \in S
  <2>1. IsFiniteSet(sizes \cup {0})
    BY <1>8, FS_AddElement
  <2>2. S = sizes \cup {0} /\ S \in SUBSET Int
    BY <1>8
  <2> QED BY <2>1, <2>2
<1> HIDE DEF S
<1> DEFINE top == TopScore(S)
<1>11. top \in S /\ \A x \in S : x <= top
  BY <1>10, GreatestOf
<1>12. LargestValue(t) = top
  BY DEF LargestValue, S, sizes, known, vs
<1> HIDE DEF top
<1>13. top \in Nat
  BY <1>10, <1>11
<1>14. ASSUME NEW i \in DOMAIN t.rows, t.rows[i].v # NaN
       PROVE  t.rows[i].v \in Int /\ t.rows[i].v <= top /\ -t.rows[i].v <= top
  <2> DEFINE v == t.rows[i].v
  <2>1. v \in known
    BY <1>7, <1>14
  <2> HIDE DEF v
  <2>2. v \in Int /\ Larger(v, -v) <= top
    BY <1>9, <1>10, <1>11, <2>1
  <2>3. v <= top /\ -v <= top
    BY <1>4, <1>13, <2>2
  <2> QED BY <2>2, <2>3 DEF v
<1> QED BY <1>12, <1>13, <1>14

\* A table without a NULL.
Filled(t) == \A i \in DOMAIN t.rows : t.rows[i].v # NaN

\* Some rows are weighed below the best of the rows of their group.
WeighsIn(w, T, rs, K, eps) == \A i \in T : w[i] = WeightBelow(TopOf(rs, K), rs[i].s, eps)

\* What some of the rows average to against what all do: the two fractions, brought to one
\* denominator, are within 2 c of the kept weight times the weight that is left out.
Leaves(a, b, c) ==
  /\ a[1] \in Int /\ a[2] \in Nat /\ b[1] \in Int /\ b[2] \in Nat \ {0} /\ a[2] <= b[2]
  /\ LET d == a[1] * b[2] - b[1] * a[2]
     IN  d \in Int /\ d <= 2 * c * (a[2] * (b[2] - a[2])) /\ -d <= 2 * c * (a[2] * (b[2] - a[2]))

\* The weight of the rows that are left out.
LeftOut(rs, K, T, eps) == ZAt(rs, K \ T, TopOf(rs, K), eps)

\* What averaging only T of the rows K gives.
Truncation(t, w, rs, K, T, eps) ==
  LET m == AverageOf(rs, K, eps)
      a == Weighed(t, T, w)
  IN  /\ m = << UAt(rs, K, TopOf(rs, K), eps), ZAt(rs, K, TopOf(rs, K), eps) >>
      /\ a[2] = SumFunctionOnSet(w, T)
      /\ Leaves(a, m, LargestValue(t))
      /\ T = K => a = m
      /\ m[2] = a[2] + LeftOut(rs, K, T, eps)

\* Rows weighed below the best score of their group truncate its average.
LEMMA Truncated ==
  ASSUME NEW t, NEW q, Scorable(t, q), Filled(t), NEW rs, rs = ScoredRows(t, q), NEW eps, eps = q.eps,
         NEW K \in SUBSET DOMAIN t.rows, K # {}, NEW T \in SUBSET K,
         NEW w, WeighsIn(w, T, rs, K, eps)
  PROVE  Truncation(t, w, rs, K, T, eps)
<1> DEFINE top == TopOf(rs, K)
           R == K \ T
           c == LargestValue(t)
           av == [i \in T |-> w[i] * t.rows[i].v]
           wr == WeightsAt(rs, R, top, eps)
           tr == TermsAt(rs, R, top, eps)
           a == SumFunctionOnSet(av, T)
           p == SumFunctionOnSet(w, T)
           b == UAt(rs, R, top, eps)
           r == ZAt(rs, R, top, eps)
           u == UAt(rs, K, top, eps)
           z == ZAt(rs, K, top, eps)
<1>1. Valued(t, K) = K
  BY DEF Valued, Filled
<1>2. Scored(rs, K, eps)
  BY <1>1, ValuedScored
<1>3. IsFiniteSet(K) /\ IsFiniteSet(T) /\ IsFiniteSet(R) /\ T \cup R = K /\ T \cap R = {}
  <2>1. IsFiniteSet(K)
    BY <1>2 DEF Scored
  <2> QED BY <2>1, FS_Subset
<1>4. HasWeights(rs, K, top, eps)
  BY <1>2, WeightsBelow
<1>5. AverageOf(rs, K, eps) = << u, z >> /\ u \in Int /\ z \in Nat \ {0}
  <2>1. PICK V : V = Valued(t, K)
    OBVIOUS
  <2>2. V = K
    BY <1>1, <2>1
  <2>3. /\ AverageOf(rs, K, eps)
              = IF V = {} THEN None ELSE << UAt(rs, V, TopOf(rs, V), eps), ZAt(rs, V, TopOf(rs, V), eps) >>
        /\ V # {} => /\ UAt(rs, V, TopOf(rs, V), eps) \in Int
                     /\ ZAt(rs, V, TopOf(rs, V), eps) \in Nat \ {0}
    BY <2>1, MeanIs
  <2> QED BY <2>2, <2>3
<1>6. z = ZAt(rs, T, top, eps) + r /\ u = UAt(rs, T, top, eps) + b
  <2> HIDE DEF top, R
  <2> QED BY <1>3, <1>4, SplitAt
<1>7. c \in Nat /\ \A i \in K : t.rows[i].v \in Int /\ t.rows[i].v <= c /\ -t.rows[i].v <= c
  BY LargestIs DEF Scorable, Filled
<1>8. \A i \in K : rs[i].v = t.rows[i].v
  <2>1. ScoresAt(t, q, K)
    BY RowsScored
  <2> QED BY <2>1 DEF ScoresAt
<1> HIDE DEF top
<1>9. \A i \in K : WeightBelow(top, rs[i].s, eps) \in Nat
  BY <1>4 DEF HasWeights
<1>10. \A i \in T : /\ w[i] = WeightBelow(top, rs[i].s, eps) /\ w[i] \in Nat
                    /\ av[i] = w[i] * t.rows[i].v
  BY <1>9 DEF WeighsIn, top
<1>11. \A i \in R : wr[i] \in Nat /\ tr[i] = wr[i] * t.rows[i].v
  BY <1>8, <1>9 DEF WeightsAt, TermsAt
<1>12. a \in Int /\ p \in Nat /\ a <= c * p /\ -a <= c * p
  <2> DEFINE v == [i \in T |-> t.rows[i].v]
  <2>1. \A i \in T : /\ w[i] \in Nat /\ v[i] \in Int /\ av[i] = w[i] * v[i]
                     /\ v[i] <= c /\ -v[i] <= c
    BY <1>7, <1>10
  <2> HIDE DEF v, av, c
  <2> QED BY <1>3, <1>7, <2>1, WeighedWithin
<1>13. b \in Int /\ r \in Nat /\ b <= c * r /\ -b <= c * r
  <2> DEFINE v == [i \in R |-> t.rows[i].v]
  <2>1. \A i \in R : /\ wr[i] \in Nat /\ v[i] \in Int /\ tr[i] = wr[i] * v[i]
                     /\ v[i] <= c /\ -v[i] <= c
    BY <1>7, <1>11
  <2>2. b = SumFunctionOnSet(tr, R) /\ r = SumFunctionOnSet(wr, R)
    BY DEF UAt, ZAt
  <2> HIDE DEF v, tr, wr, c, R, b, r
  <2> QED BY <1>3, <1>7, <2>1, <2>2, WeighedWithin
<1>14. ZAt(rs, T, top, eps) = p /\ UAt(rs, T, top, eps) = a
  <2>1. /\ \A i \in T : WeightsAt(rs, T, top, eps)[i] = w[i] /\ w[i] \in Int
        /\ \A i \in T : TermsAt(rs, T, top, eps)[i] = av[i] /\ av[i] \in Int
    <3>1. \A i \in T : rs[i].v = t.rows[i].v /\ t.rows[i].v \in Int /\ w[i] \in Int
      BY <1>7, <1>8, <1>10
    <3>2. \A x, y \in Int : x * y \in Int
      OBVIOUS
    <3> QED BY <1>10, <3>1, <3>2 DEF WeightsAt, TermsAt
  <2> HIDE DEF av
  <2>2. Summable(w, T) /\ Summable(av, T)
    BY <1>3, <2>1 DEF Summable
  <2> QED BY <2>1, <2>2, SumCong DEF ZAt, UAt
<1>15. Weighed(t, T, w) = << a, p >>
  BY DEF Weighed, Filled
<1> HIDE DEF a, p
<1>a. T = K => Weighed(t, T, w) = AverageOf(rs, K, eps)
  BY <1>5, <1>14, <1>15
<1> HIDE DEF b, r, u, z, c
<1>16. u = a + b /\ z = p + r /\ z - p = r /\ p <= z
  BY <1>6, <1>12, <1>13, <1>14
<1>17. LET d == a * (p + r) - (a + b) * p
       IN  d \in Int /\ d <= 2 * c * (p * r) /\ -d <= 2 * c * (p * r)
  BY <1>7, <1>12, <1>13, PartOfSum
<1>b. AverageOf(rs, K, eps)[2] = Weighed(t, T, w)[2] + LeftOut(rs, K, T, eps)
  BY <1>5, <1>15, <1>16 DEF r, R, top, LeftOut
<1>18. Leaves(<< a, p >>, << u, z >>, c)
  BY <1>5, <1>12, <1>16, <1>17 DEF Leaves
<1> QED BY <1>5, <1>15, <1>18, <1>a, <1>b DEF u, z, p, c, top, Truncation

\* A weight that is certified leaves an average within the budget.
LEMMA CertifiedNear ==
  ASSUME NEW a, NEW b, NEW c \in Nat, Leaves(a, b, c), NEW budget \in Nat,
         Certified(a[2], b[2], c, budget)
  PROVE  Near(a, b, budget, 1)
<1> DEFINE d == a[1] * b[2] - b[1] * a[2]
<1>1. PICK p \in Nat, z \in Nat \ {0} : p = a[2] /\ z = b[2] /\ p <= z
  BY DEF Leaves
<1>2. d \in Int /\ d <= 2 * c * (p * (z - p)) /\ -d <= 2 * c * (p * (z - p))
  BY <1>1 DEF Leaves
<1>3. (z - p) * (z + p) * c <= budget * z * p
  BY <1>1 DEF Certified
<1> HIDE DEF d
<1>4. 2 * c * (p * (z - p)) <= (z - p) * (z + p) * c
  <2>1. PICK r \in Nat : r = z - p
    BY <1>1
  <2>2. z = p + r
    BY <1>1, <2>1
  <2>3. (r * (p + r + p)) * c = 2 * c * (p * r) + c * (r * r)
    OBVIOUS
  <2>4. c * (r * r) \in Nat /\ 2 * c * (p * r) \in Int
    <3>1. \A x, y \in Nat : x * y \in Nat
      OBVIOUS
    <3> QED BY <3>1
  <2> HIDE DEF d
  <2>5. 2 * c * (p * r) <= (r * (p + r + p)) * c
    BY <2>3, <2>4
  <2>6. z + p = p + r + p
    BY <2>2
  <2> QED BY <2>1, <2>5, <2>6
<1>5. 2 * c * (p * (z - p)) \in Int /\ (z - p) * (z + p) * c \in Int /\ budget * z * p \in Int
        /\ budget * z * p = budget * p * z
  BY <1>1
<1>6. d <= budget * p * z /\ -d <= budget * p * z /\ budget * p * z \in Int
  BY <1>2, <1>3, <1>4, <1>5
<1>7. Larger(d, -d) * 1 <= budget * p * z
  BY <1>2, <1>6 DEF Larger
<1> QED BY <1>1, <1>7 DEF Near, d

\* An average is near itself.
LEMMA NearItself ==
  ASSUME NEW b, b[1] \in Int, b[2] \in Nat, NEW num \in Nat, NEW den \in Int
  PROVE  Near(b, b, num, den)
<1>1. b[1] * b[2] - b[1] * b[2] = 0
  OBVIOUS
<1>2. Larger(0, -0) * den = 0
  BY DEF Larger
<1>3. \A x, y \in Nat : x * y \in Nat
  OBVIOUS
<1>4. 0 <= num * b[2] * b[2]
  BY <1>3
<1> QED BY <1>1, <1>2, <1>4 DEF Near

\* The weights a truncated scan gives are those below the best score.
LEMMA WeightsAre ==
  ASSUME NEW t, NEW q, Scorable(t, q), Filled(t), IsSoft(q.eps), NEW rs, rs = ScoredRows(t, q),
         NEW K \in SUBSET DOMAIN t.rows, K # {}
  PROVE  WeighsIn(WeightsOf(t, q, K), K, rs, K, q.eps)
<1> DEFINE best == TopScore({ScoreOf(t.rows[i], q) : i \in K})
           eps == q.eps
<1>1. ScoresAt(t, q, K) /\ eps \in Nat \cup {EpsZero} /\ eps # EpsInf /\ IsFiniteSet(K)
  BY RowsScored
<1>2. \A i \in K : rs[i].s = ScoreOf(t.rows[i], q) /\ rs[i].s \in Int /\ NegInf < rs[i].s /\ rs[i].s < PosInf
  BY <1>1 DEF ScoresAt
<1>3. best = TopOf(rs, K)
  <2>1. {ScoreOf(t.rows[i], q) : i \in K} = {rs[i].s : i \in K}
    BY <1>2
  <2> QED BY <2>1 DEF TopOf
<1>4. Valued(t, K) = K
  BY DEF Valued, Filled
<1>5. Scored(rs, K, eps)
  BY <1>4, ValuedScored
<1>6. \E i \in K : rs[i].s = TopOf(rs, K)
  BY <1>5, TopOfFacts
<1> HIDE DEF best, eps
<1>7. best # PosInf
  BY <1>2, <1>3, <1>6, InfinityFacts
<1>8. eps # EpsZero
  BY DEF IsSoft, EpsZero, eps
<1>9. ASSUME NEW i \in K
      PROVE  WeightsOf(t, q, K)[i] = WeightBelow(TopOf(rs, K), rs[i].s, eps)
  <2>1. WeightsOf(t, q, K)[i] = Shrink(One, eps, best - ScoreOf(t.rows[i], q))
    BY DEF WeightsOf, best, eps
  <2>2. WeightBelow(best, rs[i].s, eps) = Shrink(One, eps, best - rs[i].s)
    BY <1>1, <1>7, <1>8 DEF WeightBelow, Sharp
  <2> QED BY <1>2, <1>3, <2>1, <2>2
<1> QED BY <1>9 DEF WeighsIn, eps

\* A group of the contracted scan is within the budget.
LEMMA ContractedNear ==
  ASSUME NEW t, NEW q, Scorable(t, q), Filled(t), IsSoft(q.eps), q.budget \in Nat,
         NEW K \in SUBSET DOMAIN t.rows, K # {}, NEW kstar, NEW rs, rs = ScoredRows(t, q)
  PROVE  Near(ContractedGroup(t, q, K, kstar), AverageOf(rs, K, q.eps), q.budget, 1)
<1> DEFINE w   == WeightsOf(t, q, K)
           kG  == Larger(CeilDiv(kstar * Cardinality(K), Cardinality(Admitted(t, q))), 1)
           top == FirstOf(t, q, K, kG)
           m   == AverageOf(rs, K, q.eps)
           c   == LargestValue(t)
           ok  == Within(SumFunctionOnSet(w, top), SumFunctionOnSet(w, K), c, q.budget)
<1>1. top \in SUBSET K
  BY DEF FirstOf
<1>2. WeighsIn(w, K, rs, K, q.eps)
  BY WeightsAre
<1>3. ContractedGroup(t, q, K, kstar) = Weighed(t, IF ok THEN top ELSE K, w)
  BY DEF ContractedGroup
<1>4. c \in Nat
  BY LargestIs DEF Scorable
<1> HIDE DEF w, top, ok, c
<1>5. PICK eps : eps = q.eps
  OBVIOUS
<1>6. WeighsIn(w, top, rs, K, eps) /\ WeighsIn(w, K, rs, K, eps)
  BY <1>1, <1>2, <1>5 DEF WeighsIn
<1>7. /\ Weighed(t, K, w)[2] = SumFunctionOnSet(w, K) /\ Weighed(t, K, w) = m
      /\ Leaves(Weighed(t, K, w), m, c)
  <2>1. PICK all \in SUBSET K : all = K
    OBVIOUS
  <2>2. Truncation(t, w, rs, K, all, eps)
    BY <1>5, <1>6, <2>1, Truncated
  <2> QED BY <1>5, <2>1, <2>2 DEF Truncation, c
<1>8. /\ Weighed(t, top, w)[2] = SumFunctionOnSet(w, top)
      /\ Leaves(Weighed(t, top, w), m, c)
  <2>1. Truncation(t, w, rs, K, top, eps)
    BY <1>1, <1>5, <1>6, Truncated
  <2> QED BY <1>5, <2>1 DEF Truncation, c
<1> HIDE DEF m
<1>9. CASE ok
  <2>1. Certified(Weighed(t, top, w)[2], m[2], c, q.budget)
    BY <1>7, <1>8, <1>9 DEF ok, Within
  <2>2. Near(Weighed(t, top, w), m, q.budget, 1)
    BY <1>4, <1>8, <2>1, CertifiedNear
  <2> QED BY <1>3, <1>9, <2>2 DEF m
<1>10. CASE ~ ok
  <2>1. m[1] \in Int /\ m[2] \in Nat
    BY <1>7 DEF Leaves
  <2>2. Near(m, m, q.budget, 1)
    BY <2>1, NearItself
  <2> QED BY <1>3, <1>7, <1>10, <2>2 DEF m
<1> QED BY <1>9, <1>10

\* An answer of every label, each near what the query means.
AllNear(of, m, num, den) == DOMAIN of = DOMAIN m /\ \A l \in DOMAIN m : Near(of[l], m[l], num, den)

\* A group with rows has a mean, and its two sums are numbers.
LEMMA MeanWhereRows ==
  ASSUME NEW t, NEW q, Scorable(t, q), Filled(t), NEW g
  PROVE  /\ MeanOf(t, q, g) = AverageOf(ScoredRows(t, q), RowsIn(t, q, g), q.eps)
         /\ RowsIn(t, q, g) \in SUBSET DOMAIN t.rows
         /\ MeanOf(t, q, g) # None <=> RowsIn(t, q, g) # {}
         /\ MeanOf(t, q, g) # None => MeanOf(t, q, g)[1] \in Int /\ MeanOf(t, q, g)[2] \in Nat
<1> DEFINE K == RowsIn(t, q, g)
<1>1. MeanOf(t, q, g) = AverageOf(ScoredRows(t, q), K, q.eps)
  BY RecordsAre DEF MeanOf, Scorable
<1>2. K \in SUBSET DOMAIN t.rows
  BY DEF RowsIn
<1> HIDE DEF K
<1>3. PICK eps, rs, V : eps = q.eps /\ rs = ScoredRows(t, q) /\ V = Valued(t, K)
  OBVIOUS
<1>4. V = K
  BY <1>2, <1>3 DEF Valued, Filled
<1> DEFINE a == AverageOf(rs, K, eps)
<1>5. /\ V = {} => a = None
      /\ V # {} => a # None /\ a \in Int \X Int
  BY <1>2, <1>3, MeanIs
<1>6. V # {} => a[2] \in Nat
  <2> DEFINE u == UAt(rs, V, TopOf(rs, V), eps)
             z == ZAt(rs, V, TopOf(rs, V), eps)
  <2>1. V # {} => a = << u, z >> /\ z \in Nat \ {0}
    BY <1>2, <1>3, MeanIs
  <2> HIDE DEF u, z, a
  <2> QED BY <2>1
<1>7. V # {} => a[1] \in Int
  <2> HIDE DEF a
  <2> QED BY <1>5
<1> HIDE DEF a
<1>8. MeanOf(t, q, g) = a
  BY <1>1, <1>3 DEF a
<1> QED BY <1>1, <1>2, <1>4, <1>5, <1>6, <1>7, <1>8 DEF K

\* An answer of groups is kept when that of each is.
LEMMA KeptByGroup ==
  ASSUME NEW q, NEW t, t = catalog[q.table], Sound(t), NEW num, NEW den, NEW f,
         DOMAIN f = {h \in DOMAIN t.dict : MeanOf(t, q, h) # None},
         \A g \in DOMAIN f : Near(f[g], MeanOf(t, q, g), num, den)
  PROVE  AllNear(Labelled(t, f), Meaning(q), num, den)
<1> DEFINE of == Labelled(t, f)
           m  == Meaning(q)
<1>1. ByGroup(m, t, q)
  BY MeaningIs
<1>2. Under(of, t, f)
  <2>1. LabelsDiffer(t.dict) /\ DOMAIN f \in SUBSET DOMAIN t.dict
    BY DEF Sound
  <2> QED BY <2>1, LabelledIs
<1> HIDE DEF of, m
<1>3. DOMAIN m = DOMAIN of
  BY <1>1, <1>2 DEF ByGroup, Under
<1>4. ASSUME NEW l \in DOMAIN m
      PROVE  Near(of[l], m[l], num, den)
  <2>1. PICK g \in DOMAIN f : l = t.dict[g]
    BY <1>1, <1>4 DEF ByGroup
  <2>2. of[l] = f[g] /\ m[l] = MeanOf(t, q, g)
    BY <1>1, <1>2, <2>1 DEF ByGroup, Under
  <2> QED BY <2>1, <2>2
<1> QED BY <1>3, <1>4 DEF AllNear, of, m

\* The contracted scan answers within the declared budget.
LEMMA ContractedKept ==
  ASSUME NEW q, NEW t, t = catalog[q.table], Scorable(t, q), Filled(t), IsSoft(q.eps), q.budget \in Nat,
         NEW kstar
  PROVE  AllNear(Contracted(t, q, kstar), Meaning(q), q.budget, 1)
<1> DEFINE f == [g \in {h \in DOMAIN t.dict : RowsIn(t, q, h) # {}} |->
                  ContractedGroup(t, q, RowsIn(t, q, g), kstar)]
<1>1. Contracted(t, q, kstar) = Labelled(t, f)
  BY DEF Contracted
<1>2. DOMAIN f = {h \in DOMAIN t.dict : MeanOf(t, q, h) # None}
  BY MeanWhereRows
<1>3. ASSUME NEW g \in DOMAIN f
      PROVE  Near(f[g], MeanOf(t, q, g), q.budget, 1)
  <2> DEFINE K  == RowsIn(t, q, g)
             rs == ScoredRows(t, q)
  <2>1. f[g] = ContractedGroup(t, q, K, kstar)
    BY <1>3
  <2>2. K \in SUBSET DOMAIN t.rows /\ K # {} /\ MeanOf(t, q, g) = AverageOf(rs, K, q.eps)
    BY <1>2, MeanWhereRows
  <2> HIDE DEF f, K, rs
  <2>3. rs = ScoredRows(t, q)
    BY DEF rs
  <2>4. Near(ContractedGroup(t, q, K, kstar), AverageOf(rs, K, q.eps), q.budget, 1)
    BY <2>2, <2>3, ContractedNear
  <2> QED BY <2>1, <2>2, <2>4
<1>4. Sound(t)
  BY DEF Scorable
<1> HIDE DEF f
<1> QED BY <1>1, <1>2, <1>3, <1>4, KeptByGroup

\* A scan of everything is kept, whatever the bound.
LEMMA FusedKept ==
  ASSUME NEW q, NEW t, t = catalog[q.table], Scorable(t, q), Filled(t), NEW num \in Nat, NEW den \in Int
  PROVE  AllNear(Fused(t, q), Meaning(q), num, den)
<1> DEFINE m == Meaning(q)
<1>1. DOMAIN Fused(t, q) = DOMAIN m /\ \A l \in DOMAIN m : Fused(t, q)[l] = m[l]
  BY FusedRight
<1>2. ByGroup(m, t, q)
  BY MeaningIs DEF Scorable
<1> HIDE DEF m
<1>3. ASSUME NEW l \in DOMAIN m
      PROVE  Near(m[l], m[l], num, den)
  <2>1. PICK g \in DOMAIN t.dict : l = t.dict[g] /\ MeanOf(t, q, g) # None
    BY <1>2 DEF ByGroup
  <2>2. m[l] = MeanOf(t, q, g)
    BY <1>2, <2>1 DEF ByGroup
  <2>3. m[l][1] \in Int /\ m[l][2] \in Nat
    BY <2>1, <2>2, MeanWhereRows
  <2> QED BY <2>3, NearItself
<1> QED BY <1>1, <1>3 DEF AllNear, m

\* Some integers have a least.
LEMMA LeastOf ==
  ASSUME NEW S, IsFiniteSet(S), S # {}, S \in SUBSET Int
  PROVE  \E m \in S : \A x \in S : m <= x
<1> DEFINE f == [x \in S |-> -x]
           N == {f[x] : x \in S}
<1>1. \A x \in S : f[x] = -x /\ f[x] \in Int /\ x \in Int
  OBVIOUS
<1> HIDE DEF f
<1>2. IsFiniteSet(N) /\ N # {} /\ N \in SUBSET Int
  BY <1>1, ImageFinite
<1>3. \A x \in S : f[x] \in N
  OBVIOUS
<1>4. \A n \in N : \E x \in S : n = f[x]
  OBVIOUS
<1> HIDE DEF N
<1>5. PICK n \in N : \A k \in N : k <= n
  BY <1>2, GreatestOf
<1>6. PICK m \in S : n = f[m]
  BY <1>4
<1>7. ASSUME NEW x \in S PROVE m <= x
  <2>1. f[x] <= f[m]
    BY <1>3, <1>5, <1>6
  <2> QED BY <1>1, <2>1
<1> QED BY <1>7

\* A higher power is no smaller.
LEMMA Pow2Grows == \A n, k \in Nat : n <= k => Pow2[n] <= Pow2[k]
<1> TAKE n, k \in Nat
<1> HAVE n <= k
<1>1. k - n \in Nat /\ n + (k - n) = k
  OBVIOUS
<1>2. Pow2[k] = Pow2[n] * Pow2[k - n]
  BY <1>1, Pow2Sum
<1>3. Pow2[n] \in Nat \ {0} /\ Pow2[k - n] \in Nat \ {0}
  BY <1>1, Pow2Facts
<1>4. \A a, b \in Nat \ {0} : a <= a * b
  OBVIOUS
<1> QED BY <1>2, <1>3, <1>4

\* What is left out weighs at most one part in T: the averages are near.
LEMMA TailNear ==
  ASSUME NEW a, NEW b, NEW c \in Nat, Leaves(a, b, c), NEW T \in Nat, (b[2] - a[2]) * T <= b[2]
  PROVE  Near(a, b, 2 * c, T)
<1> DEFINE d == a[1] * b[2] - b[1] * a[2]
<1>1. PICK p \in Nat, z \in Nat \ {0} : p = a[2] /\ z = b[2] /\ p <= z
  BY DEF Leaves
<1>2. d \in Int /\ d <= 2 * c * (p * (z - p)) /\ -d <= 2 * c * (p * (z - p))
  BY <1>1 DEF Leaves
<1>3. PICK r \in Nat : r = z - p
  BY <1>1
<1>4. r * T <= z
  BY <1>1, <1>3
<1> HIDE DEF d
<1>5. PICK e \in Int : e = Larger(d, -d)
  BY <1>2 DEF Larger
<1>6. e <= 2 * c * (p * r)
  BY <1>2, <1>3, <1>5 DEF Larger
<1>7. e * T <= (2 * c * (p * r)) * T
  <2>1. PICK k \in Int : k = 2 * c * (p * r)
    OBVIOUS
  <2>2. k - e \in Nat /\ (k - e) * T = k * T - e * T /\ e * T \in Int /\ k * T \in Int
    BY <1>6, <2>1
  <2>3. \A x, y \in Nat : x * y \in Nat
    OBVIOUS
  <2>4. (k - e) * T \in Nat
    BY <2>2, <2>3
  <2> QED BY <2>1, <2>2, <2>4
<1>8. (2 * c * (p * r)) * T = (2 * c * p) * (r * T) /\ 2 * c * p \in Nat /\ r * T \in Nat
  <2>1. \A x, y \in Nat : x * y \in Nat
    OBVIOUS
  <2>2. (2 * c * (p * r)) * T = (2 * c * p) * (r * T)
    OBVIOUS
  <2> QED BY <2>1, <2>2
<1>9. (2 * c * p) * (r * T) <= (2 * c * p) * z
  <2>1. \A x, y, k \in Nat : x <= y => k * x <= k * y
    OBVIOUS
  <2> QED BY <1>4, <1>8, <2>1
<1>10. e * T <= (2 * c * p) * z
  <2>1. e * T \in Int /\ (2 * c * (p * r)) * T \in Int /\ (2 * c * p) * z \in Int
    OBVIOUS
  <2> QED BY <1>7, <1>8, <1>9, <2>1
<1>11. Larger(d, -d) * T <= 2 * c * p * z
  BY <1>5, <1>10
<1> QED BY <1>1, <1>11 DEF Near, d

\* No row that is left out scores above one that is kept.
NoneBetter(rs, A, H) == \A i \in A \ H, j \in H : rs[i].s <= rs[j].s

\* The kept rows hold the best score.
LEMMA BestKept ==
  ASSUME NEW rs, NEW A, NEW eps, Scored(rs, A, eps), NEW H \in SUBSET A, H # {}, NoneBetter(rs, A, H)
  PROVE  TopOf(rs, H) = TopOf(rs, A)
<1> DEFINE S == {rs[i].s : i \in A}
           m == TopOf(rs, H)
<1>1. Scored(rs, H, eps)
  BY ScoredSubset
<1>2. (\E j \in H : rs[j].s = m) /\ \A i \in H : rs[i].s <= m
  BY <1>1, TopOfFacts
<1>3. \A i \in A : rs[i].s <= m
  BY <1>2 DEF NoneBetter
<1>4. S \in SUBSET (NegInf..PosInf)
  BY DEF Scored
<1>5. m \in S /\ \A s \in S : s <= m
  BY <1>2, <1>3
<1>6. TopOf(rs, A) = TopScore(S)
  BY DEF TopOf
<1> HIDE DEF S, m
<1>7. TopScore(S) = m
  BY <1>4, <1>5, TopIs
<1> QED BY <1>6, <1>7 DEF m

\* The best score has the whole weight, and a score no higher than another has no more weight.
LEMMA SoftBelow ==
  ASSUME NEW rs, NEW A, NEW eps, Scored(rs, A, eps), IsSoft(eps), A # {},
         \A i \in A : rs[i].s < PosInf, NEW top, top = TopOf(rs, A), NEW j \in A
  PROVE  /\ One <= ZAt(rs, A, top, eps) /\ eps * (top - rs[j].s) \in 0..Spread
         /\ \A i \in A : rs[i].s <= rs[j].s =>
              /\ WeightBelow(top, rs[i].s, eps) \in Nat
              /\ WeightBelow(top, rs[i].s, eps) <= Pow2[Spread - eps * (top - rs[j].s)]
<1>1. /\ top \in Int /\ \A i \in A : rs[i].s <= top /\ rs[i].s \in Int
  BY TopOfFacts
<1>2. PICK b \in A : rs[b].s = top
  BY TopOfFacts
<1>3. eps \in Nat /\ IsFiniteSet(A)
  BY DEF Scored, IsSoft, EpsZero
<1>4. ASSUME NEW i \in A
      PROVE  /\ eps * (top - rs[i].s) \in 0..Spread
             /\ WeightBelow(top, rs[i].s, eps) = Pow2[Spread - eps * (top - rs[i].s)]
             /\ WeightBelow(top, rs[i].s, eps) \in Nat
  <2>1. rs[i].s # PosInf /\ rs[b].s # PosInf /\ top < PosInf
    BY <1>1, <1>2, InfinityFacts
  <2>2. eps * (rs[b].s - rs[i].s) <= Spread
    BY <2>1 DEF Scored
  <2> QED BY <1>1, <1>2, <1>3, <2>1, <2>2, SoftWeight
<1> DEFINE w == WeightsAt(rs, A, top, eps)
<1>5. \A i \in A : w[i] = WeightBelow(top, rs[i].s, eps) /\ w[i] \in Nat
  BY <1>4 DEF WeightsAt
<1>6. w[b] = One
  <2>1. top - rs[b].s = 0 /\ eps * 0 = 0 /\ Spread - 0 = Spread
    BY <1>1, <1>2, <1>3, InfinityFacts
  <2> HIDE DEF w
  <2> QED BY <1>4, <1>5, <2>1 DEF One
<1> HIDE DEF w
<1>7. One <= SumFunctionOnSet(w, A)
  BY <1>3, <1>5, <1>6, SumNat
<1>8. ASSUME NEW i \in A, rs[i].s <= rs[j].s
      PROVE  WeightBelow(top, rs[i].s, eps) <= Pow2[Spread - eps * (top - rs[j].s)]
  <2>1. PICK x, y \in Nat : x = top - rs[j].s /\ y = rs[j].s - rs[i].s /\ top - rs[i].s = x + y
    <3>1. top - rs[j].s \in Nat /\ rs[j].s - rs[i].s \in Nat
      BY <1>1, <1>8
    <3>2. top - rs[i].s = (top - rs[j].s) + (rs[j].s - rs[i].s)
      BY <1>1
    <3> QED BY <3>1, <3>2
  <2>2. eps * (x + y) = eps * x + eps * y /\ eps * x \in Nat /\ eps * y \in Nat
    BY <1>3, Distributes
  <2>3. eps * (x + y) \in 0..Spread /\ eps * x \in 0..Spread
    BY <1>4, <2>1
  <2>4. Spread - eps * (x + y) \in Nat /\ Spread - eps * x \in Nat
          /\ Spread - eps * (x + y) <= Spread - eps * x
    BY <2>2, <2>3, InfinityFacts
  <2>5. Pow2[Spread - eps * (x + y)] <= Pow2[Spread - eps * x]
    BY <2>4, Pow2Grows
  <2> QED BY <1>4, <2>1, <2>5
<1> QED BY <1>4, <1>7, <1>8 DEF ZAt, w

\* Rows weighing at most c each weigh at most c times their number.
LEMMA WeightAtMost ==
  ASSUME NEW S, IsFiniteSet(S), NEW w, NEW c \in Nat, \A x \in S : w[x] \in Nat /\ w[x] <= c
  PROVE  SumFunctionOnSet(w, S) <= c * Cardinality(S) /\ SumFunctionOnSet(w, S) \in Nat
<1> DEFINE one == [x \in S |-> 1]
           g   == [x \in S |-> c * one[x]]
<1>1. \A x \in S : one[x] = 1 /\ g[x] = c * one[x] /\ g[x] = c
  OBVIOUS
<1> HIDE DEF one, g
<1>2. Summable(w, S) /\ Summable(g, S) /\ Summable(one, S)
  BY <1>1 DEF Summable
<1>3. SumFunctionOnSet(w, S) <= SumFunctionOnSet(g, S)
  BY <1>1, <1>2, SumAtMost
<1>4. SumFunctionOnSet(g, S) = c * SumFunctionOnSet(one, S)
  BY <1>1, <1>2, SumScale
<1>5. SumFunctionOnSet(one, S) = Cardinality(S)
  BY <1>1, SumOfOnes
<1>6. SumFunctionOnSet(w, S) \in Nat
  BY SumNat
<1> QED BY <1>3, <1>4, <1>5, <1>6

\* A negligible tail weighs little of the whole.
LEMMA TailWeighs ==
  ASSUME NEW rs, NEW A, NEW eps, Scored(rs, A, eps), IsSoft(eps), A # {},
         \A i \in A : rs[i].s < PosInf, NEW H \in SUBSET A, NoneBetter(rs, A, H),
         NEW j \in H, NegligibleTail(<< Cardinality(A), 1 >>, rs[j].s, TopOf(rs, A), eps)
  PROVE  LeftOut(rs, A, H, eps) * Pow2[TailExp] <= ZAt(rs, A, TopOf(rs, A), eps)
<1> DEFINE R   == A \ H
           top == TopOf(rs, A)
           E   == eps * (top - rs[j].s)
           w   == WeightsAt(rs, R, top, eps)
           n   == Cardinality(A)
           z   == ZAt(rs, A, top, eps)
           r   == LeftOut(rs, A, H, eps)
<1>1. j \in A /\ R \in SUBSET A /\ \A i \in R : i \in A /\ rs[i].s <= rs[j].s
  BY DEF NoneBetter
<1>2. /\ One <= z /\ E \in 0..Spread
      /\ \A i \in R : /\ WeightBelow(top, rs[i].s, eps) \in Nat
                      /\ WeightBelow(top, rs[i].s, eps) <= Pow2[Spread - E]
  BY <1>1, SoftBelow
<1>3. z \in Nat
  BY AccFacts
<1>4. IsFiniteSet(A) /\ IsFiniteSet(R) /\ Cardinality(R) \in Nat /\ n \in Nat /\ Cardinality(R) <= n
  <2>1. IsFiniteSet(A)
    BY DEF Scored
  <2> QED BY <1>1, <2>1, FS_Subset, FS_CardinalityType
<1>5. Spread - E \in Nat /\ E \in Nat /\ E + (Spread - E) = Spread
  BY <1>2, InfinityFacts
<1>6. n * Pow2[TailExp] <= Pow2[E]
  <2>1. n * Pow2[TailExp] <= 1 * Pow2[E]
    BY DEF NegligibleTail
  <2>2. Pow2[E] \in Nat
    BY <1>5, Pow2Facts
  <2> QED BY <2>1, <2>2
<1>7. \A i \in R : w[i] = WeightBelow(top, rs[i].s, eps)
  BY DEF WeightsAt
<1>8. r = SumFunctionOnSet(w, R)
  BY DEF LeftOut, ZAt
<1> DEFINE c == Pow2[Spread - E]
           p == Pow2[E]
           T == Pow2[TailExp]
<1>9. c \in Nat /\ p \in Nat /\ T \in Nat /\ One = p * c
  <2>1. TailExp \in Nat
    BY QueryAssumption
  <2> QED BY <1>5, <2>1, Pow2Facts, Pow2Sum DEF One
<1> HIDE DEF E, w, n, z, r, R, c, p, T, top
<1>10. r \in Nat /\ r <= c * Cardinality(R)
  BY <1>2, <1>4, <1>7, <1>8, <1>9, WeightAtMost DEF c
<1>11. r <= c * n
  <2>1. \A x, y, k \in Nat : x <= y => k * x <= k * y /\ k * x \in Nat /\ k * y \in Nat
    OBVIOUS
  <2> QED BY <1>4, <1>9, <1>10, <2>1
<1>12. r * T <= (c * n) * T /\ (c * n) * T = c * (n * T) /\ n * T \in Nat
  <2>1. \A x, y, k \in Nat : x <= y => x * k <= y * k
    OBVIOUS
  <2>2. \A x, y, k \in Nat : (x * y) * k = x * (y * k) /\ x * y \in Nat
    OBVIOUS
  <2> QED BY <1>4, <1>9, <1>10, <1>11, <2>1, <2>2
<1>13. c * (n * T) <= c * p /\ c * p = One
  <2>1. \A x, y, k \in Nat : x <= y => k * x <= k * y
    OBVIOUS
  <2>2. n * T <= p
    BY <1>6 DEF T, p
  <2>3. c * p = p * c
    BY <1>9
  <2> QED BY <1>9, <1>12, <2>1, <2>2, <2>3
<1>14. r * T \in Nat /\ c * (n * T) \in Nat /\ One \in Nat
  <2>1. \A x, y \in Nat : x * y \in Nat
    OBVIOUS
  <2> QED BY <1>9, <1>10, <1>12, <2>1, InfinityFacts
<1>15. r * T <= z
  BY <1>2, <1>3, <1>12, <1>13, <1>14
<1> QED BY <1>15 DEF r, T, z, top

\* The least of the scores of some rows is the score of one of them.
LEMMA WorstIs ==
  ASSUME NEW S, IsFiniteSet(S), S # {}, S \in SUBSET Int
  PROVE  (CHOOSE s \in S : \A u \in S : s <= u) \in S
BY LeastOf

\* A probe that misses no better row, and whose tail is negligible where it misses any, is near.
LEMMA ProbeNear ==
  ASSUME NEW t, NEW q, Scorable(t, q), Filled(t), IsSoft(q.eps), NEW rs, rs = ScoredRows(t, q),
         NEW A \in SUBSET DOMAIN t.rows, NEW H \in SUBSET A, H # {},
         NoneBetter(rs, A, H),
         \/ H = A
         \/ \E j \in H : NegligibleTail(<< Cardinality(A), 1 >>, rs[j].s, TopOf(rs, H), q.eps)
  PROVE  Near(Weighed(t, H, WeightsOf(t, q, H)), AverageOf(rs, A, q.eps),
              2 * LargestValue(t), Pow2[TailExp])
<1> DEFINE w == WeightsOf(t, q, H)
           m == AverageOf(rs, A, q.eps)
           a == Weighed(t, H, w)
           c == LargestValue(t)
<1>1. PICK eps : eps = q.eps
  OBVIOUS
<1>2. A # {} /\ H \in SUBSET DOMAIN t.rows
  OBVIOUS
<1>3. Scored(rs, A, eps) /\ \A i \in A : rs[i].s < PosInf
  <2>1. Valued(t, A) = A
    BY DEF Valued, Filled
  <2>2. ScoresAt(t, q, A)
    BY RowsScored
  <2> QED BY <1>1, <2>1, <2>2, ValuedScored DEF ScoresAt
<1>4. TopOf(rs, H) = TopOf(rs, A)
  BY <1>3, BestKept
<1>5. WeighsIn(w, H, rs, A, eps)
  <2>1. WeighsIn(w, H, rs, H, eps)
    BY <1>1, <1>2, WeightsAre
  <2> QED BY <1>4, <2>1 DEF WeighsIn
<1> HIDE DEF w
<1>6. Truncation(t, w, rs, A, H, eps)
  BY <1>1, <1>2, <1>5, Truncated
<1>7. /\ Leaves(a, m, c) /\ (H = A => a = m)
      /\ m[2] = a[2] + LeftOut(rs, A, H, eps) /\ m[2] = ZAt(rs, A, TopOf(rs, A), eps)
  <2>1. /\ Leaves(a, m, c) /\ (H = A => a = m) /\ m[2] = a[2] + LeftOut(rs, A, H, eps)
        /\ m = << UAt(rs, A, TopOf(rs, A), eps), ZAt(rs, A, TopOf(rs, A), eps) >>
    BY <1>1, <1>6 DEF Truncation
  <2> HIDE DEF m, a, c
  <2> QED BY <2>1
<1>8. c \in Nat
  BY LargestIs DEF Scorable
<1>9. Pow2[TailExp] \in Nat
  BY QueryAssumption, Pow2Facts
<1> HIDE DEF m, a, c
<1>10. CASE H = A
  <2>1. m[1] \in Int /\ m[2] \in Nat
    BY <1>7 DEF Leaves
  <2>2. 2 * c \in Nat /\ Pow2[TailExp] \in Int
    BY <1>8, <1>9
  <2>3. Near(m, m, 2 * c, Pow2[TailExp])
    BY <2>1, <2>2, NearItself
  <2> QED BY <1>7, <1>10, <2>3 DEF m, a, c, w
<1>11. CASE H # A
  <2>1. PICK j \in H : NegligibleTail(<< Cardinality(A), 1 >>, rs[j].s, TopOf(rs, A), eps)
    BY <1>1, <1>4, <1>11
  <2>2. LeftOut(rs, A, H, eps) * Pow2[TailExp] <= ZAt(rs, A, TopOf(rs, A), eps)
    BY <1>1, <1>2, <1>3, <2>1, TailWeighs
  <2>3. m[2] - a[2] = LeftOut(rs, A, H, eps)
    <3>1. m[2] \in Nat /\ a[2] \in Nat
      BY <1>7 DEF Leaves
    <3>2. LeftOut(rs, A, H, eps) \in Int
      <4>1. IsFiniteSet(A \ H) /\ HasWeights(rs, A, TopOf(rs, A), eps)
        <5>1. IsFiniteSet(A)
          BY <1>3 DEF Scored
        <5> QED BY <1>2, <1>3, <5>1, FS_Subset, WeightsBelow
      <4>2. HasWeights(rs, A \ H, TopOf(rs, A), eps)
        BY <4>1 DEF HasWeights
      <4>3. PICK top, R : top = TopOf(rs, A) /\ R = A \ H
        OBVIOUS
      <4>4. Summable(WeightsAt(rs, R, top, eps), R)
        BY <4>1, <4>2, <4>3, WeighedSummable
      <4> QED BY <4>3, <4>4, SumFacts DEF LeftOut, ZAt
    <3> QED BY <1>7, <3>1, <3>2
  <2>4. (m[2] - a[2]) * Pow2[TailExp] <= m[2]
    BY <1>7, <2>2, <2>3
  <2>5. Near(a, m, 2 * c, Pow2[TailExp])
    BY <1>7, <1>8, <1>9, <2>4, TailNear
  <2> QED BY <2>5 DEF m, a, c, w
<1> QED BY <1>10, <1>11

\* Groups with a mean are answered under the labels of the meaning.
LEMMA SameLabels ==
  ASSUME NEW q, NEW t, t = catalog[q.table], Sound(t), NEW f,
         DOMAIN f = {h \in DOMAIN t.dict : MeanOf(t, q, h) # None}
  PROVE  DOMAIN Labelled(t, f) = DOMAIN Meaning(q)
<1>1. ByGroup(Meaning(q), t, q)
  BY MeaningIs
<1>2. Under(Labelled(t, f), t, f)
  <2>1. LabelsDiffer(t.dict) /\ DOMAIN f \in SUBSET DOMAIN t.dict
    BY DEF Sound
  <2> QED BY <2>1, LabelledIs
<1> QED BY <1>1, <1>2 DEF ByGroup, Under

\* What a probe answers from its hits.
HitsFold(t, q, H) ==
  Labelled(t, [g \in {t.rows[i].g : i \in H} |-> Weighed(t, H, WeightsOf(t, q, H))])

\* The rows at A are of one group.
OneCode(t, A) == ~ (Cardinality({t.rows[i].g : i \in A}) > 1)

\* The hits are all there is, or their tail is negligible.
TailFalls(t, q, A, H) ==
  \/ H = A
  \/ NegligibleTail(<< Cardinality(A), 1 >>,
                    CHOOSE s \in {ScoreOf(t.rows[i], q) : i \in H} :
                      \A u \in {ScoreOf(t.rows[i], q) : i \in H} : s <= u,
                    TopScore({ScoreOf(t.rows[i], q) : i \in H}), q.eps)

\* The ways a probe is answered.
LEMMA ProbeCases ==
  ASSUME NEW t, NEW q, NEW H, NEW A, A = Admitted(t, q), H \in SUBSET A, IsFiniteSet(A),
         ProbeFold(t, q, H) # Refused
  PROVE  \/ A = {} /\ ProbeFold(t, q, H) = << >>
         \/ A # {} /\ ProbeFold(t, q, H) = Fused(t, q)
         \/ /\ A # {} /\ H # {} /\ ProbeFold(t, q, H) = HitsFold(t, q, H)
            /\ OneCode(t, A) /\ TailFalls(t, q, A, H)
<1> DEFINE n      == Cardinality(A)
           scores == {ScoreOf(t.rows[i], q) : i \in H}
           best   == TopScore(scores)
           worst  == CHOOSE s \in scores : \A u \in scores : s <= u
           tail   == NegligibleTail(<< n, 1 >>, worst, best, q.eps)
           many   == Cardinality({t.rows[i].g : i \in A}) > 1
           fold   == ProbeFold(t, q, H)
<1>1. fold = IF n = 0 THEN << >>
             ELSE IF many THEN Refused
             ELSE IF H = {} THEN Fused(t, q)
             ELSE IF Cardinality(H) < n /\ ~ tail THEN Fused(t, q)
             ELSE HitsFold(t, q, H)
  BY DEF ProbeFold, HitsFold
<1>2. n = 0 <=> A = {}
  BY FS_EmptySet
<1>3. /\ n \in Nat /\ Cardinality(H) \in Nat /\ Cardinality(H) <= n
      /\ Cardinality(H) = n => H = A
  BY FS_Subset, FS_CardinalityType
<1>4. ~ (Cardinality(H) < n) => H = A
  BY <1>3
<1> HIDE DEF fold, n, tail, many, worst, best, scores
<1>5. \/ A = {} /\ fold = << >>
      \/ A # {} /\ fold = Fused(t, q)
      \/ /\ A # {} /\ H # {} /\ fold = HitsFold(t, q, H) /\ ~ many
         /\ H = A \/ tail
  BY <1>1, <1>2, <1>4 DEF fold
<1> QED BY <1>5 DEF fold, n, tail, many, worst, best, scores, OneCode, TailFalls

\* The one group of the admitted rows.
LEMMA OneGroup ==
  ASSUME NEW t, NEW q, Sound(t), NEW A, A = Admitted(t, q), IsFiniteSet(A), NEW i \in A,
         ~ (Cardinality({t.rows[k].g : k \in A}) > 1)
  PROVE  LET g == t.rows[i].g
         IN  /\ g \in DOMAIN t.dict /\ RowsIn(t, q, g) = A
             /\ \A k \in A : t.rows[k].g = g
             /\ \A h \in DOMAIN t.dict : RowsIn(t, q, h) # {} => h = g
<1> DEFINE f == [k \in A |-> t.rows[k].g]
           T == {f[k] : k \in A}
           g == t.rows[i].g
<1>1. IsFiniteSet(T)
  <2> HIDE DEF f
  <2> QED BY ImageFinite
<1>2. T = {t.rows[k].g : k \in A} /\ \A k \in A : t.rows[k].g \in T
  OBVIOUS
<1>3. Cardinality(T) \in Nat /\ ~ (Cardinality(T) > 1)
  BY <1>1, <1>2, FS_CardinalityType
<1>4. Cardinality(T) <= 1
  <2> HIDE DEF T
  <2> QED BY <1>3
<1>5. \A x, y \in T : x = y
  <2> HIDE DEF T
  <2> QED BY <1>1, <1>4, AtMostOne
<1>6. \A k \in A : t.rows[k].g = g
  BY <1>2, <1>5
<1>7. \A k \in A : \E h \in DOMAIN t.dict : k \in RowsIn(t, q, h)
  BY DEF Admitted
<1>8. \A h \in DOMAIN t.dict : \A k \in RowsIn(t, q, h) : k \in A /\ t.rows[k].g = h
  BY DEF Admitted, RowsIn
<1>9. \A h \in DOMAIN t.dict : RowsIn(t, q, h) # {} => h = g
  BY <1>6, <1>8
<1>10. g \in DOMAIN t.dict
  BY <1>7, <1>9
<1>11. RowsIn(t, q, g) = A
  BY <1>7, <1>8, <1>9, <1>10
<1> QED BY <1>6, <1>9, <1>10, <1>11

\* What a probe owes: every label, and of what misses no better row a near answer.
ProbeHeld(of, m, t, q, H) ==
  /\ DOMAIN of = DOMAIN m
  /\ NoneBetter(ScoredRows(t, q), Admitted(t, q), H) =>
       AllNear(of, m, 2 * LargestValue(t), Pow2[TailExp])

\* A probe answered from its hits.
LEMMA HitsKept ==
  ASSUME NEW q, NEW t, t = catalog[q.table], Scorable(t, q), Filled(t), IsSoft(q.eps),
         NEW A, A = Admitted(t, q), A \in SUBSET DOMAIN t.rows, IsFiniteSet(A),
         NEW H \in SUBSET A, H # {},
         OneCode(t, A), TailFalls(t, q, A, H)
  PROVE  ProbeHeld(HitsFold(t, q, H), Meaning(q), t, q, H)
<1> DEFINE f  == [g \in {t.rows[i].g : i \in H} |-> Weighed(t, H, WeightsOf(t, q, H))]
           rs == ScoredRows(t, q)
           scores == {ScoreOf(t.rows[i], q) : i \in H}
           worst  == CHOOSE s \in scores : \A u \in scores : s <= u
           far    == NegligibleTail(<< Cardinality(A), 1 >>, worst, TopScore(scores), q.eps)
<1>1. Sound(t)
  BY DEF Scorable
<1>2. PICK i0 \in H : TRUE
  OBVIOUS
<1>3. PICK g0 : /\ g0 \in DOMAIN t.dict /\ RowsIn(t, q, g0) = A
                /\ \A k \in A : t.rows[k].g = g0
                /\ \A h \in DOMAIN t.dict : RowsIn(t, q, h) # {} => h = g0
  BY <1>1, <1>2, OneGroup DEF OneCode
<1>4. {t.rows[i].g : i \in H} = {g0}
  BY <1>2, <1>3
<1>5. DOMAIN f = {g0} /\ f[g0] = Weighed(t, H, WeightsOf(t, q, H))
  BY <1>4
<1>6. DOMAIN f = {h \in DOMAIN t.dict : MeanOf(t, q, h) # None}
  <2>1. \A h \in DOMAIN t.dict : MeanOf(t, q, h) # None <=> h = g0
    BY <1>2, <1>3, MeanWhereRows
  <2> QED BY <1>3, <1>5, <2>1
<1>7. MeanOf(t, q, g0) = AverageOf(rs, A, q.eps)
  BY <1>3, MeanWhereRows
<1>8. HitsFold(t, q, H) = Labelled(t, f)
  BY DEF HitsFold
<1>9. H \in SUBSET DOMAIN t.rows
  OBVIOUS
<1>10. ScoresAt(t, q, H) /\ IsFiniteSet(H)
  BY <1>9, RowsScored
<1>11. \A i \in H : rs[i].s = ScoreOf(t.rows[i], q) /\ ScoreOf(t.rows[i], q) \in Int
  BY <1>10 DEF ScoresAt
<1>12. H = A \/ \E j \in H : NegligibleTail(<< Cardinality(A), 1 >>, rs[j].s, TopOf(rs, H), q.eps)
  <2>1. CASE H = A
    BY <2>1
  <2>2. CASE far
    <3>1. worst \in scores
      <4>1. IsFiniteSet(scores)
        <5> DEFINE sc == [i \in H |-> ScoreOf(t.rows[i], q)]
        <5>1. IsFiniteSet({sc[i] : i \in H})
          <6> HIDE DEF sc
          <6> QED BY <1>10, ImageFinite
        <5>2. {sc[i] : i \in H} = scores
          OBVIOUS
        <5> QED BY <5>1, <5>2
      <4>2. scores # {} /\ scores \in SUBSET Int
        BY <1>2, <1>11
      <4> HIDE DEF scores
      <4> QED BY <4>1, <4>2, WorstIs
    <3>2. PICK j \in H : worst = rs[j].s
      <4> HIDE DEF worst, rs
      <4> QED BY <1>11, <3>1
    <3>3. TopScore(scores) = TopOf(rs, H)
      <4>1. scores = {rs[i].s : i \in H}
        <5> HIDE DEF rs
        <5> QED BY <1>11
      <4> HIDE DEF scores
      <4> QED BY <4>1 DEF TopOf
    <3> HIDE DEF worst, scores, rs
    <3> QED BY <2>2, <3>2, <3>3
  <2>3. H = A \/ far
    BY DEF TailFalls
  <2> QED BY <2>1, <2>2, <2>3
<1> HIDE DEF f, worst, scores, far
<1>13. DOMAIN Labelled(t, f) = DOMAIN Meaning(q)
  BY <1>1, <1>6, SameLabels
<1>14. ASSUME NoneBetter(rs, A, H)
       PROVE  AllNear(Labelled(t, f), Meaning(q), 2 * LargestValue(t), Pow2[TailExp])
  <2>1. Near(Weighed(t, H, WeightsOf(t, q, H)), AverageOf(rs, A, q.eps),
             2 * LargestValue(t), Pow2[TailExp])
    <3> HIDE DEF rs
    <3>1. rs = ScoredRows(t, q)
      BY DEF rs
    <3> QED BY <1>12, <1>14, <3>1, ProbeNear
  <2>2. \A g \in DOMAIN f : Near(f[g], MeanOf(t, q, g), 2 * LargestValue(t), Pow2[TailExp])
    BY <1>5, <1>7, <2>1
  <2>3. PICK num, den : num = 2 * LargestValue(t) /\ den = Pow2[TailExp]
    OBVIOUS
  <2>4. AllNear(Labelled(t, f), Meaning(q), num, den)
    BY <1>1, <1>6, <2>2, <2>3, KeptByGroup
  <2> QED BY <2>3, <2>4
<1> QED BY <1>8, <1>13, <1>14 DEF ProbeHeld, rs

\* The probe answers every label, and what it owes.
LEMMA ProbeKept ==
  ASSUME NEW q, NEW t, t = catalog[q.table], Scorable(t, q), Filled(t), IsSoft(q.eps),
         NEW H \in SUBSET Admitted(t, q), ProbeFold(t, q, H) # Refused
  PROVE  ProbeHeld(ProbeFold(t, q, H), Meaning(q), t, q, H)
<1> DEFINE A == Admitted(t, q)
<1>1. A \in SUBSET DOMAIN t.rows
  BY DEF Admitted, RowsIn
<1>2. IsFiniteSet(A)
  <2> HIDE DEF A
  <2> QED BY <1>1, RowsScored
<1>3. CASE A = {} /\ ProbeFold(t, q, H) = << >>
  <2>1. \A h \in DOMAIN t.dict : RowsIn(t, q, h) = {}
    BY <1>3 DEF Admitted
  <2>2. \A h \in DOMAIN t.dict : MeanOf(t, q, h) = None
    BY <2>1, MeanWhereRows
  <2>3. DOMAIN Meaning(q) = {}
    <3>1. ByGroup(Meaning(q), t, q)
      BY MeaningIs DEF Scorable
    <3> QED BY <2>2, <3>1 DEF ByGroup
  <2>4. DOMAIN << >> = {}
    OBVIOUS
  <2> QED BY <1>3, <2>3, <2>4 DEF ProbeHeld, AllNear
<1>4. CASE ProbeFold(t, q, H) = Fused(t, q)
  <2>1. LargestValue(t) \in Nat /\ Pow2[TailExp] \in Nat
    BY LargestIs, QueryAssumption, Pow2Facts DEF Scorable
  <2>2. PICK num \in Nat, den \in Int : num = 2 * LargestValue(t) /\ den = Pow2[TailExp]
    BY <2>1
  <2>3. AllNear(Fused(t, q), Meaning(q), num, den)
    BY FusedKept
  <2> QED BY <1>4, <2>2, <2>3 DEF ProbeHeld, AllNear
<1>5. CASE /\ H # {} /\ ProbeFold(t, q, H) = HitsFold(t, q, H)
           /\ OneCode(t, A) /\ TailFalls(t, q, A, H)
  <2>1. H \in SUBSET A
    OBVIOUS
  <2> HIDE DEF A
  <2>2. A = Admitted(t, q)
    BY DEF A
  <2>3. ProbeHeld(HitsFold(t, q, H), Meaning(q), t, q, H)
    BY <1>1, <1>2, <1>5, <2>1, <2>2, HitsKept
  <2> QED BY <1>5, <2>3
<1> QED
  <2>1. H \in SUBSET A /\ A = Admitted(t, q)
    OBVIOUS
  <2> HIDE DEF A
  <2> QED BY <1>2, <1>3, <1>4, <1>5, <2>1, ProbeCases

-----------------------------------------------------------------------------
(* The plans that truncate, and what they are admitted on.                  *)

\* A fraction of whole numbers.
IsPart(f) == f[1] \in Int /\ f[2] \in Nat \ {0}

\* Quotients and products of whole numbers.
LEMMA Quotients ==
  /\ \A a \in Int, b \in Nat \ {0} : a \div b \in Int
  /\ \A a \in Nat, b \in Nat \ {0} : a \div b \in Nat
  /\ \A x, y \in Int : x * y \in Int
  /\ \A x, y \in Nat : x * y \in Nat
  /\ \A x, y \in Nat \ {0} : x * y \in Nat \ {0}
OBVIOUS

\* The least and the greatest value of a column without a NULL, its histogram and its size.
StatsAre(s, rows) ==
  /\ s.min \in Int /\ s.max \in Int
  /\ s.n = Len(rows)
  /\ \A b \in 0..(HistBuckets - 1) : s.hist[b] \in Int

\* What is collected of the value column.
LEMMA ScalarsCollected ==
  ASSUME NEW t, Sound(t), Filled(t), t.rows # << >>
  PROVE  StatsAre(ScalarStats(Column(t, "v")), t.rows)
<1> DEFINE vs    == Column(t, "v")
           known == {vs[i] : i \in DOMAIN vs} \ {NaN}
           min   == IF known = {} THEN PosInf ELSE CHOOSE a \in known : \A b \in known : a <= b
           max   == IF known = {} THEN NegInf ELSE TopScore(known)
           hist(b) == IF min >= max THEN 0
                      ELSE Cardinality({i \in DOMAIN vs : BucketOf(vs[i], min, max) = b})
           s     == ScalarStats(vs)
<1>1. /\ DOMAIN t.rows = 1..Len(t.rows) /\ Len(t.rows) \in Nat /\ DOMAIN vs = 1..Len(t.rows)
      /\ IsFiniteSet(DOMAIN vs)
  <2>1. t.rows \in Seq(DbRow)
    BY CodedFacts DEF Sound
  <2>2. DOMAIN t.rows = 1..Len(t.rows) /\ Len(t.rows) \in Nat
    BY <2>1, LenProperties
  <2>3. IsFiniteSet(1..Len(t.rows))
    BY <2>2, FS_Interval
  <2>4. DOMAIN vs = DOMAIN t.rows
    BY DEF Column
  <2> HIDE DEF vs
  <2> QED BY <2>2, <2>3, <2>4
<1>2. Len(vs) = Len(t.rows)
  BY <1>1
<1>3. \A i \in DOMAIN vs : vs[i] \in Int \cup {NaN}
  <2>1. \A i \in DOMAIN t.rows : t.rows[i].v \in Int \cup {NaN}
    BY WrittenScalars DEF Sound, Coded
  <2> QED BY <1>1, <2>1 DEF Column
<1> HIDE DEF vs
<1>4. IsFiniteSet(known) /\ known \in SUBSET Int
  <2>1. IsFiniteSet({vs[i] : i \in DOMAIN vs})
    BY <1>1, ImageFinite
  <2> QED BY <1>3, <2>1, FS_Subset
<1>5. s = [min |-> min, max |-> max, hist |-> [b \in 0..(HistBuckets - 1) |-> hist(b)], n |-> Len(vs)]
  BY DEF ScalarStats
<1> HIDE DEF known
<1>6. min \in Int /\ max \in Int
  <2>1. CASE known = {}
    BY <2>1, InfinityFacts
  <2>2. CASE known # {}
    <3>1. TopScore(known) \in known
      BY <1>4, <2>2, GreatestOf
    <3>2. (CHOOSE a \in known : \A b \in known : a <= b) \in known
      BY <1>4, <2>2, LeastOf
    <3> QED BY <1>4, <2>2, <3>1, <3>2
  <2> QED BY <2>1, <2>2
<1>7. \A b : hist(b) \in Int
  <2> TAKE b
  <2> HIDE DEF min, max
  <2>1. PICK T \in SUBSET DOMAIN vs : T = {i \in DOMAIN vs : BucketOf(vs[i], min, max) = b}
    OBVIOUS
  <2>2. Cardinality(T) \in Nat
    BY <1>1, FS_Subset, FS_CardinalityType
  <2> QED BY <2>1, <2>2
<1> HIDE DEF min, max, hist
<1>8. s.min = min /\ s.max = max /\ s.n = Len(vs) /\ s.hist = [b \in 0..(HistBuckets - 1) |-> hist(b)]
  BY <1>5
<1> HIDE DEF s
<1>9. \A b \in 0..(HistBuckets - 1) : s.hist[b] \in Int
  BY <1>7, <1>8
<1> QED BY <1>2, <1>6, <1>8, <1>9 DEF StatsAre, s, vs

\* The rows that pass a filter are estimated as a part of them.
LEMMA SelectsPart ==
  ASSUME NEW st, NEW rows, StatsAre(st.vals, rows), Len(rows) \in Nat \ {0},
         NEW p, p.op \in {">=", "="}, p.c \in Int
  PROVE  IsPart(Selectivity(st, p))
<1> DEFINE s     == st.vals
           range == s.max - s.min
           b     == BucketOf(p.c, s.min, s.max)
           T     == (b + 1)..(HistBuckets - 1)
           above == SumFunctionOnSet(s.hist, T)
           inB   == Larger((1 + b) * range - (p.c - s.min) * HistBuckets, 0)
           sel   == Selectivity(st, p)
<1>1. sel = CASE p.col # "v" \/ (p.op = ">=" /\ p.c <= s.min)   -> << 1, 1 >>
              [] p.col = "v" /\ p.op = ">=" /\ p.c > s.min      ->
                   IF p.c > s.max THEN << 0, 1 >>
                   ELSE << above * range + s.hist[b] * inB, range * s.n >>
              [] p.col = "v" /\ p.op = "="                      -> << 1, HistBuckets >>
  BY DEF Selectivity
<1>2. s.min \in Int /\ s.max \in Int /\ s.n \in Nat \ {0} /\ HistBuckets \in Nat \ {0}
        /\ p.c \in Int /\ \A x \in 0..(HistBuckets - 1) : s.hist[x] \in Int
  BY QueryAssumption DEF StatsAre
<1>3. ASSUME p.c > s.min, ~ (p.c > s.max)
      PROVE  above * range + s.hist[b] * inB \in Int /\ range * s.n \in Nat \ {0}
  <2> HIDE DEF s
  <2>1. range \in Nat \ {0} /\ p.c - s.min \in Nat
    BY <1>2, <1>3
  <2>2. PICK e : e = ((p.c - s.min) * HistBuckets) \div (s.max - s.min)
    OBVIOUS
  <2>3. e \in Nat
    <3>1. (p.c - s.min) * HistBuckets \in Nat
      BY <1>2, <2>1, Quotients
    <3> QED BY <2>1, <2>2, <3>1, Quotients
  <2>4. b = Smaller(e, HistBuckets - 1)
    BY <1>2, <2>2, NotANumber DEF BucketOf
  <2> HIDE DEF b, range
  <2>5. b \in 0..(HistBuckets - 1)
    BY <1>2, <2>3, <2>4 DEF Smaller
  <2>6. T \in SUBSET (0..(HistBuckets - 1)) /\ IsFiniteSet(T)
    <3>1. PICK lo, hi \in Int : lo = b + 1 /\ hi = HistBuckets - 1
      BY <1>2, <2>5
    <3>2. IsFiniteSet(lo..hi)
      BY FS_Interval
    <3>3. T = lo..hi
      BY <3>1
    <3>4. \A x \in lo..hi : x \in 0..(HistBuckets - 1)
      BY <1>2, <2>5, <3>1
    <3> QED BY <3>2, <3>3, <3>4
  <2> HIDE DEF T
  <2>7. Summable(s.hist, T)
    BY <1>2, <2>6 DEF Summable
  <2>8. above \in Int
    BY <2>7, SumFacts
  <2>9. inB \in Int
    <3>1. (1 + b) * range \in Int /\ (p.c - s.min) * HistBuckets \in Int
      BY <1>2, <2>1, <2>5, Quotients
    <3> QED BY <3>1 DEF Larger
  <2>10. s.hist[b] \in Int
    BY <1>2, <2>5
  <2> HIDE DEF above, inB, s
  <2>11. PICK h \in Int : h = s.hist[b]
    BY <2>10
  <2>12. above * range \in Int /\ h * inB \in Int
    BY <2>1, <2>8, <2>9, Quotients
  <2>13. above * range + h * inB \in Int
    BY <2>12
  <2>14. range * s.n \in Nat \ {0}
    BY <1>2, <2>1, Quotients
  <2> QED BY <2>11, <2>13, <2>14
<1> HIDE DEF s, range, b, above, inB, sel
<1>4. CASE p.col # "v" \/ (p.op = ">=" /\ p.c <= s.min)
  <2>1. sel = << 1, 1 >>
    BY <1>1, <1>2, <1>4
  <2> QED BY <2>1 DEF IsPart, sel
<1>5. CASE p.col = "v" /\ p.op = ">=" /\ p.c > s.min
  <2>1. ~ (p.c <= s.min)
    BY <1>2, <1>5
  <2>2. sel = IF p.c > s.max THEN << 0, 1 >>
              ELSE << above * range + s.hist[b] * inB, range * s.n >>
    BY <1>1, <1>5, <2>1
  <2> QED BY <1>3, <1>5, <2>2 DEF IsPart, sel
<1>6. CASE p.col = "v" /\ p.op = "="
  <2>1. sel = << 1, HistBuckets >>
    BY <1>1, <1>6
  <2> QED BY <1>2, <2>1 DEF IsPart, sel
<1> QED BY <1>2, <1>4, <1>5, <1>6

\* Temperatures of a query that is not a plain average: above 0, or 0.
LEMMA SoftOrZero ==
  ASSUME NEW q \in Queries, Soft(q)
  PROVE  q.eps # EpsZero => IsSoft(q.eps)
BY QueryAssumption DEF Soft, IsSoft, EpsZero, EpsInf

\* A truncated scan is planned for a declared budget, at a temperature above 0.
LEMMA BudgetDeclared ==
  ASSUME NEW q \in Queries, Soft(q), NEW t, Sound(t), Filled(t),
         NEW plan \in ContractPlans(q, CollectStats(t))
  PROVE  q.budget \in Nat /\ IsSoft(q.eps)
<1> DEFINE st   == CollectStats(t)
           sel  == Passing(st, q)
           n    == (StatRows(st) * sel[1]) \div sel[2]
           vals == st.vals
           size(a) == IF a \in {PosInf, NegInf} THEN PosInf ELSE Larger(a, -a)
           vmax == Larger(size(vals.min), size(vals.max))
           est  == EstimateContract(StatSketch(st), q.x, q.eps, q.budget, vmax, n)
<1>1. q.budget # Absent /\ StatSketch(st) # << >> /\ ~ est.limited /\ ~ (est.kstar >= n)
  BY DEF ContractPlans
<1>2. q.budget \in Nat
  BY <1>1, QueryAssumption
<1>3. st # NoStats /\ t.rows # << >>
  BY <1>1 DEF StatSketch, CollectStats
<1>4. Len(t.rows) \in Nat \ {0}
  <2>1. t.rows \in Seq(DbRow)
    BY CodedFacts DEF Sound
  <2> QED BY <1>3, <2>1, LenProperties, EmptySeq
<1>5. StatRows(st) = Len(t.rows) /\ StatsAre(st.vals, t.rows)
  <2>1. st = [rows |-> Len(t.rows), groups |-> Len(t.dict), vals |-> ScalarStats(Column(t, "v")),
              sketch |-> IF t.key = "none" THEN << >> ELSE KeySketch(Column(t, "k"))]
    BY <1>3 DEF CollectStats
  <2>2. st.rows = Len(t.rows) /\ st.vals = ScalarStats(Column(t, "v"))
    BY <2>1
  <2> HIDE DEF st
  <2> QED BY <1>3, <2>2, ScalarsCollected DEF StatRows
<1> HIDE DEF st
<1>6. IsPart(sel)
  <2>1. CASE ~ Filters(q)
    BY <2>1 DEF Passing, IsPart
  <2>2. CASE Filters(q)
    <3>1. sel = Selectivity(st, q.pred)
      BY <1>3, <2>2 DEF Passing
    <3>2. PICK p : p = q.pred
      OBVIOUS
    <3>3. p.op \in {">=", "="} /\ p.c \in Int
      BY <2>2, <3>2, QueryAssumption
    <3>4. PICK rows : rows = t.rows
      OBVIOUS
    <3>5. IsPart(Selectivity(st, p))
      BY <1>4, <1>5, <3>3, <3>4, SelectsPart
    <3> HIDE DEF sel
    <3> QED BY <3>1, <3>2, <3>5
  <2> QED BY <2>1, <2>2
<1> HIDE DEF sel
<1>7. n \in Int
  <2>1. StatRows(st) * sel[1] \in Int
    BY <1>4, <1>5, <1>6, Quotients DEF IsPart
  <2> QED BY <1>6, <2>1, Quotients DEF IsPart
<1> HIDE DEF n, vmax
<1>8. IsSoft(q.eps)
  <2> SUFFICES ASSUME ~ IsSoft(q.eps) PROVE FALSE
    OBVIOUS
  <2>1. est = [kstar |-> n, limited |-> TRUE] \/ est = Unlimited(n)
    BY DEF EstimateContract
  <2> HIDE DEF est
  <2>2. est.kstar = n
    BY <2>1 DEF Unlimited
  <2>3. n >= n
    BY <1>7
  <2> QED BY <1>1, <2>2, <2>3
<1> QED BY <1>2, <1>8

\* What an answer of a truncated plan owes.
Owed(a, m, t, q) ==
  Filled(t) => IF a.via = "topk" THEN AllNear(a.of, m, q.budget, 1)
               ELSE LET near == AllNear(a.of, m, 2 * LargestValue(t), Pow2[TailExp])
                    IN  /\ DOMAIN a.of = DOMAIN m
                        /\ (\A i \in Admitted(t, q) \ a.hits, j \in a.hits :
                              ScoreOf(t.rows[i], q) <= ScoreOf(t.rows[j], q)) => near

\* What ContractHeld says of one answer.
LEMMA ContractByOwed ==
  ContractHeld <=> \A q \in Queries : AnswerTo(q) /\ answer.via \in {"topk", "probe"} =>
                     Owed(answer, Meaning(q), catalog[q.table], q)
BY DEF ContractHeld, Owed, AllNear, Filled

\* An answer of the two truncated plans is what it owes.
LEMMA AnswerOwed ==
  ASSUME NEW q \in Queries, q.kind = "Dot", Soft(q), NEW t, t = catalog[q.table], Sound(t),
         NEW plan, NEW a \in Answers(q, plan), a.of # Refused, a.via = plan.op,
         \/ plan.op = "topk" /\ plan \in ContractPlans(q, CollectStats(t))
         \/ plan.op = "probe" /\ \E on : plan \in ProbePlans(q, CollectStats(t), on)
  PROVE  Owed(a, Meaning(q), t, q)
<1> DEFINE got(of) == [query |-> q, via |-> plan.op, of |-> of, hits |-> {}]
<1>1. ~ Refuses(t, q)
  BY DEF Answers
<1>2. Scorable(t, q)
  BY <1>1, NotRefused
<1>3. ASSUME plan.op = "topk", plan \in ContractPlans(q, CollectStats(t)), Filled(t)
      PROVE  a.via = "topk" /\ AllNear(a.of, Meaning(q), q.budget, 1)
  <2>1. a = got(Contracted(t, q, plan.k))
    BY <1>1, <1>3 DEF Answers
  <2>2. a.of = Contracted(t, q, plan.k)
    BY <2>1
  <2>3. q.budget \in Nat /\ IsSoft(q.eps)
    BY <1>3, BudgetDeclared
  <2> QED BY <1>2, <1>3, <2>2, <2>3, ContractedKept
<1>4. ASSUME plan.op = "probe", NEW on, plan \in ProbePlans(q, CollectStats(t), on), Filled(t)
      PROVE  a.via = "probe" /\ ProbeHeld(a.of, Meaning(q), t, q, a.hits) /\ a.hits \in SUBSET Admitted(t, q)
  <2>1. PICK h \in ProbeHits(q.table, q, plan.k) : a = [got(ProbeFold(t, q, h)) EXCEPT !.hits = h]
    BY <1>1, <1>4 DEF Answers
  <2>2. a.of = ProbeFold(t, q, h) /\ a.hits = h
    BY <2>1
  <2>3. h \in SUBSET Admitted(t, q)
    BY <2>1 DEF ProbeHits
  <2>4. IsSoft(q.eps)
    <3>1. q.eps # EpsZero
      BY <1>4 DEF ProbePlans
    <3> QED BY <3>1, SoftOrZero
  <2> QED BY <1>2, <1>4, <2>2, <2>3, <2>4, ProbeKept
<1>5. ASSUME ProbeHeld(a.of, Meaning(q), t, q, a.hits), a.hits \in SUBSET Admitted(t, q),
             \A i \in Admitted(t, q) \ a.hits, j \in a.hits : ScoreOf(t.rows[i], q) <= ScoreOf(t.rows[j], q)
      PROVE  AllNear(a.of, Meaning(q), 2 * LargestValue(t), Pow2[TailExp])
  <2>1. Admitted(t, q) \in SUBSET DOMAIN t.rows
    BY DEF Admitted, RowsIn
  <2>2. ScoresAt(t, q, Admitted(t, q))
    BY <1>2, <2>1, RowsScored
  <2>3. \A i \in Admitted(t, q) : ScoredRows(t, q)[i].s = ScoreOf(t.rows[i], q)
    BY <2>2 DEF ScoresAt
  <2>4. NoneBetter(ScoredRows(t, q), Admitted(t, q), a.hits)
    BY <1>5, <2>3 DEF NoneBetter
  <2> QED BY <1>5, <2>4 DEF ProbeHeld
<1>6. CASE plan.op = "topk" /\ plan \in ContractPlans(q, CollectStats(t))
  BY <1>3, <1>6 DEF Owed
<1>7. CASE plan.op = "probe" /\ \E on : plan \in ProbePlans(q, CollectStats(t), on)
  <2>1. Filled(t) => a.via = "probe" /\ ProbeHeld(a.of, Meaning(q), t, q, a.hits)
                       /\ a.hits \in SUBSET Admitted(t, q)
    BY <1>4, <1>7
  <2> QED BY <1>5, <2>1 DEF Owed, ProbeHeld
<1> QED BY <1>6, <1>7

\* A step of the engine keeps what the truncated plans owe.
LEMMA ContractStep == Ready /\ ContractHeld /\ [DbNext]_dbVars => ContractHeld'
<1> SUFFICES ASSUME Ready, ContractHeld, [DbNext]_dbVars,
                    NEW q \in Queries, AnswerTo(q)', answer'.via \in {"topk", "probe"}
             PROVE  Owed(answer, Meaning(q), catalog[q.table], q)'
  BY DEF ContractHeld, Owed, AllNear, Filled
<1>1. answer' # Nothing /\ answer'.of # Refused /\ answer'.query = q /\ q.kind = "Dot"
  BY DEF AnswerTo
<1>2. ASSUME UNCHANGED catalog PROVE Meaning(q)' = Meaning(q)
  BY <1>2 DEF Meaning
<1>3. CASE UNCHANGED << catalog, answer >>
  <2>1. AnswerTo(q) /\ answer.via \in {"topk", "probe"}
    BY <1>1, <1>3 DEF AnswerTo
  <2>2. Owed(answer, Meaning(q), catalog[q.table], q)
    BY <2>1, ContractByOwed
  <2> QED BY <1>2, <1>3, <2>2 DEF Owed
<1>4. ASSUME NEW r \in Queries, r.table \in DOMAIN catalog, Run(r)
      PROVE  Owed(answer, Meaning(q), catalog[q.table], q)'
  <2> DEFINE t  == catalog[q.table]
             st == CollectStats(t)
  <2>1. PICK plan :
          /\ answer' \in Answers(r, plan) /\ answer'.query = r /\ answer'.via = plan.op
          /\ \/ plan.op \in {"plain", "fused", "view"}
             \/ plan.op = "topk" /\ Soft(r) /\ plan \in ContractPlans(r, CollectStats(catalog[r.table]))
             \/ /\ plan.op = "probe" /\ Soft(r)
                /\ \E on : plan \in ProbePlans(r, CollectStats(catalog[r.table]), on)
    BY <1>4, RunShape
  <2>2. r = q
    BY <1>1, <2>1
  <2>3. UNCHANGED catalog
    BY <1>4, RunAnswers
  <2>4. Sound(t)
    BY <1>4, <2>2, ReadyFacts
  <2>5. /\ Soft(q)
        /\ \/ plan.op = "topk" /\ plan \in ContractPlans(q, st)
           \/ plan.op = "probe" /\ \E on : plan \in ProbePlans(q, st, on)
    BY <2>1, <2>2
  <2> HIDE DEF t
  <2>6. Owed(answer', Meaning(q), t, q)
    <3>1. t = catalog[q.table]
      BY DEF t
    <3>2. PICK a : a = answer'
      OBVIOUS
    <3>3. a \in Answers(q, plan) /\ a.of # Refused /\ a.via = plan.op
      BY <1>1, <2>1, <2>2, <3>2
    <3>4. Owed(a, Meaning(q), t, q)
      BY <1>1, <2>4, <2>5, <3>1, <3>3, AnswerOwed
    <3> QED BY <3>2, <3>4
  <2> QED BY <1>2, <2>3, <2>6 DEF Owed, t
<1> QED BY <1>1, <1>3, <1>4, OnlyRunAnswers

\* A truncated plan answers every label, within the declared budget for the contracted scan, and
\* for a probe that misses no better row within 2 * vmax * HNSW_TAIL_TOL.
THEOREM ContractHeldHolds == DbSpec => []ContractHeld
<1>1. DbInit => ContractHeld
  BY DEF DbInit, ContractHeld, AnswerTo
<1>2. Ready /\ ContractHeld /\ [DbNext]_dbVars => ContractHeld'
  BY ContractStep
<1>3. DbInv /\ CodedInv /\ ViewInv /\ LabelInv => Ready
  BY DEF Ready
<1> QED BY <1>1, <1>2, <1>3, DbInvariant, ViewInvariant, LabelInvariant, PTL DEF DbSpec
=============================================================================
