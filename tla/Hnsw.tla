-------------------------------- MODULE Hnsw --------------------------------
(***************************************************************************)
(* The HNSW index (hnsw.rs): a layered graph over key vectors, built by    *)
(* insert, searched by a greedy descent and a beam on the lowest layer,    *)
(* with tombstones that leave results at once and still route.             *)
(*                                                                         *)
(* Nodes count from 1 and an external id is the node it was given, as      *)
(* db.rs assigns them; layer l of the code is layer l here.  The level of  *)
(* an id is a hash of it, so a function of the node.                       *)
(***************************************************************************)
EXTENDS Integers, Sequences, FiniteSets, SequencesExt

CONSTANTS NodeKeys,      \* key vectors, pairs of integers
          Levels,        \* node -> level_for its id
          Selections,    \* subset of {"KeepBest", "Diversity"}
          M, EfBuild,    \* m and ef_construction
          Widen,         \* WIDEN_FACTOR
          MaxNodes, MaxDead,   \* bounds on nodes and on deletes
          Probes         \* searches: [q, k, ef, accept], accept a set of ids or AnyId
CONSTANT AnyId

VARIABLES keys,          \* node -> key vector
          links,         \* node -> layer -> sequence of nodes
          dead,          \* tombstones
          entry, top,    \* entry point, 0 for none, and its level
          selection

hnswVars == << keys, links, dead, entry, top, selection >>

HnswInit == /\ keys = << >> /\ links = << >> /\ dead = {}
            /\ entry = 0 /\ top = 0
            /\ selection \in Selections

Dot(a, b) == a[1] * b[1] + a[2] * b[2]

M0 == 2 * M
Cap(layer) == IF layer = 0 THEN M0 ELSE M

\* Cand's order: by score, then the lower node.
Better(ks, q, a, b) == \/ Dot(ks[a], q) > Dot(ks[b], q)
                       \/ Dot(ks[a], q) = Dot(ks[b], q) /\ a < b

Best(ks, q, S)  == CHOOSE a \in S : \A b \in S \ {a} : Better(ks, q, a, b)
Worst(ks, q, S) == CHOOSE a \in S : \A b \in S \ {a} : Better(ks, q, b, a)

BestFirst(ks, q, S) ==
  SortSeq(SelectSeq([n \in DOMAIN ks |-> n], LAMBDA n : n \in S), LAMBDA a, b : Better(ks, q, a, b))

Neighbours(ls, n, layer) == IF layer \in DOMAIN ls[n] THEN ls[n][layer] ELSE << >>

Firsts(s, n) == SubSeq(s, 1, IF n <= Len(s) THEN n ELSE Len(s))

(***************************************************************************)
(* Search                                                                  *)
(***************************************************************************)
RECURSIVE Climb(_, _, _, _, _), Descend(_, _, _, _, _, _), Beam(_, _, _, _)

\* Strict improvement over the neighbours, in link order, until there is none.
Climb(ks, ls, q, cur, layer) ==
  LET next == FoldLeft(LAMBDA c, n : IF Dot(ks[n], q) > Dot(ks[c], q) THEN n ELSE c,
                       cur, Neighbours(ls, cur, layer))
  IN  IF next = cur THEN cur ELSE Climb(ks, ls, q, next, layer)

\* greedy_at_layers, from a layer down to another.
Descend(ks, ls, q, cur, from, to) ==
  IF from < to THEN cur
  ELSE Descend(ks, ls, q, Climb(ks, ls, q, cur, from), from - 1, to)

\* A search of one layer: what it is given, and what a neighbour changes of its state.
Reaches(g, s, n) ==
  LET full  == Cardinality(s.accepted) >= g.ef
      admit == full => Dot(g.ks[n], g.q) > Dot(g.ks[Worst(g.ks, g.q, s.accepted)], g.q)
      more  == IF n \in g.accept THEN s.accepted \cup {n} ELSE s.accepted
  IN  IF n \in s.visited THEN s
      ELSE IF ~admit THEN [s EXCEPT !.visited = @ \cup {n}]
      ELSE [s EXCEPT !.visited = @ \cup {n}, !.frontier = @ \cup {n},
              !.accepted = IF Cardinality(more) > g.ef THEN more \ {Worst(g.ks, g.q, more)} ELSE more]

\* Mutated form: the budget ends a search that has not found k yet.
SpentAtOnce(g, s) == s.pops >= g.budget

\* The widening budget is used up, and k results are there.
Spent(g, s) == s.pops >= g.budget /\ Cardinality(s.accepted) >= g.floor

\* The best of the frontier cannot improve a full beam.
Settled(g, s, c) == /\ Cardinality(s.accepted) >= g.ef
                    /\ Dot(g.ks[c], g.q) < Dot(g.ks[Worst(g.ks, g.q, s.accepted)], g.q)

Beam(g, ls, layer, s) ==
  LET c == Best(g.ks, g.q, s.frontier)
  IN  IF s.frontier = {} THEN s.accepted
      ELSE IF Settled(g, s, c) \/ Spent(g, s) THEN s.accepted
      ELSE Beam(g, ls, layer,
                FoldLeft(LAMBDA t, n : Reaches(g, t, n),
                         [s EXCEPT !.frontier = @ \ {c}, !.pops = @ + 1],
                         Neighbours(ls, c, layer)))

\* search_layer.
SearchLayer(g, ls, from, layer) ==
  BestFirst(g.ks, g.q,
    Beam(g, ls, layer, [visited |-> {from}, frontier |-> {from}, pops |-> 0,
                        accepted |-> {from} \cap g.accept]))

Live == DOMAIN keys \ dead

Matching(p) == IF p.accept = AnyId THEN Live ELSE Live \cap p.accept

\* Where the beam on the lowest layer starts.
StartOf(q) == Descend(keys, links, q, entry, top, 1)

\* No filter, no budget; more pops than there are nodes is none.
Unbounded == MaxNodes + 1

Search(p) ==
  LET ef == IF p.ef >= p.k THEN p.ef ELSE p.k
      g  == [ks |-> keys, q |-> p.q, ef |-> ef, accept |-> Matching(p), floor |-> p.k,
             budget |-> IF p.accept = AnyId THEN Unbounded ELSE ef * Widen]
  IN  IF entry = 0 \/ p.k = 0 THEN << >>
      ELSE Firsts(SearchLayer(g, links, StartOf(p.q), 0), p.k)

(***************************************************************************)
(* Build                                                                   *)
(***************************************************************************)

\* Algorithm 4: a candidate closer to one that was taken than to the base is passed over.
Diverse(ks, cands, base, cap) ==
  FoldLeft(LAMBDA out, c :
             IF Len(out) >= cap \/ c = base
                  \/ \E i \in DOMAIN out : Dot(ks[c], ks[out[i]]) > Dot(ks[c], ks[base])
               THEN out ELSE Append(out, c),
           << >>, cands)

\* select_neighbors, of candidates in best-first order.
SelectNeighbors(ks, cands, base, cap) ==
  IF selection = "KeepBest" \/ Len(cands) <= cap THEN Firsts(cands, cap)
  ELSE Diverse(ks, cands, base, cap)

\* Mutated form: a full neighbour list is cut only when it is twice too long.
BacklinkLate(ks, ls, nb, node, layer) ==
  LET list == Append(ls[nb][layer], node)
  IN  [ls EXCEPT ![nb][layer] =
         IF Len(list) <= 2 * Cap(layer) THEN list
         ELSE SelectNeighbors(ks, BestFirst(ks, ks[nb], ToSet(list)), nb, Cap(layer))]

\* The link back from a neighbour, whose list is cut when it is too long.
Backlink(ks, ls, nb, node, layer) ==
  LET list == Append(ls[nb][layer], node)
  IN  [ls EXCEPT ![nb][layer] =
         IF Len(list) <= Cap(layer) THEN list
         ELSE SelectNeighbors(ks, BestFirst(ks, ks[nb], ToSet(list)), nb, Cap(layer))]

\* One layer of insert: the beam, the neighbours it gives and their links back.
LinkLayer(ks, b, node, layer) ==
  LET g     == [ks |-> ks, q |-> ks[node], ef |-> EfBuild, accept |-> DOMAIN ks, floor |-> 0,
                budget |-> Unbounded]
      beam  == SearchLayer(g, b.ls, b.cur, layer)
      taken == SelectNeighbors(ks, beam, node, M)
      own   == [b.ls EXCEPT ![node][layer] = taken]
  IN  [ls  |-> FoldLeft(LAMBDA ls, nb : Backlink(ks, ls, nb, node, layer), own, taken),
       cur |-> IF beam = << >> THEN b.cur ELSE beam[1]]

InsertNode(k) ==
  LET node  == Len(keys) + 1
      level == Levels[node]
      ks    == Append(keys, k)
      bare  == Append(links, [l \in 0..level |-> << >>])
      start == IF level <= top THEN level ELSE top
      built == FoldLeft(LAMBDA b, i : LinkLayer(ks, b, node, start - i),
                        [ls |-> bare, cur |-> Descend(ks, bare, k, entry, top, level + 1)],
                        [i \in 1..(start + 1) |-> i - 1])
  IN  /\ node <= MaxNodes
      /\ keys' = ks
      /\ links' = IF entry = 0 THEN bare ELSE built.ls
      /\ entry' = IF entry = 0 \/ level > top THEN node ELSE entry
      /\ top' = IF entry = 0 \/ level > top THEN level ELSE top
      /\ UNCHANGED << dead, selection >>

\* delete: a tombstone; a dead or unknown id is KeyNotFound.
DeleteNode(n) ==
  /\ n \in Live
  /\ Cardinality(dead) < MaxDead
  /\ dead' = dead \cup {n}
  /\ UNCHANGED << keys, links, entry, top, selection >>

HnswNext == \/ \E k \in NodeKeys : InsertNode(k)
            \/ \E n \in DOMAIN keys : DeleteNode(n)

(***************************************************************************)
(* Properties                                                              *)
(***************************************************************************)

\* What can be reached along the links of the lowest layer.
ReachedFrom(n) ==
  LET step[i \in 0..MaxNodes] ==
        IF i = 0 THEN {n}
        ELSE step[i - 1] \cup UNION {ToSet(Neighbours(links, a, 0)) : a \in step[i - 1]}
  IN  step[MaxNodes]

\* Any search, filtered or not, of a graph with tombstones comes back with k matches where k
\* can be reached from its start, and with all of them where fewer can; none of them is dead
\* or filtered out.  Where the beam is as wide as the matches they are the best k.
SearchServes ==
  entry # 0 => \A p \in Probes :
    LET found   == Search(p)
        matches == ReachedFrom(StartOf(p.q)) \cap Matching(p)
        best    == Firsts(BestFirst(keys, p.q, matches), p.k)
    IN  /\ ToSet(found) \subseteq matches
        /\ Len(found) = Len(best)
        /\ Cardinality(ToSet(found)) = Len(found)
        /\ p.accept = AnyId /\ p.ef >= Cardinality(matches) => found = best

\* No node has more links on a layer than its degree allows, links itself or the same node
\* twice, or links a node that is not on that layer; the entry point is on the top layer, and
\* only the first node may lack a link to start from.
GraphSound ==
  /\ \A n \in DOMAIN keys : \A l \in DOMAIN links[n] : LET list == links[n][l] IN
       /\ Len(list) <= Cap(l)
       /\ Cardinality(ToSet(list)) = Len(list)
       /\ n \notin ToSet(list)
       /\ \A i \in DOMAIN list : l \in DOMAIN links[list[i]]
  /\ keys # << >> => \A n \in DOMAIN keys : top \in DOMAIN links[entry] /\ DOMAIN links[n] \subseteq 0..top
  /\ Len(keys) > 1 => \A n \in DOMAIN keys : links[n][0] # << >>
=============================================================================
