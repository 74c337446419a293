----------------------------- MODULE MerkleLog ------------------------------
(***************************************************************************)
(* The Merkle audit log (merkle.rs): leaf hashes, the root over them, and  *)
(* inclusion proofs.  Hashes are symbolic: a hash is the term it is of,    *)
(* and different terms are different hashes.                               *)
(***************************************************************************)
EXTENDS Integers, Sequences, SequencesExt

CONSTANTS Payloads, MaxLeaves

ASSUME MerkleAssumption == MaxLeaves \in Nat

VARIABLES leaves,   \* the leaf hashes
          payloads  \* history: what was appended

merkleVars == << leaves, payloads >>

\* The domain separators 0x00 and 0x01, and the root of the empty log, are
\* the length of the term.
Leaf(payload)  == << payload >>
Pair(l, r)     == << l, r >>
EmptyRoot      == << >>

HalfUp(n) == (n + 1) \div 2

\* Mutated form: an odd last hash is paired with itself.
LevelAboveDuplicating(level) ==
  [n \in 1..HalfUp(Len(level)) |->
     Pair(level[2 * n - 1], IF 2 * n <= Len(level) THEN level[2 * n] ELSE level[2 * n - 1])]

\* The level above: pairs, and an odd last hash as it is.
LevelAbove(level) ==
  [n \in 1..HalfUp(Len(level)) |->
     IF 2 * n <= Len(level) THEN Pair(level[2 * n - 1], level[2 * n])
                            ELSE level[2 * n - 1]]

\* The tree over ls, level by level: one round of the loop for each, and none above the root.
Tree(ls) ==
  LET level[k \in 0..Len(ls)] ==
        IF k = 0 THEN ls
        ELSE IF Len(level[k - 1]) <= 1 THEN level[k - 1] ELSE LevelAbove(level[k - 1])
  IN  level

Root(ls) == IF ls = << >> THEN EmptyRoot ELSE Tree(ls)[Len(ls)][1]

\* Position of the sibling of position at, counted from 0 as in the code; a level may lack it.
Sibling(at) == IF at % 2 = 0 THEN at + 1 ELSE at - 1

\* Mutated form: the proof has an element for an odd last hash too.
PathRoundPromoted(s, level) ==
  [at   |-> s.at \div 2,
   path |-> Append(s.path, level[IF Sibling(s.at) < Len(level) THEN Sibling(s.at) + 1 ELSE s.at + 1])]

\* A round of proof: the sibling of the position, if there is one, and the position above.
PathRound(s, level) ==
  [at   |-> s.at \div 2,
   path |-> IF Sibling(s.at) < Len(level) THEN Append(s.path, level[Sibling(s.at) + 1]) ELSE s.path]

\* proof: the siblings on the way up.
Path(ls, idx) ==
  LET step[k \in 0..Len(ls)] ==
        IF k = 0 THEN [at |-> idx, path |-> << >>] ELSE PathRound(step[k - 1], Tree(ls)[k - 1])
  IN  step

Proof(ls, idx) == Path(ls, idx)[Len(ls)].path

\* Mutated form: the side of every sibling is taken from the leaf's own index.
VerifyRoundOneSide(s, proof) ==
  IF s.size <= 1 \/ ~ s.ok THEN s
  ELSE LET even == s.at % 2 = 0
           next == [s EXCEPT !.size = HalfUp(s.size)]
       IN  IF even /\ s.at + 1 >= s.size THEN next
           ELSE IF s.used >= Len(proof) THEN [s EXCEPT !.ok = FALSE]
           ELSE [next EXCEPT !.used = @ + 1,
                             !.hash = IF even THEN Pair(@, proof[s.used + 1])
                                              ELSE Pair(proof[s.used + 1], @)]

\* A round of verify: the next element of the proof wherever the level has a sibling.
VerifyRound(s, proof) ==
  IF s.size <= 1 \/ ~ s.ok THEN s
  ELSE LET even == s.at % 2 = 0
           last == even /\ s.at + 1 >= s.size
           missing == ~ last /\ s.used >= Len(proof)
       IN  [at   |-> s.at \div 2,
            size |-> HalfUp(s.size),
            used |-> IF last \/ missing THEN s.used ELSE s.used + 1,
            hash |-> IF last \/ missing THEN s.hash
                     ELSE IF even THEN Pair(s.hash, proof[s.used + 1])
                                  ELSE Pair(proof[s.used + 1], s.hash),
            ok   |-> ~ missing]

Ascent(payload, idx, n, proof) ==
  LET step[k \in 0..n] ==
        IF k = 0 THEN [at |-> idx, size |-> n, used |-> 0, hash |-> Leaf(payload), ok |-> TRUE]
        ELSE VerifyRound(step[k - 1], proof)
  IN  step

\* verify: climb from the leaf.  Elements left over are not looked at, nor is idx compared
\* with n.
Verify(payload, idx, n, proof, root) ==
  /\ n # 0
  /\ LET end == Ascent(payload, idx, n, proof)[n] IN end.ok /\ end.hash = root

-----------------------------------------------------------------------------
MerkleInit == leaves = << >> /\ payloads = << >>

AppendEntry(payload) ==
  /\ Len(leaves) < MaxLeaves
  /\ leaves' = Append(leaves, Leaf(payload))
  /\ payloads' = Append(payloads, payload)

\* root, proof and verify change nothing.
Ask == UNCHANGED merkleVars

MerkleNext == Ask \/ \E payload \in Payloads : AppendEntry(payload)

MerkleSpec == MerkleInit /\ [][MerkleNext]_merkleVars

-----------------------------------------------------------------------------
Indices == 0..(Len(leaves) - 1)

\* Every proof the log hands out is accepted for its own entry.
ProofsVerify ==
  \A idx \in Indices :
    Verify(payloads[idx + 1], idx, Len(leaves), Proof(leaves, idx), Root(leaves))

\* The hashes anybody who saw the tree knows.
KnownHashes == UNION {{Tree(leaves)[k][n] : n \in DOMAIN Tree(leaves)[k]} :
                k \in 0..Len(leaves)}

\* No proof put together from hashes of the tree, and no longer than the first entry's, makes
\* another payload pass for the entry at a position of the log, nor that of another entry.
VerifySound ==
  leaves # << >> =>
    \A proof \in BoundedSeq(KnownHashes, Len(Proof(leaves, 0))) :
      \A idx \in Indices, payload \in Payloads :
        Verify(payload, idx, Len(leaves), proof, Root(leaves)) => payload = payloads[idx + 1]

\* merkle.rs: no later modification (insert, edit, delete) of past entries
\* can produce a matching root, whatever the length of the other log; the
\* empty log is one of the others.
TamperEvident ==
  leaves # << >> =>
    \A other \in BoundedSeq(Payloads, MaxLeaves) :
      other # payloads => Root([n \in DOMAIN other |-> Leaf(other[n])]) # Root(leaves)
=============================================================================
