------------------------------ MODULE MerkleProofs ------------------------------
(***************************************************************************)
(* Transparency proofs (supply_chain_bundle.py: _inclusion_root and        *)
(* _verify_consistency) against the trees and proofs of RFC 6962.  Hashes  *)
(* are terms, so that no two inputs collide.  Two branches of the log have *)
(* the first CommonPrefix entries in common.  The limit of 64 hashes,      *)
(* which no tree of fewer than 2^63 entries needs, is left out.            *)
(***************************************************************************)
EXTENDS Integers, Sequences

CONSTANTS LargestTree, CommonPrefix

ASSUME MerkleAssumption == LargestTree \in Nat /\ CommonPrefix \in Nat

VARIABLE vector   \* what a verifier is offered

Branches == {"main", "fork"}
Sizes == 1..LargestTree
Positions == 0..LargestTree
Entry(branch, i) == IF branch = "main" \/ i < CommonPrefix THEN i ELSE i + LargestTree

LeafHash(entry) == <<entry>>
NodeHash(left, right) == <<left, right>>

-----------------------------------------------------------------------------
(* RFC 6962, section 2.1: the hash of entries low..high-1, the audit path  *)
(* of one of them, and the consistency proof for the first m of them.      *)

PowerOf2[level \in Positions] == IF level = 0 THEN 1 ELSE 2 * PowerOf2[level - 1]
Split(n) == CHOOSE k \in {PowerOf2[level] : level \in Positions} : k < n /\ n <= 2 * k

Nodes == Branches \X Positions \X Positions
HashOf[node \in Nodes] ==
  LET branch == node[1]  low == node[2]  high == node[3]
      middle == low + Split(high - low)
  IN IF high <= low + 1 THEN LeafHash(Entry(branch, low))
     ELSE NodeHash(HashOf[<<branch, low, middle>>], HashOf[<<branch, middle, high>>])
TreeHash(branch, low, high) == HashOf[<<branch, low, high>>]

PathOf[node \in Nodes \X Positions] ==
  LET branch == node[1][1]  low == node[1][2]  high == node[1][3]  i == node[2]
      middle == low + Split(high - low)
  IN IF high <= low + 1 THEN <<>>
     ELSE IF i < middle
       THEN Append(PathOf[<<<<branch, low, middle>>, i>>], TreeHash(branch, middle, high))
       ELSE Append(PathOf[<<<<branch, middle, high>>, i>>], TreeHash(branch, low, middle))

ProofOf[node \in Nodes \X Sizes \X BOOLEAN] ==
  LET branch == node[1][1]  low == node[1][2]  high == node[1][3]  m == node[2]
      middle == low + Split(high - low)
  IN IF high <= low + m THEN IF node[3] THEN <<>> ELSE <<TreeHash(branch, low, high)>>
     ELSE IF low + m <= middle
       THEN Append(ProofOf[<<<<branch, low, middle>>, m, node[3]>>], TreeHash(branch, middle, high))
       ELSE Append(ProofOf[<<<<branch, middle, high>>, (low + m) - middle, FALSE>>],
                   TreeHash(branch, low, middle))

Root(branch, size) == TreeHash(branch, 0, size)
Path(branch, i, size) == PathOf[<<<<branch, 0, size>>, i>>]
Proof(branch, old, new) == ProofOf[<<<<branch, 0, new>>, old, TRUE>>]

-----------------------------------------------------------------------------
(* The code.                                                               *)

Invalid == <<>>
Odd(n) == n % 2 = 1
Shifted(n, bits) == n \div PowerOf2[bits]

InclusionStep(walk, sibling) ==
  [node |-> IF Odd(walk.index) \/ walk.index = walk.last
              THEN NodeHash(sibling, walk.node) ELSE NodeHash(walk.node, sibling),
   index |-> walk.index \div 2, last |-> walk.last \div 2]

(* _inclusion_root                                                         *)
InclusionRoot(entry, index, size, hashes) ==
  LET walk[n \in 0..Len(hashes)] ==
        IF n = 0 THEN [node |-> LeafHash(entry), index |-> index, last |-> size - 1]
        ELSE InclusionStep(walk[n - 1], hashes[n])
      end == walk[Len(hashes)]
  IN IF size = 0 \/ index >= size \/ end.last # 0 THEN Invalid ELSE end.node

(* The bits the loops of _verify_consistency shift out: ones at the end,   *)
(* zeros at the end of what is not zero.                                   *)
Ones(n) == CHOOSE bits \in Positions :
  ~Odd(Shifted(n, bits)) /\ \A l \in 0..(bits - 1) : Odd(Shifted(n, l))
Zeros(n) == CHOOSE bits \in Positions :
  /\ n = 0 \/ Odd(Shifted(n, bits))
  /\ \A l \in 0..(bits - 1) : n # 0 /\ ~Odd(Shifted(n, l))

Joins(walk) == Odd(walk.first) \/ walk.first = walk.second
Joined(walk, sibling, bits) ==
  [first |-> Shifted(walk.first, bits) \div 2, second |-> Shifted(walk.second, bits) \div 2,
   old |-> IF Joins(walk) THEN NodeHash(sibling, walk.old) ELSE walk.old,
   new |-> IF Joins(walk) THEN NodeHash(sibling, walk.new) ELSE NodeHash(walk.new, sibling),
   ok |-> walk.ok /\ walk.second # 0]
ConsistencyStepPlain(walk, sibling) ==  \* faulty: the zeros are not shifted out
  Joined(walk, sibling, 0)
ConsistencyStep(walk, sibling) ==
  Joined(walk, sibling, IF Joins(walk) THEN Zeros(walk.first) ELSE 0)

(* _verify_consistency                                                     *)
ConsistencyHolds(old, new, oldRoot, newRoot, hashes) ==
  /\ 0 < old /\ old < new /\ hashes # <<>>
  /\ LET ones == Ones(old - 1)
         first == Shifted(old - 1, ones)
         start == IF first = 0 THEN 0 ELSE 1
         seed == IF first = 0 THEN oldRoot ELSE hashes[1]
         walk[n \in start..Len(hashes)] ==
           IF n = start
             THEN [first |-> first, second |-> Shifted(new - 1, ones),
                   old |-> seed, new |-> seed, ok |-> TRUE]
             ELSE ConsistencyStep(walk[n - 1], hashes[n])
         end == walk[Len(hashes)]
     IN end.ok /\ end.second = 0 /\ end.old = oldRoot /\ end.new = newRoot

-----------------------------------------------------------------------------
InclusionVectors ==
  [kind : {"inclusion"}, branch : Branches, entry : 0..(2 * LargestTree - 1), index : 0..LargestTree,
   size : Sizes, path : {"main", "fork"} \X (0..(LargestTree - 1)) \X Sizes]
ConsistencyVectors ==
  [kind : {"consistency"}, oldBranch : Branches, newBranch : Branches, old : Sizes, new : Sizes,
   proof : {"main", "fork"} \X Sizes \X Sizes]

NoVector == [kind |-> "none"]
MerkleInit == vector = NoVector

OfferInclusion == /\ vector = NoVector
                  /\ vector' \in {v \in InclusionVectors : v.path[2] < v.path[3]}
OfferConsistency == /\ vector = NoVector
                    /\ vector' \in {v \in ConsistencyVectors : v.proof[2] < v.proof[3]}

MerkleNext == OfferInclusion \/ OfferConsistency
MerkleSpec == MerkleInit /\ [][MerkleNext]_vector

Included(v) ==
  InclusionRoot(v.entry, v.index, v.size, Path(v.path[1], v.path[2], v.path[3]))
    = Root(v.branch, v.size)
Consistent(v) ==
  ConsistencyHolds(v.old, v.new, Root(v.oldBranch, v.old), Root(v.newBranch, v.new),
                   Proof(v.proof[1], v.proof[2], v.proof[3]))

(* Whatever path is offered, inclusion is only concluded of the entry that *)
(* the tree has at that index; and a consistency proof of the RFC is       *)
(* accepted, whereas no proof makes two trees consistent that are not.     *)
ProofsAreSound ==
  /\ vector.kind = "inclusion" /\ Included(vector) =>
       vector.index < vector.size /\ vector.entry = Entry(vector.branch, vector.index)
  /\ vector.kind = "consistency" /\ Consistent(vector) =>
       /\ vector.old < vector.new
       /\ vector.oldBranch = vector.newBranch \/ vector.old <= CommonPrefix
  /\ vector.kind = "consistency" /\ vector.old < vector.new
       /\ vector.oldBranch = vector.newBranch
       /\ vector.proof = <<vector.newBranch, vector.old, vector.new>> => Consistent(vector)

(* supply_chain_bundle.py:4, "RFC6962-style SHA-256 inclusion proofs": the *)
(* audit path of every entry of every tree verifies.                       *)
InclusionIsComplete ==
  vector.kind = "inclusion" /\ vector.path = <<vector.branch, vector.index, vector.size>>
    /\ vector.index < vector.size /\ vector.entry = Entry(vector.branch, vector.index)
    => Included(vector)
=============================================================================
