----------------------------- MODULE MerkleTree -----------------------------
(***************************************************************************)
(* The Merkle trees of operator/src/crypto/mod.rs, which the contracts     *)
(* check with OpenZeppelin's MerkleProof.  keccak256 is a constructor:     *)
(* different preimages have different hashes, and a leaf (72 bytes) is     *)
(* never the hash of a pair (64 bytes).  Leaves are numbered in the order  *)
(* of their hashes.                                                        *)
(***************************************************************************)
EXTENDS Naturals, Sequences, FiniteSets

LeafHash(l) == <<"leaf", l>>

(* The siblings are sorted before they are hashed, so that their order     *)
(* does not matter.                                                        *)
Hash(a, b) == <<"node", {a, b}>>

(* Fault: the node without a sibling is carried up as it is.               *)
UpCarries(level) ==
  [i \in 1..((Len(level) + 1) \div 2) |->
     IF 2 * i > Len(level) THEN level[2 * i - 1] ELSE Hash(level[2 * i - 1], level[2 * i])]

(* One level up: the last node of an odd level is its own sibling.  The    *)
(* loop stops at a single node.                                            *)
Up(level) ==
  IF Len(level) <= 1 THEN level
  ELSE [i \in 1..((Len(level) + 1) \div 2) |->
          Hash(level[2 * i - 1], level[IF 2 * i > Len(level) THEN 2 * i - 1 ELSE 2 * i])]

(* build_merkle_tree sorts the leaves of a batch and drops repeated ones.  *)
Sorted(S) ==
  [i \in 1..Cardinality(S) |-> CHOOSE l \in S : Cardinality({x \in S : x <= l}) = i]

Leaves(S) == [i \in 1..Cardinality(S) |-> LeafHash(Sorted(S)[i])]

(* Every level, from the leaves up; the root repeats.                      *)
Levels(S) ==
  LET level[k \in 1..Cardinality(S)] ==
        IF k = 1 THEN Leaves(S) ELSE Up(level[k - 1])
  IN  level

Root(S) == Levels(S)[Cardinality(S)][1]

(* idx: the place of a leaf's node at every level, counted from 0.         *)
Places(S, l) ==
  LET place[k \in 1..Cardinality(S)] ==
        IF k = 1 THEN (CHOOSE i \in 1..Cardinality(S) : Sorted(S)[i] = l) - 1
        ELSE place[k - 1] \div 2
  IN  place

IsLeft(place) == place % 2 = 0

Sibling(level, place) ==
  IF ~IsLeft(place) THEN level[place]
  ELSE level[IF place + 2 > Len(level) THEN place + 1 ELSE place + 2]

(* The levels that have another one above.                                 *)
Depth(levels) == Cardinality({k \in DOMAIN levels : Len(levels[k]) > 1})

(* generate_proof: the siblings of a leaf from the bottom up, and the      *)
(* levels at which the node is the left one of its pair.                   *)
Proof(S, l) ==
  LET levels == Levels(S)
      places == Places(S, l)
      depth  == Depth(levels)
  IN  [siblings |-> [k \in 1..depth |-> Sibling(levels[k], places[k])],
       path |-> {k \in 1..depth : IsLeft(places[k])}]

(* The nodes that a leaf and its siblings are hashed to.                   *)
Climb(siblings, l) ==
  LET node[k \in 0..Len(siblings)] ==
        IF k = 0 THEN LeafHash(l) ELSE Hash(node[k - 1], siblings[k])
  IN  node

(* verify_proof, and MerkleProof.verifyCalldata of the contracts.          *)
Proves(siblings, l, root) == Climb(siblings, l)[Len(siblings)] = root
=============================================================================
