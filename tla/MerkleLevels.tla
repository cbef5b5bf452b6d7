---------------------------- MODULE MerkleLevels ----------------------------
(***************************************************************************)
(* The arithmetic of the Merkle tree of merkle.rs: one level from the one  *)
(* below it, the sibling a proof needs, and the root.  Levels are          *)
(* sequences; an index counts from 0, as in the code.                      *)
(***************************************************************************)
EXTENDS Integers, Sequences

CONSTANT hash_pair(_, _)    \* the hash of two child nodes

FaultySingles(level) ==
  [i \in 1..((Len(level) + 1) \div 2) |->
     hash_pair(level[2*i - 1], level[2*i - 1])]

FaultyPadding(level) ==
  [i \in 1..((Len(level) + 1) \div 2) |->
     hash_pair(level[2*i - 1],
               IF 2*i <= Len(level) THEN level[2*i] ELSE level[1])]

\* chunks(2): a last node that is alone is paired with itself.
ParentLevel(level) ==
  [i \in 1..((Len(level) + 1) \div 2) |->
     hash_pair(level[2*i - 1],
               IF 2*i <= Len(level) THEN level[2*i] ELSE level[2*i - 1])]

sibling_index(index) == IF index % 2 = 0 THEN index + 1 ELSE index - 1

FaultyProofNode(level, index) ==
  [hash    |-> IF sibling_index(index) < Len(level) - 1
               THEN level[sibling_index(index) + 1] ELSE level[index + 1],
   is_left |-> index % 2 = 1]

ProofNode(level, index) ==
  [hash    |-> IF sibling_index(index) < Len(level)
               THEN level[sibling_index(index) + 1] ELSE level[index + 1],
   is_left |-> index % 2 = 1]

FaultyVerifyStep(current, node) == hash_pair(node.hash, node.hash)

\* One turn of the loop of verify_merkle_proof.
VerifyStep(current, node) ==
  IF node.is_left THEN hash_pair(node.hash, current)
                  ELSE hash_pair(current, node.hash)

\* Levels until one has a single node; Len(leaves) of them are always enough.
MerkleRoot(leaves) ==
  LET level[n \in 0..Len(leaves)] ==
        IF n = 0 THEN leaves
        ELSE IF Len(level[n - 1]) = 1 THEN level[n - 1]
        ELSE ParentLevel(level[n - 1])
  IN  level[Len(leaves)][1]
=============================================================================
