----------------------------- MODULE MerkleTree -----------------------------
(***************************************************************************)
(* The receipt of a vote: merkle_proof and merkle_root build the proof and *)
(* the root level by level, and verify_merkle_proof climbs the proof again,*)
(* as create_batch_for_decade does for every receipt before it asserts     *)
(* that it verifies (batches.rs:60-104).  One step is one turn of a loop.  *)
(* The loops of merkle_root and merkle_proof compute the same levels and   *)
(* end together, so that one `level' stands for both.                      *)
(***************************************************************************)
EXTENDS MerkleLevels

CONSTANTS Leaf,           \* the hashes of leaves
          LeafSequences   \* the batches tried

ASSUME MerkleAssumption ==
  LeafSequences \subseteq Seq(Leaf) \ {<<>>}

VARIABLES pc,        \* "prove", "verify" or "done"
          leaves,    \* arguments: the leaves of the batch
          leaf_index,\*            and the position of the vote
          level,     \* the level reached
          index,     \* the position in it
          proof,     \* the nodes of the proof so far
          path,      \* history: what the proof so far leads to, step by step
          node,      \* nodes of the proof verified so far
          current,   \* the hash reached by the verifier
          verified   \* the verdict
vars == <<pc, leaves, leaf_index, level, index, proof, path, node, current,
          verified>>

Init ==
  /\ pc = "prove"
  /\ leaves \in LeafSequences
  /\ leaf_index \in 0..(Len(leaves) - 1)
  /\ level = leaves
  /\ index = leaf_index
  /\ proof = <<>>
  /\ path = <<leaves[leaf_index + 1]>>
  /\ node = 0
  /\ current = leaves[leaf_index + 1]
  /\ verified = FALSE

FaultyParentIndex == (index + 1) \div 2

ParentIndex == index \div 2

Climb ==
  /\ pc = "prove"
  /\ Len(level) > 1
  /\ proof' = Append(proof, ProofNode(level, index))
  /\ level' = ParentLevel(level)
  /\ index' = ParentIndex
  /\ path' = Append(path, VerifyStep(path[Len(path)], ProofNode(level, index)))
  /\ UNCHANGED <<pc, leaves, leaf_index, node, current, verified>>

Proved ==
  /\ pc = "prove"
  /\ Len(level) = 1
  /\ pc' = "verify"
  /\ UNCHANGED <<leaves, leaf_index, level, index, proof, path, node,
                 current, verified>>

Verify ==
  /\ pc = "verify"
  /\ node < Len(proof)
  /\ current' = VerifyStep(current, proof[node + 1])
  /\ node' = node + 1
  /\ UNCHANGED <<pc, leaves, leaf_index, level, index, proof, path, verified>>

Compare ==
  /\ pc = "verify"
  /\ node = Len(proof)
  /\ verified' = (current = level[1])
  /\ pc' = "done"
  /\ UNCHANGED <<leaves, leaf_index, level, index, proof, path, node, current>>

Next == Climb \/ Proved \/ Verify \/ Compare

Spec == Init /\ [][Next]_vars

-----------------------------------------------------------------------------
(* Types *)

ProofNodes(hashes) == [hash : hashes, is_left : BOOLEAN]

(* The index stays within the level, so that neither `level[index]' nor    *)
(* the sibling can be out of bounds, whatever the number of votes; the     *)
(* verifier never runs past the proof.                                     *)
TypeOK ==
  /\ pc \in {"prove", "verify", "done"}
  /\ leaves \in LeafSequences
  /\ leaf_index \in 0..(Len(leaves) - 1)
  /\ DOMAIN level = 1..Len(level)
  /\ index \in 0..(Len(level) - 1)
  /\ DOMAIN proof = 1..Len(proof)
  /\ Len(path) = Len(proof) + 1
  /\ node \in 0..Len(proof)
  /\ verified \in BOOLEAN

-----------------------------------------------------------------------------
(* Safety *)

(* Every receipt of every batch verifies: the assertion at batches.rs:104, *)
(* which would end the handler after the votes have left the queue, cannot *)
(* fail.                                                                   *)
ReceiptVerifies == pc = "done" => verified

\* What the proof makes of a leaf.
Climbed(leaf) ==
  LET hash[k \in 0..Len(proof)] ==
        IF k = 0 THEN leaf ELSE VerifyStep(hash[k - 1], proof[k])
  IN  hash[Len(proof)]

(* A receipt verifies for no vote but its own, if the hash is injective,   *)
(* although the doubled last nodes repeat hashes in the proof.             *)
OnlyItsLeafVerifies ==
  pc = "done" =>
    \A leaf \in Leaf :
      Climbed(leaf) = level[1] => leaf = leaves[leaf_index + 1]

\* The tree from the top: a node at height h covers 2^h leaves; a right child
\* without any leaves is replaced by the left one.
ReferenceNode(h, i) ==
  LET tree[k \in 0..h] ==
        [j \in {x \in 0..(Len(leaves) - 1) : x * 2^k < Len(leaves)} |->
           IF k = 0 THEN leaves[j + 1]
           ELSE hash_pair(tree[k - 1][2*j],
                          IF (2*j + 1) * 2^(k - 1) < Len(leaves)
                          THEN tree[k - 1][2*j + 1] ELSE tree[k - 1][2*j])]
  IN  tree[h][i]

(* The level at which merkle_proof stops is the root of the binary tree    *)
(* over the leaves, at the least height that covers them all, and what     *)
(* merkle_root computes in a loop of its own (merkle.rs:20-41 and 44-83).  *)
RootIsTreeRoot ==
  pc = "done" =>
    /\ 2^Len(proof) >= Len(leaves)
    /\ Len(proof) > 0 => 2^(Len(proof) - 1) < Len(leaves)
    /\ level = <<ReferenceNode(Len(proof), 0)>>
    /\ MerkleRoot(leaves) = level[1]

(* Batches of equally many votes have equal roots only if they hold the    *)
(* same votes in the same order.  Of different numbers they may: the last  *)
(* vote of an odd batch counts twice, which is why batch_id also hashes    *)
(* the number of votes (batches.rs:47-58).                                 *)
RootBindsLeaves ==
  pc = "done" =>
    \A other \in LeafSequences :
      Len(other) = Len(leaves) /\ MerkleRoot(other) = level[1] =>
        other = leaves

=============================================================================
