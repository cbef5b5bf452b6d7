---------------------------- MODULE MCMerkleTree ----------------------------
(* All batches of at most MaxVotes votes, equal votes included.  Nodes are  *)
(* nested pairs: the hash is injective and no leaf is a node.               *)
EXTENDS MerkleTree, TLC

CONSTANT Votes, MaxVotes

MCHashPair(left, right) == <<left, right>>

MCLeaf == {<<v>> : v \in Votes}

MCLeafSequences == UNION {[1..n -> MCLeaf] : n \in 1..MaxVotes}
=============================================================================
