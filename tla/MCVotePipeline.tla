--------------------------- MODULE MCVotePipeline ---------------------------
(* A small instance of VotePipeline: batches of two instead of ten.         *)
EXTENDS VotePipeline, TLC

CONSTANTS r1, r2, r3, w1, w2, h1, h2

Vote(wallet, hash, movie) ==
  [wallet_id |-> wallet, encrypted_vote_hash |-> hash, movie_index |-> movie]

\* r2 is a retry of r1: the same signed bytes once more.
MCVoteOf == (r1 :> Vote(w1, h1, 0)) @@ (r2 :> Vote(w1, h1, 0)) @@
            (r3 :> Vote(w2, h2, 1))

Pair(left, right) == <<left, right>>

Tree == INSTANCE MerkleLevels WITH hash_pair <- Pair

MCMerkleRoot(leaves) == Tree!MerkleRoot([i \in DOMAIN leaves |-> <<leaves[i]>>])
=============================================================================
