-------------------------- MODULE MCVoteProofFlow ---------------------------
(* The integers modulo 3 as group and as scalars.  The hashes are linear    *)
(* with different weights, so that an exchanged argument shows.             *)
EXTENDS VoteProofFlow

q == 3
Zq == 0..(q - 1)
ZqAdd(a, b) == (a + b) % q
ZqSub(a, b) == (a - b) % q
ZqMul(a, b) == (a * b) % q
ZqVoteHash(c, d, a, b, x, y) == (1 + c + 2*d + a + 2*b + x*x + y) % q
ZqSumHash(c, d, a, b) == (1 + 2*c + d + a + 2*b) % q

\* No choice, two choices, a value of 2, and a proper vote.
MCOtherVotes == {<<0, 0>>, <<1, 1>>, <<2, 0>>, <<2, 2>>, <<0, 1>>}
=============================================================================
