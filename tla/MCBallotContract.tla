-------------------------- MODULE MCBallotContract --------------------------
(* A small instance of BallotContract.  U8_MAX = 3 keeps the sentinel just  *)
(* above the proposal indices and lets a count of 5 wrap around the u8.     *)
EXTENDS BallotContract, TLC

MCCounts == {0, 1, 2, 5}

MCVectors ==
  {<<0, 0>>, <<1, 0>>, <<0, 1>>, <<2, 0>>,
   <<1>>, <<0, 0, 0, 0, 0>>, <<InvalidPoint, 1>>}

CONSTANTS b1, b2

\* A bound: the second election has one proposal, stays open and gets no
\* batches, enough for its voters and records to be mixed up with those of the
\* first.
SecondElectionSmall ==
  b2 \in DOMAIN ballots =>
    /\ ballots[b2].proposal_count = 1
    /\ ballots[b2].status = ELECTION_OPEN
    /\ ballots[b2].total_votes = 0

KeySymmetry == Permutations(Keys)
=============================================================================
