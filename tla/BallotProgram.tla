--------------------------- MODULE BallotProgram ---------------------------
(***************************************************************************)
(* The data of the on-chain program projeto-kaonashi and the pure part of  *)
(* its instructions: for each instruction the conditions under which it    *)
(* succeeds and the account it leaves behind.  BallotContract drives these *)
(* operators from every legal and illegal input; VotePipeline drives them  *)
(* from the API.                                                           *)
(*                                                                         *)
(* A ciphertext is represented by the number it decrypts to under the key  *)
(* of the ballot: ElGamal is additively homomorphic, so adding ciphertexts *)
(* adds these numbers.  64 bytes that are not two Ristretto points are     *)
(* InvalidPoint.  A Solana transaction that returns an error has no effect *)
(* at all, so an instruction that fails is simply not enabled.             *)
(*                                                                         *)
(* The operators Faulty... are plausible mistakes in the definition that   *)
(* follows them.  Nothing uses them: each shows that some property would   *)
(* notice the mistake.                                                     *)
(***************************************************************************)
EXTENDS Integers, Sequences, FiniteSets

CONSTANTS MAX_PROPOSALS,  \* most proposals of a ballot: 8 in the code
          U8_MAX,         \* largest u8: 255
          U64_MAX,        \* largest u64: 2^64 - 1
          InvalidPoint,   \* bytes that are not a ciphertext
          NoRoot          \* the merkle root of 32 zero bytes

ASSUME WidthAssumption ==
  /\ U8_MAX \in Nat
  /\ U64_MAX \in Nat
  /\ MAX_PROPOSALS \in 1..U8_MAX
  /\ InvalidPoint \notin Nat

NO_FINAL_WINNER == U8_MAX
NO_VOTE == U8_MAX

ELECTION_OPEN == 0
ELECTION_CLOSED == 1
ELECTION_FINALIZED == 2

-----------------------------------------------------------------------------
(* The accounts *)

BallotAccount(chairpersons, roots) ==
  [chairperson        : chairpersons,
   proposal_count     : 1..MAX_PROPOSALS,
   encrypted_tally    : Seq(Nat),
   final_winner_index : 0..U8_MAX,
   status             : {ELECTION_OPEN, ELECTION_CLOSED, ELECTION_FINALIZED},
   merkle_root        : roots,
   total_votes        : 0..U64_MAX,
   batch_count        : 0..U64_MAX]

VoterRecord == [can_vote : BOOLEAN, has_voted : BOOLEAN, vote : 0..U8_MAX]

-----------------------------------------------------------------------------
(* Ciphertext vectors *)

validate_ciphertexts(cts) == \A i \in DOMAIN cts : cts[i] # InvalidPoint

encrypted_tally_after_vote(current, vote) ==
  [i \in DOMAIN current |-> current[i] + vote[i]]

\* What verify_encrypted_vote_proofs establishes about an accepted vector:
\* every entry encrypts 0 or 1 and the entries add up to 1.
IsOneHot(vote) ==
  \E choice \in DOMAIN vote :
    vote = [i \in DOMAIN vote |-> IF i = choice THEN 1 ELSE 0]

-----------------------------------------------------------------------------
(* initialize *)

FaultyProposalBound(count, names_fit, key_is_point, tally) ==
  /\ count > 0
  /\ names_fit
  /\ key_is_point
  /\ Len(tally) = count
  /\ validate_ciphertexts(tally)

validate_initial_ballot(count, names_fit, key_is_point, tally) ==
  /\ count \in 1..MAX_PROPOSALS
  /\ names_fit
  /\ key_is_point
  /\ Len(tally) = count
  /\ validate_ciphertexts(tally)

NewBallot(chairperson, count, tally) ==
  [chairperson        |-> chairperson,
   proposal_count     |-> count % (U8_MAX + 1),
   encrypted_tally    |-> tally,
   final_winner_index |-> NO_FINAL_WINNER,
   status             |-> ELECTION_OPEN,
   merkle_root        |-> NoRoot,
   total_votes        |-> 0,
   batch_count        |-> 0]

is_valid_proposal_index(ballot, index) == index < ballot.proposal_count

-----------------------------------------------------------------------------
(* register_voter and cast_vote *)

NewVoterRecord == [can_vote |-> TRUE, has_voted |-> FALSE, vote |-> NO_VOTE]

FaultyVotesTwice(ballot, record, vote_index, vote) ==
  /\ ballot.status = ELECTION_OPEN
  /\ record.can_vote
  /\ is_valid_proposal_index(ballot, vote_index)
  /\ Len(vote) = ballot.proposal_count
  /\ Len(vote) = Len(ballot.encrypted_tally)
  /\ validate_ciphertexts(vote)
  /\ IsOneHot(vote)

validate_cast_vote(ballot, record, vote_index, vote) ==
  /\ ballot.status = ELECTION_OPEN
  /\ record.can_vote
  /\ ~record.has_voted
  /\ is_valid_proposal_index(ballot, vote_index)
  /\ Len(vote) = ballot.proposal_count
  /\ Len(vote) = Len(ballot.encrypted_tally)
  /\ validate_ciphertexts(vote)
  /\ IsOneHot(vote)

FaultyMark(record, vote_index) == [record EXCEPT !.vote = vote_index]

mark_as_voted(record, vote_index) ==
  [record EXCEPT !.has_voted = TRUE, !.vote = vote_index]

-----------------------------------------------------------------------------
(* submit_rollup_batch.  The status of the election is not consulted.  The *)
(* two checked additions come after the first writes, but an overflow      *)
(* fails the whole transaction.                                            *)

FaultyUncheckedAdd(ballot, batch_tally, batch_size) ==
  /\ batch_size > 0
  /\ Len(batch_tally) = ballot.proposal_count
  /\ Len(batch_tally) = Len(ballot.encrypted_tally)
  /\ validate_ciphertexts(batch_tally)

validate_rollup_batch(ballot, batch_tally, batch_size) ==
  /\ batch_size > 0
  /\ Len(batch_tally) = ballot.proposal_count
  /\ Len(batch_tally) = Len(ballot.encrypted_tally)
  /\ validate_ciphertexts(batch_tally)
  /\ ballot.total_votes + batch_size <= U64_MAX
  /\ ballot.batch_count + 1 <= U64_MAX

AfterRollupBatch(ballot, root, batch_tally, batch_size) ==
  [ballot EXCEPT
     !.encrypted_tally = encrypted_tally_after_vote(@, batch_tally),
     !.merkle_root     = root,
     !.total_votes     = @ + batch_size,
     !.batch_count     = @ + 1]

-----------------------------------------------------------------------------
(* close_election and set_final_winner *)

FaultyReclose(ballot) == ballot.status # ELECTION_CLOSED

can_close(ballot) == ballot.status = ELECTION_OPEN

AfterClose(ballot) == [ballot EXCEPT !.status = ELECTION_CLOSED]

FaultyAnyWinner(ballot, winner_index) ==
  /\ ballot.status = ELECTION_CLOSED
  /\ ballot.final_winner_index = NO_FINAL_WINNER

can_finalize(ballot, winner_index) ==
  /\ ballot.status = ELECTION_CLOSED
  /\ ballot.final_winner_index = NO_FINAL_WINNER
  /\ is_valid_proposal_index(ballot, winner_index)

AfterFinalize(ballot, winner_index) ==
  [ballot EXCEPT !.final_winner_index = winner_index,
                 !.status             = ELECTION_FINALIZED]
=============================================================================
