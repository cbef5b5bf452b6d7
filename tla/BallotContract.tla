--------------------------- MODULE BallotContract ---------------------------
(***************************************************************************)
(* The on-chain program as a state machine: any key may send any           *)
(* instruction, with any arguments, in any order.  The accounts of the     *)
(* program are partial functions: an account that has not been created is  *)
(* outside the domain, which is what Anchor's `init' constraint tests.     *)
(***************************************************************************)
EXTENDS BallotProgram, SequencesExt

CONSTANTS Ballots,       \* addresses of ballot accounts
          Keys,          \* signers: chairpersons and voters
          Roots,         \* merkle roots a batch may carry
          Counts,        \* numbers of proposals tried by initialize
          Vectors,       \* ciphertext vectors tried as tally, vote or batch
          BatchSizes     \* batch sizes tried by submit_rollup_batch

ASSUME ContractAssumption ==
  /\ Counts \subseteq Nat
  /\ Vectors \subseteq Seq(Nat \cup {InvalidPoint})
  /\ BatchSizes \subseteq Nat

VARIABLES ballots,        \* ballot address -> Ballot account
          voter_records,  \* <<ballot, voter>>, the PDA seeds -> VoterRecord
          credited        \* history: ballot -> votes that entered its tally
                          \* by initialize or by batches
vars == <<ballots, voter_records, credited>>

SumOf(tally) == FoldSeq(LAMBDA x, y : x + y, 0, tally)

\* has_one = chairperson: the signer is the chairperson of an existing ballot.
SignedByChairperson(b, signer) ==
  b \in DOMAIN ballots /\ ballots[b].chairperson = signer

\* The seeds of a voter's record besides a constant prefix.
FaultySeeds(b, voter) == <<CHOOSE a \in Ballots : TRUE, voter>>

voter_record_pda(b, voter) == <<b, voter>>

-----------------------------------------------------------------------------
Init ==
  /\ ballots = <<>>
  /\ voter_records = <<>>
  /\ credited = <<>>

initialize(b, chairperson) ==
  \E count \in Counts, names_fit, key_is_point \in BOOLEAN, tally \in Vectors :
    /\ b \notin DOMAIN ballots
    /\ validate_initial_ballot(count, names_fit, key_is_point, tally)
    /\ ballots' = [a \in DOMAIN ballots \cup {b} |->
                     IF a = b THEN NewBallot(chairperson, count, tally)
                              ELSE ballots[a]]
    /\ credited' = [a \in DOMAIN credited \cup {b} |->
                      IF a = b THEN SumOf(tally) ELSE credited[a]]
    /\ UNCHANGED voter_records

register_voter(b, signer, voter) ==
  LET pda == voter_record_pda(b, voter)
  IN  /\ SignedByChairperson(b, signer)
      /\ pda \notin DOMAIN voter_records
      /\ voter_records' = [r \in DOMAIN voter_records \cup {pda} |->
                             IF r = pda THEN NewVoterRecord
                                        ELSE voter_records[r]]
      /\ UNCHANGED <<ballots, credited>>

cast_vote(b, voter) ==
  LET pda == voter_record_pda(b, voter)
  IN  \E vote_index \in 0..U8_MAX, vote \in Vectors :
        /\ b \in DOMAIN ballots
        /\ pda \in DOMAIN voter_records
        /\ validate_cast_vote(ballots[b], voter_records[pda], vote_index, vote)
        /\ ballots' = [ballots EXCEPT ![b].encrypted_tally =
                         encrypted_tally_after_vote(@, vote)]
        /\ voter_records' = [voter_records EXCEPT ![pda] =
                               mark_as_voted(@, vote_index)]
        /\ UNCHANGED credited

submit_rollup_batch(b, signer) ==
  \E root \in Roots, tally \in Vectors, size \in BatchSizes :
    /\ SignedByChairperson(b, signer)
    /\ validate_rollup_batch(ballots[b], tally, size)
    /\ ballots' = [ballots EXCEPT ![b] =
                     AfterRollupBatch(@, root, tally, size)]
    /\ credited' = [credited EXCEPT ![b] = @ + SumOf(tally)]
    /\ UNCHANGED voter_records

close_election(b, signer) ==
  /\ SignedByChairperson(b, signer)
  /\ can_close(ballots[b])
  /\ ballots' = [ballots EXCEPT ![b] = AfterClose(@)]
  /\ UNCHANGED <<voter_records, credited>>

set_final_winner(b, signer) ==
  \E winner_index \in 0..U8_MAX :
    /\ SignedByChairperson(b, signer)
    /\ can_finalize(ballots[b], winner_index)
    /\ ballots' = [ballots EXCEPT ![b] = AfterFinalize(@, winner_index)]
    /\ UNCHANGED <<voter_records, credited>>

Next ==
  \E b \in Ballots, signer \in Keys :
    \/ initialize(b, signer)
    \/ \E voter \in Keys : register_voter(b, signer, voter)
    \/ cast_vote(b, signer)
    \/ submit_rollup_batch(b, signer)
    \/ close_election(b, signer)
    \/ set_final_winner(b, signer)

Spec == Init /\ [][Next]_vars

-----------------------------------------------------------------------------
(* Types *)

(* Accounts only ever hold values of their Rust types, u8 and u64 fields   *)
(* stay within their width, every tally entry is a ciphertext of a number, *)
(* and a voter record exists only under an existing ballot.                *)
TypeOK ==
  /\ DOMAIN ballots \subseteq Ballots
  /\ \A b \in DOMAIN ballots : ballots[b] \in BallotAccount(Keys, Roots \cup {NoRoot})
  /\ DOMAIN voter_records \subseteq (DOMAIN ballots) \X Keys
  /\ \A r \in DOMAIN voter_records : voter_records[r] \in VoterRecord
  /\ DOMAIN credited = DOMAIN ballots

-----------------------------------------------------------------------------
(* Safety *)

(* The tally has one ciphertext per proposal, whatever the sequence of     *)
(* instructions: proposal_count is a truncated u8 (lib.rs:247) that every  *)
(* later length check trusts.                                              *)
TallyMatchesProposals ==
  \A b \in DOMAIN ballots :
    Len(ballots[b].encrypted_tally) = ballots[b].proposal_count

(* A vote cast on chain is counted exactly once: besides what initialize   *)
(* and the batches brought in, the tally of a ballot holds one vote for    *)
(* each of its voter records marked as having voted, and no other.  A      *)
(* record of one ballot never pays for a vote in another.                  *)
DirectVotesCounted ==
  \A b \in DOMAIN ballots :
    SumOf(ballots[b].encrypted_tally) =
      credited[b] + Cardinality({v \in Keys :
                                   /\ <<b, v>> \in DOMAIN voter_records
                                   /\ voter_records[<<b, v>>].has_voted})

(* A final winner is recorded exactly when the election is FINALIZED, and  *)
(* it is one of the proposals: the sentinel NO_FINAL_WINNER = u8::MAX can  *)
(* never be mistaken for one.                                              *)
WinnerExactlyWhenFinalized ==
  \A b \in DOMAIN ballots :
    IF ballots[b].status = ELECTION_FINALIZED
    THEN is_valid_proposal_index(ballots[b], ballots[b].final_winner_index)
    ELSE ballots[b].final_winner_index = NO_FINAL_WINNER

(* Every batch carries a vote, so batch_count never passes total_votes:    *)
(* the second checked_add of submit_rollup_batch cannot be the one that    *)
(* overflows (rollups.rs:31-39).                                           *)
BatchCountBehindVotes ==
  \A b \in DOMAIN ballots :
    /\ ballots[b].batch_count <= ballots[b].total_votes
    /\ ballots[b].batch_count = 0 <=> ballots[b].total_votes = 0

-----------------------------------------------------------------------------
(* Action properties *)

StatusStep == {<<ELECTION_OPEN, ELECTION_CLOSED>>,
               <<ELECTION_CLOSED, ELECTION_FINALIZED>>}

ElectionStep ==
  \A b \in DOMAIN ballots :
    /\ b \in DOMAIN ballots'
    /\ \/ ballots'[b].status = ballots[b].status
       \/ <<ballots[b].status, ballots'[b].status>> \in StatusStep
    /\ ballots'[b].chairperson = ballots[b].chairperson
    /\ ballots[b].status = ELECTION_FINALIZED =>
         ballots'[b].final_winner_index = ballots[b].final_winner_index

(* An election only moves OPEN -> CLOSED -> FINALIZED; an account is never *)
(* created again over an existing one, so neither its chairperson nor a    *)
(* recorded winner can change.                                             *)
ElectionMovesForward == [][ElectionStep]_vars

RecordStep ==
  \A r \in DOMAIN voter_records :
    /\ r \in DOMAIN voter_records'
    /\ voter_records'[r] # voter_records[r] =>
         /\ ~voter_records[r].has_voted
         /\ voter_records'[r].has_voted
         /\ ballots[r[1]].status = ELECTION_OPEN

(* The vote of a registered voter is final and is only cast while the      *)
(* ballot is open: registering again, or being registered after the close, *)
(* never gives a second or a late vote.                                    *)
VoteIsFinal == [][RecordStep]_vars
=============================================================================
