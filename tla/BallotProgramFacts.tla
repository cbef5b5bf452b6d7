------------------------- MODULE BallotProgramFacts -------------------------
(***************************************************************************)
(* What the instructions of the on-chain program do to a well-typed        *)
(* account, for every width of the counters and every number of proposals. *)
(***************************************************************************)
EXTENDS BallotProgram, TLAPS

(* The truncation of proposals.len() to a u8 is harmless under             *)
(* MAX_PROPOSALS.                                                          *)
LEMMA CountFitsU8 ==
  ASSUME NEW count \in 1..MAX_PROPOSALS
  PROVE  count % (U8_MAX + 1) = count
<1>1. count \in Nat /\ U8_MAX \in Nat /\ count <= U8_MAX
  BY WidthAssumption
<1>2. \A n, m \in Nat : n <= m => n % (m + 1) = n
  OBVIOUS
<1> QED BY <1>1, <1>2

(* initialize leaves a well-typed, open account with an entry per          *)
(* proposal.                                                               *)
LEMMA InitializeType ==
  ASSUME NEW C, NEW R, NEW chairperson \in C, NoRoot \in R,
         NEW count \in 1..MAX_PROPOSALS, NEW tally \in Seq(Nat),
         Len(tally) = count
  PROVE  LET b == NewBallot(chairperson, count, tally)
         IN  /\ b \in BallotAccount(C, R)
             /\ Len(b.encrypted_tally) = b.proposal_count
             /\ b.status = ELECTION_OPEN
             /\ b.final_winner_index = NO_FINAL_WINNER
             /\ b.total_votes = 0 /\ b.batch_count = 0
             /\ b.encrypted_tally = tally /\ b.merkle_root = NoRoot
<1>1. count % (U8_MAX + 1) = count
  BY CountFitsU8
<1> QED BY <1>1, WidthAssumption
        DEF NewBallot, BallotAccount, NO_FINAL_WINNER, ELECTION_OPEN,
            ELECTION_CLOSED, ELECTION_FINALIZED

(* Adding a vector of the same length entry by entry keeps a tally a       *)
(* sequence of numbers of that length.                                     *)
LEMMA TallyAfterVote ==
  ASSUME NEW s \in Seq(Nat), NEW t \in Seq(Nat), Len(t) = Len(s)
  PROVE  LET sum == encrypted_tally_after_vote(s, t)
         IN  /\ sum \in Seq(Nat) /\ Len(sum) = Len(s)
             /\ \A i \in 1..Len(s) : sum[i] = s[i] + t[i]
<1> DEFINE sum == encrypted_tally_after_vote(s, t)
<1>1. /\ Len(s) \in Nat /\ DOMAIN s = 1..Len(s)
      /\ \A i \in 1..Len(s) : s[i] \in Nat /\ t[i] \in Nat
  OBVIOUS
<1>2. sum = [i \in 1..Len(s) |-> s[i] + t[i]]
  BY <1>1 DEF encrypted_tally_after_vote
<1>3. sum \in [1..Len(s) -> Nat]
  BY <1>1, <1>2
<1> HIDE DEF sum
<1>4. \A n \in Nat : \A f \in [1..n -> Nat] : f \in Seq(Nat) /\ Len(f) = n
  OBVIOUS
<1>5. sum \in Seq(Nat) /\ Len(sum) = Len(s)
  BY <1>1, <1>3, <1>4
<1>6. \A i \in 1..Len(s) : sum[i] = s[i] + t[i]
  BY <1>2
<1> QED BY <1>5, <1>6 DEF sum

(* submit_rollup_batch adds the batch to the tally and to the counters,    *)
(* and touches neither the status nor the winner.                          *)
LEMMA RollupFields ==
  ASSUME NEW C, NEW R, NEW ballot \in BallotAccount(C, R),
         NEW root, NEW tally, NEW size
  PROVE  LET b == AfterRollupBatch(ballot, root, tally, size)
         IN  /\ b.encrypted_tally =
                  encrypted_tally_after_vote(ballot.encrypted_tally, tally)
             /\ b.total_votes = ballot.total_votes + size
             /\ b.batch_count = ballot.batch_count + 1
             /\ b.merkle_root = root
             /\ b.chairperson = ballot.chairperson
             /\ b.proposal_count = ballot.proposal_count
             /\ b.status = ballot.status
             /\ b.final_winner_index = ballot.final_winner_index
  BY DEF AfterRollupBatch, BallotAccount

(* submit_rollup_batch keeps the account well typed: the counters stay     *)
(* within a u64 and the tally keeps its length.                            *)
LEMMA RollupType ==
  ASSUME NEW C, NEW R, NEW Q, NEW ballot \in BallotAccount(C, R),
         NEW root \in Q, NEW tally \in Seq(Nat), NEW size \in Nat,
         validate_rollup_batch(ballot, tally, size)
  PROVE  LET b == AfterRollupBatch(ballot, root, tally, size)
         IN  /\ b \in BallotAccount(C, Q)
             /\ Len(b.encrypted_tally) = Len(ballot.encrypted_tally)
<1> DEFINE sum == encrypted_tally_after_vote(ballot.encrypted_tally, tally)
           b   == AfterRollupBatch(ballot, root, tally, size)
<1>1. /\ ballot.encrypted_tally \in Seq(Nat)
      /\ ballot.total_votes \in Nat /\ ballot.batch_count \in Nat
  BY WidthAssumption DEF BallotAccount
<1>2. sum \in Seq(Nat) /\ Len(sum) = Len(ballot.encrypted_tally)
  BY <1>1, TallyAfterVote DEF validate_rollup_batch
<1> HIDE DEF sum
<1>3. b = [ballot EXCEPT !.encrypted_tally = sum, !.merkle_root = root,
                         !.total_votes = ballot.total_votes + size,
                         !.batch_count = ballot.batch_count + 1]
  BY DEF AfterRollupBatch, sum, BallotAccount
<1>4. /\ ballot.total_votes + size \in 0..U64_MAX
      /\ ballot.batch_count + 1 \in 0..U64_MAX
  BY <1>1, WidthAssumption DEF validate_rollup_batch
<1> HIDE DEF b
<1>5. b \in BallotAccount(C, Q) /\ b.encrypted_tally = sum
  BY <1>2, <1>3, <1>4 DEF BallotAccount
<1> QED BY <1>2, <1>5 DEF b

(* close_election and set_final_winner keep the account well typed and     *)
(* touch nothing but the status and the winner.                            *)
LEMMA StatusType ==
  ASSUME NEW C, NEW R, NEW ballot \in BallotAccount(C, R),
         NEW winner \in 0..U8_MAX
  PROVE  /\ AfterClose(ballot) \in BallotAccount(C, R)
         /\ AfterClose(ballot) = [ballot EXCEPT !.status = ELECTION_CLOSED]
         /\ AfterFinalize(ballot, winner) \in BallotAccount(C, R)
  BY DEF AfterClose, AfterFinalize, BallotAccount, ELECTION_CLOSED,
         ELECTION_FINALIZED, ELECTION_OPEN
=============================================================================
