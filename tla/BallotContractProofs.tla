------------------------ MODULE BallotContractProofs ------------------------
(***************************************************************************)
(* Proofs about BallotContract for any number of ballots and keys, any     *)
(* arguments and any width of the counters.  Most invariants are facts     *)
(* about one account alone: the proofs show that each instruction keeps    *)
(* the account sound, and lift this to the program.  That every vote cast  *)
(* on chain is counted once relates the tally to the records of all        *)
(* voters; it takes the sums of SequenceFacts.                             *)
(***************************************************************************)
EXTENDS BallotContract, BallotProgramFacts, SequenceFacts

Account == BallotAccount(Keys, Roots \cup {NoRoot})

Sound(a) ==
  /\ a \in Account
  /\ Len(a.encrypted_tally) = a.proposal_count
  /\ IF a.status = ELECTION_FINALIZED
     THEN is_valid_proposal_index(a, a.final_winner_index)
     ELSE a.final_winner_index = NO_FINAL_WINNER
  /\ a.batch_count <= a.total_votes
  /\ a.batch_count = 0 <=> a.total_votes = 0

\* A vector whose entries are all points is a vector of numbers.
LEMMA ValidVector ==
  ASSUME NEW v \in Vectors, validate_ciphertexts(v)
  PROVE  v \in Seq(Nat)
<1>1. v \in Seq(Nat \cup {InvalidPoint})
  BY ContractAssumption
<1>2. \A i \in 1..Len(v) : v[i] \in Nat
  BY <1>1 DEF validate_ciphertexts
<1> QED BY <1>1, <1>2

LEMMA InitializeSound ==
  ASSUME NEW chairperson \in Keys, NEW count \in Counts, NEW tally \in Vectors,
         NEW names_fit, NEW key_is_point,
         validate_initial_ballot(count, names_fit, key_is_point, tally)
  PROVE  Sound(NewBallot(chairperson, count, tally))
<1> DEFINE b == NewBallot(chairperson, count, tally)
           R == Roots \cup {NoRoot}
<1>1. /\ count \in 1..MAX_PROPOSALS /\ Len(tally) = count
      /\ tally \in Seq(Nat) /\ NoRoot \in R
  BY ValidVector DEF validate_initial_ballot
<1> HIDE DEF R
<1>2. /\ b \in BallotAccount(Keys, R)
      /\ Len(b.encrypted_tally) = b.proposal_count
      /\ b.status = ELECTION_OPEN
      /\ b.final_winner_index = NO_FINAL_WINNER
      /\ b.total_votes = 0 /\ b.batch_count = 0
  BY <1>1, InitializeType
<1> HIDE DEF b
<1>3. Sound(b)
  BY <1>2 DEF Sound, Account, R, ELECTION_OPEN, ELECTION_FINALIZED
<1> QED BY <1>3 DEF b

LEMMA CastVoteSound ==
  ASSUME NEW a, Sound(a), NEW record, NEW index, NEW vote \in Vectors,
         validate_cast_vote(a, record, index, vote)
  PROVE  Sound([a EXCEPT !.encrypted_tally =
                  encrypted_tally_after_vote(a.encrypted_tally, vote)])
<1> DEFINE sum == encrypted_tally_after_vote(a.encrypted_tally, vote)
           b   == [a EXCEPT !.encrypted_tally = sum]
<1>1. /\ vote \in Seq(Nat) /\ Len(vote) = Len(a.encrypted_tally)
      /\ a.encrypted_tally \in Seq(Nat)
  BY ValidVector DEF validate_cast_vote, Sound, Account, BallotAccount
<1>2. sum \in Seq(Nat) /\ Len(sum) = Len(a.encrypted_tally)
  BY <1>1, TallyAfterVote
<1> HIDE DEF sum
<1>3. Sound(b)
  BY <1>2 DEF Sound, Account, BallotAccount, is_valid_proposal_index
<1> QED BY <1>3 DEF sum

LEMMA RollupSound ==
  ASSUME NEW a, Sound(a), NEW root \in Roots, NEW tally \in Vectors,
         NEW size \in BatchSizes, validate_rollup_batch(a, tally, size)
  PROVE  Sound(AfterRollupBatch(a, root, tally, size))
<1> DEFINE b == AfterRollupBatch(a, root, tally, size)
           R == Roots \cup {NoRoot}
<1>1. /\ tally \in Seq(Nat) /\ size \in Nat /\ size > 0 /\ root \in R
      /\ a \in BallotAccount(Keys, R)
  BY ContractAssumption, ValidVector DEF validate_rollup_batch, Sound, Account
<1> HIDE DEF R
<1>2. /\ b \in BallotAccount(Keys, R)
      /\ Len(b.encrypted_tally) = Len(a.encrypted_tally)
  BY <1>1, RollupType
<1>3. /\ b.total_votes = a.total_votes + size
      /\ b.batch_count = a.batch_count + 1
      /\ b.proposal_count = a.proposal_count
      /\ b.status = a.status
      /\ b.final_winner_index = a.final_winner_index
  BY <1>1, RollupFields
<1> HIDE DEF b
<1>4. a.total_votes \in Nat /\ a.batch_count \in Nat
  BY <1>1, WidthAssumption DEF BallotAccount
<1>5. Sound(b)
  BY <1>1, <1>2, <1>3, <1>4 DEF Sound, Account, R, is_valid_proposal_index
<1> QED BY <1>5 DEF b

LEMMA CloseSound ==
  ASSUME NEW a, Sound(a), can_close(a)
  PROVE  Sound(AfterClose(a))
<1>1. AfterClose(a) = [a EXCEPT !.status = ELECTION_CLOSED]
  BY DEF AfterClose
<1>2. AfterClose(a) \in Account
  BY <1>1 DEF Sound, Account, BallotAccount
<1> QED BY <1>1, <1>2 DEF Sound, can_close, Account, BallotAccount,
          is_valid_proposal_index, ELECTION_OPEN, ELECTION_CLOSED, ELECTION_FINALIZED

LEMMA FinalizeSound ==
  ASSUME NEW a, Sound(a), NEW winner \in 0..U8_MAX, can_finalize(a, winner)
  PROVE  Sound(AfterFinalize(a, winner))
<1>1. AfterFinalize(a, winner) =
        [a EXCEPT !.final_winner_index = winner, !.status = ELECTION_FINALIZED]
  BY DEF AfterFinalize
<1>2. AfterFinalize(a, winner) \in Account
  BY <1>1 DEF Sound, Account, BallotAccount
<1> QED BY <1>1, <1>2 DEF Sound, can_finalize, Account, BallotAccount,
          is_valid_proposal_index, ELECTION_FINALIZED

-----------------------------------------------------------------------------
(* The program *)

IInv ==
  /\ DOMAIN ballots \subseteq Ballots
  /\ \A b \in DOMAIN ballots : Sound(ballots[b])
  /\ DOMAIN voter_records \subseteq (DOMAIN ballots) \X Keys
  /\ \A r \in DOMAIN voter_records : voter_records[r] \in VoterRecord
  /\ DOMAIN credited = DOMAIN ballots

\* What a step does to the accounts of the program.
LEMMA UpdateSound ==
  ASSUME IInv, NEW b \in DOMAIN ballots, NEW a, Sound(a),
         ballots' = [ballots EXCEPT ![b] = a]
  PROVE  /\ DOMAIN ballots' = DOMAIN ballots
         /\ \A c \in DOMAIN ballots' : Sound(ballots'[c])
  BY DEF IInv

LEMMA InitIInv == Init => IInv
  BY DEF Init, IInv

LEMMA StepIInv == IInv /\ [Next]_vars => IInv'
<1> SUFFICES ASSUME IInv, [Next]_vars PROVE IInv'
  OBVIOUS
<1>1. ASSUME NEW b \in Ballots, NEW signer \in Keys, initialize(b, signer)
      PROVE  IInv'
  <2>1. PICK count \in Counts, names_fit \in BOOLEAN, key_is_point \in BOOLEAN,
             tally \in Vectors :
          /\ validate_initial_ballot(count, names_fit, key_is_point, tally)
          /\ b \notin DOMAIN ballots
          /\ ballots' = [a \in DOMAIN ballots \cup {b} |->
                           IF a = b THEN NewBallot(signer, count, tally)
                                    ELSE ballots[a]]
          /\ credited' = [a \in DOMAIN credited \cup {b} |->
                            IF a = b THEN SumOf(tally) ELSE credited[a]]
          /\ voter_records' = voter_records
    BY <1>1 DEF initialize
  <2>2. Sound(NewBallot(signer, count, tally))
    BY <2>1, InitializeSound
  <2> QED BY <2>1, <2>2 DEF IInv
<1>2. ASSUME NEW b \in Ballots, NEW signer \in Keys, NEW voter \in Keys,
             register_voter(b, signer, voter)
      PROVE  IInv'
  <2>1. NewVoterRecord \in VoterRecord
    BY WidthAssumption DEF NewVoterRecord, VoterRecord, NO_VOTE
  <2> QED BY <1>2, <2>1
          DEF IInv, register_voter, voter_record_pda, SignedByChairperson
<1>3. ASSUME NEW b \in Ballots, NEW voter \in Keys, cast_vote(b, voter)
      PROVE  IInv'
  <2> DEFINE pda == voter_record_pda(b, voter)
  <2>1. PICK index \in 0..U8_MAX, vote \in Vectors :
          /\ b \in DOMAIN ballots /\ pda \in DOMAIN voter_records
          /\ validate_cast_vote(ballots[b], voter_records[pda], index, vote)
          /\ ballots' = [ballots EXCEPT ![b] = [ballots[b] EXCEPT
               !.encrypted_tally =
                 encrypted_tally_after_vote(ballots[b].encrypted_tally, vote)]]
          /\ voter_records' = [voter_records EXCEPT ![pda] =
                                 mark_as_voted(voter_records[pda], index)]
          /\ credited' = credited
    BY <1>3 DEF cast_vote
  <2> DEFINE after == [ballots[b] EXCEPT !.encrypted_tally =
                encrypted_tally_after_vote(ballots[b].encrypted_tally, vote)]
  <2>2. Sound(after)
    BY <2>1, CastVoteSound DEF IInv
  <2>3. ballots' = [ballots EXCEPT ![b] = after]
    BY <2>1
  <2> HIDE DEF after
  <2>4. /\ DOMAIN ballots' = DOMAIN ballots
        /\ \A c \in DOMAIN ballots' : Sound(ballots'[c])
    BY <2>1, <2>2, <2>3, UpdateSound
  <2>5. mark_as_voted(voter_records[pda], index) \in VoterRecord
    BY <2>1 DEF IInv, mark_as_voted, VoterRecord
  <2> QED BY <2>1, <2>4, <2>5 DEF IInv
<1>4. ASSUME NEW b \in Ballots, NEW signer \in Keys,
             submit_rollup_batch(b, signer)
      PROVE  IInv'
  <2>1. PICK root \in Roots, tally \in Vectors, size \in BatchSizes :
          /\ b \in DOMAIN ballots
          /\ validate_rollup_batch(ballots[b], tally, size)
          /\ ballots' = [ballots EXCEPT ![b] =
                           AfterRollupBatch(ballots[b], root, tally, size)]
          /\ credited' = [credited EXCEPT ![b] = credited[b] + SumOf(tally)]
          /\ voter_records' = voter_records
    BY <1>4 DEF submit_rollup_batch, SignedByChairperson
  <2>2. Sound(AfterRollupBatch(ballots[b], root, tally, size))
    BY <2>1, RollupSound DEF IInv
  <2>3. /\ DOMAIN ballots' = DOMAIN ballots
        /\ \A c \in DOMAIN ballots' : Sound(ballots'[c])
    BY <2>1, <2>2, UpdateSound
  <2> QED BY <2>1, <2>3 DEF IInv
<1>5. ASSUME NEW b \in Ballots, NEW signer \in Keys, close_election(b, signer)
      PROVE  IInv'
  <2>1. /\ b \in DOMAIN ballots /\ can_close(ballots[b])
        /\ ballots' = [ballots EXCEPT ![b] = AfterClose(ballots[b])]
        /\ UNCHANGED <<voter_records, credited>>
    BY <1>5 DEF close_election, SignedByChairperson
  <2>2. Sound(AfterClose(ballots[b]))
    BY <2>1, CloseSound DEF IInv
  <2>3. /\ DOMAIN ballots' = DOMAIN ballots
        /\ \A c \in DOMAIN ballots' : Sound(ballots'[c])
    BY <2>1, <2>2, UpdateSound
  <2> QED BY <2>1, <2>3 DEF IInv
<1>6. ASSUME NEW b \in Ballots, NEW signer \in Keys, set_final_winner(b, signer)
      PROVE  IInv'
  <2>1. PICK winner \in 0..U8_MAX :
          /\ b \in DOMAIN ballots /\ can_finalize(ballots[b], winner)
          /\ ballots' = [ballots EXCEPT ![b] = AfterFinalize(ballots[b], winner)]
          /\ UNCHANGED <<voter_records, credited>>
    BY <1>6 DEF set_final_winner, SignedByChairperson
  <2>2. Sound(AfterFinalize(ballots[b], winner))
    BY <2>1, FinalizeSound DEF IInv
  <2>3. /\ DOMAIN ballots' = DOMAIN ballots
        /\ \A c \in DOMAIN ballots' : Sound(ballots'[c])
    BY <2>1, <2>2, UpdateSound
  <2> QED BY <2>1, <2>3 DEF IInv
<1>7. CASE UNCHANGED vars
  BY <1>7 DEF vars, IInv
<1> QED BY <1>1, <1>2, <1>3, <1>4, <1>5, <1>6, <1>7 DEF Next

THEOREM Invariance == Spec => []IInv
  BY InitIInv, StepIInv, PTL DEF Spec

-----------------------------------------------------------------------------
(* Invariants *)

(* Accounts and records hold values of their types and widths.             *)
THEOREM ContractTypes == Spec => []TypeOK
<1>1. IInv => TypeOK
  BY DEF IInv, TypeOK, Sound, Account
<1> QED BY <1>1, Invariance, PTL

(* The tally has one entry per proposal, so no later length check can      *)
(* reject every vote and every batch of an election.                       *)
THEOREM TallyLength == Spec => []TallyMatchesProposals
<1>1. IInv => TallyMatchesProposals
  BY DEF IInv, TallyMatchesProposals, Sound
<1> QED BY <1>1, Invariance, PTL

(* A winner is recorded exactly in FINALIZED elections and is a proposal.  *)
THEOREM WinnerIsProposal == Spec => []WinnerExactlyWhenFinalized
<1>1. IInv => WinnerExactlyWhenFinalized
  BY DEF IInv, WinnerExactlyWhenFinalized, Sound
<1> QED BY <1>1, Invariance, PTL

(* batch_count stays behind total_votes, so only the addition to           *)
(* total_votes can overflow.                                               *)
THEOREM BatchesCarryVotes == Spec => []BatchCountBehindVotes
<1>1. IInv => BatchCountBehindVotes
  BY DEF IInv, BatchCountBehindVotes, Sound
<1> QED BY <1>1, Invariance, PTL

-----------------------------------------------------------------------------
(* Counting votes *)

(* Sums of tallies: entry by entry addition adds them up, and a vector     *)
(* that encrypts one vote has sum 1.                                       *)
LEMMA SumFacts ==
  ASSUME NEW s \in Seq(Nat), NEW t \in Seq(Nat), Len(t) = Len(s)
  PROVE  /\ SumOf(t) \in Nat
         /\ SumOf(encrypted_tally_after_vote(s, t)) = SumOf(s) + SumOf(t)
         /\ IsOneHot(t) => SumOf(t) = 1
<1> DEFINE D   == 1..Len(s)
           sum == encrypted_tally_after_vote(s, t)
<1>1. /\ Len(s) \in Nat /\ DOMAIN s = D /\ DOMAIN t = D
      /\ s \in [D -> Nat] /\ t \in [D -> Nat]
  OBVIOUS
<1>2. IsFiniteSet(D)
  BY <1>1, FS_Interval
<1>3. sum = [i \in D |-> s[i] + t[i]]
  BY <1>1 DEF encrypted_tally_after_vote
<1> HIDE DEF D, sum
<1>4. /\ s \in [D -> Int] /\ t \in [D -> Int] /\ sum \in [D -> Int]
      /\ \A i \in D : sum[i] = s[i] + t[i]
  BY <1>1, <1>3
<1>5. \A u : SumOf(u) = Total(u)
  BY DEF SumOf, FoldSeq, Total
<1>6. Total(t) \in Nat
  BY <1>1, <1>2, TotalNat
<1>7. Total(sum) = Total(s) + Total(t)
  <2>1. sum \in [D -> Int] /\ s \in [D -> Int] /\ t \in [D -> Int]
    BY <1>4
  <2>2. \A i \in D : sum[i] = s[i] + t[i]
    BY <1>4
  <2>3. \A x, y, z \in [D -> Int] :
          (\A i \in D : z[i] = x[i] + y[i]) => Total(z) = Total(x) + Total(y)
    BY <1>2, TotalAdds
  <2> QED BY <2>1, <2>2, <2>3
<1>8. ASSUME IsOneHot(t) PROVE Total(t) = 1
  <2>1. PICK choice \in D : t = [i \in D |-> IF i = choice THEN 1 ELSE 0]
    BY <1>1, <1>8 DEF IsOneHot
  <2> QED BY <1>2, <2>1, TotalOneHot
<1> QED BY <1>5, <1>6, <1>7, <1>8 DEF sum

\* The keys whose record of b is marked as having voted.
Voted(b, records) ==
  {v \in Keys : <<b, v>> \in DOMAIN records /\ records[<<b, v>>].has_voted}

\* The tally a, the credit c and the records of ballot b agree.
Balanced(b, a, c, records) ==
  /\ IsFiniteSet(Voted(b, records))
  /\ c \in Nat
  /\ SumOf(a.encrypted_tally) = c + Cardinality(Voted(b, records))

\* Ballot b is balanced, and the records of the others show the same voters.
BalancedStep(b, a, c, records, more) ==
  /\ Balanced(b, a, c, more)
  /\ \A other \in DOMAIN ballots :
       other # b => Voted(other, more) = Voted(other, records)

CountInv ==
  \A b \in DOMAIN ballots :
    Balanced(b, ballots[b], credited[b], voter_records)

(* A step that keeps the tally, the credit and the voters of a ballot      *)
(* keeps its balance.                                                      *)
LEMMA BalanceKept ==
  ASSUME NEW b, NEW a, NEW c, NEW records, Balanced(b, a, c, records),
         NEW aa, NEW more, aa.encrypted_tally = a.encrypted_tally,
         Voted(b, more) = Voted(b, records)
  PROVE  Balanced(b, aa, c, more)
BY DEF Balanced

(* initialize: the tally is the credit, and no record exists yet.          *)
LEMMA InitializeBalanced ==
  ASSUME IInv, NEW b, b \notin DOMAIN ballots, NEW signer, NEW count,
         NEW tally \in Seq(Nat)
  PROVE  Balanced(b, NewBallot(signer, count, tally), SumOf(tally), voter_records)
<1>1. Voted(b, voter_records) = {}
  BY DEF IInv, Voted
<1>2. NewBallot(signer, count, tally).encrypted_tally = tally
  BY DEF NewBallot
<1>3. SumOf(tally) \in Nat
  BY SumFacts
<1>4. IsFiniteSet({}) /\ Cardinality({}) = 0
  BY FS_EmptySet
<1> QED BY <1>1, <1>2, <1>3, <1>4 DEF Balanced

(* cast_vote: one more voter, one more vote.                               *)
LEMMA CastVoteBalanced ==
  ASSUME IInv, CountInv, NEW b \in DOMAIN ballots, NEW voter \in Keys,
         <<b, voter>> \in DOMAIN voter_records,
         NEW index \in 0..U8_MAX, NEW vote \in Vectors,
         validate_cast_vote(ballots[b], voter_records[<<b, voter>>], index, vote),
         NEW a, a.encrypted_tally =
           encrypted_tally_after_vote(ballots[b].encrypted_tally, vote),
         NEW more, more = [voter_records EXCEPT ![<<b, voter>>] =
                             mark_as_voted(voter_records[<<b, voter>>], index)]
  PROVE  BalancedStep(b, a, credited[b], voter_records, more)
<1> DEFINE pda == <<b, voter>>
           old == Voted(b, voter_records)
           tally == ballots[b].encrypted_tally
<1>1. /\ vote \in Seq(Nat) /\ tally \in Seq(Nat) /\ Len(vote) = Len(tally)
      /\ IsOneHot(vote) /\ ~voter_records[pda].has_voted
      /\ voter_records[pda] \in VoterRecord
  BY ValidVector DEF validate_cast_vote, IInv, Sound, Account, BallotAccount
<1>2. DOMAIN more = DOMAIN voter_records
  OBVIOUS
<1>3. more[pda].has_voted
  BY <1>1 DEF mark_as_voted, VoterRecord
<1>4. \A r \in DOMAIN voter_records : r # pda => more[r] = voter_records[r]
  OBVIOUS
<1>5. voter \notin old
  BY <1>1 DEF Voted
<1>6. Voted(b, more) = old \cup {voter}
  <2>1. \A v \in Keys : v # voter => <<b, v>> # pda
    OBVIOUS
  <2> HIDE DEF pda
  <2>2. \A v \in Keys \ {voter} : v \in Voted(b, more) <=> v \in old
    BY <1>2, <1>4, <2>1 DEF Voted
  <2>3. voter \in Voted(b, more)
    BY <1>2, <1>3 DEF Voted, pda
  <2>4. Voted(b, more) \subseteq Keys /\ old \subseteq Keys
    BY DEF Voted
  <2> HIDE DEF old
  <2> QED BY <2>2, <2>3, <2>4
<1>7. ASSUME NEW c \in DOMAIN ballots, c # b
      PROVE  Voted(c, more) = Voted(c, voter_records)
  BY <1>2, <1>4, <1>7 DEF Voted
<1>8. /\ IsFiniteSet(old) /\ credited[b] \in Nat
      /\ SumOf(tally) = credited[b] + Cardinality(old)
  BY DEF CountInv, Balanced
<1> HIDE DEF old, tally, pda
<1>9. /\ IsFiniteSet(old \cup {voter})
      /\ Cardinality(old \cup {voter}) = Cardinality(old) + 1
      /\ Cardinality(old) \in Nat
  BY <1>5, <1>8, FS_AddElement, FS_CardinalityType
<1>10. SumOf(encrypted_tally_after_vote(tally, vote)) = SumOf(tally) + 1
  BY <1>1, SumFacts
<1>11. SumOf(a.encrypted_tally) = credited[b] + Cardinality(Voted(b, more))
  <2>1. SumOf(a.encrypted_tally) = SumOf(tally) + 1
    BY <1>10 DEF tally
  <2>2. Cardinality(Voted(b, more)) = Cardinality(old) + 1
    BY <1>6, <1>9
  <2> QED BY <1>8, <1>9, <2>1, <2>2
<1> QED BY <1>6, <1>7, <1>8, <1>9, <1>11 DEF Balanced, BalancedStep

(* submit_rollup_batch: the batch enters the tally and the credit.         *)
LEMMA RollupBalanced ==
  ASSUME IInv, CountInv, NEW b \in DOMAIN ballots, NEW tally \in Vectors,
         NEW size, NEW root, validate_rollup_batch(ballots[b], tally, size)
  PROVE  Balanced(b, AfterRollupBatch(ballots[b], root, tally, size),
                  credited[b] + SumOf(tally), voter_records)
<1> DEFINE old == ballots[b].encrypted_tally
           a   == AfterRollupBatch(ballots[b], root, tally, size)
<1>1. /\ tally \in Seq(Nat) /\ old \in Seq(Nat) /\ Len(tally) = Len(old)
      /\ ballots[b] \in Account
  BY ValidVector DEF validate_rollup_batch, IInv, Sound, Account, BallotAccount
<1>2. a.encrypted_tally = encrypted_tally_after_vote(old, tally)
  BY <1>1, RollupFields DEF Account
<1>3. /\ IsFiniteSet(Voted(b, voter_records)) /\ credited[b] \in Nat
      /\ SumOf(old) = credited[b] + Cardinality(Voted(b, voter_records))
  BY DEF CountInv, Balanced
<1> HIDE DEF a, old
<1>4. /\ SumOf(tally) \in Nat
      /\ SumOf(encrypted_tally_after_vote(old, tally)) = SumOf(old) + SumOf(tally)
  BY <1>1, SumFacts
<1>5. Cardinality(Voted(b, voter_records)) \in Nat
  BY <1>3, FS_CardinalityType
<1>6. Balanced(b, a, credited[b] + SumOf(tally), voter_records)
  BY <1>2, <1>3, <1>4, <1>5 DEF Balanced
<1> QED BY <1>6 DEF a

LEMMA StepCountInv == IInv /\ CountInv /\ [Next]_vars => CountInv'
<1> SUFFICES ASSUME IInv, CountInv, [Next]_vars PROVE CountInv'
  OBVIOUS
<1> USE DEF CountInv
<1>1. ASSUME NEW b \in Ballots, NEW signer \in Keys, initialize(b, signer)
      PROVE  CountInv'
  <2>1. PICK count \in Counts, names_fit \in BOOLEAN, key_is_point \in BOOLEAN,
             tally \in Vectors :
          /\ validate_initial_ballot(count, names_fit, key_is_point, tally)
          /\ b \notin DOMAIN ballots
          /\ ballots' = [a \in DOMAIN ballots \cup {b} |->
                           IF a = b THEN NewBallot(signer, count, tally)
                                    ELSE ballots[a]]
          /\ credited' = [a \in DOMAIN credited \cup {b} |->
                            IF a = b THEN SumOf(tally) ELSE credited[a]]
          /\ voter_records' = voter_records
    BY <1>1 DEF initialize
  <2>2. tally \in Seq(Nat)
    BY <2>1, ValidVector DEF validate_initial_ballot
  <2>3. Balanced(b, NewBallot(signer, count, tally), SumOf(tally), voter_records)
    BY <2>1, <2>2, InitializeBalanced
  <2> QED BY <2>1, <2>3 DEF IInv
<1>2. ASSUME NEW b \in Ballots, NEW signer \in Keys, NEW voter \in Keys,
             register_voter(b, signer, voter)
      PROVE  CountInv'
  <2>1. \A c \in DOMAIN ballots :
          Voted(c, voter_records') = Voted(c, voter_records)
    BY <1>2 DEF register_voter, voter_record_pda, Voted, NewVoterRecord
  <2>2. ballots' = ballots /\ credited' = credited
    BY <1>2 DEF register_voter
  <2> QED BY <2>1, <2>2, BalanceKept
<1>3. ASSUME NEW b \in Ballots, NEW voter \in Keys, cast_vote(b, voter)
      PROVE  CountInv'
  <2> DEFINE pda == <<b, voter>>
  <2>1. PICK index \in 0..U8_MAX, vote \in Vectors :
          /\ b \in DOMAIN ballots /\ pda \in DOMAIN voter_records
          /\ validate_cast_vote(ballots[b], voter_records[pda], index, vote)
          /\ ballots' = [ballots EXCEPT ![b] = [ballots[b] EXCEPT
               !.encrypted_tally =
                 encrypted_tally_after_vote(ballots[b].encrypted_tally, vote)]]
          /\ voter_records' = [voter_records EXCEPT ![pda] =
                                 mark_as_voted(voter_records[pda], index)]
          /\ credited' = credited
    BY <1>3 DEF cast_vote, voter_record_pda
  <2>2. ballots'[b].encrypted_tally =
          encrypted_tally_after_vote(ballots[b].encrypted_tally, vote)
    BY <2>1 DEF IInv, Sound, Account, BallotAccount
  <2>3. PICK more : more = voter_records'
    OBVIOUS
  <2>4. PICK a : a = ballots'[b]
    OBVIOUS
  <2>5. BalancedStep(b, a, credited[b], voter_records, more)
    <3>1. /\ a.encrypted_tally =
               encrypted_tally_after_vote(ballots[b].encrypted_tally, vote)
          /\ more = [voter_records EXCEPT ![<<b, voter>>] =
                       mark_as_voted(voter_records[<<b, voter>>], index)]
          /\ <<b, voter>> \in DOMAIN voter_records
          /\ validate_cast_vote(ballots[b], voter_records[<<b, voter>>], index, vote)
      BY <2>1, <2>2, <2>3, <2>4
    <3>2. CountInv
      OBVIOUS
    <3> HIDE DEF CountInv
    <3> QED BY <2>1, <3>1, <3>2, CastVoteBalanced
  <2>6. ASSUME NEW c \in DOMAIN ballots, c # b
        PROVE  Balanced(c, ballots'[c], credited[c], more)
    <3>1. ballots'[c] = ballots[c]
      BY <2>1, <2>6
    <3> QED BY <2>5, <2>6, <3>1, BalanceKept DEF BalancedStep
  <2> QED BY <2>1, <2>3, <2>4, <2>5, <2>6 DEF BalancedStep
<1>4. ASSUME NEW b \in Ballots, NEW signer \in Keys,
             submit_rollup_batch(b, signer)
      PROVE  CountInv'
  <2>1. PICK root \in Roots, tally \in Vectors, size \in BatchSizes :
          /\ b \in DOMAIN ballots
          /\ validate_rollup_batch(ballots[b], tally, size)
          /\ ballots' = [ballots EXCEPT ![b] =
                           AfterRollupBatch(ballots[b], root, tally, size)]
          /\ credited' = [credited EXCEPT ![b] = credited[b] + SumOf(tally)]
          /\ voter_records' = voter_records
    BY <1>4 DEF submit_rollup_batch, SignedByChairperson
  <2>2. Balanced(b, AfterRollupBatch(ballots[b], root, tally, size),
                 credited[b] + SumOf(tally), voter_records)
    BY <2>1, RollupBalanced
  <2> QED BY <2>1, <2>2 DEF IInv
<1>5. ASSUME NEW b \in Ballots, NEW signer \in Keys,
             close_election(b, signer) \/ set_final_winner(b, signer)
      PROVE  CountInv'
  <2>1. PICK a : /\ b \in DOMAIN ballots
                 /\ a.encrypted_tally = ballots[b].encrypted_tally
                 /\ ballots' = [ballots EXCEPT ![b] = a]
                 /\ UNCHANGED <<voter_records, credited>>
    <3>1. b \in DOMAIN ballots /\ ballots[b] \in Account
      BY <1>5 DEF close_election, set_final_winner, SignedByChairperson, IInv,
         Sound
    <3>2. CASE close_election(b, signer)
      <4>1. AfterClose(ballots[b]).encrypted_tally = ballots[b].encrypted_tally
        BY <3>1 DEF AfterClose, Account, BallotAccount
      <4> QED BY <3>1, <3>2, <4>1 DEF close_election
    <3>3. CASE set_final_winner(b, signer)
      <4>1. PICK winner \in 0..U8_MAX :
              /\ ballots' = [ballots EXCEPT ![b] = AfterFinalize(ballots[b], winner)]
              /\ UNCHANGED <<voter_records, credited>>
        BY <3>3 DEF set_final_winner
      <4>2. AfterFinalize(ballots[b], winner).encrypted_tally =
              ballots[b].encrypted_tally
        BY <3>1 DEF AfterFinalize, Account, BallotAccount
      <4> QED BY <3>1, <4>1, <4>2
    <3> QED BY <1>5, <3>2, <3>3
  <2>2. Balanced(b, a, credited[b], voter_records)
    BY <2>1, BalanceKept
  <2> QED BY <2>1, <2>2
<1>6. CASE UNCHANGED vars
  BY <1>6 DEF vars
<1> QED BY <1>1, <1>2, <1>3, <1>4, <1>5, <1>6 DEF Next

(* A vote cast on chain is counted exactly once: cast_vote marks the       *)
(* voter's own record (lib.rs:279-282) and adds one vote to the tally of   *)
(* its ballot (crypto.rs:23-76), and whatever else enters a tally came     *)
(* with initialize or a batch.                                             *)
THEOREM VotesCounted == Spec => []DirectVotesCounted
<1>1. Init => CountInv
  BY DEF Init, CountInv
<1>2. CountInv => DirectVotesCounted
  BY DEF CountInv, Balanced, DirectVotesCounted, Voted
<1> QED BY <1>1, <1>2, Invariance, StepCountInv, PTL DEF Spec

-----------------------------------------------------------------------------
(* Action properties *)

(* An election only moves forward and keeps its chairperson and winner.    *)
THEOREM ForwardOnly == Spec => ElectionMovesForward
<1>1. IInv /\ [Next]_vars => [ElectionStep]_vars
  <2> SUFFICES ASSUME IInv, Next PROVE ElectionStep
    BY DEF vars
  <2> USE DEF ElectionStep
  <2>0. \A b \in DOMAIN ballots : ballots[b] \in Account
    BY DEF IInv, Sound
  <2>1. ASSUME NEW b \in Ballots, NEW signer \in Keys, initialize(b, signer)
        PROVE  ElectionStep
    BY <2>1 DEF initialize
  <2>2. ASSUME NEW b \in Ballots, NEW signer \in Keys,
               \/ \E voter \in Keys : register_voter(b, signer, voter)
        PROVE  ElectionStep
    BY <2>2 DEF register_voter
  <2>3. ASSUME NEW b \in Ballots, NEW voter \in Keys, cast_vote(b, voter)
        PROVE  ElectionStep
    <3>1. PICK t : /\ b \in DOMAIN ballots
                   /\ ballots' = [ballots EXCEPT ![b] =
                        [ballots[b] EXCEPT !.encrypted_tally = t]]
      BY <2>3 DEF cast_vote
    <3> QED BY <2>0, <3>1 DEF Account, BallotAccount
  <2>4. ASSUME NEW b \in Ballots, NEW signer \in Keys,
               submit_rollup_batch(b, signer)
        PROVE  ElectionStep
    <3>1. PICK root, tally, size :
            /\ b \in DOMAIN ballots
            /\ ballots' = [ballots EXCEPT ![b] =
                             AfterRollupBatch(ballots[b], root, tally, size)]
      BY <2>4 DEF submit_rollup_batch, SignedByChairperson
    <3> DEFINE after == AfterRollupBatch(ballots[b], root, tally, size)
    <3>2. /\ after.status = ballots[b].status
          /\ after.chairperson = ballots[b].chairperson
          /\ after.final_winner_index = ballots[b].final_winner_index
      BY <2>0, <3>1, RollupFields DEF Account
    <3> HIDE DEF after
    <3> QED BY <3>1, <3>2 DEF after
  <2>5. ASSUME NEW b \in Ballots, NEW signer \in Keys, close_election(b, signer)
        PROVE  ElectionStep
    BY <2>0, <2>5
    DEF close_election, SignedByChairperson, can_close, AfterClose,
       StatusStep, Account, BallotAccount, ELECTION_OPEN, ELECTION_FINALIZED
  <2>6. ASSUME NEW b \in Ballots, NEW signer \in Keys,
               set_final_winner(b, signer)
        PROVE  ElectionStep
    BY <2>0, <2>6 DEF set_final_winner, SignedByChairperson, can_finalize,
       AfterFinalize, StatusStep, Account, BallotAccount, ELECTION_CLOSED,
       ELECTION_FINALIZED
  <2> HIDE DEF ElectionStep
  <2> QED BY <2>1, <2>2, <2>3, <2>4, <2>5, <2>6 DEF Next
<1> QED BY <1>1, Invariance, PTL DEF Spec, ElectionMovesForward

(* A voter's record changes once, from not voted to voted, while the       *)
(* ballot is open.                                                         *)
THEOREM VotesAreFinal == Spec => VoteIsFinal
<1>1. IInv /\ [Next]_vars => [RecordStep]_vars
  <2> SUFFICES ASSUME IInv, Next PROVE RecordStep
    BY DEF vars
  <2>1. CASE voter_records' = voter_records
    BY <2>1 DEF RecordStep
  <2>2. ASSUME NEW b \in Ballots, NEW signer \in Keys, NEW voter \in Keys,
               register_voter(b, signer, voter)
        PROVE  RecordStep
    BY <2>2 DEF RecordStep, register_voter, voter_record_pda
  <2>3. ASSUME NEW b \in Ballots, NEW voter \in Keys, cast_vote(b, voter)
        PROVE  RecordStep
    <3> DEFINE pda == <<b, voter>>
    <3>1. PICK index :
            /\ pda \in DOMAIN voter_records
            /\ ballots[b].status = ELECTION_OPEN
            /\ ~voter_records[pda].has_voted
            /\ voter_records' = [voter_records EXCEPT ![pda] =
                 [voter_records[pda] EXCEPT !.has_voted = TRUE, !.vote = index]]
      BY <2>3 DEF cast_vote, voter_record_pda, validate_cast_vote, mark_as_voted
    <3>2. voter_records[pda] \in VoterRecord /\ pda[1] = b
      BY <3>1 DEF IInv
    <3>3. voter_records'[pda].has_voted
      BY <3>1, <3>2 DEF VoterRecord
    <3>4. \A r \in DOMAIN voter_records \ {pda} :
            r \in DOMAIN voter_records' /\ voter_records'[r] = voter_records[r]
      BY <3>1
    <3> QED BY <3>1, <3>2, <3>3, <3>4 DEF RecordStep
  <2> QED BY <2>1, <2>2, <2>3 DEF Next, initialize, submit_rollup_batch,
             close_election, set_final_winner
<1> QED BY <1>1, Invariance, PTL DEF Spec, VoteIsFinal
=============================================================================
