------------------------- MODULE VotePipelineProofs -------------------------
(***************************************************************************)
(* Proofs about VotePipeline for every number of requests, every batch     *)
(* size, every width of the counters and every hash function.              *)
(***************************************************************************)
EXTENDS VotePipeline, SequenceFacts, BallotProgramFacts

-----------------------------------------------------------------------------
(* The data of a batch *)

(* A batch has at most MAX_BATCH_SIZE votes, and at least one when there   *)
(* is a vote to take.                                                      *)
LEMMA BatchLengthFacts ==
  ASSUME TypeOK
  PROVE  /\ BatchLength \in 0..Len(pending)
         /\ BatchLength <= MAX_BATCH_SIZE
         /\ pending # <<>> => BatchLength > 0
         /\ Len(pending) - BatchLength = 0
            \/ Len(pending) - BatchLength = Len(pending) - MAX_BATCH_SIZE
<1>1. pending \in Seq(Valid) /\ MAX_BATCH_SIZE \in Nat \ {0}
  BY PipelineAssumption DEF TypeOK
<1>2. Len(pending) \in Nat /\ (pending # <<>> => Len(pending) > 0)
  BY <1>1
<1> QED BY <1>1, <1>2 DEF BatchLength

(* The tally of a batch is a vector with one number per proposal.          *)
LEMMA BatchTallyType ==
  ASSUME NEW votes \in Seq(Valid)
  PROVE  /\ BatchTally(votes) \in Seq(Nat)
         /\ Len(BatchTally(votes)) = proposal_count
         /\ \A p \in 1..proposal_count :
              BatchTally(votes)[p] = Cardinality({i \in DOMAIN votes :
                vote_of[votes[i]].movie_index = p - 1})
<1> DEFINE tally == BatchTally(votes)
<1>1. proposal_count \in Nat
  BY PipelineAssumption, WidthAssumption
<1>2. ASSUME NEW p \in 1..proposal_count
      PROVE  Cardinality({i \in DOMAIN votes :
               vote_of[votes[i]].movie_index = p - 1}) \in Nat
  <2> DEFINE at == {i \in DOMAIN votes : vote_of[votes[i]].movie_index = p - 1}
  <2>1. DOMAIN votes = 1..Len(votes) /\ Len(votes) \in Nat
    OBVIOUS
  <2>2. IsFiniteSet(1..Len(votes))
    BY <2>1, FS_Interval
  <2>3. IsFiniteSet(at)
    BY <2>1, <2>2, FS_Subset
  <2> QED BY <2>3, FS_CardinalityType
<1>3. tally \in [1..proposal_count -> Nat]
  BY <1>2 DEF BatchTally
<1>4. \A p \in 1..proposal_count :
        tally[p] = Cardinality({i \in DOMAIN votes :
                     vote_of[votes[i]].movie_index = p - 1})
  BY DEF BatchTally
<1> HIDE DEF tally
<1>5. \A n \in Nat : \A f \in [1..n -> Nat] : f \in Seq(Nat) /\ Len(f) = n
  OBVIOUS
<1>6. tally \in Seq(Nat) /\ Len(tally) = proposal_count
  BY <1>1, <1>3, <1>5
<1> QED BY <1>4, <1>6 DEF tally

-----------------------------------------------------------------------------
(* Types *)

LEMMA InitType == Init => TypeOK
<1> SUFFICES ASSUME Init PROVE TypeOK
  OBVIOUS
<1>1. proposal_count \in 1..MAX_PROPOSALS /\ proposal_count \in Nat
  BY PipelineAssumption, WidthAssumption
<1> DEFINE zeros == [p \in 1..proposal_count |-> 0]
<1>2. zeros \in Seq(Nat) /\ Len(zeros) = proposal_count
  BY <1>1
<1> HIDE DEF zeros
<1>3. ballot \in BallotAccount({chairperson}, {ballot.merkle_root})
  <2>1. ballot = NewBallot(chairperson, proposal_count, zeros)
    BY DEF Init, zeros
  <2>2. /\ ballot \in BallotAccount({chairperson}, {NoRoot})
        /\ ballot.merkle_root = NoRoot
    BY <1>1, <1>2, <2>1, InitializeType
  <2> QED BY <2>2
<1>4. pc \in [Requests -> Step] /\ \A r \in Requests : pc[r] = "new"
  BY DEF Init, Step
<1>5. /\ pending \in Seq(Valid) /\ accepted \in Seq(Valid)
      /\ batches \in Seq([batch_index : Nat, votes : Seq(Valid)])
  BY DEF Init
<1>6. batch \in [Handlers -> Seq(Valid)] /\ batch_index \in [Handlers -> Nat]
  BY DEF Init
<1>7. /\ transaction \in [Handlers -> {"none", "sent", "landed", "failed"}]
      /\ batch_submitted \in [VoteRequests -> BOOLEAN] /\ closed \in BOOLEAN
  BY DEF Init
<1>8. \A p \in Handlers : pc[p] \in Batching => batch[p] # <<>>
  BY <1>4 DEF Batching, Requests
<1> QED BY <1>3, <1>4, <1>5, <1>6, <1>7, <1>8 DEF TypeOK

(* A step that sets the program counter of one request outside Batching    *)
(* and touches no batch.                                                   *)
LEMMA PcStep ==
  ASSUME TypeOK, NEW r \in Requests, NEW s \in Step, batch' = batch,
         pc' = [pc EXCEPT ![r] = s],
         s \in Batching => pc[r] \in Batching
  PROVE  /\ pc' \in [Requests -> Step]
         /\ \A p \in Handlers : pc'[p] \in Batching => batch'[p] # <<>>
  BY DEF TypeOK, Requests

LEMMA StepType == TypeOK /\ [Next]_vars => TypeOK'
<1> SUFFICES ASSUME TypeOK, [Next]_vars PROVE TypeOK'
  OBVIOUS
<1> USE DEF TypeOK
<1>1. ASSUME NEW r \in VoteRequests, CheckOpen(r) PROVE TypeOK'
  <2>1. \E s \in {"rejected", "checked"} : pc' = [pc EXCEPT ![r] = s]
    BY <1>1 DEF CheckOpen
  <2>2. /\ pc' \in [Requests -> Step]
        /\ \A p \in Handlers : pc'[p] \in Batching => batch'[p] # <<>>
    BY <1>1, <2>1, PcStep DEF CheckOpen, Step, Batching, Requests, Handlers
  <2> QED BY <1>1, <2>2 DEF CheckOpen
<1>2. ASSUME NEW r \in VoteRequests, RejectInvalid(r) PROVE TypeOK'
  <2>1. /\ pc' \in [Requests -> Step]
        /\ \A p \in Handlers : pc'[p] \in Batching => batch'[p] # <<>>
    BY <1>2, PcStep DEF RejectInvalid, Step, Batching, Requests, Handlers
  <2> QED BY <1>2, <2>1 DEF RejectInvalid
<1>3. ASSUME NEW r \in VoteRequests, StoreVote(r) PROVE TypeOK'
  <2>1. pending' \in Seq(Valid) /\ accepted' \in Seq(Valid)
    BY <1>3 DEF StoreVote, Push
  <2>2. \E s \in {"drain", "done"} : pc' = [pc EXCEPT ![r] = s]
    BY <1>3 DEF StoreVote
  <2>3. /\ pc' \in [Requests -> Step]
        /\ \A p \in Handlers : pc'[p] \in Batching => batch'[p] # <<>>
    BY <1>3, <2>2, PcStep DEF StoreVote, Step, Batching, Requests, Handlers
  <2> QED BY <1>3, <2>1, <2>3 DEF StoreVote
<1>4. ASSUME NEW q \in FlushRequests, StartFlush(q) PROVE TypeOK'
  <2>1. /\ pc' \in [Requests -> Step]
        /\ \A p \in Handlers : pc'[p] \in Batching => batch'[p] # <<>>
    BY <1>4, PcStep DEF StartFlush, Step, Batching, Requests, Handlers
  <2> QED BY <1>4, <2>1 DEF StartFlush
<1>5. ASSUME NEW p \in Handlers, DrainPending(p) PROVE TypeOK'
  <2> DEFINE front == SubSeq(pending, 1, BatchLength)
  <2>1. /\ BatchLength \in 0..Len(pending)
        /\ pending # <<>> => BatchLength > 0
    BY BatchLengthFacts
  <2>2. /\ front \in Seq(Valid) /\ Len(front) = BatchLength
        /\ Remaining \in Seq(Valid)
    BY <2>1, SplitFacts DEF Remaining
  <2> HIDE DEF front
  <2>3. /\ batch' = [batch EXCEPT ![p] = front] /\ pending' = Remaining
        /\ pc' = [pc EXCEPT ![p] = AfterDrain]
        /\ AfterDrain = IF pending = <<>> THEN "done" ELSE "index"
    BY <1>5 DEF DrainPending, front, AfterDrain
  <2>4. pc' \in [Requests -> Step]
    BY <2>3 DEF Step, Requests
  <2>5. ASSUME NEW q \in Handlers, pc'[q] \in Batching PROVE batch'[q] # <<>>
    <3>1. CASE q = p
      <4>1. pc'[p] = AfterDrain
        BY <2>3 DEF Requests
      <4>2. pending # <<>>
        BY <2>3, <2>5, <3>1, <4>1 DEF Batching
      <4>3. Len(front) > 0
        BY <2>1, <2>2, <4>2
      <4>4. front # <<>>
        BY <2>2, <4>3
      <4> QED BY <2>3, <3>1, <4>4
    <3>2. CASE q # p
      BY <2>3, <2>5, <3>2 DEF Requests
    <3> QED BY <3>1, <3>2
  <2>6. batch' \in [Handlers -> Seq(Valid)]
    BY <2>2, <2>3
  <2> QED BY <1>5, <2>2, <2>3, <2>4, <2>5, <2>6 DEF DrainPending
<1>6. ASSUME NEW p \in Handlers, ReadBatchIndex(p) PROVE TypeOK'
  <2>1. /\ pc' \in [Requests -> Step]
        /\ \A q \in Handlers : pc'[q] \in Batching => batch'[q] # <<>>
    BY <1>6, PcStep DEF ReadBatchIndex, Step, Batching, Requests
  <2>2. batch_index' \in [Handlers -> Nat]
    BY <1>6 DEF ReadBatchIndex
  <2> QED BY <1>6, <2>1, <2>2 DEF ReadBatchIndex
<1>7. ASSUME NEW p \in Handlers, StoreBatch(p) PROVE TypeOK'
  <2>1. /\ pc' \in [Requests -> Step]
        /\ \A q \in Handlers : pc'[q] \in Batching => batch'[q] # <<>>
    BY <1>7, PcStep DEF StoreBatch, Step, Batching, Requests
  <2> DEFINE new == [batch_index |-> batch_index[p], votes |-> batch[p]]
  <2>2. new \in [batch_index : Nat, votes : Seq(Valid)]
    OBVIOUS
  <2> HIDE DEF new
  <2>3. batches' = Append(batches, new)
    BY <1>7 DEF StoreBatch, new
  <2>4. batches' \in Seq([batch_index : Nat, votes : Seq(Valid)])
    BY <2>2, <2>3
  <2> QED BY <1>7, <2>1, <2>4 DEF StoreBatch
<1>8. ASSUME NEW p \in Handlers, StoreReceipts(p) PROVE TypeOK'
  <2>1. /\ pc[p] = "receipts" /\ pc' = [pc EXCEPT ![p] = "submit"]
        /\ UNCHANGED <<pending, batch, batch_index, batches, closed, ballot,
                       transaction, batch_submitted, accepted>>
    BY <1>8 DEF StoreReceipts
  <2>2. /\ pc' \in [Requests -> Step]
        /\ \A q \in Handlers : pc'[q] \in Batching => batch'[q] # <<>>
    BY <2>1, PcStep DEF Step, Batching, Requests
  <2> QED BY <2>1, <2>2
<1>9. ASSUME NEW p \in Handlers, SubmitRollup(p) PROVE TypeOK'
  <2>1. /\ pc' \in [Requests -> Step]
        /\ \A q \in Handlers : pc'[q] \in Batching => batch'[q] # <<>>
    BY <1>9, PcStep DEF SubmitRollup, Step, Batching, Requests
  <2>2. transaction' \in [Handlers -> {"none", "sent", "landed", "failed"}]
    BY <1>9 DEF SubmitRollup
  <2> QED BY <1>9, <2>1, <2>2 DEF SubmitRollup
<1>10. ASSUME NEW p \in Handlers, LandRollup(p) PROVE TypeOK'
  <2>1. transaction' \in [Handlers -> {"none", "sent", "landed", "failed"}]
    BY <1>10 DEF LandRollup
  <2>2. ballot' \in BallotAccount({chairperson}, {ballot'.merkle_root})
    <3> DEFINE root == merkle_root(Leaves(batch[p]))
               tally == BatchTally(batch[p])
               size == Len(batch[p])
               C == {chairperson}
               R == {ballot.merkle_root}
               Q == {root}
    <3>1. CASE validate_rollup_batch(ballot, tally, size)
      <4>1. batch[p] \in Seq(Valid)
        OBVIOUS
      <4>2. tally \in Seq(Nat) /\ size \in Nat
        BY <4>1, BatchTallyType
      <4>3. ballot' = AfterRollupBatch(ballot, root, tally, size)
        BY <1>10, <3>1 DEF LandRollup
      <4>4. ballot \in BallotAccount(C, R) /\ root \in Q
        OBVIOUS
      <4> HIDE DEF root, tally, size, C, R, Q, TypeOK
      <4>5. ballot' \in BallotAccount(C, Q)
        BY <3>1, <4>2, <4>3, <4>4, RollupType
      <4>6. ballot'.merkle_root = root
        BY <4>3, <4>4, RollupFields
      <4> QED BY <4>5, <4>6 DEF C, Q
    <3>2. CASE ~ validate_rollup_batch(ballot, tally, size)
      <4>1. ballot' = ballot
        BY <1>10, <3>2 DEF LandRollup
      <4> QED BY <4>1
    <3> QED BY <3>1, <3>2
  <2> QED BY <1>10, <2>1, <2>2 DEF LandRollup
<1>11. ASSUME NEW p \in Handlers, JoinRollup(p) PROVE TypeOK'
  <2>1. /\ pc' \in [Requests -> Step]
        /\ \A q \in Handlers : pc'[q] \in Batching => batch'[q] # <<>>
    BY <1>11, PcStep DEF JoinRollup, Step, Batching, Requests
  <2>2. batch_submitted' \in [VoteRequests -> BOOLEAN]
    <3>1. batch_submitted' =
            [r \in VoteRequests |-> r = p \/ batch_submitted[r]]
      BY <1>11 DEF JoinRollup
    <3>2. \A r \in VoteRequests : (r = p \/ batch_submitted[r]) \in BOOLEAN
      OBVIOUS
    <3> QED BY <3>1, <3>2, Zenon
  <2> QED BY <1>11, <2>1, <2>2 DEF JoinRollup
<1>12. ASSUME NEW c \in CloseRequests, CloseOnChain(c) PROVE TypeOK'
  <2>1. \E s \in {"flag", "done"} : pc' = [pc EXCEPT ![c] = s]
    BY <1>12 DEF CloseOnChain
  <2>2. /\ pc' \in [Requests -> Step]
        /\ \A p \in Handlers : pc'[p] \in Batching => batch'[p] # <<>>
    BY <1>12, <2>1, PcStep DEF CloseOnChain, Step, Batching, Requests
  <2>3. ballot' \in BallotAccount({chairperson}, {ballot'.merkle_root})
    <3>1. ballot' = ballot \/ ballot' = AfterClose(ballot)
      BY <1>12 DEF CloseOnChain
    <3>2. 0 \in 0..U8_MAX
      BY WidthAssumption
    <3>3. /\ AfterClose(ballot) \in
               BallotAccount({chairperson}, {ballot.merkle_root})
          /\ AfterClose(ballot) = [ballot EXCEPT !.status = ELECTION_CLOSED]
      BY <3>2, StatusType
    <3>4. AfterClose(ballot).merkle_root = ballot.merkle_root
      BY <3>3 DEF BallotAccount
    <3> QED BY <3>1, <3>3, <3>4
  <2> QED BY <1>12, <2>2, <2>3 DEF CloseOnChain
<1>13. ASSUME NEW c \in CloseRequests, SetClosedFlag(c) PROVE TypeOK'
  <2>1. /\ pc' \in [Requests -> Step]
        /\ \A p \in Handlers : pc'[p] \in Batching => batch'[p] # <<>>
    BY <1>13, PcStep DEF SetClosedFlag, Step, Batching, Requests
  <2> QED BY <1>13, <2>1 DEF SetClosedFlag
<1>14. CASE UNCHANGED vars
  BY <1>14 DEF vars
<1> HIDE DEF TypeOK
<1> QED
  BY <1>1, <1>2, <1>3, <1>4, <1>5, <1>6, <1>7, <1>8, <1>9, <1>10, <1>11,
     <1>12, <1>13, <1>14 DEF Next, CreateBatch

(* Every queue, batch, flag and account of the vote path stays well typed: *)
(* in particular a batch that has been drained is never empty when it is   *)
(* submitted, and the counters on chain never leave a u64.                 *)
THEOREM TypeCorrect == Spec => []TypeOK
<1>1. Init => TypeOK
  BY InitType
<1>2. TypeOK /\ [Next]_vars => TypeOK'
  BY StepType
<1> QED BY <1>1, <1>2, PTL DEF Spec

-----------------------------------------------------------------------------
(* The phases of a handler *)

(* What the program counter of a handler says about the shared state: a    *)
(* vote is accepted only by StoreVote, a batch is taken only by            *)
(* DrainPending, and a transaction is sent only by SubmitRollup.           *)
Undecided == {"new", "checked", "rejected"}

Phases ==
  /\ \A r \in VoteRequests : pc[r] \in Undecided => r \notin Range(accepted)
  /\ \A p \in Handlers : pc[p] \in Undecided \cup {"drain"} => batch[p] = <<>>
  /\ \A p \in Handlers : transaction[p] # "none" => pc[p] \in {"join", "done"}

LEMMA InitPhases == Init => Phases
<1> SUFFICES ASSUME Init PROVE Phases
  OBVIOUS
<1>1. Range(accepted) = {}
  BY DEF Init, Range
<1>2. \A p \in Handlers : batch[p] = <<>> /\ transaction[p] = "none"
  BY DEF Init
<1> QED BY <1>1, <1>2 DEF Phases

LEMMA StepPhases == TypeOK /\ Phases /\ [Next]_vars => Phases'
<1> SUFFICES ASSUME TypeOK, Phases, [Next]_vars PROVE Phases'
  OBVIOUS
<1>0. /\ pc \in [Requests -> Step] /\ batch \in [Handlers -> Seq(Valid)]
      /\ transaction \in [Handlers -> {"none", "sent", "landed", "failed"}]
      /\ accepted \in Seq(Valid)
  BY DEF TypeOK
<1> USE <1>0 DEF Phases, Undecided, Requests, Handlers
<1>1. ASSUME NEW r \in VoteRequests, CheckOpen(r) \/ RejectInvalid(r)
      PROVE  Phases'
  BY <1>1 DEF CheckOpen, RejectInvalid
<1>2. ASSUME NEW r \in VoteRequests, StoreVote(r) PROVE Phases'
  <2>1. Range(accepted') = Range(accepted) \cup {r}
    BY <1>2, AppendFacts DEF StoreVote
  <2>2. pc' = [pc EXCEPT ![r] = "drain"] \/ pc' = [pc EXCEPT ![r] = "done"]
    BY <1>2 DEF StoreVote
  <2> QED BY <1>2, <2>1, <2>2 DEF StoreVote
<1>3. ASSUME NEW q \in FlushRequests, StartFlush(q) PROVE Phases'
  BY <1>3, PipelineAssumption DEF StartFlush
<1>4. ASSUME NEW p \in Handlers, DrainPending(p) PROVE Phases'
  <2>1. pc' = [pc EXCEPT ![p] = "done"] \/ pc' = [pc EXCEPT ![p] = "index"]
    BY <1>4 DEF DrainPending, AfterDrain
  <2>2. \A q \in Handlers \ {p} : batch'[q] = batch[q]
    BY <1>4 DEF DrainPending
  <2>3. pc[p] = "drain" /\ accepted' = accepted /\ transaction' = transaction
    BY <1>4 DEF DrainPending
  <2> QED BY <2>1, <2>2, <2>3
<1>5. ASSUME NEW p \in Handlers,
             ReadBatchIndex(p) \/ StoreBatch(p) \/ JoinRollup(p)
      PROVE  Phases'
  BY <1>5 DEF ReadBatchIndex, StoreBatch, JoinRollup
<1>6. ASSUME NEW p \in Handlers, StoreReceipts(p) PROVE Phases'
  <2>1. /\ pc[p] = "receipts" /\ pc' = [pc EXCEPT ![p] = "submit"]
        /\ UNCHANGED <<accepted, batch, transaction>>
    BY <1>6 DEF StoreReceipts
  <2> QED BY <2>1
<1>7. ASSUME NEW p \in Handlers, SubmitRollup(p) PROVE Phases'
  BY <1>7 DEF SubmitRollup
<1>8. ASSUME NEW p \in Handlers, LandRollup(p) PROVE Phases'
  <2>1. /\ transaction[p] = "sent" /\ UNCHANGED <<pc, accepted, batch>>
        /\ \A q \in Handlers \ {p} : transaction'[q] = transaction[q]
    BY <1>8 DEF LandRollup
  <2> QED BY <2>1
<1>9. ASSUME NEW c \in CloseRequests, CloseOnChain(c) PROVE Phases'
  <2>1. \E s \in {"flag", "done"} : pc' = [pc EXCEPT ![c] = s]
    BY <1>9 DEF CloseOnChain
  <2>2. UNCHANGED <<accepted, batch, transaction>> /\ pc[c] = "new"
    BY <1>9 DEF CloseOnChain
  <2> QED BY <2>1, <2>2, PipelineAssumption
<1>10. ASSUME NEW c \in CloseRequests, SetClosedFlag(c) PROVE Phases'
  BY <1>10, PipelineAssumption DEF SetClosedFlag
<1>11. CASE UNCHANGED vars
  BY <1>11 DEF vars
<1> QED
  BY <1>1, <1>2, <1>3, <1>4, <1>5, <1>6, <1>7, <1>8, <1>9, <1>10, <1>11
     DEF Next, CreateBatch

-----------------------------------------------------------------------------
(* No vote is lost or duplicated *)

LEMMA InitPlace == Init => EachVoteInOnePlace
<1> SUFFICES ASSUME Init PROVE EachVoteInOnePlace
  OBVIOUS
<1>1. /\ Range(accepted) = {} /\ Range(pending) = {} /\ IsInjective(pending)
  BY DEF Init, Range, IsInjective
<1>2. \A p \in Handlers : Range(batch[p]) = {} /\ IsInjective(batch[p])
  BY DEF Init, Range, IsInjective
<1>3. Drained = {}
  BY <1>2 DEF Drained
<1> QED BY <1>1, <1>2, <1>3 DEF EachVoteInOnePlace

(* The critical section that pushes a vote and the one that drains a batch *)
(* are the only steps that move a vote.                                    *)
LEMMA OtherStepsMoveNoVote ==
  ASSUME [Next]_vars
  PROVE  \/ \E r \in VoteRequests : StoreVote(r)
         \/ \E p \in Handlers : DrainPending(p)
         \/ UNCHANGED <<accepted, pending, batch>>
<1>1. \A r \in VoteRequests : CheckOpen(r) \/ RejectInvalid(r) =>
        UNCHANGED <<accepted, pending, batch>>
  BY DEF CheckOpen, RejectInvalid
<1>2. \A q \in FlushRequests : StartFlush(q) =>
        UNCHANGED <<accepted, pending, batch>>
  BY DEF StartFlush
<1>3. \A p \in Handlers :
        ReadBatchIndex(p) \/ StoreBatch(p) \/ SubmitRollup(p) \/ JoinRollup(p)
        =>
          UNCHANGED <<accepted, pending, batch>>
  BY DEF ReadBatchIndex, StoreBatch, SubmitRollup, JoinRollup
<1>4. \A p \in Handlers : StoreReceipts(p) \/ LandRollup(p) =>
        UNCHANGED <<accepted, pending, batch>>
  BY DEF StoreReceipts, LandRollup
<1>5. \A c \in CloseRequests : CloseOnChain(c) \/ SetClosedFlag(c) =>
        UNCHANGED <<accepted, pending, batch>>
  BY DEF CloseOnChain, SetClosedFlag
<1>6. UNCHANGED vars => UNCHANGED <<accepted, pending, batch>>
  BY DEF vars
<1> QED BY <1>1, <1>2, <1>3, <1>4, <1>5, <1>6 DEF Next, CreateBatch

LEMMA StepPlace ==
  TypeOK /\ Phases /\ EachVoteInOnePlace /\ [Next]_vars => EachVoteInOnePlace'
<1> SUFFICES ASSUME TypeOK, Phases, EachVoteInOnePlace, [Next]_vars
             PROVE  EachVoteInOnePlace'
  OBVIOUS
<1>0. /\ pending \in Seq(Valid) /\ accepted \in Seq(Valid)
      /\ batch \in [Handlers -> Seq(Valid)]
  BY DEF TypeOK
<1>1. ASSUME NEW r \in VoteRequests, StoreVote(r) PROVE EachVoteInOnePlace'
  <2>1. r \in Valid /\ pc[r] = "checked"
    BY <1>1 DEF StoreVote
  <2>2. r \notin Range(accepted)
    BY <2>1 DEF Phases, Undecided
  <2>3. r \notin Range(pending) /\ \A p \in Handlers : r \notin Range(batch[p])
    BY <2>2 DEF EachVoteInOnePlace, Drained
  <2>4. pending' = Append(pending, r) /\ accepted' = Append(accepted, r)
    BY <1>1 DEF StoreVote, Push
  <2>5. /\ Range(pending') = Range(pending) \cup {r}
        /\ Range(accepted') = Range(accepted) \cup {r}
        /\ IsInjective(pending')
    BY <1>0, <2>1, <2>3, <2>4, AppendFacts DEF EachVoteInOnePlace
  <2>6. batch' = batch /\ Drained' = Drained
    BY <1>1 DEF StoreVote, Drained
  <2> QED BY <2>3, <2>5, <2>6 DEF EachVoteInOnePlace
<1>2. ASSUME NEW p \in Handlers, DrainPending(p) PROVE EachVoteInOnePlace'
  <2> DEFINE front == SubSeq(pending, 1, BatchLength)
  <2>1. BatchLength \in 0..Len(pending)
    BY BatchLengthFacts
  <2>2. /\ Range(pending) = Range(front) \cup Range(Remaining)
        /\ IsInjective(front) /\ IsInjective(Remaining)
        /\ Range(front) \cap Range(Remaining) = {}
    BY <1>0, <2>1, SplitFacts DEF Remaining, EachVoteInOnePlace
  <2> HIDE DEF front
  <2>3. /\ batch' = [batch EXCEPT ![p] = front] /\ pending' = Remaining
        /\ accepted' = accepted /\ pc[p] = "drain"
    BY <1>2 DEF DrainPending, front
  <2>4. Range(batch[p]) = {}
    BY <2>3 DEF Phases, Range
  <2>5. batch'[p] = front /\ \A q \in Handlers \ {p} : batch'[q] = batch[q]
    BY <1>0, <2>3
  <2>6. Drained' = Drained \cup Range(front)
    BY <2>4, <2>5 DEF Drained
  <2>7. /\ Range(accepted') = Range(pending') \cup Drained'
        /\ IsInjective(pending')
    BY <2>2, <2>3, <2>6 DEF EachVoteInOnePlace
  <2>8. ASSUME NEW q \in Handlers
        PROVE  /\ IsInjective(batch'[q])
               /\ Range(batch'[q]) \cap Range(pending') = {}
    <3>1. CASE q = p
      BY <2>2, <2>3, <2>5, <3>1
    <3>2. CASE q # p
      BY <2>2, <2>3, <2>5, <3>2 DEF EachVoteInOnePlace
    <3> QED BY <3>1, <3>2
  <2>9. ASSUME NEW q \in Handlers, NEW o \in Handlers \ {q}
        PROVE  Range(batch'[q]) \cap Range(batch'[o]) = {}
    BY <2>2, <2>5 DEF EachVoteInOnePlace
  <2> QED BY <2>7, <2>8, <2>9 DEF EachVoteInOnePlace
<1>3. CASE UNCHANGED <<accepted, pending, batch>>
  BY <1>3 DEF EachVoteInOnePlace, Drained
<1> QED BY <1>1, <1>2, <1>3, OtherStepsMoveNoVote

(* Every accepted vote is in the queue or in exactly one batch, once, for  *)
(* any number of concurrent submissions, flushes and closes.               *)
THEOREM VotesStayInOnePlace == Spec => []EachVoteInOnePlace
<1> DEFINE Inv == TypeOK /\ Phases /\ EachVoteInOnePlace
<1>1. Init => Inv
  BY InitType, InitPhases, InitPlace
<1>2. Inv /\ [Next]_vars => Inv'
  BY StepType, StepPhases, StepPlace
<1>3. Inv => EachVoteInOnePlace
  OBVIOUS
<1> QED BY <1>1, <1>2, <1>3, PTL DEF Spec

-----------------------------------------------------------------------------
(* The queue is bounded *)

Draining == {r \in VoteRequests : pc[r] = "drain"}

Bounded == IsFiniteSet(Draining) /\ PendingBounded

LEMMA InitBounded == Init => Bounded
<1> SUFFICES ASSUME Init PROVE Bounded
  OBVIOUS
<1>1. Draining = {}
  BY DEF Init, Draining, Requests, Handlers
<1>2. IsFiniteSet(Draining) /\ Cardinality(Draining) = 0
  BY <1>1, FS_EmptySet
<1>3. Len(pending) = 0 /\ MAX_BATCH_SIZE \in Nat \ {0}
  BY PipelineAssumption DEF Init
<1> QED BY <1>2, <1>3 DEF Bounded, PendingBounded, Draining

\* Besides the two critical sections on the queue no step changes the queue
\* or the set of votes on their way to drain it.
LEMMA OtherStepsKeepQueue ==
  ASSUME TypeOK, [Next]_vars
  PROVE  \/ \E r \in VoteRequests : StoreVote(r)
         \/ \E p \in Handlers : DrainPending(p)
         \/ pending' = pending /\ Draining' = Draining
<1> DEFINE Same == pending' = pending /\ Draining' = Draining
<1>0. pc \in [Requests -> Step]
  BY DEF TypeOK
<1> USE <1>0, PipelineAssumption DEF Draining, Requests, Handlers
<1>1. \A r \in VoteRequests : CheckOpen(r) \/ RejectInvalid(r) => Same
  BY DEF CheckOpen, RejectInvalid
<1>2. \A q \in FlushRequests : StartFlush(q) => Same
  BY DEF StartFlush
<1>3. \A p \in Handlers :
        ReadBatchIndex(p) \/ StoreBatch(p) \/ SubmitRollup(p) \/ JoinRollup(p)
          => Same
  BY DEF ReadBatchIndex, StoreBatch, SubmitRollup, JoinRollup
<1>4. ASSUME NEW p \in Handlers, StoreReceipts(p) PROVE Same
  <2>1. /\ pc[p] = "receipts" /\ pc' = [pc EXCEPT ![p] = "submit"]
        /\ pending' = pending
    BY <1>4 DEF StoreReceipts
  <2> QED BY <2>1
<1>5. \A p \in Handlers : LandRollup(p) => Same
  BY DEF LandRollup
<1>6. ASSUME NEW c \in CloseRequests, CloseOnChain(c) \/ SetClosedFlag(c)
      PROVE  Same
  <2>1. /\ \E s \in {"flag", "done"} : pc' = [pc EXCEPT ![c] = s]
        /\ pending' = pending
    BY <1>6 DEF CloseOnChain, SetClosedFlag
  <2> QED BY <2>1
<1>7. UNCHANGED vars => Same
  BY DEF vars
<1> HIDE DEF Same
<1>8. \/ \E r \in VoteRequests : StoreVote(r)
      \/ \E p \in Handlers : DrainPending(p)
      \/ Same
  BY <1>1, <1>2, <1>3, <1>4, <1>5, <1>6, <1>7 DEF Next, CreateBatch
<1> QED BY <1>8 DEF Same

LEMMA StepBounded == TypeOK /\ Bounded /\ [Next]_vars => Bounded'
<1> SUFFICES ASSUME TypeOK, Bounded, [Next]_vars PROVE Bounded'
  OBVIOUS
<1>0. /\ pending \in Seq(Valid) /\ pc \in [Requests -> Step]
      /\ MAX_BATCH_SIZE \in Nat \ {0} /\ Len(pending) \in Nat
      /\ IsFiniteSet(Draining) /\ Cardinality(Draining) \in Nat
      /\ Len(pending) <= MAX_BATCH_SIZE - 1 + Cardinality(Draining)
  BY PipelineAssumption, FS_CardinalityType
     DEF TypeOK, Bounded, PendingBounded, Draining
<1>1. ASSUME NEW r \in VoteRequests, StoreVote(r) PROVE Bounded'
  <2>1. /\ r \in Valid /\ pc[r] = "checked" /\ pending' = Append(pending, r)
        /\ pc' = [pc EXCEPT ![r] =
                    IF Len(pending') >= MAX_BATCH_SIZE THEN "drain" ELSE "done"]
    BY <1>1 DEF StoreVote, Push, BatchDue
  <2>2. Len(pending') = Len(pending) + 1
    BY <1>0, <2>1
  <2>3. CASE Len(pending') >= MAX_BATCH_SIZE
    <3>1. Draining' = Draining \cup {r} /\ r \notin Draining
      BY <1>0, <2>1, <2>3 DEF Draining, Requests, Handlers
    <3>2. /\ IsFiniteSet(Draining')
          /\ Cardinality(Draining') = Cardinality(Draining) + 1
      BY <1>0, <3>1, FS_AddElement
    <3>3. Len(pending') <= MAX_BATCH_SIZE - 1 + Cardinality(Draining')
      BY <1>0, <2>2, <3>2
    <3> QED BY <3>2, <3>3 DEF Bounded, PendingBounded, Draining
  <2>4. CASE ~ (Len(pending') >= MAX_BATCH_SIZE)
    <3>1. Draining' = Draining
      BY <1>0, <2>1, <2>4 DEF Draining, Requests, Handlers
    <3>2. Len(pending') <= MAX_BATCH_SIZE - 1 + Cardinality(Draining')
      BY <1>0, <2>2, <2>4, <3>1
    <3> QED BY <1>0, <3>1, <3>2 DEF Bounded, PendingBounded, Draining
  <2> QED BY <2>3, <2>4
<1>2. ASSUME NEW p \in Handlers, DrainPending(p) PROVE Bounded'
  <2>1. /\ pc[p] = "drain" /\ pending' = Remaining
        /\ pc' = [pc EXCEPT ![p] = AfterDrain] /\ AfterDrain # "drain"
    BY <1>2 DEF DrainPending, AfterDrain
  <2>2. /\ Len(pending') \in Nat
        /\ Len(pending') = 0 \/ Len(pending') = Len(pending) - MAX_BATCH_SIZE
    <3>1. /\ BatchLength \in 0..Len(pending)
          /\ \/ Len(pending) - BatchLength = 0
             \/ Len(pending) - BatchLength = Len(pending) - MAX_BATCH_SIZE
      BY BatchLengthFacts
    <3>2. Len(Remaining) = Len(pending) - BatchLength
      BY <1>0, <3>1, SplitFacts DEF Remaining
    <3> QED BY <1>0, <2>1, <3>1, <3>2
  <2>3. Draining' = Draining \ {p}
    BY <1>0, <2>1 DEF Draining, Requests, Handlers
  <2>4. /\ IsFiniteSet(Draining') /\ Cardinality(Draining') \in Nat
        /\ Cardinality(Draining') >= Cardinality(Draining) - 1
    <3>1. IsFiniteSet(Draining') /\ Cardinality(Draining') \in Nat
      BY <1>0, <2>3, FS_RemoveElement, FS_CardinalityType
    <3>2. CASE p \in Draining
      BY <1>0, <2>3, <3>1, <3>2, FS_RemoveElement
    <3>3. CASE p \notin Draining
      <4>1. Draining' = Draining
        BY <2>3, <3>3
      <4> QED BY <1>0, <3>1, <4>1
    <3> QED BY <3>1, <3>2, <3>3
  <2>5. Len(pending') <= MAX_BATCH_SIZE - 1 + Cardinality(Draining')
    BY <1>0, <2>2, <2>4
  <2> QED BY <2>4, <2>5 DEF Bounded, PendingBounded, Draining
<1>3. CASE pending' = pending /\ Draining' = Draining
  BY <1>0, <1>3 DEF Bounded, PendingBounded, Draining
<1> QED BY <1>1, <1>2, <1>3, OtherStepsKeepQueue

(* The queue never holds more than MAX_BATCH_SIZE - 1 votes beyond those   *)
(* whose handlers are about to drain it, with no bound on the number of    *)
(* requests.                                                               *)
THEOREM QueueIsBounded == Spec => []PendingBounded
<1> DEFINE Inv == TypeOK /\ Bounded
<1>1. Init => Inv
  BY InitType, InitBounded
<1>2. Inv /\ [Next]_vars => Inv'
  BY StepType, StepBounded
<1>3. Inv => PendingBounded
  BY DEF Bounded
<1> QED BY <1>1, <1>2, <1>3, PTL DEF Spec

-----------------------------------------------------------------------------
(* The ballot on chain counts the votes of the batches that landed *)

VotesFor(votes, m) == {r \in votes : vote_of[r].movie_index = m}

Counted ==
  /\ IsFiniteSet(Landed)
  /\ IsFiniteSet(LandedVotes)
  /\ ChainCountsLandedVotes

LEMMA InitCounted == Init => Counted
<1> SUFFICES ASSUME Init PROVE Counted
  OBVIOUS
<1>1. Landed = {} /\ LandedVotes = {}
  BY DEF Init, Landed, LandedVotes
<1>2. /\ IsFiniteSet(Landed) /\ Cardinality(Landed) = 0
      /\ IsFiniteSet(LandedVotes) /\ Cardinality(LandedVotes) = 0
  BY <1>1, FS_EmptySet
<1>3. /\ ballot.encrypted_tally = [p \in 1..proposal_count |-> 0]
      /\ ballot.total_votes = 0 /\ ballot.batch_count = 0
  BY DEF Init, NewBallot
<1>4. proposal_count \in Nat
  BY PipelineAssumption, WidthAssumption
<1>5. ASSUME NEW m \in Movies
      PROVE  ballot.encrypted_tally[m + 1] =
               Cardinality({r \in LandedVotes : vote_of[r].movie_index = m})
  <2>1. m + 1 \in 1..proposal_count
    BY <1>4 DEF Movies
  <2>2. {r \in LandedVotes : vote_of[r].movie_index = m} = {}
    BY <1>1
  <2> QED BY <1>3, <2>1, <2>2, FS_EmptySet
<1> QED BY <1>2, <1>3, <1>5 DEF Counted, ChainCountsLandedVotes

\* Two disjoint finite sets.
LEMMA DisjointUnion ==
  ASSUME NEW A, NEW B, IsFiniteSet(A), IsFiniteSet(B), A \cap B = {}
  PROVE  /\ IsFiniteSet(A \cup B)
         /\ Cardinality(A \cup B) = Cardinality(A) + Cardinality(B)
<1>1. Cardinality(A \cap B) = 0
  BY FS_EmptySet
<1>2. Cardinality(A) \in Nat /\ Cardinality(B) \in Nat
  BY FS_CardinalityType
<1>3. /\ IsFiniteSet(A \cup B)
      /\ Cardinality(A \cup B) =
           Cardinality(A) + Cardinality(B) - Cardinality(A \cap B)
  BY FS_Union
<1> QED BY <1>1, <1>2, <1>3

LEMMA LandRollupCounted ==
  ASSUME TypeOK, EachVoteInOnePlace, Counted,
         NEW p \in Handlers, LandRollup(p)
  PROVE  Counted'
<1> DEFINE b == batch[p]
<1>1. /\ b \in Seq(Valid) /\ Len(b) \in Nat /\ DOMAIN b = 1..Len(b)
      /\ transaction[p] = "sent" /\ batch' = batch
      /\ transaction \in [Handlers -> {"none", "sent", "landed", "failed"}]
      /\ ballot \in BallotAccount({chairperson}, {ballot.merkle_root})
  BY DEF LandRollup, TypeOK
<1>2. CASE ~ validate_rollup_batch(ballot, BatchTally(b), Len(b))
  <2>1. ballot' = ballot /\ transaction' = [transaction EXCEPT ![p] = "failed"]
    BY <1>2 DEF LandRollup
  <2>2. Landed' = Landed
    BY <1>1, <2>1 DEF Landed
  <2>3. LandedVotes' = LandedVotes
    BY <1>1, <2>2 DEF LandedVotes
  <2> QED BY <2>1, <2>2, <2>3 DEF Counted, ChainCountsLandedVotes
<1>3. CASE validate_rollup_batch(ballot, BatchTally(b), Len(b))
  <2> DEFINE root == merkle_root(Leaves(b))
             tally == BatchTally(b)
             C == {chairperson}
             R == {ballot.merkle_root}
             Q == {root}
  <2>1. /\ ballot' = AfterRollupBatch(ballot, root, tally, Len(b))
        /\ transaction' = [transaction EXCEPT ![p] = "landed"]
    BY <1>3 DEF LandRollup
  <2>2. Landed' = Landed \cup {p} /\ p \notin Landed
    BY <1>1, <2>1 DEF Landed
  <2>3. LandedVotes' = LandedVotes \cup Range(b)
    BY <1>1, <2>2 DEF LandedVotes
  <2>4. LandedVotes \cap Range(b) = {} /\ IsInjective(b)
    <3>1. \A q \in Landed : q \in Handlers \ {p}
      BY <2>2 DEF Landed
    <3> QED BY <3>1 DEF EachVoteInOnePlace, LandedVotes
  <2>5. /\ tally \in Seq(Nat) /\ Len(tally) = proposal_count
        /\ \A q \in 1..proposal_count : tally[q] =
             Cardinality({i \in DOMAIN b : vote_of[b[i]].movie_index = q - 1})
    BY <1>1, BatchTallyType
  <2>6. Len(ballot.encrypted_tally) = proposal_count
    BY <1>3, <2>5 DEF validate_rollup_batch
  <2> HIDE DEF b
  <2>7. /\ \A i \in 1..proposal_count :
             ballot'.encrypted_tally[i] = ballot.encrypted_tally[i] + tally[i]
        /\ ballot'.total_votes = ballot.total_votes + Len(b)
        /\ ballot'.batch_count = ballot.batch_count + 1
    <3>1. ballot \in BallotAccount(C, R) /\ root \in Q
      BY <1>1
    <3>3. tally \in Seq(Nat) /\ Len(b) \in Nat
      BY <1>1, <2>5
    <3>4. ballot' = AfterRollupBatch(ballot, root, tally, Len(b))
      BY <2>1
    <3> HIDE DEF root, tally, C, R, Q
    <3>5. /\ ballot'.encrypted_tally =
               encrypted_tally_after_vote(ballot.encrypted_tally, tally)
          /\ ballot'.total_votes = ballot.total_votes + Len(b)
          /\ ballot'.batch_count = ballot.batch_count + 1
      BY <3>1, <3>4, RollupFields
    <3>6. ballot.encrypted_tally \in Seq(Nat)
      BY <3>1 DEF BallotAccount
    <3>7. \A i \in 1..proposal_count :
            ballot'.encrypted_tally[i] = ballot.encrypted_tally[i] + tally[i]
      BY <2>5, <2>6, <3>3, <3>5, <3>6, TallyAfterVote DEF tally
    <3> QED BY <3>5, <3>7
  <2> HIDE DEF root, tally, C, R, Q
  <2>8. /\ IsFiniteSet(Landed')
        /\ ballot'.batch_count = Cardinality(Landed')
    BY <2>2, <2>7, FS_AddElement DEF Counted, ChainCountsLandedVotes
  <2>9. /\ IsFiniteSet(LandedVotes')
        /\ ballot'.total_votes = Cardinality(LandedVotes')
    <3>1. b \in Seq(Valid) /\ IsInjective(b)
      BY <1>1, <2>4
    <3>2. IsFiniteSet(Range(b)) /\ Cardinality(Range(b)) = Len(b)
      BY <3>1, CountElements
    <3>3. /\ IsFiniteSet(LandedVotes')
          /\ Cardinality(LandedVotes') = Cardinality(LandedVotes) + Len(b)
      BY <2>3, <2>4, <3>2, DisjointUnion DEF Counted
    <3> QED BY <2>7, <3>3 DEF Counted, ChainCountsLandedVotes
  <2>10. ASSUME NEW m \in Movies
         PROVE  ballot'.encrypted_tally[m + 1] =
                  Cardinality({r \in LandedVotes' : vote_of[r].movie_index = m})
    <3> DEFINE T    == VotesFor(Valid, m)
               old  == VotesFor(LandedVotes, m)
               new  == {x \in Range(b) : x \in T}
               at   == {i \in DOMAIN b : b[i] \in T}
    <3>1. m + 1 \in 1..proposal_count /\ (m + 1) - 1 = m
      BY PipelineAssumption, WidthAssumption DEF Movies
    <3>2. at = {i \in DOMAIN b : vote_of[b[i]].movie_index = m}
      BY <1>1 DEF VotesFor
    <3>3. tally[m + 1] = Cardinality(at)
      BY <2>5, <3>1, <3>2
    <3>4. IsFiniteSet(new) /\ Cardinality(new) = Cardinality(at)
      <4>1. b \in Seq(Valid) /\ IsInjective(b)
        BY <1>1, <2>4
      <4> HIDE DEF T
      <4> QED BY <4>1, CountPositions
    <3>5. IsFiniteSet(old) /\ old \cap new = {}
      BY <2>4, FS_Subset DEF Counted, VotesFor
    <3>6. {r \in LandedVotes' : vote_of[r].movie_index = m} = old \cup new
      BY <1>1, <2>3 DEF VotesFor, Range
    <3>7. ballot.encrypted_tally[m + 1] = Cardinality(old)
      BY DEF Counted, ChainCountsLandedVotes, VotesFor
    <3> HIDE DEF T, old, new, at
    <3>8. Cardinality(old \cup new) = Cardinality(old) + Cardinality(new)
      BY <3>4, <3>5, DisjointUnion
    <3> QED BY <2>7, <3>1, <3>3, <3>4, <3>6, <3>7, <3>8
  <2> QED BY <2>8, <2>9, <2>10 DEF Counted, ChainCountsLandedVotes
<1> QED BY <1>2, <1>3

\* No other step changes what the ballot counts or which batches have landed.
LEMMA OtherStepsKeepCount ==
  ASSUME TypeOK, Phases, [Next]_vars
  PROVE  \/ \E p \in Handlers : LandRollup(p)
         \/ /\ Landed' = Landed /\ LandedVotes' = LandedVotes
            /\ ballot'.encrypted_tally = ballot.encrypted_tally
            /\ ballot'.total_votes = ballot.total_votes
            /\ ballot'.batch_count = ballot.batch_count
<1> DEFINE Same == /\ Landed' = Landed /\ LandedVotes' = LandedVotes
                   /\ ballot'.encrypted_tally = ballot.encrypted_tally
                   /\ ballot'.total_votes = ballot.total_votes
                   /\ ballot'.batch_count = ballot.batch_count
<1>0. /\ transaction \in [Handlers -> {"none", "sent", "landed", "failed"}]
      /\ batch \in [Handlers -> Seq(Valid)]
      /\ ballot \in BallotAccount({chairperson}, {ballot.merkle_root})
  BY DEF TypeOK
<1>1. UNCHANGED <<batch, transaction, ballot>> => Same
  BY DEF Landed, LandedVotes
<1>2. ASSUME NEW p \in Handlers, DrainPending(p) PROVE Same
  <2>1. /\ pc[p] = "drain" /\ UNCHANGED <<transaction, ballot>>
        /\ \A q \in Handlers \ {p} : batch'[q] = batch[q]
    BY <1>0, <1>2 DEF DrainPending
  <2>2. p \notin Landed
    BY <2>1 DEF Landed, Phases
  <2>3. Landed' = Landed
    BY <2>1 DEF Landed
  <2>4. \A q \in Landed : batch'[q] = batch[q]
    BY <2>1, <2>2 DEF Landed
  <2>5. LandedVotes' = LandedVotes
    BY <2>3, <2>4 DEF LandedVotes
  <2> QED BY <2>1, <2>3, <2>5
<1>3. ASSUME NEW p \in Handlers, SubmitRollup(p) PROVE Same
  <2>1. /\ pc[p] = "submit" /\ UNCHANGED <<batch, ballot>>
        /\ \E o \in {"sent", "failed"} :
             transaction' = [transaction EXCEPT ![p] = o]
    BY <1>3 DEF SubmitRollup
  <2>2. transaction[p] = "none"
    BY <2>1 DEF Phases
  <2>3. Landed' = Landed
    BY <1>0, <2>1, <2>2 DEF Landed
  <2>4. LandedVotes' = LandedVotes
    BY <2>1, <2>3 DEF LandedVotes
  <2> QED BY <2>1, <2>3, <2>4
<1>4. ASSUME NEW c \in CloseRequests, CloseOnChain(c) PROVE Same
  <2>1. /\ UNCHANGED <<batch, transaction>>
        /\ \/ ballot' = ballot
           \/ ballot' = [ballot EXCEPT !.status = ELECTION_CLOSED]
    BY <1>4 DEF CloseOnChain, AfterClose
  <2>2. Landed' = Landed /\ LandedVotes' = LandedVotes
    BY <2>1 DEF Landed, LandedVotes
  <2> QED BY <1>0, <2>1, <2>2 DEF BallotAccount
<1> HIDE DEF Same
<1>5. \A r \in VoteRequests : CheckOpen(r) \/ RejectInvalid(r) \/ StoreVote(r)
        => Same
  BY <1>1 DEF CheckOpen, RejectInvalid, StoreVote
<1>6. \A q \in FlushRequests : StartFlush(q) => Same
  BY <1>1 DEF StartFlush
<1>7. \A p \in Handlers : ReadBatchIndex(p) \/ StoreBatch(p) \/ JoinRollup(p)
        => Same
  BY <1>1 DEF ReadBatchIndex, StoreBatch, JoinRollup
<1>8. \A p \in Handlers : StoreReceipts(p) => Same
  BY <1>1 DEF StoreReceipts
<1>9. \A c \in CloseRequests : SetClosedFlag(c) => Same
  BY <1>1 DEF SetClosedFlag
<1>10. UNCHANGED vars => Same
  BY <1>1 DEF vars
<1>11. Same \/ \E p \in Handlers : LandRollup(p)
  BY <1>2, <1>3, <1>4, <1>5, <1>6, <1>7, <1>8, <1>9, <1>10
     DEF Next, CreateBatch
<1> QED BY <1>11 DEF Same

LEMMA StepCounted ==
  TypeOK /\ Phases /\ EachVoteInOnePlace /\ Counted /\ [Next]_vars => Counted'
<1> SUFFICES ASSUME TypeOK, Phases, EachVoteInOnePlace, Counted, [Next]_vars
             PROVE  Counted'
  OBVIOUS
<1>1. CASE \E p \in Handlers : LandRollup(p)
  BY <1>1, LandRollupCounted
<1>2. CASE /\ Landed' = Landed /\ LandedVotes' = LandedVotes
           /\ ballot'.encrypted_tally = ballot.encrypted_tally
           /\ ballot'.total_votes = ballot.total_votes
           /\ ballot'.batch_count = ballot.batch_count
  BY <1>2 DEF Counted, ChainCountsLandedVotes
<1> QED BY <1>1, <1>2, OtherStepsKeepCount

(* The tally, total_votes and batch_count of the ballot on chain are those *)
(* of the batches that landed, each vote counted once, whatever the order  *)
(* in which transactions land, fail or overflow.                           *)
THEOREM ChainIsExact == Spec => []ChainCountsLandedVotes
<1> DEFINE Inv == TypeOK /\ Phases /\ EachVoteInOnePlace /\ Counted
<1>1. Init => Inv
  BY InitType, InitPhases, InitPlace, InitCounted
<1>2. Inv /\ [Next]_vars => Inv'
  BY StepType, StepPhases, StepPlace, StepCounted
<1>3. Inv => ChainCountsLandedVotes
  BY DEF Counted
<1> QED BY <1>1, <1>2, <1>3, PTL DEF Spec

-----------------------------------------------------------------------------
(* The order of acceptance *)

\* How many of the accepted votes have left the queue.
Taken == Len(accepted) - Len(pending)

\* AcceptanceOrder, entry by entry.
InOrder ==
  /\ Len(pending) <= Len(accepted)
  /\ IsSlice(pending, accepted, Taken, Len(pending))
  /\ \A p \in Handlers : \E k \in 0..Taken :
       /\ k + Len(batch[p]) <= Taken
       /\ IsSlice(batch[p], accepted, k, Len(batch[p]))

LEMMA InitOrder == Init => InOrder
<1> SUFFICES ASSUME Init PROVE InOrder
  OBVIOUS
<1>1. Len(pending) = 0 /\ Len(accepted) = 0 /\ Taken = 0
  BY DEF Init, Taken
<1>2. \A p \in Handlers : Len(batch[p]) = 0
  BY DEF Init
<1> QED BY <1>1, <1>2 DEF InOrder, IsSlice

LEMMA OrderTypes ==
  ASSUME TypeOK, InOrder
  PROVE  /\ pending \in Seq(Valid) /\ accepted \in Seq(Valid)
         /\ batch \in [Handlers -> Seq(Valid)]
         /\ Len(pending) \in Nat /\ Len(accepted) \in Nat
         /\ Taken \in Nat /\ Taken + Len(pending) = Len(accepted)
         /\ \A p \in Handlers : batch[p] \in Seq(Valid) /\ Len(batch[p]) \in Nat
  BY DEF TypeOK, InOrder, Taken

LEMMA StepOrder == TypeOK /\ InOrder /\ [Next]_vars => InOrder'
<1> SUFFICES ASSUME TypeOK, InOrder, [Next]_vars PROVE InOrder'
  OBVIOUS
<1>0. /\ pending \in Seq(Valid) /\ accepted \in Seq(Valid)
      /\ batch \in [Handlers -> Seq(Valid)]
      /\ Len(pending) \in Nat /\ Len(accepted) \in Nat
      /\ Taken \in Nat /\ Taken + Len(pending) = Len(accepted)
      /\ \A p \in Handlers : Len(batch[p]) \in Nat
  BY OrderTypes
<1>1. ASSUME NEW r \in VoteRequests, StoreVote(r) PROVE InOrder'
  <2>1. /\ pending' = Append(pending, r) /\ accepted' = Append(accepted, r)
        /\ batch' = batch /\ r \in Valid
    BY <1>1 DEF StoreVote, Push
  <2>2. /\ Len(pending') = Len(pending) + 1
        /\ Len(accepted') = Len(accepted) + 1
        /\ \A i \in 1..Len(pending) : pending'[i] = pending[i]
        /\ \A i \in 1..Len(accepted) : accepted'[i] = accepted[i]
        /\ pending'[Len(pending) + 1] = r
        /\ accepted'[Len(accepted) + 1] = r
    BY <1>0, <2>1
  <2>3. Taken' = Taken
    BY <1>0, <2>2 DEF Taken
  <2>4. \A i \in 1..Len(pending') : pending'[i] = accepted'[Taken + i]
    <3> TAKE i \in 1..Len(pending')
    <3>1. CASE i \in 1..Len(pending)
      <4>1. Taken + i \in 1..Len(accepted)
        BY <1>0, <3>1
      <4> QED BY <2>2, <3>1, <4>1 DEF InOrder, IsSlice
    <3>2. CASE i = Len(pending) + 1
      <4>1. Taken + i = Len(accepted) + 1
        BY <1>0, <3>2
      <4> QED BY <2>2, <3>2, <4>1
    <3> QED BY <1>0, <2>2, <3>1, <3>2
  <2>5. ASSUME NEW p \in Handlers
        PROVE  \E k \in 0..Taken :
                 /\ k + Len(batch[p]) <= Taken
                 /\ IsSlice(batch[p], accepted', k, Len(batch[p]))
    <3>1. PICK k \in 0..Taken :
            /\ k + Len(batch[p]) <= Taken
            /\ IsSlice(batch[p], accepted, k, Len(batch[p]))
      BY DEF InOrder
    <3>2. \A i \in 1..Len(batch[p]) : k + i \in 1..Len(accepted)
      BY <1>0, <3>1
    <3> QED BY <2>2, <3>1, <3>2 DEF IsSlice
  <2>6. Len(pending') <= Len(accepted')
    BY <1>0, <2>2
  <2> QED BY <2>1, <2>3, <2>4, <2>5, <2>6 DEF InOrder, IsSlice
<1>2. ASSUME NEW p \in Handlers, DrainPending(p) PROVE InOrder'
  <2>1. PICK n \in 0..Len(pending) : n = BatchLength
    BY BatchLengthFacts
  <2>2. PICK front : front = SubSeq(pending, 1, n)
    OBVIOUS
  <2>3. PICK back : back = SubSeq(pending, n + 1, Len(pending))
    OBVIOUS
  <2>4. /\ batch' = [batch EXCEPT ![p] = front] /\ accepted' = accepted
        /\ pending' = back
    BY <1>2, <2>1, <2>2, <2>3 DEF DrainPending, Remaining
  <2>5. Len(front) = n /\ \A i \in 1..n : front[i] = pending[i]
    <3>1. 1 = 0 + 1 /\ n = 0 + n /\ n <= Len(pending) /\ n \in Nat
      BY <1>0
    <3>2. IsSlice(front, pending, 0, n)
      BY <1>0, <2>2, <3>1, SliceFacts
    <3>3. Len(front) = n /\ \A i \in 1..n : front[i] = pending[0 + i]
      BY <3>2 DEF IsSlice
    <3> QED BY <3>3
  <2>6. /\ Len(back) = Len(pending) - n
        /\ IsSlice(back, pending, n, Len(pending) - n)
    <3>0. Len(pending) - n \in Nat
      BY <1>0
    <3>1. PICK m \in Nat : m = Len(pending) - n
      BY <3>0
    <3>2. PICK first : first = n + 1
      OBVIOUS
    <3>3. n \in Nat /\ Len(pending) = n + m /\ Len(pending) <= Len(pending)
      BY <1>0, <3>1
    <3>4. IsSlice(back, pending, n, m)
      BY <1>0, <2>3, <3>2, <3>3, SliceFacts
    <3> QED BY <3>1, <3>4 DEF IsSlice
  <2>7. Taken' = Taken + n
    <3>1. Taken' = Len(accepted) - Len(back)
      BY <2>4 DEF Taken
    <3>2. Len(back) = Len(pending) - n /\ n \in Nat
      BY <2>6
    <3>3. Taken' = Len(accepted) - (Len(pending) - n)
      BY <3>1, <3>2
    <3>4. \A t, lp, la \in Nat : t + lp = la => la - (lp - n) = t + n
      BY <3>2
    <3> QED BY <1>0, <3>3, <3>4
  <2>8. Len(pending') <= Len(accepted')
    BY <1>0, <2>4, <2>6
  <2>9. IsSlice(back, accepted, Taken + n, Len(back))
    <3> SUFFICES ASSUME NEW i \in 1..Len(back)
                 PROVE  back[i] = accepted[(Taken + n) + i]
      BY DEF IsSlice
    <3>1. i \in 1..(Len(pending) - n) /\ n + i \in 1..Len(pending)
      BY <1>0, <2>6
    <3>2. (Taken + n) + i = Taken + (n + i)
      BY <1>0, <3>1
    <3>3. back[i] = accepted[Taken + (n + i)]
      BY <2>6, <3>1 DEF InOrder, IsSlice
    <3> QED BY <3>2, <3>3
  <2>10. ASSUME NEW q \in Handlers
        PROVE  \E k \in 0..Taken' :
                 /\ k + Len(batch'[q]) <= Taken'
                 /\ IsSlice(batch'[q], accepted, k, Len(batch'[q]))
    <3>1. CASE q = p
      <4>1. batch'[q] = front
        BY <1>0, <2>4, <3>1
      <4>2. Taken \in 0..Taken' /\ Taken + n <= Taken'
        BY <1>0, <2>7
      <4>3. IsSlice(front, accepted, Taken, Len(front))
        <5> SUFFICES ASSUME NEW i \in 1..Len(front)
                     PROVE  front[i] = accepted[Taken + i]
          BY DEF IsSlice
        <5>1. i \in 1..Len(pending) /\ front[i] = pending[i]
          BY <1>0, <2>5
        <5> QED BY <5>1 DEF InOrder, IsSlice
      <4> QED BY <2>5, <4>1, <4>2, <4>3
    <3>2. CASE q # p
      <4>1. batch'[q] = batch[q]
        BY <2>4, <3>2
      <4>2. PICK k \in 0..Taken :
              /\ k + Len(batch[q]) <= Taken
              /\ IsSlice(batch[q], accepted, k, Len(batch[q]))
        BY DEF InOrder
      <4>3. k \in 0..Taken' /\ k + Len(batch[q]) <= Taken'
        BY <1>0, <2>7, <4>2
      <4> QED BY <4>1, <4>2, <4>3
    <3> QED BY <3>1, <3>2
  <2> QED BY <2>4, <2>7, <2>8, <2>9, <2>10 DEF InOrder
<1>3. CASE UNCHANGED <<accepted, pending, batch>>
  BY <1>3 DEF InOrder, Taken
<1> QED BY <1>1, <1>2, <1>3, OtherStepsMoveNoVote

LEMMA OrderImplies == TypeOK /\ InOrder => AcceptanceOrder
<1> SUFFICES ASSUME TypeOK, InOrder PROVE AcceptanceOrder
  OBVIOUS
<1>1. /\ pending \in Seq(Valid) /\ accepted \in Seq(Valid)
      /\ Len(pending) \in Nat /\ Len(accepted) \in Nat
      /\ Taken \in Nat /\ Taken + Len(pending) = Len(accepted)
      /\ \A p \in Handlers : batch[p] \in Seq(Valid) /\ Len(batch[p]) \in Nat
  BY OrderTypes
<1>2. pending = SubSeq(accepted, Taken + 1, Len(accepted))
  <2>1. /\ IsSlice(pending, accepted, Taken, Len(pending))
        /\ Taken + Len(pending) <= Len(accepted)
    BY <1>1 DEF InOrder
  <2>2. pending = SubSeq(accepted, Taken + 1, Taken + Len(pending))
    BY <1>1, <2>1, SliceIsSubSeq
  <2> QED BY <1>1, <2>2
<1>3. ASSUME NEW p \in Handlers
      PROVE  \E k \in 0..Taken :
               /\ k + Len(batch[p]) <= Taken
               /\ batch[p] = SubSeq(accepted, k + 1, k + Len(batch[p]))
  <2>1. PICK k \in 0..Taken :
          /\ k + Len(batch[p]) <= Taken
          /\ IsSlice(batch[p], accepted, k, Len(batch[p]))
    BY DEF InOrder
  <2>2. k \in Nat /\ k + Len(batch[p]) <= Len(accepted)
    BY <1>1, <2>1
  <2>3. batch[p] \in Seq(Valid)
    BY <1>1
  <2>4. batch[p] = SubSeq(accepted, k + 1, k + Len(batch[p]))
    BY <1>1, <2>1, <2>2, <2>3, SliceIsSubSeq
  <2> QED BY <2>1, <2>4
<1> QED BY <1>2, <1>3 DEF AcceptanceOrder, Taken

(* Votes leave the queue in the order of acceptance: every batch is a run  *)
(* of consecutive accepted votes and the queue is the rest, whatever the   *)
(* handlers that push and drain at the same time (handler.rs:323,          *)
(* batches.rs:25).                                                         *)
THEOREM VotesKeepOrder == Spec => []AcceptanceOrder
<1> DEFINE Inv == TypeOK /\ InOrder
<1>1. Init => Inv
  BY InitType, InitOrder
<1>2. Inv /\ [Next]_vars => Inv'
  BY StepType, StepOrder
<1>3. Inv => AcceptanceOrder
  BY OrderImplies
<1> QED BY <1>1, <1>2, <1>3, PTL DEF Spec

-----------------------------------------------------------------------------
(* Receipts *)

\* The receipt rc of the hash h is about a vote of the batch b.
Describes(rc, h, b) ==
  /\ rc.batch_id = BatchId(b.batch_index, b.votes)
  /\ rc.merkle_root = merkle_root(Leaves(b.votes))
  /\ rc.leaf_index \in DOMAIN b.votes
  /\ vote_of[b.votes[rc.leaf_index]].encrypted_vote_hash = h
  /\ rc.leaf_hash = vote_of[b.votes[rc.leaf_index]]

HasReceipts(p) ==
  \A r \in Range(batch[p]) : vote_of[r].encrypted_vote_hash \in DOMAIN receipts

\* Receipts of stored batches, receipts for every batch on its way to the
\* chain, and no receipts before the batch is stored.
ReceiptsInv ==
  /\ \A h \in DOMAIN receipts :
       \E i \in DOMAIN batches : Describes(receipts[h], h, batches[i])
  /\ \A p \in Handlers :
       pc[p] \in {"submit", "join"} \/ transaction[p] # "none" => HasReceipts(p)
  /\ \A p \in Handlers : pc[p] = "receipts" =>
       \E i \in DOMAIN batches :
         batches[i] = [batch_index |-> batch_index[p], votes |-> batch[p]]

LEMMA ReceiptsInvImplies == ReceiptsInv => ReceiptsMatchBatches
  BY DEF ReceiptsInv, ReceiptsMatchBatches, Describes, HasReceipts

LEMMA InitReceipts == Init => ReceiptsInv
<1> SUFFICES ASSUME Init PROVE ReceiptsInv
  OBVIOUS
<1>1. DOMAIN receipts = {}
  BY DEF Init
<1>2. \A p \in Handlers : pc[p] = "new" /\ transaction[p] = "none"
  BY DEF Init, Requests
<1> QED BY <1>1, <1>2 DEF ReceiptsInv

(* Batches stay where they are stored.                                     *)
LEMMA BatchesStay ==
  ASSUME TypeOK, [Next]_vars
  PROVE  \A i \in DOMAIN batches :
           i \in DOMAIN batches' /\ batches'[i] = batches[i]
<1>1. batches' = batches \/ \E p \in Handlers : StoreBatch(p)
  <2>1. \A r \in VoteRequests : CheckOpen(r) \/ RejectInvalid(r) \/ StoreVote(r)
          => batches' = batches
    BY DEF CheckOpen, RejectInvalid, StoreVote
  <2>2. \A q \in FlushRequests : StartFlush(q) => batches' = batches
    BY DEF StartFlush
  <2>3. \A p \in Handlers :
          DrainPending(p) \/ ReadBatchIndex(p) \/ SubmitRollup(p)
            \/ JoinRollup(p) => batches' = batches
    BY DEF DrainPending, ReadBatchIndex, SubmitRollup, JoinRollup
  <2>4. \A p \in Handlers : StoreReceipts(p) \/ LandRollup(p)
          => batches' = batches
    BY DEF StoreReceipts, LandRollup
  <2>5. \A c \in CloseRequests : CloseOnChain(c) \/ SetClosedFlag(c)
          => batches' = batches
    BY DEF CloseOnChain, SetClosedFlag
  <2> QED BY <2>1, <2>2, <2>3, <2>4, <2>5 DEF Next, CreateBatch, vars
<1>2. ASSUME NEW p \in Handlers, StoreBatch(p)
      PROVE  \A i \in DOMAIN batches :
               i \in DOMAIN batches' /\ batches'[i] = batches[i]
  <2>1. PICK new : batches' = Append(batches, new)
    BY <1>2 DEF StoreBatch
  <2>2. PICK S : batches \in Seq(S)
    BY DEF TypeOK
  <2> QED BY <2>1, <2>2
<1> QED BY <1>1, <1>2

(* The receipts of a step that writes none stay right.                     *)
LEMMA OldReceipts ==
  ASSUME TypeOK, ReceiptsInv, [Next]_vars, NEW h \in DOMAIN receipts
  PROVE  \E i \in DOMAIN batches' : Describes(receipts[h], h, batches'[i])
<1>1. PICK i \in DOMAIN batches : Describes(receipts[h], h, batches[i])
  BY DEF ReceiptsInv
<1>2. i \in DOMAIN batches' /\ batches'[i] = batches[i]
  BY BatchesStay
<1> QED BY <1>1, <1>2

LEMMA StoreReceiptsStep ==
  ASSUME TypeOK, Phases, ReceiptsInv, NEW p \in Handlers, StoreReceipts(p)
  PROVE  ReceiptsInv'
<1> DEFINE hash(i) == vote_of[batch[p][i]].encrypted_vote_hash
           last(h) == CHOOSE i \in DOMAIN batch[p] :
                        /\ hash(i) = h
                        /\ \A j \in DOMAIN batch[p] : hash(j) = h => j <= i
           new     == {hash(i) : i \in DOMAIN batch[p]}
<1>0. [Next]_vars
  BY DEF Next, CreateBatch
<1>1. /\ pc[p] = "receipts" /\ pc' = [pc EXCEPT ![p] = "submit"]
      /\ UNCHANGED <<batch, batch_index, batches, transaction>>
      /\ receipts' = [h \in DOMAIN receipts \cup new |->
                        IF h \in new
                        THEN Receipt(batch_index[p], batch[p], last(h))
                        ELSE receipts[h]]
  BY DEF StoreReceipts
<1>2. /\ pc \in [Requests -> Step] /\ p \in Requests
      /\ batch[p] \in Seq(Valid)
  BY DEF TypeOK, Requests
<1>3. ASSUME NEW h \in new
      PROVE  last(h) \in DOMAIN batch[p] /\ hash(last(h)) = h
  <2> DEFINE T == {i \in DOMAIN batch[p] : hash(i) = h}
  <2>1. T # {} /\ T \subseteq DOMAIN batch[p]
    OBVIOUS
  <2> HIDE DEF hash
  <2>2. \E i \in T : \A j \in T : j <= i
    <3> HIDE DEF T
    <3> QED BY <1>2, <2>1, LastPosition
  <2>3. \E i \in DOMAIN batch[p] :
          hash(i) = h /\ \A j \in DOMAIN batch[p] : hash(j) = h => j <= i
    BY <2>2
  <2> QED BY <2>3
<1> HIDE DEF last
<1>4. \A h \in DOMAIN receipts' :
        \E i \in DOMAIN batches' : Describes(receipts'[h], h, batches'[i])
  <2> TAKE h \in DOMAIN receipts'
  <2>1. CASE h \in new
    <3>1. PICK i \in DOMAIN batches :
            batches[i] = [batch_index |-> batch_index[p], votes |-> batch[p]]
      BY <1>1 DEF ReceiptsInv
    <3>2. receipts'[h] = Receipt(batch_index[p], batch[p], last(h))
      BY <1>1, <2>1
    <3>3. PICK l \in DOMAIN batch[p] : l = last(h) /\ hash(l) = h
      BY <1>3, <2>1
    <3>4. Describes(receipts'[h], h, batches[i])
      BY <3>1, <3>2, <3>3 DEF Describes, Receipt, Leaves
    <3> QED BY <1>1, <3>1, <3>4
  <2>2. CASE h \notin new
    <3>1. h \in DOMAIN receipts /\ receipts'[h] = receipts[h]
      BY <1>1, <2>2
    <3> QED BY <1>0, <3>1, OldReceipts
  <2> QED BY <2>1, <2>2
<1>5. DOMAIN receipts' = DOMAIN receipts \cup new
  BY <1>1
<1>6. ASSUME NEW q \in Handlers,
             pc'[q] \in {"submit", "join"} \/ transaction'[q] # "none"
      PROVE  HasReceipts(q)'
  <2>1. CASE q = p
    <3>1. \A r \in Range(batch[p]) : vote_of[r].encrypted_vote_hash \in new
      BY DEF Range
    <3> HIDE DEF new
    <3> QED BY <1>1, <1>5, <2>1, <3>1 DEF HasReceipts
  <2>2. CASE q # p
    <3>1. HasReceipts(q)
      BY <1>1, <1>2, <1>6, <2>2 DEF ReceiptsInv
    <3> HIDE DEF new
    <3> QED BY <1>1, <1>5, <3>1 DEF HasReceipts
  <2> QED BY <2>1, <2>2
<1>7. ASSUME NEW q \in Handlers, pc'[q] = "receipts"
      PROVE  \E i \in DOMAIN batches' : batches'[i] =
               [batch_index |-> batch_index'[q], votes |-> batch'[q]]
  <2>1. pc[q] = "receipts"
    BY <1>1, <1>2, <1>7
  <2> QED BY <1>1, <2>1 DEF ReceiptsInv
<1> QED BY <1>4, <1>6, <1>7 DEF ReceiptsInv

\* A step that writes no receipts and moves no handler to where it needs some.
LEMMA OtherReceiptsStep ==
  ASSUME TypeOK, ReceiptsInv, [Next]_vars, receipts' = receipts,
         \A p \in Handlers :
           pc'[p] \in {"submit", "join"} \/ transaction'[p] # "none" =>
             /\ pc[p] \in {"submit", "join"} \/ transaction[p] # "none"
             /\ batch'[p] = batch[p],
         \A p \in Handlers : pc'[p] = "receipts" =>
           \/ /\ pc[p] = "receipts"
              /\ batch'[p] = batch[p] /\ batch_index'[p] = batch_index[p]
           \/ \E i \in DOMAIN batches' : batches'[i] =
                [batch_index |-> batch_index'[p], votes |-> batch'[p]]
  PROVE  ReceiptsInv'
<1>1. \A h \in DOMAIN receipts' :
        \E i \in DOMAIN batches' : Describes(receipts'[h], h, batches'[i])
  BY OldReceipts
<1>2. ASSUME NEW p \in Handlers,
             pc'[p] \in {"submit", "join"} \/ transaction'[p] # "none"
      PROVE  HasReceipts(p)'
  <2>1. HasReceipts(p) /\ batch'[p] = batch[p]
    BY <1>2 DEF ReceiptsInv
  <2> QED BY <2>1 DEF HasReceipts
<1>3. ASSUME NEW p \in Handlers, pc'[p] = "receipts"
      PROVE  \E i \in DOMAIN batches' : batches'[i] =
               [batch_index |-> batch_index'[p], votes |-> batch'[p]]
  <2>1. CASE /\ pc[p] = "receipts"
             /\ batch'[p] = batch[p] /\ batch_index'[p] = batch_index[p]
    <3>1. PICK i \in DOMAIN batches :
            batches[i] = [batch_index |-> batch_index[p], votes |-> batch[p]]
      BY <2>1 DEF ReceiptsInv
    <3> QED BY <2>1, <3>1, BatchesStay
  <2> QED BY <1>3, <2>1
<1> QED BY <1>1, <1>2, <1>3 DEF ReceiptsInv

LEMMA StepReceipts ==
  TypeOK /\ Phases /\ ReceiptsInv /\ [Next]_vars => ReceiptsInv'
<1> SUFFICES ASSUME TypeOK, Phases, ReceiptsInv, [Next]_vars PROVE ReceiptsInv'
  OBVIOUS
<1> DEFINE
      Keeps == receipts' = receipts
      Sends == \A p \in Handlers :
                 pc'[p] \in {"submit", "join"} \/ transaction'[p] # "none" =>
                   /\ pc[p] \in {"submit", "join"} \/ transaction[p] # "none"
                   /\ batch'[p] = batch[p]
      Stores == \A p \in Handlers : pc'[p] = "receipts" =>
           \/ /\ pc[p] = "receipts"
              /\ batch'[p] = batch[p] /\ batch_index'[p] = batch_index[p]
           \/ \E i \in DOMAIN batches' : batches'[i] =
                [batch_index |-> batch_index'[p], votes |-> batch'[p]]
<1>0. /\ pc \in [Requests -> Step] /\ batch \in [Handlers -> Seq(Valid)]
      /\ transaction \in [Handlers -> {"none", "sent", "landed", "failed"}]
      /\ batch_index \in [Handlers -> Nat]
      /\ batches \in Seq([batch_index : Nat, votes : Seq(Valid)])
      /\ Handlers \subseteq Requests
  BY DEF TypeOK, Requests
<1> USE <1>0 DEF Requests, Handlers
<1>1. ASSUME NEW r \in VoteRequests, CheckOpen(r) \/ RejectInvalid(r)
      PROVE  Keeps /\ Sends /\ Stores
  BY <1>1 DEF CheckOpen, RejectInvalid
<1>2. ASSUME NEW r \in VoteRequests, StoreVote(r) PROVE Keeps /\ Sends /\ Stores
  <2>1. pc' = [pc EXCEPT ![r] = "drain"] \/ pc' = [pc EXCEPT ![r] = "done"]
    BY <1>2 DEF StoreVote
  <2>2. UNCHANGED <<receipts, transaction, batch, batch_index>>
    BY <1>2 DEF StoreVote
  <2> QED BY <2>1, <2>2
<1>3. ASSUME NEW q \in FlushRequests, StartFlush(q)
      PROVE  Keeps /\ Sends /\ Stores
  BY <1>3 DEF StartFlush
<1>4. ASSUME NEW p \in Handlers, DrainPending(p) PROVE Keeps /\ Sends /\ Stores
  <2>1. pc' = [pc EXCEPT ![p] = "done"] \/ pc' = [pc EXCEPT ![p] = "index"]
    BY <1>4 DEF DrainPending, AfterDrain
  <2>2. /\ UNCHANGED <<receipts, transaction, batch_index>> /\ pc[p] = "drain"
        /\ \A q \in Handlers \ {p} : batch'[q] = batch[q]
    BY <1>4 DEF DrainPending
  <2>3. transaction[p] = "none"
    BY <2>2 DEF Phases
  <2> QED BY <2>1, <2>2, <2>3
<1>5. ASSUME NEW p \in Handlers, ReadBatchIndex(p)
      PROVE  Keeps /\ Sends /\ Stores
  <2>1. /\ UNCHANGED <<receipts, transaction, batch>> /\ pc[p] = "index"
        /\ pc' = [pc EXCEPT ![p] = "store"]
        /\ \A q \in Handlers \ {p} : batch_index'[q] = batch_index[q]
    BY <1>5 DEF ReadBatchIndex
  <2> QED BY <2>1
<1>6. ASSUME NEW p \in Handlers, StoreBatch(p) PROVE Keeps /\ Sends /\ Stores
  <2>1. PICK new : new = [batch_index |-> batch_index[p], votes |-> batch[p]]
    OBVIOUS
  <2>2. /\ UNCHANGED <<receipts, transaction, batch, batch_index>>
        /\ pc[p] = "store" /\ pc' = [pc EXCEPT ![p] = "receipts"]
        /\ batches' = Append(batches, new)
    BY <1>6, <2>1 DEF StoreBatch
  <2>3. \E i \in DOMAIN batches' : batches'[i] = new
    <3>1. PICK S : batches \in Seq(S) /\ new \in S
      <4>1. PICK S : S = [batch_index : Nat, votes : Seq(Valid)]
        OBVIOUS
      <4>2. new \in S
        BY <2>1, <4>1
      <4> QED BY <4>1, <4>2
    <3>2. /\ Len(batches) + 1 \in DOMAIN batches'
          /\ batches'[Len(batches) + 1] = new
      BY <2>2, <3>1
    <3> QED BY <3>2
  <2> QED BY <2>1, <2>2, <2>3
<1>7. ASSUME NEW p \in Handlers, SubmitRollup(p) PROVE Keeps /\ Sends /\ Stores
  <2>1. /\ UNCHANGED <<receipts, batch, batch_index>>
        /\ pc[p] = "submit" /\ pc' = [pc EXCEPT ![p] = "join"]
        /\ \A q \in Handlers \ {p} : transaction'[q] = transaction[q]
    BY <1>7 DEF SubmitRollup
  <2> QED BY <2>1
<1>8. ASSUME NEW p \in Handlers, JoinRollup(p) PROVE Keeps /\ Sends /\ Stores
  BY <1>8 DEF JoinRollup
<1>9. ASSUME NEW p \in Handlers, LandRollup(p) PROVE Keeps /\ Sends /\ Stores
  <2>1. /\ UNCHANGED <<receipts, batch, batch_index, pc>>
        /\ transaction[p] = "sent"
        /\ \A q \in Handlers \ {p} : transaction'[q] = transaction[q]
    BY <1>9 DEF LandRollup
  <2> QED BY <2>1
<1>10. ASSUME NEW c \in CloseRequests, CloseOnChain(c) \/ SetClosedFlag(c)
       PROVE  Keeps /\ Sends /\ Stores
  <2>1. /\ \E s \in {"flag", "done"} : pc' = [pc EXCEPT ![c] = s]
        /\ UNCHANGED <<receipts, transaction, batch, batch_index>>
    BY <1>10 DEF CloseOnChain, SetClosedFlag
  <2>2. \A p \in Handlers : pc'[p] = pc[p]
    BY <2>1, PipelineAssumption
  <2> QED BY <2>1, <2>2
<1>11. ASSUME UNCHANGED vars PROVE Keeps /\ Sends /\ Stores
  BY <1>11 DEF vars
<1>12. ASSUME Keeps /\ Sends /\ Stores PROVE ReceiptsInv'
  BY <1>12, OtherReceiptsStep
<1>13. \A p \in Handlers : StoreReceipts(p) => ReceiptsInv'
  BY StoreReceiptsStep
<1> HIDE DEF Keeps, Sends, Stores
<1>14. (Keeps /\ Sends /\ Stores) \/ \E p \in Handlers : StoreReceipts(p)
  BY <1>1, <1>2, <1>3, <1>4, <1>5, <1>6, <1>7, <1>8, <1>9, <1>10, <1>11
     DEF Next, CreateBatch
<1> QED BY <1>12, <1>13, <1>14

(* Every receipt names a stored batch and a vote in it, and no batch is    *)
(* sent to the chain before all its votes have receipts, although          *)
(* handlers overwrite the receipts of equal hashes (batches.rs:120-130).   *)
THEOREM ReceiptsAreRight == Spec => []ReceiptsMatchBatches
<1> DEFINE Inv == TypeOK /\ Phases /\ ReceiptsInv
<1>1. Init => Inv
  BY InitType, InitPhases, InitReceipts
<1>2. Inv /\ [Next]_vars => Inv'
  BY StepType, StepPhases, StepReceipts
<1>3. Inv => ReceiptsMatchBatches
  BY ReceiptsInvImplies
<1> QED BY <1>1, <1>2, <1>3, PTL DEF Spec

\* The root of a batch tells its votes, given how many they are: what
\* MerkleTreeProofs proves of the Merkle tree over a hash without collisions.
RootsTellVotes ==
  \A s, t \in Seq({vote_of[r] : r \in Valid}) :
    Len(s) = Len(t) /\ merkle_root(s) = merkle_root(t) => s = t

(* Then two batches never share an id, although handlers that run at the   *)
(* same time may give theirs the same index (batches.rs:42-58).            *)
THEOREM BatchIdsTellBatches ==
  ASSUME RootsTellVotes PROVE Spec => []BatchIdIdentifiesContent
<1>1. TypeOK => BatchIdIdentifiesContent
  <2> SUFFICES ASSUME TypeOK,
                      NEW i \in DOMAIN batches, NEW j \in DOMAIN batches,
                      BatchId(batches[i].batch_index, batches[i].votes) =
                        BatchId(batches[j].batch_index, batches[j].votes)
               PROVE  Leaves(batches[i].votes) = Leaves(batches[j].votes)
    BY DEF BatchIdIdentifiesContent
  <2> DEFINE V == {vote_of[r] : r \in Valid}
  <2>1. ASSUME NEW s \in Seq(Valid)
        PROVE  Leaves(s) \in Seq(V) /\ Len(Leaves(s)) = Len(s)
    <3>1. DOMAIN s = 1..Len(s) /\ Len(s) \in Nat
      OBVIOUS
    <3>2. Leaves(s) \in [1..Len(s) -> V]
      BY <3>1 DEF Leaves
    <3> HIDE DEF V
    <3>3. \A n \in Nat : \A f \in [1..n -> V] : f \in Seq(V) /\ Len(f) = n
      OBVIOUS
    <3> QED BY <3>1, <3>2, <3>3
  <2>2. batches[i].votes \in Seq(Valid) /\ batches[j].votes \in Seq(Valid)
    <3>1. PICK B : B = [batch_index : Nat, votes : Seq(Valid)]
      OBVIOUS
    <3>2. batches \in Seq(B)
      BY <3>1 DEF TypeOK
    <3>3. batches[i] \in B /\ batches[j] \in B
      BY <3>2
    <3> QED BY <3>1, <3>3
  <2>3. /\ merkle_root(Leaves(batches[i].votes)) =
             merkle_root(Leaves(batches[j].votes))
        /\ Len(batches[i].votes) = Len(batches[j].votes)
    BY DEF BatchId
  <2>4. PICK s, t : s = Leaves(batches[i].votes) /\ t = Leaves(batches[j].votes)
    OBVIOUS
  <2>5. s \in Seq(V) /\ t \in Seq(V) /\ Len(s) = Len(t)
    BY <2>1, <2>2, <2>3, <2>4
  <2>6. merkle_root(s) = merkle_root(t)
    BY <2>3, <2>4
  <2>7. s = t
    BY <2>5, <2>6 DEF RootsTellVotes
  <2> QED BY <2>4, <2>7
<1> QED BY <1>1, TypeCorrect, PTL

-----------------------------------------------------------------------------
(* The ledger *)

\* The refinement mapping.
StatusBar == [r \in VoteRequests |-> LedgerStatus(r)]

OpenBar == {Range(batch[p]) : p \in {q \in Handlers :
              batch[q] # <<>> /\ transaction[q] \in {"none", "sent"}}}

(* FiniteSets as the ledger sees it.                                       *)
LEMMA SameCardinality ==
  ASSUME NEW S PROVE Ledger!Cardinality(S) = Cardinality(S)
  BY DEF Cardinality, Ledger!Cardinality

LEMMA InitLedger == Init => Ledger!Init
<1> SUFFICES ASSUME Init PROVE Ledger!Init
  OBVIOUS
<1>1. StatusBar = [v \in VoteRequests |-> "new"]
  <2>1. Range(pending) = {} /\ \A p \in Handlers : Range(batch[p]) = {}
    BY DEF Init, Range
  <2>2. Drained = {}
    BY <2>1 DEF Drained
  <2>3. \A r \in VoteRequests : pc[r] = "new"
    BY DEF Init, Requests, Handlers
  <2>4. \A r \in VoteRequests : LedgerStatus(r) = "new"
    BY <2>1, <2>2, <2>3 DEF LedgerStatus
  <2> QED BY <2>4 DEF StatusBar
<1>2. OpenBar = {}
  BY DEF Init, OpenBar
<1>3. ballot.encrypted_tally = [i \in 1..Cardinality(Movies) |-> 0]
  <2>1. proposal_count \in Nat
    BY PipelineAssumption, WidthAssumption
  <2>2. Cardinality(Movies) = proposal_count
    <3>1. 0 \in Int /\ proposal_count - 1 \in Int
      BY <2>1
    <3>2. Cardinality(0..(proposal_count - 1)) =
            IF 0 > proposal_count - 1 THEN 0 ELSE (proposal_count - 1) - 0 + 1
      BY <3>1, FS_Interval
    <3> QED BY <2>1, <3>2 DEF Movies
  <2>3. ballot.encrypted_tally = [p \in 1..proposal_count |-> 0]
    BY DEF Init, NewBallot
  <2> QED BY <2>2, <2>3
<1>4. Ledger!Cardinality(Movies) = Cardinality(Movies)
  BY SameCardinality
<1> QED BY <1>1, <1>2, <1>3, <1>4 DEF Ledger!Init, StatusBar, OpenBar

\* What a transaction makes of the votes of its batch.
Fate(t) == CASE t = "landed" -> "counted"
             [] t = "failed" -> "lost"
             [] OTHER -> "batched"

\* The status of a vote by where it is.
Mapped ==
  /\ StatusBar = [r \in VoteRequests |-> StatusBar[r]]
  /\ \A r \in VoteRequests :
       /\ pc[r] = "rejected" => StatusBar[r] = "rejected"
       /\ pc[r] # "rejected" /\ r \notin Range(accepted) => StatusBar[r] = "new"
       /\ r \in Range(pending) => StatusBar[r] = "queued"
       /\ \A p \in Handlers :
            r \in Range(batch[p]) => StatusBar[r] = Fate(transaction[p])

\* The invariant the mapping rests on.
PathInv == TypeOK /\ Phases /\ EachVoteInOnePlace

(* A vote in a batch is in one batch only, so that the mapping has no       *)
(* choice.                                                                 *)
LEMMA StatusMapped == PathInv => Mapped
<1> SUFFICES ASSUME PathInv PROVE Mapped
  OBVIOUS
<1> USE DEF PathInv
<1>1. StatusBar = [r \in VoteRequests |-> StatusBar[r]]
  BY DEF StatusBar
<1>2. ASSUME NEW r \in VoteRequests
      PROVE  /\ StatusBar[r] = LedgerStatus(r)
             /\ pc[r] = "rejected" => r \notin Range(accepted)
             /\ Range(accepted) = Range(pending) \cup Drained
  BY DEF StatusBar, Phases, Undecided, EachVoteInOnePlace
<1>3. ASSUME NEW r \in VoteRequests
      PROVE  /\ pc[r] = "rejected" => StatusBar[r] = "rejected"
             /\ pc[r] # "rejected" /\ r \notin Range(accepted) =>
                  StatusBar[r] = "new"
             /\ r \in Range(pending) => StatusBar[r] = "queued"
  <2>1. pc[r] = "rejected" => LedgerStatus(r) = "rejected"
    BY DEF LedgerStatus
  <2>2. pc[r] # "rejected" /\ r \notin Range(pending) /\ r \notin Drained =>
          LedgerStatus(r) = "new"
    BY DEF LedgerStatus
  <2>3. pc[r] # "rejected" /\ r \in Range(pending) => LedgerStatus(r) = "queued"
    BY DEF LedgerStatus
  <2> QED BY <1>2, <2>1, <2>2, <2>3
<1>4. ASSUME NEW r \in VoteRequests, NEW p \in Handlers, r \in Range(batch[p])
      PROVE  StatusBar[r] = Fate(transaction[p])
  <2>1. r \in Drained
    BY <1>4 DEF Drained
  <2>2. pc[r] # "rejected" /\ r \notin Range(pending)
    BY <1>2, <1>4, <2>1 DEF EachVoteInOnePlace
  <2>3. (CHOOSE q \in Handlers : r \in Range(batch[q])) = p
    <3>1. \A q \in Handlers : r \in Range(batch[q]) => q = p
      BY <1>4 DEF EachVoteInOnePlace
    <3> QED BY <1>4, <3>1
  <2>4. LedgerStatus(r) =
          Fate(transaction[CHOOSE q \in Handlers : r \in Range(batch[q])])
    BY <2>1, <2>2, Zenon DEF LedgerStatus, Fate
  <2> QED BY <1>2, <2>3, <2>4
<1> QED BY <1>1, <1>3, <1>4 DEF Mapped

-----------------------------------------------------------------------------
(* The steps of the ledger, in terms of the mapping *)

MarkBar(S, s) == [v \in VoteRequests |-> IF v \in S THEN s ELSE StatusBar[v]]

LEMMA LedgerDecides ==
  ASSUME NEW v \in VoteRequests, StatusBar[v] = "new",
         NEW s \in {"rejected", "queued"}, StatusBar' = MarkBar({v}, s),
         OpenBar' = OpenBar, ballot'.encrypted_tally = ballot.encrypted_tally
  PROVE  Ledger!Next
<1>1. Ledger!Decide(v)
  BY DEF Ledger!Decide, Ledger!Mark, MarkBar, StatusBar, OpenBar
<1> QED BY <1>1 DEF Ledger!Next

LEMMA LedgerTakes ==
  ASSUME NEW S \in SUBSET VoteRequests, S # {},
         Cardinality(S) <= MAX_BATCH_SIZE,
         \A v \in S : StatusBar[v] = "queued",
         StatusBar' = MarkBar(S, "batched"), OpenBar' = OpenBar \cup {S},
         ballot'.encrypted_tally = ballot.encrypted_tally
  PROVE  Ledger!Next
<1>1. Ledger!Cardinality(S) <= MAX_BATCH_SIZE
  BY SameCardinality
<1>2. Ledger!TakeBatch(S)
  BY <1>1 DEF Ledger!TakeBatch, Ledger!Mark, MarkBar, StatusBar, OpenBar
<1> QED BY <1>2 DEF Ledger!Next

LEMMA LedgerLoses ==
  ASSUME NEW S \in SUBSET VoteRequests, S \in OpenBar,
         StatusBar' = MarkBar(S, "lost"), OpenBar' = OpenBar \ {S},
         ballot'.encrypted_tally = ballot.encrypted_tally
  PROVE  Ledger!Next
<1>1. Ledger!LoseBatch(S)
  BY DEF Ledger!LoseBatch, Ledger!Mark, MarkBar, StatusBar, OpenBar
<1> QED BY <1>1 DEF Ledger!Next

LEMMA LedgerCounts ==
  ASSUME NEW S \in SUBSET VoteRequests, S \in OpenBar,
         StatusBar' = MarkBar(S, "counted"), OpenBar' = OpenBar \ {S},
         ballot'.encrypted_tally =
           [i \in DOMAIN ballot.encrypted_tally |->
              ballot.encrypted_tally[i] +
                Cardinality({v \in S : vote_of[v].movie_index = i - 1})]
  PROVE  Ledger!Next
<1>1. \A T : Ledger!Cardinality(T) = Cardinality(T)
  BY SameCardinality
<1>2. Ledger!CountBatch(S)
  BY <1>1 DEF Ledger!CountBatch, Ledger!Mark, MarkBar, StatusBar, OpenBar
<1> QED BY <1>2 DEF Ledger!Next

LEMMA LedgerStutters ==
  ASSUME StatusBar' = StatusBar, OpenBar' = OpenBar,
         ballot'.encrypted_tally = ballot.encrypted_tally
  PROVE  UNCHANGED Ledger!vars
  BY DEF Ledger!vars, StatusBar, OpenBar

-----------------------------------------------------------------------------
(* The steps of the handlers, in terms of the ledger *)

\* A transaction is sent for a batch, never for nothing.
Submitted == \A p \in Handlers : transaction[p] # "none" => batch[p] # <<>>

\* What no step changes but those that decide a vote, take a batch or settle
\* its transaction.
KeepsLedger ==
  /\ UNCHANGED <<accepted, pending, batch, transaction>>
  /\ ballot'.encrypted_tally = ballot.encrypted_tally
  /\ \A r \in VoteRequests : pc'[r] = "rejected" <=> pc[r] = "rejected"

LEMMA OtherStepsKeepLedger ==
  ASSUME TypeOK, [Next]_vars
  PROVE  \/ \E r \in VoteRequests :
              CheckOpen(r) \/ RejectInvalid(r) \/ StoreVote(r)
         \/ \E p \in Handlers :
              DrainPending(p) \/ SubmitRollup(p) \/ LandRollup(p)
         \/ KeepsLedger
<1>0. /\ pc \in [Requests -> Step]
      /\ ballot \in BallotAccount({chairperson}, {ballot.merkle_root})
  BY DEF TypeOK
<1>1. ASSUME NEW q \in FlushRequests, StartFlush(q) PROVE KeepsLedger
  <2>1. /\ UNCHANGED <<accepted, pending, batch, transaction, ballot>>
        /\ pc[q] = "new" /\ pc' = [pc EXCEPT ![q] = "drain"]
    BY <1>1 DEF StartFlush
  <2> QED BY <1>0, <2>1 DEF KeepsLedger, Requests, Handlers
<1>2. ASSUME NEW p \in Handlers,
             \/ ReadBatchIndex(p) \/ StoreBatch(p)
             \/ StoreReceipts(p) \/ JoinRollup(p)
      PROVE  KeepsLedger
  <2>1. /\ UNCHANGED <<accepted, pending, batch, transaction, ballot>>
        /\ pc[p] # "rejected"
        /\ \E s \in {"store", "receipts", "submit", "done"} :
             pc' = [pc EXCEPT ![p] = s]
    BY <1>2 DEF ReadBatchIndex, StoreBatch, StoreReceipts, JoinRollup
  <2> QED BY <1>0, <2>1 DEF KeepsLedger, Requests
<1>3. ASSUME NEW c \in CloseRequests, CloseOnChain(c) \/ SetClosedFlag(c)
      PROVE  KeepsLedger
  <2>1. /\ UNCHANGED <<accepted, pending, batch, transaction>>
        /\ \E s \in {"flag", "done"} : pc' = [pc EXCEPT ![c] = s]
        /\ \/ ballot' = ballot
           \/ ballot' = [ballot EXCEPT !.status = ELECTION_CLOSED]
    BY <1>3 DEF CloseOnChain, SetClosedFlag, AfterClose
  <2>2. ballot'.encrypted_tally = ballot.encrypted_tally
    BY <1>0, <2>1 DEF BallotAccount
  <2>3. \A r \in VoteRequests : pc'[r] = pc[r]
    BY <1>0, <2>1, PipelineAssumption DEF Handlers
  <2> QED BY <2>1, <2>2, <2>3 DEF KeepsLedger
<1>4. UNCHANGED vars => KeepsLedger
  BY DEF vars, KeepsLedger
<1> QED BY <1>1, <1>2, <1>3, <1>4 DEF Next, CreateBatch

LEMMA StepSubmitted ==
  TypeOK /\ Phases /\ Submitted /\ [Next]_vars => Submitted'
<1> SUFFICES ASSUME TypeOK, Phases, Submitted, [Next]_vars PROVE Submitted'
  OBVIOUS
<1>0. /\ batch \in [Handlers -> Seq(Valid)]
      /\ transaction \in [Handlers -> {"none", "sent", "landed", "failed"}]
  BY DEF TypeOK
<1>1. CASE UNCHANGED <<batch, transaction>>
  BY <1>1 DEF Submitted
<1>2. ASSUME NEW r \in VoteRequests,
             CheckOpen(r) \/ RejectInvalid(r) \/ StoreVote(r)
      PROVE  Submitted'
  BY <1>1, <1>2 DEF CheckOpen, RejectInvalid, StoreVote
<1>3. ASSUME NEW p \in Handlers, DrainPending(p) PROVE Submitted'
  <2>1. /\ pc[p] = "drain" /\ transaction' = transaction
        /\ \A q \in Handlers \ {p} : batch'[q] = batch[q]
    BY <1>0, <1>3 DEF DrainPending
  <2>2. transaction[p] = "none"
    BY <2>1 DEF Phases
  <2> QED BY <2>1, <2>2 DEF Submitted
<1>4. ASSUME NEW p \in Handlers, SubmitRollup(p) PROVE Submitted'
  <2>1. /\ pc[p] = "submit" /\ batch' = batch
        /\ \A q \in Handlers \ {p} : transaction'[q] = transaction[q]
    BY <1>0, <1>4 DEF SubmitRollup
  <2>2. batch[p] # <<>>
    BY <2>1 DEF TypeOK, Batching
  <2> QED BY <2>1, <2>2 DEF Submitted
<1>5. ASSUME NEW p \in Handlers, LandRollup(p) PROVE Submitted'
  <2>1. /\ transaction[p] = "sent" /\ batch' = batch
        /\ \A q \in Handlers \ {p} : transaction'[q] = transaction[q]
    BY <1>0, <1>5 DEF LandRollup
  <2> QED BY <2>1 DEF Submitted
<1> QED BY <1>1, <1>2, <1>3, <1>4, <1>5, OtherStepsKeepLedger DEF KeepsLedger

LEMMA FateValues ==
  /\ Fate("landed") = "counted" /\ Fate("failed") = "lost"
  /\ Fate("none") = "batched" /\ Fate("sent") = "batched"
<1>1. Fate("landed") = "counted"
  BY DEF Fate
<1>2. Fate("failed") = "lost"
  BY DEF Fate
<1>3. Fate("none") = "batched" /\ Fate("sent") = "batched"
  BY DEF Fate
<1> QED BY <1>1, <1>2, <1>3

(* Where a vote can be.                                                    *)
LEMMA WhereVoteIs ==
  ASSUME PathInv, NEW r \in VoteRequests
  PROVE  \/ pc[r] = "rejected" /\ r \notin Range(accepted)
         \/ pc[r] # "rejected" /\ r \notin Range(accepted)
         \/ r \in Range(pending) /\ r \in Range(accepted)
         \/ r \in Range(accepted) /\ \E p \in Handlers : r \in Range(batch[p])
  BY DEF PathInv, Phases, Undecided, EachVoteInOnePlace, Drained

(* A step that moves no vote and settles no transaction.                   *)
LEMMA KeepsStatus ==
  ASSUME PathInv, Mapped, Mapped', UNCHANGED <<accepted, pending, batch>>,
         \A r \in VoteRequests : pc'[r] = "rejected" <=> pc[r] = "rejected",
         \A p \in Handlers : Fate(transaction'[p]) = Fate(transaction[p])
  PROVE  StatusBar' = StatusBar
<1>1. ASSUME NEW r \in VoteRequests PROVE StatusBar'[r] = StatusBar[r]
  BY WhereVoteIs DEF Mapped
<1>2. /\ StatusBar = [r \in VoteRequests |-> StatusBar[r]]
      /\ StatusBar' = [r \in VoteRequests |-> StatusBar'[r]]
  BY DEF Mapped
<1> QED BY <1>1, <1>2

LEMMA KeepsLedgerRefines ==
  ASSUME PathInv, Mapped, Mapped', KeepsLedger
  PROVE  UNCHANGED Ledger!vars
<1>1. StatusBar' = StatusBar
  BY KeepsStatus DEF KeepsLedger
<1>2. OpenBar' = OpenBar
  BY DEF KeepsLedger, OpenBar
<1> QED BY <1>1, <1>2, LedgerStutters DEF KeepsLedger

(* A vote is decided: rejected or accepted.                                *)
LEMMA DecisionRefines ==
  ASSUME PathInv, Mapped, Mapped', NEW r \in VoteRequests,
         pc[r] # "rejected", r \notin Range(accepted),
         \A v \in VoteRequests \ {r} : pc'[v] = pc[v],
         UNCHANGED <<batch, transaction, ballot>>,
         \/ pc'[r] = "rejected" /\ UNCHANGED <<accepted, pending>>
         \/ /\ Range(accepted') = Range(accepted) \cup {r}
            /\ Range(pending') = Range(pending) \cup {r}
  PROVE  Ledger!Next
<1>1. PICK s \in {"rejected", "queued"} :
        /\ StatusBar'[r] = s
        /\ \A v \in VoteRequests \ {r} : StatusBar'[v] = StatusBar[v]
  <2>1. CASE pc'[r] = "rejected" /\ UNCHANGED <<accepted, pending>>
    <3>1. \A v \in VoteRequests \ {r} : StatusBar'[v] = StatusBar[v]
      BY <2>1, WhereVoteIs DEF Mapped
    <3> QED BY <2>1, <3>1 DEF Mapped
  <2>2. CASE /\ Range(accepted') = Range(accepted) \cup {r}
             /\ Range(pending') = Range(pending) \cup {r}
    <3>1. \A v \in VoteRequests \ {r} : StatusBar'[v] = StatusBar[v]
      BY <2>2, WhereVoteIs DEF Mapped
    <3> QED BY <2>2, <3>1 DEF Mapped
  <2> QED BY <2>1, <2>2
<1>2. StatusBar' = MarkBar({r}, s)
  <2>1. StatusBar' = [v \in VoteRequests |-> StatusBar'[v]]
    BY DEF Mapped
  <2> QED BY <1>1, <2>1 DEF MarkBar
<1>3. OpenBar' = OpenBar
  BY DEF OpenBar
<1>4. StatusBar[r] = "new"
  BY DEF Mapped
<1> QED BY <1>1, <1>2, <1>3, <1>4, LedgerDecides

\* The elements of a batch that is not empty.
LEMMA SomeVote ==
  ASSUME NEW S, NEW s \in Seq(S), s # <<>> PROVE Range(s) # {}
<1>1. 1 \in DOMAIN s
  OBVIOUS
<1> QED BY <1>1 DEF Range

(* The transaction of a batch is settled.                                  *)
LEMMA SettledBar ==
  ASSUME PathInv, Mapped, Mapped', NEW p \in Handlers, batch[p] # <<>>,
         transaction[p] \in {"none", "sent"}, NEW t \in {"landed", "failed"},
         transaction' = [transaction EXCEPT ![p] = t],
         UNCHANGED <<accepted, pending, batch>>,
         \A r \in VoteRequests : pc'[r] = "rejected" <=> pc[r] = "rejected"
  PROVE  /\ Range(batch[p]) \in SUBSET VoteRequests
         /\ Range(batch[p]) \in OpenBar
         /\ OpenBar' = OpenBar \ {Range(batch[p])}
         /\ StatusBar' = MarkBar(Range(batch[p]), Fate(t))
<1>1. /\ \A q \in Handlers : batch[q] \in Seq(Valid)
      /\ transaction \in [Handlers -> {"none", "sent", "landed", "failed"}]
  BY DEF PathInv, TypeOK
<1>2. /\ transaction'[p] = t
      /\ \A q \in Handlers \ {p} : transaction'[q] = transaction[q]
  BY <1>1
<1>3. Range(batch[p]) \in SUBSET VoteRequests
  BY <1>1, PipelineAssumption DEF Range
<1>4. Range(batch[p]) \in OpenBar
  BY DEF OpenBar
<1>5. OpenBar' = OpenBar \ {Range(batch[p])}
  <2>1. \A q \in Handlers \ {p} :
          batch[q] # <<>> => Range(batch[q]) # Range(batch[p])
    <3>1. \A q \in Handlers : batch[q] # <<>> => Range(batch[q]) # {}
      BY <1>1, SomeVote
    <3> QED BY <3>1 DEF PathInv, EachVoteInOnePlace
  <2> QED BY <1>2, <2>1 DEF OpenBar
<1>6. ASSUME NEW r \in VoteRequests
      PROVE  StatusBar'[r] = IF r \in Range(batch[p]) THEN Fate(t)
                                                     ELSE StatusBar[r]
  <2>1. CASE r \in Range(batch[p])
    BY <1>2, <2>1 DEF Mapped
  <2>2. CASE r \notin Range(batch[p])
    BY <1>2, <2>2, WhereVoteIs DEF Mapped
  <2> QED BY <2>1, <2>2
<1>7. StatusBar' = MarkBar(Range(batch[p]), Fate(t))
  <2>1. StatusBar' = [r \in VoteRequests |-> StatusBar'[r]]
    BY DEF Mapped
  <2> QED BY <1>6, <2>1 DEF MarkBar
<1> QED BY <1>3, <1>4, <1>5, <1>7

LEMMA DrainRefines ==
  ASSUME PathInv, Mapped, Mapped', NEW p \in Handlers, DrainPending(p)
  PROVE  Ledger!Next \/ UNCHANGED Ledger!vars
<1>0. /\ pending \in Seq(Valid) /\ batch \in [Handlers -> Seq(Valid)]
      /\ pc \in [Requests -> Step] /\ IsInjective(pending)
  BY DEF PathInv, TypeOK, EachVoteInOnePlace
<1>1. PICK n \in 0..Len(pending) :
        /\ n = BatchLength /\ n <= MAX_BATCH_SIZE /\ (pending # <<>> => n > 0)
  BY BatchLengthFacts DEF PathInv
<1>2. PICK front : front = SubSeq(pending, 1, n)
  OBVIOUS
<1>3. PICK back : back = SubSeq(pending, n + 1, Len(pending))
  OBVIOUS
<1>4. /\ pc[p] = "drain" /\ batch' = [batch EXCEPT ![p] = front]
      /\ pending' = back
      /\ UNCHANGED <<accepted, transaction, ballot>>
      /\ \E s \in {"done", "index"} : pc' = [pc EXCEPT ![p] = s]
  BY <1>1, <1>2, <1>3 DEF DrainPending, Remaining, AfterDrain
<1>5. /\ front \in Seq(Valid) /\ Len(front) = n /\ IsInjective(front)
      /\ Range(pending) = Range(front) \cup Range(back)
      /\ Range(front) \cap Range(back) = {}
  BY <1>0, <1>2, <1>3, SplitFacts
<1>6. /\ batch[p] = <<>> /\ transaction[p] = "none"
      /\ batch'[p] = front
      /\ \A q \in Handlers \ {p} : batch'[q] = batch[q]
  BY <1>0, <1>4 DEF PathInv, Phases, Undecided
<1>7. \A r \in VoteRequests : pc'[r] = "rejected" <=> pc[r] = "rejected"
  BY <1>0, <1>4 DEF Requests, Handlers
<1>8. ASSUME NEW r \in VoteRequests
      PROVE  StatusBar'[r] = IF r \in Range(front) THEN "batched"
                                                   ELSE StatusBar[r]
  <2>1. CASE r \in Range(front)
    BY <1>4, <1>6, <2>1, FateValues DEF Mapped
  <2>2. CASE r \notin Range(front) /\ r \in Range(pending)
    BY <1>4, <1>5, <2>2 DEF Mapped
  <2>3. CASE r \notin Range(front) /\ \E q \in Handlers : r \in Range(batch[q])
    <3>1. PICK q \in Handlers : r \in Range(batch[q])
      BY <2>3
    <3>2. q # p
      BY <1>6, <3>1 DEF Range
    <3> QED BY <1>4, <1>6, <2>3, <3>1, <3>2 DEF Mapped
  <2>4. CASE r \notin Range(front) /\ r \notin Range(accepted)
    BY <1>4, <1>7, <2>4 DEF Mapped
  <2> QED BY <2>1, <2>2, <2>3, <2>4, WhereVoteIs
<1>9. StatusBar' = MarkBar(Range(front), "batched")
  <2>1. StatusBar' = [r \in VoteRequests |-> StatusBar'[r]]
    BY DEF Mapped
  <2> QED BY <1>8, <2>1 DEF MarkBar
<1>10. CASE pending = <<>>
  <2>1. front = <<>>
    <3>1. Len(pending) = 0
      BY <1>10
    <3>2. Len(front) = 0
      BY <1>1, <1>5, <3>1
    <3> QED BY <1>5, <3>2
  <2>2. batch' = batch
    BY <1>0, <1>4, <1>6, <2>1
  <2>3. OpenBar' = OpenBar
    BY <1>4, <2>2 DEF OpenBar
  <2>4. StatusBar' = StatusBar
    <3>1. Range(front) = {}
      BY <2>1 DEF Range
    <3> QED BY <1>9, <3>1 DEF MarkBar, Mapped
  <2> QED BY <1>4, <2>3, <2>4, LedgerStutters
<1>11. CASE pending # <<>>
  <2>1. front # <<>> /\ Range(front) # {}
    <3>1. n > 0
      BY <1>1, <1>11
    <3>2. front # <<>>
      BY <1>5, <3>1
    <3> QED BY <1>5, <3>2, SomeVote
  <2>2. Range(front) \in SUBSET VoteRequests
    BY <1>5, PipelineAssumption DEF Range
  <2>3. Cardinality(Range(front)) <= MAX_BATCH_SIZE
    <3>1. Cardinality(Range(front)) = Len(front)
      BY <1>5, CountElements
    <3> QED BY <1>1, <1>5, <3>1
  <2>4. \A r \in Range(front) : StatusBar[r] = "queued"
    BY <1>5, <2>2 DEF Mapped
  <2>5. OpenBar' = OpenBar \cup {Range(front)}
    <3>1. \A q \in Handlers \ {p} :
            /\ Range(batch'[q]) = Range(batch[q])
            /\ batch'[q] # <<>> <=> batch[q] # <<>>
      BY <1>6
    <3> QED BY <1>4, <1>6, <2>1, <3>1 DEF OpenBar
  <2> QED BY <1>4, <1>9, <2>1, <2>2, <2>3, <2>4, <2>5, LedgerTakes
<1> QED BY <1>10, <1>11

LEMMA SubmitRefines ==
  ASSUME PathInv, Mapped, Mapped', NEW p \in Handlers, SubmitRollup(p)
  PROVE  Ledger!Next \/ UNCHANGED Ledger!vars
<1>1. /\ transaction \in [Handlers -> {"none", "sent", "landed", "failed"}]
      /\ pc \in [Requests -> Step]
  BY DEF PathInv, TypeOK
<1>2. PICK t \in {"sent", "failed"} :
        /\ transaction' = [transaction EXCEPT ![p] = t]
        /\ pc[p] = "submit" /\ pc' = [pc EXCEPT ![p] = "join"]
        /\ UNCHANGED <<accepted, pending, batch, ballot>>
  BY DEF SubmitRollup
<1>3. transaction[p] = "none" /\ batch[p] # <<>>
  BY <1>2 DEF PathInv, TypeOK, Phases, Batching
<1>4. \A r \in VoteRequests : pc'[r] = "rejected" <=> pc[r] = "rejected"
  BY <1>1, <1>2 DEF Requests
<1>5. CASE t = "sent"
  <2>1. \A q \in Handlers : Fate(transaction'[q]) = Fate(transaction[q])
    BY <1>1, <1>2, <1>3, <1>5, FateValues
  <2>2. StatusBar' = StatusBar
    BY <1>2, <1>4, <2>1, KeepsStatus
  <2>3. OpenBar' = OpenBar
    <3>1. \A q \in Handlers :
            transaction'[q] \in {"none", "sent"} <=>
              transaction[q] \in {"none", "sent"}
      BY <1>1, <1>2, <1>3, <1>5
    <3> QED BY <1>2, <3>1 DEF OpenBar
  <2> QED BY <1>2, <2>2, <2>3, LedgerStutters
<1>6. CASE t = "failed"
  <2>1. /\ Range(batch[p]) \in SUBSET VoteRequests
        /\ Range(batch[p]) \in OpenBar
        /\ OpenBar' = OpenBar \ {Range(batch[p])}
        /\ StatusBar' = MarkBar(Range(batch[p]), Fate(t))
    BY <1>2, <1>3, <1>4, <1>6, SettledBar
  <2> QED BY <1>2, <1>6, <2>1, LedgerLoses, FateValues
<1> QED BY <1>5, <1>6

LEMMA LandRefines ==
  ASSUME PathInv, Submitted, Mapped, Mapped', NEW p \in Handlers, LandRollup(p)
  PROVE  Ledger!Next
<1> DEFINE b == batch[p]
<1>1. /\ transaction \in [Handlers -> {"none", "sent", "landed", "failed"}]
      /\ b \in Seq(Valid) /\ IsInjective(b)
      /\ ballot \in BallotAccount({chairperson}, {ballot.merkle_root})
  BY DEF PathInv, TypeOK, EachVoteInOnePlace
<1>2. /\ transaction[p] = "sent" /\ b # <<>>
      /\ UNCHANGED <<accepted, pending, batch, pc>>
  BY DEF LandRollup, Submitted
<1>3. ASSUME NEW t \in {"landed", "failed"},
             transaction' = [transaction EXCEPT ![p] = t]
      PROVE  /\ Range(b) \in SUBSET VoteRequests
             /\ Range(b) \in OpenBar
             /\ OpenBar' = OpenBar \ {Range(b)}
             /\ StatusBar' = MarkBar(Range(b), Fate(t))
  BY <1>2, <1>3, SettledBar
<1>4. CASE ~ validate_rollup_batch(ballot, BatchTally(b), Len(b))
  <2>1. ballot' = ballot /\ transaction' = [transaction EXCEPT ![p] = "failed"]
    BY <1>4 DEF LandRollup
  <2> QED BY <1>3, <2>1, FateValues, LedgerLoses
<1>5. CASE validate_rollup_batch(ballot, BatchTally(b), Len(b))
  <2>1. /\ ballot' = AfterRollupBatch(ballot, merkle_root(Leaves(b)),
                                      BatchTally(b), Len(b))
        /\ transaction' = [transaction EXCEPT ![p] = "landed"]
    BY <1>5 DEF LandRollup
  <2>2. /\ Len(BatchTally(b)) = proposal_count
        /\ \A i \in 1..proposal_count : BatchTally(b)[i] =
             Cardinality({j \in DOMAIN b : vote_of[b[j]].movie_index = i - 1})
    BY <1>1, BatchTallyType
  <2> HIDE DEF b
  <2>3. /\ Len(ballot.encrypted_tally) = proposal_count
        /\ ballot.encrypted_tally \in Seq(Nat)
    BY <1>1, <1>5, <2>2 DEF validate_rollup_batch, BallotAccount
  <2>4. DOMAIN ballot.encrypted_tally = 1..proposal_count
    BY <2>3
  <2>5. ballot'.encrypted_tally =
          encrypted_tally_after_vote(ballot.encrypted_tally, BatchTally(b))
    BY <1>1, <2>1, RollupFields
  <2>6. ASSUME NEW i \in 1..proposal_count
        PROVE  BatchTally(b)[i] =
                 Cardinality({v \in Range(b) : vote_of[v].movie_index = i - 1})
    <3> DEFINE T == VotesFor(Valid, i - 1)
    <3>1. /\ {j \in DOMAIN b : vote_of[b[j]].movie_index = i - 1} =
               {j \in DOMAIN b : b[j] \in T}
          /\ {v \in Range(b) : vote_of[v].movie_index = i - 1} =
               {v \in Range(b) : v \in T}
      BY <1>1 DEF VotesFor, Range
    <3>2. Cardinality({v \in Range(b) : v \in T}) =
            Cardinality({j \in DOMAIN b : b[j] \in T})
      <4> HIDE DEF T
      <4> QED BY <1>1, CountPositions
    <3> QED BY <2>2, <3>1, <3>2
  <2>7. ballot'.encrypted_tally =
          [i \in DOMAIN ballot.encrypted_tally |->
             ballot.encrypted_tally[i] +
               Cardinality({v \in Range(b) : vote_of[v].movie_index = i - 1})]
    BY <2>4, <2>5, <2>6 DEF encrypted_tally_after_vote
  <2>8. /\ Range(b) \in SUBSET VoteRequests
        /\ Range(b) \in OpenBar
        /\ OpenBar' = OpenBar \ {Range(b)}
        /\ StatusBar' = MarkBar(Range(b), "counted")
    BY <1>3, <2>1, FateValues
  <2> QED BY <2>7, <2>8, LedgerCounts
<1> QED BY <1>4, <1>5

LEMMA StepLedger ==
  /\ PathInv /\ Submitted /\ Mapped /\ Mapped' /\ [Next]_vars
  => [Ledger!Next]_(Ledger!vars)
<1> SUFFICES ASSUME PathInv, Submitted, Mapped, Mapped', [Next]_vars
             PROVE  Ledger!Next \/ UNCHANGED Ledger!vars
  OBVIOUS
<1>0. /\ pc \in [Requests -> Step]
      /\ accepted \in Seq(Valid) /\ pending \in Seq(Valid)
  BY DEF PathInv, TypeOK
<1>1. ASSUME NEW r \in VoteRequests,
             CheckOpen(r) \/ RejectInvalid(r) \/ StoreVote(r)
      PROVE  Ledger!Next \/ UNCHANGED Ledger!vars
  <2>1. pc[r] # "rejected" /\ r \notin Range(accepted) /\ r \in Requests
    BY <1>1 DEF CheckOpen, RejectInvalid, StoreVote, PathInv, Phases, Undecided,
                Requests, Handlers
  <2>2. UNCHANGED <<batch, transaction, ballot>>
    BY <1>1 DEF CheckOpen, RejectInvalid, StoreVote
  <2>3. \A v \in VoteRequests \ {r} : pc'[v] = pc[v]
    BY <1>0, <1>1 DEF CheckOpen, RejectInvalid, StoreVote, Requests, Handlers
  <2>4. CASE CheckOpen(r) \/ RejectInvalid(r)
    <3>1. UNCHANGED <<accepted, pending>>
      BY <2>4 DEF CheckOpen, RejectInvalid
    <3>2. CASE pc'[r] = "rejected"
      BY <2>1, <2>2, <2>3, <3>1, <3>2, DecisionRefines
    <3>3. CASE pc'[r] # "rejected"
      <4>1. KeepsLedger
        BY <2>1, <2>2, <2>3, <3>1, <3>3 DEF KeepsLedger
      <4> QED BY <4>1, KeepsLedgerRefines
    <3> QED BY <3>2, <3>3
  <2>5. CASE StoreVote(r)
    <3>1. /\ r \in Valid /\ accepted' = Append(accepted, r)
          /\ pending' = Append(pending, r)
      BY <2>5 DEF StoreVote, Push
    <3>2. /\ Range(accepted') = Range(accepted) \cup {r}
          /\ Range(pending') = Range(pending) \cup {r}
      BY <1>0, <3>1, AppendFacts
    <3> QED BY <2>1, <2>2, <2>3, <3>2, DecisionRefines
  <2> QED BY <1>1, <2>4, <2>5
<1>2. ASSUME NEW p \in Handlers, DrainPending(p)
      PROVE  Ledger!Next \/ UNCHANGED Ledger!vars
  BY <1>2, DrainRefines
<1>3. ASSUME NEW p \in Handlers, SubmitRollup(p)
      PROVE  Ledger!Next \/ UNCHANGED Ledger!vars
  BY <1>3, SubmitRefines
<1>4. ASSUME NEW p \in Handlers, LandRollup(p)
      PROVE  Ledger!Next \/ UNCHANGED Ledger!vars
  BY <1>4, LandRefines
<1>5. CASE KeepsLedger
  BY <1>5, KeepsLedgerRefines
<1>6. TypeOK
  BY DEF PathInv
<1> QED BY <1>1, <1>2, <1>3, <1>4, <1>5, <1>6, OtherStepsKeepLedger

LEMMA InitSubmitted == Init => Submitted
  BY DEF Init, Submitted

(* The handlers, queues, threads and transactions of the vote path         *)
(* implement the ledger, for any number of requests: every submission is   *)
(* rejected or queued once, queued votes are taken in batches of at most   *)
(* MAX_BATCH_SIZE, and every batch is counted on chain as a whole or lost  *)
(* as a whole, once (handler.rs:169-330, batches.rs:19-190).               *)
THEOREM ImplementsTheLedger == Spec => ImplementsLedger
<1> DEFINE Inv == PathInv /\ Submitted
<1>1. Init => Inv
  BY InitType, InitPhases, InitPlace, InitSubmitted DEF PathInv
<1>2. Inv /\ [Next]_vars => Inv'
  BY StepType, StepPhases, StepPlace, StepSubmitted DEF PathInv
<1>3. Spec => []Inv
  BY <1>1, <1>2, PTL DEF Spec
<1>4. Inv => Mapped
  BY StatusMapped
<1>5. Init => Ledger!Init
  BY InitLedger
<1>6. Inv /\ Mapped /\ Mapped' /\ [Next]_vars => [Ledger!Next]_(Ledger!vars)
  BY StepLedger
<1> QED BY <1>3, <1>4, <1>5, <1>6, PTL DEF Spec, ImplementsLedger, Ledger!Spec
=============================================================================
