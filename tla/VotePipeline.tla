---------------------------- MODULE VotePipeline ----------------------------
(***************************************************************************)
(* The path of a vote through the API for one decade, from POST /api/vote  *)
(* to the ballot on chain: submit_vote and flush_batch(es) of handler.rs,  *)
(* create_batch_for_decade of batches.rs, and the part of close_election   *)
(* that races with them.  The run starts when create_ballots has returned: *)
(* the ballot exists, is open and empty, and the API has no votes.         *)
(*                                                                         *)
(* Every HTTP request is a process; axum runs the handlers concurrently.   *)
(* The critical section of each Mutex is one atomic step, and between two  *)
(* steps any other handler may run.  A client that retries sends another   *)
(* request with the same vote.                                             *)
(***************************************************************************)
EXTENDS BallotProgram, Functions

CONSTANTS VoteRequests,     \* POST /api/vote
          FlushRequests,    \* POST /api/admin/flush-batch(es)
          CloseRequests,    \* POST /api/admin/close-election
          Valid,            \* the vote requests whose hash, message, signature
                            \* and proofs are right
          vote_of,          \* request -> [wallet_id, encrypted_vote_hash,
                            \*             movie_index] of the vote it carries
          proposal_count,   \* movies of the decade
          chairperson,      \* the payer of the API
          MAX_BATCH_SIZE,   \* 10 in the code
          merkle_root(_)    \* the root of a sequence of leaves

Handlers == VoteRequests \cup FlushRequests   \* may run create_batch_for_decade
Requests == Handlers \cup CloseRequests
Movies == 0..(proposal_count - 1)

ASSUME PipelineAssumption ==
  /\ VoteRequests \cap FlushRequests = {}
  /\ Handlers \cap CloseRequests = {}
  /\ Valid \subseteq VoteRequests
  /\ proposal_count \in 1..MAX_PROPOSALS
  /\ \A r \in VoteRequests : vote_of[r].movie_index \in Movies
  /\ MAX_BATCH_SIZE \in Nat \ {0}

VARIABLES pc,            \* where the handler of each request stands
          pending,       \* pending_encrypted_votes[decade]: requests in order
          batch,         \* `votes' of each run of create_batch_for_decade
          batch_index,   \* its `batch_index'
          batches,       \* encrypted_vote_batches[decade]; the id and root of
                         \* a batch are functions of its index and votes
          receipts,      \* vote_receipts_by_hash
          closed,        \* ELECTION_CLOSED_BY_DECADE[decade]
          ballot,        \* the account on chain
          transaction,   \* of each run: "none", "sent", "landed" or "failed"
          batch_submitted, \* the field of the answer to an accepted vote
          accepted       \* history: every vote pushed to pending, in order
vars == <<pc, pending, batch, batch_index, batches, receipts, closed, ballot,
          transaction, batch_submitted, accepted>>

-----------------------------------------------------------------------------
(* What a batch is made of *)

\* batch_vote_leaf hashes wallet, decade, hash and ciphertexts: no two
\* different votes share a leaf.
Leaves(votes) == [i \in DOMAIN votes |-> vote_of[votes[i]]]

FaultyIdWithoutRoot(index, votes) == <<index, Len(votes)>>

\* batch_id hashes the decade, the index, the root and the number of votes.
BatchId(index, votes) == <<index, merkle_root(Leaves(votes)), Len(votes)>>

FaultyTally(votes) ==
  [p \in 1..proposal_count |->
     Cardinality({i \in DOMAIN votes \ {1} :
                    vote_of[votes[i]].movie_index = p - 1})]

\* create_encrypted_batch_tally: the homomorphic sum of the votes.
BatchTally(votes) ==
  [p \in 1..proposal_count |->
     Cardinality({i \in DOMAIN votes : vote_of[votes[i]].movie_index = p - 1})]

FaultyReceipt(index, votes, i) ==
  [leaf_hash   |-> Leaves(votes)[i],
   batch_id    |-> BatchId(index, votes),
   leaf_index  |-> Len(votes),
   merkle_root |-> merkle_root(Leaves(votes))]

Receipt(index, votes, i) ==
  [leaf_hash   |-> Leaves(votes)[i],
   batch_id    |-> BatchId(index, votes),
   leaf_index  |-> i,
   merkle_root |-> merkle_root(Leaves(votes))]

-----------------------------------------------------------------------------
Init ==
  /\ pc = [r \in Requests |-> "new"]
  /\ pending = <<>>
  /\ batch = [p \in Handlers |-> <<>>]
  /\ batch_index = [p \in Handlers |-> 0]
  /\ batches = <<>>
  /\ receipts = <<>>
  /\ closed = FALSE
  /\ ballot = NewBallot(chairperson, proposal_count,
                        [p \in 1..proposal_count |-> 0])
  /\ transaction = [p \in Handlers |-> "none"]
  /\ batch_submitted = [r \in VoteRequests |-> FALSE]
  /\ accepted = <<>>

-----------------------------------------------------------------------------
(* submit_vote *)

\* The closed flag is read under its own lock, long before the vote is stored.
CheckOpen(r) ==
  /\ pc[r] = "new"
  /\ pc' = [pc EXCEPT ![r] = IF closed THEN "rejected" ELSE "checked"]
  /\ UNCHANGED <<pending, batch, batch_index, batches, receipts, closed,
                 ballot, transaction, batch_submitted, accepted>>

RejectInvalid(r) ==
  /\ pc[r] = "checked"
  /\ r \notin Valid
  /\ pc' = [pc EXCEPT ![r] = "rejected"]
  /\ UNCHANGED <<pending, batch, batch_index, batches, receipts, closed,
                 ballot, transaction, batch_submitted, accepted>>

FaultyPush(queue, r) == <<r>> \o queue

Push(queue, r) == Append(queue, r)

FaultyDue(queue) == Len(queue) > MAX_BATCH_SIZE

BatchDue(queue) == Len(queue) >= MAX_BATCH_SIZE

\* Store the vote; whoever sees a full batch goes on to create one.
StoreVote(r) ==
  /\ pc[r] = "checked"
  /\ r \in Valid
  /\ pending' = Push(pending, r)
  /\ accepted' = Append(accepted, r)
  /\ pc' = [pc EXCEPT ![r] =
              IF BatchDue(pending') THEN "drain" ELSE "done"]
  /\ UNCHANGED <<batch, batch_index, batches, receipts, closed, ballot,
                 transaction, batch_submitted>>

-----------------------------------------------------------------------------
(* flush_batch, flush_batches: authorised and routed to this decade *)

StartFlush(q) ==
  /\ pc[q] = "new"
  /\ pc' = [pc EXCEPT ![q] = "drain"]
  /\ UNCHANGED <<pending, batch, batch_index, batches, receipts, closed,
                 ballot, transaction, batch_submitted, accepted>>

-----------------------------------------------------------------------------
(* create_batch_for_decade *)

FaultyLength == Len(pending)

BatchLength == IF Len(pending) < MAX_BATCH_SIZE THEN Len(pending)
                                                ELSE MAX_BATCH_SIZE

FaultyRemaining == <<>>

Remaining == SubSeq(pending, BatchLength + 1, Len(pending))

FaultyDrainedNothing == "index"

FaultyRetryWhenEmpty == IF pending = <<>> THEN "drain" ELSE "index"

AfterDrain == IF pending = <<>> THEN "done" ELSE "index"

DrainPending(p) ==
  /\ pc[p] = "drain"
  /\ batch' = [batch EXCEPT ![p] = SubSeq(pending, 1, BatchLength)]
  /\ pending' = Remaining
  /\ pc' = [pc EXCEPT ![p] = AfterDrain]
  /\ UNCHANGED <<batch_index, batches, receipts, closed, ballot, transaction,
                 batch_submitted, accepted>>

ReadBatchIndex(p) ==
  /\ pc[p] = "index"
  /\ batch_index' = [batch_index EXCEPT ![p] = Len(batches)]
  /\ pc' = [pc EXCEPT ![p] = "store"]
  /\ UNCHANGED <<pending, batch, batches, receipts, closed, ballot,
                 transaction, batch_submitted, accepted>>

StoreBatch(p) ==
  /\ pc[p] = "store"
  /\ batches' = Append(batches, [batch_index |-> batch_index[p],
                                 votes       |-> batch[p]])
  /\ pc' = [pc EXCEPT ![p] = "receipts"]
  /\ UNCHANGED <<pending, batch, batch_index, receipts, closed, ballot,
                 transaction, batch_submitted, accepted>>

\* One insert per vote under a single lock: of two votes with the same hash
\* the later one keeps the entry.
StoreReceipts(p) ==
  LET hash(i) == vote_of[batch[p][i]].encrypted_vote_hash
      last(h) == CHOOSE i \in DOMAIN batch[p] :
                   /\ hash(i) = h
                   /\ \A j \in DOMAIN batch[p] : hash(j) = h => j <= i
      new     == {hash(i) : i \in DOMAIN batch[p]}
  IN  /\ pc[p] = "receipts"
      /\ receipts' = [h \in DOMAIN receipts \cup new |->
                        IF h \in new
                        THEN Receipt(batch_index[p], batch[p], last(h))
                        ELSE receipts[h]]
      /\ pc' = [pc EXCEPT ![p] = "submit"]
      /\ UNCHANGED <<pending, batch, batch_index, batches, closed, ballot,
                     transaction, batch_submitted, accepted>>

\* The spawned thread sends the transaction, or fails before it is sent.
SubmitRollup(p) ==
  /\ pc[p] = "submit"
  /\ \E outcome \in {"sent", "failed"} :
       transaction' = [transaction EXCEPT ![p] = outcome]
  /\ pc' = [pc EXCEPT ![p] = "join"]
  /\ UNCHANGED <<pending, batch, batch_index, batches, receipts, closed,
                 ballot, batch_submitted, accepted>>

\* The validator executes it: perhaps before the client learns of it, perhaps
\* after the client has given up waiting, perhaps never.
LandRollup(p) ==
  /\ transaction[p] = "sent"
  /\ IF validate_rollup_batch(ballot, BatchTally(batch[p]), Len(batch[p]))
     THEN /\ ballot' = AfterRollupBatch(ballot, merkle_root(Leaves(batch[p])),
                                        BatchTally(batch[p]), Len(batch[p]))
          /\ transaction' = [transaction EXCEPT ![p] = "landed"]
     ELSE /\ transaction' = [transaction EXCEPT ![p] = "failed"]
          /\ UNCHANGED ballot
  /\ UNCHANGED <<pc, pending, batch, batch_index, batches, receipts, closed,
                 batch_submitted, accepted>>

\* join returns, with a confirmation or with an error, which only changes the
\* wording of a status: create_batch_for_decade returns Ok(Some(_)).
JoinRollup(p) ==
  /\ pc[p] = "join"
  /\ pc' = [pc EXCEPT ![p] = "done"]
  /\ batch_submitted' = [r \in VoteRequests |->
                          r = p \/ batch_submitted[r]]
  /\ UNCHANGED <<pending, batch, batch_index, batches, receipts, closed,
                 ballot, transaction, accepted>>

-----------------------------------------------------------------------------
(* close_election, for this decade *)

\* The close lands, finds the ballot already closed (which counts as success),
\* or the client reports an error although it may have landed.
CloseOnChain(c) ==
  /\ pc[c] = "new"
  /\ \/ /\ pc' = [pc EXCEPT ![c] = "flag"]
        /\ ballot' = IF can_close(ballot) THEN AfterClose(ballot) ELSE ballot
     \/ /\ pc' = [pc EXCEPT ![c] = "done"]
        /\ \/ can_close(ballot) /\ ballot' = AfterClose(ballot)
           \/ UNCHANGED ballot
  /\ UNCHANGED <<pending, batch, batch_index, batches, receipts, closed,
                 transaction, batch_submitted, accepted>>

SetClosedFlag(c) ==
  /\ pc[c] = "flag"
  /\ closed' = TRUE
  /\ pc' = [pc EXCEPT ![c] = "done"]
  /\ UNCHANGED <<pending, batch, batch_index, batches, receipts, ballot,
                 transaction, batch_submitted, accepted>>

-----------------------------------------------------------------------------
CreateBatch(p) ==
  \/ DrainPending(p)
  \/ ReadBatchIndex(p)
  \/ StoreBatch(p)
  \/ StoreReceipts(p)
  \/ SubmitRollup(p)
  \/ JoinRollup(p)

Next ==
  \/ \E r \in VoteRequests : CheckOpen(r) \/ RejectInvalid(r) \/ StoreVote(r)
  \/ \E q \in FlushRequests : StartFlush(q)
  \/ \E p \in Handlers : CreateBatch(p) \/ LandRollup(p)
  \/ \E c \in CloseRequests : CloseOnChain(c) \/ SetClosedFlag(c)

Spec == Init /\ [][Next]_vars

\* A handler that has started keeps running; nothing obliges a client to send
\* a request or the validator to execute a transaction.
FairSpec ==
  /\ Spec
  /\ \A r \in VoteRequests : WF_vars(RejectInvalid(r) \/ StoreVote(r))
  /\ \A p \in Handlers : WF_vars(CreateBatch(p))
  /\ \A c \in CloseRequests : WF_vars(SetClosedFlag(c))

-----------------------------------------------------------------------------
(* Types *)

Step == {"new", "checked", "rejected", "drain", "index", "store", "receipts",
         "submit", "join", "flag", "done"}

Batching == {"index", "store", "receipts", "submit", "join"}

(* Every queue, local variable and flag holds a value of its type; only a  *)
(* handler that has drained votes holds a batch.                           *)
TypeOK ==
  /\ pc \in [Requests -> Step]
  /\ pending \in Seq(Valid)
  /\ accepted \in Seq(Valid)
  /\ batch \in [Handlers -> Seq(Valid)]
  /\ batch_index \in [Handlers -> Nat]
  /\ batches \in Seq([batch_index : Nat, votes : Seq(Valid)])
  /\ closed \in BOOLEAN
  /\ ballot \in BallotAccount({chairperson}, {ballot.merkle_root})
  /\ transaction \in [Handlers -> {"none", "sent", "landed", "failed"}]
  /\ batch_submitted \in [VoteRequests -> BOOLEAN]
  /\ \A p \in Handlers : pc[p] \in Batching => batch[p] # <<>>

-----------------------------------------------------------------------------
(* Safety *)

Drained == UNION {Range(batch[p]) : p \in Handlers}

Landed == {p \in Handlers : transaction[p] = "landed"}

LandedVotes == UNION {Range(batch[p]) : p \in Landed}

(* No vote is duplicated or dropped on its way into a batch: an accepted   *)
(* submission is in the queue or in exactly one batch, at one position,    *)
(* whichever handlers push, drain and flush at the same time.              *)
EachVoteInOnePlace ==
  /\ Range(accepted) = Range(pending) \cup Drained
  /\ IsInjective(pending)
  /\ \A p \in Handlers :
       /\ IsInjective(batch[p])
       /\ Range(batch[p]) \cap Range(pending) = {}
       /\ \A q \in Handlers \ {p} : Range(batch[p]) \cap Range(batch[q]) = {}

(* Votes leave the queue in the order in which they were accepted: the     *)
(* queue is the tail of the accepted votes, and each batch is a run of     *)
(* consecutive ones before it.                                             *)
AcceptanceOrder ==
  LET drained == Len(accepted) - Len(pending)
  IN  /\ pending = SubSeq(accepted, drained + 1, Len(accepted))
      /\ \A p \in Handlers :
           \E k \in 0..drained :
             /\ k + Len(batch[p]) <= drained
             /\ batch[p] = SubSeq(accepted, k + 1, k + Len(batch[p]))

(* The queue outgrows a batch only by the handlers on their way to drain   *)
(* it.  When there are none it is shorter than a batch, so that the single *)
(* create_batch_for_decade of a flush, which takes MAX_BATCH_SIZE votes at *)
(* most, leaves nothing behind (batches.rs:25, handler.rs:323).            *)
PendingBounded ==
  Len(pending) <= MAX_BATCH_SIZE - 1
                  + Cardinality({r \in VoteRequests : pc[r] = "drain"})

(* The ballot on chain counts exactly the votes of the batches that        *)
(* landed, each once: its tally per movie, its total_votes and its         *)
(* batch_count, in whatever order the transactions are executed.           *)
ChainCountsLandedVotes ==
  /\ \A m \in Movies :
       ballot.encrypted_tally[m + 1] =
         Cardinality({r \in LandedVotes : vote_of[r].movie_index = m})
  /\ ballot.total_votes = Cardinality(LandedVotes)
  /\ ballot.batch_count = Cardinality(Landed)

(* A receipt is never ahead of or apart from its batch: it names a stored  *)
(* batch, by its id and root, and the position in it of a vote with the    *)
(* hash of the receipt; and every vote whose batch is about to be sent to  *)
(* the chain has one, although several handlers overwrite receipts         *)
(* (batches.rs:124-130).                                                   *)
ReceiptsMatchBatches ==
  /\ \A h \in DOMAIN receipts :
       \E i \in DOMAIN batches :
         LET b == batches[i] IN
         /\ receipts[h].batch_id = BatchId(b.batch_index, b.votes)
         /\ receipts[h].merkle_root = merkle_root(Leaves(b.votes))
         /\ receipts[h].leaf_index \in DOMAIN b.votes
         /\ LET vote == vote_of[b.votes[receipts[h].leaf_index]]
            IN  /\ vote.encrypted_vote_hash = h
                /\ receipts[h].leaf_hash = vote
  /\ \A p \in Handlers : pc[p] \in {"submit", "join"} \/ transaction[p] # "none" =>
       \A r \in Range(batch[p]) :
         vote_of[r].encrypted_vote_hash \in DOMAIN receipts

(* Two handlers may read the same batch_index before either stores its     *)
(* batch (batches.rs:42-45, 120-122); the id still identifies the content  *)
(* because it also hashes the root and the number of votes.                *)
BatchIdIdentifiesContent ==
  \A i, j \in DOMAIN batches :
    BatchId(batches[i].batch_index, batches[i].votes) =
      BatchId(batches[j].batch_index, batches[j].votes) =>
        Leaves(batches[i].votes) = Leaves(batches[j].votes)

-----------------------------------------------------------------------------
(* Liveness *)

(* A queue that holds a full batch is drained below it again, whichever    *)
(* handler gets to it first, without the chairperson.                      *)
FullQueueDrains ==
  Len(pending) >= MAX_BATCH_SIZE ~> Len(pending) < MAX_BATCH_SIZE

(* Every handler that has started answers, whatever happens to its         *)
(* transaction.                                                            *)
HandlersAnswer ==
  \A r \in Requests : pc[r] # "new" ~> pc[r] \in {"rejected", "done"}

-----------------------------------------------------------------------------
(* Refinement *)

LedgerStatus(r) ==
  IF pc[r] = "rejected" THEN "rejected"
  ELSE IF r \in Range(pending) THEN "queued"
  ELSE IF r \notin Drained THEN "new"
  ELSE LET p == CHOOSE p \in Handlers : r \in Range(batch[p])
       IN  CASE transaction[p] = "landed" -> "counted"
             [] transaction[p] = "failed" -> "lost"
             [] OTHER -> "batched"

Ledger == INSTANCE VoteLedger WITH
  Votes    <- VoteRequests,
  Movies   <- Movies,
  choice   <- LAMBDA r : vote_of[r].movie_index,
  MaxBatch <- MAX_BATCH_SIZE,
  status   <- [r \in VoteRequests |-> LedgerStatus(r)],
  open     <- {Range(batch[p]) : p \in {q \in Handlers :
                 batch[q] # <<>> /\ transaction[q] \in {"none", "sent"}}},
  tally    <- ballot.encrypted_tally

(* The path of a vote, with its locks, threads and transactions,           *)
(* implements the ledger: every vote is decided once, and every batch is   *)
(* counted at most once and as a whole.                                    *)
ImplementsLedger == Ledger!Spec

-----------------------------------------------------------------------------
(* What the documentation says *)

(* README.md:58: the smart contract "prevents double voting", so the votes  *)
(* it counts come from different wallets.                                  *)
NoDoubleVoting ==
  \A r, s \in LandedVotes :
    r # s => vote_of[r].wallet_id # vote_of[s].wallet_id

(* handler.rs:169: "Closed elections reject new votes."                    *)
ClosedElectionsRejectVotes == [][closed => accepted' = accepted]_vars
=============================================================================
