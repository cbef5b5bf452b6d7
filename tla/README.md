# Kaonashi: a verified model of the voting system

Kaonashi is an encrypted election ("which movie of the decade?") with an
on-chain program (Anchor, Solana), an HTTP API that verifies and batches votes
(axum), a client library between the two, and a web frontend (Leptos). This
directory holds TLA+ modules for its core, the TLC configurations that check
them, and TLAPS proofs.

Paths below are relative to `src/`; `chain/` stands for
`kaonashi-smart-contract/programs/projeto-kaonashi/src/` and `api/` for
`kaonashi-api/src/`, `web/` for `kaonashi_frontend/src/`.

## 1. Inventory

| Component | Source | State | Operations |
|---|---|---|---|
| On-chain program | `chain/lib.rs`, `rollups.rs`, `election.rs`, `crypto.rs` | `Ballot` and `VoterRecord` accounts | initialize, register_voter, cast_vote, submit_rollup_batch, close_election, set_final_winner |
| On-chain proof verification | `chain/proofs.rs` | none | verify_vote_proof (each ciphertext encrypts 0 or 1), verify_vote_sum_proof (they add up to 1) |
| Vote intake and batching | `api/handler.rs`, `batches.rs`, `keeping_votes.rs` | pending votes, batches and receipts per decade, each behind a Mutex | submit_vote, flush_batch(es), create_batch_for_decade |
| Rollup submission | `api/blockchain.rs`, `zk-client/src/solana_client.rs` | none of its own | one RPC client per call, commitment "processed" |
| Election lifecycle | `api/handler.rs`, `blockchain.rs` | ballot addresses, closed flags, resolved ties, decrypted results, ElGamal keys | create_ballots, close_election, resolve_tie, finalize_election, get_results |
| Merkle trees and receipts | `api/merkle.rs`, `batches.rs` | receipts by vote hash | root, proof, verification |
| Authentication | `api/auth.rs`, `api/handler.rs` | login challenges by public key | challenge, login, chairperson check |
| API proof verification | `api/zk_verify.rs` | none | the sigma protocols again, off chain |
| Frontend voting | `web/pages/vote.rs`, `web/api/client.rs`, `web/crypto/` | signals of the vote page, receipts in the browser | encrypt and prove a vote, submit it, keep and show the receipt |
| Merkle root of the client library | `zk-client/src/rollups.rs` | none | a root with another hash; called by its demonstration only |
| Frontend administration | `web/pages/chairperson.rs`, `web/pages/tie_resolution.rs` | the step (App), submitting, ties, the tied movies shown | create, close, flush, finalize, resolve ties |
| Frontend display | `web/app.rs`, other pages | page on screen, wallet, selected decade (App) | navigation, connecting a wallet |
| Tools, tables, assets | `bin/`, `movies.rs`, `ballots.rs`, `data/` | none | test submissions, admin signatures, movie titles |

How they interact. A voter's browser encrypts a one-hot vector, proves it
well formed and posts it. `submit_vote` checks the closed flag of the decade,
the hash, the signed message, the signature and the proofs, and pushes the vote
to the pending queue of the decade. Whoever finds `MAX_BATCH_SIZE` votes there,
or a chairperson who flushes, runs `create_batch_for_decade`: it drains the
queue, builds the Merkle tree, stores the batch and one receipt per vote, adds
the ciphertexts up and has a thread send the sum to the ballot on chain, which
adds it to its tally. The chairperson closes the election on chain and in the
API's flag, decrypts the tally, resolves ties and records the winner on chain.

The hard behaviours are:

- axum runs handlers concurrently on several threads; every piece of API state
  has a lock of its own, and an operation takes several of them in turn, so
  handlers interleave between critical sections;
- a transaction may land late, after its client has given up, in another order
  than it was sent, or never; errors are turned into status texts;
- clients retry; nothing in the API remembers who has voted;
- API state is lost on restart, on-chain state is not;
- in the browser, tasks survive the page that started them, and read its state
  again after an `await`; errors of the API come with HTTP 200;
- the arithmetic of the vote proofs exists in four copies;
- counters and indices are fixed-width integers with sentinels and truncation.

What makes each component correct:

- *program*: one tally entry per proposal; every counted vote is paid for by a
  batch or by one voter record; the status only moves forward; the winner is a
  proposal and never changes; counters never wrap;
- *intake and batching*: no accepted vote is lost or duplicated on its way into
  a batch, order is kept, the queue is drained, receipts agree with batches,
  the chain counts exactly the batches that landed;
- *lifecycle*: the winner is one of the movies with most votes, closed stays
  closed, a decision about a tie is about the tally that is finalized, a second
  creation never replaces a running election;
- *Merkle*: every receipt verifies, no other leaf does;
- *proofs of a vote*: what an honest client proves is accepted, what is accepted
  is a vote for one movie, and the API and the chain agree on it;
- *authentication*: a challenge is used once, and ends only by being used or
  replaced;
- *frontend*: a receipt belongs to the wallet that signed and to the vote the
  page shows; the step of the chairperson says what the election has been
  through; only decided ties leave the list.

`PROJECT.json` lists the hazards at their lines, each with the properties that
would notice it.

## 2. Modules

### BallotProgram (operators)

The accounts and, for every instruction, the condition under which it succeeds
and the account it leaves. A ciphertext is represented by the number it decrypts
to: ElGamal is additively homomorphic and nothing on chain reads more of a
ciphertext than "two valid points". Bytes that are not points are
`InvalidPoint`. What an accepted proof means is `IsOneHot`: soundness of the
sigma protocols is assumed here and the subject of VoteProofFlow. `U8_MAX` and `U64_MAX` are parameters, so that
truncation (`proposals.len() as u8`), the sentinels (`u8::MAX`) and the checked
additions are those of the code at every width.

A Solana transaction is atomic, so an instruction that returns an error is not a
step. This is why the writes of `submit_rollup_batch` that precede its second
`checked_add` do not appear: its guard has both additions.

The operators named `Faulty...` here and in the other modules are plausible
mistakes in the definition that follows them. Nothing uses them: replacing the
definition by the mistake makes a property fail, which `PROJECT.json` records
under "mutants".

### BallotContract (state machine)

Any key sends any instruction with any arguments from small sets. `ballots` and
`voter_records` are the accounts that exist (Anchor's `init` fails on an existing
one); `voter_record_pda` is the seeds of a voter's record; `has_one =
chairperson` is `SignedByChairperson`. `credited` is a history variable: the
votes that came into a tally by `initialize` or by batches.

### VotePipeline (state machine)

One decade, from `POST /api/vote` to the tally on chain, starting when
`create_ballots` has returned. Each HTTP request is a process whose position is
`pc`; each critical section of a Mutex is one action, because nothing else can
touch that state meanwhile:

| Action | Code |
|---|---|
| CheckOpen, RejectInvalid, StoreVote | `submit_vote`: `handler.rs:140-349` |
| StartFlush | `flush_batch`, or one round of the loop of `flush_batches` |
| DrainPending | `batches.rs:19-31`, with the Merkle tree and the tally, which are functions of the drained votes |
| ReadBatchIndex, StoreBatch, StoreReceipts | `batches.rs:42-45`, `120-122`, `124-130` |
| SubmitRollup, JoinRollup | the spawned thread and its join: `batches.rs:149-184` |
| LandRollup | the validator executing the transaction |
| CloseOnChain, SetClosedFlag | `close_election` for this decade: before and after the `await` |

`transaction` and `pc` move independently: a handler may return before its
transaction lands, and a transaction that was sent may never land. The program
that executes it is `BallotProgram`. Hash functions are injective
(`merkle_root` on the sequences of leaves that occur in a run is the tree of
`merkle.rs` over opaque pairs). `accepted` is a history variable.

A retry is a second request with the same vote (`vote_of` maps two requests to
one vote).

### VoteLedger (abstract specification)

What the pipeline promises, without queues, locks, threads or transactions: a
submission is rejected or queued; queued votes are taken in batches of at most
`MaxBatch`; a batch is counted as a whole or lost as a whole, once; the tally is
the number of counted votes for each movie. `VotePipeline!Ledger` is the
refinement mapping and `ImplementsLedger` the claim.

### Election (state machine)

The administration of an election over all decades, beside the batches that
VotePipeline brings to the ballots (here a batch is two steps: its votes are
accepted, its transaction is sent). Every request is a process; `pc`, `decade`
and the other variables by request are the locals of its handler:

| Action | Code |
|---|---|
| CheckBallots, SendInitialize, FinishInitialize, StoreBallots, OpenElection, ClearTies | `create_ballots` (`handler.rs:763-835`), whose check and three critical sections surround `create_all_ballots_on_chain` |
| SendClose, FinishClose | one round of `close_election` (`handler.rs:858-912`) with `close_ballot_on_chain` |
| ResolveTie | `resolve_tie` (`handler.rs:924-973`) |
| CheckDecade, ReadBallot, ReadResolvedTie, FetchTally, FetchUndecided, FetchFails, FinishFinalize, SaveResults | one round of `finalize_election` (`handler.rs:996-1033`), `finalize_decade_from_state` and `finalize_election_from_blockchain`; the route for one decade enters at ReadBallot and does not save |
| AcceptVotes, SendRollup | `submit_vote` up to the closed check, `batches.rs:132-158` |
| Execute | the validator executing a transaction, now or much later |
| Restart | the process ends: handlers stop, everything in memory is reset |

`transactions` holds what each request sent for each decade and what became of
it. A handler that waits may always receive an error, also for a transaction
that landed or lands later; it receives a success only for one that landed, and
the error "election is not open" only for a close that failed. An address is
the request that created it and the decade, because every creation makes new
keypairs. `decisions` is a history variable: every choice of a chairperson.

The votes and the ElGamal keys are not modelled here: the keys never change
within a process, and after a restart no address is left to use them with. Until
a new election is created, the API answers "no ballot" for every decade; a
ballot of an earlier process is never closed or finalized again.

### MerkleLevels, MerkleTree (operators, state machine)

`MerkleLevels` has one level of a tree from the one below, the sibling of a
node, one turn of the verifier's loop, and `MerkleRoot`: the root as `merkle_root`
computes it, in a loop of its own, apart from that of the proofs. `MerkleTree` runs the loops of `merkle_proof` and
`verify_merkle_proof` one turn at a time for any vote of any batch; `path` is a
history variable: the node that the proof so far leads to. In MCMerkleTree a
hash is a pair, so that it is injective and no leaf is a node. MCVotePipeline
takes its Merkle roots from `MerkleLevels`.

### VoteSigma (operators), VoteProofFlow (state machine)

`VoteSigma` holds the arithmetic of the vote proofs, each copy from its own file:
the frontend's prover (`web/crypto/zk_vote.rs`), the part of the test program's
prover that differs from it (it takes every value but 0 for a 1), the API's
verifier (`api/zk_verify.rs`) and the program's (`chain/proofs.rs`). Points and
scalars are arbitrary sets with arbitrary operations; `ModuleLaws`,
`PointsCommute` and `Generators` are what is assumed of them, in effect that the
scalars are a field and the points a vector space over it in which neither G nor
the key is zero, written with only those laws that the calculations use.
`Encrypt` is external: the Pedersen commitment and handle of the Solana SDK. The
hashes are arbitrary functions. Bytes that decode to no point or no scalar are
`Undecodable`.

`VoteProofFlow` runs a client's loops (one position at a time), then lets the
proofs be lost, exchanged or spoiled once, and has both verifiers look at the
result in any order. Clients of other make encrypt what they like, with the
prover of the test program. Soundness of a proof is a statement about provers,
not about one transcript: `Extractable` says that the prover could have answered
a second challenge to the same first messages, which is what the rewinding
argument for this kind of proof gives.

### VoterPages (state machine)

The pages of a voter and `submit_vote` of the client, in one browser. Opening any
page (`Open`) makes its signals anew; a task that was spawned by a page that is
gone still runs, writes receipts, and sets the signals of App, while what it sets
on its page is ignored (Leptos ignores a `set` of a disposed signal).

| Action | Code |
|---|---|
| Navigate, ChooseDecade, ConnectWallet, WalletConnected, ConnectFails | `navbar.rs`, `decades.rs:36`, `wallet.rs:18-49` |
| ChooseMovie, ConfirmVote | the cards and the button of `vote.rs`, with what disables them |
| PostVote, HandleVote | `client.rs:287-352`, `submit_vote` of the API with either verdict |
| VoteAnswered, VoteFails | `client.rs:354-379` with `vote.rs:466-506` and `save_local_receipt` |

### LoginChallenge (state machine)

`create_auth_challenge`, `login_with_signature` and `login_wallet`: requests may
arrive late or again, answers may not arrive, signatures may be wrong. A message
is its place among the messages made, because of its nonce. `authenticated` is a
history variable. No page calls `login_wallet` in this version of the frontend:
the module is about the function of the client and the two routes of the API, for
whoever calls them.

### ChairpersonPage (state machine)

The six steps of the chairperson and the handlers of the API behind the buttons.
`task` holds the requests under way, each with its handler; its `owner` is the
page that sent it, a page that was left, or nobody when the connection broke. A
handler runs in steps from one `await` to the next, and `create_ballots` from one
lock to the next; between any two of them other handlers, the page and the chain
go on.

| Action | Code |
|---|---|
| Click, OpenTieResolution, Leave, Enter | the buttons with what disables them (`chairperson.rs:46-235`), the navbar, opening the page |
| CheckBallots, CreateFails, StoreBallots, OpenElection, ClearTies | `create_ballots` (`handler.rs:763-835`): the check, the `await`, and the three critical sections that replace the addresses, the closed flags and the decisions |
| SendClose, CloseConfirmed, CloseFails | one round of `close_election`, before and after its `await` |
| FlushDecade, NothingToFlush, FlushFails | one round of `flush_batches` |
| CheckDecade, FetchNoVotes, FetchTie, SendWinner, FetchFails, FinalizeConfirmed, WinnerRefused, WinnerFails | one round of `finalize_election`: the checks, the tally read from the chain, the transaction |
| StoreDecision | `resolve_tie`, whoever calls it |
| Unauthorized | the answer to a wrong key |
| TransactionLands, RollupLands | the validator: a transaction that its sender gave up on; a batch, at any time and whatever the status of the ballot |
| Answered, RequestFails, HandlerDropped | the answer at the page that sent the request or at one that was left, a broken connection, a handler that ends with it |

A decade is one record: what the API remembers of it (`closed`, `resolved`) and
what has become of its ballot (`status`, `tally`, `unconfirmed`). Addresses,
single transactions and single votes are the subject of Election and
VotePipeline; a handler that has sent a transaction to a ballot that was
`replaced` meanwhile no longer changes what the page's election is. A vote that
is accepted after the flush is a batch that lands after it (`RollupLands`).

Three parts of the state are history. `flushed` and `found_empty` record what a
flush and a finalization saw of a ballot. `ignored` has the actions whose refusal
the page took for success, which the code does for every answer with HTTP 200.
`overlapped` says that two creations ran at the same time; it counts as one of
the `faults`, of which a run allows `MaxFaults`, because it needs the page to be
left and opened again before the first creation is answered.

### TiePage (state machine)

`tie_resolution.rs` with `resolve_tie` and `get_results`: the initial load of all
decades, loads of single decades, and confirming a winner, each a task whose
parts before and after an `await` are separate actions. A disposed signal cannot
be read (`get_untracked` panics), so a task that reads one ends when the page is
left; its request is executed all the same (`to_resolve`). The initial load
has one request for each decade under way at the same time, and each answer is of
its own moment. `listed`
is a history variable.

### Frontend (composition)

`Frontend` puts the four parts side by side. A session uses one of them
(`session`), so that a run adds their state spaces instead of multiplying them;
the parts share no variables, because what one leaves in the API for another is
modelled where it is found (decisions about ties and batches in ChairpersonPage,
tallies in TiePage, the verdict about a vote in VoterPages).

### Proof modules

`SequenceFacts` (appending, cutting, slicing and counting sequences, induction
over finite sets, sums, folds from the left, powers of two), `BallotProgramFacts`
(the operators of the program on well-typed accounts), `BallotContractProofs`,
`VotePipelineProofs`, `ElectionProofs`, `MerkleTreeProofs`, `VoteProofFlowProofs`
and `FrontendProofs`, which also holds the proofs about LoginChallenge.

## 3. Runs

| Run | Question | Bounds |
|---|---|---|
| contract | do the program's invariants hold under any sequence of instructions? | two ballots, two keys, at most 2 proposals, `U8_MAX` = 3, `U64_MAX` = 2; counts 0, 1, 2 and 5 (5 truncates to 1); vectors too short, too long, not one-hot and invalid |
| pipeline | is a vote lost, duplicated, reordered or miscounted by interleavings, late transactions or a close; does the pipeline implement the ledger? | three submissions of which two are the same vote, a flush, a close, batches of two |
| pipeline_units | do batches with the same index have different ids, is a full queue drained, does every handler answer? | batches of one vote, two votes and an invalid submission, a flush; `U64_MAX` = 1, so that a second batch overflows and fails |
| election | is the winner right, are ties the chairperson's, does "Finalized" mean recorded? | one decade of two movies; a creation, a close, a tie decision, both kinds of finalization; three batches of one vote, two for the same movie |
| election_restart | is what the API remembers ever ahead of the chain, does every administrative request answer? | two decades, one creation, close and finalization, a batch for each decade, one restart |
| merkle_receipts | does every receipt verify, and for its own vote only; is the root that of the tree, and does it bind the votes? | every batch of up to seven votes, equal votes included |
| vote_proofs | are honest proofs accepted, do the verifiers agree, is an accepted vote one choice? | the integers modulo 3 as group, two movies, two values of randomness, votes 00, 11, 01, 20 and 22 of other clients, one disturbance |
| frontend | do receipts, pages, logins, steps and ties agree with what the API did, whatever is late, lost or left? | two wallets of which one is the chairperson's, two decades, two movies, `MaxCalls` = 2 submissions, `MaxChecks` = 1 unanswered status request; three logins with two keys; two decades, votes in one of them, with two requests of the chairperson under way and `MaxFaults` = 1 failure or overlap of creations; two decades to decide of three movies with `MaxLoads` = 1 unanswered load each |
| double_voting, late_vote | see "Findings" | as pipeline |
| two_elections | see "Findings" | one decade, two creations, one batch |
| rejected_vote | see "Findings" | the voter's part of frontend |

Some invariants of Election are checked on one decade and some on two, because
with everything at once the state space is large: the winner of a decade depends
on no other decade (ballots, flags and decisions are separate), while restarts
and the loops over decades matter for what the API remembers. Restarts do not
touch accounts or transactions, so they are left out where only the chain is
looked at.

Why the bounds are enough. For Election: three batches make a tie, a leader, a
tie that a late batch breaks and a leader that a late batch ties; two finalizers
can act on different tallies. For the Merkle tree: sizes up to seven contain
every pattern of odd and even levels of up to three levels, and what matters
most is proved for all sizes. The interesting cases of the pipeline need two
handlers that race to drain, a vote pushed between a full queue and its drain, a
flush that finds the queue empty, a batch that is not full, two batches whose
transactions land in either order: three submissions and one flush with batches
of two contain all of them. The contract's properties relate one ballot, its
records and one instruction; the second ballot is there for records and
instructions that are about another one; two keys make a chairperson and a stranger, or two
voters. For the frontend: two submissions are two
visits, or two wallets, or a retry; two requests of the chairperson are one of a
page that was left and one of its successor, and one failure is a broken
connection whose handler runs on, a transaction that lands late, a wrong key or
two creations at once; a decade with votes and one without are the two ways a
finalization goes on; two ties make a decade that is
chosen while the other is confirmed. For the proofs: a group of three elements
has every combination of equations that hold by accident and that do not. Where
a property does not depend on the sizes it is proved for all of them
(section 5). Deadlock is not checked: a run ends when all requests are
answered, a Merkle proof ends when it is compared, a vote when both verifiers
have looked at it, a browser session when its bounded submissions are used up,
and on chain every election
is eventually FINALIZED with nothing left to do.

Fairness. Only the two `FairSpec` have any, and only weak fairness of handlers
that have started (VotePipeline: `RejectInvalid`, `StoreVote`, `CreateBatch`,
`SetClosedFlag`; Election: `Create`, `Close`, `Finalize` past their start): tokio
polls a ready task, and a thread waiting for a Mutex held for a bounded time gets
it. Joining the submission thread counts as such a step because the RPC client
gives up after a timeout. Nothing obliges a client to send a request, a
chairperson to flush, or the validator to execute a transaction.

## 4. Findings

- **double_voting**. `README.md:58` says that the smart contract prevents double
  voting. Its once-per-voter record guards `cast_vote`, which the API never
  calls; votes arrive through `submit_rollup_batch`, and neither it nor
  `submit_vote` looks for an earlier vote of the wallet. A retry is counted
  twice.
- **late_vote**. "Closed elections reject new votes" (`handler.rs:169`), but the
  flag is read long before the vote is stored and not again.
- **two_elections**. "Ballots already exist. The election is already ready."
  (`handler.rs:778`) is checked before the chain is awaited; a second creation
  that started meanwhile replaces the ballots of the first. The other properties
  of Election are checked with one creation and, but for one, proved for any
  number. The exception is `ClosedFlagBehindChain`: when a close was sent to the
  ballot of the first creation and the second one replaces that ballot, the late
  `FinishClose` sets the flag of a decade whose ballot is open. It is proved for
  all behaviours in which creations do not overlap (`OneCreation`).
- **rejected_vote**. "Receipt hash shown to the user after the vote is accepted"
  (`web/pages/vote.rs:402`). The client returns `Ok` for every HTTP 200
  (`client.rs:354`) and supplies the hash itself (`client.rs:367`); the API
  rejects votes with HTTP 200 and `accepted: false`, which the client does not
  look at. A rejected vote gets a receipt on screen and in the browser.

More things follow from the code. They are observations and have no run.

- The recorded winner need not lead the final tally: `submit_rollup_batch`
  accepts a batch at any status, so one that lands after the tally was fetched,
  or after the ballot was FINALIZED, changes the tally and not the winner.
  `WinnerHadMostVotes` is what does hold: the winner led in a tally that the
  ballot has had.
- `get_results` returns the tie decision as the final winner (`handler.rs:684`),
  which is another movie than the one on chain if the chairperson decided about
  a decade that had a single leader or was finalized before.
- "The encrypted batch was recorded on Solana" (`web/pages/vote.rs:469`) is shown
  when `batch_submitted` is true, which it also is when the transaction of the
  batch failed (`batches.rs:149`).
- The page counts "Already finalized" as a success (`web/pages/chairperson.rs:171`).
  The API has no such answer: the second finalization, after ties, reports an
  error for every decade the first one finalized (`blockchain.rs:270`), so the
  page then stays at step 6. `StepReflectsElection` is not about getting to
  step 7, only about not getting there too early.
- The step is ahead of the election when the page has taken a refusal for
  success (a wrong key, "already exist", a decade whose close failed: all HTTP
  200), or when two creations overlapped (two_elections). These are the two
  conditions of `StepReflectsElection`. Votes that pass the closed check before
  the close still come in after the flush (late_vote), so step 4 says that every
  queue was flushed after its close, not that it is empty.
- The client library has a Merkle root too (`zk-client/src/rollups.rs:31-52`).
  It hashes the raw bytes of two children where the API hashes a tag and their
  base58 texts (`api/merkle.rs:15-16`), and returns zeros for no leaves, so the
  two never agree on a batch of more than one vote. Only the demonstration of the
  library calls it.
- Step 5 forgets the number of ties when the page is left, by the navbar for
  example, and has then no button that is enabled; only reloading helps.
  `StuckOnlyByLeaving` is what does hold.
- On the tie page the answer to a load is shown whatever decade is current by
  then (`tie_resolution.rs:428`), so movies that are not tied in the current
  decade can be confirmed, and `resolve_tie` accepts any movie
  (`handler.rs:924-973`). Finalization refuses such a decision.
- A resolved tie is removed from the page's list also when the API has refused
  the key, because the refusal has HTTP 200.

## 5. Proofs

All theorems are about `Spec` for every value of the constants. Every safety
property, every action property and the refinement that the runs check is stated
by a theorem; the three liveness properties are not (at the end of this section).

**What is assumed**, each in the module that declares the constants:

- `WidthAssumption`: `MAX_PROPOSALS` fits a u8, which fits the sentinel above
  every index. `ContractAssumption`: the inputs are of their types.
- `PipelineAssumption`: the requests are distinct and a valid vote is for a movie
  of the decade. `ElectionAssumption`: requests are told apart by their route,
  batches have a tally of the right length. Neither bounds the number of
  requests; it may be infinite.
- `MerkleAssumption`: a batch is a sequence of leaves and not empty.
- `ModuleLaws` and `PointsCommute`: laws of a commutative group with scalars.
  `Generators`: multiples of G, and of the key, tell their factors. The group of
  the SDK has prime order, G is its base point, and an ElGamal key is a multiple
  of a base point by the inverse of a nonzero secret. `LengthsAreScalars`: 0 up
  to the length of a vote are different scalars, which are numbers modulo a
  prime of 253 bits. `HashesYieldScalars` and `FlowAssumption` are about types.
- `LoginAssumption`, `AdminAssumption`, `TieAssumption`, `VoterAssumption`: types
  and finiteness of the frontend's constants.

Two hypotheses stand in theorems, because only these need them: `NoCollisions`
(two pairs of nodes have different hashes: the idealisation of a
collision-resistant hash, true of the pairing in MCMerkleTree) in `RootBinds` and
`OnlyItsLeaf`, and `RootsTellVotes` (the root of a batch tells its votes, given
how many they are: what `RootsBind` of MerkleTreeProofs shows of the tree) in
`BatchIdsTellBatches`. And `ElectionClosed` is about behaviours in which
creations do not overlap (section 4, two_elections).

**Induction over data.** The library's induction theorems take an operator as a
parameter, which the provers cannot instantiate. `SetInduction` (a set of
numbers that holds 0 and with each number the next holds all) and
`SubsetInduction` (a set of sets, likewise) say the same of sets, and a leaf can
cite them. On them rest `SumRecursion`, `TotalAdds` and `TotalOneHot` (sums of
tallies), `LeftRecursion` and `LeftSteps` (a fold from the left is computed by
its partial results), `PowersOfTwo`, and in MerkleTreeProofs the existence of the
recursive functions that compute the levels and the roots.

*BallotContractProofs*. All invariants but `DirectVotesCounted` are facts about
one account. The inductive invariant `IInv` says that every account is `Sound`
and every record typed; one lemma per instruction shows that it leaves a sound
account sound, and `StepIInv` lifts this to the program. From it follow `TypeOK`,
`TallyMatchesProposals`, `WinnerExactlyWhenFinalized`, `BatchCountBehindVotes`
(every batch brought a vote; stated by no run) and the action properties
`ElectionMovesForward` and `VoteIsFinal`. `DirectVotesCounted` relates the
account to all records of its ballot: `CountInv` says that the sum of the tally
is the ballot's credit plus the number of records that say `has_voted`
(`Balanced`). `cast_vote` adds one to both sides, because the record it marks was
not marked; `submit_rollup_batch` adds the same to tally and credit
(`SumFacts`); no other instruction moves either side.

*VotePipelineProofs*. `TypeOK` is inductive by itself. `EachVoteInOnePlace` is
not: that a vote pushed by `StoreVote` is new, and that `DrainPending` overwrites
no batch, depend on where handlers stand. `Phases` says so (an undecided request
is not accepted, a handler that has not drained holds no batch, one that has not
submitted has no transaction), and `TypeOK /\ Phases /\ EachVoteInOnePlace` is
inductive; only the two critical sections on the queue can disturb it.
`PendingBounded` needs that the set of draining handlers is finite
(`Bounded`). `ChainCountsLandedVotes` needs all of the above: a batch that lands
is disjoint from those that landed before, so that the votes it adds are as many
as its positions (`CountPositions`). For `AcceptanceOrder`, `InOrder` says where
in `accepted` each sequence lies: the queue is what follows the first `Taken`
votes, and each batch a slice before that. `ReceiptsInv` has, besides
`ReceiptsMatchBatches`, that a handler about to write receipts has stored its
batch under the index it took, which stays true when another handler stores one
with the same index. `BatchIdsTellBatches` follows from types alone: the id
contains the root and the number of votes.

The refinement of VoteLedger (`ImplementsTheLedger`) rests on the same
invariant, `PathInv`. The mapping reads the status of a vote off the place it is
in; `StatusMapped` shows that this is well defined because there is one such
place. Then each action is one step of the ledger or none: `StoreVote` and
`RejectInvalid` decide a vote (`DecisionRefines`), `DrainPending` takes a set of
queued votes (`DrainRefines`), a transaction that fails or lands settles its
batch (`SubmitRefines`, `LandRefines`: `Submitted` says that no transaction is
about nothing), and all others keep what the ledger sees (`KeepsLedgerRefines`).

*ElectionProofs*. `ElectionInv` is inductive and has a conjunct for each place
where a fact can wait while others act. `ChainInv`: a transaction that landed
left its mark on the ballot, one that finalizes carries a winner that led the
tally it was sent with or was chosen by the chairperson, and a FINALIZED ballot
has such a transaction behind it. `CallsInOrder` and `AwaitsTransaction`: a
handler sends one transaction for a decade and waits for that one, so an answer
is about it and a late answer cannot be taken for another's. `HandlerInv`: what a
handler has read before an `await` (the ballot's address, the decision, the
tally) is still about the same decade, and `Behind` the chain where it
may have become old. `ApiInv`: what the API remembers. What was read stays true
because the chain only moves in one direction (`Grows`): no tally shrinks, no
status goes back, no transaction is decided twice. `HandlerStep` reduces an
action of one handler to the facts about that handler; then there is one lemma
per action, `ExecuteKeepsChain` for the validator and `RestartStep` for the end
of the process. From `ElectionInv` follow the five properties other than
`ClosedFlagBehindChain`, for any number of decades, requests and restarts.
`ClosedInv` adds, for behaviours with `OneCreation`, that all decades have a
ballot or none has, that a creation runs only while none has, and that a close
which waits was sent to the ballot that is stored.

*MerkleTreeProofs*. Nothing is assumed of `hash_pair`, so nodes have no type;
sequences are known by their length and elements (`IsSequence`). The invariant
says that each node of the proof leads one step further on `path`, whose last
node is the one at `index` of the level reached, and that the verifier is on
that path. `NodeLeadsToParent` is the arithmetic: a node on the left, on the
right, or alone at the end of an odd level. At the end the level has one node,
so the index is 0 and the path ends at the root: `ReceiptVerifies`, the
assertion of `batches.rs:104`, for any number of votes. `TypeOK` (no index out
of bounds) is a conjunct of the invariant. `RootIsTreeRoot` compares two
recursions, level by level in the API and node by node in the definition of the
tree: `RowsAreNodes` shows by induction on the height that row k holds the nodes
of height k. `RootBindsLeaves` needs `NoCollisions`: a row follows from its
length and the row above (`RowBelow`, `RootsBind`). `OnlyItsLeafVerifies`: the
verifier computes a root from a leaf by hashes each of which tells its arguments
(`HashesExist`), so equal roots mean equal leaves.

*VoteProofFlowProofs*. First the algebra: `AnswerVerifies` and
`SimulationVerifies` are the two ways an equation of a proof comes to hold, and
`ZeroProofVerifies` and `OneProofVerifies` put them together into the four
equations and the challenge. `TwoAnswers` extracts an opening from two answers to
one first message, `SpecialSoundness` does it for a proof with two branches (two
challenges that differ in sum differ in one branch), and `SameVerdict` compares
the verifiers: they differ only in how they derive their bases
(`DerivedBases`). The invariant `FlowInv` carries the lengths and types of the
loops and what each step of the client has established so far, so that
`Completeness`, `Agreement` and `Soundness` hold for every group, hash, number of
movies and randomness.

The two properties about the sum of a vote need the folds over ciphertexts and
openings: `PointFold` and `ScalarFold` replace them by sequences of partial sums,
and `AggregateOpens` shows that the sum of the ciphertexts is opened by the sum
of the openings and encrypts the sum of the vote. The sum of a vote for one movie
is 1 (`OneChoiceTallies`), so its proof verifies (`SumProofVerifies`, `SumInv`,
`HonestVotesPass`). Conversely, a sum proof that could have been answered twice
means that the sum encrypts 1 (`SumSoundness`), a ciphertext with a known opening
has one plaintext (`OnePlaintext`, from `Generators`), and bits that sum to 1 as
scalars have one 1 among them, because no two lengths are the same scalar
(`BitsTally`): `AcceptedVotesAreChoices`.

*FrontendProofs*. `LoginInv`: a challenge that is stored is newer than all
messages its key has logged in with, and these are in order. `AdminInv` for the
chairperson has three layers. `AdminTyped` are the types. `Exist` is about
creations: from step 2 on, and wherever a handler other than a creation has
passed its first check, there are ballots; a creation that is past its own check
is alone and nothing has begun yet (`NothingBegun`), unless creations overlapped.
`Reached` says what the step and the records have behind them (`StepFacts`,
`Recorded`), and of every request under way, its sender there or not, that it is
`Sound`: what held when its button was pressed still holds (`Carried`), and what
its handler says of the decades it has been through is so (`Achieved`). Such facts
stay true while others act because the election only moves forward (`Forward`: a
closed flag stays, a flush is not undone, a winner stays), whatever batch or late
transaction lands; the only steps that take something back are those of a
creation, `StoreBallots` and `OpenElection`, and by `Exist` they come when nothing
has begun or when nothing is claimed any more. There is one lemma for what a
handler's step does (`HandlerStep`: it stays, goes on to another stage, or settles
its decade), so that each action is looked at once (`CloseStep`, `FlushStep`,
`FinalizeStep`, `CreateStep`). `TieInv`
for the tie page: while a confirmation is under way the current decade cannot
change, because nothing that changes it is enabled while submitting, nor can the
initial load come in between. `VoterInv` for the voter's pages: a page waits for
one call at a time and for none once one was answered, and a call that is under
way on a page that is still there is about what that page shows (`PageInv`):
choosing another movie needs that no call is under way, choosing another decade
or wallet makes a new page. The receipt of an answered call is new in its list,
since a list holds only hashes of answered calls, so the check for duplicates in
`save_local_receipt` never drops one (`VoteAnsweredKeeps`). The runs look at
the frontend, the theorems at its parts: whatever the frontend does to a part is
a step of that part, which is how `FrontendUsedOnce` follows from `UsedOnce`.

Only model-checked: liveness, that is `FullQueueDrains` and `HandlersAnswer` of
VotePipeline and `AdminAnswers` of Election, which need fairness and ENABLED.

## 6. Not modelled

Encryption outside the vote proofs, decryption and signatures are libraries: a
ciphertext of the program or the API is what it decrypts to, a signature is right
or wrong. Formatting, logging and status texts are left out unless a caller
decides by them. Poisoned locks are not modelled: the only assertion inside the
handlers (`batches.rs:104`) runs without a lock.

Of the frontend: the results page and the receipt views only read and render;
the private key field is left out: every button needs it filled, the vote page
clears it with every call while the chairperson's and the tie page keep it as long
as they are open, and which key is in it matters only through the answer to a
wrong one, which is there; the browser storage works and has room (`save_local_receipt`
ignores its errors); the page is not reloaded during a session, which would only
lose its signals. In ChairpersonPage the API does not restart (it does in
Election), decisions are made about decades that have votes, and only the decades
of `VotedDecades` get any. The demonstration binary of the client library with its
Merkle root, the benchmark loop of the test program, the tool that signs admin actions, the movie
tables, the unused address table and the data files have no state of their own
that the election depends on.

## 7. What is left

The modules were written in this order: BallotProgram, BallotContract,
VotePipeline with VoteLedger and their proofs; Election, MerkleLevels and
MerkleTree with its proofs; VoteSigma and VoteProofFlow with their proofs; the
four parts of the frontend, their composition and its proofs. What a further
step would take up:

1. **One decade as a specification**: none, OPEN, CLOSED, FINALIZED with a winner
   that led or was chosen, as an abstract specification that Election implements
   for each decade while creations do not overlap. `Grows` and `ElectionInv` are
   most of its proof.
2. **A restart under the chairperson's page**: the step survives it in the
   browser while the addresses and flags of the API do not.
3. **Roots in the pipeline**: `RootsTellVotes` is a hypothesis of
   `BatchIdsTellBatches` and `RootsBind` a lemma about the tree. A module that
   instantiates VotePipeline with the root of MerkleLevels would join them.
