------------------------------ MODULE Election ------------------------------
(***************************************************************************)
(* The life of an election in the API: create_ballots, close_election,     *)
(* resolve_tie, finalize_election and finalize_election_for_decade of      *)
(* handler.rs with the functions of blockchain.rs they run, over all       *)
(* decades, beside the batches that VotePipeline brings to the ballots.    *)
(*                                                                         *)
(* Every administrative request is a process; axum runs their handlers     *)
(* concurrently.  One step is one critical section or one exchange with    *)
(* the chain.  A transaction is a record of its own: it may be executed    *)
(* before its sender learns of it, after the sender has given up, or       *)
(* never.  The API may restart, which ends all handlers and forgets        *)
(* everything that is not on chain.                                        *)
(***************************************************************************)
EXTENDS BallotProgram, SequencesExt

CONSTANTS DECADE_COUNT,            \* 6 in the code
          proposal_count,          \* movies of a decade
          chairperson,             \* the payer of the API
          CreateRequests,          \* POST /api/admin/create-ballots
          CloseRequests,           \* POST /api/admin/close-election
          ResolveRequests,         \* POST /api/admin/resolve-tie
          FinalizeRequests,        \* POST /api/admin/finalize-election
          DecadeFinalizeRequests,  \* POST .../finalize-election/{decade}
          Batches,                 \* runs of create_batch_for_decade
          decade_of,               \* the decade of a batch or of a
                                   \* DecadeFinalizeRequest
          tally_of,                \* the votes for each movie in a batch
          MaxRestarts,             \* bound on restarts of the API
          None                     \* Rust's None

Decades == 0..(DECADE_COUNT - 1)
Movies == 0..(proposal_count - 1)
Finalizers == FinalizeRequests \cup DecadeFinalizeRequests
Requests == CreateRequests \cup CloseRequests \cup ResolveRequests
            \cup Finalizers \cup Batches

\* Every run of create_all_ballots_on_chain makes new keypairs.
Ballots == CreateRequests \X Decades

ZeroTally == [i \in 1..proposal_count |-> 0]

\* Requests are told apart by their route.
Routes == <<CreateRequests, CloseRequests, ResolveRequests, FinalizeRequests,
            DecadeFinalizeRequests, Batches>>

ASSUME ElectionAssumption ==
  /\ \A i, j \in DOMAIN Routes : i # j => Routes[i] \cap Routes[j] = {}
  /\ DECADE_COUNT \in Nat \ {0}
  /\ proposal_count \in 1..MAX_PROPOSALS
  /\ \A r \in Batches \cup DecadeFinalizeRequests : decade_of[r] \in Decades
  /\ \A p \in Batches : tally_of[p] \in [1..proposal_count -> Nat]
  /\ None \notin Movies \cup Ballots
  /\ MaxRestarts \in Nat

VARIABLES ballots,            \* the accounts on chain, by address
          transactions,       \* <<request, decade>> -> what it sent
          ballots_by_decade,  \* API: address or None
          election_closed,    \* ELECTION_CLOSED_BY_DECADE
          resolved_ties,      \* RESOLVED_TIES_BY_DECADE
          votes_by_decade,    \* API: the decrypted results
          pc,                 \* where the handler of each request stands
          decade,             \* its `decade_id'
          ballot,             \* its `ballot'
          resolved,           \* its `resolved_winner_index'
          results,            \* the tally it has decrypted
          status,             \* request -> decade -> the status it answers
          restarts,           \* how often the API has restarted
          decisions           \* history: <<decade, movie>> of resolve_tie

chain == <<ballots, transactions>>
api == <<ballots_by_decade, election_closed, resolved_ties, votes_by_decade>>
locals == <<pc, decade, ballot, resolved, results, status>>
history == <<restarts, decisions>>
vars == <<chain, api, locals, history>>

-----------------------------------------------------------------------------
(* What a tally decides *)

Leaders(tally) == {m \in Movies : \A n \in Movies : tally[n + 1] <= tally[m + 1]}

NoVotes(tally) == \A m \in Movies : tally[m + 1] = 0

FaultyUncheckedTie(tally, choice) ==
  {m \in Movies : /\ ~NoVotes(tally)
                  /\ Leaders(tally) = {m} \/ choice = m}

FaultyFirstOfTie(tally, choice) ==
  {m \in Leaders(tally) : /\ ~NoVotes(tally)
                          /\ \A n \in Leaders(tally) : m <= n}

\* The winner that is sent to the chain, if any: the only leader, or the leader
\* the chairperson has chosen.
FinalWinner(tally, choice) ==
  {m \in Leaders(tally) : /\ ~NoVotes(tally)
                          /\ Leaders(tally) = {m} \/ choice = m}

\* The status when none is sent.
Undecided(tally, choice) ==
  IF NoVotes(tally) THEN "NoVotes"
  ELSE IF choice = None THEN "Tie" ELSE "NotInTie"

-----------------------------------------------------------------------------
Init ==
  /\ ballots = <<>>
  /\ transactions = <<>>
  /\ ballots_by_decade = [d \in Decades |-> None]
  /\ election_closed = [d \in Decades |-> FALSE]
  /\ resolved_ties = [d \in Decades |-> None]
  /\ votes_by_decade = [d \in Decades |-> ZeroTally]
  /\ pc = [r \in Requests |-> "new"]
  /\ decade = [r \in Requests |->
                 IF r \in Batches \cup DecadeFinalizeRequests
                 THEN decade_of[r] ELSE 0]
  /\ ballot = [r \in Finalizers |-> None]
  /\ resolved = [r \in Finalizers |-> None]
  /\ results = [r \in Finalizers |-> ZeroTally]
  /\ status = [r \in CloseRequests \cup Finalizers |->
                 [d \in Decades |-> "unanswered"]]
  /\ restarts = 0
  /\ decisions = {}

-----------------------------------------------------------------------------
(* Transactions *)

\* tally is history: what the winner was computed from.
Transaction(instruction, address, winner, tally) ==
  [instruction |-> instruction, ballot |-> address, winner |-> winner,
   tally |-> tally, state |-> "sent"]

Send(r, transaction) ==
  transactions' = [t \in DOMAIN transactions \cup {<<r, decade[r]>>} |->
                     IF t = <<r, decade[r]>> THEN transaction
                                             ELSE transactions[t]]

State(r) == transactions[<<r, decade[r]>>].state

SumOf(tally) == FoldSeq(LAMBDA x, y : x + y, 0, tally)

\* Whether the program accepts a transaction.
Accepted(t) ==
  LET address == transactions[t].ballot
  IN  CASE transactions[t].instruction = "initialize" ->
             address \notin DOMAIN ballots
        [] transactions[t].instruction = "close_election" ->
             can_close(ballots[address])
        [] transactions[t].instruction = "set_final_winner" ->
             can_finalize(ballots[address], transactions[t].winner)
        [] transactions[t].instruction = "submit_rollup_batch" ->
             validate_rollup_batch(ballots[address], transactions[t].tally,
                                   SumOf(transactions[t].tally))

\* The account it leaves behind.
Executed(t) ==
  LET address == transactions[t].ballot
  IN  CASE transactions[t].instruction = "initialize" ->
             NewBallot(chairperson, proposal_count, ZeroTally)
        [] transactions[t].instruction = "close_election" ->
             AfterClose(ballots[address])
        [] transactions[t].instruction = "set_final_winner" ->
             AfterFinalize(ballots[address], transactions[t].winner)
        [] transactions[t].instruction = "submit_rollup_batch" ->
             AfterRollupBatch(ballots[address], t, transactions[t].tally,
                              SumOf(transactions[t].tally))

Execute(t) ==
  /\ transactions[t].state = "sent"
  /\ transactions' = [transactions EXCEPT ![t].state =
                        IF Accepted(t) THEN "landed" ELSE "failed"]
  /\ ballots' = IF Accepted(t)
                THEN [b \in DOMAIN ballots \cup {transactions[t].ballot} |->
                        IF b = transactions[t].ballot THEN Executed(t)
                                                      ELSE ballots[b]]
                ELSE ballots
  /\ UNCHANGED <<api, locals, history>>

-----------------------------------------------------------------------------
(* Loops over the decades *)

LastDecade(r) == decade[r] = DECADE_COUNT - 1 \/ r \in DecadeFinalizeRequests

FaultyAnswer(r, s) ==
  /\ status' = [status EXCEPT ![r][decade[r]] = s]
  /\ pc' = [pc EXCEPT ![r] = IF LastDecade(r) THEN "done" ELSE "next"]
  /\ decade' = [decade EXCEPT ![r] = IF LastDecade(r) \/ s = "NoBallot"
                                    THEN @ ELSE @ + 1]

\* The handler answers for a decade and goes on to the next one.
Answer(r, s) ==
  /\ status' = [status EXCEPT ![r][decade[r]] = s]
  /\ pc' = [pc EXCEPT ![r] = IF LastDecade(r) THEN "done" ELSE "next"]
  /\ decade' = [decade EXCEPT ![r] = IF LastDecade(r) THEN @ ELSE @ + 1]

-----------------------------------------------------------------------------
(* create_ballots *)

CheckBallots(c) ==
  /\ pc[c] = "new"
  /\ pc' = [pc EXCEPT ![c] =
              IF \A d \in Decades : ballots_by_decade[d] # None
              THEN "done" ELSE "next"]
  /\ UNCHANGED <<chain, api, decade, ballot, resolved, results, status,
                 history>>

SendInitialize(c) ==
  /\ pc[c] = "next"
  /\ Send(c, Transaction("initialize", <<c, decade[c]>>, None, ZeroTally))
  /\ pc' = [pc EXCEPT ![c] = "awaiting"]
  /\ UNCHANGED <<ballots, api, decade, ballot, resolved, results, status,
                 history>>

FaultyCreateConfirmed(c) == TRUE

CreateConfirmed(c) == State(c) = "landed"

\* One error ends the whole request; the addresses so far are forgotten.
FinishInitialize(c) ==
  /\ pc[c] = "awaiting"
  /\ \/ /\ CreateConfirmed(c)
        /\ pc' = [pc EXCEPT ![c] = IF LastDecade(c) THEN "storing" ELSE "next"]
        /\ decade' = [decade EXCEPT ![c] = IF LastDecade(c) THEN @ ELSE @ + 1]
     \/ /\ pc' = [pc EXCEPT ![c] = "done"]
        /\ UNCHANGED decade
  /\ UNCHANGED <<chain, api, ballot, resolved, results, status, history>>

StoreBallots(c) ==
  /\ pc[c] = "storing"
  /\ ballots_by_decade' = [d \in Decades |-> <<c, d>>]
  /\ pc' = [pc EXCEPT ![c] = "opening"]
  /\ UNCHANGED <<chain, election_closed, resolved_ties, votes_by_decade,
                 decade, ballot, resolved, results, status, history>>

OpenElection(c) ==
  /\ pc[c] = "opening"
  /\ election_closed' = [d \in Decades |-> FALSE]
  /\ pc' = [pc EXCEPT ![c] = "clearing"]
  /\ UNCHANGED <<chain, ballots_by_decade, resolved_ties, votes_by_decade,
                 decade, ballot, resolved, results, status, history>>

ClearTies(c) ==
  /\ pc[c] = "clearing"
  /\ resolved_ties' = [d \in Decades |-> None]
  /\ pc' = [pc EXCEPT ![c] = "done"]
  /\ UNCHANGED <<chain, ballots_by_decade, election_closed, votes_by_decade,
                 decade, ballot, resolved, results, status, history>>

-----------------------------------------------------------------------------
(* close_election *)

SendClose(k) ==
  LET address == ballots_by_decade[decade[k]]
  IN  /\ pc[k] \in {"new", "next"}
      /\ IF address = None
         THEN /\ Answer(k, "NoBallot")
              /\ UNCHANGED transactions
         ELSE /\ Send(k, Transaction("close_election", address, None, ZeroTally))
              /\ pc' = [pc EXCEPT ![k] = "awaiting"]
              /\ UNCHANGED <<decade, status>>
      /\ UNCHANGED <<ballots, api, ballot, resolved, results, history>>

FaultyCloseConfirmed(k) == TRUE

\* The program refuses a close only when the ballot is not open, which
\* close_ballot_on_chain takes for success.
CloseConfirmed(k) == State(k) \in {"landed", "failed"}

FinishClose(k) ==
  /\ pc[k] = "awaiting"
  /\ \/ /\ CloseConfirmed(k)
        /\ election_closed' = [election_closed EXCEPT ![decade[k]] = TRUE]
        /\ Answer(k, "Closed")
     \/ /\ Answer(k, "Error")
        /\ UNCHANGED election_closed
  /\ UNCHANGED <<chain, ballots_by_decade, resolved_ties, votes_by_decade,
                 ballot, resolved, results, history>>

-----------------------------------------------------------------------------
(* resolve_tie: a valid decade and movie, whatever the tally *)

ResolveTie(q) ==
  /\ pc[q] = "new"
  /\ \E d \in Decades, winner_index \in Movies :
       /\ resolved_ties' = [resolved_ties EXCEPT ![d] = winner_index]
       /\ decisions' = decisions \cup {<<d, winner_index>>}
  /\ pc' = [pc EXCEPT ![q] = "done"]
  /\ UNCHANGED <<chain, ballots_by_decade, election_closed, votes_by_decade,
                 decade, ballot, resolved, results, status, restarts>>

-----------------------------------------------------------------------------
(* finalize_election, finalize_election_for_decade *)

\* ballot_exists, then is_decade_closed: a ballot that exists stays.
CheckDecade(f) ==
  /\ f \in FinalizeRequests
  /\ pc[f] \in {"new", "next"}
  /\ \/ /\ ballots_by_decade[decade[f]] = None
        /\ Answer(f, "NoBallot")
     \/ /\ ballots_by_decade[decade[f]] # None
        /\ ~election_closed[decade[f]]
        /\ Answer(f, "NotClosed")
     \/ /\ ballots_by_decade[decade[f]] # None
        /\ election_closed[decade[f]]
        /\ pc' = [pc EXCEPT ![f] = "reading"]
        /\ UNCHANGED <<decade, status>>
  /\ UNCHANGED <<chain, api, ballot, resolved, results, history>>

\* finalize_decade_from_state; the route for one decade starts here.
ReadBallot(f) ==
  /\ pc[f] = "reading" \/ (f \in DecadeFinalizeRequests /\ pc[f] = "new")
  /\ ballot' = [ballot EXCEPT ![f] = ballots_by_decade[decade[f]]]
  /\ IF ballots_by_decade[decade[f]] = None
     THEN Answer(f, "NoBallot")
     ELSE /\ pc' = [pc EXCEPT ![f] = "tie"]
          /\ UNCHANGED <<decade, status>>
  /\ UNCHANGED <<chain, api, resolved, results, history>>

ReadResolvedTie(f) ==
  /\ pc[f] = "tie"
  /\ resolved' = [resolved EXCEPT ![f] = resolved_ties[decade[f]]]
  /\ pc' = [pc EXCEPT ![f] = "fetching"]
  /\ UNCHANGED <<chain, api, decade, ballot, results, status, history>>

\* finalize_election_from_blockchain up to the transaction: fetch, decrypt,
\* decide.
FetchTally(f) ==
  LET tally == ballots[ballot[f]].encrypted_tally
  IN  /\ pc[f] = "fetching"
      /\ \E winner \in FinalWinner(tally, resolved[f]) :
           Send(f, Transaction("set_final_winner", ballot[f], winner, tally))
      /\ results' = [results EXCEPT ![f] = tally]
      /\ pc' = [pc EXCEPT ![f] = "awaiting"]
      /\ UNCHANGED <<ballots, api, decade, ballot, resolved, status, history>>

\* Only finalize_election keeps the results.
NextAfterResults(f) == IF f \in FinalizeRequests THEN "saving" ELSE "done"

FetchUndecided(f) ==
  LET tally == ballots[ballot[f]].encrypted_tally
  IN  /\ pc[f] = "fetching"
      /\ FinalWinner(tally, resolved[f]) = {}
      /\ results' = [results EXCEPT ![f] = tally]
      /\ status' = [status EXCEPT ![f][decade[f]] = Undecided(tally, resolved[f])]
      /\ pc' = [pc EXCEPT ![f] = NextAfterResults(f)]
      /\ UNCHANGED <<chain, api, decade, ballot, resolved, history>>

FaultyFetchFails(f) ==
  /\ pc[f] = "fetching"
  /\ status' = [status EXCEPT ![f][decade[f]] = "Error"]
  /\ pc' = [pc EXCEPT ![f] = NextAfterResults(f)]
  /\ UNCHANGED <<chain, api, decade, ballot, resolved, results, history>>

\* The answer to an error has no results, so none are kept.
FetchFails(f) ==
  /\ pc[f] = "fetching"
  /\ Answer(f, "Error")
  /\ UNCHANGED <<chain, api, ballot, resolved, results, history>>

FaultyWinnerConfirmed(f) == State(f) \in {"landed", "failed"}

WinnerConfirmed(f) == State(f) = "landed"

FinishFinalize(f) ==
  /\ pc[f] = "awaiting"
  /\ \/ /\ WinnerConfirmed(f)
        /\ status' = [status EXCEPT ![f][decade[f]] = "Finalized"]
        /\ pc' = [pc EXCEPT ![f] = NextAfterResults(f)]
        /\ UNCHANGED decade
     \/ Answer(f, "Error")
  /\ UNCHANGED <<chain, api, ballot, resolved, results, history>>

SaveResults(f) ==
  /\ pc[f] = "saving"
  /\ votes_by_decade' = [votes_by_decade EXCEPT ![decade[f]] = results[f]]
  /\ Answer(f, status[f][decade[f]])
  /\ UNCHANGED <<chain, ballots_by_decade, election_closed, resolved_ties,
                 ballot, resolved, results, history>>

-----------------------------------------------------------------------------
(* The votes of one batch: VotePipeline from CheckOpen to SubmitRollup *)

AcceptVotes(p) ==
  /\ pc[p] = "new"
  /\ ballots_by_decade[decade[p]] # None
  /\ ~election_closed[decade[p]]
  /\ pc' = [pc EXCEPT ![p] = "queued"]
  /\ UNCHANGED <<chain, api, decade, ballot, resolved, results, status,
                 history>>

SendRollup(p) ==
  /\ pc[p] = "queued"
  /\ Send(p, Transaction("submit_rollup_batch", ballots_by_decade[decade[p]],
                         None, tally_of[p]))
  /\ pc' = [pc EXCEPT ![p] = "done"]
  /\ UNCHANGED <<ballots, api, decade, ballot, resolved, results, status,
                 history>>

-----------------------------------------------------------------------------
(* The API process ends and starts again. *)

Restart ==
  /\ restarts < MaxRestarts
  /\ restarts' = restarts + 1
  /\ ballots_by_decade' = [d \in Decades |-> None]
  /\ election_closed' = [d \in Decades |-> FALSE]
  /\ resolved_ties' = [d \in Decades |-> None]
  /\ votes_by_decade' = [d \in Decades |-> ZeroTally]
  /\ pc' = [r \in Requests |-> IF pc[r] = "new" THEN "new" ELSE "done"]
  /\ UNCHANGED <<chain, decade, ballot, resolved, results, status, decisions>>

-----------------------------------------------------------------------------
Create(c) ==
  \/ CheckBallots(c)
  \/ SendInitialize(c)
  \/ FinishInitialize(c)
  \/ StoreBallots(c)
  \/ OpenElection(c)
  \/ ClearTies(c)

Close(k) == SendClose(k) \/ FinishClose(k)

Finalize(f) ==
  \/ CheckDecade(f)
  \/ ReadBallot(f)
  \/ ReadResolvedTie(f)
  \/ FetchTally(f)
  \/ FetchUndecided(f)
  \/ FetchFails(f)
  \/ FinishFinalize(f)
  \/ SaveResults(f)

Batch(p) == AcceptVotes(p) \/ SendRollup(p)

Next ==
  \/ \E c \in CreateRequests : Create(c)
  \/ \E k \in CloseRequests : Close(k)
  \/ \E q \in ResolveRequests : ResolveTie(q)
  \/ \E f \in Finalizers : Finalize(f)
  \/ \E p \in Batches : Batch(p)
  \/ \E t \in DOMAIN transactions : Execute(t)
  \/ Restart

Spec == Init /\ [][Next]_vars

\* A handler that has started keeps running, as long as the API does.
FairSpec ==
  /\ Spec
  /\ \A c \in CreateRequests : WF_vars(pc[c] # "new" /\ Create(c))
  /\ \A k \in CloseRequests : WF_vars(pc[k] # "new" /\ Close(k))
  /\ \A f \in Finalizers : WF_vars(pc[f] # "new" /\ Finalize(f))

-----------------------------------------------------------------------------
(* Types *)

Step == {"new", "next", "awaiting", "storing", "opening", "clearing",
         "reading", "tie", "fetching", "saving", "queued", "done"}

Statuses == {"unanswered", "NoBallot", "Closed", "NotClosed", "Error",
             "NoVotes", "Tie", "NotInTie", "Finalized"}

Tally == [1..proposal_count -> Nat]

TransactionType ==
  [instruction : {"initialize", "close_election", "set_final_winner",
                  "submit_rollup_batch"},
   ballot      : Ballots,
   winner      : Movies \cup {None},
   tally       : Tally,
   state       : {"sent", "landed", "failed"}]

(* Accounts, transactions, the API's state and the handlers' variables hold *)
(* values of their types, and every address the API remembers, or a handler *)
(* is about to use, is that of an account: no fetch and no transaction ever *)
(* names a ballot that was not created.                                     *)
TypeOK ==
  /\ DOMAIN ballots \subseteq Ballots
  /\ \A b \in DOMAIN ballots :
       /\ ballots[b] \in BallotAccount({chairperson}, {ballots[b].merkle_root})
       /\ ballots[b].encrypted_tally \in Tally
       /\ ballots[b].proposal_count = proposal_count
  /\ DOMAIN transactions \subseteq Requests \X Decades
  /\ \A t \in DOMAIN transactions :
       /\ transactions[t] \in TransactionType
       /\ transactions[t].instruction # "initialize" =>
            transactions[t].ballot \in DOMAIN ballots
  /\ ballots_by_decade \in [Decades -> DOMAIN ballots \cup {None}]
  /\ election_closed \in [Decades -> BOOLEAN]
  /\ resolved_ties \in [Decades -> Movies \cup {None}]
  /\ votes_by_decade \in [Decades -> Tally]
  /\ pc \in [Requests -> Step]
  /\ decade \in [Requests -> Decades]
  /\ ballot \in [Finalizers -> DOMAIN ballots \cup {None}]
  /\ \A f \in Finalizers : pc[f] \in {"tie", "fetching"} => ballot[f] # None
  /\ resolved \in [Finalizers -> Movies \cup {None}]
  /\ results \in [Finalizers -> Tally]
  /\ status \in [CloseRequests \cup Finalizers -> [Decades -> Statuses]]
  /\ restarts \in 0..MaxRestarts
  /\ decisions \subseteq Decades \X Movies

-----------------------------------------------------------------------------
(* Safety *)

Behind(tally, b) ==
  \A m \in Movies : tally[m + 1] <= ballots[b].encrypted_tally[m + 1]

Winning(t, b) ==
  /\ transactions[t].instruction = "set_final_winner"
  /\ transactions[t].state = "landed"
  /\ transactions[t].ballot = b
  /\ transactions[t].winner = ballots[b].final_winner_index

(* The winner recorded on chain had most votes, and some, in a tally that  *)
(* the ballot has had, whichever of several finalizations landed, however  *)
(* late, and whatever was decided about ties of another tally.             *)
WinnerHadMostVotes ==
  \A b \in DOMAIN ballots : ballots[b].status = ELECTION_FINALIZED =>
    \E t \in DOMAIN transactions :
      /\ Winning(t, b)
      /\ ~NoVotes(transactions[t].tally)
      /\ ballots[b].final_winner_index \in Leaders(transactions[t].tally)
      /\ Behind(transactions[t].tally, b)

(* No tie is decided by the program: where several movies led, the         *)
(* recorded winner is one the chairperson has chosen for that decade       *)
(* (blockchain.rs:235-258).                                                *)
TiesDecidedByChairperson ==
  \A b \in DOMAIN ballots : ballots[b].status = ELECTION_FINALIZED =>
    \E t \in DOMAIN transactions :
      /\ Winning(t, b)
      /\ \/ Leaders(transactions[t].tally) = {ballots[b].final_winner_index}
         \/ <<b[2], ballots[b].final_winner_index>> \in decisions

(* The closed flag of the API is never ahead of the chain, although closes *)
(* fail, time out or land late: finalize_election trusts it                *)
(* (handler.rs:1007).                                                      *)
ClosedFlagBehindChain ==
  \A d \in Decades : election_closed[d] =>
    /\ ballots_by_decade[d] # None
    /\ ballots[ballots_by_decade[d]].status # ELECTION_OPEN

(* A decade is reported as finalized only if the winner this request has   *)
(* decided on is the one on chain.                                         *)
FinalizedMeansRecorded ==
  \A f \in Finalizers, d \in Decades : status[f][d] = "Finalized" =>
    LET t == transactions[<<f, d>>]
    IN  /\ ballots[t.ballot].status = ELECTION_FINALIZED
        /\ ballots[t.ballot].final_winner_index = t.winner

(* The results the API shows for a decade never exceed those on chain, and *)
(* are of a ballot of that decade.                                         *)
ResultsBehindChain ==
  \A d \in Decades : votes_by_decade[d] # ZeroTally =>
    \E b \in DOMAIN ballots : b[2] = d /\ Behind(votes_by_decade[d], b)

-----------------------------------------------------------------------------
(* Liveness *)

(* Every administrative request that has started is answered, over all     *)
(* decades, whatever fails on the way.                                     *)
AdminAnswers ==
  \A r \in CreateRequests \cup CloseRequests \cup Finalizers :
    pc[r] # "new" ~> pc[r] = "done"

-----------------------------------------------------------------------------
(* What the documentation says *)

(* handler.rs:778: "Ballots already exist. The election is already ready." *)
(* Creating ballots is refused when there are some.                        *)
ExistingBallotsStay ==
  [][\A d \in Decades :
       ballots_by_decade[d] # None /\ restarts' = restarts =>
         ballots_by_decade'[d] = ballots_by_decade[d]]_vars
=============================================================================
