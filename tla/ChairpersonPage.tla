--------------------------- MODULE ChairpersonPage ---------------------------
(***************************************************************************)
(* The six steps through which the chairperson takes an election           *)
(* (chairperson.rs), and the handlers of the API behind their buttons      *)
(* (handler.rs, blockchain.rs).                                            *)
(*                                                                         *)
(* The step is a signal of App, the rest of the page is created anew when  *)
(* it is opened.  A request that is under way when the page is left still  *)
(* sets the step when it is answered.                                      *)
(*                                                                         *)
(* A handler takes its decades in turn.  It runs in steps from one await   *)
(* to the next, in create_ballots from one lock to the next, between which *)
(* other handlers run and batches of votes reach the chain.  A transaction *)
(* takes effect when its sender learns that it has, or later, after its    *)
(* sender has given up on it.  Addresses, transactions and tallies are     *)
(* followed one by one in Election; here a ballot is what has become of it.*)
(***************************************************************************)
EXTENDS Naturals

CONSTANTS DECADE_COUNT,   \* 6 in the code
          VotedDecades,   \* bound: decades in which votes are cast
          Tasks,          \* bound: as many requests are under way at a time
          MaxFaults,      \* bound: what goes wrong
          NoTask

BallotDecades == 0..(DECADE_COUNT - 1)

ASSUME AdminAssumption == /\ DECADE_COUNT \in Nat \ {0}
                          /\ VotedDecades \subseteq BallotDecades
                          /\ MaxFaults \in Nat

Actions == {"create", "close", "flush", "finalize"}

\* What a decrypted tally says.
Tallies == {"no votes", "leader", "tie"}

VARIABLES current_step,   \* App: 1..7
          admin_page,     \* the page on screen
          submitting,     \* ChairpersonPage
          detected_ties,  \* ChairpersonPage
          task,           \* requests under way, with their handlers
          election,       \* API and chain, by decade
          ignored,        \* history: actions whose refusal was taken for success
          overlapped,     \* history: two creations ran at the same time
          faults          \* history: how often something has gone wrong

admin_vars == <<current_step, admin_page, submitting, detected_ties, task,
                election, ignored, overlapped, faults>>

\* closed is ELECTION_CLOSED_BY_DECADE, resolved whether RESOLVED_TIES_BY_DECADE
\* has a decision; the rest is about the ballot whose address the API has.
\* unconfirmed are transactions its senders gave up on and that may still land.
\* History: flushed, that flush_batches came by after the close; found_empty,
\* that a finalization after it found no votes.
NoBallot == [status |-> "none", closed |-> FALSE, resolved |-> FALSE,
             tally |-> "no votes", unconfirmed |-> {},
             flushed |-> FALSE, found_empty |-> FALSE]

AdminInit ==
  /\ current_step = 1
  /\ admin_page = "chairperson"
  /\ submitting = FALSE
  /\ detected_ties = 0
  /\ task = [t \in Tasks |-> NoTask]
  /\ election = [d \in BallotDecades |-> NoBallot]
  /\ ignored = {}
  /\ overlapped = FALSE
  /\ faults = 0

AllExist == \A d \in BallotDecades : election[d].status # "none"

-----------------------------------------------------------------------------
(* The buttons *)

FaultyStepsOf(action) ==
  CASE action = "create" -> {1} [] action = "close" -> {2}
    [] action = "flush" -> {3, 4} [] action = "finalize" -> {3, 4, 6}

\* The steps at which the button of an action is enabled.
StepsOf(action) ==
  CASE action = "create" -> {1} [] action = "close" -> {2}
    [] action = "flush" -> {3} [] action = "finalize" -> {4, 6}

\* owner is whose task waits for the answer: the page on screen, one that was
\* left, or nobody, when the connection has failed.  The rest is the handler's:
\* where it stands, its decade_id, the decision it has read, whether its ballot
\* has been replaced meanwhile, and what it will answer.
NewRequest(action) ==
  [action |-> action, owner |-> "page", stage |-> "sent", decade |-> 0,
   choice |-> FALSE, replaced |-> FALSE, refused |-> FALSE, ties |-> 0, errors |-> 0]

Click(action, t) ==
  /\ admin_page = "chairperson"
  /\ ~submitting
  /\ current_step \in StepsOf(action)
  /\ task[t] = NoTask
  /\ task' = [task EXCEPT ![t] = NewRequest(action)]
  /\ submitting' = TRUE
  /\ detected_ties' = IF action = "create" THEN 0 ELSE detected_ties
  /\ UNCHANGED <<current_step, admin_page, election, ignored, overlapped, faults>>

OpenTieResolution ==
  /\ admin_page = "chairperson"
  /\ ~submitting
  /\ current_step = 5
  /\ detected_ties > 0
  /\ current_step' = 6
  /\ admin_page' = "tie-resolution"
  /\ detected_ties' = 0
  /\ UNCHANGED <<submitting, task, election, ignored, overlapped, faults>>

\* By the navbar; back by connecting the wallet, or from the tie page.
Leave ==
  /\ admin_page # "elsewhere"
  /\ admin_page' = "elsewhere"
  /\ submitting' = FALSE
  /\ detected_ties' = 0
  /\ task' = [t \in Tasks |->
                IF task[t] # NoTask /\ task[t].owner = "page"
                THEN [task[t] EXCEPT !.owner = "left"] ELSE task[t]]
  /\ UNCHANGED <<current_step, election, ignored, overlapped, faults>>

Enter ==
  /\ admin_page # "chairperson"
  /\ admin_page' = "chairperson"
  /\ UNCHANGED <<current_step, submitting, detected_ties, task, election,
                 ignored, overlapped, faults>>

-----------------------------------------------------------------------------
(* The handlers of the API *)

\* A key, a connection, a transaction or a read of the chain fails, or two
\* creations overlap.
Fault == faults < MaxFaults /\ faults' = faults + 1

page_vars == <<current_step, admin_page, submitting, detected_ties, ignored>>

At(t, action, stages) == /\ task[t] # NoTask
                         /\ task[t].action = action
                         /\ task[t].stage \in stages

\* A handler goes on as request; nobody may be there to receive its answer.
Continue(t, request) ==
  task' = [task EXCEPT ![t] =
             IF request.stage = "answered" /\ request.owner = "nobody"
             THEN NoTask ELSE request]

Refuse(request) == [request EXCEPT !.refused = TRUE]
Fail(request) == [request EXCEPT !.errors = @ + 1]

\* The loop over the decades.
NextDecade(request) ==
  [request EXCEPT !.decade = @ + 1, !.replaced = FALSE,
                  !.stage = IF request.decade + 1 < DECADE_COUNT THEN "next"
                                                               ELSE "answered"]

\* The key was a wrong one: an answer without results, with HTTP 200.
Unauthorized(t) ==
  /\ task[t] # NoTask
  /\ task[t].stage = "sent"
  /\ Continue(t, [Refuse(task[t]) EXCEPT !.stage = "answered"])
  /\ UNCHANGED <<page_vars, election, overlapped>>
  /\ Fault

Creating(t) == At(t, "create", {"creating", "opening", "clearing"})

\* all_ballots_exist.
CheckBallots(t) ==
  /\ At(t, "create", {"sent"})
  /\ Continue(t, [task[t] EXCEPT !.stage = IF AllExist THEN "answered" ELSE "creating"])
  /\ \/ /\ ~\E s \in Tasks : Creating(s)
        /\ UNCHANGED <<overlapped, faults>>
     \/ /\ \E s \in Tasks : Creating(s)
        /\ overlapped' = TRUE
        /\ Fault
  /\ UNCHANGED <<page_vars, election>>

\* "Blockchain error: ..."
CreateFails(t) ==
  /\ At(t, "create", {"creating"})
  /\ Continue(t, [Refuse(task[t]) EXCEPT !.stage = "answered"])
  /\ UNCHANGED <<page_vars, election, overlapped>>
  /\ Fault

\* The addresses of the new ballots.  Handlers that have sent a transaction to
\* an old ballot, or are about to, still mean that one.
StoreBallots(t) ==
  /\ At(t, "create", {"creating"})
  /\ election' = [d \in BallotDecades |->
                    [NoBallot EXCEPT !.status = "OPEN",
                                     !.closed = election[d].closed,
                                     !.resolved = election[d].resolved]]
  /\ task' = [s \in Tasks |->
                IF s = t THEN [task[t] EXCEPT !.stage = "opening"]
                ELSE IF task[s] # NoTask /\ task[s].stage \in {"fetching", "awaiting"}
                     THEN [task[s] EXCEPT !.replaced = TRUE] ELSE task[s]]
  /\ UNCHANGED <<page_vars, overlapped, faults>>

OpenElection(t) ==
  /\ At(t, "create", {"opening"})
  /\ election' = [d \in BallotDecades |-> [election[d] EXCEPT !.closed = FALSE]]
  /\ Continue(t, [task[t] EXCEPT !.stage = "clearing"])
  /\ UNCHANGED <<page_vars, overlapped, faults>>

ClearTies(t) ==
  /\ At(t, "create", {"clearing"})
  /\ election' = [d \in BallotDecades |-> [election[d] EXCEPT !.resolved = FALSE]]
  /\ Continue(t, [task[t] EXCEPT !.stage = "answered"])
  /\ UNCHANGED <<page_vars, overlapped, faults>>

Ballot(t) == election[task[t].decade]

\* What the handler of t does to the decade it is at.
Becomes(t, decade) == election' = [election EXCEPT ![task[t].decade] = decade]

SendClose(t) ==
  /\ At(t, "close", {"sent", "next"})
  /\ Continue(t, IF Ballot(t).status = "none" THEN NextDecade(Refuse(task[t]))
                 ELSE [task[t] EXCEPT !.stage = "awaiting"])
  /\ UNCHANGED <<page_vars, election, overlapped, faults>>

\* A ballot that is not open any more refuses to close, which is taken for
\* success.
CloseConfirmed(t) ==
  /\ At(t, "close", {"awaiting"})
  /\ Becomes(t, [Ballot(t) EXCEPT !.closed = TRUE,
                   !.status = IF @ = "OPEN" /\ ~task[t].replaced THEN "CLOSED" ELSE @])
  /\ Continue(t, NextDecade(task[t]))
  /\ UNCHANGED <<page_vars, overlapped, faults>>

\* The sender of a transaction gives up on it; it may land later, or never.
Unconfirmed(t, transaction) ==
  Becomes(t, [Ballot(t) EXCEPT !.unconfirmed =
                IF task[t].replaced THEN @ ELSE @ \cup {transaction}])

CloseFails(t) ==
  /\ At(t, "close", {"awaiting"})
  /\ Unconfirmed(t, "close_election")
  /\ Continue(t, NextDecade(Refuse(task[t])))
  /\ UNCHANGED <<page_vars, overlapped>>
  /\ Fault

\* create_batch_for_decade has taken what was pending, if anything was.  Its
\* batch lands by RollupLands, or not at all.
FlushDecade(t) ==
  /\ At(t, "flush", {"sent", "next"})
  /\ Ballot(t).status # "none"
  /\ Becomes(t, [Ballot(t) EXCEPT !.flushed = @ \/ Ballot(t).closed])
  /\ Continue(t, NextDecade(task[t]))
  /\ UNCHANGED <<page_vars, overlapped, faults>>

NothingToFlush(t) ==
  /\ At(t, "flush", {"sent", "next"})
  /\ Ballot(t).status = "none"
  /\ Continue(t, NextDecade(Refuse(task[t])))
  /\ UNCHANGED <<page_vars, election, overlapped, faults>>

\* An error of create_batch_for_decade.
FlushFails(t) ==
  /\ At(t, "flush", {"sent", "next"})
  /\ Continue(t, NextDecade(Refuse(task[t])))
  /\ UNCHANGED <<page_vars, election, overlapped>>
  /\ Fault

\* From ballot_exists and is_decade_closed to the address of the ballot and the
\* decision about a tie: nothing is awaited in between.
CheckDecade(t) ==
  /\ At(t, "finalize", {"sent", "next"})
  /\ Continue(t, IF Ballot(t).status # "none" /\ Ballot(t).closed
                 THEN [task[t] EXCEPT !.stage = "fetching",
                                      !.choice = Ballot(t).resolved]
                 ELSE NextDecade(Fail(task[t])))
  /\ UNCHANGED <<page_vars, election, overlapped, faults>>

\* What the chain says of the ballot of t: nothing is known of a replaced one.
Finds(t, tally) == task[t].replaced \/ Ballot(t).tally = tally

FetchNoVotes(t) ==
  /\ At(t, "finalize", {"fetching"})
  /\ Finds(t, "no votes")
  /\ Becomes(t, [Ballot(t) EXCEPT !.found_empty =
                   @ \/ (Ballot(t).flushed /\ ~task[t].replaced)])
  /\ Continue(t, NextDecade(task[t]))
  /\ UNCHANGED <<page_vars, overlapped, faults>>

FetchTie(t) ==
  /\ At(t, "finalize", {"fetching"})
  /\ Finds(t, "tie")
  /\ ~task[t].choice
  /\ Continue(t, NextDecade([task[t] EXCEPT !.ties = @ + 1]))
  /\ UNCHANGED <<page_vars, election, overlapped, faults>>

\* A movie leads, or the one that was chosen is among the leaders.
SendWinner(t) ==
  /\ At(t, "finalize", {"fetching"})
  /\ Finds(t, "leader") \/ (Finds(t, "tie") /\ task[t].choice)
  /\ Continue(t, [task[t] EXCEPT !.stage = "awaiting"])
  /\ UNCHANGED <<page_vars, election, overlapped, faults>>

\* The chain cannot be read, or the movie that was chosen is not a leader.
FetchFails(t) ==
  /\ At(t, "finalize", {"fetching"})
  /\ Continue(t, NextDecade(Fail(task[t])))
  /\ UNCHANGED <<page_vars, election, overlapped>>
  /\ Fault

FinalizeConfirmed(t) ==
  /\ At(t, "finalize", {"awaiting"})
  /\ \/ /\ task[t].replaced
        /\ UNCHANGED election
     \/ /\ ~task[t].replaced
        /\ Ballot(t).status = "CLOSED"
        /\ Becomes(t, [Ballot(t) EXCEPT !.status = "FINALIZED"])
  /\ Continue(t, NextDecade(task[t]))
  /\ UNCHANGED <<page_vars, overlapped, faults>>

\* The program refuses a winner for a ballot that is not closed, or has one.
WinnerRefused(t) ==
  /\ At(t, "finalize", {"awaiting"})
  /\ task[t].replaced \/ Ballot(t).status # "CLOSED"
  /\ Continue(t, NextDecade(Fail(task[t])))
  /\ UNCHANGED <<page_vars, election, overlapped, faults>>

WinnerFails(t) ==
  /\ At(t, "finalize", {"awaiting"})
  /\ Unconfirmed(t, "set_final_winner")
  /\ Continue(t, NextDecade(Fail(task[t])))
  /\ UNCHANGED <<page_vars, overlapped>>
  /\ Fault

\* resolve_tie, which looks at neither ballot nor tally; without votes its
\* decision says nothing.  When the page of the ties calls it is in TiePage.
StoreDecision(d) ==
  /\ election[d].tally # "no votes"
  /\ election' = [election EXCEPT ![d].resolved = TRUE]
  /\ UNCHANGED <<page_vars, task, overlapped, faults>>

-----------------------------------------------------------------------------
(* The chain *)

Landed(ballot, transaction) ==
  [ballot EXCEPT !.unconfirmed = @ \ {transaction},
                 !.status = IF transaction = "close_election" /\ @ = "OPEN"
                            THEN "CLOSED"
                            ELSE IF transaction = "set_final_winner" /\ @ = "CLOSED"
                            THEN "FINALIZED" ELSE @]

\* A transaction that nobody waits for any more.
TransactionLands(d, transaction) ==
  /\ transaction \in election[d].unconfirmed
  /\ election' = [election EXCEPT ![d] = Landed(@, transaction)]
  /\ UNCHANGED <<page_vars, task, overlapped, faults>>

\* A batch of votes, whatever the status of the ballot: votes that were taken
\* before the close, or passed submit_vote's check before it.
RollupLands(d) ==
  /\ election[d].status # "none"
  /\ \E tally \in {"leader", "tie"} :
       election' = [election EXCEPT ![d].tally = tally]
  /\ UNCHANGED <<page_vars, task, overlapped, faults>>

-----------------------------------------------------------------------------
(* The answers *)

\* Every Ok answer of the first three leads to the next step, whatever it says.
NextStep(request) ==
  CASE request.action = "create" -> 2
    [] request.action = "close" -> 3
    [] request.action = "flush" -> 4
    [] request.action = "finalize" ->
         IF request.ties > 0 THEN 5
         ELSE IF request.errors = 0 THEN 7 ELSE current_step

FaultyDetectedTies(request) ==
  IF request.action = "finalize" /\ request.errors = 0 THEN request.ties
                                                       ELSE detected_ties

DetectedTies(request) ==
  IF request.action = "finalize" THEN request.ties ELSE detected_ties

Answered(t) ==
  /\ task[t] # NoTask
  /\ task[t].stage = "answered"
  /\ current_step' = NextStep(task[t])
  /\ IF task[t].owner = "page"
     THEN /\ submitting' = FALSE
          /\ detected_ties' = DetectedTies(task[t])
     ELSE UNCHANGED <<submitting, detected_ties>>
  /\ ignored' = IF task[t].refused THEN ignored \cup {task[t].action} ELSE ignored
  /\ task' = [task EXCEPT ![t] = NoTask]
  /\ UNCHANGED <<admin_page, election, overlapped, faults>>

\* The connection fails, on the way to the API or back.
RequestFails(t) ==
  /\ task[t] # NoTask
  /\ task[t].owner # "nobody"
  /\ submitting' = (submitting /\ task[t].owner # "page")
  /\ task' = [task EXCEPT ![t] =
                IF @.stage = "answered" THEN NoTask ELSE [@ EXCEPT !.owner = "nobody"]]
  /\ UNCHANGED <<current_step, admin_page, detected_ties, election, ignored,
                 overlapped>>
  /\ Fault

Transaction(action) ==
  IF action = "close" THEN "close_election" ELSE "set_final_winner"

\* A request that never arrives, or a handler that is dropped where it awaits
\* when its connection is gone.
HandlerDropped(t) ==
  /\ task[t] # NoTask
  /\ task[t].owner = "nobody"
  /\ task[t].stage \in {"sent", "creating", "fetching", "awaiting"}
  /\ IF task[t].stage = "awaiting" THEN Unconfirmed(t, Transaction(task[t].action))
                                   ELSE UNCHANGED election
  /\ task' = [task EXCEPT ![t] = NoTask]
  /\ UNCHANGED <<page_vars, overlapped, faults>>

Create(t) == \/ CheckBallots(t) \/ CreateFails(t) \/ StoreBallots(t)
             \/ OpenElection(t) \/ ClearTies(t)

Close(t) == SendClose(t) \/ CloseConfirmed(t) \/ CloseFails(t)

Flush(t) == FlushDecade(t) \/ NothingToFlush(t) \/ FlushFails(t)

Finalize(t) == \/ CheckDecade(t) \/ FetchNoVotes(t) \/ FetchTie(t) \/ SendWinner(t)
               \/ FetchFails(t) \/ FinalizeConfirmed(t) \/ WinnerRefused(t)
               \/ WinnerFails(t)

AdminNext ==
  \/ \E action \in Actions, t \in Tasks : Click(action, t)
  \/ OpenTieResolution \/ Leave \/ Enter
  \/ \E t \in Tasks : \/ Unauthorized(t) \/ Create(t) \/ Close(t)
                      \/ Flush(t) \/ Finalize(t)
                      \/ Answered(t) \/ RequestFails(t) \/ HandlerDropped(t)
  \/ \E d \in VotedDecades : StoreDecision(d) \/ RollupLands(d)
  \/ \E d \in BallotDecades, transaction \in {"close_election", "set_final_winner"} :
       TransactionLands(d, transaction)

AdminSpec == AdminInit /\ [][AdminNext]_admin_vars

-----------------------------------------------------------------------------
(* Properties *)

\* None of these actions was refused without the page noticing.
Heeded(actions) == ~overlapped /\ ignored \cap actions = {}

(* Unless two creations overlap, or the page has taken the refusal of an   *)
(* action for its success, the step says what the election has been        *)
(* through: ballots from step 2 on, all closed from step 3 on, the votes   *)
(* of all flushed after their close from step 4 on, no winner recorded     *)
(* before, and when the workflow is completed every decade has its winner  *)
(* on chain or was found to have no votes.  Late answers, repeated         *)
(* requests, connections and transactions that fail, handlers that         *)
(* interleave and votes that come late do not matter                       *)
(* (chairperson.rs:46-235).                                                *)
StepReflectsElection ==
  /\ Heeded({"create"}) /\ current_step >= 2 => AllExist
  /\ \A d \in BallotDecades :
       /\ Heeded({"create", "close"}) /\ current_step >= 3 => election[d].closed
       /\ Heeded({"create", "close", "flush"}) =>
            /\ current_step >= 4 => election[d].flushed
            /\ election[d].status = "FINALIZED" => election[d].flushed
       /\ Heeded(Actions) /\ current_step = 7 =>
            election[d].status = "FINALIZED" \/ election[d].found_empty

Stuck == /\ admin_page = "chairperson"
         /\ current_step = 5
         /\ detected_ties = 0

\* The task of a page that was left sets the step.
LateAnswer == \E t \in Tasks : /\ task[t] # NoTask
                              /\ task[t].owner = "left"
                              /\ task'[t] = NoTask

StuckStep ==
  Stuck' /\ ~Stuck => \/ admin_page # "chairperson"
                      \/ LateAnswer
                      \/ current_step = 5  \* where a late answer has put it

(* Step 5 without ties has no button that is enabled.  The page gets there *)
(* only if it is left at step 5 and opened again, which forgets the number *)
(* of ties, or by the answer to a request made before it was left; never   *)
(* by what it finds itself (chairperson.rs:22, 190-197 and 342-356).       *)
StuckOnlyByLeaving == [][StuckStep]_admin_vars
=============================================================================
