------------------------------ MODULE VoterPages ------------------------------
(***************************************************************************)
(* The pages a voter uses (wallet.rs, decades.rs, vote.rs) and submit_vote *)
(* of the API client, in one browser.                                      *)
(*                                                                         *)
(* A page is created anew each time it is opened and its signals die when  *)
(* it is left; the tasks it spawned go on, and what they then set on the   *)
(* page is ignored.  The signals of App, the browser's storage and the API *)
(* outlive every page.                                                     *)
(***************************************************************************)
EXTENDS Naturals, FiniteSets, Sequences, SequencesExt

CONSTANTS Wallets,      \* wallet id, public key and private key of a person
          chairperson,  \* the wallet get_chairperson_status is true for
          Decades,      \* decade ids
          Movies,
          MaxCalls,     \* bound: calls of submit_vote
          MaxChecks,    \* bound: unanswered requests for the chairperson status
          NONE          \* Rust's None, and nothing

\* The hashes of the encrypted votes: every call makes a new one.
Hashes == 1..MaxCalls

ASSUME VoterAssumption == 0 \in Decades /\ MaxCalls \in Nat /\ NONE \notin Hashes

VARIABLES page,             \* App: the page on screen
          wallet,           \* App: wallet_id and wallet_address
          selected_decade,  \* App
          checks,           \* unanswered get_chairperson_status requests
          checking,         \* WalletPage: the one it waits for
          vote_page,        \* VotePage: its signals
          submission,       \* the calls of submit_vote, by hash
          pending_votes,    \* API: the votes it has accepted
          local_storage     \* wallet -> lines of kaonashi_receipts:{public_key}

voter_vars == <<page, wallet, selected_decade, checks, checking, vote_page,
                submission, pending_votes, local_storage>>

\* calls is history: the calls of submit_vote this page has made.
NewVotePage == [selected_movie |-> NONE, submitting |-> FALSE,
                vote_submitted |-> FALSE, receipt_hash |-> NONE, calls |-> {}]

NoSubmission == [wallet |-> NONE, decade |-> NONE, movie |-> NONE,
                 call |-> "new", request |-> "unsent"]

VoterInit ==
  /\ page = "home"
  /\ wallet = NONE
  /\ selected_decade = 0
  /\ checks = {}
  /\ checking = NONE
  /\ vote_page = NewVotePage
  /\ submission = [h \in Hashes |-> NoSubmission]
  /\ pending_votes = {}
  /\ local_storage = [w \in Wallets |-> <<>>]

\* What every change of page does to the pages that are left and opened.
Open(p) ==
  /\ page' = p
  /\ vote_page' = NewVotePage
  /\ checking' = NONE

\* The spawned task of a call finds its page still there.
Mounted(h) == page = "vote" /\ h \in vote_page.calls

-----------------------------------------------------------------------------
(* Navigation and the wallet *)

\* The navbar, the back button, and the button of the home page.
Navigate(p) ==
  /\ \/ p \in {"home", "decades", "results"}
     \/ page = "home" /\ p = "wallet"
  /\ Open(p)
  /\ UNCHANGED <<wallet, selected_decade, checks, submission, pending_votes,
                 local_storage>>

\* At most one request for a wallet is unanswered.
ConnectWallet(w) ==
  /\ page = "wallet"
  /\ checking = NONE
  /\ w \notin checks
  /\ Cardinality(checks) < MaxChecks
  /\ checks' = checks \cup {w}
  /\ checking' = w
  /\ UNCHANGED <<page, wallet, selected_decade, vote_page, submission,
                 pending_votes, local_storage>>

\* The answer takes effect wherever the user is by then.
WalletConnected(w) ==
  /\ w \in checks
  /\ checks' = checks \ {w}
  /\ wallet' = w
  /\ Open(IF w = chairperson THEN "chairperson" ELSE "decades")
  /\ UNCHANGED <<selected_decade, submission, pending_votes, local_storage>>

ConnectFails(w) ==
  /\ w \in checks
  /\ checks' = checks \ {w}
  /\ checking' = IF checking = w THEN NONE ELSE checking
  /\ UNCHANGED <<page, wallet, selected_decade, vote_page, submission,
                 pending_votes, local_storage>>

ChooseDecade(d) ==
  /\ page = "decades"
  /\ wallet # NONE
  /\ selected_decade' = d
  /\ Open("vote")
  /\ UNCHANGED <<wallet, checks, submission, pending_votes, local_storage>>

-----------------------------------------------------------------------------
(* The vote page *)

FaultyCardsEnabled == ~vote_page.vote_submitted

CardsEnabled == ~vote_page.submitting /\ ~vote_page.vote_submitted

ChooseMovie(m) ==
  /\ page = "vote"
  /\ CardsEnabled
  /\ vote_page' = [vote_page EXCEPT !.selected_movie = m, !.receipt_hash = NONE]
  /\ UNCHANGED <<page, wallet, selected_decade, checks, checking, submission,
                 pending_votes, local_storage>>

FaultySubmitEnabled == /\ vote_page.selected_movie # NONE
                       /\ ~vote_page.vote_submitted

\* The private key is typed anew before every call, because a call clears it;
\* the field is left out.
SubmitEnabled == /\ vote_page.selected_movie # NONE
                 /\ ~vote_page.submitting
                 /\ ~vote_page.vote_submitted

\* Everything the call needs is copied before it is spawned.
ConfirmVote(h) ==
  /\ page = "vote"
  /\ SubmitEnabled
  /\ wallet # NONE
  /\ submission[h].call = "new"
  /\ \A g \in Hashes : g < h => submission[g].call # "new"
  /\ submission' = [submission EXCEPT ![h] =
                      [wallet |-> wallet, decade |-> selected_decade,
                       movie |-> vote_page.selected_movie,
                       call |-> "encrypting", request |-> "unsent"]]
  /\ vote_page' = [vote_page EXCEPT !.submitting = TRUE, !.receipt_hash = NONE,
                                    !.calls = @ \cup {h}]
  /\ UNCHANGED <<page, wallet, selected_decade, checks, checking,
                 pending_votes, local_storage>>

-----------------------------------------------------------------------------
(* submit_vote: in the client, in the API, and back *)

\* The ElGamal key has arrived; the vote is encrypted, proved, signed and sent.
PostVote(h) ==
  /\ submission[h].call = "encrypting"
  /\ submission' = [submission EXCEPT ![h].call = "waiting",
                                      ![h].request = "sent"]
  /\ UNCHANGED <<page, wallet, selected_decade, checks, checking, vote_page,
                 pending_votes, local_storage>>

\* The handler runs, also when the client no longer waits.  Whether it accepts
\* (the right key, an open election) is the business of VotePipeline.
HandleVote(h) ==
  /\ submission[h].request = "sent"
  /\ \/ /\ submission' = [submission EXCEPT ![h].request = "accepted"]
        /\ pending_votes' = pending_votes \cup {h}
     \/ /\ submission' = [submission EXCEPT ![h].request = "rejected"]
        /\ UNCHANGED pending_votes
  /\ UNCHANGED <<page, wallet, selected_decade, checks, checking, vote_page,
                 local_storage>>

Receipt(h) == [decade |-> submission[h].decade, movie |-> submission[h].movie,
               hash |-> h]

FaultyReceiptOwner(h) == wallet

\* save_local_receipt is given the key that the call was started with.
ReceiptOwner(h) == submission[h].wallet

FaultySave(h) ==
  local_storage' = [local_storage EXCEPT ![ReceiptOwner(h)] =
                      IF Mounted(h) THEN Append(@, Receipt(h)) ELSE @]

SaveReceipt(h) ==
  local_storage' = [local_storage EXCEPT ![ReceiptOwner(h)] =
                      IF \E r \in ToSet(@) : r.hash = h
                      THEN @ ELSE Append(@, Receipt(h))]

\* Any answer with HTTP 200 is Ok, and a refusal has HTTP 200.  The answer names
\* no hash, so the client fills in its own.
VoteAnswered(h) ==
  /\ submission[h].call = "waiting"
  /\ submission[h].request \in {"accepted", "rejected"}
  /\ submission' = [submission EXCEPT ![h].call = "ok"]
  /\ SaveReceipt(h)
  /\ vote_page' =
       IF Mounted(h)
       THEN [vote_page EXCEPT !.submitting = FALSE, !.vote_submitted = TRUE,
                              !.receipt_hash = h]
       ELSE vote_page
  /\ UNCHANGED <<page, wallet, selected_decade, checks, checking,
                 pending_votes>>

\* The key request fails, the private key is malformed, or the connection
\* breaks, before or after the API has handled the vote.
VoteFails(h) ==
  /\ submission[h].call \in {"encrypting", "waiting"}
  /\ submission' = [submission EXCEPT ![h].call = "err"]
  /\ vote_page' =
       IF Mounted(h)
       THEN [vote_page EXCEPT !.submitting = FALSE]
       ELSE vote_page
  /\ UNCHANGED <<page, wallet, selected_decade, checks, checking,
                 pending_votes, local_storage>>

SubmitVote(h) == \/ ConfirmVote(h)
                 \/ PostVote(h)
                 \/ HandleVote(h)
                 \/ VoteAnswered(h)
                 \/ VoteFails(h)

VoterNext ==
  \/ \E p \in {"home", "wallet", "decades", "results"} : Navigate(p)
  \/ \E w \in Wallets : ConnectWallet(w) \/ WalletConnected(w) \/ ConnectFails(w)
  \/ \E d \in Decades : ChooseDecade(d)
  \/ \E m \in Movies : ChooseMovie(m)
  \/ \E h \in Hashes : SubmitVote(h)

VoterSpec == VoterInit /\ [][VoterNext]_voter_vars

-----------------------------------------------------------------------------
(* Properties *)

\* The answered votes of a wallet.
VotesOf(w) == {h \in Hashes : submission[h].call = "ok" /\ submission[h].wallet = w}

(* Every vote that was answered has its receipt, once, in the list of the  *)
(* wallet that signed it, for the decade and the movie that were           *)
(* encrypted: also if the voter has left the page, opened it for another   *)
(* decade or connected another wallet while submit_vote was under way      *)
(* (vote.rs:447-480).                                                      *)
ReceiptsMatchAnswers ==
  \A w \in Wallets :
    /\ ToSet(local_storage[w]) = {Receipt(h) : h \in VotesOf(w)}
    /\ Len(local_storage[w]) = Cardinality(VotesOf(w))

(* One visit of the page gets at most one vote answered, and the receipt   *)
(* it shows is that vote's: for the movie marked as selected, the decade   *)
(* in the title and the connected wallet (vote.rs:557-664).                *)
PageShowsItsVote ==
  page = "vote" =>
    /\ \A g, h \in vote_page.calls :
         submission[g].call = "ok" /\ submission[h].call = "ok" => g = h
    /\ \A h \in Hashes : vote_page.receipt_hash = h =>
         /\ submission[h].movie = vote_page.selected_movie
         /\ submission[h].decade = selected_decade
         /\ submission[h].wallet = wallet

(* "Receipt hash shown to the user after the vote is accepted."            *)
(* (vote.rs:402)                                                           *)
ReceiptShownAfterAcceptance ==
  \A h \in Hashes : vote_page.receipt_hash = h => h \in pending_votes
=============================================================================
