------------------------------- MODULE TiePage -------------------------------
(***************************************************************************)
(* The page on which the chairperson decides tied decades                  *)
(* (tie_resolution.rs), with resolve_tie and get_results of the API.       *)
(*                                                                         *)
(* The tallies are decrypted once, before the page is of use, and do not   *)
(* change; the decisions do.  A request may take as long as it likes.      *)
(* When the page is left its tasks find their signals gone: those that     *)
(* only set them change nothing, and those that read them end there.  What *)
(* was sent to the API is executed all the same.                           *)
(***************************************************************************)
EXTENDS Naturals, FiniteSets, FiniteSetsExt

CONSTANTS TallyDecades,  \* decade ids
          Outcomes,      \* the sets of movies that may lead in a decade
          MaxLoads,      \* bound: unanswered requests for one decade
          Nothing        \* Rust's None

TieMovies == UNION Outcomes

\* The values of the page's signals.
TiePages ==
  [current_decade : TallyDecades, selected_movie : TieMovies \cup {Nothing},
   tie_indices : SUBSET TieMovies, unresolved_decades : SUBSET TallyDecades,
   loading : BOOLEAN, submitting : BOOLEAN]

ASSUME TieAssumption == TallyDecades \subseteq Nat /\ Nothing \notin TiePages

VARIABLES leaders,        \* API: decade -> tie_indices of its results
          resolved_ties,  \* API: decade -> movie or Nothing
          to_resolve,     \* resolve_tie requests the API has not executed
          tie_page,       \* the signals of the page, or Nothing
          loading_all,    \* load_unresolved_ties: where it stands, its answers
          loads,          \* decade -> unanswered requests of load_decade
          confirming,     \* confirm_winner: what it has captured and waits for
          listed          \* history: the decades the page has offered

tie_vars == <<leaders, resolved_ties, to_resolve, tie_page, loading_all, loads,
              confirming, listed>>

Unresolved == {d \in TallyDecades : /\ resolved_ties[d] = Nothing
                                    /\ Cardinality(leaders[d]) >= 2}

Idle == [phase |-> "idle", read |-> {}, unresolved |-> {}]

NewTiePage(d) == [current_decade |-> d, selected_movie |-> Nothing,
                  tie_indices |-> {}, unresolved_decades |-> {},
                  loading |-> TRUE, submitting |-> FALSE]

TieInit ==
  /\ leaders = [d \in TallyDecades |-> {}]
  /\ resolved_ties = [d \in TallyDecades |-> Nothing]
  /\ to_resolve = {}
  /\ tie_page = Nothing
  /\ loading_all = Idle
  /\ loads = [d \in TallyDecades |-> 0]
  /\ confirming = Nothing
  /\ listed = {}

-----------------------------------------------------------------------------
(* Opening and leaving the page *)

\* finalize_election has saved the decrypted tallies of all decades.
TalliesDecrypted ==
  /\ tie_page = Nothing
  /\ \A d \in TallyDecades : leaders[d] = {}
  /\ leaders' \in [TallyDecades -> Outcomes]
  /\ UNCHANGED <<resolved_ties, to_resolve, tie_page, loading_all, loads,
                 confirming, listed>>

\* selected_decade is whatever another page has left there.
OpenTiePage(d) ==
  /\ tie_page = Nothing
  /\ tie_page' = NewTiePage(d)
  /\ loading_all' = [Idle EXCEPT !.phase = "sent"]
  /\ UNCHANGED <<leaders, resolved_ties, to_resolve, loads, confirming, listed>>

LeaveTiePage ==
  /\ tie_page # Nothing
  /\ tie_page' = Nothing
  /\ loading_all' = Idle
  /\ loads' = [d \in TallyDecades |-> 0]
  /\ confirming' = Nothing
  /\ listed' = {}
  /\ UNCHANGED <<leaders, resolved_ties, to_resolve>>

-----------------------------------------------------------------------------
(* load_unresolved_ties *)

\* One get_results for each decade, all under way at the same time.
ReadUnresolved(d) ==
  /\ loading_all.phase = "sent"
  /\ d \notin loading_all.read
  /\ loading_all' = [loading_all EXCEPT !.read = @ \cup {d},
                                        !.unresolved = @ \cup ({d} \cap Unresolved)]
  /\ UNCHANGED <<leaders, resolved_ties, to_resolve, tie_page, loads,
                 confirming, listed>>

\* The decade the page asked for, if it is unresolved, or else the first.
FirstShown(unresolved) ==
  IF tie_page.current_decade \in unresolved THEN tie_page.current_decade
                                            ELSE Min(unresolved)

UnresolvedLoaded ==
  /\ loading_all.phase = "sent"
  /\ loading_all.read = TallyDecades
  /\ LET unresolved == loading_all.unresolved IN
       /\ listed' = unresolved
       /\ tie_page' =
            IF unresolved = {}
            THEN [tie_page EXCEPT !.unresolved_decades = {}, !.tie_indices = {},
                                  !.loading = FALSE]
            ELSE [tie_page EXCEPT !.unresolved_decades = unresolved,
                                  !.current_decade = FirstShown(unresolved),
                                  !.selected_movie = Nothing,
                                  !.tie_indices = leaders[FirstShown(unresolved)],
                                  !.loading = FALSE]
  /\ loading_all' = Idle
  /\ UNCHANGED <<leaders, resolved_ties, to_resolve, loads, confirming>>

\* One failed answer of six is enough.
UnresolvedFails ==
  /\ loading_all.phase # "idle"
  /\ loading_all' = Idle
  /\ tie_page' = [tie_page EXCEPT !.loading = FALSE]
  /\ UNCHANGED <<leaders, resolved_ties, to_resolve, loads, confirming, listed>>

-----------------------------------------------------------------------------
(* load_decade *)

FaultyDecadesEnabled == Cardinality(tie_page.unresolved_decades) > 1

\* The buttons are there while several decades are unresolved, and enabled while
\* a decade is loading.
DecadesEnabled == /\ Cardinality(tie_page.unresolved_decades) > 1
                  /\ ~tie_page.submitting

LoadDecade(d) ==
  /\ tie_page # Nothing
  /\ DecadesEnabled
  /\ d \in tie_page.unresolved_decades
  /\ loads[d] < MaxLoads
  /\ tie_page' = [tie_page EXCEPT !.loading = TRUE, !.selected_movie = Nothing,
                                  !.current_decade = d]
  /\ loads' = [loads EXCEPT ![d] = @ + 1]
  /\ UNCHANGED <<leaders, resolved_ties, to_resolve, loading_all, confirming,
                 listed>>

\* The answer is shown whatever the current decade is by then.
DecadeLoaded(d) ==
  /\ loads[d] > 0
  /\ loads' = [loads EXCEPT ![d] = @ - 1]
  /\ \/ tie_page' = [tie_page EXCEPT !.tie_indices = leaders[d],
                                     !.loading = FALSE]
     \/ tie_page' = [tie_page EXCEPT !.loading = FALSE]  \* an error
  /\ UNCHANGED <<leaders, resolved_ties, to_resolve, loading_all, confirming,
                 listed>>

-----------------------------------------------------------------------------
(* confirm_winner *)

SelectMovie(m) ==
  /\ tie_page # Nothing
  /\ ~tie_page.loading /\ ~tie_page.submitting
  /\ m \in tie_page.tie_indices
  /\ tie_page' = [tie_page EXCEPT !.selected_movie = m]
  /\ UNCHANGED <<leaders, resolved_ties, to_resolve, loading_all, loads,
                 confirming, listed>>

\* The request is sent with the right private key or a wrong one; a wrong one is
\* answered with HTTP 200 and changes nothing, as if it were executed already.
ConfirmWinner(authorized) ==
  /\ tie_page # Nothing
  /\ ~tie_page.loading /\ ~tie_page.submitting
  /\ tie_page.selected_movie # Nothing
  /\ Cardinality(tie_page.tie_indices) >= 2
  /\ LET request == [decade |-> tie_page.current_decade,
                     winner |-> tie_page.selected_movie]
     IN  /\ confirming' = [decade |-> request.decade, winner |-> request.winner,
                           phase |-> "resolving", authorized |-> authorized]
         /\ to_resolve' = IF authorized THEN to_resolve \cup {request}
                                        ELSE to_resolve
  /\ tie_page' = [tie_page EXCEPT !.submitting = TRUE]
  /\ UNCHANGED <<leaders, resolved_ties, loading_all, loads, listed>>

\* resolve_tie of the API stores any movie of the decade.
ResolveTie(request) ==
  /\ request \in to_resolve
  /\ resolved_ties' = [resolved_ties EXCEPT ![request.decade] = request.winner]
  /\ to_resolve' = to_resolve \ {request}
  /\ UNCHANGED <<leaders, tie_page, loading_all, loads, confirming, listed>>

Executed == [decade |-> confirming.decade, winner |-> confirming.winner]
              \notin to_resolve

\* The decade is read again after the await.
WinnerConfirmed ==
  /\ confirming # Nothing
  /\ confirming.phase = "resolving"
  /\ Executed
  /\ LET remaining == tie_page.unresolved_decades \ {tie_page.current_decade}
         next == Min(remaining)
     IN  IF remaining = {}
         THEN /\ tie_page' = [tie_page EXCEPT !.unresolved_decades = {},
                                              !.selected_movie = Nothing,
                                              !.tie_indices = {},
                                              !.submitting = FALSE]
              /\ confirming' = Nothing
         ELSE /\ tie_page' = [tie_page EXCEPT !.unresolved_decades = remaining,
                                              !.selected_movie = Nothing,
                                              !.tie_indices = {},
                                              !.current_decade = next]
              /\ confirming' = [confirming EXCEPT !.decade = next,
                                                  !.winner = Nothing,
                                                  !.phase = "next"]
  /\ listed' = IF confirming.authorized THEN listed
                                        ELSE listed \ {tie_page.current_decade}
  /\ UNCHANGED <<leaders, resolved_ties, to_resolve, loading_all, loads>>

NextLoaded ==
  /\ confirming # Nothing
  /\ confirming.phase = "next"
  /\ confirming' = Nothing
  /\ \/ tie_page' = [tie_page EXCEPT !.tie_indices = leaders[confirming.decade],
                                     !.submitting = FALSE]
     \/ tie_page' = [tie_page EXCEPT !.submitting = FALSE]  \* an error
  /\ UNCHANGED <<leaders, resolved_ties, to_resolve, loading_all, loads, listed>>

\* The connection breaks; the API may execute the request all the same.
ConfirmFails ==
  /\ confirming # Nothing
  /\ confirming.phase = "resolving"
  /\ confirming' = Nothing
  /\ tie_page' = [tie_page EXCEPT !.submitting = FALSE]
  /\ UNCHANGED <<leaders, resolved_ties, to_resolve, loading_all, loads, listed>>

TieNext ==
  \/ TalliesDecrypted \/ LeaveTiePage
  \/ UnresolvedLoaded \/ UnresolvedFails
  \/ \E d \in TallyDecades : \/ OpenTiePage(d) \/ ReadUnresolved(d)
                             \/ LoadDecade(d) \/ DecadeLoaded(d)
  \/ \E m \in TieMovies : SelectMovie(m)
  \/ \E authorized \in BOOLEAN : ConfirmWinner(authorized)
  \/ \E request \in to_resolve : ResolveTie(request)
  \/ WinnerConfirmed \/ NextLoaded \/ ConfirmFails

TieSpec == TieInit /\ [][TieNext]_tie_vars

-----------------------------------------------------------------------------
(* Properties *)

(* A decade leaves the list of unresolved ties only once the API has a     *)
(* decision about it, unless the API has refused the key: the answer of    *)
(* resolve_tie takes the decade off the list that the page shows then,     *)
(* which must still be the one the request was about                       *)
(* (tie_resolution.rs:476-480).                                            *)
OnlyDecidedLeaveTheList ==
  tie_page # Nothing =>
    \A d \in listed \ tie_page.unresolved_decades : resolved_ties[d] # Nothing
=============================================================================
