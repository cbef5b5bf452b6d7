----------------------------- MODULE VoteLedger -----------------------------
(***************************************************************************)
(* What the vote path of a decade promises, without queues, locks, threads *)
(* or transactions: a submitted vote is rejected or queued; queued votes   *)
(* are taken in batches; a batch is counted as a whole or lost as a whole, *)
(* once; and the tally is the number of counted votes for each movie.      *)
(***************************************************************************)
EXTENDS Integers, FiniteSets

CONSTANTS Votes,          \* submissions
          Movies,         \* 0 .. n-1
          choice(_),      \* the movie of a submission
          MaxBatch        \* most votes of a batch

VARIABLES status,  \* of each submission
          open,    \* batches taken but neither counted nor lost
          tally    \* a sequence: the entry of movie m is tally[m + 1]
vars == <<status, open, tally>>

Status == {"new", "rejected", "queued", "batched", "counted", "lost"}

Mark(S, s) == [v \in Votes |-> IF v \in S THEN s ELSE status[v]]

Init ==
  /\ status = [v \in Votes |-> "new"]
  /\ open = {}
  /\ tally = [i \in 1..Cardinality(Movies) |-> 0]

Decide(v) ==
  /\ status[v] = "new"
  /\ \E s \in {"rejected", "queued"} : status' = Mark({v}, s)
  /\ UNCHANGED <<open, tally>>

TakeBatch(S) ==
  /\ S # {}
  /\ Cardinality(S) <= MaxBatch
  /\ \A v \in S : status[v] = "queued"
  /\ status' = Mark(S, "batched")
  /\ open' = open \cup {S}
  /\ UNCHANGED tally

CountBatch(S) ==
  /\ S \in open
  /\ status' = Mark(S, "counted")
  /\ open' = open \ {S}
  /\ tally' = [i \in DOMAIN tally |->
                 tally[i] + Cardinality({v \in S : choice(v) = i - 1})]

LoseBatch(S) ==
  /\ S \in open
  /\ status' = Mark(S, "lost")
  /\ open' = open \ {S}
  /\ UNCHANGED tally

Next ==
  \/ \E v \in Votes : Decide(v)
  \/ \E S \in SUBSET Votes : TakeBatch(S) \/ CountBatch(S) \/ LoseBatch(S)

Spec == Init /\ [][Next]_vars
=============================================================================
