----------------------------- MODULE MCElection -----------------------------
(* Small instances of Election: one or two decades of two or three movies.  *)
EXTENDS Election, TLC

CONSTANTS p1, p2, p3, g1

For(movie) == [i \in 1..proposal_count |-> IF i = movie + 1 THEN 1 ELSE 0]

\* One vote for each of the first two movies, and a second one for movie 0.
MCTallyOf == (p1 :> For(0)) @@ (p2 :> For(1)) @@ (p3 :> For(0))

MCDecadeOf == [r \in {p1, p2, p3, g1} |-> 0]

\* The batch p2 belongs to the second decade.
MCTwoDecades == [r \in {p1, p2, p3, g1} |-> IF r = p2 THEN 1 ELSE 0]
=============================================================================
