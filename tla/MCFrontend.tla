------------------------------ MODULE MCFrontend ------------------------------
(* Two votes of one or two wallets, three logins with two keys, two decades *)
(* to be created, with votes for one, and two to be decided: all tied, one  *)
(* tied, none tied.                                                         *)
EXTENDS Frontend, TLC

CONSTANTS l1, l2, l3, k1, k2

MCKeyOf == l1 :> k1 @@ l2 :> k1 @@ l3 :> k2

MCOutcomes == {{0}, {0, 1}, {1, 2}}

\* Which of the free requests a click takes makes no difference.
MCTasks == Permutations(Tasks)
=============================================================================
