------------------------------- MODULE Frontend -------------------------------
(***************************************************************************)
(* The frontend as a whole.  What a session does stays in one part of it:  *)
(* a voter on the pages of a voter, a wallet logging in, a chairperson     *)
(* taking an election through its steps, or deciding ties.  The parts meet *)
(* in the API and in the signals of App, and each models what it finds     *)
(* there; so a run adds their state spaces instead of multiplying them.    *)
(***************************************************************************)
EXTENDS VoterPages, LoginChallenge, ChairpersonPage, TiePage

CONSTANT Sessions  \* the parts a run looks at

ASSUME SessionAssumption == Sessions \subseteq {"voter", "login", "steps", "ties"}

VARIABLE session

frontend_vars == <<session, voter_vars, login_vars, admin_vars, tie_vars>>

FrontendInit ==
  /\ session \in Sessions
  /\ VoterInit
  /\ LoginInit
  /\ AdminInit
  /\ TieInit

FrontendNext ==
  /\ UNCHANGED session
  /\ \/ /\ session = "voter"
        /\ VoterNext
        /\ UNCHANGED <<login_vars, admin_vars, tie_vars>>
     \/ /\ session = "login"
        /\ LoginNext
        /\ UNCHANGED <<voter_vars, admin_vars, tie_vars>>
     \/ /\ session = "steps"
        /\ AdminNext
        /\ UNCHANGED <<voter_vars, login_vars, tie_vars>>
     \/ /\ session = "ties"
        /\ TieNext
        /\ UNCHANGED <<voter_vars, login_vars, admin_vars>>

FrontendSpec == FrontendInit /\ [][FrontendNext]_frontend_vars
=============================================================================
