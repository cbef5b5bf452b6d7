---------------------------- MODULE LoginChallenge ----------------------------
(***************************************************************************)
(* The login challenges of the API (handler.rs, auth.rs) and login_wallet  *)
(* of the API client.  A message has a nonce, so no two are equal: it is   *)
(* represented by its place among the messages made so far.  Answers get   *)
(* lost; requests arrive late, more than once or never.                    *)
(***************************************************************************)
EXTENDS Naturals, Sequences

CONSTANTS Keys,      \* public keys
          Logins,    \* calls of login_wallet
          key_of,    \* the public key each is for
          NoMessage  \* Rust's None

ASSUME LoginAssumption ==
  /\ key_of \in [Logins -> Keys]
  /\ NoMessage \notin Nat

VARIABLES login_challenges,  \* API: public key -> message or NoMessage
          messages,          \* the public keys of the messages made so far
          login,             \* where each call of login_wallet stands
          challenge,         \* the message it has received
          requests,          \* login requests on their way to the API
          authenticated      \* history: key -> messages it has logged in with

login_vars == <<login_challenges, messages, login, challenge, requests,
                authenticated>>

LoginInit ==
  /\ login_challenges = [k \in Keys |-> NoMessage]
  /\ messages = <<>>
  /\ login = [l \in Logins |-> "new"]
  /\ challenge = [l \in Logins |-> NoMessage]
  /\ requests = {}
  /\ authenticated = [k \in Keys |-> <<>>]

-----------------------------------------------------------------------------
(* create_auth_challenge: the new message replaces an older one of the key. *)
(* Its answer may not reach the client.                                     *)
CreateChallenge(l) ==
  /\ login[l] = "new"
  /\ messages' = Append(messages, key_of[l])
  /\ login_challenges' = [login_challenges EXCEPT ![key_of[l]] = Len(messages')]
  /\ \/ /\ login' = [login EXCEPT ![l] = "challenged"]
        /\ challenge' = [challenge EXCEPT ![l] = Len(messages')]
     \/ /\ login' = [login EXCEPT ![l] = "failed"]
        /\ UNCHANGED challenge
  /\ UNCHANGED <<requests, authenticated>>

\* The client signs the message, with the private key of the wallet or another.
SendLogin(l) ==
  /\ login[l] = "challenged"
  /\ \E valid \in BOOLEAN :
       requests' = requests \cup {[login |-> l, key |-> key_of[l],
                                   message |-> challenge[l], valid |-> valid]}
  /\ login' = [login EXCEPT ![l] = "waiting"]
  /\ UNCHANGED <<login_challenges, messages, challenge, authenticated>>

-----------------------------------------------------------------------------
(* login_with_signature: one critical section, under the lock of the       *)
(* challenges.                                                             *)

Matches(r) == login_challenges[r.key] = r.message

\* The mistake of not removing it.
FaultyRemaining(r) == login_challenges

\* Only a request that passes every check removes the challenge.
RemainingChallenges(r) ==
  IF Matches(r) /\ r.valid
  THEN [login_challenges EXCEPT ![r.key] = NoMessage]
  ELSE login_challenges

\* The mistake of taking the challenge out before the signature is verified.
FaultyHandleLogin(r) ==
  /\ r \in requests
  /\ login_challenges' = IF Matches(r)
                         THEN [login_challenges EXCEPT ![r.key] = NoMessage]
                         ELSE login_challenges
  /\ authenticated' = IF Matches(r) /\ r.valid
                      THEN [authenticated EXCEPT ![r.key] = Append(@, r.message)]
                      ELSE authenticated
  /\ UNCHANGED <<messages, login, challenge, requests>>

\* The request may arrive again; the answer may not arrive.  An error is a text
\* with HTTP 200, which the client fails to parse.
HandleLogin(r) ==
  /\ r \in requests
  /\ login_challenges' = RemainingChallenges(r)
  /\ authenticated' = IF Matches(r) /\ r.valid
                      THEN [authenticated EXCEPT ![r.key] = Append(@, r.message)]
                      ELSE authenticated
  /\ \/ UNCHANGED login
     \/ /\ login[r.login] = "waiting"
        /\ login' = [login EXCEPT ![r.login] =
                       IF Matches(r) /\ r.valid THEN "authenticated" ELSE "failed"]
  /\ requests' \in {requests, requests \ {r}}
  /\ UNCHANGED <<messages, challenge>>

\* No answer to either request, or a private key that is not one.
LoginFails(l) ==
  /\ login[l] \in {"challenged", "waiting"}
  /\ login' = [login EXCEPT ![l] = "failed"]
  /\ UNCHANGED <<login_challenges, messages, challenge, requests, authenticated>>

LoginNext == \/ \E l \in Logins : CreateChallenge(l) \/ SendLogin(l) \/ LoginFails(l)
             \/ \E r \in requests : HandleLogin(r)

LoginSpec == LoginInit /\ [][LoginNext]_login_vars

-----------------------------------------------------------------------------
(* Properties *)

(* A challenge logs its key in at most once, and never after a newer one   *)
(* has: whatever requests arrive late or twice, the messages with which a  *)
(* key was authenticated are in the order in which they were made          *)
(* (handler.rs:1198-1215).                                                 *)
ChallengeUsedOnce ==
  \A k \in Keys : \A i, j \in DOMAIN authenticated[k] :
    i < j => authenticated[k][i] < authenticated[k][j]

ChallengeStep ==
  \A k \in Keys :
    /\ login_challenges'[k] # login_challenges[k] =>
         \/ /\ messages' = Append(messages, k)
            /\ login_challenges'[k] = Len(messages')
         \/ /\ login_challenges'[k] = NoMessage
            /\ authenticated'[k] = Append(authenticated[k], login_challenges[k])
    /\ authenticated'[k] # authenticated[k] =>
         /\ login_challenges[k] # NoMessage
         /\ authenticated'[k] = Append(authenticated[k], login_challenges[k])

(* A challenge ends in two ways only: a newer one of the same key replaces *)
(* it, or it authenticates.  A request with a wrong signature, an old      *)
(* message or another key leaves it, so that the wallet can still log in   *)
(* (handler.rs:1205-1215).                                                 *)
ChallengeEndsByUse == [][ChallengeStep]_login_vars
=============================================================================
