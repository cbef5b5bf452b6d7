--------------------------- MODULE FrontendProofs ---------------------------
(* The parts of the frontend keep to their own specifications, and what     *)
(* logins, the steps of the chairperson, the list of ties and the receipts  *)
(* of a voter say holds for any number of keys, decades, wallets and calls, *)
(* and for requests that arrive any number of times.                        *)
EXTENDS Frontend, SequenceFacts, TLAPS

-----------------------------------------------------------------------------
(* Logins *)

Requests == [login : Logins, key : Keys, message : Nat, valid : BOOLEAN]

Typed ==
  /\ login_challenges \in [Keys -> Nat \cup {NoMessage}]
  /\ messages \in Seq(Keys)
  /\ login \in [Logins -> {"new", "challenged", "waiting", "authenticated",
                           "failed"}]
  /\ challenge \in [Logins -> Nat \cup {NoMessage}]
  /\ \A l \in Logins : login[l] = "challenged" => challenge[l] \in Nat
  /\ requests \subseteq Requests
  /\ authenticated \in [Keys -> Seq(Nat)]

\* The challenge of a key is newer than every message it has logged in with,
\* and none is newer than the last message made.
Newest ==
  \A k \in Keys :
    /\ \A i \in DOMAIN authenticated[k] : authenticated[k][i] <= Len(messages)
    /\ login_challenges[k] # NoMessage =>
         /\ login_challenges[k] <= Len(messages)
         /\ \A i \in DOMAIN authenticated[k] :
              authenticated[k][i] < login_challenges[k]

LoginInv == Typed /\ Newest /\ ChallengeUsedOnce

LEMMA InitLogin == LoginInit => LoginInv
  BY LoginAssumption DEF LoginAssumption, LoginInit, LoginInv, Typed, Newest,
     ChallengeUsedOnce

\* A new message is larger than all before it.
LEMMA CreateKeeps ==
  ASSUME LoginInv, NEW l \in Logins, CreateChallenge(l)
  PROVE  LoginInv'
<1> DEFINE k == key_of[l]
<1>1. k \in Keys
  BY LoginAssumption DEF LoginAssumption
<1>2. /\ messages \in Seq(Keys) /\ messages' = Append(messages, k)
      /\ messages' \in Seq(Keys) /\ Len(messages) \in Nat
      /\ Len(messages') = Len(messages) + 1
  BY <1>1 DEF LoginInv, Typed, CreateChallenge
<1>3. /\ authenticated' = authenticated
      /\ login_challenges' = [login_challenges EXCEPT ![k] = Len(messages')]
  BY DEF CreateChallenge
<1>4. Typed'
  <2>1. login_challenges' \in [Keys -> Nat \cup {NoMessage}]
    BY <1>2, <1>3 DEF LoginInv, Typed
  <2>2. CASE /\ login' = [login EXCEPT ![l] = "challenged"]
             /\ challenge' = [challenge EXCEPT ![l] = Len(messages')]
    <3>1. Len(messages') \in Nat
      BY <1>2
    <3> QED
      BY <1>2, <1>3, <2>1, <2>2, <3>1 DEF LoginInv, Typed, CreateChallenge
  <2>3. CASE login' = [login EXCEPT ![l] = "failed"] /\ UNCHANGED challenge
    BY <1>2, <1>3, <2>1, <2>3 DEF LoginInv, Typed, CreateChallenge
  <2> QED
    BY <2>2, <2>3 DEF CreateChallenge
<1>5. Newest'
  <2> SUFFICES ASSUME NEW j \in Keys
               PROVE  /\ \A i \in DOMAIN authenticated[j] :
                            authenticated[j][i] <= Len(messages')
                      /\ login_challenges'[j] # NoMessage =>
                           /\ login_challenges'[j] <= Len(messages')
                           /\ \A i \in DOMAIN authenticated[j] :
                                authenticated[j][i] < login_challenges'[j]
    BY <1>3 DEF Newest
  <2>1. \A i \in DOMAIN authenticated[j] : /\ authenticated[j][i] \in Nat
                                           /\ authenticated[j][i] <= Len(messages)
    BY DEF LoginInv, Typed, Newest
  <2>2. CASE j = k
    BY <1>2, <1>3, <2>1, <2>2 DEF LoginInv, Typed
  <2>3. CASE j # k
    <3>1. login_challenges'[j] = login_challenges[j]
      BY <1>3, <2>3 DEF LoginInv, Typed
    <3>2. login_challenges[j] # NoMessage => login_challenges[j] \in Nat
      BY DEF LoginInv, Typed
    <3> QED
      BY <1>2, <2>1, <3>1, <3>2 DEF LoginInv, Newest
  <2> QED
    BY <2>2, <2>3
<1>6. ChallengeUsedOnce'
  BY <1>3 DEF LoginInv, ChallengeUsedOnce
<1> QED
  BY <1>4, <1>5, <1>6 DEF LoginInv

\* What a request does to the challenge and the history of its key.
LEMMA HandleEffect ==
  ASSUME LoginInv, NEW r \in requests, HandleLogin(r), NEW k \in Keys
  PROVE  \/ /\ login_challenges'[k] = login_challenges[k]
            /\ authenticated'[k] = authenticated[k]
         \/ /\ login_challenges[k] \in Nat
            /\ login_challenges'[k] = NoMessage
            /\ authenticated'[k] = Append(authenticated[k], login_challenges[k])
<1>1. r \in Requests
  BY DEF LoginInv, Typed
<1>2. CASE Matches(r) /\ r.valid /\ r.key = k
  <2>1. login_challenges[k] = r.message /\ r.message \in Nat
    BY <1>1, <1>2 DEF Matches, Requests
  <2> QED
    BY <1>2, <2>1 DEF HandleLogin, RemainingChallenges, LoginInv, Typed
<1>3. CASE ~(Matches(r) /\ r.valid /\ r.key = k)
  BY <1>1, <1>3 DEF HandleLogin, RemainingChallenges, LoginInv, Typed, Requests
<1> QED
  BY <1>2, <1>3

LEMMA HandleKeeps ==
  ASSUME LoginInv, NEW r \in requests, HandleLogin(r)
  PROVE  LoginInv'
<1>1. r \in Requests
  BY DEF LoginInv, Typed
<1>2. messages' = messages /\ Len(messages) \in Nat
  BY DEF HandleLogin, LoginInv, Typed
<1>3. Typed'
  <2>1. login_challenges' \in [Keys -> Nat \cup {NoMessage}]
    BY <1>1 DEF HandleLogin, RemainingChallenges, LoginInv, Typed, Requests
  <2>2. authenticated' \in [Keys -> Seq(Nat)]
    BY <1>1 DEF HandleLogin, LoginInv, Typed, Requests
  <2>3. \/ login' = login
        \/ \E answer \in {"authenticated", "failed"} :
             login' = [login EXCEPT ![r.login] = answer]
    BY DEF HandleLogin
  <2>4. /\ login' \in [Logins -> {"new", "challenged", "waiting",
                                  "authenticated", "failed"}]
        /\ \A l \in Logins : login'[l] = "challenged" => login[l] = "challenged"
    BY <2>3 DEF LoginInv, Typed
  <2>5. requests' \subseteq Requests /\ challenge' = challenge
    BY DEF HandleLogin, LoginInv, Typed
  <2> QED
    BY <1>2, <2>1, <2>2, <2>3, <2>4, <2>5 DEF LoginInv, Typed
<1>4. Newest' /\ ChallengeUsedOnce'
  <2> SUFFICES ASSUME NEW k \in Keys
               PROVE  /\ \A i \in DOMAIN authenticated'[k] :
                            authenticated'[k][i] <= Len(messages)
                      /\ login_challenges'[k] # NoMessage =>
                           /\ login_challenges'[k] <= Len(messages)
                           /\ \A i \in DOMAIN authenticated'[k] :
                                authenticated'[k][i] < login_challenges'[k]
                      /\ \A i, j \in DOMAIN authenticated'[k] :
                           i < j => authenticated'[k][i] < authenticated'[k][j]
    BY <1>2 DEF Newest, ChallengeUsedOnce
  <2>1. authenticated[k] \in Seq(Nat)
    BY DEF LoginInv, Typed
  <2>2. /\ \A i \in DOMAIN authenticated[k] : authenticated[k][i] <= Len(messages)
        /\ login_challenges[k] # NoMessage =>
             /\ login_challenges[k] <= Len(messages)
             /\ \A i \in DOMAIN authenticated[k] :
                  authenticated[k][i] < login_challenges[k]
        /\ \A i, j \in DOMAIN authenticated[k] :
             i < j => authenticated[k][i] < authenticated[k][j]
    BY DEF LoginInv, Newest, ChallengeUsedOnce
  <2>3. CASE /\ login_challenges'[k] = login_challenges[k]
             /\ authenticated'[k] = authenticated[k]
    BY <2>2, <2>3
  <2>4. CASE /\ login_challenges[k] \in Nat
             /\ login_challenges'[k] = NoMessage
             /\ authenticated'[k] = Append(authenticated[k], login_challenges[k])
    <3> DEFINE m == login_challenges[k]
               n == Len(authenticated[k])
    <3>1. m # NoMessage
      BY <2>4, LoginAssumption DEF LoginAssumption
    <3>2. /\ n \in Nat
          /\ DOMAIN authenticated'[k] = 1..(n + 1)
          /\ DOMAIN authenticated[k] = 1..n
          /\ \A i \in 1..n : authenticated'[k][i] = authenticated[k][i]
          /\ authenticated'[k][n + 1] = m
      BY <2>1, <2>4
    <3>3. \A i \in 1..n : /\ authenticated'[k][i] < m
                          /\ authenticated'[k][i] <= Len(messages)
      BY <2>2, <3>1, <3>2
    <3>4. \A i, j \in 1..n : i < j => authenticated'[k][i] < authenticated'[k][j]
      BY <2>2, <3>2
    <3>5. m <= Len(messages)
      BY <2>2, <3>1
    <3>6. \A i, j \in 1..(n + 1) :
            i < j => authenticated'[k][i] < authenticated'[k][j]
      <4> SUFFICES ASSUME NEW i \in 1..(n + 1), NEW j \in 1..(n + 1), i < j
                   PROVE  authenticated'[k][i] < authenticated'[k][j]
        OBVIOUS
      <4>1. i \in 1..n
        BY <3>2
      <4>2. CASE j = n + 1
        BY <3>2, <3>3, <4>1, <4>2
      <4>3. CASE j # n + 1
        <5>1. j \in 1..n
          BY <3>2, <4>3
        <5> QED
          BY <3>4, <4>1, <5>1
      <4> QED
        BY <4>2, <4>3
    <3>7. \A i \in 1..(n + 1) : authenticated'[k][i] <= Len(messages)
      <4> SUFFICES ASSUME NEW i \in 1..(n + 1)
                   PROVE  authenticated'[k][i] <= Len(messages)
        OBVIOUS
      <4>1. i \in 1..n \/ i = n + 1
        BY <3>2
      <4> QED
        BY <3>2, <3>3, <3>5, <4>1
    <3> QED
      BY <2>4, <3>2, <3>6, <3>7
  <2> QED
    BY <2>3, <2>4, HandleEffect
<1> QED
  BY <1>3, <1>4 DEF LoginInv

LEMMA StepLogin == LoginInv /\ [LoginNext]_login_vars => LoginInv'
<1> SUFFICES ASSUME LoginInv, [LoginNext]_login_vars
             PROVE  LoginInv'
  OBVIOUS
<1>1. ASSUME NEW l \in Logins, CreateChallenge(l)
      PROVE  LoginInv'
  BY <1>1, CreateKeeps
<1>2. ASSUME NEW l \in Logins, SendLogin(l)
      PROVE  LoginInv'
  <2>1. UNCHANGED <<login_challenges, messages, challenge, authenticated>>
    BY <1>2 DEF SendLogin
  <2>2. requests' \subseteq Requests
    <3>1. key_of[l] \in Keys /\ challenge[l] \in Nat /\ requests \subseteq Requests
      BY <1>2, LoginAssumption DEF SendLogin, LoginInv, Typed, LoginAssumption
    <3>2. PICK valid \in BOOLEAN :
            requests' = requests \cup {[login |-> l, key |-> key_of[l],
                                       message |-> challenge[l], valid |-> valid]}
      BY <1>2 DEF SendLogin
    <3>3. [login |-> l, key |-> key_of[l], message |-> challenge[l],
           valid |-> valid] \in Requests
      BY <3>1 DEF Requests
    <3> QED
      BY <3>1, <3>2, <3>3
  <2>3. Typed'
    BY <1>2, <2>1, <2>2 DEF SendLogin, LoginInv, Typed
  <2> QED
    BY <2>1, <2>3 DEF LoginInv, Newest, ChallengeUsedOnce
<1>3. ASSUME NEW l \in Logins, LoginFails(l)
      PROVE  LoginInv'
  BY <1>3 DEF LoginFails, LoginInv, Typed, Newest, ChallengeUsedOnce
<1>4. ASSUME NEW r \in requests, HandleLogin(r)
      PROVE  LoginInv'
  BY <1>4, HandleKeeps
<1>5. CASE UNCHANGED login_vars
  BY <1>5 DEF login_vars, LoginInv, Typed, Newest, ChallengeUsedOnce
<1> QED
  BY <1>1, <1>2, <1>3, <1>4, <1>5 DEF LoginNext

LEMMA LoginInvariant == LoginSpec => []LoginInv
  BY InitLogin, StepLogin, PTL DEF LoginSpec

(* A login challenge authenticates its key at most once, and never after a *)
(* newer one has: for any number of keys, logins and repeated requests.    *)
THEOREM UsedOnce == LoginSpec => []ChallengeUsedOnce
<1>1. LoginInv => ChallengeUsedOnce
  BY DEF LoginInv
<1> QED
  BY <1>1, LoginInvariant, PTL

LEMMA StepChallenge ==
  LoginInv /\ [LoginNext]_login_vars => [ChallengeStep]_login_vars
<1> SUFFICES ASSUME LoginInv, LoginNext
             PROVE  ChallengeStep
  OBVIOUS
<1>1. ASSUME NEW l \in Logins, CreateChallenge(l)
      PROVE  ChallengeStep
  BY <1>1 DEF CreateChallenge, ChallengeStep, LoginInv, Typed
<1>2. ASSUME NEW l \in Logins, SendLogin(l) \/ LoginFails(l)
      PROVE  ChallengeStep
  BY <1>2 DEF SendLogin, LoginFails, ChallengeStep
<1>3. ASSUME NEW r \in requests, HandleLogin(r)
      PROVE  ChallengeStep
  <2> SUFFICES ASSUME NEW k \in Keys
               PROVE  /\ login_challenges'[k] # login_challenges[k] =>
                           /\ login_challenges'[k] = NoMessage
                           /\ authenticated'[k] =
                                Append(authenticated[k], login_challenges[k])
                      /\ authenticated'[k] # authenticated[k] =>
                           /\ login_challenges[k] # NoMessage
                           /\ authenticated'[k] =
                                Append(authenticated[k], login_challenges[k])
    BY DEF ChallengeStep
  <2> QED
    BY <1>3, HandleEffect, LoginAssumption DEF LoginAssumption
<1> QED
  BY <1>1, <1>2, <1>3 DEF LoginNext

(* A challenge is only ever replaced by a newer one of its key or removed  *)
(* by the login it authenticates; a failed login leaves it.                *)
THEOREM EndsByUse == LoginSpec => ChallengeEndsByUse
  BY LoginInvariant, StepChallenge, PTL DEF LoginSpec, ChallengeEndsByUse

-----------------------------------------------------------------------------
(* The steps of the chairperson *)

StagesOf(action) ==
  CASE action = "create" -> {"sent", "creating", "opening", "clearing", "answered"}
    [] action = "close" -> {"sent", "next", "awaiting", "answered"}
    [] action = "flush" -> {"sent", "next", "answered"}
    [] action = "finalize" -> {"sent", "next", "fetching", "awaiting", "answered"}

Stages == {"sent", "creating", "opening", "clearing", "next", "fetching",
           "awaiting", "answered"}

AdminRequests ==
  [action : Actions, owner : {"page", "left", "nobody"}, stage : Stages,
   decade : Nat, choice : BOOLEAN, replaced : BOOLEAN, refused : BOOLEAN,
   ties : Nat, errors : Nat]

\* A handler is at a stage of its own action, and at a decade until it answers.
Placed(request) ==
  /\ request.stage \in StagesOf(request.action)
  /\ request.stage # "answered" => request.decade \in BallotDecades

DecadeStates ==
  [status : {"none", "OPEN", "CLOSED", "FINALIZED"}, closed : BOOLEAN,
   resolved : BOOLEAN, tally : Tallies,
   unconfirmed : SUBSET {"close_election", "set_final_winner"},
   flushed : BOOLEAN, found_empty : BOOLEAN]

ElectionTyped == election \in [BallotDecades -> DecadeStates]

AdminTyped ==
  /\ current_step \in 1..7
  /\ detected_ties \in Nat
  /\ task \in [Tasks -> AdminRequests \cup {NoTask}]
  /\ \A t \in Tasks : task[t] # NoTask =>
       /\ Placed(task[t])
       /\ task[t].stage = "answered" => task[t].owner # "nobody"
  /\ ElectionTyped

\* Refusals that the page has heeded, up to an action.
CreateHeeded == Heeded({"create"})
CloseHeeded == Heeded({"create", "close"})
FlushHeeded == Heeded({"create", "close", "flush"})
AllHeeded == Heeded(Actions)

\* A creation that has passed its check is alone: nothing has been done yet that
\* its end would undo.
NothingBegun(t) ==
  /\ current_step = 1
  /\ \A s \in Tasks : task[s] # NoTask =>
       /\ task[s].action = "create"
       /\ task[s].stage = "answered" => task[s].refused
       /\ Creating(s) => s = t

\* What is known of the ballots.
Exist ==
  /\ CreateHeeded =>
       /\ current_step >= 2 => AllExist
       /\ \A t \in Tasks : task[t] # NoTask /\ task[t].action # "create" => AllExist
       /\ \A t \in Tasks : Creating(t) => NothingBegun(t)
  /\ \A t \in Tasks : task[t] # NoTask /\ task[t].action = "create" =>
       /\ task[t].stage \in {"opening", "clearing"} => AllExist
       /\ task[t].stage = "answered" /\ ~task[t].refused => AllExist

Decided(d) == election[d].status = "FINALIZED" \/ election[d].found_empty

\* What has been done for the decades before n.
ClosedUpTo(n) == \A d \in BallotDecades : d < n => election[d].closed
FlushedUpTo(n) == \A d \in BallotDecades : d < n => election[d].flushed
DecidedUpTo(n) == \A d \in BallotDecades : d < n => Decided(d)

ClosedAll == \A d \in BallotDecades : election[d].closed
FlushedAll == \A d \in BallotDecades : election[d].flushed
DecidedAll == \A d \in BallotDecades : Decided(d)

StepFacts ==
  /\ CloseHeeded /\ current_step >= 3 => ClosedAll
  /\ FlushHeeded /\ current_step >= 4 => FlushedAll
  /\ AllHeeded /\ current_step = 7 => DecidedAll

\* No winner is recorded, or under way, before the votes were flushed.
Recorded ==
  FlushHeeded =>
    \A d \in BallotDecades :
      \/ election[d].status = "FINALIZED"
      \/ "set_final_winner" \in election[d].unconfirmed
      => election[d].flushed

\* A request keeps what was true when its button was enabled.
Carried(request) ==
  /\ request.action # "create" /\ CreateHeeded => ~request.replaced
  /\ request.action \in {"flush", "finalize"} /\ CloseHeeded => ClosedAll
  /\ request.action = "finalize" /\ FlushHeeded => FlushedAll

\* What its handler has done so far.
Achieved(request) ==
  ~request.refused =>
    /\ request.action = "close" /\ CreateHeeded => ClosedUpTo(request.decade)
    /\ request.action = "flush" /\ CloseHeeded => FlushedUpTo(request.decade)
    /\ /\ request.action = "finalize" /\ FlushHeeded
       /\ request.ties = 0 /\ request.errors = 0
       => DecidedUpTo(request.decade)
    /\ request.action # "create" /\ request.stage = "answered" =>
         request.decade = DECADE_COUNT

Sound(request) == Carried(request) /\ Achieved(request)

Reached ==
  /\ StepFacts
  /\ Recorded
  /\ \A t \in Tasks : task[t] # NoTask => Sound(task[t])

AdminInv == AdminTyped /\ Exist /\ Reached

LEMMA Cumulative == /\ AllHeeded => FlushHeeded
                    /\ FlushHeeded => CloseHeeded
                    /\ CloseHeeded => CreateHeeded
  BY DEF AllHeeded, FlushHeeded, CloseHeeded, CreateHeeded, Heeded, Actions

\* Refusals and overlaps are not forgotten.
Remembered == ignored \subseteq ignored' /\ (overlapped => overlapped')

LEMMA HeededBefore ==
  ASSUME Remembered
  PROVE  /\ AllHeeded' => AllHeeded
         /\ FlushHeeded' => FlushHeeded
         /\ CloseHeeded' => CloseHeeded
         /\ CreateHeeded' => CreateHeeded
  BY DEF Remembered, AllHeeded, FlushHeeded, CloseHeeded, CreateHeeded, Heeded

LEMMA BallotDecadesAre ==
  /\ BallotDecades \subseteq Nat
  /\ DECADE_COUNT \in Nat \ {0} /\ 0 \in BallotDecades
  /\ \A d \in BallotDecades : d < DECADE_COUNT
  /\ \A d \in BallotDecades : d + 1 < DECADE_COUNT => d + 1 \in BallotDecades
  /\ \A d \in BallotDecades : ~(d + 1 < DECADE_COUNT) => d + 1 = DECADE_COUNT
  /\ VotedDecades \subseteq BallotDecades
  BY AdminAssumption DEF AdminAssumption, BallotDecades

LEMMA InitAdmin == AdminInit => AdminInv
<1> SUFFICES ASSUME AdminInit PROVE AdminInv
  OBVIOUS
<1>1. AdminTyped
  <2>1. NoBallot \in DecadeStates
    BY DEF NoBallot, DecadeStates, Tallies
  <2>2. ElectionTyped
    BY <2>1 DEF AdminInit, ElectionTyped
  <2> QED
    BY <2>2 DEF AdminInit, AdminTyped
<1>2. Exist
  BY DEF AdminInit, Exist, Creating, At
<1>3. Reached
  <2>1. StepFacts
    BY DEF AdminInit, StepFacts
  <2>2. Recorded
    BY DEF AdminInit, Recorded, NoBallot
  <2> QED
    BY <2>1, <2>2 DEF AdminInit, Reached
<1> QED
  BY <1>1, <1>2, <1>3 DEF AdminInv

-----------------------------------------------------------------------------
(* How a handler goes on *)

\* A step of a handler.
Handler(t) == Unauthorized(t) \/ Create(t) \/ Close(t) \/ Flush(t) \/ Finalize(t)

\* r is what the handler of x can go on as.
GoesOn(x, r) ==
  /\ r \in AdminRequests
  /\ Placed(r)
  /\ r.action = x.action
  /\ r.owner = x.owner

\* The same request with another answer so far.
SamePlace(x, r) ==
  /\ r \in AdminRequests
  /\ r.action = x.action /\ r.owner = x.owner /\ r.stage = x.stage
  /\ r.decade = x.decade /\ r.replaced = x.replaced

LEMMA AnswerSoFar ==
  ASSUME NEW x \in AdminRequests
  PROVE  /\ SamePlace(x, x)
         /\ SamePlace(x, Refuse(x)) /\ Refuse(x).refused
         /\ SamePlace(x, Fail(x)) /\ Fail(x).errors # 0
         /\ SamePlace(x, [x EXCEPT !.ties = @ + 1])
         /\ [x EXCEPT !.ties = @ + 1].ties # 0
<1>1. SamePlace(x, x)
  BY DEF SamePlace
<1>2. SamePlace(x, Refuse(x)) /\ Refuse(x).refused
  BY DEF AdminRequests, SamePlace, Refuse
<1>3. x.errors + 1 \in Nat /\ x.errors + 1 # 0 /\ x.ties + 1 \in Nat /\ x.ties + 1 # 0
  BY DEF AdminRequests
<1>4. SamePlace(x, Fail(x)) /\ Fail(x).errors = x.errors + 1
  BY <1>3 DEF AdminRequests, SamePlace, Fail
<1>5. /\ SamePlace(x, [x EXCEPT !.ties = x.ties + 1])
      /\ [x EXCEPT !.ties = x.ties + 1].ties = x.ties + 1
  BY <1>3 DEF AdminRequests, SamePlace
<1> QED
  BY <1>1, <1>2, <1>3, <1>4, <1>5

LEMMA NextDecadeIs ==
  ASSUME NEW x \in AdminRequests, Placed(x), x.action # "create",
         x.stage # "answered", NEW y, SamePlace(x, y), NEW r, r = NextDecade(y)
  PROVE  /\ GoesOn(x, r)
         /\ x.decade \in BallotDecades /\ r.decade = x.decade + 1
         /\ r.stage \in {"next", "answered"}
         /\ r.stage = "answered" => r.decade = DECADE_COUNT
         /\ ~r.replaced
         /\ r.refused = y.refused /\ r.ties = y.ties /\ r.errors = y.errors
<1>1. /\ y \in AdminRequests /\ y.action = x.action /\ y.owner = x.owner
      /\ y.decade = x.decade
  BY DEF SamePlace
<1>2. x.decade \in BallotDecades /\ x.decade \in Nat
  BY BallotDecadesAre DEF Placed
<1> DEFINE stage == IF x.decade + 1 < DECADE_COUNT THEN "next" ELSE "answered"
           decade == x.decade + 1
<1>3. r = [y EXCEPT !.decade = decade, !.replaced = FALSE, !.stage = stage]
  BY <1>1 DEF NextDecade
<1>8. stage \in Stages /\ decade \in Nat
  BY <1>2 DEF Stages
<1> HIDE DEF stage, decade
<1>4. /\ r \in AdminRequests /\ r.action = x.action /\ r.owner = x.owner
      /\ r.decade = decade /\ ~r.replaced /\ r.stage = stage
      /\ r.refused = y.refused /\ r.ties = y.ties /\ r.errors = y.errors
  BY <1>1, <1>3, <1>8 DEF AdminRequests
<1>5. /\ r.stage \in {"next", "answered"}
      /\ r.stage = "answered" => r.decade = DECADE_COUNT
      /\ r.stage # "answered" => r.decade \in BallotDecades
  BY <1>2, <1>4, BallotDecadesAre DEF stage, decade
<1>6. r.action \in {"close", "flush", "finalize"}
  BY <1>4 DEF AdminRequests, Actions
<1>7. Placed(r)
  BY <1>5, <1>6 DEF Placed, StagesOf
<1> QED
  BY <1>2, <1>4, <1>5, <1>7 DEF GoesOn, decade

LEMMA StageIs ==
  ASSUME NEW x \in AdminRequests, Placed(x), x.stage # "answered",
         NEW stage \in StagesOf(x.action), stage \in Stages,
         NEW r, r = [x EXCEPT !.stage = stage]
  PROVE  /\ GoesOn(x, r) /\ r.stage = stage
         /\ r.decade = x.decade /\ r.replaced = x.replaced
         /\ r.refused = x.refused /\ r.ties = x.ties /\ r.errors = x.errors
  BY DEF GoesOn, AdminRequests, Placed

\* Every step of a handler continues its request; storing new ballots also marks
\* those of others.
LEMMA ContinueTyped ==
  ASSUME AdminTyped, NEW t \in Tasks, task[t] # NoTask,
         NEW r, GoesOn(task[t], r), Continue(t, r)
  PROVE  /\ task' \in [Tasks -> AdminRequests \cup {NoTask}]
         /\ \A s \in Tasks : task'[s] # NoTask =>
              /\ Placed(task'[s])
              /\ task'[s].stage = "answered" => task'[s].owner # "nobody"
         /\ \A s \in Tasks \ {t} : task'[s] = task[s]
         /\ task'[t] # NoTask => task'[t] = r
<1>1. task' = [task EXCEPT ![t] =
                 IF r.stage = "answered" /\ r.owner = "nobody" THEN NoTask ELSE r]
  BY DEF Continue
<1>2. r \in AdminRequests /\ Placed(r)
  BY DEF GoesOn
<1>3. /\ task \in [Tasks -> AdminRequests \cup {NoTask}]
      /\ \A s \in Tasks : task[s] # NoTask =>
           /\ Placed(task[s])
           /\ task[s].stage = "answered" => task[s].owner # "nobody"
  BY DEF AdminTyped
<1>4. CASE r.stage = "answered" /\ r.owner = "nobody"
  BY <1>1, <1>3, <1>4
<1>5. CASE ~(r.stage = "answered" /\ r.owner = "nobody")
  <2>1. task' = [task EXCEPT ![t] = r]
    BY <1>1, <1>5
  <2> QED
    BY <1>2, <1>3, <1>5, <2>1
<1> QED
  BY <1>4, <1>5

-----------------------------------------------------------------------------
(* What a step of a handler does to the election *)

\* A decade goes on from b to c.
Improves(b, c) ==
  /\ b.status # "none" => c.status # "none"
  /\ b.closed => c.closed
  /\ b.flushed => c.flushed
  /\ b.status = "FINALIZED" => c.status = "FINALIZED"
  /\ b.found_empty => c.found_empty

Forward == \A d \in BallotDecades : Improves(election[d], election'[d])

HasWinner(b) == b.status = "FINALIZED" \/ "set_final_winner" \in b.unconfirmed

NoNewWinner ==
  \A d \in BallotDecades : HasWinner(election'[d]) => HasWinner(election[d])

LEMMA Unchanged ==
  ASSUME ElectionTyped, UNCHANGED election
  PROVE  ElectionTyped' /\ Forward /\ NoNewWinner
  BY DEF ElectionTyped, Forward, Improves, NoNewWinner

LEMMA BecomesIs ==
  ASSUME ElectionTyped, NEW t \in Tasks, task[t].decade \in BallotDecades,
         NEW b \in DecadeStates, Becomes(t, b), Improves(Ballot(t), b)
  PROVE  /\ ElectionTyped' /\ Forward
         /\ election'[task[t].decade] = b
         /\ (HasWinner(b) => HasWinner(Ballot(t))) => NoNewWinner
<1>1. election' = [election EXCEPT ![task[t].decade] = b]
  BY DEF Becomes
<1>2. /\ election'[task[t].decade] = b
      /\ \A d \in BallotDecades : d # task[t].decade => election'[d] = election[d]
  BY <1>1 DEF ElectionTyped
<1>3. Ballot(t) = election[task[t].decade]
  BY DEF Ballot
<1>4. ElectionTyped'
  BY <1>1 DEF ElectionTyped
<1>5. \A d \in BallotDecades : Improves(election[d], election[d])
  BY DEF Improves
<1>6. Forward
  BY <1>2, <1>3, <1>5 DEF Forward
<1>7. (HasWinner(b) => HasWinner(Ballot(t))) => NoNewWinner
  BY <1>2, <1>3 DEF NoNewWinner
<1> QED
  BY <1>2, <1>4, <1>6, <1>7

\* What a handler's step has in common with others.
HandlerStep(t, r) ==
  /\ task[t] # NoTask /\ task[t].stage # "answered"
  /\ GoesOn(task[t], r) /\ Continue(t, r)
  /\ ElectionTyped' /\ Forward
  /\ UNCHANGED page_vars
  /\ overlapped => overlapped'

\* The handler has gone to its next decade.
Advanced(t, r) ==
  /\ task[t].decade \in BallotDecades /\ r.decade = task[t].decade + 1
  /\ r.stage = "answered" => r.decade = DECADE_COUNT
  /\ ~r.replaced

\* It is still at the same, with the same answer so far.
Stayed(t, r) ==
  /\ r.stage # "answered"
  /\ r.decade = task[t].decade /\ r.replaced = task[t].replaced
  /\ r.refused = task[t].refused /\ r.ties = task[t].ties /\ r.errors = task[t].errors

LEMMA HandlerAt ==
  ASSUME AdminTyped, NEW t \in Tasks, task[t] # NoTask, task[t].stage # "answered"
  PROVE  /\ task[t] \in AdminRequests /\ Placed(task[t])
         /\ task[t].decade \in BallotDecades /\ ElectionTyped
         /\ Ballot(t) \in DecadeStates /\ Ballot(t) = election[task[t].decade]
  BY DEF AdminTyped, Placed, Ballot, ElectionTyped

\* A handler goes to its next decade with the answer y so far.
LEMMA AdvancedBy ==
  ASSUME AdminTyped, NEW t \in Tasks, task[t] # NoTask, task[t].action # "create",
         task[t].stage # "answered", NEW y, SamePlace(task[t], y),
         NEW r, r = NextDecade(y)
  PROVE  /\ GoesOn(task[t], r) /\ Advanced(t, r)
         /\ r.refused = y.refused /\ r.ties = y.ties /\ r.errors = y.errors
  BY HandlerAt, NextDecadeIs DEF Advanced

LEMMA CloseStep ==
  ASSUME AdminTyped, NEW t \in Tasks, Close(t)
  PROVE  /\ task[t].action = "close"
         /\ \E r : /\ HandlerStep(t, r) /\ NoNewWinner
                   /\ Stayed(t, r) \/ Advanced(t, r)
                   /\ \/ r.refused
                      \/ Stayed(t, r)
                      \/ /\ r.refused = task[t].refused
                         /\ election'[task[t].decade].closed
<1>1. /\ task[t] # NoTask /\ task[t].action = "close"
      /\ task[t].stage \in {"sent", "next", "awaiting"} /\ task[t].stage # "answered"
      /\ UNCHANGED page_vars /\ overlapped' = overlapped
  BY DEF Close, SendClose, CloseConfirmed, CloseFails, At
<1>2. /\ task[t] \in AdminRequests /\ Placed(task[t])
      /\ task[t].decade \in BallotDecades /\ ElectionTyped
      /\ Ballot(t) \in DecadeStates /\ Ballot(t) = election[task[t].decade]
  BY <1>1, HandlerAt
<1>3. SamePlace(task[t], task[t]) /\ SamePlace(task[t], Refuse(task[t]))
      /\ Refuse(task[t]).refused
  BY <1>2, AnswerSoFar
<1>4. CASE SendClose(t)
  <2>1. ElectionTyped' /\ Forward /\ NoNewWinner
    BY <1>2, <1>4, Unchanged DEF SendClose
  <2>2. CASE Ballot(t).status = "none"
    <3>1. PICK r : r = NextDecade(Refuse(task[t])) /\ Continue(t, r)
      BY <1>4, <2>2 DEF SendClose
    <3>2. GoesOn(task[t], r) /\ Advanced(t, r) /\ r.refused
      BY <1>1, <1>3, <3>1, AdvancedBy
    <3> QED
      BY <1>1, <2>1, <3>1, <3>2 DEF HandlerStep
  <2>3. CASE Ballot(t).status # "none"
    <3>1. PICK r : r = [task[t] EXCEPT !.stage = "awaiting"] /\ Continue(t, r)
      BY <1>4, <2>3 DEF SendClose
    <3>2. GoesOn(task[t], r) /\ Stayed(t, r)
      BY <1>1, <1>2, <3>1, StageIs DEF Stayed, StagesOf, Stages
    <3> QED
      BY <1>1, <2>1, <3>1, <3>2 DEF HandlerStep
  <2> QED
    BY <2>2, <2>3
<1>5. CASE CloseConfirmed(t)
  <2> DEFINE b == [Ballot(t) EXCEPT !.closed = TRUE,
                     !.status = IF @ = "OPEN" /\ ~task[t].replaced THEN "CLOSED" ELSE @]
  <2>1. b \in DecadeStates /\ Improves(Ballot(t), b) /\ b.closed
        /\ (HasWinner(b) => HasWinner(Ballot(t)))
    BY <1>2 DEF DecadeStates, Improves, HasWinner
  <2>2. Becomes(t, b)
    BY <1>5 DEF CloseConfirmed
  <2> HIDE DEF b
  <2>3. /\ ElectionTyped' /\ Forward /\ NoNewWinner
        /\ election'[task[t].decade].closed
    BY <1>2, <2>1, <2>2, BecomesIs
  <2>4. PICK r : r = NextDecade(task[t]) /\ Continue(t, r)
    BY <1>5 DEF CloseConfirmed
  <2>5. GoesOn(task[t], r) /\ Advanced(t, r) /\ r.refused = task[t].refused
    BY <1>1, <1>3, <2>4, AdvancedBy
  <2> QED
    BY <1>1, <2>3, <2>4, <2>5 DEF HandlerStep
<1>6. CASE CloseFails(t)
  <2> DEFINE b == [Ballot(t) EXCEPT !.unconfirmed =
                IF task[t].replaced THEN @ ELSE @ \cup {"close_election"}]
  <2>1. b \in DecadeStates /\ Improves(Ballot(t), b)
        /\ (HasWinner(b) => HasWinner(Ballot(t)))
    BY <1>2 DEF DecadeStates, Improves, HasWinner
  <2>2. Becomes(t, b)
    BY <1>6 DEF CloseFails, Unconfirmed
  <2> HIDE DEF b
  <2>3. ElectionTyped' /\ Forward /\ NoNewWinner
    BY <1>2, <2>1, <2>2, BecomesIs
  <2>4. PICK r : r = NextDecade(Refuse(task[t])) /\ Continue(t, r)
    BY <1>6 DEF CloseFails
  <2>5. GoesOn(task[t], r) /\ Advanced(t, r) /\ r.refused
    BY <1>1, <1>3, <2>4, AdvancedBy
  <2> QED
    BY <1>1, <2>3, <2>4, <2>5 DEF HandlerStep
<1> QED
  BY <1>1, <1>4, <1>5, <1>6 DEF Close

LEMMA FlushStep ==
  ASSUME AdminTyped, NEW t \in Tasks, Flush(t)
  PROVE  /\ task[t].action = "flush"
         /\ \E r : /\ HandlerStep(t, r) /\ NoNewWinner /\ Advanced(t, r)
                   /\ \/ r.refused
                      \/ /\ r.refused = task[t].refused
                         /\ election[task[t].decade].closed =>
                              election'[task[t].decade].flushed
<1>1. /\ task[t] # NoTask /\ task[t].action = "flush"
      /\ task[t].stage \in {"sent", "next"} /\ task[t].stage # "answered"
      /\ UNCHANGED page_vars /\ overlapped' = overlapped
  BY DEF Flush, FlushDecade, NothingToFlush, FlushFails, At
<1>2. /\ task[t] \in AdminRequests /\ Placed(task[t])
      /\ task[t].decade \in BallotDecades /\ ElectionTyped
      /\ Ballot(t) \in DecadeStates /\ Ballot(t) = election[task[t].decade]
  BY <1>1, HandlerAt
<1>3. SamePlace(task[t], task[t]) /\ SamePlace(task[t], Refuse(task[t]))
      /\ Refuse(task[t]).refused
  BY <1>2, AnswerSoFar
<1>4. CASE FlushDecade(t)
  <2> DEFINE b == [Ballot(t) EXCEPT !.flushed = @ \/ Ballot(t).closed]
  <2>1. b \in DecadeStates
    BY <1>2, Zenon DEF DecadeStates
  <2>2. /\ b.flushed = (Ballot(t).flushed \/ Ballot(t).closed)
        /\ b.status = Ballot(t).status /\ b.closed = Ballot(t).closed
        /\ b.found_empty = Ballot(t).found_empty
        /\ b.unconfirmed = Ballot(t).unconfirmed
    BY <1>2, Zenon DEF DecadeStates
  <2>3. Becomes(t, b)
    BY <1>4 DEF FlushDecade
  <2> HIDE DEF b
  <2>4. /\ Improves(Ballot(t), b) /\ (Ballot(t).closed => b.flushed)
        /\ (HasWinner(b) => HasWinner(Ballot(t)))
    BY <2>2 DEF Improves, HasWinner
  <2>5. /\ ElectionTyped' /\ Forward /\ NoNewWinner
        /\ election'[task[t].decade] = b
    BY <1>2, <2>1, <2>3, <2>4, BecomesIs
  <2>6. PICK r : r = NextDecade(task[t]) /\ Continue(t, r)
    BY <1>4 DEF FlushDecade
  <2>7. GoesOn(task[t], r) /\ Advanced(t, r) /\ r.refused = task[t].refused
    BY <1>1, <1>3, <2>6, AdvancedBy
  <2> QED
    BY <1>1, <1>2, <2>4, <2>5, <2>6, <2>7 DEF HandlerStep
<1>5. CASE NothingToFlush(t) \/ FlushFails(t)
  <2>1. ElectionTyped' /\ Forward /\ NoNewWinner
    BY <1>2, <1>5, Unchanged DEF NothingToFlush, FlushFails
  <2>2. PICK r : r = NextDecade(Refuse(task[t])) /\ Continue(t, r)
    BY <1>5 DEF NothingToFlush, FlushFails
  <2>3. GoesOn(task[t], r) /\ Advanced(t, r) /\ r.refused
    BY <1>1, <1>3, <2>2, AdvancedBy
  <2> QED
    BY <1>1, <2>1, <2>2, <2>3 DEF HandlerStep
<1> QED
  BY <1>1, <1>4, <1>5 DEF Flush

\* What finalize_election has found out about a decade it is done with.
Settled(t, r) ==
  /\ Advanced(t, r)
  /\ r.refused = task[t].refused
  /\ \/ r.ties # 0 \/ r.errors # 0
     \/ /\ r.ties = task[t].ties /\ r.errors = task[t].errors
        /\ election[task[t].decade].flushed /\ ~task[t].replaced =>
             \/ election'[task[t].decade].status = "FINALIZED"
             \/ election'[task[t].decade].found_empty

LEMMA FinalizeStep ==
  ASSUME AdminTyped, NEW t \in Tasks, Finalize(t)
  PROVE  /\ task[t].action = "finalize"
         /\ \E r : HandlerStep(t, r) /\ (Stayed(t, r) \/ Settled(t, r))
<1>1. /\ task[t] # NoTask /\ task[t].action = "finalize"
      /\ task[t].stage \in {"sent", "next", "fetching", "awaiting"}
      /\ task[t].stage # "answered"
      /\ UNCHANGED page_vars /\ overlapped' = overlapped
  BY DEF Finalize, CheckDecade, FetchNoVotes, FetchTie, SendWinner, FetchFails,
         FinalizeConfirmed, WinnerRefused, WinnerFails, At
<1>2. /\ task[t] \in AdminRequests /\ Placed(task[t])
      /\ task[t].decade \in BallotDecades /\ ElectionTyped
      /\ Ballot(t) \in DecadeStates /\ Ballot(t) = election[task[t].decade]
  BY <1>1, HandlerAt
<1> DEFINE tied == [task[t] EXCEPT !.ties = @ + 1]
<1>3. /\ SamePlace(task[t], task[t]) /\ SamePlace(task[t], Fail(task[t]))
      /\ SamePlace(task[t], tied) /\ tied.ties # 0
      /\ Fail(task[t]).errors # 0
  BY <1>2, AnswerSoFar
<1>4. Fail(task[t]).refused = task[t].refused /\ tied.refused = task[t].refused
  BY <1>2 DEF Fail, AdminRequests
<1> HIDE DEF tied
<1>5. ASSUME UNCHANGED election
      PROVE  ElectionTyped' /\ Forward
  BY <1>2, <1>5, Unchanged
<1>6. ASSUME ElectionTyped', Forward, Continue(t, NextDecade(Fail(task[t])))
      PROVE  \E r : HandlerStep(t, r) /\ Settled(t, r)
  <2>1. PICK r : r = NextDecade(Fail(task[t])) /\ Continue(t, r)
    BY <1>6
  <2>2. GoesOn(task[t], r) /\ Advanced(t, r) /\ r.refused = task[t].refused /\ r.errors # 0
    BY <1>1, <1>3, <1>4, <2>1, AdvancedBy
  <2> QED
    BY <1>1, <1>6, <2>1, <2>2 DEF HandlerStep, Settled
<1>7. CASE CheckDecade(t)
  <2>1. CASE Ballot(t).status # "none" /\ Ballot(t).closed
    <3> DEFINE x == [task[t] EXCEPT !.choice = Ballot(t).resolved]
    <3>1. PICK r : /\ r = [task[t] EXCEPT !.stage = "fetching", !.choice = Ballot(t).resolved]
                   /\ Continue(t, r)
      BY <1>7, <2>1 DEF CheckDecade
    <3>2. Ballot(t).resolved \in BOOLEAN
      BY <1>2, Zenon DEF DecadeStates
    <3>3. x \in AdminRequests
      BY <1>2, <3>2, Zenon DEF AdminRequests
    <3>4. /\ x.action = task[t].action /\ x.owner = task[t].owner
          /\ x.stage = task[t].stage /\ x.decade = task[t].decade
          /\ x.replaced = task[t].replaced /\ x.refused = task[t].refused
          /\ x.ties = task[t].ties /\ x.errors = task[t].errors
      BY <1>2 DEF AdminRequests
    <3>5. r = [x EXCEPT !.stage = "fetching"]
      BY <3>1
    <3> HIDE DEF x
    <3>6. /\ GoesOn(x, r) /\ r.stage = "fetching"
          /\ r.decade = x.decade /\ r.replaced = x.replaced
          /\ r.refused = x.refused /\ r.ties = x.ties /\ r.errors = x.errors
      <4>1. Placed(x) /\ x.stage # "answered" /\ x.action = "finalize"
        BY <1>1, <1>2, <3>4 DEF Placed
      <4> QED
        BY <3>3, <3>5, <4>1, StageIs DEF StagesOf, Stages
    <3>7. GoesOn(task[t], r) /\ Stayed(t, r)
      BY <3>4, <3>6 DEF GoesOn, Stayed
    <3> QED
      BY <1>1, <1>5, <1>7, <3>1, <3>7 DEF HandlerStep, CheckDecade
  <2>2. CASE ~(Ballot(t).status # "none" /\ Ballot(t).closed)
    BY <1>1, <1>5, <1>6, <1>7, <2>2 DEF CheckDecade
  <2> QED
    BY <2>1, <2>2
<1>8. CASE FetchNoVotes(t)
  <2> DEFINE b == [Ballot(t) EXCEPT !.found_empty =
                     @ \/ (Ballot(t).flushed /\ ~task[t].replaced)]
  <2>1. b \in DecadeStates
    BY <1>2, Zenon DEF DecadeStates
  <2>2. /\ b.flushed = Ballot(t).flushed
        /\ b.status = Ballot(t).status /\ b.closed = Ballot(t).closed
        /\ b.found_empty = (Ballot(t).found_empty
                              \/ (Ballot(t).flushed /\ ~task[t].replaced))
    BY <1>2, Zenon DEF DecadeStates
  <2>3. Becomes(t, b)
    BY <1>8 DEF FetchNoVotes
  <2> HIDE DEF b
  <2>4. /\ Improves(Ballot(t), b)
        /\ Ballot(t).flushed /\ ~task[t].replaced => b.found_empty
    BY <2>2 DEF Improves
  <2>5. ElectionTyped' /\ Forward /\ election'[task[t].decade] = b
    BY <1>2, <2>1, <2>3, <2>4, BecomesIs
  <2>6. PICK r : r = NextDecade(task[t]) /\ Continue(t, r)
    BY <1>8 DEF FetchNoVotes
  <2>7. /\ GoesOn(task[t], r) /\ Advanced(t, r) /\ r.refused = task[t].refused
        /\ r.ties = task[t].ties /\ r.errors = task[t].errors
    BY <1>1, <1>3, <2>6, AdvancedBy
  <2> QED
    BY <1>1, <1>2, <2>4, <2>5, <2>6, <2>7 DEF HandlerStep, Settled
<1>9. CASE FetchTie(t)
  <2>1. PICK r : r = NextDecade(tied) /\ Continue(t, r)
    BY <1>9 DEF FetchTie, tied
  <2>2. GoesOn(task[t], r) /\ Advanced(t, r) /\ r.refused = task[t].refused /\ r.ties # 0
    BY <1>1, <1>3, <1>4, <2>1, AdvancedBy
  <2> QED
    BY <1>1, <1>5, <1>9, <2>1, <2>2 DEF HandlerStep, Settled, FetchTie
<1>10. CASE SendWinner(t)
  <2>1. PICK r : r = [task[t] EXCEPT !.stage = "awaiting"] /\ Continue(t, r)
    BY <1>10 DEF SendWinner
  <2>2. GoesOn(task[t], r) /\ Stayed(t, r)
    BY <1>1, <1>2, <2>1, StageIs DEF Stayed, StagesOf, Stages
  <2> QED
    BY <1>1, <1>5, <1>10, <2>1, <2>2 DEF HandlerStep, SendWinner
<1>11. CASE FetchFails(t) \/ WinnerRefused(t)
  BY <1>1, <1>5, <1>6, <1>11 DEF FetchFails, WinnerRefused
<1>12. CASE FinalizeConfirmed(t)
  <2>1. PICK r : r = NextDecade(task[t]) /\ Continue(t, r)
    BY <1>12 DEF FinalizeConfirmed
  <2>2. /\ GoesOn(task[t], r) /\ Advanced(t, r) /\ r.refused = task[t].refused
        /\ r.ties = task[t].ties /\ r.errors = task[t].errors
    BY <1>1, <1>3, <2>1, AdvancedBy
  <2>3. CASE task[t].replaced /\ UNCHANGED election
    BY <1>1, <1>5, <2>1, <2>2, <2>3 DEF HandlerStep, Settled
  <2>4. CASE Becomes(t, [Ballot(t) EXCEPT !.status = "FINALIZED"])
    <3> DEFINE b == [Ballot(t) EXCEPT !.status = "FINALIZED"]
    <3>1. b \in DecadeStates /\ Improves(Ballot(t), b) /\ b.status = "FINALIZED"
      BY <1>2 DEF DecadeStates, Improves
    <3>2. Becomes(t, b)
      BY <2>4
    <3> HIDE DEF b
    <3>3. ElectionTyped' /\ Forward /\ election'[task[t].decade] = b
      BY <1>2, <3>1, <3>2, BecomesIs
    <3> QED
      BY <1>1, <2>1, <2>2, <3>1, <3>3 DEF HandlerStep, Settled
  <2> QED
    BY <1>12, <2>3, <2>4 DEF FinalizeConfirmed
<1>13. CASE WinnerFails(t)
  <2> DEFINE b == [Ballot(t) EXCEPT !.unconfirmed =
                IF task[t].replaced THEN @ ELSE @ \cup {"set_final_winner"}]
  <2>1. b \in DecadeStates /\ Improves(Ballot(t), b)
    BY <1>2 DEF DecadeStates, Improves
  <2>2. Becomes(t, b)
    BY <1>13 DEF WinnerFails, Unconfirmed
  <2> HIDE DEF b
  <2>3. ElectionTyped' /\ Forward
    BY <1>2, <2>1, <2>2, BecomesIs
  <2> QED
    BY <1>1, <1>6, <1>13, <2>3 DEF WinnerFails
<1> QED
  BY <1>1, <1>7, <1>8, <1>9, <1>10, <1>11, <1>12, <1>13 DEF Finalize

\* The steps of create_ballots that put nothing back to its beginning.
CreateOnly(t) == Unauthorized(t) \/ CheckBallots(t) \/ CreateFails(t) \/ ClearTies(t)

LEMMA CreateStep ==
  ASSUME AdminTyped, NEW t \in Tasks, CreateOnly(t)
  PROVE  /\ task[t].action = "create" \/ Unauthorized(t)
         /\ \E r : /\ HandlerStep(t, r) /\ NoNewWinner
                   /\ r.replaced = task[t].replaced
                   /\ r.refused \/ task[t].action = "create"
                   /\ \/ Unauthorized(t) /\ r.refused /\ r.stage = "answered"
                      \/ /\ CheckBallots(t) /\ r.refused = task[t].refused
                         /\ r.stage = IF AllExist THEN "answered" ELSE "creating"
                      \/ CreateFails(t) /\ r.refused /\ r.stage = "answered"
                      \/ /\ ClearTies(t) /\ r.refused = task[t].refused
                         /\ r.stage = "answered"
<1>1. /\ task[t] # NoTask /\ task[t].stage # "answered"
      /\ UNCHANGED page_vars /\ (overlapped => overlapped')
      /\ task[t].action = "create" \/ Unauthorized(t)
  BY DEF CreateOnly, Unauthorized, CheckBallots, CreateFails, ClearTies, At
<1>2. task[t] \in AdminRequests /\ Placed(task[t]) /\ ElectionTyped
  BY <1>1, HandlerAt
<1>3. "answered" \in StagesOf(task[t].action) /\ "answered" \in Stages
  BY <1>2 DEF StagesOf, Stages, AdminRequests, Actions
<1>4. ASSUME NEW y, SamePlace(task[t], y), NEW r, r = [y EXCEPT !.stage = "answered"]
      PROVE  /\ GoesOn(task[t], r) /\ r.replaced = task[t].replaced
             /\ r.refused = y.refused /\ r.stage = "answered"
  <2>1. y \in AdminRequests /\ Placed(y) /\ y.stage # "answered" /\ y.action = task[t].action
    BY <1>1, <1>2, <1>4 DEF SamePlace, Placed
  <2>2. /\ GoesOn(y, r) /\ r.stage = "answered" /\ r.replaced = y.replaced
        /\ r.refused = y.refused
    BY <1>3, <1>4, <2>1, StageIs
  <2> QED
    BY <1>4, <2>1, <2>2 DEF GoesOn, SamePlace
<1>5. SamePlace(task[t], task[t]) /\ SamePlace(task[t], Refuse(task[t]))
      /\ Refuse(task[t]).refused
  BY <1>2, AnswerSoFar
<1>6. CASE Unauthorized(t) \/ CreateFails(t)
  <2>1. ElectionTyped' /\ Forward /\ NoNewWinner
    BY <1>2, <1>6, Unchanged DEF Unauthorized, CreateFails
  <2>2. PICK r : r = [Refuse(task[t]) EXCEPT !.stage = "answered"] /\ Continue(t, r)
    BY <1>6 DEF Unauthorized, CreateFails
  <2>3. /\ GoesOn(task[t], r) /\ r.replaced = task[t].replaced
        /\ r.refused /\ r.stage = "answered"
    BY <1>4, <1>5, <2>2
  <2> QED
    BY <1>1, <1>6, <2>1, <2>2, <2>3 DEF HandlerStep
<1>7. CASE CheckBallots(t)
  <2>1. ElectionTyped' /\ Forward /\ NoNewWinner
    BY <1>2, <1>7, Unchanged DEF CheckBallots
  <2>2. PICK r : /\ r = [task[t] EXCEPT !.stage = IF AllExist THEN "answered" ELSE "creating"]
                 /\ Continue(t, r)
    BY <1>7 DEF CheckBallots
  <2>3. task[t].action = "create"
    BY <1>7 DEF CheckBallots, At
  <2> DEFINE stage == IF AllExist THEN "answered" ELSE "creating"
  <2>4. stage \in StagesOf(task[t].action) /\ stage \in Stages
    BY <2>3 DEF StagesOf, Stages
  <2> HIDE DEF stage
  <2>5. r = [task[t] EXCEPT !.stage = stage]
    BY <2>2 DEF stage
  <2>6. /\ GoesOn(task[t], r) /\ r.stage = stage
        /\ r.replaced = task[t].replaced /\ r.refused = task[t].refused
    BY <1>1, <1>2, <2>4, <2>5, StageIs
  <2> QED
    BY <1>1, <1>7, <2>1, <2>2, <2>3, <2>6 DEF HandlerStep, stage
<1>8. CASE ClearTies(t)
  <2>1. election' = [d \in BallotDecades |-> [election[d] EXCEPT !.resolved = FALSE]]
    BY <1>8 DEF ClearTies
  <2>2. ASSUME NEW d \in BallotDecades
        PROVE  /\ election'[d] \in DecadeStates
               /\ Improves(election[d], election'[d])
               /\ HasWinner(election'[d]) => HasWinner(election[d])
    <3>1. election'[d] = [election[d] EXCEPT !.resolved = FALSE]
      BY <2>1
    <3> QED
      BY <1>2, <3>1 DEF ElectionTyped, DecadeStates, Improves, HasWinner
  <2>3. ElectionTyped' /\ Forward /\ NoNewWinner
    BY <2>1, <2>2 DEF ElectionTyped, Forward, NoNewWinner
  <2>4. PICK r : r = [task[t] EXCEPT !.stage = "answered"] /\ Continue(t, r)
    BY <1>8 DEF ClearTies
  <2>5. /\ GoesOn(task[t], r) /\ r.replaced = task[t].replaced
        /\ r.refused = task[t].refused /\ r.stage = "answered"
    BY <1>4, <1>5, <2>4
  <2>6. task[t].action = "create"
    BY <1>8 DEF ClearTies, At
  <2> QED
    BY <1>1, <1>8, <2>3, <2>4, <2>5, <2>6 DEF HandlerStep
<1> QED
  BY <1>6, <1>7, <1>8 DEF CreateOnly

-----------------------------------------------------------------------------
(* What a step of a handler keeps *)

LEMMA HandlerTyped ==
  ASSUME AdminTyped, NEW t \in Tasks, NEW r, HandlerStep(t, r)
  PROVE  /\ AdminTyped' /\ Remembered
         /\ r \in AdminRequests /\ r.action = task[t].action
         /\ \A s \in Tasks \ {t} : task'[s] = task[s]
         /\ task'[t] # NoTask => task'[t] = r
<1>1. /\ task[t] # NoTask /\ GoesOn(task[t], r) /\ Continue(t, r)
      /\ UNCHANGED page_vars /\ (overlapped => overlapped') /\ ElectionTyped'
  BY DEF HandlerStep
<1>2. /\ task' \in [Tasks -> AdminRequests \cup {NoTask}]
      /\ \A s \in Tasks : task'[s] # NoTask =>
           /\ Placed(task'[s])
           /\ task'[s].stage = "answered" => task'[s].owner # "nobody"
      /\ \A s \in Tasks \ {t} : task'[s] = task[s]
      /\ task'[t] # NoTask => task'[t] = r
  BY <1>1, ContinueTyped
<1>3. AdminTyped'
  <2>1. current_step' \in 1..7 /\ detected_ties' \in Nat
    BY <1>1 DEF AdminTyped, page_vars
  <2>2. \A s \in Tasks : Placed(task[s])' <=> Placed(task'[s])
    BY DEF Placed
  <2> QED
    BY <1>1, <1>2, <2>1, <2>2 DEF AdminTyped
<1> QED
  BY <1>1, <1>2, <1>3 DEF page_vars, Remembered, GoesOn

LEMMA Existing ==
  ASSUME Forward
  PROVE  AllExist => AllExist'
  BY DEF Forward, Improves, AllExist

LEMMA HandlerExist ==
  ASSUME AdminTyped, Exist, NEW t \in Tasks, NEW r, HandlerStep(t, r),
         task[t].action # "create"
  PROVE  Exist'
<1>1. /\ Remembered /\ r.action = task[t].action
      /\ \A s \in Tasks \ {t} : task'[s] = task[s]
      /\ task'[t] # NoTask => task'[t] = r
  BY HandlerTyped
<1>2. AllExist => AllExist'
  BY Existing DEF HandlerStep
<1>3. task[t] # NoTask /\ current_step' = current_step
  BY DEF HandlerStep, page_vars
<1>4. \A s \in Tasks : task'[s] # NoTask =>
        /\ task[s] # NoTask /\ task'[s].action = task[s].action
        /\ task'[s].action = "create" => task'[s] = task[s]
  BY <1>1, <1>3
<1>5. ASSUME CreateHeeded'
      PROVE  /\ current_step' >= 2 => AllExist'
             /\ \A s \in Tasks : task'[s] # NoTask /\ task'[s].action # "create" => AllExist'
             /\ \A s \in Tasks : ~Creating(s)'
  <2>1. CreateHeeded
    BY <1>1, <1>5, HeededBefore
  <2>2. /\ current_step >= 2 => AllExist
        /\ \A s \in Tasks : task[s] # NoTask /\ task[s].action # "create" => AllExist
        /\ \A s \in Tasks : Creating(s) => NothingBegun(s)
    BY <2>1 DEF Exist
  <2>3. \A s \in Tasks : ~Creating(s)
    BY <1>3, <2>2 DEF NothingBegun
  <2>4. \A s \in Tasks : Creating(s)' => Creating(s)
    BY <1>4 DEF Creating, At
  <2> QED
    BY <1>2, <1>3, <1>4, <2>2, <2>3, <2>4
<1>6. \A s \in Tasks : task'[s] # NoTask /\ task'[s].action = "create" =>
        /\ task'[s].stage \in {"opening", "clearing"} => AllExist'
        /\ task'[s].stage = "answered" /\ ~task'[s].refused => AllExist'
  BY <1>2, <1>4 DEF Exist
<1> QED
  BY <1>5, <1>6 DEF Exist

LEMMA CreateExist ==
  ASSUME AdminTyped, Exist, NEW t \in Tasks, CreateOnly(t), task[t].action = "create"
  PROVE  Exist'
<1>1. PICK r : /\ HandlerStep(t, r)
               /\ \/ Unauthorized(t) /\ r.refused /\ r.stage = "answered"
                  \/ /\ CheckBallots(t) /\ r.refused = task[t].refused
                     /\ r.stage = IF AllExist THEN "answered" ELSE "creating"
                  \/ CreateFails(t) /\ r.refused /\ r.stage = "answered"
                  \/ /\ ClearTies(t) /\ r.refused = task[t].refused
                     /\ r.stage = "answered"
  BY CreateStep
<1>2. /\ Remembered /\ r.action = "create" /\ task[t] # NoTask
      /\ \A s \in Tasks \ {t} : task'[s] = task[s]
      /\ task'[t] # NoTask => task'[t] = r
  BY <1>1, HandlerTyped DEF HandlerStep
<1>3. AllExist => AllExist'
  BY <1>1, Existing DEF HandlerStep
<1>4. task[t] # NoTask /\ current_step' = current_step
  BY <1>1 DEF HandlerStep, page_vars
<1>5. \A s \in Tasks \ {t} : (Creating(s)' <=> Creating(s))
  BY <1>2 DEF Creating, At
<1>6. r.stage \in {"answered", "creating"}
      /\ (r.stage = "answered" /\ ~r.refused => AllExist)
  <2>1. ClearTies(t) => AllExist
    BY <1>2 DEF ClearTies, At, Exist
  <2> QED
    BY <1>1, <2>1
<1>7. ASSUME CreateHeeded'
      PROVE  /\ current_step' >= 2 => AllExist'
             /\ \A s \in Tasks : task'[s] # NoTask /\ task'[s].action # "create" => AllExist'
             /\ \A s \in Tasks : Creating(s)' => NothingBegun(s)'
  <2>1. CreateHeeded /\ ~overlapped'
    BY <1>2, <1>7, HeededBefore DEF CreateHeeded, Heeded
  <2>2. /\ current_step >= 2 => AllExist
        /\ \A s \in Tasks : task[s] # NoTask /\ task[s].action # "create" => AllExist
        /\ \A s \in Tasks : Creating(s) => NothingBegun(s)
    BY <2>1 DEF Exist
  <2>3. \A s \in Tasks : task'[s] # NoTask /\ task'[s].action # "create" => AllExist'
    BY <1>2, <1>3, <2>2
  <2>4. ASSUME NEW s \in Tasks, Creating(s)'
        PROVE  NothingBegun(s)'
    <3>1. CASE s = t
      <4>1. task'[t] = r /\ r.stage = "creating"
        BY <1>2, <1>6, <2>4, <3>1 DEF Creating, At
      <4>2. CheckBallots(t) /\ ~AllExist
        BY <1>1, <4>1
      <4>3. \A u \in Tasks : ~Creating(u)
        BY <2>1, <4>2 DEF CheckBallots
      <4>4. current_step' = 1
        BY <1>4, <2>2, <4>2 DEF AdminTyped
      <4>5. ASSUME NEW u \in Tasks \ {t}, task'[u] # NoTask
            PROVE  /\ task'[u].action = "create"
                   /\ task'[u].stage = "answered" => task'[u].refused
                   /\ ~Creating(u)'
        <5>1. task[u] # NoTask /\ task[u].action = "create" /\ task'[u] = task[u]
          BY <1>2, <2>2, <4>2, <4>5
        <5> QED
          BY <1>5, <4>2, <4>3, <5>1 DEF Exist
      <4> QED
        BY <1>2, <3>1, <4>1, <4>4, <4>5 DEF NothingBegun
    <3>2. CASE s # t
      <4>1. Creating(s) /\ NothingBegun(s)
        BY <1>5, <2>2, <2>4, <3>2
      <4>2. ~Creating(t) /\ ~CheckBallots(t)
        BY <2>1, <3>2, <4>1 DEF NothingBegun, CheckBallots, Creating, At
      <4>3. r.stage = "answered" /\ r.refused
        BY <1>1, <4>2 DEF ClearTies, Creating, At
      <4>4. ~Creating(t)'
        BY <1>2, <4>3 DEF Creating, At
      <4>5. ASSUME NEW u \in Tasks, task'[u] # NoTask
            PROVE  /\ task'[u].action = "create"
                   /\ task'[u].stage = "answered" => task'[u].refused
                   /\ Creating(u)' => u = s
        <5>1. CASE u = t
          BY <1>2, <4>3, <4>4, <4>5, <5>1
        <5>2. CASE u # t
          BY <1>2, <1>5, <4>1, <4>5, <5>2 DEF NothingBegun
        <5> QED
          BY <5>1, <5>2
      <4> QED
        BY <1>4, <4>1, <4>5 DEF NothingBegun
    <3> QED
      BY <3>1, <3>2
  <2> QED
    BY <1>3, <1>4, <2>2, <2>3, <2>4
<1>8. \A s \in Tasks : task'[s] # NoTask /\ task'[s].action = "create" =>
        /\ task'[s].stage \in {"opening", "clearing"} => AllExist'
        /\ task'[s].stage = "answered" /\ ~task'[s].refused => AllExist'
  BY <1>2, <1>3, <1>6 DEF Exist
<1> QED
  BY <1>7, <1>8 DEF Exist

-----------------------------------------------------------------------------
(* New ballots *)

Opening(t) == StoreBallots(t) \/ OpenElection(t)

\* Requests go on as before, but for where their ballot is.
SameRequests ==
  \A s \in Tasks :
    /\ task'[s] # NoTask => task[s] # NoTask
    /\ task[s] # NoTask => /\ task'[s].action = task[s].action
                           /\ task'[s].owner = task[s].owner
                           /\ task'[s].refused = task[s].refused
                           /\ task'[s].ties = task[s].ties
                           /\ task'[s].errors = task[s].errors
                           /\ task'[s].decade = task[s].decade

LEMMA StoreTasks ==
  ASSUME AdminTyped, NEW t \in Tasks, StoreBallots(t)
  PROVE  /\ task' \in [Tasks -> AdminRequests \cup {NoTask}]
         /\ SameRequests
         /\ task'[t].stage = "opening" /\ task[t].action = "create"
         /\ \A s \in Tasks : task[s] # NoTask => Placed(task'[s])
         /\ \A s \in Tasks \ {t} : task[s] # NoTask => task'[s].stage = task[s].stage
<1>1. /\ task[t] # NoTask /\ task[t].action = "create" /\ task[t].stage = "creating"
      /\ task' = [s \in Tasks |->
                IF s = t THEN [task[t] EXCEPT !.stage = "opening"]
                ELSE IF task[s] # NoTask /\ task[s].stage \in {"fetching", "awaiting"}
                     THEN [task[s] EXCEPT !.replaced = TRUE] ELSE task[s]]
  BY DEF StoreBallots, At
<1>2. ASSUME NEW s \in Tasks, task[s] # NoTask
      PROVE  task[s] \in AdminRequests /\ Placed(task[s])
  BY <1>2 DEF AdminTyped
<1>3. ASSUME NEW s \in Tasks, s # t, task[s] # NoTask
      PROVE  /\ task'[s] \in AdminRequests /\ Placed(task'[s])
             /\ task'[s].action = task[s].action /\ task'[s].owner = task[s].owner
             /\ task'[s].stage = task[s].stage /\ task'[s].decade = task[s].decade
             /\ task'[s].refused = task[s].refused /\ task'[s].ties = task[s].ties
             /\ task'[s].errors = task[s].errors
  <2>1. task[s] \in AdminRequests /\ Placed(task[s])
    BY <1>2, <1>3
  <2>2. CASE task'[s] = [task[s] EXCEPT !.replaced = TRUE]
    BY <2>1, <2>2 DEF AdminRequests, Placed
  <2>3. CASE task'[s] = task[s]
    BY <2>1, <2>3
  <2> QED
    BY <1>1, <1>3, <2>2, <2>3
<1>4. /\ task'[t] \in AdminRequests /\ Placed(task'[t])
      /\ task'[t].action = task[t].action /\ task'[t].owner = task[t].owner
      /\ task'[t].stage = "opening" /\ task'[t].decade = task[t].decade
      /\ task'[t].refused = task[t].refused /\ task'[t].ties = task[t].ties
      /\ task'[t].errors = task[t].errors
  <2>1. task'[t] = [task[t] EXCEPT !.stage = "opening"]
    BY <1>1
  <2>2. task[t] \in AdminRequests /\ Placed(task[t])
    BY <1>1, <1>2
  <2>3. "opening" \in StagesOf(task[t].action) /\ "opening" \in Stages
    BY <1>1 DEF StagesOf, Stages
  <2> QED
    BY <1>1, <2>1, <2>2, <2>3, StageIs DEF GoesOn
<1>5. \A s \in Tasks : task[s] = NoTask => task'[s] = NoTask
  BY <1>1
<1>6. \A s \in Tasks : task'[s] \in AdminRequests \cup {NoTask}
  BY <1>3, <1>4, <1>5
<1>7. task' \in [Tasks -> AdminRequests \cup {NoTask}]
  BY <1>1, <1>6
<1> QED
  BY <1>1, <1>3, <1>4, <1>5, <1>7 DEF SameRequests

LEMMA OpenTasks ==
  ASSUME AdminTyped, NEW t \in Tasks, OpenElection(t)
  PROVE  /\ task' \in [Tasks -> AdminRequests \cup {NoTask}]
         /\ SameRequests
         /\ task'[t].stage = "clearing" /\ task[t].action = "create"
         /\ \A s \in Tasks : task'[s] # NoTask => Placed(task'[s])
         /\ \A s \in Tasks \ {t} : task'[s].stage = task[s].stage
<1>1. /\ task[t] # NoTask /\ task[t].action = "create" /\ task[t].stage = "opening"
      /\ Continue(t, [task[t] EXCEPT !.stage = "clearing"])
  BY DEF OpenElection, At
<1>2. PICK r : r = [task[t] EXCEPT !.stage = "clearing"] /\ Continue(t, r)
  BY <1>1
<1>3. task[t] \in AdminRequests /\ Placed(task[t])
  BY <1>1, HandlerAt
<1>4. "clearing" \in StagesOf(task[t].action) /\ "clearing" \in Stages
  BY <1>1 DEF StagesOf, Stages
<1>5. /\ GoesOn(task[t], r) /\ r.stage = "clearing" /\ r.decade = task[t].decade
      /\ r.refused = task[t].refused /\ r.ties = task[t].ties /\ r.errors = task[t].errors
  BY <1>1, <1>2, <1>3, <1>4, StageIs
<1>6. /\ task' \in [Tasks -> AdminRequests \cup {NoTask}]
      /\ \A s \in Tasks : task'[s] # NoTask => Placed(task'[s])
      /\ \A s \in Tasks \ {t} : task'[s] = task[s]
  BY <1>1, <1>2, <1>5, ContinueTyped
<1>7. task'[t] = r
  BY <1>2, <1>5 DEF Continue, AdminTyped
<1>8. r.action = task[t].action /\ r.owner = task[t].owner
  BY <1>5 DEF GoesOn
<1>9. SameRequests
  BY <1>1, <1>5, <1>6, <1>7, <1>8 DEF SameRequests
<1> QED
  BY <1>1, <1>5, <1>6, <1>7, <1>9

\* Either step leaves ballots in every decade, and no winner that is new or whose
\* votes were not flushed.
LEMMA OpeningElection ==
  ASSUME AdminTyped, Exist, NEW t \in Tasks, Opening(t)
  PROVE  /\ ElectionTyped' /\ AllExist'
         /\ \A d \in BallotDecades :
              HasWinner(election'[d]) => /\ HasWinner(election[d])
                                         /\ election'[d].flushed = election[d].flushed
<1>1. CASE StoreBallots(t)
  <2>1. ASSUME NEW d \in BallotDecades
        PROVE  /\ election'[d] \in DecadeStates
               /\ election'[d].status # "none"
               /\ ~HasWinner(election'[d])
    <3>1. election'[d] = [NoBallot EXCEPT !.status = "OPEN",
                                          !.closed = election[d].closed,
                                          !.resolved = election[d].resolved]
      BY <1>1 DEF StoreBallots
    <3>2. election[d] \in DecadeStates
      BY DEF AdminTyped, ElectionTyped
    <3>3. election[d].closed \in BOOLEAN /\ election[d].resolved \in BOOLEAN
      BY <3>2, Zenon DEF DecadeStates
    <3>4. NoBallot \in DecadeStates /\ NoBallot.unconfirmed = {}
      BY DEF NoBallot, DecadeStates, Tallies
    <3>5. election'[d] \in DecadeStates
      BY <3>1, <3>3, <3>4, Zenon DEF DecadeStates
    <3>6. election'[d].status = "OPEN" /\ election'[d].unconfirmed = {}
      BY <3>1, <3>4 DEF DecadeStates
    <3> QED
      BY <3>5, <3>6 DEF HasWinner
  <2>2. ElectionTyped'
    BY <1>1, <2>1 DEF ElectionTyped, StoreBallots
  <2> QED
    BY <2>1, <2>2 DEF AllExist
<1>2. CASE OpenElection(t)
  <2>1. ASSUME NEW d \in BallotDecades
        PROVE  /\ election'[d] \in DecadeStates
               /\ election'[d].status = election[d].status
               /\ election'[d].flushed = election[d].flushed
               /\ election'[d].unconfirmed = election[d].unconfirmed
    <3>1. election'[d] = [election[d] EXCEPT !.closed = FALSE]
      BY <1>2 DEF OpenElection
    <3>2. election[d] \in DecadeStates
      BY DEF AdminTyped, ElectionTyped
    <3> QED
      BY <3>1, <3>2 DEF DecadeStates
  <2>2. ElectionTyped'
    BY <1>2, <2>1 DEF ElectionTyped, OpenElection
  <2>3. AllExist
    BY <1>2 DEF OpenElection, At, Exist
  <2> QED
    BY <2>1, <2>2, <2>3 DEF AllExist, HasWinner
<1> QED
  BY <1>1, <1>2 DEF Opening

\* When it is alone nothing has been begun; when it is not, nothing is claimed.
LEMMA OpeningStep ==
  ASSUME AdminInv, NEW t \in Tasks, Opening(t)
  PROVE  AdminInv'
<1>1. /\ task[t] # NoTask /\ task[t].action = "create" /\ Creating(t)
      /\ UNCHANGED <<page_vars, overlapped>>
  BY DEF Opening, StoreBallots, OpenElection, Creating, At
<1>2. /\ ElectionTyped' /\ AllExist'
      /\ \A d \in BallotDecades :
           HasWinner(election'[d]) => /\ HasWinner(election[d])
                                      /\ election'[d].flushed = election[d].flushed
  BY OpeningElection DEF AdminInv
<1>3. /\ task' \in [Tasks -> AdminRequests \cup {NoTask}]
      /\ SameRequests
      /\ task'[t].stage \in {"opening", "clearing"}
      /\ \A s \in Tasks : task'[s] # NoTask => Placed(task'[s])
      /\ \A s \in Tasks \ {t} : task'[s] # NoTask => task'[s].stage = task[s].stage
  <2>1. CASE StoreBallots(t)
    BY <2>1, StoreTasks DEF AdminInv, SameRequests
  <2>2. CASE OpenElection(t)
    BY <2>2, OpenTasks DEF AdminInv
  <2> QED
    BY <2>1, <2>2 DEF Opening
<1>4. \A s \in Tasks : task'[s] # NoTask =>
        /\ task[s] # NoTask /\ task'[s].action = task[s].action
        /\ task'[s].owner = task[s].owner /\ task'[s].refused = task[s].refused
        /\ task'[s].stage = "answered" =>
             task[s].stage = "answered" /\ task'[s].decade = task[s].decade
  BY <1>3 DEF SameRequests
<1>5. AdminTyped'
  <2>1. current_step' \in 1..7 /\ detected_ties' \in Nat
    BY <1>1 DEF AdminInv, AdminTyped, page_vars
  <2>2. \A s \in Tasks : Placed(task[s])' <=> Placed(task'[s])
    BY DEF Placed
  <2>3. \A s \in Tasks : task[s] # NoTask /\ task[s].stage = "answered" =>
          task[s].owner # "nobody"
    BY DEF AdminInv, AdminTyped
  <2> QED
    BY <1>2, <1>3, <1>4, <2>1, <2>2, <2>3 DEF AdminTyped
<1>6. CreateHeeded' => CreateHeeded /\ NothingBegun(t)
  BY <1>1 DEF page_vars, CreateHeeded, Heeded, AdminInv, Exist
<1>7. CreateHeeded' => NothingBegun(t)'
  <2>1. SUFFICES ASSUME CreateHeeded' PROVE NothingBegun(t)'
    OBVIOUS
  <2>2. NothingBegun(t)
    BY <1>6, <2>1
  <2>3. current_step' = 1
    BY <1>1, <2>2 DEF page_vars, NothingBegun
  <2>4. ASSUME NEW s \in Tasks, task'[s] # NoTask
        PROVE  /\ task'[s].action = "create"
               /\ task'[s].stage = "answered" => task'[s].refused
               /\ Creating(s)' => s = t
    <3>1. s # t => task'[s].stage = task[s].stage
      BY <1>3, <2>4
    <3> QED
      BY <1>4, <2>2, <2>4, <3>1 DEF NothingBegun, Creating, At
  <2> QED
    BY <2>3, <2>4 DEF NothingBegun
<1>8. Exist'
  <2>1. CreateHeeded' =>
          /\ current_step' = 1
          /\ \A s \in Tasks : Creating(s)' => s = t
    BY <1>7 DEF NothingBegun, Creating, At
  <2> QED
    BY <1>2, <1>7, <2>1 DEF Exist
<1>9. Reached'
  <2>1. StepFacts' /\ Recorded'
    <3>1. \/ ~CreateHeeded'
          \/ current_step' = 1
      BY <1>7 DEF NothingBegun
    <3>2. StepFacts'
      BY <3>1, Cumulative DEF StepFacts, CloseHeeded, FlushHeeded, AllHeeded, CreateHeeded, Heeded, Actions
    <3>3. FlushHeeded' => FlushHeeded
      BY <1>1 DEF page_vars, FlushHeeded, Heeded
    <3>4. Recorded'
      BY <1>2, <3>3 DEF Recorded, AdminInv, Reached, HasWinner
    <3> QED
      BY <3>2, <3>4
  <2>2. ASSUME NEW s \in Tasks, task'[s] # NoTask
        PROVE  Sound(task[s])'
    <3>1. CASE CreateHeeded'
      <4>1. task'[s].action = "create"
        BY <1>7, <2>2, <3>1 DEF NothingBegun
      <4> QED
        BY <4>1 DEF Sound, Carried, Achieved
    <3>2. CASE ~CreateHeeded'
      <4>1. ~CloseHeeded' /\ ~FlushHeeded'
        BY <3>2 DEF CreateHeeded, CloseHeeded, FlushHeeded, Heeded
      <4>2. Sound(task[s])
        BY <1>4, <2>2 DEF AdminInv, Reached
      <4>3. ~task'[s].refused /\ task'[s].action # "create"
              /\ task'[s].stage = "answered"
              => task'[s].decade = DECADE_COUNT
        BY <1>4, <2>2, <4>2 DEF Sound, Achieved
      <4> QED
        BY <3>2, <4>1, <4>3 DEF Sound, Carried, Achieved
    <3> QED
      BY <3>1, <3>2
  <2> QED
    BY <2>1, <2>2 DEF Reached
<1> QED
  BY <1>5, <1>8, <1>9 DEF AdminInv

-----------------------------------------------------------------------------
(* What has been reached stays *)

\* The same request, whoever waits for it.
Alike(s) ==
  /\ task'[s].action = task[s].action /\ task'[s].stage = task[s].stage
  /\ task'[s].decade = task[s].decade /\ task'[s].replaced = task[s].replaced
  /\ task'[s].refused = task[s].refused
  /\ task'[s].ties = task[s].ties /\ task'[s].errors = task[s].errors

LEMMA ElectionStays ==
  ASSUME Forward
  PROVE  /\ ClosedAll => ClosedAll'
         /\ FlushedAll => FlushedAll'
         /\ DecidedAll => DecidedAll'
  BY DEF Forward, Improves, ClosedAll, FlushedAll, DecidedAll, Decided

\* A request keeps what it carries while its ballot is not replaced.
LEMMA CarriedStays ==
  ASSUME Forward, Remembered, NEW s \in Tasks, Carried(task[s]),
         task'[s].action = task[s].action, task'[s].replaced => task[s].replaced
  PROVE  Carried(task[s])'
  BY HeededBefore, ElectionStays DEF Carried

LEMMA SoundStays ==
  ASSUME Forward, Remembered, NEW s \in Tasks, Sound(task[s]), Alike(s)
  PROVE  Sound(task[s])'
<1>1. Carried(task[s])'
  BY CarriedStays DEF Sound, Alike
<1>2. /\ ClosedUpTo(task[s].decade) => ClosedUpTo(task[s].decade)'
      /\ FlushedUpTo(task[s].decade) => FlushedUpTo(task[s].decade)'
      /\ DecidedUpTo(task[s].decade) => DecidedUpTo(task[s].decade)'
  BY DEF Forward, Improves, Alike, ClosedUpTo, FlushedUpTo, DecidedUpTo, Decided
<1>3. Achieved(task[s])'
  BY <1>2, HeededBefore DEF Sound, Achieved, Alike
<1> QED
  BY <1>1, <1>3 DEF Sound

LEMMA StepFactsStay ==
  ASSUME Forward, Remembered, StepFacts, UNCHANGED current_step
  PROVE  StepFacts'
  BY ElectionStays, HeededBefore DEF StepFacts

LEMMA RecordedStays ==
  ASSUME Forward, Remembered, Recorded, NoNewWinner \/ (FlushHeeded' => FlushedAll')
  PROVE  Recorded'
<1>1. CASE NoNewWinner
  BY <1>1, HeededBefore DEF Forward, Improves, Recorded, NoNewWinner, HasWinner
<1>2. CASE FlushHeeded' => FlushedAll'
  BY <1>2 DEF Recorded, FlushedAll
<1> QED
  BY <1>1, <1>2

\* A handler has only its own request to account for.
LEMMA HandlerReached ==
  ASSUME AdminTyped, Reached, NEW t \in Tasks, NEW r, HandlerStep(t, r),
         NoNewWinner \/ task[t].action = "finalize",
         task'[t] # NoTask => Sound(task[t])'
  PROVE  Reached'
<1>1. /\ Remembered /\ Forward /\ task[t] # NoTask /\ UNCHANGED current_step
      /\ \A s \in Tasks \ {t} : task'[s] = task[s]
  BY HandlerTyped DEF HandlerStep, page_vars
<1>2. StepFacts'
  BY <1>1, StepFactsStay DEF Reached
<1>3. task[t].action = "finalize" => (FlushHeeded' => FlushedAll')
  BY <1>1, HeededBefore, ElectionStays DEF Reached, Sound, Carried
<1>4. Recorded'
  BY <1>1, <1>3, RecordedStays DEF Reached
<1>5. ASSUME NEW s \in Tasks \ {t}, task'[s] # NoTask
      PROVE  Sound(task[s])'
  BY <1>1, <1>5, SoundStays DEF Reached, Alike
<1> QED
  BY <1>2, <1>4, <1>5 DEF Reached

LEMMA CreateReached ==
  ASSUME AdminTyped, Reached, NEW t \in Tasks, CreateOnly(t)
  PROVE  Reached'
<1>1. PICK r : /\ HandlerStep(t, r) /\ NoNewWinner
               /\ r.replaced = task[t].replaced
               /\ r.refused \/ task[t].action = "create"
  BY CreateStep
<1>2. /\ Remembered /\ Forward /\ r.action = task[t].action
      /\ task'[t] # NoTask => task'[t] = r
  BY <1>1, HandlerTyped DEF HandlerStep
<1>3. task'[t] # NoTask => Sound(task[t])'
  <2>1. SUFFICES ASSUME task'[t] # NoTask PROVE Sound(task[t])'
    OBVIOUS
  <2>2. Carried(task[t])'
    BY <1>1, <1>2, <2>1, CarriedStays DEF Reached, Sound, HandlerStep
  <2>3. Achieved(task[t])'
    BY <1>1, <1>2, <2>1 DEF Achieved
  <2> QED
    BY <2>2, <2>3 DEF Sound
<1> QED
  BY <1>1, <1>3, HandlerReached

LEMMA UpToNext ==
  ASSUME ElectionTyped, Forward, NEW d \in BallotDecades, NEW n, n = d + 1
  PROVE  /\ ClosedUpTo(d) /\ election'[d].closed => ClosedUpTo(n)'
         /\ FlushedUpTo(d) /\ election'[d].flushed => FlushedUpTo(n)'
         /\ DecidedUpTo(d) /\ Decided(d)' => DecidedUpTo(n)'
<1>1. \A e \in BallotDecades : e < n => e < d \/ e = d
  BY BallotDecadesAre
<1> QED
  BY <1>1 DEF Forward, Improves, ClosedUpTo, FlushedUpTo, DecidedUpTo, Decided

LEMMA CloseReached ==
  ASSUME AdminTyped, Reached, NEW t \in Tasks, Close(t)
  PROVE  Reached'
<1>1. PICK r : /\ HandlerStep(t, r) /\ NoNewWinner
               /\ Stayed(t, r) \/ Advanced(t, r)
               /\ \/ r.refused
                  \/ Stayed(t, r)
                  \/ /\ r.refused = task[t].refused
                     /\ election'[task[t].decade].closed
  BY CloseStep
<1>2. /\ Remembered /\ Forward /\ r.action = "close" /\ task[t] # NoTask
      /\ task[t].action = "close" /\ task[t].stage # "answered"
      /\ task'[t] # NoTask => task'[t] = r
  BY <1>1, HandlerTyped, CloseStep DEF HandlerStep
<1>3. task'[t] # NoTask => Sound(task[t])'
  <2>1. SUFFICES ASSUME task'[t] # NoTask PROVE Sound(task[t])'
    OBVIOUS
  <2>2. task'[t] = r /\ Sound(task[t])
    BY <1>2, <2>1 DEF Reached
  <2>3. Carried(task[t])'
    BY <1>1, <1>2, <2>2, CarriedStays DEF Sound, Stayed, Advanced
  <2>4. CASE r.refused
    BY <2>2, <2>3, <2>4 DEF Achieved, Sound
  <2>5. CASE Stayed(t, r)
    <3>1. ClosedUpTo(task[t].decade) => ClosedUpTo(r.decade)'
      BY <1>2, <2>5 DEF Stayed, Forward, Improves, ClosedUpTo
    <3> QED
      BY <1>2, <2>2, <2>3, <2>5, <3>1, HeededBefore DEF Achieved, Sound, Stayed
  <2>6. CASE /\ Advanced(t, r) /\ r.refused = task[t].refused
             /\ election'[task[t].decade].closed
    <3>1. ClosedUpTo(task[t].decade) => ClosedUpTo(r.decade)'
      BY <1>2, <2>6, UpToNext DEF Advanced, AdminTyped
    <3> QED
      BY <1>2, <2>2, <2>3, <2>6, <3>1, HeededBefore DEF Achieved, Sound, Advanced
  <2> QED
    BY <1>1, <2>4, <2>5, <2>6
<1> QED
  BY <1>1, <1>3, HandlerReached

LEMMA FlushReached ==
  ASSUME AdminTyped, Reached, NEW t \in Tasks, Flush(t)
  PROVE  Reached'
<1>1. PICK r : /\ HandlerStep(t, r) /\ NoNewWinner /\ Advanced(t, r)
               /\ \/ r.refused
                  \/ /\ r.refused = task[t].refused
                     /\ election[task[t].decade].closed =>
                          election'[task[t].decade].flushed
  BY FlushStep
<1>2. /\ Remembered /\ Forward /\ r.action = "flush" /\ task[t] # NoTask
      /\ task[t].action = "flush" /\ task[t].decade \in BallotDecades
      /\ task'[t] # NoTask => task'[t] = r
  BY <1>1, HandlerTyped, FlushStep DEF HandlerStep, Advanced
<1>3. task'[t] # NoTask => Sound(task[t])'
  <2>1. SUFFICES ASSUME task'[t] # NoTask PROVE Sound(task[t])'
    OBVIOUS
  <2>2. task'[t] = r /\ Sound(task[t])
    BY <1>2, <2>1 DEF Reached
  <2>3. Carried(task[t])'
    BY <1>1, <1>2, <2>2, CarriedStays DEF Sound, Advanced
  <2>4. CASE r.refused
    BY <2>2, <2>3, <2>4 DEF Achieved, Sound
  <2>5. CASE ~r.refused
    <3>1. CloseHeeded' => CloseHeeded /\ ClosedAll
      BY <1>2, <2>2, HeededBefore DEF Sound, Carried
    <3>2. CloseHeeded' => FlushedUpTo(task[t].decade)
      BY <1>1, <1>2, <2>2, <2>5, <3>1 DEF Sound, Achieved
    <3>3. CloseHeeded' => election'[task[t].decade].flushed
      BY <1>1, <1>2, <2>5, <3>1 DEF ClosedAll
    <3>4. CloseHeeded' => FlushedUpTo(r.decade)'
      BY <1>1, <1>2, <3>2, <3>3, UpToNext DEF Advanced, AdminTyped
    <3> QED
      BY <1>1, <1>2, <2>2, <2>3, <3>4 DEF Achieved, Advanced, Sound
  <2> QED
    BY <2>4, <2>5
<1> QED
  BY <1>1, <1>3, HandlerReached

LEMMA FinalizeReached ==
  ASSUME AdminTyped, Reached, NEW t \in Tasks, Finalize(t)
  PROVE  Reached'
<1>1. PICK r : HandlerStep(t, r) /\ (Stayed(t, r) \/ Settled(t, r))
  BY FinalizeStep
<1>2. /\ Remembered /\ Forward /\ r.action = "finalize" /\ task[t] # NoTask
      /\ task[t].action = "finalize" /\ task[t].stage # "answered"
      /\ task'[t] # NoTask => task'[t] = r
  BY <1>1, HandlerTyped, FinalizeStep DEF HandlerStep
<1>3. task'[t] # NoTask => Sound(task[t])'
  <2>1. SUFFICES ASSUME task'[t] # NoTask PROVE Sound(task[t])'
    OBVIOUS
  <2>2. task'[t] = r /\ Sound(task[t])
    BY <1>2, <2>1 DEF Reached
  <2>3. Carried(task[t])'
    BY <1>1, <1>2, <2>2, CarriedStays DEF Sound, Stayed, Settled, Advanced
  <2>4. CASE Stayed(t, r)
    <3>1. DecidedUpTo(task[t].decade) => DecidedUpTo(r.decade)'
      BY <1>2, <2>4 DEF Stayed, Forward, Improves, DecidedUpTo, Decided
    <3> QED
      BY <1>2, <2>2, <2>3, <2>4, <3>1, HeededBefore DEF Achieved, Sound, Stayed
  <2>5. CASE Settled(t, r)
    <3>1. task[t].decade \in BallotDecades /\ r.decade = task[t].decade + 1
          /\ (r.stage = "answered" => r.decade = DECADE_COUNT)
          /\ r.refused = task[t].refused
      BY <2>5 DEF Settled, Advanced
    <3>2. ASSUME FlushHeeded', ~r.refused, r.ties = 0, r.errors = 0
          PROVE  DecidedUpTo(r.decade)'
      <4>1. FlushHeeded /\ CreateHeeded
        BY <3>2, <1>2, HeededBefore, Cumulative
      <4>2. r.ties = task[t].ties /\ r.errors = task[t].errors
        BY <2>5, <3>2 DEF Settled
      <4>3. FlushedAll /\ ~task[t].replaced /\ DecidedUpTo(task[t].decade)
        BY <1>2, <2>2, <3>1, <3>2, <4>1, <4>2 DEF Sound, Carried, Achieved
      <4>4. election[task[t].decade].flushed
        BY <3>1, <4>3 DEF FlushedAll
      <4>5. \/ election'[task[t].decade].status = "FINALIZED"
            \/ election'[task[t].decade].found_empty
        BY <2>5, <3>2, <4>3, <4>4 DEF Settled
      <4>6. PICK d \in BallotDecades : d = task[t].decade
        BY <3>1
      <4>7. Decided(d)'
        BY <4>5, <4>6 DEF Decided
      <4> QED
        BY <1>2, <3>1, <4>3, <4>6, <4>7, UpToNext DEF AdminTyped
    <3> QED
      BY <1>2, <2>2, <2>3, <3>1, <3>2 DEF Achieved, Sound
  <2> QED
    BY <1>1, <2>4, <2>5
<1> QED
  BY <1>1, <1>2, <1>3, HandlerReached

LEMMA HandlerKeeps ==
  ASSUME AdminInv, NEW t \in Tasks, Handler(t)
  PROVE  AdminInv'
<1>1. CASE CreateOnly(t)
  <2>1. PICK r : HandlerStep(t, r)
    BY <1>1, CreateStep DEF AdminInv
  <2>2. AdminTyped' /\ Reached'
    BY <1>1, <2>1, HandlerTyped, CreateReached DEF AdminInv
  <2>3. Exist'
    BY <1>1, <2>1, CreateExist, HandlerExist DEF AdminInv
  <2> QED
    BY <2>2, <2>3 DEF AdminInv
<1>2. CASE Opening(t)
  BY <1>2, OpeningStep
<1>3. CASE Close(t) \/ Flush(t) \/ Finalize(t)
  <2>1. task[t].action # "create"
    BY <1>3, CloseStep, FlushStep, FinalizeStep DEF AdminInv
  <2>2. PICK r : HandlerStep(t, r)
    BY <1>3, CloseStep, FlushStep, FinalizeStep DEF AdminInv
  <2>3. AdminTyped' /\ Exist'
    BY <2>1, <2>2, HandlerTyped, HandlerExist DEF AdminInv
  <2>4. Reached'
    BY <1>3, CloseReached, FlushReached, FinalizeReached DEF AdminInv
  <2> QED
    BY <2>3, <2>4 DEF AdminInv
<1> QED
  BY <1>1, <1>2, <1>3 DEF Handler, Create, CreateOnly, Opening

-----------------------------------------------------------------------------
(* The page, the chain and the answers *)

\* No request is new, and nothing is put back.
Continues ==
  /\ Forward /\ Remembered
  /\ NoNewWinner \/ (FlushHeeded' => FlushedAll')
  /\ \A s \in Tasks : task'[s] # NoTask => task[s] # NoTask /\ Alike(s)

LEMMA ContinuesKeeps ==
  ASSUME AdminInv, Continues,
         \/ UNCHANGED current_step
         \/ current_step = 5 /\ current_step' = 6
  PROVE  Exist' /\ Reached'
<1>1. /\ Forward /\ Remembered
      /\ \A s \in Tasks : task'[s] # NoTask => task[s] # NoTask /\ Alike(s)
  BY DEF Continues
<1>2. AllExist => AllExist'
  BY <1>1, Existing
<1>3. \A s \in Tasks : Creating(s)' => Creating(s)
  BY <1>1 DEF Creating, At, Alike
<1>4. Exist'
  <2>1. ASSUME CreateHeeded'
        PROVE  /\ current_step' >= 2 => AllExist'
               /\ \A s \in Tasks : task'[s] # NoTask /\ task'[s].action # "create" => AllExist'
               /\ \A s \in Tasks : Creating(s)' => NothingBegun(s)'
    <3>1. CreateHeeded
      BY <1>1, <2>1, HeededBefore
    <3>2. current_step' >= 2 => current_step >= 2
      OBVIOUS
    <3>3. ASSUME NEW s \in Tasks, Creating(s)'
          PROVE  NothingBegun(s)'
      <4>1. NothingBegun(s)
        BY <1>3, <3>1, <3>3 DEF AdminInv, Exist
      <4>2. current_step' = 1
        BY <4>1 DEF NothingBegun
      <4> QED
        BY <1>1, <1>3, <4>1, <4>2 DEF NothingBegun, Alike
    <3> QED
      BY <1>1, <1>2, <3>1, <3>2, <3>3 DEF AdminInv, Exist, Alike
  <2>2. \A s \in Tasks : task'[s] # NoTask /\ task'[s].action = "create" =>
          /\ task'[s].stage \in {"opening", "clearing"} => AllExist'
          /\ task'[s].stage = "answered" /\ ~task'[s].refused => AllExist'
    BY <1>1, <1>2 DEF AdminInv, Exist, Alike
  <2> QED
    BY <2>1, <2>2 DEF Exist
<1>5. Reached'
  <2>1. StepFacts'
    <3>1. CASE UNCHANGED current_step
      BY <1>1, <3>1, StepFactsStay DEF AdminInv, Reached
    <3>2. CASE current_step = 5 /\ current_step' = 6
      BY <1>1, <3>2, ElectionStays, HeededBefore DEF AdminInv, Reached, StepFacts
    <3> QED
      BY <3>1, <3>2
  <2>2. Recorded'
    BY <1>1, RecordedStays DEF AdminInv, Reached, Continues
  <2>3. ASSUME NEW s \in Tasks, task'[s] # NoTask
        PROVE  Sound(task[s])'
    BY <1>1, <2>3, SoundStays DEF AdminInv, Reached
  <2> QED
    BY <2>1, <2>2, <2>3 DEF Reached
<1> QED
  BY <1>4, <1>5

\* The tasks are typed if they were and only owners have changed.
LEMMA TasksTyped ==
  ASSUME AdminTyped, task' \in [Tasks -> AdminRequests \cup {NoTask}],
         \A s \in Tasks : task'[s] # NoTask =>
           /\ task[s] # NoTask /\ Alike(s)
           /\ task'[s].stage = "answered" => task'[s].owner # "nobody",
         ElectionTyped', current_step' \in 1..7, detected_ties' \in Nat
  PROVE  AdminTyped'
<1>1. \A s \in Tasks : task'[s] # NoTask => Placed(task[s])'
  BY DEF AdminTyped, Alike, Placed
<1> QED
  BY <1>1 DEF AdminTyped

LEMMA ClickStep ==
  ASSUME AdminInv, NEW action \in Actions, NEW t \in Tasks, Click(action, t)
  PROVE  AdminInv'
<1> DEFINE r == NewRequest(action)
<1>1. /\ task' = [task EXCEPT ![t] = r] /\ task[t] = NoTask
      /\ current_step \in StepsOf(action)
      /\ UNCHANGED <<current_step, admin_page, election, ignored, overlapped>>
  BY DEF Click
<1>2. /\ r \in AdminRequests /\ r.action = action /\ r.owner = "page"
      /\ r.stage = "sent" /\ r.decade = 0 /\ ~r.replaced
  BY DEF NewRequest, AdminRequests, Stages
<1>3. Placed(r)
  BY <1>2, BallotDecadesAre DEF Placed, StagesOf, Actions
<1> HIDE DEF r
<1>4. task \in [Tasks -> AdminRequests \cup {NoTask}]
  BY DEF AdminInv, AdminTyped
<1>5. /\ task' \in [Tasks -> AdminRequests \cup {NoTask}] /\ task'[t] = r
      /\ \A s \in Tasks \ {t} : task'[s] = task[s]
  BY <1>1, <1>2, <1>4
<1>6. /\ current_step = 1 => action = "create"
      /\ action # "create" => current_step >= 2
      /\ action \in {"flush", "finalize"} => current_step >= 3
      /\ action = "finalize" => current_step >= 4
  BY <1>1 DEF StepsOf, Actions
<1>7. AdminTyped'
  <2>1. detected_ties' \in Nat /\ current_step' \in 1..7 /\ ElectionTyped'
    BY <1>1 DEF Click, AdminInv, AdminTyped, ElectionTyped
  <2>2. ASSUME NEW s \in Tasks, task'[s] # NoTask
        PROVE  /\ Placed(task[s])'
               /\ task'[s].stage = "answered" => task'[s].owner # "nobody"
    <3>1. CASE s = t
      BY <1>2, <1>3, <1>5, <3>1 DEF Placed
    <3>2. CASE s # t
      BY <1>5, <2>2, <3>2 DEF Placed, AdminInv, AdminTyped
    <3> QED
      BY <3>1, <3>2
  <2> QED
    BY <1>5, <2>1, <2>2 DEF AdminTyped
<1>8. Forward /\ NoNewWinner /\ Remembered
  BY <1>1, Unchanged DEF AdminInv, AdminTyped, Remembered
<1>9. (AllExist => AllExist') /\ (CreateHeeded' => CreateHeeded)
  BY <1>8, Existing, HeededBefore
<1>10. Exist'
  <2>1. \A s \in Tasks : Creating(s)' => s # t /\ Creating(s)
    BY <1>2, <1>5 DEF Creating, At
  <2>2. ASSUME CreateHeeded'
        PROVE  /\ current_step' >= 2 => AllExist'
               /\ \A s \in Tasks : task'[s] # NoTask /\ task'[s].action # "create" => AllExist'
               /\ \A s \in Tasks : Creating(s)' => NothingBegun(s)'
    <3>1. CreateHeeded
      BY <1>9, <2>2
    <3>2. \A s \in Tasks : task'[s] # NoTask /\ task'[s].action # "create" => AllExist'
      BY <1>2, <1>5, <1>6, <1>9, <3>1 DEF AdminInv, Exist
    <3>3. ASSUME NEW s \in Tasks, Creating(s)'
          PROVE  NothingBegun(s)'
      <4>1. NothingBegun(s) /\ Creating(s) /\ s # t
        BY <2>1, <3>1, <3>3 DEF AdminInv, Exist
      <4>2. action = "create" /\ current_step' = 1
        BY <1>1, <1>6, <4>1 DEF NothingBegun
      <4> QED
        BY <1>2, <1>5, <2>1, <4>1, <4>2 DEF NothingBegun
    <3> QED
      BY <1>1, <1>9, <3>1, <3>2, <3>3 DEF AdminInv, Exist
  <2>3. \A s \in Tasks : task'[s] # NoTask /\ task'[s].action = "create" =>
          /\ task'[s].stage \in {"opening", "clearing"} => AllExist'
          /\ task'[s].stage = "answered" /\ ~task'[s].refused => AllExist'
    BY <1>2, <1>5, <1>9 DEF AdminInv, Exist
  <2> QED
    BY <2>2, <2>3 DEF Exist
<1>11. Reached'
  <2>1. StepFacts' /\ Recorded'
    BY <1>1, <1>8, StepFactsStay, RecordedStays DEF AdminInv, Reached
  <2>2. ASSUME NEW s \in Tasks, s # t, task'[s] # NoTask
        PROVE  Sound(task[s])'
    BY <1>5, <1>8, <2>2, SoundStays DEF AdminInv, Reached, Alike
  <2>3. Sound(task[t])'
    <3>1. Carried(task[t])'
      BY <1>1, <1>2, <1>5, <1>6, <2>1, Cumulative DEF Carried, StepFacts
    <3>2. Achieved(task[t])'
      BY <1>2, <1>5, BallotDecadesAre
         DEF Achieved, ClosedUpTo, FlushedUpTo, DecidedUpTo
    <3> QED
      BY <3>1, <3>2 DEF Sound
  <2> QED
    BY <2>1, <2>2, <2>3 DEF Reached
<1> QED
  BY <1>7, <1>10, <1>11 DEF AdminInv

LEMMA PageStep ==
  ASSUME AdminInv, OpenTieResolution \/ Leave \/ Enter
  PROVE  AdminInv'
<1>1. /\ UNCHANGED <<election, ignored, overlapped>>
      /\ UNCHANGED current_step \/ (current_step = 5 /\ current_step' = 6)
      /\ detected_ties' \in Nat
  BY DEF OpenTieResolution, Leave, Enter, AdminInv, AdminTyped
<1>2. ASSUME NEW s \in Tasks
      PROVE  /\ task'[s] \in AdminRequests \cup {NoTask}
             /\ task'[s] # NoTask =>
                  /\ task[s] # NoTask /\ Alike(s)
                  /\ task'[s].stage = "answered" => task'[s].owner # "nobody"
  <2>1. CASE task'[s] = task[s]
    BY <2>1 DEF AdminInv, AdminTyped, Alike
  <2>2. CASE task[s] # NoTask /\ task'[s] = [task[s] EXCEPT !.owner = "left"]
    <3>1. task[s] \in AdminRequests
      BY <2>2 DEF AdminInv, AdminTyped
    <3> QED
      BY <2>2, <3>1 DEF AdminRequests, Alike
  <2> QED
    BY <2>1, <2>2 DEF OpenTieResolution, Leave, Enter
<1>3. task' \in [Tasks -> AdminRequests \cup {NoTask}]
  <2>1. task' = [s \in Tasks |-> task'[s]]
    BY DEF OpenTieResolution, Leave, Enter, AdminInv, AdminTyped
  <2> QED
    BY <1>2, <2>1
<1>4. ElectionTyped' /\ Continues
  BY <1>1, <1>2, Unchanged DEF Continues, Remembered, AdminInv, AdminTyped
<1>5. current_step' \in 1..7
  BY <1>1 DEF AdminInv, AdminTyped
<1> QED
  BY <1>1, <1>2, <1>3, <1>4, <1>5, TasksTyped, ContinuesKeeps DEF AdminInv

\* A step of one decade that leaves the requests as they are.
LEMMA DecadeStep ==
  ASSUME AdminInv, UNCHANGED <<page_vars, task, overlapped>>,
         NEW d \in BallotDecades, NEW b \in DecadeStates,
         election' = [election EXCEPT ![d] = b], Improves(election[d], b),
         HasWinner(b) => HasWinner(election[d])
  PROVE  AdminInv'
<1>1. ElectionTyped
  BY DEF AdminInv, AdminTyped
<1>2. /\ election'[d] = b
      /\ \A e \in BallotDecades : e # d => election'[e] = election[e]
  BY <1>1 DEF ElectionTyped
<1>3. ElectionTyped'
  BY <1>1 DEF ElectionTyped
<1>4. Forward /\ NoNewWinner
  BY <1>2 DEF Forward, Improves, NoNewWinner
<1>5. \A s \in Tasks : task'[s] = task[s] /\ Alike(s)
  BY DEF Alike
<1>6. Continues /\ UNCHANGED current_step
  BY <1>4, <1>5 DEF Continues, Remembered, page_vars
<1>7. AdminTyped'
  BY <1>3, <1>5, TasksTyped DEF AdminInv, AdminTyped, page_vars
<1> QED
  BY <1>6, <1>7, ContinuesKeeps DEF AdminInv

LEMMA ChainStep ==
  ASSUME AdminInv,
         \/ \E d \in VotedDecades : StoreDecision(d) \/ RollupLands(d)
         \/ \E d \in BallotDecades, transaction \in {"close_election", "set_final_winner"} :
              TransactionLands(d, transaction)
  PROVE  AdminInv'
<1>1. ASSUME NEW d \in BallotDecades
      PROVE  election[d] \in DecadeStates
  BY DEF AdminInv, AdminTyped, ElectionTyped
<1>2. ASSUME NEW d \in VotedDecades, StoreDecision(d)
      PROVE  AdminInv'
  <2> DEFINE b == [election[d] EXCEPT !.resolved = TRUE]
  <2>1. /\ election' = [election EXCEPT ![d] = b] /\ d \in BallotDecades
        /\ UNCHANGED <<page_vars, task, overlapped>>
    BY <1>2, BallotDecadesAre DEF StoreDecision
  <2>2. /\ b \in DecadeStates /\ Improves(election[d], b)
        /\ HasWinner(b) => HasWinner(election[d])
    BY <1>1, <2>1 DEF DecadeStates, Improves, HasWinner
  <2> HIDE DEF b
  <2> QED
    BY <2>1, <2>2, DecadeStep
<1>3. ASSUME NEW d \in VotedDecades, RollupLands(d)
      PROVE  AdminInv'
  <2>1. PICK tally \in {"leader", "tie"} :
          election' = [election EXCEPT ![d] = [election[d] EXCEPT !.tally = tally]]
    BY <1>3 DEF RollupLands
  <2> DEFINE b == [election[d] EXCEPT !.tally = tally]
  <2>2. /\ election' = [election EXCEPT ![d] = b] /\ d \in BallotDecades
        /\ UNCHANGED <<page_vars, task, overlapped>>
    BY <1>3, <2>1, BallotDecadesAre DEF RollupLands
  <2>3. /\ b \in DecadeStates /\ Improves(election[d], b)
        /\ HasWinner(b) => HasWinner(election[d])
    BY <1>1, <2>2 DEF DecadeStates, Tallies, Improves, HasWinner
  <2> HIDE DEF b
  <2> QED
    BY <2>2, <2>3, DecadeStep
<1>4. ASSUME NEW d \in BallotDecades,
             NEW transaction \in {"close_election", "set_final_winner"},
             TransactionLands(d, transaction)
      PROVE  AdminInv'
  <2> DEFINE b == Landed(election[d], transaction)
  <2>1. /\ election' = [election EXCEPT ![d] = b]
        /\ transaction \in election[d].unconfirmed
        /\ UNCHANGED <<page_vars, task, overlapped>>
    BY <1>4 DEF TransactionLands
  <2>2. /\ b \in DecadeStates /\ Improves(election[d], b)
        /\ HasWinner(b) => HasWinner(election[d])
    BY <1>1, <2>1 DEF Landed, DecadeStates, Improves, HasWinner
  <2> HIDE DEF b
  <2> QED
    BY <2>1, <2>2, DecadeStep
<1> QED
  BY <1>2, <1>3, <1>4

LEMMA RequestFailsStep ==
  ASSUME AdminInv, NEW t \in Tasks, RequestFails(t)
  PROVE  AdminInv'
<1>1. /\ UNCHANGED <<current_step, detected_ties, election, ignored, overlapped>>
      /\ task[t] # NoTask /\ task[t].owner # "nobody"
      /\ task' = [task EXCEPT ![t] =
                    IF task[t].stage = "answered" THEN NoTask
                    ELSE [task[t] EXCEPT !.owner = "nobody"]]
  BY DEF RequestFails
<1>2. task \in [Tasks -> AdminRequests \cup {NoTask}] /\ task[t] \in AdminRequests
  BY <1>1 DEF AdminInv, AdminTyped
<1>3. \A s \in Tasks \ {t} : task'[s] = task[s]
  BY <1>1, <1>2
<1>4. CASE task[t].stage = "answered"
  <2>1. task' = [task EXCEPT ![t] = NoTask] /\ task'[t] = NoTask
    BY <1>1, <1>2, <1>4
  <2>2. task' \in [Tasks -> AdminRequests \cup {NoTask}]
    BY <1>2, <2>1
  <2>3. \A s \in Tasks : task'[s] # NoTask => task'[s] = task[s] /\ Alike(s)
    BY <1>3, <2>1 DEF Alike
  <2>4. ElectionTyped' /\ Continues
    BY <1>1, <2>3, Unchanged DEF Continues, Remembered, AdminInv, AdminTyped
  <2> QED
    BY <1>1, <2>2, <2>3, <2>4, TasksTyped, ContinuesKeeps DEF AdminInv, AdminTyped
<1>5. CASE task[t].stage # "answered"
  <2>1. PICK r : r = [task[t] EXCEPT !.owner = "nobody"] /\ task' = [task EXCEPT ![t] = r]
    BY <1>1, <1>5
  <2>2. /\ r \in AdminRequests /\ r.action = task[t].action /\ r.stage = task[t].stage
        /\ r.decade = task[t].decade /\ r.replaced = task[t].replaced
        /\ r.refused = task[t].refused /\ r.ties = task[t].ties
        /\ r.errors = task[t].errors
    BY <1>2, <2>1 DEF AdminRequests
  <2>3. task'[t] = r /\ task' \in [Tasks -> AdminRequests \cup {NoTask}]
    BY <1>2, <2>1, <2>2
  <2>4. \A s \in Tasks : task'[s] # NoTask =>
          /\ task[s] # NoTask /\ Alike(s)
          /\ task'[s].stage = "answered" => task'[s].owner # "nobody"
    BY <1>1, <1>3, <1>5, <2>2, <2>3 DEF Alike, AdminInv, AdminTyped
  <2>5. ElectionTyped' /\ Continues
    BY <1>1, <2>4, Unchanged DEF Continues, Remembered, AdminInv, AdminTyped
  <2> QED
    BY <1>1, <2>3, <2>4, <2>5, TasksTyped, ContinuesKeeps DEF AdminInv, AdminTyped
<1> QED
  BY <1>4, <1>5

LEMMA HandlerDroppedStep ==
  ASSUME AdminInv, NEW t \in Tasks, HandlerDropped(t)
  PROVE  AdminInv'
<1>1. /\ UNCHANGED <<page_vars, overlapped>>
      /\ task[t] # NoTask /\ task[t].stage # "answered"
      /\ task' = [task EXCEPT ![t] = NoTask]
  BY DEF HandlerDropped
<1>2. /\ task' \in [Tasks -> AdminRequests \cup {NoTask}] /\ task'[t] = NoTask
      /\ \A s \in Tasks \ {t} : task'[s] = task[s]
  BY <1>1 DEF AdminInv, AdminTyped
<1>3. \A s \in Tasks : task'[s] # NoTask => task'[s] = task[s] /\ Alike(s)
  BY <1>2 DEF Alike
<1>4. Remembered
  BY <1>1 DEF Remembered, page_vars
<1>5. ElectionTyped' /\ Forward /\ (NoNewWinner \/ task[t].action = "finalize")
  <2>1. CASE UNCHANGED election
    BY <2>1, Unchanged DEF AdminInv, AdminTyped
  <2>2. CASE task[t].stage = "awaiting" /\ Unconfirmed(t, Transaction(task[t].action))
    <3>1. /\ Ballot(t) \in DecadeStates /\ task[t].decade \in BallotDecades
          /\ ElectionTyped /\ Placed(task[t]) /\ task[t] \in AdminRequests
      BY <1>1, HandlerAt DEF AdminInv
    <3>2. task[t].action \in {"close", "finalize"}
      BY <2>2, <3>1 DEF Placed, StagesOf, AdminRequests, Actions
    <3> DEFINE b == [Ballot(t) EXCEPT !.unconfirmed =
                       IF task[t].replaced THEN @
                       ELSE @ \cup {Transaction(task[t].action)}]
    <3>3. /\ b \in DecadeStates /\ Improves(Ballot(t), b)
          /\ task[t].action = "close" => (HasWinner(b) => HasWinner(Ballot(t)))
      BY <3>1, <3>2 DEF DecadeStates, Improves, HasWinner, Transaction
    <3>4. Becomes(t, b)
      BY <2>2 DEF Unconfirmed
    <3> HIDE DEF b
    <3> QED
      BY <3>1, <3>2, <3>3, <3>4, BecomesIs
  <2> QED
    BY <2>1, <2>2 DEF HandlerDropped
<1>6. Continues
  <2>1. task[t].action = "finalize" => (FlushHeeded' => FlushedAll')
    BY <1>1, <1>4, <1>5, HeededBefore, ElectionStays DEF AdminInv, Reached, Sound, Carried
  <2> QED
    BY <1>1, <1>3, <1>4, <1>5, <2>1 DEF Continues
<1>7. AdminTyped'
  BY <1>1, <1>2, <1>3, <1>5, TasksTyped DEF AdminInv, AdminTyped, page_vars
<1> QED
  BY <1>1, <1>6, <1>7, ContinuesKeeps DEF AdminInv, page_vars

LEMMA AnsweredStep ==
  ASSUME AdminInv, NEW t \in Tasks, Answered(t)
  PROVE  AdminInv'
<1>1. /\ UNCHANGED <<election, overlapped>>
      /\ task[t] # NoTask /\ task[t].stage = "answered"
      /\ task' = [task EXCEPT ![t] = NoTask]
      /\ current_step' = NextStep(task[t])
      /\ ignored' = IF task[t].refused THEN ignored \cup {task[t].action} ELSE ignored
      /\ detected_ties' \in {detected_ties, task[t].ties}
  BY DEF Answered, DetectedTies
<1>2. task[t] \in AdminRequests /\ Sound(task[t])
  BY <1>1 DEF AdminInv, AdminTyped, Reached
<1>3. /\ task' \in [Tasks -> AdminRequests \cup {NoTask}] /\ task'[t] = NoTask
      /\ \A s \in Tasks \ {t} : task'[s] = task[s]
  BY <1>1 DEF AdminInv, AdminTyped
<1>4. \A s \in Tasks : task'[s] # NoTask => task'[s] = task[s] /\ Alike(s)
  BY <1>3 DEF Alike
<1>5. /\ task[t].action = "create" => current_step' = 2
      /\ task[t].action = "close" => current_step' = 3
      /\ task[t].action = "flush" => current_step' = 4
      /\ task[t].action = "finalize" =>
           \/ current_step' = 5
           \/ current_step' = 7 /\ ~(task[t].ties > 0) /\ task[t].errors = 0
           \/ current_step' = current_step
      /\ task[t].action \in {"create", "close", "flush", "finalize"}
  BY <1>1, <1>2 DEF NextStep, AdminRequests, Actions
<1>6. ElectionTyped' /\ Forward /\ NoNewWinner /\ Remembered
  BY <1>1, Unchanged DEF AdminInv, AdminTyped, Remembered
<1>7. AdminTyped'
  <2>1. detected_ties' \in Nat /\ current_step' \in 1..7
    BY <1>1, <1>2, <1>5 DEF AdminInv, AdminTyped, AdminRequests
  <2> QED
    BY <1>3, <1>4, <1>6, <2>1, TasksTyped DEF AdminInv, AdminTyped
<1>8. /\ AllExist => AllExist'
      /\ AllHeeded' => AllHeeded
      /\ FlushHeeded' => FlushHeeded
      /\ CloseHeeded' => CloseHeeded
      /\ CreateHeeded' => CreateHeeded
  BY <1>6, Existing, HeededBefore
<1>9. task[t].refused =>
        /\ task[t].action = "create" => ~CreateHeeded'
        /\ task[t].action = "close" => ~CloseHeeded'
        /\ task[t].action = "flush" => ~FlushHeeded'
        /\ ~AllHeeded'
  BY <1>1, <1>5 DEF CreateHeeded, CloseHeeded, FlushHeeded, AllHeeded, Heeded, Actions
<1>10. Exist'
  <2>1. ASSUME CreateHeeded'
        PROVE  /\ current_step' >= 2 => AllExist'
               /\ \A s \in Tasks : task'[s] # NoTask /\ task'[s].action # "create" => AllExist'
               /\ \A s \in Tasks : Creating(s)' => NothingBegun(s)'
    <3>1. AllExist'
      BY <1>1, <1>8, <1>9, <2>1 DEF AdminInv, Exist
    <3>2. ASSUME NEW s \in Tasks, Creating(s)'
          PROVE  FALSE
      <4>1. Creating(s) /\ CreateHeeded
        BY <1>4, <1>8, <2>1, <3>2 DEF Creating, At
      <4>2. NothingBegun(s)
        BY <4>1 DEF AdminInv, Exist
      <4>3. task[t].action = "create" /\ task[t].refused
        BY <1>1, <4>2 DEF NothingBegun
      <4> QED
        BY <1>9, <2>1, <4>3
    <3> QED
      BY <3>1, <3>2
  <2>2. \A s \in Tasks : task'[s] # NoTask /\ task'[s].action = "create" =>
          /\ task'[s].stage \in {"opening", "clearing"} => AllExist'
          /\ task'[s].stage = "answered" /\ ~task'[s].refused => AllExist'
    BY <1>4, <1>8 DEF AdminInv, Exist
  <2> QED
    BY <2>1, <2>2 DEF Exist
<1>11. StepFacts'
  <2>1. /\ ClosedAll => ClosedAll'
        /\ FlushedAll => FlushedAll'
        /\ DecidedAll => DecidedAll'
    BY <1>6, ElectionStays
  <2>2. StepFacts
    BY DEF AdminInv, Reached
  <2>3. DECADE_COUNT \in Nat /\ \A d \in BallotDecades : d < DECADE_COUNT
    BY BallotDecadesAre
  <2>4. CASE task[t].action = "create"
    BY <1>5, <2>4 DEF StepFacts
  <2>5. CASE task[t].action = "close"
    <3>1. CloseHeeded' => ClosedUpTo(DECADE_COUNT)
      BY <1>1, <1>2, <1>8, <1>9, <2>5, Cumulative DEF Sound, Achieved
    <3>2. ClosedUpTo(DECADE_COUNT) => ClosedAll
      BY <2>3 DEF ClosedUpTo, ClosedAll
    <3> QED
      BY <1>5, <2>1, <2>5, <3>1, <3>2 DEF StepFacts
  <2>6. CASE task[t].action = "flush"
    <3>1. CloseHeeded' => ClosedAll
      BY <1>2, <1>8, <2>6 DEF Sound, Carried
    <3>2. FlushHeeded' => FlushedUpTo(DECADE_COUNT)
      BY <1>1, <1>2, <1>8, <1>9, <2>6, Cumulative DEF Sound, Achieved
    <3>3. FlushedUpTo(DECADE_COUNT) => FlushedAll
      BY <2>3 DEF FlushedUpTo, FlushedAll
    <3> QED
      BY <1>5, <2>1, <2>6, <3>1, <3>2, <3>3 DEF StepFacts
  <2>7. CASE task[t].action = "finalize"
    <3>1. (CloseHeeded' => ClosedAll) /\ (FlushHeeded' => FlushedAll)
      BY <1>2, <1>8, <2>7 DEF Sound, Carried
    <3>2. ASSUME AllHeeded', current_step' = 7
          PROVE  DecidedAll
      <4>1. CASE current_step' = current_step
        BY <1>8, <2>2, <3>2, <4>1 DEF StepFacts
      <4>2. CASE ~(task[t].ties > 0) /\ task[t].errors = 0
        <5>1. task[t].ties = 0
          BY <1>2, <4>2 DEF AdminRequests
        <5>2. ~task[t].refused /\ FlushHeeded
          BY <1>8, <1>9, <3>2, Cumulative
        <5>3. DecidedUpTo(DECADE_COUNT)
          BY <1>1, <1>2, <2>7, <4>2, <5>1, <5>2 DEF Sound, Achieved
        <5> QED
          BY <2>3, <5>3 DEF DecidedUpTo, DecidedAll
      <4> QED
        BY <1>5, <2>7, <3>2, <4>1, <4>2
    <3> QED
      BY <2>1, <3>1, <3>2 DEF StepFacts
  <2> QED
    BY <1>5, <2>4, <2>5, <2>6, <2>7
<1>12. Reached'
  <2>1. Recorded'
    BY <1>6, RecordedStays DEF AdminInv, Reached
  <2>2. ASSUME NEW s \in Tasks, task'[s] # NoTask
        PROVE  Sound(task[s])'
    BY <1>4, <1>6, <2>2, SoundStays DEF AdminInv, Reached
  <2> QED
    BY <1>11, <2>1, <2>2 DEF Reached
<1> QED
  BY <1>7, <1>10, <1>12 DEF AdminInv

LEMMA StepAdmin == AdminInv /\ [AdminNext]_admin_vars => AdminInv'
<1> SUFFICES ASSUME AdminInv, [AdminNext]_admin_vars PROVE AdminInv'
  OBVIOUS
<1>1. CASE AdminNext
  <2>1. ASSUME NEW t \in Tasks,
               \/ Unauthorized(t) \/ Create(t) \/ Close(t) \/ Flush(t) \/ Finalize(t)
        PROVE  AdminInv'
    BY <2>1, HandlerKeeps DEF Handler
  <2>2. ASSUME NEW t \in Tasks, Answered(t) \/ RequestFails(t) \/ HandlerDropped(t)
        PROVE  AdminInv'
    BY <2>2, AnsweredStep, RequestFailsStep, HandlerDroppedStep
  <2> QED
    BY <1>1, <2>1, <2>2, ClickStep, PageStep, ChainStep DEF AdminNext
<1>2. CASE UNCHANGED admin_vars
  <2>1. /\ UNCHANGED <<election, task, current_step, detected_ties, ignored, overlapped>>
    BY <1>2 DEF admin_vars
  <2>2. \A s \in Tasks : Alike(s)
    BY <2>1 DEF Alike
  <2>3. ElectionTyped' /\ Continues
    BY <2>1, <2>2, Unchanged DEF Continues, Remembered, AdminInv, AdminTyped
  <2> QED
    BY <2>1, <2>2, <2>3, TasksTyped, ContinuesKeeps DEF AdminInv, AdminTyped
<1> QED
  BY <1>1, <1>2

LEMMA AdminInvariant == AdminSpec => []AdminInv
  BY InitAdmin, StepAdmin, PTL DEF AdminSpec

-----------------------------------------------------------------------------
(* The page of the ties *)

Confirmations ==
  [decade : TallyDecades, winner : TieMovies \cup {Nothing},
   phase : {"resolving", "next"}, authorized : BOOLEAN]

TieTyped ==
  /\ leaders \in [TallyDecades -> SUBSET TieMovies]
  /\ resolved_ties \in [TallyDecades -> TieMovies \cup {Nothing}]
  /\ to_resolve \subseteq [decade : TallyDecades, winner : TieMovies \cup {Nothing}]
  /\ tie_page \in TiePages \cup {Nothing}
  /\ loading_all \in [phase : {"idle", "sent"}, read : SUBSET TallyDecades,
                      unresolved : SUBSET TallyDecades]
  /\ loads \in [TallyDecades -> Nat]
  /\ confirming \in Confirmations \cup {Nothing}
  /\ listed \subseteq TallyDecades

\* Nothing is under way for a page that is not open.
NoTiePage ==
  tie_page = Nothing =>
    /\ loading_all.phase = "idle"
    /\ confirming = Nothing
    /\ loads = [d \in TallyDecades |-> 0]
    /\ listed = {}

\* While the list is loading nothing else can be done on the page.
LoadingAll ==
  loading_all.phase # "idle" =>
    /\ tie_page.loading
    /\ tie_page.unresolved_decades = {}
    /\ confirming = Nothing
    /\ loads = [d \in TallyDecades |-> 0]

\* While a decision is under way its decade stays the current one, and the
\* decision is known to the API or on its way there.
Confirming ==
  confirming # Nothing =>
    /\ tie_page.submitting
    /\ confirming.phase = "resolving" =>
         /\ confirming.decade = tie_page.current_decade
         /\ confirming.authorized =>
              resolved_ties[confirming.decade] # Nothing \/ ~Executed

TieInv ==
  /\ TieTyped
  /\ NoTiePage
  /\ LoadingAll
  /\ Confirming
  /\ \A request \in to_resolve : request.winner # Nothing
  /\ OnlyDecidedLeaveTheList

LEMMA MinDecade ==
  ASSUME NEW D \in SUBSET TallyDecades, D # {}
  PROVE  Min(D) \in D
<1>1. PICK d \in D : \A e \in D : ~(<<e, d>> \in OpToRel(<, Nat))
  BY TieAssumption, NatLessThanWellFounded, WFMin DEF TieAssumption
<1>2. d \in Nat /\ D \subseteq Nat
  BY TieAssumption DEF TieAssumption
<1>3. ASSUME NEW e \in D
      PROVE  d <= e
  <2>1. ~(e < d)
    BY <1>1, <1>2 DEF OpToRel
  <2> QED
    BY <1>2, <2>1
<1> QED
  BY <1>3 DEF Min

LEMMA InitTie == TieInit => TieInv
  BY DEF TieInit, TieInv, TieTyped, NoTiePage, LoadingAll, Confirming, Idle,
     OnlyDecidedLeaveTheList

\* What an answer sets leaves the page a page.
LEMMA PageKept ==
  ASSUME TieTyped, NoTiePage,
         UnresolvedLoaded \/ WinnerConfirmed \/ NextLoaded \/ ConfirmFails
  PROVE  tie_page \in TiePages /\ tie_page' \in TiePages
<1>1. /\ tie_page \in TiePages
      /\ loading_all.unresolved \in SUBSET TallyDecades
  BY DEF TieTyped, NoTiePage, UnresolvedLoaded, WinnerConfirmed, NextLoaded,
     ConfirmFails
<1>2. CASE UnresolvedLoaded
  <2>1. loading_all.unresolved # {} =>
          /\ FirstShown(loading_all.unresolved) \in TallyDecades
          /\ leaders[FirstShown(loading_all.unresolved)] \in SUBSET TieMovies
    BY <1>1, MinDecade DEF FirstShown, TieTyped
  <2> QED
    BY <1>1, <1>2, <2>1 DEF UnresolvedLoaded, TiePages
<1>3. CASE WinnerConfirmed
  <2> DEFINE remaining == tie_page.unresolved_decades \ {tie_page.current_decade}
             next == Min(remaining)
  <2>1. remaining \in SUBSET TallyDecades
    BY <1>1 DEF TiePages
  <2>2. remaining # {} => next \in TallyDecades
    BY <2>1, MinDecade
  <2>3. \/ tie_page' = [tie_page EXCEPT !.unresolved_decades = {},
                                       !.selected_movie = Nothing,
                                       !.tie_indices = {},
                                       !.submitting = FALSE]
        \/ /\ remaining # {}
           /\ tie_page' = [tie_page EXCEPT !.unresolved_decades = remaining,
                                          !.selected_movie = Nothing,
                                          !.tie_indices = {},
                                          !.current_decade = next]
    BY <1>3 DEF WinnerConfirmed
  <2> HIDE DEF remaining, next
  <2> QED
    BY <1>1, <2>1, <2>2, <2>3 DEF TiePages
<1>4. CASE NextLoaded
  <2>1. leaders[confirming.decade] \in SUBSET TieMovies
    BY <1>4 DEF NextLoaded, TieTyped, Confirmations
  <2> QED
    BY <1>1, <1>4, <2>1 DEF NextLoaded, TiePages
<1>5. CASE ConfirmFails
  BY <1>1, <1>5 DEF ConfirmFails, TiePages
<1> QED
  BY <1>1, <1>2, <1>3, <1>4, <1>5

LEMMA TypedTie ==
  ASSUME TieTyped, NoTiePage, LoadingAll, [TieNext]_tie_vars
  PROVE  TieTyped'
<1> USE DEF TieTyped
<1>1. CASE TalliesDecrypted
  BY <1>1 DEF TalliesDecrypted, TieMovies
<1>2. CASE LeaveTiePage
  BY <1>2 DEF LeaveTiePage, Idle
<1>3. ASSUME NEW d \in TallyDecades, ReadUnresolved(d)
      PROVE  TieTyped'
  BY <1>3 DEF ReadUnresolved
<1>4. CASE UnresolvedLoaded
  BY <1>4, PageKept DEF UnresolvedLoaded, Idle
<1>5. CASE UnresolvedFails
  <2>1. tie_page \in TiePages /\ tie_page' = [tie_page EXCEPT !.loading = FALSE]
    BY <1>5 DEF UnresolvedFails, NoTiePage
  <2>2. tie_page' \in TiePages
    BY <2>1 DEF TiePages
  <2> QED
    BY <1>5, <2>2 DEF UnresolvedFails, Idle
<1>6. ASSUME NEW d \in TallyDecades, OpenTiePage(d)
      PROVE  TieTyped'
  BY <1>6 DEF OpenTiePage, NewTiePage, TiePages, Idle
<1>7. ASSUME NEW d \in TallyDecades, LoadDecade(d)
      PROVE  TieTyped'
  <2>1. tie_page' \in TiePages
    BY <1>7 DEF LoadDecade, TiePages
  <2> QED
    BY <1>7, <2>1 DEF LoadDecade
<1>8. ASSUME NEW d \in TallyDecades, DecadeLoaded(d)
      PROVE  TieTyped'
  <2>1. tie_page \in TiePages
    BY <1>8 DEF DecadeLoaded, NoTiePage
  <2>2. tie_page' \in TiePages
    BY <1>8, <2>1 DEF DecadeLoaded, TiePages
  <2>3. loads' \in [TallyDecades -> Nat]
    BY <1>8 DEF DecadeLoaded
  <2> QED
    BY <1>8, <2>2, <2>3 DEF DecadeLoaded
<1>9. ASSUME NEW m \in TieMovies, SelectMovie(m)
      PROVE  TieTyped'
  BY <1>9 DEF SelectMovie, TiePages
<1>10. ASSUME NEW authorized \in BOOLEAN, ConfirmWinner(authorized)
       PROVE  TieTyped'
  <2>1. tie_page \in TiePages /\ tie_page' \in TiePages
    BY <1>10 DEF ConfirmWinner, TiePages
  <2>2. /\ tie_page.current_decade \in TallyDecades
        /\ tie_page.selected_movie \in TieMovies \cup {Nothing}
    BY <2>1 DEF TiePages
  <2>3. confirming' \in Confirmations
    BY <1>10, <2>2 DEF ConfirmWinner, Confirmations
  <2> QED
    BY <1>10, <2>1, <2>2, <2>3 DEF ConfirmWinner
<1>11. ASSUME NEW request \in to_resolve, ResolveTie(request)
       PROVE  TieTyped'
  BY <1>11 DEF ResolveTie
<1>12. CASE WinnerConfirmed
  <2> DEFINE remaining == tie_page.unresolved_decades \ {tie_page.current_decade}
             next == Min(remaining)
  <2>1. tie_page \in TiePages /\ tie_page' \in TiePages
    BY <1>12, PageKept
  <2>2. remaining # {} => next \in TallyDecades
    BY <2>1, MinDecade DEF TiePages
  <2>3. \/ confirming' = Nothing
        \/ /\ remaining # {}
           /\ confirming' = [confirming EXCEPT !.decade = next,
                                              !.winner = Nothing,
                                              !.phase = "next"]
    BY <1>12 DEF WinnerConfirmed
  <2> HIDE DEF remaining, next
  <2>4. confirming \in Confirmations
    BY <1>12 DEF WinnerConfirmed
  <2>5. confirming' \in Confirmations \cup {Nothing}
    BY <2>2, <2>3, <2>4 DEF Confirmations
  <2> QED
    BY <1>12, <2>1, <2>5 DEF WinnerConfirmed
<1>13. CASE NextLoaded
  BY <1>13, PageKept DEF NextLoaded
<1>14. CASE ConfirmFails
  BY <1>14, PageKept DEF ConfirmFails
<1>15. CASE UNCHANGED tie_vars
  BY <1>15 DEF tie_vars
<1> QED
  BY <1>1, <1>2, <1>3, <1>4, <1>5, <1>6, <1>7, <1>8, <1>9, <1>10, <1>11, <1>12,
     <1>13, <1>14, <1>15 DEF TieNext

LEMMA StepTie == TieInv /\ [TieNext]_tie_vars => TieInv'
<1> SUFFICES ASSUME TieInv, [TieNext]_tie_vars
             PROVE  TieInv'
  OBVIOUS
<1> DEFINE Rest == /\ NoTiePage
                   /\ LoadingAll
                   /\ Confirming
                   /\ \A request \in to_resolve : request.winner # Nothing
                   /\ OnlyDecidedLeaveTheList
<1>0. TieTyped /\ TieTyped'
  BY TypedTie DEF TieInv
<1> SUFFICES Rest'
  BY <1>0 DEF TieInv
<1>1. Rest
  BY DEF TieInv
<1>2. /\ Nothing \notin TiePages
      /\ tie_page # Nothing => tie_page \in TiePages
      /\ tie_page' # Nothing => tie_page' \in TiePages
  BY <1>0, TieAssumption DEF TieTyped, TieAssumption
<1>3. CASE TalliesDecrypted
  BY <1>1, <1>3 DEF TalliesDecrypted, NoTiePage, LoadingAll, Confirming, Executed,
     OnlyDecidedLeaveTheList
<1>4. CASE LeaveTiePage
  BY <1>1, <1>4 DEF LeaveTiePage, Idle, NoTiePage, LoadingAll, Confirming,
     OnlyDecidedLeaveTheList
<1>5. ASSUME NEW d \in TallyDecades, ReadUnresolved(d)
      PROVE  Rest'
  BY <1>1, <1>5 DEF ReadUnresolved, NoTiePage, LoadingAll, Confirming, Executed,
     OnlyDecidedLeaveTheList
<1>6. CASE UnresolvedLoaded
  <2>1. /\ tie_page \in TiePages
        /\ confirming' = Nothing /\ loads' = [d \in TallyDecades |-> 0]
        /\ loading_all'.phase = "idle"
        /\ to_resolve' = to_resolve
    BY <1>1, <1>2, <1>6 DEF UnresolvedLoaded, Idle, NoTiePage, LoadingAll
  <2>2. /\ tie_page'.unresolved_decades = listed'
        /\ tie_page' # Nothing
    BY <1>0, <1>1, <1>2, <1>6, <2>1, PageKept DEF UnresolvedLoaded, TiePages
  <2> QED
    BY <1>1, <2>1, <2>2 DEF NoTiePage, LoadingAll, Confirming,
       OnlyDecidedLeaveTheList
<1>7. CASE UnresolvedFails
  <2>1. tie_page \in TiePages /\ confirming = Nothing
    BY <1>1, <1>2, <1>7 DEF UnresolvedFails, NoTiePage, LoadingAll
  <2>2. /\ tie_page' \in TiePages
        /\ tie_page'.unresolved_decades = tie_page.unresolved_decades
    BY <1>7, <2>1 DEF UnresolvedFails, TiePages
  <2> QED
    BY <1>1, <1>2, <1>7, <2>1, <2>2 DEF UnresolvedFails, Idle, NoTiePage,
       LoadingAll, Confirming, OnlyDecidedLeaveTheList
<1>8. ASSUME NEW d \in TallyDecades, OpenTiePage(d)
      PROVE  Rest'
  <2>1. /\ tie_page' \in TiePages
        /\ tie_page'.unresolved_decades = {} /\ tie_page'.loading
    BY <1>8 DEF OpenTiePage, NewTiePage, TiePages
  <2> QED
    BY <1>1, <1>2, <1>8, <2>1 DEF OpenTiePage, NoTiePage, LoadingAll, Confirming,
       OnlyDecidedLeaveTheList
<1>9. ASSUME NEW d \in TallyDecades, LoadDecade(d)
      PROVE  Rest'
  <2>1. /\ tie_page' \in TiePages
        /\ tie_page'.unresolved_decades = tie_page.unresolved_decades
        /\ tie_page.submitting = FALSE
    BY <1>2, <1>9 DEF LoadDecade, DecadesEnabled, TiePages
  <2>2. confirming = Nothing /\ loading_all.phase = "idle"
    BY <1>1, <1>9, <2>1 DEF LoadDecade, Confirming, LoadingAll
  <2> QED
    BY <1>1, <1>2, <1>9, <2>1, <2>2 DEF LoadDecade, NoTiePage, LoadingAll,
       Confirming, OnlyDecidedLeaveTheList
<1>10. ASSUME NEW d \in TallyDecades, DecadeLoaded(d)
       PROVE  Rest'
  <2>1. loads # [e \in TallyDecades |-> 0]
    BY <1>10 DEF DecadeLoaded
  <2>2. tie_page \in TiePages /\ loading_all.phase = "idle"
    BY <1>1, <1>2, <2>1 DEF NoTiePage, LoadingAll
  <2>3. /\ tie_page' \in TiePages
        /\ tie_page'.unresolved_decades = tie_page.unresolved_decades
        /\ tie_page'.current_decade = tie_page.current_decade
        /\ tie_page'.submitting = tie_page.submitting
    BY <1>0, <1>10, <2>2 DEF DecadeLoaded, TieTyped, TiePages
  <2> QED
    BY <1>1, <1>2, <1>10, <2>2, <2>3 DEF DecadeLoaded, NoTiePage, LoadingAll,
       Confirming, Executed, OnlyDecidedLeaveTheList
<1>11. ASSUME NEW m \in TieMovies, SelectMovie(m)
       PROVE  Rest'
  <2>1. tie_page \in TiePages /\ ~tie_page.loading /\ ~tie_page.submitting
    BY <1>2, <1>11 DEF SelectMovie
  <2>2. /\ tie_page' \in TiePages
        /\ tie_page'.unresolved_decades = tie_page.unresolved_decades
    BY <1>11, <2>1 DEF SelectMovie, TiePages
  <2>3. confirming = Nothing /\ loading_all.phase = "idle"
    BY <1>1, <2>1 DEF Confirming, LoadingAll
  <2> QED
    BY <1>1, <1>2, <1>11, <2>2, <2>3 DEF SelectMovie, NoTiePage, LoadingAll,
       Confirming, OnlyDecidedLeaveTheList
<1>12. ASSUME NEW authorized \in BOOLEAN, ConfirmWinner(authorized)
       PROVE  Rest'
  <2>1. /\ tie_page \in TiePages /\ ~tie_page.loading
        /\ tie_page.selected_movie # Nothing
    BY <1>2, <1>12 DEF ConfirmWinner
  <2>2. /\ tie_page' \in TiePages /\ tie_page'.submitting
        /\ tie_page'.unresolved_decades = tie_page.unresolved_decades
        /\ tie_page'.current_decade = tie_page.current_decade
    BY <1>12, <2>1 DEF ConfirmWinner, TiePages
  <2>3. loading_all.phase = "idle"
    BY <1>1, <2>1 DEF LoadingAll
  <2>4. Confirming'
    BY <1>12, <2>2 DEF ConfirmWinner, Confirming, Executed
  <2>5. \A request \in to_resolve' : request.winner # Nothing
    BY <1>1, <1>12, <2>1 DEF ConfirmWinner
  <2> QED
    BY <1>1, <1>2, <1>12, <2>2, <2>3, <2>4, <2>5 DEF ConfirmWinner, NoTiePage,
       LoadingAll, OnlyDecidedLeaveTheList
<1>13. ASSUME NEW request \in to_resolve, ResolveTie(request)
       PROVE  Rest'
  <2>1. /\ request.winner # Nothing /\ request.decade \in TallyDecades
        /\ resolved_ties' = [resolved_ties EXCEPT ![request.decade] = request.winner]
        /\ to_resolve' = to_resolve \ {request}
        /\ request = [decade |-> request.decade, winner |-> request.winner]
    BY <1>0, <1>1, <1>13 DEF ResolveTie, TieTyped
  <2>2. \A d \in TallyDecades :
          /\ resolved_ties[d] # Nothing => resolved_ties'[d] # Nothing
          /\ d = request.decade => resolved_ties'[d] # Nothing
    BY <1>0, <2>1 DEF TieTyped
  <2>3. Confirming'
    <3> SUFFICES ASSUME confirming # Nothing, confirming.phase = "resolving",
                        confirming.authorized
                 PROVE  resolved_ties'[confirming.decade] # Nothing \/ ~Executed'
      BY <1>1, <1>13 DEF ResolveTie, Confirming
    <3>1. confirming.decade \in TallyDecades
      BY <1>0 DEF TieTyped, Confirmations
    <3>2. CASE resolved_ties[confirming.decade] # Nothing
      BY <2>2, <3>1, <3>2
    <3>3. CASE [decade |-> confirming.decade, winner |-> confirming.winner]
                 = request
      BY <2>2, <3>1, <3>3
    <3> QED
      BY <1>1, <1>13, <2>1, <3>2, <3>3 DEF ResolveTie, Confirming, Executed
  <2> QED
    BY <1>0, <1>1, <1>13, <2>1, <2>2, <2>3 DEF ResolveTie, NoTiePage, LoadingAll,
       OnlyDecidedLeaveTheList, TieTyped
<1>14. CASE WinnerConfirmed
  <2>1. /\ tie_page \in TiePages /\ loading_all.phase = "idle"
        /\ confirming.phase = "resolving" /\ Executed
        /\ confirming \in Confirmations
        /\ confirming.decade = tie_page.current_decade
    BY <1>0, <1>1, <1>2, <1>14
    DEF WinnerConfirmed, NoTiePage, LoadingAll, Confirming, TieTyped
  <2>2. /\ tie_page' # Nothing
        /\ tie_page'.unresolved_decades =
             tie_page.unresolved_decades \ {tie_page.current_decade}
        /\ confirming' # Nothing => /\ tie_page'.submitting
                                    /\ confirming'.phase = "next"
    <3>1. tie_page' \in TiePages
      BY <1>0, <1>1, <1>14, PageKept
    <3>2. tie_page.submitting
      BY <1>1, <1>14 DEF WinnerConfirmed, Confirming
    <3> QED
      BY <1>2, <1>14, <2>1, <3>1, <3>2
      DEF WinnerConfirmed, TiePages, Confirmations
  <2>3. ASSUME NEW d \in listed' \ tie_page'.unresolved_decades
        PROVE  resolved_ties[d] # Nothing
    <3>1. CASE d = tie_page.current_decade
      BY <1>1, <1>14, <2>1, <2>3, <3>1 DEF WinnerConfirmed, Confirming
    <3>2. CASE d # tie_page.current_decade
      BY <1>1, <1>2, <1>14, <2>1, <2>2, <2>3, <3>2
      DEF WinnerConfirmed, OnlyDecidedLeaveTheList
    <3> QED
      BY <3>1, <3>2
  <2> QED
    BY <1>1, <1>14, <2>1, <2>2, <2>3 DEF WinnerConfirmed, NoTiePage, LoadingAll,
       Confirming, OnlyDecidedLeaveTheList
<1>15. CASE NextLoaded \/ ConfirmFails
  <2>1. /\ tie_page \in TiePages /\ loading_all.phase = "idle"
        /\ confirming' = Nothing
        /\ UNCHANGED <<resolved_ties, to_resolve, loading_all, loads, listed>>
    BY <1>1, <1>2, <1>15 DEF NextLoaded, ConfirmFails, NoTiePage, LoadingAll
  <2>2. /\ tie_page' # Nothing
        /\ tie_page'.unresolved_decades = tie_page.unresolved_decades
    BY <1>0, <1>1, <1>2, <1>15, <2>1, PageKept DEF NextLoaded, ConfirmFails,
       TiePages
  <2> QED
    BY <1>1, <1>2, <2>1, <2>2 DEF NoTiePage, LoadingAll, Confirming,
       OnlyDecidedLeaveTheList
<1>16. CASE UNCHANGED tie_vars
  BY <1>1, <1>16 DEF tie_vars, NoTiePage, LoadingAll, Confirming, Executed,
     OnlyDecidedLeaveTheList
<1> QED
  BY <1>3, <1>4, <1>5, <1>6, <1>7, <1>8, <1>9, <1>10, <1>11, <1>12, <1>13,
     <1>14, <1>15, <1>16 DEF TieNext

-----------------------------------------------------------------------------
(* The pages of a voter *)

Receipts == [decade : Decades, movie : Movies, hash : Hashes]

Submissions ==
  [wallet : Wallets \cup {NONE}, decade : Decades \cup {NONE},
   movie : Movies \cup {NONE}, call : {"new", "encrypting", "waiting", "ok", "err"},
   request : {"unsent", "sent", "accepted", "rejected"}]

VotePages ==
  [selected_movie : Movies \cup {NONE}, submitting : BOOLEAN,
   vote_submitted : BOOLEAN, receipt_hash : Hashes \cup {NONE},
   calls : SUBSET Hashes]

VoterTyped ==
  /\ wallet \in Wallets \cup {NONE}
  /\ selected_decade \in Decades
  /\ vote_page \in VotePages
  /\ submission \in [Hashes -> Submissions]
  /\ local_storage \in [Wallets -> Seq(Receipts)]

\* A call that was made is for a wallet, a decade and a movie.
Made(h) == submission[h].call # "new"

CallsAreMade ==
  \A h \in Hashes : Made(h) =>
    /\ submission[h].wallet \in Wallets
    /\ submission[h].decade \in Decades
    /\ submission[h].movie \in Movies

InFlight(h) == submission[h].call \in {"encrypting", "waiting"}

\* The call is about what the page shows.
Shown(h) ==
  /\ submission[h].movie = vote_page.selected_movie
  /\ submission[h].decade = selected_decade
  /\ submission[h].wallet = wallet

\* A page waits for one call at a time, and for none once one was answered.
PageInv ==
  page = "vote" =>
    /\ \A h \in vote_page.calls :
         /\ Made(h)
         /\ InFlight(h) => vote_page.submitting /\ ~vote_page.vote_submitted /\ Shown(h)
         /\ submission[h].call = "ok" => vote_page.vote_submitted
    /\ \A g, h \in vote_page.calls : InFlight(g) /\ InFlight(h) => g = h
    /\ PageShowsItsVote
    /\ \A h \in Hashes : vote_page.receipt_hash = h => h \in vote_page.calls

VoterInv ==
  /\ VoterTyped
  /\ CallsAreMade
  /\ PageInv
  /\ ReceiptsMatchAnswers

LEMMA HashesFinite == IsFiniteSet(Hashes) /\ NONE \notin Hashes
  BY VoterAssumption, FS_Interval DEF VoterAssumption, Hashes

LEMMA InitVoter == VoterInit => VoterInv
<1> SUFFICES ASSUME VoterInit
             PROVE  VoterInv
  OBVIOUS
<1>1. VoterTyped /\ CallsAreMade
  BY VoterAssumption DEF VoterInit, VoterTyped, VotePages, Submissions, NewVotePage,
     NoSubmission, CallsAreMade, Made, VoterAssumption
<1>2. PageInv
  BY DEF VoterInit, PageInv
<1>3. ASSUME NEW w \in Wallets
      PROVE  VotesOf(w) = {}
  BY DEF VoterInit, NoSubmission, VotesOf
<1>4. ASSUME NEW w \in Wallets
      PROVE  /\ ToSet(local_storage[w]) = {Receipt(h) : h \in VotesOf(w)}
             /\ Len(local_storage[w]) = Cardinality(VotesOf(w))
  <2>1. local_storage[w] = << >> /\ Cardinality(VotesOf(w)) = 0
    BY <1>3, FS_EmptySet DEF VoterInit
  <2>2. ToSet(local_storage[w]) = {}
    BY <2>1 DEF ToSet
  <2> QED
    BY <1>3, <2>1, <2>2
<1> QED
  BY <1>1, <1>2, <1>4 DEF VoterInv, ReceiptsMatchAnswers

\* Steps that answer no call leave the receipts true.
LEMMA ReceiptsStay ==
  ASSUME VoterInv, UNCHANGED local_storage,
         submission' \in [Hashes -> Submissions],
         \A h \in Hashes : (submission[h].call = "ok") = (submission'[h].call = "ok"),
         \A h \in Hashes : submission[h].call = "ok" =>
           /\ submission'[h].wallet = submission[h].wallet
           /\ submission'[h].decade = submission[h].decade
           /\ submission'[h].movie = submission[h].movie
  PROVE  ReceiptsMatchAnswers'
<1>1. ASSUME NEW w \in Wallets
      PROVE  VotesOf(w)' = VotesOf(w)
  BY DEF VotesOf
<1>2. ASSUME NEW w \in Wallets
      PROVE  {Receipt(h) : h \in VotesOf(w)}' = {Receipt(h) : h \in VotesOf(w)}
  <2>1. ASSUME NEW h \in VotesOf(w)
        PROVE  Receipt(h)' = Receipt(h)
    BY DEF VotesOf, Receipt
  <2> QED
    BY <1>1, <2>1
<1> QED
  BY <1>1, <1>2 DEF VoterInv, ReceiptsMatchAnswers, ToSet

\* A page that is opened is new.
LEMMA OpenKeeps ==
  ASSUME VoterInv, NEW p, Open(p), UNCHANGED <<submission, local_storage>>,
         wallet' \in Wallets \cup {NONE}, selected_decade' \in Decades
  PROVE  VoterInv'
<1>1. VoterTyped' /\ CallsAreMade'
  BY DEF VoterInv, VoterTyped, VotePages, Open, NewVotePage, CallsAreMade, Made
<1>2. PageInv'
  BY HashesFinite DEF PageInv, Open, NewVotePage, PageShowsItsVote
<1>3. ReceiptsMatchAnswers'
  BY ReceiptsStay DEF VoterInv, VoterTyped
<1> QED
  BY <1>1, <1>2, <1>3 DEF VoterInv

LEMMA ChooseKeeps ==
  ASSUME VoterInv, NEW m \in Movies, ChooseMovie(m)
  PROVE  VoterInv'
<1>1. /\ page' = page /\ wallet' = wallet /\ selected_decade' = selected_decade
      /\ submission' = submission /\ local_storage' = local_storage
      /\ CardsEnabled
      /\ vote_page' = [vote_page EXCEPT !.selected_movie = m, !.receipt_hash = NONE]
  BY DEF ChooseMovie
<1>2. vote_page \in VotePages
  BY DEF VoterInv, VoterTyped
<1>3. VoterTyped' /\ CallsAreMade'
  BY <1>1, <1>2 DEF VoterInv, VoterTyped, VotePages, CallsAreMade, Made
<1>4. PageInv'
  BY <1>1, <1>2, HashesFinite DEF VoterInv, PageInv, CardsEnabled, VotePages,
     PageShowsItsVote, InFlight, Made
<1>5. ReceiptsMatchAnswers'
  BY <1>1, ReceiptsStay DEF VoterInv, VoterTyped
<1> QED
  BY <1>3, <1>4, <1>5 DEF VoterInv

LEMMA ConfirmKeeps ==
  ASSUME VoterInv, NEW h \in Hashes, ConfirmVote(h)
  PROVE  VoterInv'
<1> DEFINE call == [wallet |-> wallet, decade |-> selected_decade,
                    movie |-> vote_page.selected_movie,
                    call |-> "encrypting", request |-> "unsent"]
<1>1. /\ page' = page /\ wallet' = wallet /\ selected_decade' = selected_decade
      /\ submission' = [submission EXCEPT ![h] = call]
      /\ local_storage' = local_storage
      /\ SubmitEnabled /\ page = "vote" /\ submission[h].call = "new"
      /\ vote_page' = [vote_page EXCEPT !.submitting = TRUE, !.receipt_hash = NONE,
                                        !.calls = @ \cup {h}]
      /\ wallet # NONE
  BY DEF ConfirmVote
<1>2. /\ vote_page \in VotePages /\ submission \in [Hashes -> Submissions]
      /\ wallet \in Wallets /\ selected_decade \in Decades
      /\ vote_page.selected_movie \in Movies
  BY <1>1 DEF VoterInv, VoterTyped, SubmitEnabled, VotePages
<1>3. call \in Submissions
  BY <1>2 DEF Submissions
<1>4. submission' \in [Hashes -> Submissions]
  BY <1>1, <1>2, <1>3
<1>5. /\ submission'[h] = call
      /\ \A g \in Hashes \ {h} : submission'[g] = submission[g]
  BY <1>1, <1>2
<1>6. /\ vote_page' \in VotePages
      /\ vote_page'.selected_movie = vote_page.selected_movie
      /\ vote_page'.submitting /\ vote_page'.receipt_hash = NONE
      /\ vote_page'.vote_submitted = vote_page.vote_submitted
      /\ vote_page'.calls = vote_page.calls \cup {h}
  BY <1>1, <1>2 DEF VotePages
<1> HIDE DEF call
<1>7. VoterTyped'
  BY <1>1, <1>2, <1>4, <1>6 DEF VoterInv, VoterTyped
<1>8. CallsAreMade'
  BY <1>2, <1>5 DEF VoterInv, CallsAreMade, Made, call
<1>9. PageInv'
  <2>1. ~vote_page.submitting /\ ~vote_page.vote_submitted
    BY <1>1 DEF SubmitEnabled
  <2>2. \A g \in vote_page.calls : /\ g # h /\ g \in Hashes
                                   /\ Made(g) /\ ~InFlight(g)
                                   /\ submission[g].call # "ok"
    BY <1>1, <1>2, <2>1 DEF VoterInv, PageInv, Made, VotePages
  <2>3. \A g \in vote_page.calls : submission'[g] = submission[g]
    BY <1>5, <2>2
  <2>4. submission'[h].call = "encrypting" /\ Shown(h)'
    BY <1>1, <1>5, <1>6 DEF call, Shown
  <2> QED
    BY <1>6, <2>1, <2>2, <2>3, <2>4, HashesFinite
    DEF PageInv, PageShowsItsVote, InFlight, Made
<1>10. ReceiptsMatchAnswers'
  <2>1. \A g \in Hashes : /\ (submission[g].call = "ok") = (submission'[g].call = "ok")
                          /\ submission[g].call = "ok" => submission'[g] = submission[g]
    BY <1>1, <1>5 DEF call
  <2> QED
    BY <1>1, <1>4, <2>1, ReceiptsStay
<1> QED
  BY <1>7, <1>8, <1>9, <1>10 DEF VoterInv

\* Steps of a call that leave the page as it is.
LEMMA CallGoesOn ==
  ASSUME VoterInv, NEW h \in Hashes,
         UNCHANGED <<page, wallet, selected_decade, vote_page, local_storage>>,
         PostVote(h) \/ HandleVote(h)
  PROVE  VoterInv'
<1>0. submission \in [Hashes -> Submissions]
  BY DEF VoterInv, VoterTyped
<1>1. /\ submission' \in [Hashes -> Submissions]
      /\ \A g \in Hashes :
           /\ submission'[g].wallet = submission[g].wallet
           /\ submission'[g].decade = submission[g].decade
           /\ submission'[g].movie = submission[g].movie
           /\ (submission[g].call = "ok") = (submission'[g].call = "ok")
           /\ Made(g)' = Made(g) /\ InFlight(g)' = InFlight(g)
  <2>1. \E c \in {submission[h].call, "waiting"},
        r \in {"sent", "accepted", "rejected"} :
          /\ submission' = [submission EXCEPT ![h].call = c, ![h].request = r]
          /\ c # submission[h].call => submission[h].call = "encrypting"
    <3>1. CASE PostVote(h)
      BY <3>1 DEF PostVote
    <3>2. CASE HandleVote(h)
      <4>1. PICK r \in {"accepted", "rejected"} :
              submission' = [submission EXCEPT ![h].request = r]
        BY <3>2 DEF HandleVote
      <4>2. submission' = [submission EXCEPT ![h].call = submission[h].call,
                                             ![h].request = r]
        BY <1>0, <4>1 DEF Submissions
      <4> QED
        BY <4>2
    <3> QED
      BY <3>1, <3>2
  <2>2. PICK c \in {submission[h].call, "waiting"}, r \in {"sent", "accepted", "rejected"} :
          /\ submission' = [submission EXCEPT ![h].call = c, ![h].request = r]
          /\ c # submission[h].call => submission[h].call = "encrypting"
    BY <2>1
  <2>3. submission'[h] = [submission[h] EXCEPT !.call = c, !.request = r]
    BY <1>0, <2>2 DEF Submissions
  <2>4. \A g \in Hashes \ {h} : submission'[g] = submission[g]
    BY <1>0, <2>2
  <2>5. submission[h] \in Submissions
    BY <1>0
  <2>8. c \in {"new", "encrypting", "waiting", "ok", "err"}
    BY <2>2, <2>5 DEF Submissions
  <2>6. /\ submission'[h] \in Submissions
        /\ submission'[h].wallet = submission[h].wallet
        /\ submission'[h].decade = submission[h].decade
        /\ submission'[h].movie = submission[h].movie
        /\ submission'[h].call = c
    BY <2>3, <2>5, <2>8 DEF Submissions
  <2>7. submission' \in [Hashes -> Submissions]
    BY <1>0, <2>2, <2>6
  <2> QED
    BY <2>2, <2>4, <2>6, <2>7 DEF Made, InFlight
<1>2. VoterTyped' /\ CallsAreMade'
  BY <1>1 DEF VoterInv, VoterTyped, CallsAreMade
<1>3. vote_page.calls \subseteq Hashes
  BY DEF VoterInv, VoterTyped, VotePages
<1>4. PageInv'
  BY <1>1, <1>3 DEF VoterInv, PageInv, PageShowsItsVote, Shown
<1>5. ReceiptsMatchAnswers'
  BY <1>1, ReceiptsStay
<1> QED
  BY <1>2, <1>4, <1>5 DEF VoterInv

LEMMA FailsKeeps ==
  ASSUME VoterInv, NEW h \in Hashes, VoteFails(h)
  PROVE  VoterInv'
<1>1. /\ vote_page \in VotePages /\ submission \in [Hashes -> Submissions]
      /\ page' = page /\ wallet' = wallet /\ selected_decade' = selected_decade
      /\ local_storage' = local_storage
      /\ InFlight(h)
  BY DEF VoterInv, VoterTyped, VoteFails, InFlight
<1>2. /\ submission' \in [Hashes -> Submissions]
      /\ submission'[h].call = "err"
      /\ \A g \in Hashes \ {h} : submission'[g] = submission[g]
      /\ \A g \in Hashes :
           /\ submission'[g].wallet = submission[g].wallet
           /\ submission'[g].decade = submission[g].decade
           /\ submission'[g].movie = submission[g].movie
  BY <1>1 DEF VoteFails, Submissions
<1>3. /\ vote_page' \in VotePages
      /\ vote_page'.selected_movie = vote_page.selected_movie
      /\ vote_page'.receipt_hash = vote_page.receipt_hash
      /\ vote_page'.vote_submitted = vote_page.vote_submitted
      /\ vote_page'.calls = vote_page.calls
      /\ vote_page.submitting /\ ~Mounted(h) => vote_page'.submitting
  BY <1>1 DEF VoteFails, VotePages
<1>4. VoterTyped' /\ CallsAreMade'
  BY <1>1, <1>2, <1>3 DEF VoterInv, VoterTyped, CallsAreMade, Made, InFlight
<1>5. PageInv'
  <2> SUFFICES ASSUME page = "vote"
               PROVE  PageInv'
    BY <1>1 DEF PageInv
  <2>1. \A g \in vote_page.calls : g \in Hashes /\ (InFlight(g)' => InFlight(g) /\ g # h)
    BY <1>1, <1>2 DEF VotePages, InFlight
  <2>2. \A g \in vote_page.calls : InFlight(g)' => vote_page'.submitting
    BY <1>1, <1>3, <2>1 DEF VoterInv, PageInv, Mounted
  <2> QED
    BY <1>1, <1>2, <1>3, <2>1, <2>2
    DEF VoterInv, PageInv, PageShowsItsVote, Shown, Made
<1>6. ReceiptsMatchAnswers'
  <2>1. \A g \in Hashes : (submission[g].call = "ok") = (submission'[g].call = "ok")
    BY <1>1, <1>2 DEF InFlight
  <2> QED
    BY <1>1, <1>2, <2>1, ReceiptsStay
<1> QED
  BY <1>4, <1>5, <1>6 DEF VoterInv

LEMMA VoteAnsweredKeeps ==
  ASSUME VoterInv, NEW h \in Hashes, VoteAnswered(h)
  PROVE  VoterInv'
<1>1. /\ vote_page \in VotePages /\ submission \in [Hashes -> Submissions]
      /\ local_storage \in [Wallets -> Seq(Receipts)]
      /\ page' = page /\ wallet' = wallet /\ selected_decade' = selected_decade
      /\ submission[h].call = "waiting" /\ submission[h] \in Submissions
      /\ Made(h) /\ InFlight(h)
      /\ submission[h].wallet \in Wallets /\ submission[h].decade \in Decades
      /\ submission[h].movie \in Movies
  BY DEF VoterInv, VoterTyped, CallsAreMade, Made, VoteAnswered, InFlight
<1> PICK w \in Wallets : w = submission[h].wallet
  BY <1>1
<1>2. /\ submission' \in [Hashes -> Submissions]
      /\ submission'[h].call = "ok"
      /\ \A g \in Hashes \ {h} : submission'[g] = submission[g]
      /\ \A g \in Hashes :
           /\ submission'[g].wallet = submission[g].wallet
           /\ submission'[g].decade = submission[g].decade
           /\ submission'[g].movie = submission[g].movie
  <2>1. submission' = [submission EXCEPT ![h].call = "ok"]
    BY DEF VoteAnswered
  <2> QED
    BY <1>1, <2>1 DEF Submissions
<1>3. /\ vote_page' \in VotePages
      /\ vote_page'.selected_movie = vote_page.selected_movie
      /\ vote_page'.calls = vote_page.calls
      /\ Mounted(h) => vote_page'.vote_submitted /\ vote_page'.receipt_hash = h
      /\ ~Mounted(h) => vote_page' = vote_page
  BY <1>1 DEF VoteAnswered, VotePages
<1>4. /\ Receipt(h) \in Receipts
      /\ \A g \in Hashes : Receipt(g)' = Receipt(g)
  BY <1>1, <1>2 DEF Receipt, Receipts
<1>5. /\ VotesOf(w)' = VotesOf(w) \cup {h}
      /\ h \notin VotesOf(w)
      /\ \A v \in Wallets \ {w} : VotesOf(v)' = VotesOf(v)
  BY <1>1, <1>2 DEF VotesOf
<1>6. local_storage' = [local_storage EXCEPT ![w] = Append(@, Receipt(h))]
  <2>1. ToSet(local_storage[w]) = {Receipt(g) : g \in VotesOf(w)}
    BY <1>1 DEF VoterInv, ReceiptsMatchAnswers
  <2>2. \A g \in VotesOf(w) : Receipt(g).hash # h
    BY <1>5 DEF Receipt
  <2>3. ~ \E r \in ToSet(local_storage[w]) : r.hash = h
    BY <2>1, <2>2
  <2> QED
    BY <2>3 DEF VoteAnswered, SaveReceipt, ReceiptOwner
<1>7. VoterTyped' /\ CallsAreMade'
  <2>1. local_storage' \in [Wallets -> Seq(Receipts)]
    BY <1>1, <1>4, <1>6
  <2>2. CallsAreMade'
    BY <1>1, <1>2 DEF VoterInv, CallsAreMade, Made
  <2> QED
    BY <1>1, <1>2, <1>3, <2>1, <2>2 DEF VoterInv, VoterTyped
<1>8. PageInv'
  <2> SUFFICES ASSUME page = "vote"
               PROVE  PageInv'
    BY <1>1 DEF PageInv
  <2>1. \A g \in vote_page.calls : g \in Hashes /\ (InFlight(g)' => InFlight(g) /\ g # h)
    BY <1>1, <1>2 DEF VotePages, InFlight
  <2>2. CASE Mounted(h)
    <3>1. h \in vote_page.calls /\ ~vote_page.vote_submitted /\ Shown(h)
      BY <1>1, <2>2 DEF Mounted, VoterInv, PageInv
    <3>2. \A g \in vote_page.calls \ {h} :
            submission'[g].call # "ok" /\ ~InFlight(g)'
      BY <1>1, <1>2, <2>1, <3>1 DEF VoterInv, PageInv
    <3>3. Shown(h)'
      BY <1>1, <1>2, <1>3, <3>1 DEF Shown
    <3>4. ~InFlight(h)' /\ Made(h)'
      BY <1>2 DEF InFlight, Made
    <3>5. \A g \in vote_page.calls : Made(g)'
      BY <1>2, <2>1, <3>4 DEF VoterInv, PageInv, Made
    <3>6. PageShowsItsVote'
      BY <1>3, <2>2, <3>2, <3>3 DEF PageShowsItsVote, Shown
    <3> QED
      BY <1>3, <2>2, <3>1, <3>2, <3>4, <3>5, <3>6 DEF PageInv
  <2>3. CASE ~Mounted(h)
    <3>1. h \notin vote_page.calls
      BY <2>3 DEF Mounted
    <3>2. \A g \in vote_page.calls : submission'[g] = submission[g]
      BY <1>2, <2>1, <3>1
    <3> QED
      BY <1>1, <1>2, <1>3, <2>1, <2>3, <3>2
      DEF VoterInv, PageInv, PageShowsItsVote, Shown, Made, InFlight
  <2> QED
    BY <2>2, <2>3
<1>9. ReceiptsMatchAnswers'
  <2> SUFFICES ASSUME NEW v \in Wallets
               PROVE  /\ ToSet(local_storage'[v]) = {Receipt(g) : g \in VotesOf(v)}'
                      /\ Len(local_storage'[v]) = Cardinality(VotesOf(v)')
    BY DEF ReceiptsMatchAnswers
  <2>1. /\ ToSet(local_storage[v]) = {Receipt(g) : g \in VotesOf(v)}
        /\ Len(local_storage[v]) = Cardinality(VotesOf(v))
        /\ local_storage[v] \in Seq(Receipts)
    BY <1>1 DEF VoterInv, ReceiptsMatchAnswers
  <2>2. {Receipt(g) : g \in VotesOf(v)}' = {Receipt(g) : g \in VotesOf(v)'}
    <3>1. VotesOf(v)' \subseteq Hashes
      BY DEF VotesOf
    <3> QED
      BY <1>4, <3>1
  <2>3. CASE v = w
    <3>1. local_storage'[v] = Append(local_storage[v], Receipt(h))
      BY <1>1, <1>6, <2>3
    <3>2. /\ Range(local_storage'[v]) = Range(local_storage[v]) \cup {Receipt(h)}
          /\ Len(local_storage'[v]) = Len(local_storage[v]) + 1
      BY <1>4, <2>1, <3>1, AppendFacts
    <3>3. ToSet(local_storage'[v]) = ToSet(local_storage[v]) \cup {Receipt(h)}
      BY <3>2 DEF ToSet, Range
    <3>4. Cardinality(VotesOf(v)') = Cardinality(VotesOf(v)) + 1
      <4>1. IsFiniteSet(VotesOf(v))
        BY HashesFinite, FS_Subset DEF VotesOf
      <4> QED
        BY <1>5, <2>3, <4>1, FS_AddElement
    <3>5. {Receipt(g) : g \in VotesOf(v)'} =
            {Receipt(g) : g \in VotesOf(v)} \cup {Receipt(h)}
      BY <1>5, <2>3
    <3> QED
      BY <2>1, <2>2, <3>2, <3>3, <3>4, <3>5
  <2>4. CASE v # w
    <3>1. local_storage'[v] = local_storage[v]
      BY <1>1, <1>6, <2>4
    <3> QED
      BY <1>5, <2>1, <2>2, <2>4, <3>1
  <2> QED
    BY <2>3, <2>4
<1> QED
  BY <1>7, <1>8, <1>9 DEF VoterInv

LEMMA StepVoter == VoterInv /\ [VoterNext]_voter_vars => VoterInv'
<1> SUFFICES ASSUME VoterInv, [VoterNext]_voter_vars
             PROVE  VoterInv'
  OBVIOUS
<1>1. /\ wallet \in Wallets \cup {NONE} /\ selected_decade \in Decades
      /\ submission \in [Hashes -> Submissions]
  BY DEF VoterInv, VoterTyped
<1>2. ASSUME UNCHANGED <<page, wallet, selected_decade, vote_page, submission, local_storage>>
      PROVE  VoterInv'
  <2>1. ReceiptsMatchAnswers'
    BY <1>1, <1>2, ReceiptsStay
  <2>2. VoterTyped' /\ CallsAreMade'
    BY <1>2 DEF VoterInv, VoterTyped, CallsAreMade, Made
  <2>3. PageInv'
    BY <1>2 DEF VoterInv, PageInv, PageShowsItsVote, Shown, Made, InFlight
  <2> QED
    BY <2>1, <2>2, <2>3 DEF VoterInv
<1>3. ASSUME NEW p, Navigate(p)
      PROVE  VoterInv'
  BY <1>1, <1>3, OpenKeeps DEF Navigate
<1>4. ASSUME NEW v \in Wallets, ConnectWallet(v) \/ ConnectFails(v)
      PROVE  VoterInv'
  BY <1>2, <1>4 DEF ConnectWallet, ConnectFails
<1>5. ASSUME NEW v \in Wallets, WalletConnected(v)
      PROVE  VoterInv'
  <2>1. /\ Open(IF v = chairperson THEN "chairperson" ELSE "decades")
        /\ UNCHANGED <<submission, local_storage>>
        /\ wallet' \in Wallets \cup {NONE} /\ selected_decade' \in Decades
    BY <1>1, <1>5 DEF WalletConnected
  <2> QED
    BY <2>1, OpenKeeps
<1>6. ASSUME NEW d \in Decades, ChooseDecade(d)
      PROVE  VoterInv'
  <2>1. /\ Open("vote") /\ UNCHANGED <<submission, local_storage>>
        /\ wallet' \in Wallets \cup {NONE} /\ selected_decade' \in Decades
    BY <1>1, <1>6 DEF ChooseDecade
  <2> QED
    BY <2>1, OpenKeeps
<1>7. ASSUME NEW m \in Movies, ChooseMovie(m)
      PROVE  VoterInv'
  BY <1>7, ChooseKeeps
<1>8. ASSUME NEW h \in Hashes, SubmitVote(h)
      PROVE  VoterInv'
  <2>1. CASE PostVote(h) \/ HandleVote(h)
    <3>1. UNCHANGED <<page, wallet, selected_decade, vote_page, local_storage>>
      BY <2>1 DEF PostVote, HandleVote
    <3> QED
      BY <2>1, <3>1, CallGoesOn
  <2> QED
    BY <1>8, <2>1, ConfirmKeeps, VoteAnsweredKeeps, FailsKeeps DEF SubmitVote
<1>9. CASE UNCHANGED voter_vars
  BY <1>2, <1>9 DEF voter_vars
<1> QED
  BY <1>3, <1>4, <1>5, <1>6, <1>7, <1>8, <1>9 DEF VoterNext

-----------------------------------------------------------------------------
(* The results *)

(* A session of the frontend is a run of the specification of its part, and *)
(* leaves the other parts alone: what is shown about a part on its own     *)
(* holds in the whole.                                                     *)
LEMMA PartsKept ==
  FrontendSpec => VoterSpec /\ LoginSpec /\ AdminSpec /\ TieSpec
<1>1. FrontendInit => VoterInit /\ LoginInit /\ AdminInit /\ TieInit
  BY DEF FrontendInit
<1>2. ASSUME [FrontendNext]_frontend_vars
      PROVE  /\ [VoterNext]_voter_vars /\ [LoginNext]_login_vars
             /\ [AdminNext]_admin_vars /\ [TieNext]_tie_vars
  <2>1. CASE FrontendNext
    BY <2>1, Zenon DEF FrontendNext
  <2>2. CASE UNCHANGED frontend_vars
    BY <2>2, Zenon DEF frontend_vars
  <2> QED
    BY <1>2, <2>1, <2>2
<1> QED
  BY <1>1, <1>2, PTL DEF FrontendSpec, VoterSpec, LoginSpec, AdminSpec, TieSpec

(* In the whole frontend a challenge authenticates its key at most once    *)
(* and only while it is the newest (handler.rs:1198-1215).                 *)
THEOREM FrontendUsedOnce == FrontendSpec => []ChallengeUsedOnce
  BY PartsKept, UsedOnce, PTL

(* For any number of decades and of requests under way, and whatever votes *)
(* and transactions arrive late, the step on the chairperson's page never   *)
(* claims more than the election has been through, unless two creations     *)
(* overlap or a refusal is taken for a success (chairperson.rs:46-235).     *)
THEOREM StepTrue == AdminSpec => []StepReflectsElection
<1>1. AdminInv => StepReflectsElection
  <2> SUFFICES ASSUME AdminInv PROVE StepReflectsElection
    OBVIOUS
  <2>1. Heeded({"create"}) /\ current_step >= 2 => AllExist
    BY DEF AdminInv, Exist, CreateHeeded
  <2>2. ASSUME NEW d \in BallotDecades
        PROVE  /\ Heeded({"create", "close"}) /\ current_step >= 3 => election[d].closed
               /\ Heeded({"create", "close", "flush"}) =>
                    /\ current_step >= 4 => election[d].flushed
                    /\ election[d].status = "FINALIZED" => election[d].flushed
               /\ Heeded(Actions) /\ current_step = 7 =>
                    election[d].status = "FINALIZED" \/ election[d].found_empty
    BY DEF AdminInv, Reached, StepFacts, Recorded, CloseHeeded, FlushHeeded, AllHeeded,
           ClosedAll, FlushedAll, DecidedAll, Decided
  <2> QED
    BY <2>1, <2>2 DEF StepReflectsElection
<1> QED
  BY <1>1, AdminInvariant, PTL

(* For any number of decades and requests, the page takes a decade off its *)
(* list only when the API has a decision about it, or has refused the key  *)
(* (tie_resolution.rs:476-480).                                            *)
THEOREM OnlyDecidedLeave == TieSpec => []OnlyDecidedLeaveTheList
<1>1. TieInv => OnlyDecidedLeaveTheList
  BY DEF TieInv
<1> QED
  BY <1>1, InitTie, StepTie, PTL DEF TieSpec

(* For any number of wallets and calls, every answered vote has its receipt *)
(* once, with the wallet that signed it, and a list holds no other          *)
(* (vote.rs:447-480).                                                       *)
THEOREM ReceiptsKept == VoterSpec => []ReceiptsMatchAnswers
<1>1. VoterInv => ReceiptsMatchAnswers
  BY DEF VoterInv
<1> QED
  BY <1>1, InitVoter, StepVoter, PTL DEF VoterSpec

(* For any number of wallets and calls, one visit of the vote page gets one *)
(* vote answered at most, and the receipt on it is that vote's              *)
(* (vote.rs:557-664).                                                       *)
THEOREM PageTrue == VoterSpec => []PageShowsItsVote
<1>1. VoterInv => PageShowsItsVote
  BY DEF VoterInv, PageInv, PageShowsItsVote
<1> QED
  BY <1>1, InitVoter, StepVoter, PTL DEF VoterSpec

LEMMA StepStuck == AdminInv /\ [AdminNext]_admin_vars => [StuckStep]_admin_vars
<1> SUFFICES ASSUME AdminInv, AdminNext, Stuck', ~Stuck,
                    admin_page = "chairperson", current_step # 5
             PROVE  LateAnswer
  BY DEF StuckStep
<1>1. current_step' = 5 /\ detected_ties' = 0
  BY DEF Stuck
<1>2. PICK t \in Tasks : Answered(t)
  <2>1. current_step' # current_step
    BY <1>1
  <2>2. ~OpenTieResolution
    BY <1>1 DEF OpenTieResolution
  <2>3. ~UNCHANGED page_vars
    BY <2>1 DEF page_vars
  <2>4. \A t \in Tasks : ~Unauthorized(t) /\ ~Create(t) /\ ~Close(t) /\ ~Flush(t)
    BY <2>3, Zenon DEF Unauthorized, Create, CheckBallots, CreateFails, StoreBallots,
       OpenElection, ClearTies, Close, SendClose, CloseConfirmed, CloseFails,
       Flush, FlushDecade, NothingToFlush, FlushFails
  <2>5. \A t \in Tasks : ~Finalize(t) /\ ~RequestFails(t) /\ ~HandlerDropped(t)
    BY <2>1, <2>3, Zenon DEF Finalize, CheckDecade, FetchNoVotes, FetchTie, SendWinner,
       FetchFails, FinalizeConfirmed, WinnerRefused, WinnerFails, RequestFails,
       HandlerDropped
  <2>6. /\ \A d \in VotedDecades : ~StoreDecision(d) /\ ~RollupLands(d)
        /\ \A d \in BallotDecades, transaction \in {"close_election", "set_final_winner"} :
             ~TransactionLands(d, transaction)
    BY <2>3, Zenon DEF StoreDecision, RollupLands, TransactionLands
  <2>7. ~Leave /\ ~Enter /\ \A action \in Actions, t \in Tasks : ~Click(action, t)
    BY <2>1, Zenon DEF Leave, Enter, Click
  <2> QED
    BY <2>2, <2>4, <2>5, <2>6, <2>7, Zenon DEF AdminNext
<1>3. /\ task[t] \in AdminRequests /\ task[t].owner # "nobody"
      /\ task[t] # NoTask /\ task'[t] = NoTask
      /\ current_step' = NextStep(task[t])
      /\ task[t].owner = "page" => detected_ties' = DetectedTies(task[t])
  BY <1>2 DEF Answered, AdminInv, AdminTyped
<1>4. /\ task[t].action \in {"create", "close", "flush", "finalize"}
      /\ task[t].ties \in Nat
      /\ task[t].owner \in {"page", "left", "nobody"}
  BY <1>3 DEF AdminRequests, Actions
<1>5. task[t].action = "finalize"
  BY <1>1, <1>3, <1>4 DEF NextStep
<1>6. task[t].ties > 0 /\ DetectedTies(task[t]) = task[t].ties
  BY <1>1, <1>3, <1>4, <1>5 DEF NextStep, DetectedTies
<1>7. task[t].owner = "left"
  BY <1>1, <1>3, <1>4, <1>6
<1> QED
  BY <1>3, <1>7 DEF LateAnswer

(* The page ends at step 5 without ties only by being left, or through the *)
(* answer to a request of a page that was left (chairperson.rs:22, 190-197)*)
THEOREM StuckByLeaving == AdminSpec => StuckOnlyByLeaving
  BY AdminInvariant, StepStuck, PTL DEF AdminSpec, StuckOnlyByLeaving
=============================================================================
