--------------------------- MODULE ElectionProofs ---------------------------
(***************************************************************************)
(* What holds of an election for any number of decades, movies, requests,  *)
(* batches and restarts.                                                   *)
(*                                                                         *)
(* The invariant has three parts.  ChainInv: a transaction is what its     *)
(* handler decided, and an account is finalized by a transaction only.     *)
(* CallsInOrder and AwaitsTransaction: a handler sends one transaction for *)
(* a decade, so that none overwrites another.  HandlerInv and ApiInv: what *)
(* a handler has read before it waits is still good enough afterwards,     *)
(* because the chain and the decisions only grow (Grows).  A lemma for     *)
(* each action says that it keeps the invariant; HandlerStep says what is  *)
(* to be shown of a step of one handler.                                   *)
(***************************************************************************)
EXTENDS Election, BallotProgramFacts, SequenceFacts

-----------------------------------------------------------------------------
(* The inductive invariant *)

Key(r) == <<r, decade[r]>>

\* The handler of a request has not sent a transaction for its decade yet.
Unsent(r) ==
  pc[r] \in {"new", "next", "reading", "tie", "fetching", "queued"}

\* The request of a transaction tells its instruction.
InstructionOf(r) ==
  IF r \in CreateRequests THEN "initialize"
  ELSE IF r \in CloseRequests THEN "close_election"
  ELSE IF r \in Finalizers THEN "set_final_winner"
  ELSE "submit_rollup_batch"

\* What finalize_election_from_blockchain has made sure of.
ProperWinner(t) ==
  LET tx == transactions[t]
  IN  /\ tx.winner \in Leaders(tx.tally)
      /\ ~NoVotes(tx.tally)
      /\ Behind(tx.tally, tx.ballot)
      /\ \/ Leaders(tx.tally) = {tx.winner}
         \/ <<tx.ballot[2], tx.winner>> \in decisions

\* What a transaction is and has done.
ProperTransaction(t) ==
  LET tx == transactions[t]
  IN  /\ tx.instruction = InstructionOf(t[1])
      /\ tx.instruction = "initialize" =>
           tx.ballot = t /\ (tx.state = "landed" => t \in DOMAIN ballots)
      /\ tx.instruction = "close_election" /\ tx.state # "sent" =>
           ballots[tx.ballot].status # ELECTION_OPEN
      /\ tx.instruction = "set_final_winner" =>
           /\ ProperWinner(t)
           /\ tx.state = "landed" =>
                /\ ballots[tx.ballot].status = ELECTION_FINALIZED
                /\ ballots[tx.ballot].final_winner_index = tx.winner

\* A ballot is finalized by a transaction.
ProperBallot(b) ==
  ballots[b].status = ELECTION_FINALIZED =>
    \E t \in DOMAIN transactions : Winning(t, b)

ChainInv ==
  /\ \A t \in DOMAIN transactions : ProperTransaction(t)
  /\ \A b \in DOMAIN ballots : ProperBallot(b)

\* A request sends one transaction for a decade, and takes the decades in order.
CallsInOrder ==
  \A t \in DOMAIN transactions :
    \/ t[2] < decade[t[1]]
    \/ t[2] = decade[t[1]] /\ ~Unsent(t[1])

AwaitsTransaction ==
  \A r \in Requests : pc[r] = "awaiting" => Key(r) \in DOMAIN transactions

StepsOf(r) ==
  IF r \in CreateRequests
  THEN {"new", "next", "awaiting", "storing", "opening", "clearing", "done"}
  ELSE IF r \in CloseRequests THEN {"new", "next", "awaiting", "done"}
  ELSE IF r \in ResolveRequests THEN {"new", "done"}
  ELSE IF r \in Finalizers
  THEN {"new", "next", "reading", "tie", "fetching", "awaiting", "saving", "done"}
  ELSE {"new", "queued", "done"}

CreateInv(c) ==
  /\ pc[c] \in {"new", "next", "awaiting"} =>
       \A d \in Decades : d < decade[c] => <<c, d>> \in DOMAIN ballots
  /\ pc[c] = "storing" => \A d \in Decades : <<c, d>> \in DOMAIN ballots

FinalizeInv(f) ==
  /\ pc[f] \in {"tie", "fetching", "awaiting", "saving"} =>
       ballot[f] \in DOMAIN ballots /\ ballot[f][2] = decade[f]
  /\ pc[f] = "fetching" /\ resolved[f] # None =>
       <<decade[f], resolved[f]>> \in decisions
  /\ pc[f] \in {"awaiting", "saving"} => Behind(results[f], ballot[f])
  /\ \A d \in Decades : status[f][d] = "Finalized" =>
       <<f, d>> \in DOMAIN transactions /\ transactions[<<f, d>>].state = "landed"

HandlerInv ==
  /\ \A r \in Requests : pc[r] \in StepsOf(r)
  /\ \A c \in CreateRequests : CreateInv(c)
  /\ \A f \in Finalizers : FinalizeInv(f)
  /\ \A p \in Batches : pc[p] = "queued" => ballots_by_decade[decade[p]] # None

ApiInv ==
  /\ \A d \in Decades :
       ballots_by_decade[d] # None => ballots_by_decade[d][2] = d
  /\ \A d \in Decades :
       resolved_ties[d] # None => <<d, resolved_ties[d]>> \in decisions
  /\ ResultsBehindChain

ElectionInv ==
  /\ TypeOK
  /\ ChainInv
  /\ CallsInOrder
  /\ AwaitsTransaction
  /\ HandlerInv
  /\ ApiInv

-----------------------------------------------------------------------------
(* The closed flag *)

Creating(c) == pc[c] \in {"next", "awaiting", "storing"}

\* create_ballots does not run twice at the same time.
OneCreation ==
  \A c, e \in CreateRequests : Creating(c) /\ Creating(e) => c = e

ClosedInv ==
  /\ \A c, d \in Decades : ballots_by_decade[c] = None <=> ballots_by_decade[d] = None
  /\ \A c \in CreateRequests : Creating(c) =>
       \A d \in Decades : ballots_by_decade[d] = None
  /\ \A k \in CloseRequests : pc[k] = "awaiting" =>
       transactions[Key(k)].ballot = ballots_by_decade[decade[k]]
  /\ ClosedFlagBehindChain

-----------------------------------------------------------------------------
(* Parts of the type invariant, and what every step preserves *)

AccountOK(account) ==
  /\ account \in BallotAccount({chairperson}, {account.merkle_root})
  /\ account.encrypted_tally \in Tally
  /\ account.proposal_count = proposal_count

ChainType ==
  /\ DOMAIN ballots \subseteq Ballots
  /\ \A b \in DOMAIN ballots : AccountOK(ballots[b])
  /\ DOMAIN transactions \subseteq Requests \X Decades
  /\ \A t \in DOMAIN transactions :
       /\ transactions[t] \in TransactionType
       /\ transactions[t].instruction # "initialize" =>
            transactions[t].ballot \in DOMAIN ballots

ApiType ==
  /\ ballots_by_decade \in [Decades -> DOMAIN ballots \cup {None}]
  /\ election_closed \in [Decades -> BOOLEAN]
  /\ resolved_ties \in [Decades -> Movies \cup {None}]
  /\ votes_by_decade \in [Decades -> Tally]

LocalType ==
  /\ pc \in [Requests -> Step]
  /\ decade \in [Requests -> Decades]
  /\ ballot \in [Finalizers -> DOMAIN ballots \cup {None}]
  /\ \A f \in Finalizers : pc[f] \in {"tie", "fetching"} => ballot[f] # None
  /\ resolved \in [Finalizers -> Movies \cup {None}]
  /\ results \in [Finalizers -> Tally]
  /\ status \in [CloseRequests \cup Finalizers -> [Decades -> Statuses]]

HistoryType ==
  /\ restarts \in 0..MaxRestarts
  /\ decisions \subseteq Decades \X Movies

\* How an account may change.
AccountGrows(old, new) ==
  /\ \A m \in Movies : old.encrypted_tally[m + 1] <= new.encrypted_tally[m + 1]
  /\ old.status # ELECTION_OPEN => new.status # ELECTION_OPEN
  /\ old.status = ELECTION_FINALIZED =>
       /\ new.status = ELECTION_FINALIZED
       /\ new.final_winner_index = old.final_winner_index

\* How a transaction may change.
TransactionGrows(old, new) ==
  /\ new.instruction = old.instruction
  /\ new.ballot = old.ballot
  /\ new.winner = old.winner
  /\ new.tally = old.tally
  /\ old.state # "sent" => new.state = old.state

\* How the chain and the decisions may change.
Grows ==
  /\ DOMAIN ballots \subseteq DOMAIN ballots'
  /\ \A b \in DOMAIN ballots : AccountGrows(ballots[b], ballots'[b])
  /\ DOMAIN transactions \subseteq DOMAIN transactions'
  /\ \A t \in DOMAIN transactions :
       TransactionGrows(transactions[t], transactions'[t])
  /\ decisions \subseteq decisions'

LEMMA TypeParts ==
  /\ TypeOK <=> ChainType /\ ApiType /\ LocalType /\ HistoryType
  /\ TypeOK' <=> ChainType' /\ ApiType' /\ LocalType' /\ HistoryType'
  BY DEF TypeOK, ChainType, ApiType, LocalType, HistoryType, AccountOK

(* Requests are told apart by their route.                                 *)
LEMMA RoutesApart ==
  /\ CreateRequests \cap CloseRequests = {}
  /\ CreateRequests \cap ResolveRequests = {}
  /\ CreateRequests \cap Finalizers = {}
  /\ CreateRequests \cap Batches = {}
  /\ CloseRequests \cap ResolveRequests = {}
  /\ CloseRequests \cap Finalizers = {}
  /\ CloseRequests \cap Batches = {}
  /\ ResolveRequests \cap Finalizers = {}
  /\ ResolveRequests \cap Batches = {}
  /\ Finalizers \cap Batches = {}
  /\ FinalizeRequests \cap DecadeFinalizeRequests = {}
<1>1. \A i, j \in 1..6 : i # j => Routes[i] \cap Routes[j] = {}
  BY ElectionAssumption DEF ElectionAssumption, Routes
<1> QED BY <1>1 DEF Routes, Finalizers

(* Comparing tallies is transitive.                                        *)
LEMMA BehindGrows ==
  ASSUME NEW tally \in Tally, NEW old, NEW new,
         old.encrypted_tally \in Tally, new.encrypted_tally \in Tally,
         AccountGrows(old, new),
         \A m \in Movies : tally[m + 1] <= old.encrypted_tally[m + 1]
  PROVE  \A m \in Movies : tally[m + 1] <= new.encrypted_tally[m + 1]
<1> SUFFICES ASSUME NEW m \in Movies
             PROVE  tally[m + 1] <= new.encrypted_tally[m + 1]
  OBVIOUS
<1>1. m + 1 \in 1..proposal_count
  BY ElectionAssumption, WidthAssumption DEF ElectionAssumption, Movies
<1>2. /\ tally[m + 1] \in Nat
      /\ old.encrypted_tally[m + 1] \in Nat
      /\ new.encrypted_tally[m + 1] \in Nat
  BY <1>1 DEF Tally
<1> QED BY <1>2 DEF AccountGrows

(* A tally that a ballot has had stays behind that ballot.                 *)
LEMMA BehindStays ==
  ASSUME ChainType, ChainType', Grows, NEW tally \in Tally,
         NEW b \in DOMAIN ballots, Behind(tally, b)
  PROVE  Behind(tally, b)'
<1>1. b \in DOMAIN ballots' /\ AccountGrows(ballots[b], ballots'[b])
  BY DEF Grows
<1>2. ballots[b].encrypted_tally \in Tally /\ ballots'[b].encrypted_tally \in Tally
  BY <1>1 DEF ChainType, AccountOK
<1> QED BY <1>1, <1>2, BehindGrows DEF Behind

-----------------------------------------------------------------------------
(* The chain *)

LEMMA TransactionTyped ==
  ASSUME ChainType, NEW t \in DOMAIN transactions
  PROVE  /\ t[1] \in Requests /\ t[2] \in Decades /\ t = <<t[1], t[2]>>
         /\ transactions[t] \in TransactionType
         /\ transactions[t].tally \in Tally
         /\ transactions[t].ballot \in Ballots
         /\ transactions[t].winner \in Movies \cup {None}
         /\ transactions[t].instruction # "initialize" =>
              transactions[t].ballot \in DOMAIN ballots
  BY DEF ChainType, TransactionType

(* A transaction that does not change stays what it is.                    *)
LEMMA ProperTransactionStays ==
  ASSUME ChainType, ChainType', Grows, NEW t \in DOMAIN transactions,
         ProperTransaction(t), transactions'[t] = transactions[t]
  PROVE  ProperTransaction(t)'
<1> DEFINE tx == transactions[t]
<1>1. /\ tx.tally \in Tally
      /\ tx.instruction # "initialize" => tx.ballot \in DOMAIN ballots
  BY TransactionTyped
<1>2. t \in DOMAIN transactions' /\ DOMAIN ballots \subseteq DOMAIN ballots'
  BY DEF Grows
<1>3. \A b \in DOMAIN ballots : AccountGrows(ballots[b], ballots'[b])
  BY DEF Grows
<1>4. ASSUME tx.instruction = "set_final_winner" PROVE ProperWinner(t)'
  <2>1. ProperWinner(t) /\ tx.ballot \in DOMAIN ballots
    BY <1>1, <1>4 DEF ProperTransaction
  <2>2. Behind(tx.tally, tx.ballot)'
    <3>1. \A q \in Tally : \A b \in DOMAIN ballots : Behind(q, b) =>
            Behind(q, b)'
      BY BehindStays
    <3>2. \A m \in Movies : tx.tally[m + 1] <= ballots'[tx.ballot].encrypted_tally[m + 1]
      BY <2>1, <1>1, <3>1 DEF ProperWinner, Behind
    <3> QED BY <3>2 DEF Behind
  <2>3. decisions \subseteq decisions'
    BY DEF Grows
  <2> QED BY <2>1, <2>2, <2>3 DEF ProperWinner
<1>5. tx.instruction = InstructionOf(t[1])
  BY DEF ProperTransaction
<1>6. tx.instruction = "initialize" =>
        tx.ballot = t /\ (tx.state = "landed" => t \in DOMAIN ballots')
  BY <1>2 DEF ProperTransaction
<1>7. tx.instruction = "close_election" /\ tx.state # "sent" =>
        ballots'[tx.ballot].status # ELECTION_OPEN
  BY <1>1, <1>3 DEF ProperTransaction, AccountGrows
<1>8. tx.instruction = "set_final_winner" /\ tx.state = "landed" =>
        /\ ballots'[tx.ballot].status = ELECTION_FINALIZED
        /\ ballots'[tx.ballot].final_winner_index = tx.winner
  BY <1>1, <1>3 DEF ProperTransaction, AccountGrows
<1> QED BY <1>4, <1>5, <1>6, <1>7, <1>8 DEF ProperTransaction, InstructionOf

(* A ballot finalized before stays finalized by the same transaction.      *)
LEMMA ProperBallotStays ==
  ASSUME ChainType, Grows, NEW b \in DOMAIN ballots, ProperBallot(b),
         ballots[b].status = ELECTION_FINALIZED
  PROVE  ProperBallot(b)'
<1>1. PICK t \in DOMAIN transactions : Winning(t, b)
  BY DEF ProperBallot
<1>2. /\ t \in DOMAIN transactions'
      /\ TransactionGrows(transactions[t], transactions'[t])
      /\ AccountGrows(ballots[b], ballots'[b])
  BY DEF Grows
<1>3. Winning(t, b)'
  BY <1>1, <1>2 DEF Winning, TransactionGrows, AccountGrows
<1> QED BY <1>2, <1>3 DEF ProperBallot

(* An account that does not change grows.                                  *)
LEMMA AccountStays ==
  ASSUME ChainType, NEW b \in DOMAIN ballots
  PROVE  AccountGrows(ballots[b], ballots[b])
<1>1. \A m \in Movies : m + 1 \in 1..proposal_count
  BY ElectionAssumption, WidthAssumption DEF ElectionAssumption, Movies
<1>2. ballots[b].encrypted_tally \in Tally
  BY DEF ChainType, AccountOK
<1>3. \A m \in Movies : ballots[b].encrypted_tally[m + 1] \in Nat
  BY <1>1, <1>2 DEF Tally
<1> QED BY <1>3 DEF AccountGrows

(* Reading the chain, and deciding ties, change nothing on it.             *)
LEMMA ChainUnchanged ==
  ASSUME ChainType, ChainInv, UNCHANGED chain, decisions \subseteq decisions'
  PROVE  ChainType' /\ ChainInv' /\ Grows
<1>1. ballots' = ballots /\ transactions' = transactions
  BY DEF chain
<1>2. ChainType'
  BY <1>1 DEF ChainType
<1>3. ASSUME NEW b \in DOMAIN ballots PROVE AccountGrows(ballots[b], ballots[b])
  BY AccountStays
<1>4. Grows
  BY <1>1, <1>3 DEF Grows, TransactionGrows
<1>5. ASSUME NEW t \in DOMAIN transactions PROVE ProperTransaction(t)'
  BY <1>1, <1>2, <1>4, ProperTransactionStays DEF ChainInv
<1>6. ASSUME NEW b \in DOMAIN ballots PROVE ProperBallot(b)'
  BY <1>1, ProperBallotStays, <1>4 DEF ChainInv, ProperBallot, Winning
<1> QED BY <1>1, <1>2, <1>4, <1>5, <1>6 DEF ChainInv

\* A transaction that a handler may send.
Sendable(r, t, transaction) ==
  /\ transaction \in TransactionType
  /\ transaction.state = "sent"
  /\ transaction.instruction = InstructionOf(r)
  /\ transaction.instruction = "initialize" => transaction.ballot = t
  /\ transaction.instruction # "initialize" =>
       transaction.ballot \in DOMAIN ballots
  /\ transaction.instruction = "set_final_winner" =>
       /\ transaction.winner \in Leaders(transaction.tally)
       /\ ~NoVotes(transaction.tally)
       /\ Behind(transaction.tally, transaction.ballot)
       /\ \/ Leaders(transaction.tally) = {transaction.winner}
          \/ <<transaction.ballot[2], transaction.winner>> \in decisions

(* Sending a transaction leaves all others and all accounts as they are.   *)
LEMMA SendKeepsChain ==
  ASSUME ChainType, ChainInv, NEW r \in Requests, NEW transaction,
         Key(r) \notin DOMAIN transactions, Key(r) \in Requests \X Decades,
         Sendable(r, Key(r), transaction), Send(r, transaction),
         ballots' = ballots, decisions' = decisions
  PROVE  /\ ChainType' /\ ChainInv' /\ Grows
         /\ DOMAIN transactions' = DOMAIN transactions \cup {Key(r)}
<1>0. PICK key : key = <<r, decade[r]>>
  OBVIOUS
<1>1. /\ DOMAIN transactions' = DOMAIN transactions \cup {key}
      /\ transactions'[key] = transaction
      /\ \A t \in DOMAIN transactions : transactions'[t] = transactions[t]
      /\ key \notin DOMAIN transactions /\ key \in Requests \X Decades
  BY <1>0 DEF Send, Key
<1>2. key[1] = r /\ Key(r) = key
  BY <1>0 DEF Key
<1>3. ChainType'
  BY <1>1 DEF ChainType, Sendable
<1>4. ASSUME NEW b \in DOMAIN ballots PROVE AccountGrows(ballots[b], ballots[b])
  BY AccountStays
<1>5. Grows
  BY <1>1, <1>4 DEF Grows, TransactionGrows
<1>6. ASSUME NEW t \in DOMAIN transactions PROVE ProperTransaction(t)'
  BY <1>1, <1>3, <1>5, ProperTransactionStays DEF ChainInv
<1>7. ProperTransaction(key)'
  <2>1. transaction.instruction = "set_final_winner" => ProperWinner(key)'
    BY <1>1 DEF ProperWinner, Sendable, Behind
  <2> QED BY <2>1, <1>1, <1>2 DEF ProperTransaction, Sendable, InstructionOf
<1>8. ASSUME NEW b \in DOMAIN ballots PROVE ProperBallot(b)'
  BY ProperBallotStays, <1>5 DEF ChainInv, ProperBallot, Winning
<1> QED BY <1>1, <1>2, <1>3, <1>5, <1>6, <1>7, <1>8 DEF ChainInv

(* The votes of a tally add up to a number.                                *)
LEMMA TallySumNat ==
  ASSUME NEW tally \in Tally
  PROVE  SumOf(tally) \in Nat
<1>1. proposal_count \in Nat
  BY ElectionAssumption, WidthAssumption DEF ElectionAssumption
<1>2. IsFiniteSet(1..proposal_count)
  BY <1>1, FS_Interval
<1>3. Total(tally) \in Nat
  BY <1>2, TotalNat DEF Tally
<1>4. SumOf(tally) = Total(tally)
  BY DEF SumOf, FoldSeq, Total
<1> QED BY <1>3, <1>4

\* What keeps a rollup within an account.
LEMMA RollupAccount ==
  ASSUME NEW account, AccountOK(account), NEW root, NEW tally \in Tally,
         NEW size \in Nat, validate_rollup_batch(account, tally, size)
  PROVE  LET new == AfterRollupBatch(account, root, tally, size)
         IN  /\ AccountOK(new)
             /\ AccountGrows(account, new)
             /\ new.status = account.status
<1> DEFINE new == AfterRollupBatch(account, root, tally, size)
           sum == encrypted_tally_after_vote(account.encrypted_tally, tally)
           C == {chairperson}
           R == {account.merkle_root}
<1>1. /\ proposal_count \in Nat
      /\ \A m \in Movies : m + 1 \in 1..proposal_count
  BY ElectionAssumption, WidthAssumption DEF ElectionAssumption, Movies
<1>2. \A s \in Tally : /\ s \in Seq(Nat) /\ Len(s) = proposal_count
                       /\ \A i \in 1..proposal_count : s[i] \in Nat
  BY <1>1 DEF Tally
<1>3. /\ account \in BallotAccount(C, R)
      /\ account.encrypted_tally \in Tally
      /\ account.proposal_count = proposal_count
  BY DEF AccountOK
<1>4. /\ sum \in Seq(Nat) /\ Len(sum) = proposal_count
      /\ \A i \in 1..proposal_count : sum[i] = account.encrypted_tally[i] + tally[i]
  BY <1>2, <1>3, TallyAfterVote
<1> HIDE DEF sum, C, R
<1>5. new \in BallotAccount(C, {root})
  <2>1. root \in {root}
    OBVIOUS
  <2> QED BY <2>1, <1>2, <1>3, RollupType
<1>6. /\ new.encrypted_tally = sum /\ new.merkle_root = root
      /\ new.proposal_count = account.proposal_count
      /\ new.status = account.status
      /\ new.final_winner_index = account.final_winner_index
  BY <1>3, RollupFields DEF sum
<1> HIDE DEF new
<1>7. sum \in Tally
  BY <1>1, <1>4 DEF Tally
<1>8. AccountOK(new)
  BY <1>3, <1>5, <1>6, <1>7 DEF AccountOK, C
<1>9. \A m \in Movies : account.encrypted_tally[m + 1] <= sum[m + 1]
  BY <1>1, <1>2, <1>3, <1>4
<1>10. AccountGrows(account, new)
  BY <1>6, <1>9 DEF AccountGrows
<1> QED BY <1>6, <1>8, <1>10 DEF new

(* The program keeps an account well typed, lets its tally only grow, and  *)
(* never goes back on its status or its winner.                            *)
LEMMA ExecutedAccount ==
  ASSUME ChainType, ChainInv, NEW t \in DOMAIN transactions, Accepted(t)
  PROVE  LET tx  == transactions[t]
             new == Executed(t)
         IN  /\ AccountOK(new)
             /\ tx.instruction = "initialize" =>
                  tx.ballot \notin DOMAIN ballots /\ new.status = ELECTION_OPEN
             /\ tx.instruction # "initialize" =>
                  tx.ballot \in DOMAIN ballots /\ AccountGrows(ballots[tx.ballot], new)
             /\ tx.instruction = "close_election" => new.status # ELECTION_OPEN
             /\ tx.instruction = "set_final_winner" =>
                  /\ new.status = ELECTION_FINALIZED
                  /\ new.final_winner_index = tx.winner
             /\ tx.instruction \notin {"initialize", "set_final_winner"} =>
                  (new.status = ELECTION_FINALIZED =>
                     ballots[tx.ballot].status = ELECTION_FINALIZED)
<1> DEFINE tx  == transactions[t]
           old == ballots[tx.ballot]
           new == Executed(t)
<1>1. /\ tx \in TransactionType /\ tx.tally \in Tally /\ tx.ballot \in Ballots
      /\ tx.instruction # "initialize" => tx.ballot \in DOMAIN ballots
      /\ tx.instruction \in {"initialize", "close_election", "set_final_winner",
                             "submit_rollup_batch"}
  BY TransactionTyped DEF TransactionType
<1>2. /\ proposal_count \in Nat /\ proposal_count \in 1..MAX_PROPOSALS
      /\ \A m \in Movies : m \in 0..U8_MAX /\ m + 1 \in 1..proposal_count
  BY ElectionAssumption, WidthAssumption DEF ElectionAssumption, Movies
<1>3. \A tally \in Tally : tally \in Seq(Nat) /\ Len(tally) = proposal_count
  BY <1>2 DEF Tally
<1>4. ASSUME tx.ballot \in DOMAIN ballots
      PROVE  /\ old \in BallotAccount({chairperson}, {old.merkle_root})
             /\ old.encrypted_tally \in Tally
             /\ old.proposal_count = proposal_count
             /\ \A m \in Movies : old.encrypted_tally[m + 1] \in Nat
  BY <1>2, <1>4 DEF ChainType, AccountOK, Tally
<1>5. CASE tx.instruction = "initialize"
  <2>1. new = NewBallot(chairperson, proposal_count, ZeroTally)
    BY <1>5 DEF Executed
  <2>2. ZeroTally \in Tally
    BY <1>2 DEF ZeroTally, Tally
  <2>3. /\ new \in BallotAccount({chairperson}, {NoRoot})
        /\ new.status = ELECTION_OPEN /\ new.encrypted_tally = ZeroTally
        /\ new.merkle_root = NoRoot
    BY <2>1, <2>2, <1>2, <1>3, InitializeType
  <2>4. new.proposal_count = proposal_count
    BY <2>1, <1>2, CountFitsU8 DEF NewBallot
  <2>5. tx.ballot \notin DOMAIN ballots
    BY <1>5 DEF Accepted
  <2> QED BY <1>5, <2>2, <2>3, <2>4, <2>5 DEF AccountOK
<1>6. CASE tx.instruction = "close_election"
  <2>1. new = AfterClose(old) /\ old.status = ELECTION_OPEN
    BY <1>6 DEF Executed, Accepted, can_close
  <2>2. tx.ballot \in DOMAIN ballots
    BY <1>1, <1>6
  <2>3. new = [old EXCEPT !.status = ELECTION_CLOSED]
    BY <2>1 DEF AfterClose
  <2>4. AccountOK(new) /\ new.status = ELECTION_CLOSED
        /\ new.encrypted_tally = old.encrypted_tally
    BY <2>2, <2>3, <1>4
       DEF AccountOK, BallotAccount, ELECTION_OPEN, ELECTION_CLOSED, ELECTION_FINALIZED
  <2> QED BY <1>6, <2>1, <2>2, <2>4, <1>4
          DEF AccountGrows, ELECTION_OPEN, ELECTION_CLOSED, ELECTION_FINALIZED
<1>7. CASE tx.instruction = "set_final_winner"
  <2>1. new = AfterFinalize(old, tx.winner) /\ old.status = ELECTION_CLOSED
    BY <1>7 DEF Executed, Accepted, can_finalize
  <2>2. tx.ballot \in DOMAIN ballots
    BY <1>1, <1>7
  <2>3. tx.winner \in 0..U8_MAX
    BY <1>2, <1>7 DEF ChainInv, ProperTransaction, ProperWinner, Leaders
  <2>4. new = [old EXCEPT !.final_winner_index = tx.winner,
                          !.status = ELECTION_FINALIZED]
    BY <2>1 DEF AfterFinalize
  <2>5. /\ AccountOK(new) /\ new.status = ELECTION_FINALIZED
        /\ new.encrypted_tally = old.encrypted_tally
        /\ new.final_winner_index = tx.winner
    BY <2>2, <2>3, <2>4, <1>4
       DEF AccountOK, BallotAccount, ELECTION_OPEN, ELECTION_CLOSED, ELECTION_FINALIZED
  <2> QED BY <1>7, <2>1, <2>2, <2>5, <1>4
          DEF AccountGrows, ELECTION_OPEN, ELECTION_CLOSED, ELECTION_FINALIZED
<1>8. CASE tx.instruction = "submit_rollup_batch"
  <2> DEFINE size == SumOf(tx.tally)
  <2>1. /\ new = AfterRollupBatch(old, t, tx.tally, size)
        /\ validate_rollup_batch(old, tx.tally, size)
    BY <1>8 DEF Executed, Accepted
  <2>2. tx.ballot \in DOMAIN ballots /\ AccountOK(old)
    BY <1>1, <1>8 DEF ChainType
  <2>3. size \in Nat
    BY <1>1, TallySumNat
  <2> HIDE DEF size, old, new
  <2>4. AccountOK(new) /\ AccountGrows(old, new) /\ new.status = old.status
    BY <2>1, <2>2, <2>3, <1>1, RollupAccount
  <2> QED BY <1>8, <2>2, <2>4 DEF old, new
<1> QED BY <1>1, <1>5, <1>6, <1>7, <1>8

(* A transaction that the program executes leaves every other one, and     *)
(* every account but its own, as they are.                                 *)
LEMMA ExecuteKeepsChain ==
  ASSUME ChainType, ChainInv, NEW t \in DOMAIN transactions, Execute(t)
  PROVE  /\ ChainType' /\ ChainInv' /\ Grows
         /\ DOMAIN transactions' = DOMAIN transactions
<1> DEFINE tx == transactions[t]
<1>1. /\ tx \in TransactionType /\ tx.state = "sent" /\ tx.ballot \in Ballots
      /\ tx.instruction # "initialize" => tx.ballot \in DOMAIN ballots
      /\ tx.instruction \in {"initialize", "close_election", "set_final_winner",
                             "submit_rollup_batch"}
      /\ ProperTransaction(t)
  BY TransactionTyped DEF Execute, TransactionType, ChainInv
<1>2. /\ DOMAIN transactions' = DOMAIN transactions
      /\ \A u \in DOMAIN transactions : u # t =>
           transactions'[u] = transactions[u]
      /\ transactions'[t] = [tx EXCEPT !.state = IF Accepted(t) THEN "landed" ELSE "failed"]
      /\ decisions' = decisions
  BY DEF Execute, history
<1>3. /\ transactions'[t] \in TransactionType
      /\ transactions'[t].instruction = tx.instruction
      /\ transactions'[t].ballot = tx.ballot
      /\ transactions'[t].winner = tx.winner
      /\ transactions'[t].tally = tx.tally
      /\ transactions'[t].state = IF Accepted(t) THEN "landed" ELSE "failed"
  BY <1>1, <1>2 DEF TransactionType
<1>4. ASSUME NEW u \in DOMAIN transactions
      PROVE  TransactionGrows(transactions[u], transactions'[u])
  BY <1>1, <1>2, <1>3 DEF TransactionGrows
<1>5. ASSUME NEW b \in DOMAIN ballots PROVE AccountGrows(ballots[b], ballots[b])
  BY AccountStays
<1>6. /\ Accepted(t) =>
           /\ DOMAIN ballots' = DOMAIN ballots \cup {tx.ballot}
           /\ ballots'[tx.ballot] = Executed(t)
           /\ \A b \in DOMAIN ballots : b # tx.ballot =>
                ballots'[b] = ballots[b]
      /\ ~Accepted(t) => ballots' = ballots
  BY DEF Execute
<1>7. /\ DOMAIN ballots \subseteq DOMAIN ballots'
      /\ DOMAIN ballots' \subseteq DOMAIN ballots \cup {tx.ballot}
      /\ \A b \in DOMAIN ballots' : AccountOK(ballots'[b])
      /\ \A b \in DOMAIN ballots : AccountGrows(ballots[b], ballots'[b])
  <2>1. CASE Accepted(t)
    <3>1. /\ AccountOK(Executed(t))
          /\ tx.instruction # "initialize" =>
               AccountGrows(ballots[tx.ballot], Executed(t))
          /\ tx.instruction = "initialize" => tx.ballot \notin DOMAIN ballots
      BY <2>1, ExecutedAccount
    <3> QED BY <2>1, <3>1, <1>5, <1>6 DEF ChainType
  <2>2. CASE ~Accepted(t)
    BY <2>2, <1>5, <1>6 DEF ChainType
  <2> QED BY <2>1, <2>2
<1>8. Grows
  BY <1>2, <1>4, <1>7 DEF Grows
<1>9. ChainType'
  <2>1. DOMAIN ballots' \subseteq Ballots
    BY <1>1, <1>7 DEF ChainType
  <2>2. DOMAIN transactions' \subseteq Requests \X Decades
    BY <1>2 DEF ChainType
  <2>3. ASSUME NEW u \in DOMAIN transactions'
        PROVE  /\ transactions'[u] \in TransactionType
               /\ transactions'[u].instruction # "initialize" =>
                    transactions'[u].ballot \in DOMAIN ballots'
    BY <1>1, <1>2, <1>3, <1>7 DEF ChainType
  <2> QED BY <2>1, <2>2, <2>3, <1>7 DEF ChainType
<1>10. ASSUME NEW u \in DOMAIN transactions, u # t PROVE ProperTransaction(u)'
  BY <1>10, <1>2, <1>8, <1>9, ProperTransactionStays DEF ChainInv
<1>11. tx.instruction = "close_election" =>
         ballots'[tx.ballot].status # ELECTION_OPEN
  <2> SUFFICES ASSUME tx.instruction = "close_election"
               PROVE  ballots'[tx.ballot].status # ELECTION_OPEN
    OBVIOUS
  <2>1. Accepted(t) => Executed(t).status # ELECTION_OPEN
    BY ExecutedAccount
  <2>2. ~Accepted(t) => ballots[tx.ballot].status # ELECTION_OPEN
    BY DEF Accepted, can_close
  <2> QED BY <2>1, <2>2, <1>6
<1>12. tx.instruction = "set_final_winner" /\ Accepted(t) =>
         /\ ballots'[tx.ballot].status = ELECTION_FINALIZED
         /\ ballots'[tx.ballot].final_winner_index = tx.winner
  BY <1>6, ExecutedAccount
<1>13. tx.instruction = "set_final_winner" => ProperWinner(t)'
  <2> SUFFICES ASSUME tx.instruction = "set_final_winner" PROVE ProperWinner(t)'
    OBVIOUS
  <2>1. ProperWinner(t) /\ tx.ballot \in DOMAIN ballots /\ tx.tally \in Tally
    BY <1>1, TransactionTyped DEF ProperTransaction
  <2>2. \A q \in Tally : \A b \in DOMAIN ballots : Behind(q, b) => Behind(q, b)'
    BY <1>8, <1>9, BehindStays
  <2>3. \A m \in Movies : tx.tally[m + 1] <= ballots'[tx.ballot].encrypted_tally[m + 1]
    BY <2>1, <2>2 DEF ProperWinner, Behind
  <2>4. decisions' = decisions
    BY <1>2
  <2> QED BY <2>1, <2>3, <2>4, <1>3 DEF ProperWinner, Behind
<1>14. ProperTransaction(t)'
  <2>1. tx.instruction = InstructionOf(t[1])
    BY <1>1 DEF ProperTransaction
  <2>2. tx.instruction = "initialize" =>
          tx.ballot = t /\ (Accepted(t) => t \in DOMAIN ballots')
    BY <1>1, <1>6 DEF ProperTransaction
  <2> QED BY <2>1, <2>2, <1>3, <1>11, <1>12, <1>13
          DEF ProperTransaction, InstructionOf
<1>15. ASSUME NEW b \in DOMAIN ballots', ballots'[b].status = ELECTION_FINALIZED
       PROVE  \E u \in DOMAIN transactions' : Winning(u, b)'
  <2>1. CASE b \in DOMAIN ballots /\ ballots[b].status = ELECTION_FINALIZED
    <3>1. ProperBallot(b)'
      BY <2>1, <1>8, ProperBallotStays DEF ChainInv
    <3> QED BY <3>1, <1>15 DEF ProperBallot
  <2>2. CASE ~(b \in DOMAIN ballots /\ ballots[b].status = ELECTION_FINALIZED)
    <3>1. Accepted(t) /\ b = tx.ballot
      BY <2>2, <1>6, <1>15
    <3>2. tx.instruction = "set_final_winner"
      <4>1. Executed(t).status = ELECTION_FINALIZED
        BY <3>1, <1>6, <1>15
      <4>2. ELECTION_OPEN # ELECTION_FINALIZED
        BY DEF ELECTION_OPEN, ELECTION_FINALIZED
      <4> QED BY <2>2, <3>1, <4>1, <4>2, <1>1, ExecutedAccount
    <3>3. Winning(t, b)'
      BY <3>1, <3>2, <1>3, <1>12 DEF Winning
    <3> QED BY <3>3, <1>2
  <2> QED BY <2>1, <2>2
<1>16. \A b \in DOMAIN ballots' : ProperBallot(b)'
  BY <1>15 DEF ProperBallot
<1> QED BY <1>2, <1>8, <1>9, <1>10, <1>14, <1>16 DEF ChainInv

-----------------------------------------------------------------------------
(* The API and the handlers *)

(* What the API remembers stays right while the chain grows.               *)
LEMMA ApiKept ==
  ASSUME ChainType, ChainType', Grows, ApiType, ApiInv, UNCHANGED api
  PROVE  ApiType' /\ ApiInv'
<1>1. /\ ballots_by_decade' = ballots_by_decade
      /\ election_closed' = election_closed
      /\ resolved_ties' = resolved_ties
      /\ votes_by_decade' = votes_by_decade
  BY DEF api
<1>2. DOMAIN ballots \subseteq DOMAIN ballots' /\ decisions \subseteq decisions'
  BY DEF Grows
<1>3. ApiType'
  BY <1>1, <1>2 DEF ApiType
<1>4. ResultsBehindChain'
  <2>1. ASSUME NEW d \in Decades, votes_by_decade[d] # ZeroTally
        PROVE  \E b \in DOMAIN ballots' : b[2] = d /\ Behind(votes_by_decade[d], b)'
    <3>1. PICK b \in DOMAIN ballots : b[2] = d /\ Behind(votes_by_decade[d], b)
      BY <2>1 DEF ApiInv, ResultsBehindChain
    <3>2. votes_by_decade[d] \in Tally
      BY DEF ApiType
    <3>3. \A q \in Tally : Behind(q, b) => Behind(q, b)'
      BY BehindStays
    <3>4. \A m \in Movies : votes_by_decade[d][m + 1] <= ballots'[b].encrypted_tally[m + 1]
      BY <3>1, <3>2, <3>3 DEF Behind
    <3> QED BY <3>1, <3>4, <1>1, <1>2 DEF Behind
  <2> QED BY <2>1, <1>1 DEF ResultsBehindChain, Behind
<1> QED BY <1>1, <1>2, <1>3, <1>4 DEF ApiInv

\* The variables of a handler do not change.
Idle(q) ==
  /\ pc'[q] = pc[q]
  /\ decade'[q] = decade[q]
  /\ q \in Finalizers => /\ ballot'[q] = ballot[q]
                         /\ resolved'[q] = resolved[q]
                         /\ results'[q] = results[q]
                         /\ status'[q] = status[q]

(* What a handler that does nothing relies on stays right while the chain  *)
(* grows.                                                                  *)
LEMMA IdleKept ==
  ASSUME ChainType, ChainType', Grows, LocalType, NEW q \in Requests, Idle(q)
  PROVE  /\ q \in CreateRequests /\ CreateInv(q) => CreateInv(q)'
         /\ q \in Finalizers /\ FinalizeInv(q) => FinalizeInv(q)'
<1>1. DOMAIN ballots \subseteq DOMAIN ballots' /\ decisions \subseteq decisions'
  BY DEF Grows
<1>2. CreateInv(q) => CreateInv(q)'
  BY <1>1 DEF CreateInv, Idle
<1>3. ASSUME q \in Finalizers, FinalizeInv(q) PROVE FinalizeInv(q)'
  <2>1. /\ ballot'[q] = ballot[q] /\ resolved'[q] = resolved[q]
        /\ results'[q] = results[q] /\ status'[q] = status[q]
        /\ pc'[q] = pc[q] /\ decade'[q] = decade[q]
    BY <1>3 DEF Idle
  <2>2. results[q] \in Tally
    BY <1>3 DEF LocalType
  <2>3. ASSUME pc[q] \in {"awaiting", "saving"}
        PROVE  Behind(results[q], ballot[q])'
    <3>1. ballot[q] \in DOMAIN ballots /\ Behind(results[q], ballot[q])
      BY <1>3, <2>3 DEF FinalizeInv
    <3>2. \A s \in Tally : \A b \in DOMAIN ballots : Behind(s, b) =>
            Behind(s, b)'
      BY BehindStays
    <3>3. \A m \in Movies : results[q][m + 1] <= ballots'[ballot[q]].encrypted_tally[m + 1]
      BY <2>2, <3>1, <3>2 DEF Behind
    <3> QED BY <3>3, <2>1 DEF Behind
  <2>4. ASSUME NEW d \in Decades, status[q][d] = "Finalized"
        PROVE  <<q, d>> \in DOMAIN transactions' /\ transactions'[<<q, d>>].state = "landed"
    <3>1. <<q, d>> \in DOMAIN transactions /\ transactions[<<q, d>>].state = "landed"
      BY <1>3, <2>4 DEF FinalizeInv
    <3> QED BY <3>1 DEF Grows, TransactionGrows
  <2> QED BY <1>1, <1>3, <2>1, <2>3, <2>4 DEF FinalizeInv
<1> QED BY <1>2, <1>3

(* A step of one handler: what is to be shown of it.                       *)
LEMMA HandlerStep ==
  ASSUME ElectionInv, ChainType', ChainInv', Grows, ApiType', ApiInv',
         LocalType', HistoryType', NEW r \in Requests,
         \A q \in Requests : q # r => Idle(q),
         pc'[r] \in StepsOf(r), decade[r] <= decade'[r],
         \/ /\ DOMAIN transactions' = DOMAIN transactions
            /\ pc'[r] # "awaiting"
            /\ Unsent(r)' => Unsent(r) \/ decade[r] < decade'[r]
         \/ /\ DOMAIN transactions' = DOMAIN transactions \cup {Key(r)}
            /\ ~Unsent(r)'
            /\ decade'[r] = decade[r],
         r \in CreateRequests => CreateInv(r)',
         r \in Finalizers => FinalizeInv(r)',
         r \in Batches /\ pc'[r] = "queued" =>
           ballots_by_decade'[decade'[r]] # None,
         \A d \in Decades : ballots_by_decade[d] # None =>
           ballots_by_decade'[d] # None
  PROVE  ElectionInv'
<1>1. ChainType /\ LocalType
  BY TypeParts DEF ElectionInv
<1>2. /\ pc \in [Requests -> Step] /\ pc' \in [Requests -> Step]
      /\ decade \in [Requests -> Decades] /\ decade' \in [Requests -> Decades]
      /\ \A d \in Decades : d \in Int
  BY <1>1, ElectionAssumption DEF LocalType, Decades, ElectionAssumption
<1>3. CallsInOrder'
  <2> SUFFICES ASSUME NEW t \in DOMAIN transactions'
               PROVE  \/ t[2] < decade'[t[1]]
                      \/ t[2] = decade'[t[1]] /\ ~Unsent(t[1])'
    BY DEF CallsInOrder, Unsent
  <2>1. CASE t \in DOMAIN transactions
    <3>1. t[1] \in Requests /\ t[2] \in Decades
      BY <2>1, <1>1, TransactionTyped
    <3>2. \/ t[2] < decade[t[1]]
          \/ t[2] = decade[t[1]] /\ ~Unsent(t[1])
      BY <2>1 DEF ElectionInv, CallsInOrder
    <3>3. t[2] \in Int /\ decade[t[1]] \in Int /\ decade'[t[1]] \in Int
      BY <1>2, <3>1
    <3>4. CASE t[1] # r
      BY <3>1, <3>2, <3>4 DEF Idle, Unsent
    <3>5. CASE t[1] = r
      BY <3>2, <3>3, <3>5
    <3> QED BY <3>4, <3>5
  <2>2. CASE t \notin DOMAIN transactions
    <3>1. t = <<r, decade[r]>> /\ ~Unsent(r)' /\ decade'[r] = decade[r]
      BY <2>2 DEF Key
    <3> QED BY <3>1
  <2> QED BY <2>1, <2>2
<1>4. AwaitsTransaction'
  <2> SUFFICES ASSUME NEW q \in Requests, pc'[q] = "awaiting"
               PROVE  <<q, decade'[q]>> \in DOMAIN transactions'
    BY DEF AwaitsTransaction, Key
  <2>1. CASE q # r
    BY <2>1 DEF Idle, ElectionInv, AwaitsTransaction, Key
  <2>2. CASE q = r
    BY <2>2 DEF Key
  <2> QED BY <2>1, <2>2
<1>5. HandlerInv'
  <2>1. ASSUME NEW q \in Requests, q # r
        PROVE  /\ pc'[q] \in StepsOf(q)
               /\ q \in CreateRequests => CreateInv(q)'
               /\ q \in Finalizers => FinalizeInv(q)'
               /\ q \in Batches /\ pc'[q] = "queued" =>
                    ballots_by_decade'[decade'[q]] # None
    <3>1. Idle(q)
      BY <2>1
    <3>2. /\ pc[q] \in StepsOf(q)
          /\ q \in CreateRequests => CreateInv(q)
          /\ q \in Finalizers => FinalizeInv(q)
          /\ q \in Batches /\ pc[q] = "queued" =>
               ballots_by_decade[decade[q]] # None
      BY DEF ElectionInv, HandlerInv
    <3>3. /\ q \in CreateRequests => CreateInv(q)'
          /\ q \in Finalizers => FinalizeInv(q)'
      BY <1>1, <3>1, <3>2, IdleKept
    <3> QED BY <1>2, <3>1, <3>2, <3>3 DEF Idle
  <2>2. Requests = CreateRequests \cup CloseRequests \cup ResolveRequests
                   \cup Finalizers \cup Batches
    BY DEF Requests
  <2>3. \A q \in Requests : pc'[q] \in StepsOf(q)
    BY <2>1
  <2>4. \A c \in CreateRequests : CreateInv(c)'
    BY <2>1, <2>2
  <2>5. \A f \in Finalizers : FinalizeInv(f)'
    BY <2>1, <2>2
  <2>6. \A p \in Batches : pc'[p] = "queued" =>
          ballots_by_decade'[decade'[p]] # None
    BY <2>1, <2>2
  <2> QED BY <2>3, <2>4, <2>5, <2>6 DEF HandlerInv, StepsOf
<1> QED BY <1>3, <1>4, <1>5, TypeParts DEF ElectionInv

-----------------------------------------------------------------------------
(* What the lemmas about the steps share *)

LEMMA RouteFacts ==
  /\ \A c \in CreateRequests :
       /\ c \in Requests /\ c \notin Finalizers /\ c \notin Batches
       /\ c \notin CloseRequests
       /\ InstructionOf(c) = "initialize"
       /\ StepsOf(c) = {"new", "next", "awaiting", "storing", "opening",
                        "clearing", "done"}
  /\ \A k \in CloseRequests :
       /\ k \in Requests /\ k \notin CreateRequests /\ k \notin Finalizers
       /\ k \notin Batches
       /\ InstructionOf(k) = "close_election"
       /\ StepsOf(k) = {"new", "next", "awaiting", "done"}
  /\ \A q \in ResolveRequests :
       /\ q \in Requests /\ q \notin CreateRequests /\ q \notin Finalizers
       /\ q \notin Batches
       /\ StepsOf(q) = {"new", "done"}
  /\ \A f \in Finalizers :
       /\ f \in Requests /\ f \notin CreateRequests /\ f \notin Batches
       /\ InstructionOf(f) = "set_final_winner"
       /\ StepsOf(f) = {"new", "next", "reading", "tie", "fetching",
                        "awaiting", "saving", "done"}
  /\ \A p \in Batches :
       /\ p \in Requests /\ p \notin CreateRequests /\ p \notin Finalizers
       /\ InstructionOf(p) = "submit_rollup_batch"
       /\ StepsOf(p) = {"new", "queued", "done"}
  BY RoutesApart DEF Requests, InstructionOf, StepsOf

LEMMA DecadeFacts ==
  /\ DECADE_COUNT \in Nat /\ DECADE_COUNT > 0
  /\ \A d \in Decades : /\ d \in Nat /\ d < DECADE_COUNT
                        /\ d # DECADE_COUNT - 1 => d + 1 \in Decades
  /\ 0 \in Decades
  /\ \A d, e \in Decades : e < d + 1 => e < d \/ e = d
  /\ \A d \in Decades : d = DECADE_COUNT - 1 =>
       \A e \in Decades : e < d \/ e = d
  BY ElectionAssumption DEF ElectionAssumption, Decades

LEMMA TallyFacts ==
  /\ ZeroTally \in Tally
  /\ \A tally \in Tally : tally = tally /\ \A m \in Movies : tally[m + 1] \in Nat
  /\ None \notin Movies /\ \A b \in Ballots : b # None
  BY ElectionAssumption, WidthAssumption
     DEF ElectionAssumption, Tally, ZeroTally, Movies

(* A transaction is sent for a decade that has none yet.                   *)
LEMMA KeyIsFresh ==
  ASSUME LocalType, CallsInOrder, NEW r \in Requests, Unsent(r)
  PROVE  Key(r) \notin DOMAIN transactions /\ Key(r) \in Requests \X Decades
<1>1. decade[r] \in Nat
  BY DecadeFacts DEF LocalType
<1> QED BY <1>1 DEF CallsInOrder, Key, LocalType

\* What an answer does to the variables of the handler.
Answered(r, s) ==
  /\ pc' \in [Requests -> Step]
  /\ decade' \in [Requests -> Decades]
  /\ status' \in [CloseRequests \cup Finalizers -> [Decades -> Statuses]]
  /\ pc'[r] \in {"next", "done"}
  /\ pc'[r] = "next" => decade[r] < decade'[r]
  /\ decade[r] <= decade'[r]
  /\ \A q \in Requests : q # r => pc'[q] = pc[q] /\ decade'[q] = decade[q]
  /\ \A q \in CloseRequests \cup Finalizers : q # r => status'[q] = status[q]
  /\ \A d \in Decades :
       status'[r][d] = IF d = decade[r] THEN s ELSE status[r][d]

(* A handler answers for a decade and leaves all others as they are.       *)
LEMMA AnswerFacts ==
  ASSUME LocalType, NEW r \in CloseRequests \cup Finalizers, r \in Requests,
         NEW s \in Statuses, Answer(r, s)
  PROVE  Answered(r, s)
<1>1. /\ pc \in [Requests -> Step] /\ decade \in [Requests -> Decades]
      /\ status \in [CloseRequests \cup Finalizers -> [Decades -> Statuses]]
      /\ "done" \in Step /\ "next" \in Step
  BY DEF LocalType, Step
<1>2. pc' = [pc EXCEPT ![r] = IF LastDecade(r) THEN "done" ELSE "next"]
  BY DEF Answer
<1>3. decade' = [decade EXCEPT ![r] = IF LastDecade(r) THEN decade[r] ELSE decade[r] + 1]
  BY DEF Answer
<1>4. status' = [status EXCEPT ![r] = [status[r] EXCEPT ![decade[r]] = s]]
  BY DEF Answer
<1>5. decade[r] \in Decades /\ decade[r] \in Nat
  BY <1>1, DecadeFacts
<1>6. ~LastDecade(r) => decade[r] + 1 \in Decades
  BY <1>5, DecadeFacts DEF LastDecade
<1>7. /\ pc'[r] = IF LastDecade(r) THEN "done" ELSE "next"
      /\ decade'[r] = IF LastDecade(r) THEN decade[r] ELSE decade[r] + 1
      /\ status'[r] = [status[r] EXCEPT ![decade[r]] = s]
  BY <1>1, <1>2, <1>3, <1>4
<1>8. /\ pc' \in [Requests -> Step]
      /\ decade' \in [Requests -> Decades]
      /\ status' \in [CloseRequests \cup Finalizers -> [Decades -> Statuses]]
  BY <1>1, <1>2, <1>3, <1>4, <1>5, <1>6
<1>9. /\ \A q \in Requests : q # r => pc'[q] = pc[q] /\ decade'[q] = decade[q]
      /\ \A q \in CloseRequests \cup Finalizers : q # r =>
           status'[q] = status[q]
  BY <1>1, <1>2, <1>3, <1>4
<1>10. \A d \in Decades : status'[r][d] = IF d = decade[r] THEN s ELSE status[r][d]
  BY <1>1, <1>7
<1> QED BY <1>5, <1>7, <1>8, <1>9, <1>10 DEF Answered

(* A step that leaves the chain, the API and the history alone.            *)
LEMMA QuietStep ==
  ASSUME ElectionInv, UNCHANGED <<chain, api, history>>
  PROVE  /\ ChainType' /\ ChainInv' /\ Grows /\ ApiType' /\ ApiInv' /\ HistoryType'
         /\ DOMAIN ballots' = DOMAIN ballots
         /\ DOMAIN transactions' = DOMAIN transactions
         /\ transactions' = transactions /\ ballots' = ballots
         /\ decisions' = decisions /\ ballots_by_decade' = ballots_by_decade
<1>1. ballots' = ballots /\ transactions' = transactions /\ decisions' = decisions
      /\ restarts' = restarts /\ ballots_by_decade' = ballots_by_decade
  BY DEF chain, history, api
<1>2. ChainType /\ ApiType /\ HistoryType /\ ChainInv /\ ApiInv
  BY TypeParts DEF ElectionInv
<1>3. ChainType' /\ ChainInv' /\ Grows
  BY <1>1, <1>2, ChainUnchanged
<1>4. ApiType' /\ ApiInv'
  BY <1>2, <1>3, ApiKept
<1>5. HistoryType'
  BY <1>1, <1>2 DEF HistoryType
<1> QED BY <1>1, <1>3, <1>4, <1>5

\* What a handler that sends a transaction keeps.
LEMMA SendStep ==
  ASSUME ElectionInv, NEW r \in Requests, Unsent(r), NEW transaction,
         Sendable(r, Key(r), transaction), Send(r, transaction),
         UNCHANGED <<ballots, api, history>>
  PROVE  /\ ChainType' /\ ChainInv' /\ Grows /\ ApiType' /\ ApiInv' /\ HistoryType'
         /\ DOMAIN transactions' = DOMAIN transactions \cup {Key(r)}
         /\ ballots' = ballots /\ decisions' = decisions
         /\ ballots_by_decade' = ballots_by_decade
<1>1. ballots' = ballots /\ decisions' = decisions /\ restarts' = restarts
      /\ ballots_by_decade' = ballots_by_decade /\ UNCHANGED api
  BY DEF history, api
<1>2. /\ ChainType /\ ApiType /\ HistoryType /\ LocalType /\ ChainInv /\ ApiInv
      /\ CallsInOrder
  BY TypeParts DEF ElectionInv
<1>3. Key(r) \notin DOMAIN transactions /\ Key(r) \in Requests \X Decades
  BY <1>2, KeyIsFresh
<1>4. /\ ChainType' /\ ChainInv' /\ Grows
      /\ DOMAIN transactions' = DOMAIN transactions \cup {Key(r)}
  BY <1>1, <1>2, <1>3, SendKeepsChain
<1>5. ApiType' /\ ApiInv'
  BY <1>1, <1>2, <1>4, ApiKept
<1>6. HistoryType'
  BY <1>1, <1>2 DEF HistoryType
<1> QED BY <1>1, <1>4, <1>5, <1>6

\* A handler of which only pc and decade change.
LEMMA ControlStep ==
  ASSUME ElectionInv, NEW r \in Requests, NEW s \in Step, NEW d \in Decades,
         pc' = [pc EXCEPT ![r] = s], decade' = [decade EXCEPT ![r] = d],
         UNCHANGED <<ballot, resolved, results, status>>,
         ballots' = ballots, s \in {"tie", "fetching"} => pc[r] = s
  PROVE  /\ LocalType' /\ pc'[r] = s /\ decade'[r] = d
         /\ \A q \in Requests : q # r => Idle(q)
<1>1. LocalType
  BY TypeParts DEF ElectionInv
<1>2. /\ pc' \in [Requests -> Step] /\ decade' \in [Requests -> Decades]
      /\ pc'[r] = s /\ decade'[r] = d
      /\ \A q \in Requests : q # r => pc'[q] = pc[q] /\ decade'[q] = decade[q]
  BY <1>1 DEF LocalType
<1>3. Finalizers \subseteq Requests
  BY RouteFacts
<1>4. LocalType'
  BY <1>1, <1>2, <1>3 DEF LocalType
<1> QED BY <1>2, <1>4 DEF Idle

-----------------------------------------------------------------------------
(* create_ballots *)

LEMMA CheckBallotsStep ==
  ASSUME ElectionInv, NEW c \in CreateRequests, CheckBallots(c)
  PROVE  ElectionInv'
<1>1. PICK s \in {"done", "next"} : pc' = [pc EXCEPT ![c] = s]
  BY DEF CheckBallots
<1>2. /\ c \in Requests /\ decade[c] \in Decades /\ s \in Step
      /\ decade' = [decade EXCEPT ![c] = decade[c]] /\ pc[c] = "new"
  BY RouteFacts, TypeParts DEF CheckBallots, ElectionInv, LocalType, Step
<1>3. UNCHANGED <<chain, api, history, ballots, ballot, resolved, results, status>>
  BY DEF CheckBallots, chain
<1>4. /\ LocalType' /\ pc'[c] = s /\ decade'[c] = decade[c]
      /\ \A q \in Requests : q # c => Idle(q)
  BY <1>1, <1>2, <1>3, ControlStep
<1>5. CreateInv(c)'
  BY <1>1, <1>2, <1>3, <1>4, RouteFacts DEF ElectionInv, HandlerInv, CreateInv
<1>6. /\ pc'[c] \in StepsOf(c) /\ decade[c] <= decade'[c]
      /\ pc'[c] # "awaiting" /\ Unsent(c)
  BY <1>1, <1>2, <1>4, RouteFacts, DecadeFacts DEF Unsent
<1> QED BY <1>2, <1>3, <1>4, <1>5, <1>6, QuietStep, HandlerStep, RouteFacts

LEMMA SendInitializeStep ==
  ASSUME ElectionInv, NEW c \in CreateRequests, SendInitialize(c)
  PROVE  ElectionInv'
<1> DEFINE tx == Transaction("initialize", <<c, decade[c]>>, None, ZeroTally)
<1>1. /\ c \in Requests /\ decade[c] \in Decades /\ "awaiting" \in Step
      /\ decade' = [decade EXCEPT ![c] = decade[c]] /\ pc[c] = "next"
      /\ pc' = [pc EXCEPT ![c] = "awaiting"] /\ Send(c, tx)
  BY RouteFacts, TypeParts DEF SendInitialize, ElectionInv, LocalType, Step
<1>2. UNCHANGED <<api, history, ballots, ballot, resolved, results, status>>
  BY DEF SendInitialize
<1>3. /\ LocalType' /\ pc'[c] = "awaiting" /\ decade'[c] = decade[c]
      /\ \A q \in Requests : q # c => Idle(q)
  BY <1>1, <1>2, ControlStep
<1>4. Sendable(c, Key(c), tx)
  <2>1. <<c, decade[c]>> \in Ballots
    BY <1>1 DEF Ballots
  <2> QED BY <1>1, <2>1, RouteFacts, TallyFacts
          DEF Sendable, Transaction, TransactionType, Key
<1>5. Unsent(c) /\ ~Unsent(c)'
  BY <1>1, <1>3 DEF Unsent
<1> HIDE DEF tx
<1>6. /\ ChainType' /\ ChainInv' /\ Grows /\ ApiType' /\ ApiInv' /\ HistoryType'
      /\ DOMAIN transactions' = DOMAIN transactions \cup {Key(c)}
      /\ ballots_by_decade' = ballots_by_decade
  BY <1>1, <1>2, <1>4, <1>5, SendStep
<1>7. CreateInv(c)'
  BY <1>1, <1>2, <1>3 DEF ElectionInv, HandlerInv, CreateInv
<1>8. pc'[c] \in StepsOf(c) /\ decade[c] <= decade'[c]
  BY <1>1, <1>3, RouteFacts, DecadeFacts
<1> QED BY <1>1, <1>3, <1>5, <1>6, <1>7, <1>8, HandlerStep, RouteFacts

LEMMA FinishInitializeStep ==
  ASSUME ElectionInv, NEW c \in CreateRequests, FinishInitialize(c)
  PROVE  ElectionInv'
<1>1. /\ c \in Requests /\ decade[c] \in Decades /\ decade[c] \in Nat
      /\ pc[c] = "awaiting" /\ Key(c) \in DOMAIN transactions
      /\ decade = [decade EXCEPT ![c] = decade[c]]
  BY RouteFacts, TypeParts, DecadeFacts
     DEF FinishInitialize, ElectionInv, LocalType, AwaitsTransaction
<1>2. UNCHANGED <<chain, api, history, ballots, ballot, resolved, results, status>>
  BY DEF FinishInitialize, chain
<1>3. CASE CreateConfirmed(c) /\ ~LastDecade(c)
            /\ pc' = [pc EXCEPT ![c] = "next"]
            /\ decade' = [decade EXCEPT ![c] = decade[c] + 1]
  <2>1. decade[c] + 1 \in Decades /\ "next" \in Step
    BY <1>1, <1>3, DecadeFacts DEF LastDecade, Step
  <2>2. /\ LocalType' /\ pc'[c] = "next" /\ decade'[c] = decade[c] + 1
        /\ \A q \in Requests : q # c => Idle(q)
    BY <1>1, <1>2, <1>3, <2>1, ControlStep
  <2>3. <<c, decade[c]>> \in DOMAIN ballots
    <3>1. ProperTransaction(Key(c)) /\ transactions[Key(c)].state = "landed"
      BY <1>1, <1>3 DEF ElectionInv, ChainInv, CreateConfirmed, State, Key
    <3> QED BY <3>1, RouteFacts DEF ProperTransaction, Key
  <2>4. CreateInv(c)'
    <3>1. \A d \in Decades : d < decade[c] => <<c, d>> \in DOMAIN ballots
      BY <1>1 DEF ElectionInv, HandlerInv, CreateInv
    <3>2. \A d \in Decades : d < decade[c] + 1 => <<c, d>> \in DOMAIN ballots
      BY <1>1, <2>3, <3>1, DecadeFacts
    <3> QED BY <1>2, <2>2, <3>2 DEF CreateInv
  <2>5. /\ pc'[c] \in StepsOf(c) /\ decade[c] < decade'[c]
        /\ decade[c] <= decade'[c] /\ pc'[c] # "awaiting"
    BY <1>1, <2>2, RouteFacts
  <2> QED BY <1>1, <1>2, <2>2, <2>4, <2>5, QuietStep, HandlerStep, RouteFacts
<1>4. CASE CreateConfirmed(c) /\ LastDecade(c)
            /\ pc' = [pc EXCEPT ![c] = "storing"] /\ decade' = decade
  <2>1. "storing" \in Step /\ decade[c] = DECADE_COUNT - 1
    BY <1>4, RoutesApart DEF LastDecade, Step, Finalizers
  <2>2. /\ LocalType' /\ pc'[c] = "storing" /\ decade'[c] = decade[c]
        /\ \A q \in Requests : q # c => Idle(q)
    BY <1>1, <1>2, <1>4, <2>1, ControlStep
  <2>3. <<c, decade[c]>> \in DOMAIN ballots
    <3>1. ProperTransaction(Key(c)) /\ transactions[Key(c)].state = "landed"
      BY <1>1, <1>4 DEF ElectionInv, ChainInv, CreateConfirmed, State, Key
    <3> QED BY <3>1, RouteFacts DEF ProperTransaction, Key
  <2>4. CreateInv(c)'
    <3>1. \A d \in Decades : d < decade[c] => <<c, d>> \in DOMAIN ballots
      BY <1>1 DEF ElectionInv, HandlerInv, CreateInv
    <3>2. \A d \in Decades : <<c, d>> \in DOMAIN ballots
      BY <1>1, <2>1, <2>3, <3>1, DecadeFacts
    <3> QED BY <1>2, <2>2, <3>2 DEF CreateInv
  <2>5. /\ pc'[c] \in StepsOf(c) /\ decade[c] <= decade'[c]
        /\ pc'[c] # "awaiting" /\ ~Unsent(c)'
    BY <1>1, <2>2, RouteFacts DEF Unsent
  <2> QED BY <1>1, <1>2, <2>2, <2>4, <2>5, QuietStep, HandlerStep, RouteFacts
<1>5. CASE pc' = [pc EXCEPT ![c] = "done"] /\ decade' = decade
  <2>1. "done" \in Step
    BY DEF Step
  <2>2. /\ LocalType' /\ pc'[c] = "done" /\ decade'[c] = decade[c]
        /\ \A q \in Requests : q # c => Idle(q)
    BY <1>1, <1>2, <1>5, <2>1, ControlStep
  <2>3. /\ CreateInv(c)' /\ pc'[c] \in StepsOf(c) /\ decade[c] <= decade'[c]
        /\ pc'[c] # "awaiting" /\ ~Unsent(c)'
    BY <1>1, <2>2, RouteFacts DEF CreateInv, Unsent
  <2> QED BY <1>1, <1>2, <2>2, <2>3, QuietStep, HandlerStep, RouteFacts
<1>6. \/ /\ CreateConfirmed(c)
         /\ pc' = [pc EXCEPT ![c] = IF LastDecade(c) THEN "storing" ELSE "next"]
         /\ decade' = [decade EXCEPT ![c] = IF LastDecade(c) THEN decade[c] ELSE decade[c] + 1]
      \/ pc' = [pc EXCEPT ![c] = "done"] /\ decade' = decade
  BY DEF FinishInitialize
<1>7. CASE LastDecade(c)
  BY <1>1, <1>4, <1>5, <1>6, <1>7
<1>8. CASE ~LastDecade(c)
  BY <1>3, <1>5, <1>6, <1>8
<1> QED BY <1>7, <1>8

\* The steps of create_ballots that write to the state of the API.
LEMMA StoreBallotsStep ==
  ASSUME ElectionInv, NEW c \in CreateRequests, StoreBallots(c)
  PROVE  ElectionInv'
<1>1. /\ c \in Requests /\ decade[c] \in Decades /\ decade[c] \in Nat
      /\ pc[c] = "storing" /\ "opening" \in Step
      /\ pc' = [pc EXCEPT ![c] = "opening"]
      /\ decade' = [decade EXCEPT ![c] = decade[c]]
  BY RouteFacts, TypeParts, DecadeFacts
     DEF StoreBallots, ElectionInv, LocalType, Step
<1>2. /\ UNCHANGED <<chain, history, ballots, transactions, decisions, restarts>>
      /\ UNCHANGED <<election_closed, resolved_ties, votes_by_decade>>
      /\ UNCHANGED <<ballot, resolved, results, status>>
      /\ ballots_by_decade' = [d \in Decades |-> <<c, d>>]
  BY DEF StoreBallots, chain, history
<1>3. ChainType /\ ChainInv /\ ApiType /\ ApiInv /\ HistoryType
  BY TypeParts DEF ElectionInv
<1>4. ChainType' /\ ChainInv' /\ Grows
  BY <1>2, <1>3, ChainUnchanged
<1>5. \A d \in Decades : <<c, d>> \in DOMAIN ballots
  BY <1>1 DEF ElectionInv, HandlerInv, CreateInv
<1>6. \A d \in Decades : <<c, d>> # None
  BY <1>1, TallyFacts DEF Ballots
<1>7. ApiType' /\ HistoryType'
  BY <1>2, <1>3, <1>5 DEF ApiType, HistoryType
<1>8. ApiInv'
  BY <1>2, <1>3 DEF ApiInv, ResultsBehindChain, Behind
<1>9. /\ LocalType' /\ pc'[c] = "opening" /\ decade'[c] = decade[c]
      /\ \A q \in Requests : q # c => Idle(q)
  BY <1>1, <1>2, ControlStep
<1>10. /\ CreateInv(c)' /\ pc'[c] \in StepsOf(c) /\ decade[c] <= decade'[c]
       /\ pc'[c] # "awaiting" /\ ~Unsent(c)'
  BY <1>1, <1>9, RouteFacts DEF CreateInv, Unsent
<1> QED BY <1>1, <1>2, <1>4, <1>6, <1>7, <1>8, <1>9, <1>10, HandlerStep,
           RouteFacts

LEMMA OpenElectionStep ==
  ASSUME ElectionInv, NEW c \in CreateRequests, OpenElection(c) \/ ClearTies(c)
  PROVE  ElectionInv'
<1>1. PICK s \in {"clearing", "done"} : pc' = [pc EXCEPT ![c] = s]
  BY DEF OpenElection, ClearTies
<1>2. /\ c \in Requests /\ decade[c] \in Decades /\ decade[c] \in Nat
      /\ s \in Step /\ pc[c] \in {"opening", "clearing"}
      /\ decade' = [decade EXCEPT ![c] = decade[c]]
  BY <1>1, RouteFacts, TypeParts, DecadeFacts
     DEF OpenElection, ClearTies, ElectionInv, LocalType, Step
<1>3. /\ UNCHANGED <<chain, history, ballots, transactions, decisions, restarts>>
      /\ UNCHANGED <<ballots_by_decade, votes_by_decade>>
      /\ UNCHANGED <<ballot, resolved, results, status>>
      /\ \/ election_closed' = election_closed
         \/ election_closed' = [d \in Decades |-> FALSE]
      /\ \/ resolved_ties' = resolved_ties
         \/ resolved_ties' = [d \in Decades |-> None]
  BY DEF OpenElection, ClearTies, chain, history
<1>4. ChainType /\ ChainInv /\ ApiType /\ ApiInv /\ HistoryType
  BY TypeParts DEF ElectionInv
<1>5. ChainType' /\ ChainInv' /\ Grows
  BY <1>3, <1>4, ChainUnchanged
<1>6. ApiType' /\ HistoryType'
  BY <1>3, <1>4 DEF ApiType, HistoryType
<1>7. ApiInv'
  BY <1>3, <1>4 DEF ApiInv, ResultsBehindChain, Behind
<1>8. /\ LocalType' /\ pc'[c] = s /\ decade'[c] = decade[c]
      /\ \A q \in Requests : q # c => Idle(q)
  BY <1>1, <1>2, <1>3, ControlStep
<1>9. /\ CreateInv(c)' /\ pc'[c] \in StepsOf(c) /\ decade[c] <= decade'[c]
      /\ pc'[c] # "awaiting" /\ ~Unsent(c)'
  BY <1>1, <1>2, <1>8, RouteFacts DEF CreateInv, Unsent
<1> QED BY <1>2, <1>3, <1>5, <1>6, <1>7, <1>8, <1>9, HandlerStep, RouteFacts

-----------------------------------------------------------------------------
(* close_election and resolve_tie *)

\* A handler that answers for its decade.
LEMMA AnswerStep ==
  ASSUME ElectionInv, NEW r \in CloseRequests \cup Finalizers,
         NEW s \in Statuses, Answer(r, s), s # "Finalized" \/ s = status[r][decade[r]],
         UNCHANGED <<ballots, transactions, resolved, results>>,
         ballot' \in [Finalizers -> DOMAIN ballots \cup {None}],
         \A f \in Finalizers : f # r => ballot'[f] = ballot[f]
  PROVE  /\ LocalType' /\ r \in Requests
         /\ \A q \in Requests : q # r => Idle(q)
         /\ pc'[r] \in StepsOf(r) /\ decade[r] <= decade'[r] /\ pc'[r] # "awaiting"
         /\ Unsent(r)' => decade[r] < decade'[r]
         /\ r \notin CreateRequests /\ r \notin Batches
         /\ r \in Finalizers => FinalizeInv(r)'
<1>1. /\ LocalType /\ r \in Requests /\ r \notin CreateRequests /\ r \notin Batches
      /\ Finalizers \subseteq Requests /\ Finalizers \subseteq CloseRequests \cup Finalizers
      /\ \A q \in {"next", "done"} : q \in StepsOf(r)
  <2>1. CASE r \in CloseRequests
    BY <2>1, TypeParts, RouteFacts DEF ElectionInv
  <2>2. CASE r \in Finalizers
    BY <2>2, TypeParts, RouteFacts DEF ElectionInv
  <2> QED BY <2>1, <2>2
<1>2. /\ pc' \in [Requests -> Step]
      /\ decade' \in [Requests -> Decades]
      /\ status' \in [CloseRequests \cup Finalizers -> [Decades -> Statuses]]
      /\ pc'[r] \in {"next", "done"}
      /\ pc'[r] = "next" => decade[r] < decade'[r]
      /\ decade[r] <= decade'[r]
      /\ \A q \in Requests : q # r => pc'[q] = pc[q] /\ decade'[q] = decade[q]
      /\ \A q \in CloseRequests \cup Finalizers : q # r =>
           status'[q] = status[q]
      /\ \A d \in Decades :
           status'[r][d] = IF d = decade[r] THEN s ELSE status[r][d]
  <2>1. LocalType /\ r \in Requests
    BY <1>1
  <2>2. Answered(r, s)
    BY <2>1, AnswerFacts
  <2> QED BY <2>2 DEF Answered
<1>3. LocalType'
  <2>1. ASSUME NEW f \in Finalizers, pc'[f] \in {"tie", "fetching"}
        PROVE  ballot'[f] # None
    BY <1>1, <1>2, <2>1 DEF LocalType
  <2>2. /\ resolved' \in [Finalizers -> Movies \cup {None}]
        /\ results' \in [Finalizers -> Tally]
    BY <1>1 DEF LocalType
  <2> QED BY <1>2, <2>1, <2>2 DEF LocalType
<1>4. \A q \in Requests : q # r => Idle(q)
  BY <1>1, <1>2 DEF Idle
<1>5. Unsent(r)' => decade[r] < decade'[r]
  BY <1>2 DEF Unsent
<1>6. ASSUME r \in Finalizers PROVE FinalizeInv(r)'
  <2>1. \A d \in Decades : status[r][d] = "Finalized" =>
          <<r, d>> \in DOMAIN transactions /\ transactions[<<r, d>>].state = "landed"
    BY <1>6 DEF ElectionInv, HandlerInv, FinalizeInv
  <2>2. \A d \in Decades : status'[r][d] = "Finalized" =>
          <<r, d>> \in DOMAIN transactions /\ transactions[<<r, d>>].state = "landed"
    BY <1>2, <2>1
  <2> QED BY <1>2, <2>2 DEF FinalizeInv
<1> QED BY <1>1, <1>2, <1>3, <1>4, <1>5, <1>6

LEMMA SendCloseStep ==
  ASSUME ElectionInv, NEW k \in CloseRequests, SendClose(k)
  PROVE  ElectionInv'
<1> DEFINE address == ballots_by_decade[decade[k]]
           tx == Transaction("close_election", address, None, ZeroTally)
<1>1. /\ k \in Requests /\ decade[k] \in Decades /\ decade[k] \in Nat
      /\ pc[k] \in {"new", "next"} /\ LocalType /\ ApiType
  BY RouteFacts, TypeParts, DecadeFacts DEF SendClose, ElectionInv, LocalType
<1>2. UNCHANGED <<ballots, api, history, ballot, resolved, results>>
  BY DEF SendClose
<1>3. CASE address = None
  <2>1. Answer(k, "NoBallot") /\ UNCHANGED transactions /\ "NoBallot" \in Statuses
    BY <1>3 DEF SendClose, Statuses
  <2>2. ballot' \in [Finalizers -> DOMAIN ballots \cup {None}]
    BY <1>1, <1>2 DEF LocalType
  <2>3. /\ LocalType' /\ \A q \in Requests : q # k => Idle(q)
        /\ pc'[k] \in StepsOf(k) /\ decade[k] <= decade'[k] /\ pc'[k] # "awaiting"
        /\ Unsent(k)' => decade[k] < decade'[k]
    BY <1>2, <2>1, <2>2, AnswerStep
  <2>4. UNCHANGED chain
    BY <1>2, <2>1 DEF chain
  <2> QED BY <1>1, <1>2, <2>3, <2>4, QuietStep, HandlerStep, RouteFacts
<1>4. CASE address # None
  <2>1. /\ Send(k, tx) /\ pc' = [pc EXCEPT ![k] = "awaiting"]
        /\ decade' = [decade EXCEPT ![k] = decade[k]]
        /\ status' = status /\ "awaiting" \in Step
    BY <1>1, <1>4 DEF SendClose, Step, LocalType
  <2>2. /\ LocalType' /\ pc'[k] = "awaiting" /\ decade'[k] = decade[k]
        /\ \A q \in Requests : q # k => Idle(q)
    BY <1>1, <1>2, <2>1, ControlStep
  <2>3. Sendable(k, Key(k), tx)
    <3>1. address \in DOMAIN ballots /\ DOMAIN ballots \subseteq Ballots
      BY <1>1, <1>4, TypeParts DEF ApiType, ElectionInv, ChainType
    <3> HIDE DEF address
    <3> QED BY <3>1, RouteFacts, TallyFacts
            DEF Sendable, Transaction, TransactionType
  <2>4. Unsent(k) /\ ~Unsent(k)'
    BY <1>1, <2>2 DEF Unsent
  <2> HIDE DEF tx
  <2>5. /\ ChainType' /\ ChainInv' /\ Grows /\ ApiType' /\ ApiInv' /\ HistoryType'
        /\ DOMAIN transactions' = DOMAIN transactions \cup {Key(k)}
        /\ ballots_by_decade' = ballots_by_decade
    BY <1>1, <1>2, <2>1, <2>3, <2>4, SendStep
  <2>6. pc'[k] \in StepsOf(k) /\ decade[k] <= decade'[k]
    BY <1>1, <2>2, RouteFacts
  <2> QED BY <1>1, <2>2, <2>4, <2>5, <2>6, HandlerStep, RouteFacts
<1> QED BY <1>3, <1>4

LEMMA FinishCloseStep ==
  ASSUME ElectionInv, NEW k \in CloseRequests, FinishClose(k)
  PROVE  ElectionInv'
<1>1. /\ k \in Requests /\ decade[k] \in Decades /\ decade[k] \in Nat
      /\ LocalType /\ ApiType /\ ApiInv /\ ChainType /\ ChainInv /\ HistoryType
  BY RouteFacts, TypeParts, DecadeFacts DEF ElectionInv, LocalType
<1>2. /\ UNCHANGED <<chain, history, ballots, transactions, decisions, restarts>>
      /\ UNCHANGED <<ballots_by_decade, resolved_ties, votes_by_decade>>
      /\ UNCHANGED <<ballot, resolved, results>>
      /\ \/ election_closed' = election_closed
         \/ election_closed' = [election_closed EXCEPT ![decade[k]] = TRUE]
  BY DEF FinishClose, chain, history
<1>3. PICK s \in {"Closed", "Error"} : Answer(k, s)
  BY DEF FinishClose
<1>4. s \in Statuses /\ s # "Finalized"
  BY DEF Statuses
<1>5. ballot' \in [Finalizers -> DOMAIN ballots \cup {None}]
  BY <1>1, <1>2 DEF LocalType
<1>6. /\ LocalType' /\ \A q \in Requests : q # k => Idle(q)
      /\ pc'[k] \in StepsOf(k) /\ decade[k] <= decade'[k] /\ pc'[k] # "awaiting"
      /\ Unsent(k)' => decade[k] < decade'[k]
  BY <1>2, <1>3, <1>4, <1>5, AnswerStep
<1>7. ChainType' /\ ChainInv' /\ Grows
  BY <1>1, <1>2, ChainUnchanged
<1>8. ApiType' /\ HistoryType'
  BY <1>1, <1>2 DEF ApiType, HistoryType
<1>9. ApiInv'
  BY <1>1, <1>2 DEF ApiInv, ResultsBehindChain, Behind
<1> QED BY <1>1, <1>2, <1>6, <1>7, <1>8, <1>9, HandlerStep, RouteFacts

LEMMA ResolveTieStep ==
  ASSUME ElectionInv, NEW q \in ResolveRequests, ResolveTie(q)
  PROVE  ElectionInv'
<1>1. /\ q \in Requests /\ decade[q] \in Decades /\ decade[q] \in Nat
      /\ "done" \in Step /\ pc' = [pc EXCEPT ![q] = "done"]
      /\ decade' = [decade EXCEPT ![q] = decade[q]]
      /\ LocalType /\ ApiType /\ ApiInv /\ ChainType /\ ChainInv /\ HistoryType
  BY RouteFacts, TypeParts, DecadeFacts
     DEF ResolveTie, ElectionInv, LocalType, Step
<1>2. PICK d \in Decades, m \in Movies :
        /\ resolved_ties' = [resolved_ties EXCEPT ![d] = m]
        /\ decisions' = decisions \cup {<<d, m>>}
  BY DEF ResolveTie
<1>3. /\ UNCHANGED <<chain, ballots, transactions, restarts>>
      /\ UNCHANGED <<ballots_by_decade, election_closed, votes_by_decade>>
      /\ UNCHANGED <<ballot, resolved, results, status>>
  BY DEF ResolveTie, chain
<1>4. ChainType' /\ ChainInv' /\ Grows
  BY <1>1, <1>2, <1>3, ChainUnchanged
<1>5. ApiType' /\ HistoryType'
  BY <1>1, <1>2, <1>3 DEF ApiType, HistoryType
<1>6. ApiInv'
  <2>1. \A e \in Decades : resolved_ties'[e] # None =>
          <<e, resolved_ties'[e]>> \in decisions'
    BY <1>1, <1>2 DEF ApiType, ApiInv
  <2> QED BY <1>1, <1>3, <2>1 DEF ApiInv, ResultsBehindChain, Behind
<1>7. /\ LocalType' /\ pc'[q] = "done" /\ decade'[q] = decade[q]
      /\ \A r \in Requests : r # q => Idle(r)
  BY <1>1, <1>3, ControlStep
<1>8. /\ pc'[q] \in StepsOf(q) /\ decade[q] <= decade'[q]
      /\ pc'[q] # "awaiting" /\ ~Unsent(q)'
  BY <1>1, <1>7, RouteFacts DEF Unsent
<1> QED BY <1>1, <1>3, <1>4, <1>5, <1>6, <1>7, <1>8, HandlerStep, RouteFacts

-----------------------------------------------------------------------------
(* finalize_election, finalize_election_for_decade *)

\* What the lemmas about a finalizer start from.
LEMMA FinalizerFacts ==
  ASSUME ElectionInv, NEW f \in Finalizers
  PROVE  /\ f \in Requests /\ f \notin CreateRequests /\ f \notin Batches
         /\ f \in CloseRequests \cup Finalizers
         /\ decade[f] \in Decades /\ decade[f] \in Nat
         /\ LocalType /\ ApiType /\ ApiInv /\ ChainType /\ ChainInv /\ HistoryType
         /\ FinalizeInv(f)
         /\ ballot \in [Finalizers -> DOMAIN ballots \cup {None}]
  BY RouteFacts, TypeParts, DecadeFacts DEF ElectionInv, LocalType, HandlerInv

\* A finalizer that answers without having changed anything else.
LEMMA QuietAnswer ==
  ASSUME ElectionInv, NEW f \in Finalizers, NEW s \in Statuses, s # "Finalized",
         Answer(f, s), UNCHANGED <<chain, api, history, resolved, results>>,
         ballot' \in [Finalizers -> DOMAIN ballots \cup {None}],
         \A g \in Finalizers : g # f => ballot'[g] = ballot[g]
  PROVE  ElectionInv'
<1>1. UNCHANGED <<chain, api, history>> /\ UNCHANGED <<resolved, results>>
      /\ UNCHANGED <<ballots, transactions>>
  BY DEF chain
<1>2. f \in CloseRequests \cup Finalizers
  OBVIOUS
<1>3. /\ LocalType' /\ f \in Requests /\ \A q \in Requests : q # f => Idle(q)
      /\ pc'[f] \in StepsOf(f) /\ decade[f] <= decade'[f] /\ pc'[f] # "awaiting"
      /\ Unsent(f)' => decade[f] < decade'[f]
      /\ f \notin CreateRequests /\ f \notin Batches
      /\ FinalizeInv(f)'
  BY <1>1, <1>2, AnswerStep
<1>4. /\ ChainType' /\ ChainInv' /\ Grows /\ ApiType' /\ ApiInv' /\ HistoryType'
      /\ DOMAIN transactions' = DOMAIN transactions
      /\ ballots_by_decade' = ballots_by_decade
  BY <1>1, QuietStep
<1> QED BY <1>3, <1>4, HandlerStep

LEMMA CheckDecadeStep ==
  ASSUME ElectionInv, NEW f \in Finalizers, CheckDecade(f)
  PROVE  ElectionInv'
<1>1. /\ f \in Requests /\ f \notin CreateRequests /\ f \notin Batches
      /\ decade[f] \in Decades /\ decade[f] \in Nat
      /\ FinalizeInv(f) /\ ballot \in [Finalizers -> DOMAIN ballots \cup {None}]
      /\ pc[f] \in {"new", "next"} /\ LocalType
  BY FinalizerFacts DEF CheckDecade
<1>2. UNCHANGED <<chain, api, history, ballots, ballot, resolved, results>>
  BY DEF CheckDecade, chain
<1>3. CASE \E s \in {"NoBallot", "NotClosed"} : Answer(f, s)
  BY <1>1, <1>2, <1>3, QuietAnswer DEF Statuses
<1>4. CASE pc' = [pc EXCEPT ![f] = "reading"] /\ UNCHANGED <<decade, status>>
  <2>1. "reading" \in Step /\ decade' = [decade EXCEPT ![f] = decade[f]]
    BY <1>1, <1>4 DEF Step, LocalType
  <2>2. /\ LocalType' /\ pc'[f] = "reading" /\ decade'[f] = decade[f]
        /\ \A q \in Requests : q # f => Idle(q)
    BY <1>1, <1>2, <1>4, <2>1, ControlStep
  <2>3. FinalizeInv(f)'
    BY <1>1, <1>2, <1>4, <2>2 DEF FinalizeInv, chain
  <2>4. /\ pc'[f] \in StepsOf(f) /\ decade[f] <= decade'[f]
        /\ pc'[f] # "awaiting" /\ Unsent(f)
    BY <1>1, <2>2, RouteFacts DEF Unsent
  <2> QED BY <1>1, <1>2, <2>2, <2>3, <2>4, QuietStep, HandlerStep
<1> QED BY <1>3, <1>4 DEF CheckDecade

LEMMA ReadBallotStep ==
  ASSUME ElectionInv, NEW f \in Finalizers, ReadBallot(f)
  PROVE  ElectionInv'
<1> DEFINE address == ballots_by_decade[decade[f]]
<1>1. /\ f \in Requests /\ f \notin CreateRequests /\ f \notin Batches
      /\ decade[f] \in Decades /\ decade[f] \in Nat
      /\ FinalizeInv(f) /\ ballot \in [Finalizers -> DOMAIN ballots \cup {None}]
      /\ pc[f] \in {"new", "reading"} /\ LocalType /\ ApiType /\ ApiInv
  BY FinalizerFacts DEF ReadBallot
<1>2. /\ UNCHANGED <<chain, api, history, resolved, results>>
      /\ UNCHANGED <<ballots, transactions>>
      /\ ballot' = [ballot EXCEPT ![f] = address]
  BY DEF ReadBallot, chain
<1>3. address \in DOMAIN ballots \cup {None} /\ (address # None =>
        address[2] = decade[f])
  BY <1>1 DEF ApiType, ApiInv
<1> HIDE DEF address
<1>4. /\ ballot' \in [Finalizers -> DOMAIN ballots \cup {None}]
      /\ ballot'[f] = address
      /\ \A g \in Finalizers : g # f => ballot'[g] = ballot[g]
  BY <1>1, <1>2, <1>3
<1>5. CASE address = None
  <2>1. Answer(f, "NoBallot") /\ "NoBallot" \in Statuses
    BY <1>5 DEF ReadBallot, Statuses, address
  <2> QED BY <1>2, <1>4, <2>1, QuietAnswer
<1>6. CASE address # None
  <2>1. pc' = [pc EXCEPT ![f] = "tie"] /\ UNCHANGED <<decade, status>>
    BY <1>6 DEF ReadBallot, address
  <2>2. /\ pc' \in [Requests -> Step] /\ pc'[f] = "tie"
        /\ \A q \in Requests : q # f => pc'[q] = pc[q]
    BY <1>1, <2>1 DEF LocalType, Step
  <2>3. Finalizers \subseteq Requests
    BY RouteFacts
  <2>4. LocalType'
    BY <1>1, <1>2, <1>4, <1>6, <2>1, <2>2, <2>3 DEF LocalType
  <2>5. \A q \in Requests : q # f => Idle(q)
    BY <1>2, <1>4, <2>1, <2>2 DEF Idle
  <2>6. FinalizeInv(f)'
    BY <1>1, <1>2, <1>3, <1>4, <1>6, <2>1, <2>2 DEF FinalizeInv
  <2>7. /\ pc'[f] \in StepsOf(f) /\ decade[f] <= decade'[f]
        /\ pc'[f] # "awaiting" /\ Unsent(f)
    BY <1>1, <2>1, <2>2, RouteFacts DEF Unsent
  <2> QED BY <1>1, <1>2, <2>4, <2>5, <2>6, <2>7, QuietStep, HandlerStep
<1> QED BY <1>5, <1>6

LEMMA ReadResolvedTieStep ==
  ASSUME ElectionInv, NEW f \in Finalizers, ReadResolvedTie(f)
  PROVE  ElectionInv'
<1> DEFINE choice == resolved_ties[decade[f]]
<1>1. /\ f \in Requests /\ f \notin CreateRequests /\ f \notin Batches
      /\ decade[f] \in Decades /\ decade[f] \in Nat
      /\ FinalizeInv(f) /\ pc[f] = "tie" /\ LocalType /\ ApiType /\ ApiInv
  BY FinalizerFacts DEF ReadResolvedTie
<1>2. /\ UNCHANGED <<chain, api, history>>
      /\ UNCHANGED <<decade, ballot, results, status>>
      /\ UNCHANGED <<ballots, transactions, decisions>>
      /\ resolved' = [resolved EXCEPT ![f] = choice]
      /\ pc' = [pc EXCEPT ![f] = "fetching"]
  BY DEF ReadResolvedTie, chain, history
<1>3. /\ choice \in Movies \cup {None}
      /\ choice # None => <<decade[f], choice>> \in decisions
  BY <1>1 DEF ApiType, ApiInv
<1> HIDE DEF choice
<1>4. /\ pc' \in [Requests -> Step] /\ pc'[f] = "fetching"
      /\ \A q \in Requests : q # f => pc'[q] = pc[q]
      /\ resolved' \in [Finalizers -> Movies \cup {None}] /\ resolved'[f] = choice
      /\ \A g \in Finalizers : g # f => resolved'[g] = resolved[g]
  BY <1>1, <1>2, <1>3 DEF LocalType, Step
<1>5. Finalizers \subseteq Requests
  BY RouteFacts
<1>6. LocalType'
  BY <1>1, <1>2, <1>4, <1>5 DEF LocalType
<1>7. \A q \in Requests : q # f => Idle(q)
  BY <1>2, <1>4 DEF Idle
<1>8. FinalizeInv(f)'
  BY <1>1, <1>2, <1>3, <1>4 DEF FinalizeInv
<1>9. /\ pc'[f] \in StepsOf(f) /\ decade[f] <= decade'[f]
      /\ pc'[f] # "awaiting" /\ Unsent(f)
  BY <1>1, <1>2, <1>4, RouteFacts DEF Unsent
<1> QED BY <1>1, <1>2, <1>6, <1>7, <1>8, <1>9, QuietStep, HandlerStep

\* A finalizer that keeps the results it has fetched.
LEMMA FetchedFacts ==
  ASSUME ElectionInv, NEW f \in Finalizers, pc[f] = "fetching",
         results' = [results EXCEPT ![f] = ballots[ballot[f]].encrypted_tally],
         UNCHANGED <<ballots, decade, ballot, resolved>>,
         NEW s \in {"awaiting", "saving", "done"}, pc' = [pc EXCEPT ![f] = s],
         status' \in [CloseRequests \cup Finalizers -> [Decades -> Statuses]],
         \A g \in Finalizers : g # f => status'[g] = status[g]
  PROVE  /\ LocalType' /\ pc'[f] = s
         /\ \A q \in Requests : q # f => Idle(q)
         /\ pc'[f] \in StepsOf(f) /\ ~Unsent(f)' /\ Unsent(f)
         /\ ballot[f] \in DOMAIN ballots /\ ballot'[f] = ballot[f]
         /\ ballot[f][2] = decade[f] /\ decade'[f] = decade[f]
         /\ ballots[ballot[f]].encrypted_tally \in Tally
         /\ \A m \in Movies :
              results'[f][m + 1] <= ballots[ballot[f]].encrypted_tally[m + 1]
         /\ results'[f] = ballots[ballot[f]].encrypted_tally
<1> DEFINE tally == ballots[ballot[f]].encrypted_tally
<1>1. /\ f \in Requests /\ FinalizeInv(f) /\ LocalType /\ ChainType
  BY FinalizerFacts
<1>2. ballot[f] \in DOMAIN ballots /\ ballot[f][2] = decade[f] /\ tally \in Tally
  BY <1>1 DEF FinalizeInv, ChainType, AccountOK
<1>3. \A m \in Movies : tally[m + 1] \in Nat
  BY <1>2, TallyFacts
<1> HIDE DEF tally
<1>4. /\ pc' \in [Requests -> Step] /\ pc'[f] = s
      /\ \A q \in Requests : q # f => pc'[q] = pc[q]
      /\ results' \in [Finalizers -> Tally] /\ results'[f] = tally
      /\ \A g \in Finalizers : g # f => results'[g] = results[g]
  BY <1>1, <1>2 DEF LocalType, Step, tally
<1>5. Finalizers \subseteq Requests
  BY RouteFacts
<1>6. LocalType'
  BY <1>1, <1>4, <1>5 DEF LocalType
<1>7. \A q \in Requests : q # f => Idle(q)
  BY <1>4 DEF Idle
<1>8. pc'[f] \in StepsOf(f) /\ ~Unsent(f)' /\ Unsent(f)
  BY <1>4, RouteFacts DEF Unsent
<1> QED BY <1>2, <1>3, <1>4, <1>6, <1>7, <1>8 DEF tally

LEMMA FetchTallyStep ==
  ASSUME ElectionInv, NEW f \in Finalizers, FetchTally(f)
  PROVE  ElectionInv'
<1> DEFINE tally == ballots[ballot[f]].encrypted_tally
<1>1. /\ f \in Requests /\ f \notin CreateRequests /\ f \notin Batches
      /\ decade[f] \in Decades /\ decade[f] \in Nat
      /\ FinalizeInv(f) /\ pc[f] = "fetching" /\ LocalType /\ ChainType
  BY FinalizerFacts DEF FetchTally
<1>2. PICK winner \in FinalWinner(tally, resolved[f]) :
        Send(f, Transaction("set_final_winner", ballot[f], winner, tally))
  BY DEF FetchTally
<1>3. /\ UNCHANGED <<ballots, api, history, decade, ballot, resolved, status>>
      /\ results' = [results EXCEPT ![f] = tally]
      /\ pc' = [pc EXCEPT ![f] = "awaiting"]
  BY DEF FetchTally
<1>4. /\ status' \in [CloseRequests \cup Finalizers -> [Decades -> Statuses]]
      /\ \A g \in Finalizers : g # f => status'[g] = status[g]
  BY <1>1, <1>3 DEF LocalType
<1>5. /\ LocalType' /\ pc'[f] = "awaiting"
      /\ \A q \in Requests : q # f => Idle(q)
      /\ pc'[f] \in StepsOf(f) /\ ~Unsent(f)' /\ Unsent(f)
      /\ ballot[f] \in DOMAIN ballots /\ ballot'[f] = ballot[f]
      /\ ballot[f][2] = decade[f] /\ decade'[f] = decade[f]
      /\ tally \in Tally
      /\ \A m \in Movies : results'[f][m + 1] <= tally[m + 1]
      /\ results'[f] = tally
  BY <1>1, <1>3, <1>4, FetchedFacts
<1> DEFINE tx == Transaction("set_final_winner", ballot[f], winner, tally)
<1>6. Sendable(f, Key(f), tx)
  <2>1. /\ winner \in Leaders(tally) /\ ~NoVotes(tally) /\ winner \in Movies
        /\ Leaders(tally) = {winner} \/ resolved[f] = winner
    BY <1>2 DEF FinalWinner, Leaders
  <2>2. Leaders(tally) = {winner} \/ <<ballot[f][2], winner>> \in decisions
    BY <1>1, <1>5, <2>1, TallyFacts DEF FinalizeInv
  <2>3. Behind(tally, ballot[f])
    BY <1>5, TallyFacts DEF Behind
  <2>4. ballot[f] \in Ballots
    BY <1>1, <1>5 DEF ChainType
  <2> HIDE DEF tally
  <2>5. /\ tx.instruction = "set_final_winner" /\ tx.ballot = ballot[f]
        /\ tx.winner = winner /\ tx.tally = tally /\ tx.state = "sent"
        /\ tx \in TransactionType
    BY <1>5, <2>1, <2>4 DEF Transaction, TransactionType
  <2> HIDE DEF tx
  <2> QED BY <1>5, <2>1, <2>2, <2>3, <2>5, RouteFacts DEF Sendable
<1>7. Send(f, tx)
  BY <1>2
<1> HIDE DEF tx, tally
<1>8. /\ ChainType' /\ ChainInv' /\ Grows /\ ApiType' /\ ApiInv' /\ HistoryType'
      /\ DOMAIN transactions' = DOMAIN transactions \cup {Key(f)}
      /\ ballots_by_decade' = ballots_by_decade
  BY <1>1, <1>3, <1>5, <1>6, <1>7, SendStep
<1>9. FinalizeInv(f)'
  <2>1. Behind(results[f], ballot[f])'
    BY <1>3, <1>5 DEF Behind, tally
  <2>2. \A d \in Decades : status'[f][d] = "Finalized" =>
          <<f, d>> \in DOMAIN transactions' /\ transactions'[<<f, d>>].state = "landed"
    BY <1>1, <1>3, <1>8 DEF FinalizeInv, Grows, TransactionGrows
  <2> QED BY <1>3, <1>5, <2>1, <2>2 DEF FinalizeInv
<1>10. decade[f] <= decade'[f]
  BY <1>1, <1>5
<1> QED BY <1>1, <1>5, <1>8, <1>9, <1>10, HandlerStep

LEMMA FetchUndecidedStep ==
  ASSUME ElectionInv, NEW f \in Finalizers, FetchUndecided(f)
  PROVE  ElectionInv'
<1> DEFINE tally == ballots[ballot[f]].encrypted_tally
           s == Undecided(tally, resolved[f])
<1>1. /\ f \in Requests /\ f \notin CreateRequests /\ f \notin Batches
      /\ decade[f] \in Decades /\ decade[f] \in Nat
      /\ FinalizeInv(f) /\ pc[f] = "fetching" /\ LocalType
  BY FinalizerFacts DEF FetchUndecided
<1>2. /\ UNCHANGED <<chain, api, history>>
      /\ UNCHANGED <<ballots, decade, ballot, resolved>>
      /\ results' = [results EXCEPT ![f] = tally]
      /\ status' = [status EXCEPT ![f] = [status[f] EXCEPT ![decade[f]] = s]]
  BY DEF FetchUndecided, chain
<1>3. PICK n \in {"saving", "done"} : pc' = [pc EXCEPT ![f] = n]
  BY DEF FetchUndecided, NextAfterResults
<1>4. s \in Statuses /\ s # "Finalized"
  BY DEF Undecided, Statuses
<1> HIDE DEF s
<1>5. /\ status' \in [CloseRequests \cup Finalizers -> [Decades -> Statuses]]
      /\ \A g \in Finalizers : g # f => status'[g] = status[g]
      /\ \A d \in Decades :
           status'[f][d] = IF d = decade[f] THEN s ELSE status[f][d]
  BY <1>1, <1>2, <1>4 DEF LocalType
<1>6. n \in {"awaiting", "saving", "done"}
  BY <1>3
<1>7. /\ LocalType' /\ pc'[f] = n
      /\ \A q \in Requests : q # f => Idle(q)
      /\ pc'[f] \in StepsOf(f) /\ ~Unsent(f)'
      /\ ballot[f] \in DOMAIN ballots /\ ballot'[f] = ballot[f]
      /\ ballot[f][2] = decade[f] /\ decade'[f] = decade[f]
      /\ \A m \in Movies : results'[f][m + 1] <= tally[m + 1]
  BY <1>1, <1>2, <1>3, <1>5, <1>6, FetchedFacts
<1>8. FinalizeInv(f)'
  <2>1. Behind(results[f], ballot[f])'
    BY <1>2, <1>7 DEF Behind
  <2>2. \A d \in Decades : status'[f][d] = "Finalized" =>
          <<f, d>> \in DOMAIN transactions /\ transactions[<<f, d>>].state = "landed"
    BY <1>1, <1>4, <1>5 DEF FinalizeInv
  <2>3. transactions' = transactions
    BY <1>2 DEF chain
  <2> QED BY <1>2, <1>3, <1>7, <2>1, <2>2, <2>3 DEF FinalizeInv
<1>9. decade[f] <= decade'[f] /\ pc'[f] # "awaiting"
  BY <1>1, <1>3, <1>7
<1> QED BY <1>1, <1>2, <1>7, <1>8, <1>9, QuietStep, HandlerStep

LEMMA FetchFailsStep ==
  ASSUME ElectionInv, NEW f \in Finalizers, FetchFails(f)
  PROVE  ElectionInv'
<1>1. /\ Answer(f, "Error") /\ "Error" \in Statuses
      /\ UNCHANGED <<chain, api, history, resolved, results>>
      /\ UNCHANGED ballot
  BY DEF FetchFails, Statuses
<1>2. ballot' \in [Finalizers -> DOMAIN ballots \cup {None}]
  BY <1>1, FinalizerFacts
<1> QED BY <1>1, <1>2, QuietAnswer

LEMMA FinishFinalizeStep ==
  ASSUME ElectionInv, NEW f \in Finalizers, FinishFinalize(f)
  PROVE  ElectionInv'
<1>1. /\ f \in Requests /\ f \notin CreateRequests /\ f \notin Batches
      /\ decade[f] \in Decades /\ decade[f] \in Nat
      /\ FinalizeInv(f) /\ pc[f] = "awaiting" /\ LocalType
      /\ Key(f) \in DOMAIN transactions
      /\ ballot \in [Finalizers -> DOMAIN ballots \cup {None}]
  BY FinalizerFacts DEF FinishFinalize, ElectionInv, AwaitsTransaction
<1>2. /\ UNCHANGED <<chain, api, history, resolved, results>>
      /\ UNCHANGED <<ballots, transactions, ballot>>
  BY DEF FinishFinalize, chain
<1>3. CASE Answer(f, "Error")
  <2>1. "Error" \in Statuses
    BY DEF Statuses
  <2> QED BY <1>1, <1>2, <1>3, <2>1, QuietAnswer
<1>4. CASE /\ WinnerConfirmed(f)
           /\ status' = [status EXCEPT ![f] = [status[f] EXCEPT ![decade[f]] = "Finalized"]]
           /\ pc' = [pc EXCEPT ![f] = NextAfterResults(f)]
           /\ UNCHANGED decade
  <2>1. PICK n \in {"saving", "done"} : pc' = [pc EXCEPT ![f] = n]
    BY <1>4 DEF NextAfterResults
  <2>2. /\ status' \in [CloseRequests \cup Finalizers -> [Decades -> Statuses]]
        /\ \A g \in Finalizers : g # f => status'[g] = status[g]
        /\ \A d \in Decades :
             status'[f][d] = IF d = decade[f] THEN "Finalized" ELSE status[f][d]
    BY <1>1, <1>4 DEF LocalType, Statuses
  <2>3. /\ pc' \in [Requests -> Step] /\ pc'[f] = n
        /\ \A q \in Requests : q # f => pc'[q] = pc[q]
    BY <1>1, <2>1 DEF LocalType, Step
  <2>4. Finalizers \subseteq Requests
    BY RouteFacts
  <2>5. LocalType'
    BY <1>1, <1>2, <1>4, <2>1, <2>2, <2>3, <2>4 DEF LocalType
  <2>6. \A q \in Requests : q # f => Idle(q)
    BY <1>2, <1>4, <2>2, <2>3 DEF Idle
  <2>7. transactions[<<f, decade[f]>>].state = "landed" /\ <<f, decade[f]>> \in DOMAIN transactions
    BY <1>1, <1>4 DEF WinnerConfirmed, State, Key
  <2>8. FinalizeInv(f)'
    <3>1. Behind(results[f], ballot[f])'
      BY <1>1, <1>2 DEF FinalizeInv, Behind
    <3>2. \A d \in Decades : status'[f][d] = "Finalized" =>
            <<f, d>> \in DOMAIN transactions /\ transactions[<<f, d>>].state = "landed"
      BY <1>1, <2>2, <2>7 DEF FinalizeInv
    <3> QED BY <1>1, <1>2, <1>4, <2>1, <2>3, <3>1, <3>2 DEF FinalizeInv
  <2>9. /\ pc'[f] \in StepsOf(f) /\ decade[f] <= decade'[f]
        /\ pc'[f] # "awaiting" /\ ~Unsent(f)'
    BY <1>1, <1>4, <2>1, <2>3, RouteFacts DEF Unsent
  <2> QED BY <1>1, <1>2, <2>5, <2>6, <2>8, <2>9, QuietStep, HandlerStep
<1> QED BY <1>3, <1>4 DEF FinishFinalize

LEMMA SaveResultsStep ==
  ASSUME ElectionInv, NEW f \in Finalizers, SaveResults(f)
  PROVE  ElectionInv'
<1>1. /\ f \in Requests /\ f \in CloseRequests \cup Finalizers
      /\ decade[f] \in Decades
      /\ FinalizeInv(f) /\ pc[f] = "saving"
      /\ LocalType /\ ApiType /\ ApiInv /\ ChainType /\ ChainInv /\ HistoryType
      /\ ballot \in [Finalizers -> DOMAIN ballots \cup {None}]
  BY FinalizerFacts DEF SaveResults
<1>2. /\ UNCHANGED <<chain, history, ballots, transactions, decisions, restarts>>
      /\ UNCHANGED <<ballots_by_decade, election_closed, resolved_ties>>
      /\ UNCHANGED <<ballot, resolved, results>>
      /\ votes_by_decade' = [votes_by_decade EXCEPT ![decade[f]] = results[f]]
      /\ Answer(f, status[f][decade[f]])
  BY DEF SaveResults, chain, history
<1>3. PICK s \in Statuses : s = status[f][decade[f]]
  BY <1>1 DEF LocalType
<1>4. /\ LocalType' /\ \A q \in Requests : q # f => Idle(q)
      /\ pc'[f] \in StepsOf(f) /\ decade[f] <= decade'[f] /\ pc'[f] # "awaiting"
      /\ Unsent(f)' => decade[f] < decade'[f]
      /\ f \notin CreateRequests /\ f \notin Batches
      /\ FinalizeInv(f)'
  BY <1>1, <1>2, <1>3, AnswerStep
<1>5. ChainType' /\ ChainInv' /\ Grows
  BY <1>1, <1>2, ChainUnchanged
<1>6. results[f] \in Tally /\ Behind(results[f], ballot[f])
      /\ ballot[f] \in DOMAIN ballots /\ ballot[f][2] = decade[f]
  BY <1>1 DEF LocalType, FinalizeInv
<1>7. ApiType' /\ HistoryType'
  BY <1>1, <1>2, <1>6 DEF ApiType, HistoryType
<1>8. ResultsBehindChain'
  <2>1. ASSUME NEW d \in Decades, votes_by_decade'[d] # ZeroTally
        PROVE  \E b \in DOMAIN ballots : b[2] = d /\ Behind(votes_by_decade'[d], b)
    <3>1. CASE d = decade[f]
      <4>1. votes_by_decade'[d] = results[f]
        BY <1>1, <1>2, <3>1 DEF ApiType
      <4> QED BY <4>1, <1>6, <3>1
    <3>2. CASE d # decade[f]
      <4>1. votes_by_decade'[d] = votes_by_decade[d]
        BY <1>1, <1>2, <3>2 DEF ApiType
      <4> QED BY <4>1, <1>1, <2>1 DEF ApiInv, ResultsBehindChain
    <3> QED BY <3>1, <3>2
  <2> QED BY <2>1, <1>2 DEF ResultsBehindChain, Behind
<1>9. ApiInv'
  BY <1>1, <1>2, <1>8 DEF ApiInv
<1> QED BY <1>1, <1>2, <1>4, <1>5, <1>7, <1>9, HandlerStep

-----------------------------------------------------------------------------
(* Batches, the chain and restarts *)

LEMMA AcceptVotesStep ==
  ASSUME ElectionInv, NEW p \in Batches, AcceptVotes(p)
  PROVE  ElectionInv'
<1>1. /\ p \in Requests /\ decade[p] \in Decades /\ decade[p] \in Nat
      /\ "queued" \in Step /\ pc' = [pc EXCEPT ![p] = "queued"]
      /\ decade' = [decade EXCEPT ![p] = decade[p]]
      /\ pc[p] = "new" /\ ballots_by_decade[decade[p]] # None
  BY RouteFacts, TypeParts, DecadeFacts
     DEF AcceptVotes, ElectionInv, LocalType, Step
<1>2. /\ UNCHANGED <<chain, api, history>>
      /\ UNCHANGED <<ballots, ballot, resolved, results, status>>
  BY DEF AcceptVotes, chain
<1>3. /\ LocalType' /\ pc'[p] = "queued" /\ decade'[p] = decade[p]
      /\ \A q \in Requests : q # p => Idle(q)
  BY <1>1, <1>2, ControlStep
<1>4. /\ pc'[p] \in StepsOf(p) /\ decade[p] <= decade'[p]
      /\ pc'[p] # "awaiting" /\ Unsent(p)
  BY <1>1, <1>3, RouteFacts DEF Unsent
<1>5. /\ ChainType' /\ ChainInv' /\ Grows /\ ApiType' /\ ApiInv' /\ HistoryType'
      /\ DOMAIN transactions' = DOMAIN transactions
      /\ ballots_by_decade' = ballots_by_decade
  BY <1>2, QuietStep
<1> QED BY <1>1, <1>3, <1>4, <1>5, HandlerStep, RouteFacts

LEMMA SendRollupStep ==
  ASSUME ElectionInv, NEW p \in Batches, SendRollup(p)
  PROVE  ElectionInv'
<1> DEFINE address == ballots_by_decade[decade[p]]
           tx == Transaction("submit_rollup_batch", address, None, tally_of[p])
<1>1. /\ p \in Requests /\ decade[p] \in Decades /\ decade[p] \in Nat
      /\ "done" \in Step /\ pc' = [pc EXCEPT ![p] = "done"]
      /\ decade' = [decade EXCEPT ![p] = decade[p]]
      /\ pc[p] = "queued" /\ Send(p, tx) /\ ApiType
  BY RouteFacts, TypeParts, DecadeFacts
     DEF SendRollup, ElectionInv, LocalType, Step
<1>2. UNCHANGED <<ballots, api, history, ballot, resolved, results, status>>
  BY DEF SendRollup
<1>3. /\ LocalType' /\ pc'[p] = "done" /\ decade'[p] = decade[p]
      /\ \A q \in Requests : q # p => Idle(q)
  BY <1>1, <1>2, ControlStep
<1>4. Sendable(p, Key(p), tx)
  <2>1. address # None
    BY <1>1 DEF ElectionInv, HandlerInv
  <2>2. address \in DOMAIN ballots /\ DOMAIN ballots \subseteq Ballots
    BY <1>1, <2>1, TypeParts DEF ApiType, ElectionInv, ChainType
  <2>3. tally_of[p] \in Tally
    BY ElectionAssumption DEF ElectionAssumption, Tally
  <2> HIDE DEF address
  <2> QED BY <2>2, <2>3, RouteFacts DEF Sendable, Transaction, TransactionType
<1>5. /\ Unsent(p) /\ ~Unsent(p)' /\ pc'[p] \in StepsOf(p)
      /\ decade[p] <= decade'[p]
  BY <1>1, <1>3, RouteFacts DEF Unsent
<1> HIDE DEF tx
<1>6. /\ ChainType' /\ ChainInv' /\ Grows /\ ApiType' /\ ApiInv' /\ HistoryType'
      /\ DOMAIN transactions' = DOMAIN transactions \cup {Key(p)}
      /\ ballots_by_decade' = ballots_by_decade
  BY <1>1, <1>2, <1>4, <1>5, SendStep
<1> QED BY <1>1, <1>3, <1>5, <1>6, HandlerStep, RouteFacts

LEMMA ExecuteStep ==
  ASSUME ElectionInv, NEW t \in DOMAIN transactions, Execute(t)
  PROVE  ElectionInv'
<1>1. /\ UNCHANGED api /\ UNCHANGED <<restarts, decisions, ballots_by_decade>>
      /\ UNCHANGED <<pc, decade, ballot, resolved, results, status>>
  BY DEF Execute, api, locals, history
<1>2. /\ LocalType /\ ApiType /\ ApiInv /\ ChainType /\ ChainInv /\ HistoryType
      /\ CallsInOrder /\ AwaitsTransaction /\ HandlerInv
  BY TypeParts DEF ElectionInv
<1>3. /\ ChainType' /\ ChainInv' /\ Grows
      /\ DOMAIN transactions' = DOMAIN transactions
  BY <1>2, ExecuteKeepsChain
<1>4. ApiType' /\ ApiInv'
  BY <1>1, <1>2, <1>3, ApiKept
<1>5. LocalType' /\ HistoryType'
  <2>1. DOMAIN ballots \subseteq DOMAIN ballots'
    BY <1>3 DEF Grows
  <2> QED BY <1>1, <1>2, <2>1 DEF LocalType, HistoryType
<1>6. CallsInOrder' /\ AwaitsTransaction'
  BY <1>1, <1>2, <1>3 DEF CallsInOrder, AwaitsTransaction, Key, Unsent
<1>7. HandlerInv'
  <2>1. \A q \in Requests : Idle(q)
    BY <1>1 DEF Idle
  <2>2. \A c \in CreateRequests : CreateInv(c)'
    BY <1>2, <1>3, <2>1, IdleKept, RouteFacts DEF HandlerInv
  <2>3. \A f \in Finalizers : FinalizeInv(f)'
    BY <1>2, <1>3, <2>1, IdleKept, RouteFacts DEF HandlerInv
  <2> QED BY <1>1, <1>2, <2>2, <2>3 DEF HandlerInv
<1> QED BY <1>3, <1>4, <1>5, <1>6, <1>7, TypeParts DEF ElectionInv

LEMMA RestartStep ==
  ASSUME ElectionInv, Restart
  PROVE  ElectionInv'
<1>1. /\ UNCHANGED <<chain, ballots, transactions, decisions>>
      /\ UNCHANGED <<decade, ballot, resolved, results, status>>
      /\ restarts < MaxRestarts /\ restarts' = restarts + 1
      /\ ballots_by_decade' = [d \in Decades |-> None]
      /\ election_closed' = [d \in Decades |-> FALSE]
      /\ resolved_ties' = [d \in Decades |-> None]
      /\ votes_by_decade' = [d \in Decades |-> ZeroTally]
      /\ pc' = [r \in Requests |-> IF pc[r] = "new" THEN "new" ELSE "done"]
  BY DEF Restart, chain
<1>2. /\ LocalType /\ ApiType /\ ApiInv /\ ChainType /\ ChainInv /\ HistoryType
      /\ CallsInOrder /\ AwaitsTransaction /\ HandlerInv
  BY TypeParts DEF ElectionInv
<1>3. ChainType' /\ ChainInv' /\ Grows
  BY <1>1, <1>2, ChainUnchanged
<1>4. ApiType' /\ HistoryType'
  BY <1>1, <1>2, TallyFacts, ElectionAssumption
     DEF ApiType, HistoryType, ElectionAssumption
<1>5. ApiInv'
  BY <1>1 DEF ApiInv, ResultsBehindChain
<1>6. Finalizers \subseteq Requests
  BY RouteFacts
<1>7. /\ pc' \in [Requests -> Step]
      /\ \A r \in Requests : \/ pc'[r] = "new" /\ pc[r] = "new"
                             \/ pc'[r] = "done"
  BY <1>1 DEF Step
<1>8. LocalType'
  BY <1>1, <1>2, <1>6, <1>7 DEF LocalType
<1>9. CallsInOrder'
  <2>1. \A t \in DOMAIN transactions : t[1] \in Requests
    BY <1>2, TransactionTyped
  <2> QED BY <1>1, <1>2, <1>7, <2>1 DEF CallsInOrder, Unsent
<1>10. AwaitsTransaction'
  BY <1>7 DEF AwaitsTransaction
<1>11. HandlerInv'
  <2>1. \A r \in Requests : pc'[r] \in StepsOf(r)
    BY <1>7 DEF StepsOf
  <2>2. ASSUME NEW c \in CreateRequests PROVE CreateInv(c)'
    BY <1>1, <1>2, <1>7, RouteFacts DEF HandlerInv, CreateInv
  <2>3. ASSUME NEW f \in Finalizers PROVE FinalizeInv(f)'
    BY <1>1, <1>2, <1>6, <1>7 DEF HandlerInv, FinalizeInv
  <2>4. \A p \in Batches : pc'[p] # "queued"
    BY <1>7, RouteFacts
  <2> QED BY <2>1, <2>2, <2>3, <2>4 DEF HandlerInv, StepsOf
<1> QED BY <1>3, <1>4, <1>5, <1>8, <1>9, <1>10, <1>11, TypeParts DEF ElectionInv

-----------------------------------------------------------------------------
(* The theorems *)

LEMMA InitElection ==
  ASSUME Init
  PROVE  ElectionInv
<1>1. ChainType /\ ChainInv /\ CallsInOrder
  BY DEF Init, ChainType, ChainInv, CallsInOrder
<1>2. ApiType /\ HistoryType /\ ApiInv
  BY TallyFacts, ElectionAssumption
     DEF Init, ApiType, HistoryType, ApiInv, ResultsBehindChain, ElectionAssumption
<1>3. LocalType
  <2>1. decade \in [Requests -> Decades]
    BY DecadeFacts, ElectionAssumption DEF Init, ElectionAssumption
  <2>2. pc \in [Requests -> Step] /\ \A r \in Requests : pc[r] = "new"
    BY DEF Init, Step
  <2>3. /\ ballot \in [Finalizers -> DOMAIN ballots \cup {None}]
        /\ resolved \in [Finalizers -> Movies \cup {None}]
        /\ results \in [Finalizers -> Tally]
    BY TallyFacts DEF Init
  <2>4. status \in [CloseRequests \cup Finalizers -> [Decades -> Statuses]]
    BY DEF Init, Statuses
  <2>5. Finalizers \subseteq Requests
    BY RouteFacts
  <2> QED BY <2>1, <2>2, <2>3, <2>4, <2>5 DEF LocalType
<1>4. AwaitsTransaction
  BY DEF Init, AwaitsTransaction
<1>5. HandlerInv
  <2>1. \A r \in Requests : pc[r] = "new"
    BY DEF Init
  <2>2. \A r \in Requests : pc[r] \in StepsOf(r)
    BY <2>1 DEF StepsOf
  <2>3. ASSUME NEW c \in CreateRequests PROVE CreateInv(c)
    <3>1. decade[c] = 0 /\ pc[c] = "new"
      BY RouteFacts DEF Init, Finalizers
    <3> QED BY <3>1, DecadeFacts DEF CreateInv
  <2>4. ASSUME NEW f \in Finalizers PROVE FinalizeInv(f)
    BY <2>1, RouteFacts DEF Init, FinalizeInv
  <2>5. \A p \in Batches : pc[p] # "queued"
    BY <2>1, RouteFacts
  <2> QED BY <2>2, <2>3, <2>4, <2>5 DEF HandlerInv
<1> QED BY <1>1, <1>2, <1>3, <1>4, <1>5, TypeParts DEF ElectionInv

LEMMA StutterElection ==
  ASSUME ElectionInv, UNCHANGED vars
  PROVE  ElectionInv'
<1>1. /\ UNCHANGED <<ballots, transactions, ballots_by_decade, election_closed>>
      /\ UNCHANGED <<resolved_ties, votes_by_decade, pc, decade, ballot>>
      /\ UNCHANGED <<resolved, results, status, restarts, decisions>>
  BY DEF vars, chain, api, locals, history
<1>2. TypeOK' <=> TypeOK
  BY <1>1 DEF TypeOK
<1>3. ChainInv' <=> ChainInv
  BY <1>1 DEF ChainInv, ProperTransaction, ProperWinner, ProperBallot, Winning,
     Behind
<1>4. CallsInOrder' /\ AwaitsTransaction'
  BY <1>1 DEF ElectionInv, CallsInOrder, AwaitsTransaction, Key, Unsent
<1>5. HandlerInv' <=> HandlerInv
  BY <1>1 DEF HandlerInv, CreateInv, FinalizeInv, Behind
<1>6. ApiInv' <=> ApiInv
  BY <1>1 DEF ApiInv, ResultsBehindChain, Behind
<1> QED BY <1>2, <1>3, <1>4, <1>5, <1>6 DEF ElectionInv

(* The inductive invariant of the election holds for any requests, running *)
(* concurrently, and any restarts: transactions are what their handlers    *)
(* decided, accounts are finalized by such transactions only, and every    *)
(* handler relies on what still holds when it acts (handler.rs:763-1140,   *)
(* blockchain.rs:75-290).                                                  *)
THEOREM ElectionCorrect == Spec => []ElectionInv
<1>1. Init => ElectionInv
  BY InitElection
<1>2. ElectionInv /\ [Next]_vars => ElectionInv'
  <2> SUFFICES ASSUME ElectionInv, [Next]_vars PROVE ElectionInv'
    OBVIOUS
  <2>1. ASSUME NEW c \in CreateRequests, Create(c) PROVE ElectionInv'
    BY <2>1, CheckBallotsStep, SendInitializeStep, FinishInitializeStep,
       StoreBallotsStep, OpenElectionStep DEF Create
  <2>2. ASSUME NEW k \in CloseRequests, Close(k) PROVE ElectionInv'
    BY <2>2, SendCloseStep, FinishCloseStep DEF Close
  <2>3. ASSUME NEW q \in ResolveRequests, ResolveTie(q) PROVE ElectionInv'
    BY <2>3, ResolveTieStep
  <2>4. ASSUME NEW f \in Finalizers, Finalize(f) PROVE ElectionInv'
    BY <2>4, CheckDecadeStep, ReadBallotStep, ReadResolvedTieStep,
       FetchTallyStep,
       FetchUndecidedStep, FetchFailsStep, FinishFinalizeStep, SaveResultsStep
       DEF Finalize
  <2>5. ASSUME NEW p \in Batches, Batch(p) PROVE ElectionInv'
    BY <2>5, AcceptVotesStep, SendRollupStep DEF Batch
  <2>6. ASSUME NEW t \in DOMAIN transactions, Execute(t) PROVE ElectionInv'
    BY <2>6, ExecuteStep
  <2>7. CASE Restart
    BY <2>7, RestartStep
  <2>8. CASE UNCHANGED vars
    BY <2>8, StutterElection
  <2> QED BY <2>1, <2>2, <2>3, <2>4, <2>5, <2>6, <2>7, <2>8 DEF Next
<1> QED BY <1>1, <1>2, PTL DEF Spec

(* Accounts, transactions and handlers stay well typed, and no handler     *)
(* ever fetches, or sends a transaction to, an address that is no account. *)
THEOREM ElectionTyped == Spec => []TypeOK
<1>1. ElectionInv => TypeOK
  BY DEF ElectionInv
<1> QED BY <1>1, ElectionCorrect, PTL

(* The winner on chain led, with some votes, a tally that its ballot has   *)
(* had (blockchain.rs:205-262), whichever finalization landed and however  *)
(* late.                                                                   *)
THEOREM ElectionWinner == Spec => []WinnerHadMostVotes
<1>1. ASSUME ElectionInv, NEW b \in DOMAIN ballots,
             ballots[b].status = ELECTION_FINALIZED
      PROVE  \E t \in DOMAIN transactions :
               /\ Winning(t, b)
               /\ ~NoVotes(transactions[t].tally)
               /\ ballots[b].final_winner_index \in Leaders(transactions[t].tally)
               /\ Behind(transactions[t].tally, b)
  <2>1. PICK t \in DOMAIN transactions : Winning(t, b)
    BY <1>1 DEF ElectionInv, ChainInv, ProperBallot
  <2>2. ProperTransaction(t)
    BY <1>1 DEF ElectionInv, ChainInv
  <2>3. ProperWinner(t)
    BY <2>1, <2>2 DEF ProperTransaction, Winning
  <2> QED BY <2>1, <2>3 DEF ProperWinner, Winning
<1>2. ElectionInv => WinnerHadMostVotes
  BY <1>1 DEF WinnerHadMostVotes
<1> QED BY <1>2, ElectionCorrect, PTL

(* Where several movies led, the recorded winner is one the chairperson    *)
(* has chosen for that decade (blockchain.rs:235-258).                     *)
THEOREM ElectionTies == Spec => []TiesDecidedByChairperson
<1>1. ElectionInv => TiesDecidedByChairperson
  BY DEF ElectionInv, ChainInv, ProperBallot, Winning, ProperTransaction,
         ProperWinner, TiesDecidedByChairperson
<1> QED BY <1>1, ElectionCorrect, PTL

(* A finalizer that answers "Finalized" has its winner on chain, and it    *)
(* stays there.                                                            *)
THEOREM ElectionRecorded == Spec => []FinalizedMeansRecorded
<1>1. ASSUME ElectionInv PROVE FinalizedMeansRecorded
  <2> SUFFICES ASSUME NEW f \in Finalizers, NEW d \in Decades,
                      status[f][d] = "Finalized"
               PROVE  LET t == transactions[<<f, d>>]
                      IN  /\ ballots[t.ballot].status = ELECTION_FINALIZED
                          /\ ballots[t.ballot].final_winner_index = t.winner
    BY DEF FinalizedMeansRecorded
  <2>1. <<f, d>> \in DOMAIN transactions /\ transactions[<<f, d>>].state = "landed"
    BY <1>1 DEF ElectionInv, HandlerInv, FinalizeInv
  <2>2. ProperTransaction(<<f, d>>)
    BY <1>1, <2>1 DEF ElectionInv, ChainInv
  <2> QED BY <2>1, <2>2, RouteFacts DEF ProperTransaction
<1> QED BY <1>1, ElectionCorrect, PTL

(* The results the API keeps are never ahead of a ballot of their decade   *)
(* (handler.rs:1014-1022).                                                 *)
THEOREM ElectionResults == Spec => []ResultsBehindChain
<1>1. ElectionInv => ResultsBehindChain
  BY DEF ElectionInv, ApiInv
<1> QED BY <1>1, ElectionCorrect, PTL

-----------------------------------------------------------------------------
(* The closed flag *)

\* The parts of a step that the closed flag does not depend on.
LEMMA ClosedKept ==
  ASSUME ElectionInv, ElectionInv', ClosedInv, Grows,
         UNCHANGED <<ballots_by_decade, election_closed>>,
         \A c \in CreateRequests : Creating(c)' => Creating(c),
         \A k \in CloseRequests : pc'[k] = "awaiting" =>
           pc[k] = "awaiting" /\ decade'[k] = decade[k]
  PROVE  ClosedInv'
<1>1. ASSUME NEW k \in CloseRequests, pc'[k] = "awaiting"
      PROVE  transactions'[<<k, decade'[k]>>].ballot = ballots_by_decade[decade'[k]]
  <2>1. pc[k] = "awaiting" /\ decade'[k] = decade[k]
    BY <1>1
  <2>2. <<k, decade[k]>> \in DOMAIN transactions
    BY <2>1, RouteFacts DEF ElectionInv, AwaitsTransaction, Key
  <2> QED BY <2>1, <2>2 DEF ClosedInv, Key, Grows, TransactionGrows
<1>2. ClosedFlagBehindChain'
  <2> SUFFICES ASSUME NEW d \in Decades, election_closed[d]
               PROVE  /\ ballots_by_decade[d] # None
                      /\ ballots'[ballots_by_decade[d]].status # ELECTION_OPEN
    BY DEF ClosedFlagBehindChain
  <2>1. /\ ballots_by_decade[d] # None
        /\ ballots[ballots_by_decade[d]].status # ELECTION_OPEN
    BY DEF ClosedInv, ClosedFlagBehindChain
  <2>2. ballots_by_decade[d] \in DOMAIN ballots
    BY <2>1, TypeParts DEF ElectionInv, ApiType
  <2> QED BY <2>1, <2>2 DEF Grows, AccountGrows
<1> QED BY <1>1, <1>2 DEF ClosedInv, Key, Creating

LEMMA CreateClosed ==
  ASSUME ElectionInv, ElectionInv', ClosedInv, OneCreation,
         NEW c \in CreateRequests, Create(c)
  PROVE  ClosedInv'
<1>1. /\ c \in Requests /\ LocalType /\ ChainType /\ ChainInv /\ CallsInOrder
      /\ CloseRequests \subseteq Requests /\ CreateRequests \subseteq Requests
      /\ \A k \in CloseRequests : k # c
  BY RouteFacts, TypeParts DEF ElectionInv
<1>2. Grows
  <2>1. CASE SendInitialize(c)
    <3>1. /\ ballots' = ballots /\ decisions' = decisions
          /\ Unsent(c) /\ CallsInOrder
          /\ Send(c, Transaction("initialize", <<c, decade[c]>>, None, ZeroTally))
      BY <2>1, <1>1 DEF SendInitialize, history, Unsent
    <3>2. Sendable(c, Key(c), Transaction("initialize", <<c, decade[c]>>, None, ZeroTally))
      BY <1>1, RouteFacts, TallyFacts
         DEF Sendable, Transaction, TransactionType, Key, Ballots, LocalType
    <3> QED BY <1>1, <3>1, <3>2, KeyIsFresh, SendKeepsChain
  <2>2. CASE ~SendInitialize(c)
    <3>1. UNCHANGED chain /\ decisions' = decisions
      BY <2>2 DEF Create, CheckBallots, FinishInitialize, StoreBallots,
                  OpenElection, ClearTies, history
    <3> QED BY <1>1, <3>1, ChainUnchanged
  <2> QED BY <2>1, <2>2
<1>3. \A q \in Requests : q # c => pc'[q] = pc[q] /\ decade'[q] = decade[q]
  BY <1>1 DEF Create, CheckBallots, SendInitialize, FinishInitialize,
              StoreBallots, OpenElection, ClearTies, LocalType
<1>4. CASE CheckBallots(c)
  <2>1. /\ UNCHANGED <<ballots_by_decade, election_closed, transactions, ballots>>
        /\ pc[c] = "new"
        /\ pc'[c] = IF \A d \in Decades : ballots_by_decade[d] # None
                    THEN "done" ELSE "next"
    BY <1>1, <1>4 DEF CheckBallots, api, chain, LocalType
  <2>2. Creating(c)' => \A d \in Decades : ballots_by_decade[d] = None
    BY <2>1 DEF Creating, ClosedInv
  <2>3. \A e \in CreateRequests : Creating(e)' =>
          \A d \in Decades : ballots_by_decade'[d] = None
    BY <1>1, <1>3, <2>1, <2>2 DEF Creating, ClosedInv
  <2>4. \A k \in CloseRequests : pc'[k] = "awaiting" =>
          transactions'[<<k, decade'[k]>>].ballot = ballots_by_decade'[decade'[k]]
    BY <1>1, <1>3, <2>1 DEF ClosedInv, Key
  <2>5. ClosedFlagBehindChain'
    BY <2>1 DEF ClosedInv, ClosedFlagBehindChain
  <2> QED BY <2>1, <2>3, <2>4, <2>5 DEF ClosedInv, Key
<1>5. CASE SendInitialize(c) \/ FinishInitialize(c) \/ ClearTies(c)
  <2>1. /\ UNCHANGED <<ballots_by_decade, election_closed>>
        /\ Creating(c)' => Creating(c)
    BY <1>1, <1>5
       DEF SendInitialize, FinishInitialize, ClearTies, api, Creating,
                      LocalType
  <2>2. \A e \in CreateRequests : Creating(e)' => Creating(e)
    BY <1>1, <1>3, <2>1 DEF Creating
  <2> QED BY <1>1, <1>2, <1>3, <2>1, <2>2, ClosedKept
<1>6. CASE StoreBallots(c)
  <2>1. /\ ballots_by_decade' = [d \in Decades |-> <<c, d>>]
        /\ UNCHANGED <<election_closed, transactions, ballots>>
        /\ pc[c] = "storing" /\ pc'[c] = "opening"
    BY <1>1, <1>6 DEF StoreBallots, chain, LocalType
  <2>2. \A d \in Decades : ballots_by_decade[d] = None
    BY <2>1 DEF ClosedInv, Creating
  <2>3. \A d \in Decades : <<c, d>> # None
    BY <1>1, TallyFacts DEF Ballots
  <2>4. \A e \in CreateRequests : ~Creating(e)'
    BY <1>1, <1>3, <2>1 DEF OneCreation, Creating
  <2>5. \A k \in CloseRequests : pc'[k] # "awaiting"
    <3> SUFFICES ASSUME NEW k \in CloseRequests, pc[k] = "awaiting" PROVE FALSE
      BY <1>1, <1>3
    <3>1. Key(k) \in DOMAIN transactions /\ decade[k] \in Decades
      BY <1>1 DEF ElectionInv, AwaitsTransaction, LocalType
    <3>2. transactions[Key(k)].ballot = None
      BY <2>2, <3>1 DEF ClosedInv
    <3> QED BY <1>1, <3>1, <3>2, TransactionTyped, TallyFacts
  <2>6. \A d \in Decades : ~election_closed'[d]
    BY <2>1, <2>2 DEF ClosedInv, ClosedFlagBehindChain
  <2> QED BY <2>1, <2>3, <2>4, <2>5, <2>6 DEF ClosedInv, ClosedFlagBehindChain
<1>7. CASE OpenElection(c)
  <2>1. /\ election_closed' = [d \in Decades |-> FALSE]
        /\ UNCHANGED <<ballots_by_decade, transactions, ballots>>
        /\ pc'[c] = "clearing"
    BY <1>1, <1>7 DEF OpenElection, chain, LocalType
  <2>2. \A e \in CreateRequests : Creating(e)' => Creating(e)
    BY <1>1, <1>3, <2>1 DEF Creating
  <2>3. \A k \in CloseRequests : pc'[k] = "awaiting" =>
          transactions'[<<k, decade'[k]>>].ballot = ballots_by_decade'[decade'[k]]
    BY <1>1, <1>3, <2>1 DEF ClosedInv, Key
  <2> QED BY <2>1, <2>2, <2>3 DEF ClosedInv, ClosedFlagBehindChain, Key
<1> QED BY <1>4, <1>5, <1>6, <1>7 DEF Create

LEMMA CloseClosed ==
  ASSUME ElectionInv, ElectionInv', ClosedInv, NEW k \in CloseRequests, Close(k)
  PROVE  ClosedInv'
<1>1. /\ k \in Requests /\ k \in CloseRequests \cup Finalizers
      /\ LocalType /\ ApiType /\ ChainType /\ ChainInv /\ CallsInOrder
      /\ decade[k] \in Decades
      /\ CloseRequests \subseteq Requests /\ CreateRequests \subseteq Requests
      /\ \A c \in CreateRequests : c # k
  BY RouteFacts, TypeParts DEF ElectionInv, LocalType
<1>2. UNCHANGED <<ballots, ballots_by_decade>>
  BY DEF Close, SendClose, FinishClose, api, chain
<1>3. \A q \in Requests : q # k => pc'[q] = pc[q] /\ decade'[q] = decade[q]
  BY <1>1 DEF Close, SendClose, FinishClose, Answer, LocalType
<1>4. /\ \A c \in CreateRequests : Creating(c)' <=> Creating(c)
  BY <1>1, <1>3 DEF Creating
<1>5. CASE SendClose(k) /\ ballots_by_decade[decade[k]] # None
  <2> DEFINE address == ballots_by_decade[decade[k]]
             tx == Transaction("close_election", address, None, ZeroTally)
  <2>1. /\ Send(k, tx) /\ pc'[k] = "awaiting" /\ decade'[k] = decade[k]
        /\ election_closed' = election_closed
    BY <1>1, <1>5 DEF SendClose, LocalType, api
  <2>2. \A t \in DOMAIN transactions : t # <<k, decade[k]>> =>
          transactions'[t] = transactions[t]
    BY <2>1 DEF Send
  <2>3. transactions'[<<k, decade[k]>>] = tx /\ tx.ballot = address
    BY <2>1 DEF Send, Transaction
  <2>4. ASSUME NEW l \in CloseRequests, pc'[l] = "awaiting"
        PROVE  transactions'[<<l, decade'[l]>>].ballot = ballots_by_decade[decade'[l]]
    <3>1. CASE l = k
      BY <3>1, <2>1, <2>3
    <3>2. CASE l # k
      <4>1. pc[l] = "awaiting" /\ decade'[l] = decade[l]
        BY <1>1, <1>3, <2>4, <3>2
      <4>2. <<l, decade[l]>> \in DOMAIN transactions
        BY <1>1, <4>1 DEF ElectionInv, AwaitsTransaction, Key
      <4> QED BY <2>2, <3>2, <4>1, <4>2 DEF ClosedInv, Key
    <3> QED BY <3>1, <3>2
  <2>5. ClosedFlagBehindChain'
    BY <1>2, <2>1 DEF ClosedInv, ClosedFlagBehindChain
  <2> QED BY <1>2, <1>4, <2>4, <2>5 DEF ClosedInv, Key
<1>6. CASE SendClose(k) /\ ballots_by_decade[decade[k]] = None
  <2>1. /\ UNCHANGED <<transactions, election_closed>>
        /\ Answer(k, "NoBallot")
    BY <1>6 DEF SendClose, api
  <2>2. pc'[k] # "awaiting"
    BY <1>1, <2>1 DEF Answer, LocalType
  <2>3. ASSUME NEW l \in CloseRequests, pc'[l] = "awaiting"
        PROVE  transactions'[<<l, decade'[l]>>].ballot = ballots_by_decade[decade'[l]]
    BY <1>1, <1>3, <2>1, <2>2, <2>3 DEF ClosedInv, Key
  <2>4. ClosedFlagBehindChain'
    BY <1>2, <2>1 DEF ClosedInv, ClosedFlagBehindChain
  <2> QED BY <1>2, <1>4, <2>3, <2>4 DEF ClosedInv, Key
<1>7. CASE FinishClose(k)
  <2>1. /\ UNCHANGED transactions /\ pc'[k] # "awaiting" /\ pc[k] = "awaiting"
    BY <1>1, <1>7 DEF FinishClose, Answer, chain, LocalType
  <2>2. ASSUME NEW l \in CloseRequests, pc'[l] = "awaiting"
        PROVE  transactions'[<<l, decade'[l]>>].ballot = ballots_by_decade[decade'[l]]
    BY <1>1, <1>3, <2>1, <2>2 DEF ClosedInv, Key
  <2>3. CASE election_closed' = election_closed
    <3>1. ClosedFlagBehindChain'
      BY <1>2, <2>3 DEF ClosedInv, ClosedFlagBehindChain
    <3> QED BY <1>2, <1>4, <2>2, <3>1 DEF ClosedInv, Key
  <2>4. CASE /\ CloseConfirmed(k)
             /\ election_closed' = [election_closed EXCEPT ![decade[k]] = TRUE]
    <3> DEFINE address == ballots_by_decade[decade[k]]
               t == <<k, decade[k]>>
    <3>1. /\ t \in DOMAIN transactions /\ transactions[t].ballot = address
          /\ transactions[t].state # "sent"
      BY <1>1, <2>1, <2>4
         DEF ElectionInv, AwaitsTransaction, ClosedInv, Key, CloseConfirmed, State
    <3>2. ProperTransaction(t) /\ transactions[t].instruction = "close_election"
      BY <1>1, <3>1, RouteFacts DEF ChainInv, ProperTransaction
    <3>3. address \in DOMAIN ballots /\ address # None
      BY <1>1, <3>1, <3>2, TransactionTyped, TallyFacts
    <3>4. ballots[address].status # ELECTION_OPEN
      BY <3>1, <3>2 DEF ProperTransaction
    <3>5. ASSUME NEW d \in Decades, election_closed'[d]
          PROVE  /\ ballots_by_decade[d] # None
                 /\ ballots[ballots_by_decade[d]].status # ELECTION_OPEN
      BY <1>1, <2>4, <3>3, <3>4, <3>5
         DEF ClosedInv, ClosedFlagBehindChain, ApiType
    <3>6. ClosedFlagBehindChain'
      BY <1>2, <3>5 DEF ClosedFlagBehindChain
    <3> QED BY <1>2, <1>4, <2>2, <3>6 DEF ClosedInv, Key
  <2> QED BY <1>7, <2>3, <2>4 DEF FinishClose
<1> QED BY <1>5, <1>6, <1>7 DEF Close

\* The chain only grows, whatever happens.
LEMMA OtherGrows ==
  ASSUME ElectionInv, ElectionInv',
         \/ \E f \in Finalizers : Finalize(f)
         \/ \E p \in Batches : Batch(p)
         \/ \E q \in ResolveRequests : ResolveTie(q)
         \/ \E t \in DOMAIN transactions : Execute(t)
         \/ UNCHANGED vars
  PROVE  Grows
<1>1. /\ LocalType /\ ChainType /\ ChainType' /\ ChainInv /\ CallsInOrder
  BY TypeParts DEF ElectionInv
<1>2. ASSUME UNCHANGED chain, decisions \subseteq decisions' PROVE Grows
  BY <1>1, <1>2, ChainUnchanged
<1>3. ASSUME NEW r \in Requests, Unsent(r), NEW transaction,
             ballots' = ballots, decisions' = decisions, Send(r, transaction)
      PROVE  Grows
  <2>1. Key(r) \notin DOMAIN transactions
    BY <1>1, <1>3, KeyIsFresh
  <2>2. /\ DOMAIN transactions \subseteq DOMAIN transactions'
        /\ \A t \in DOMAIN transactions : transactions'[t] = transactions[t]
    BY <1>3, <2>1 DEF Send, Key
  <2>3. \A b \in DOMAIN ballots : AccountGrows(ballots[b], ballots[b])
    BY <1>1, AccountStays
  <2> QED BY <1>3, <2>2, <2>3 DEF Grows, TransactionGrows
<1>4. ASSUME NEW f \in Finalizers, Finalize(f) PROVE Grows
  <2>1. CASE FetchTally(f)
    <3>1. /\ f \in Requests /\ Unsent(f) /\ ballots' = ballots /\ decisions' = decisions
      BY <2>1, RouteFacts DEF FetchTally, Unsent, history
    <3>2. \E transaction : Send(f, transaction)
      BY <2>1 DEF FetchTally
    <3> QED BY <1>3, <3>1, <3>2
  <2>2. CASE ~FetchTally(f)
    <3>1. UNCHANGED chain /\ decisions' = decisions
      BY <1>4, <2>2 DEF Finalize, CheckDecade, ReadBallot, ReadResolvedTie,
           FetchUndecided, FetchFails, FinishFinalize, SaveResults, history
    <3> QED BY <1>2, <3>1
  <2> QED BY <2>1, <2>2
<1>5. ASSUME NEW p \in Batches, Batch(p) PROVE Grows
  <2>1. CASE SendRollup(p)
    <3>1. /\ p \in Requests /\ Unsent(p) /\ ballots' = ballots /\ decisions' = decisions
          /\ \E transaction : Send(p, transaction)
      BY <2>1, RouteFacts DEF SendRollup, Unsent, history
    <3> QED BY <1>3, <3>1
  <2>2. CASE AcceptVotes(p)
    BY <1>2, <2>2 DEF AcceptVotes, history
  <2> QED BY <1>5, <2>1, <2>2 DEF Batch
<1>6. ASSUME NEW q \in ResolveRequests, ResolveTie(q) PROVE Grows
  BY <1>2, <1>6 DEF ResolveTie
<1>7. ASSUME NEW t \in DOMAIN transactions, Execute(t) PROVE Grows
  BY <1>1, <1>7, ExecuteKeepsChain
<1>8. CASE UNCHANGED vars
  BY <1>2, <1>8 DEF vars, history
<1> QED BY <1>4, <1>5, <1>6, <1>7, <1>8

LEMMA OtherClosed ==
  ASSUME ElectionInv, ElectionInv', ClosedInv,
         \/ \E f \in Finalizers : Finalize(f)
         \/ \E p \in Batches : Batch(p)
         \/ \E q \in ResolveRequests : ResolveTie(q)
         \/ \E t \in DOMAIN transactions : Execute(t)
         \/ UNCHANGED vars
  PROVE  ClosedInv'
<1>1. Grows
  BY OtherGrows
<1>2. LocalType /\ pc \in [Requests -> Step] /\ decade \in [Requests -> Decades]
  BY TypeParts DEF ElectionInv, LocalType
<1>3. UNCHANGED <<ballots_by_decade, election_closed>>
  BY DEF Finalize, CheckDecade, ReadBallot, ReadResolvedTie, FetchTally,
         FetchUndecided, FetchFails, FinishFinalize, SaveResults, Batch,
         AcceptVotes, SendRollup, ResolveTie, Execute, vars, api
<1>4. \A r \in CreateRequests \cup CloseRequests :
        pc'[r] = pc[r] /\ decade'[r] = decade[r]
  <2>1. ASSUME NEW f \in Finalizers, Finalize(f)
        PROVE  \A r \in Requests : r # f =>
                 pc'[r] = pc[r] /\ decade'[r] = decade[r]
    BY <1>2, <2>1
       DEF Finalize, CheckDecade, ReadBallot, ReadResolvedTie, FetchTally,
         FetchUndecided, FetchFails, FinishFinalize, SaveResults, Answer
  <2>2. ASSUME NEW p \in Batches, Batch(p)
        PROVE  \A r \in Requests : r # p =>
                 pc'[r] = pc[r] /\ decade'[r] = decade[r]
    BY <1>2, <2>2 DEF Batch, AcceptVotes, SendRollup
  <2>3. ASSUME NEW q \in ResolveRequests, ResolveTie(q)
        PROVE  \A r \in Requests : r # q =>
                 pc'[r] = pc[r] /\ decade'[r] = decade[r]
    BY <1>2, <2>3 DEF ResolveTie
  <2>4. ASSUME NEW t \in DOMAIN transactions, Execute(t)
        PROVE  \A r \in Requests : pc'[r] = pc[r] /\ decade'[r] = decade[r]
    BY <2>4 DEF Execute, locals
  <2>5. CASE UNCHANGED vars
    BY <2>5 DEF vars, locals
  <2>6. \A r \in CreateRequests \cup CloseRequests :
          /\ r \in Requests /\ r \notin Finalizers /\ r \notin Batches
          /\ r \notin ResolveRequests
    BY RouteFacts, RoutesApart
  <2> QED BY <2>1, <2>2, <2>3, <2>4, <2>5, <2>6
<1>5. \A c \in CreateRequests : Creating(c)' => Creating(c)
  BY <1>4 DEF Creating
<1> QED BY <1>1, <1>3, <1>4, <1>5, ClosedKept

(* As long as create_ballots never runs twice at the same time, a closed   *)
(* flag means a ballot on chain that is not open, for any number of closes *)
(* that fail, time out or land late, and any restarts                      *)
(* (handler.rs:878-887).                                                   *)
THEOREM ElectionClosed == Spec /\ []OneCreation => []ClosedFlagBehindChain
<1>1. Init => ClosedInv
  <2> SUFFICES ASSUME Init PROVE ClosedInv
    OBVIOUS
  <2>1. \A r \in Requests : pc[r] = "new"
    BY DEF Init
  <2> QED BY <2>1, RouteFacts
          DEF Init, ClosedInv, Creating, ClosedFlagBehindChain
<1>2. ElectionInv /\ ElectionInv' /\ OneCreation /\ ClosedInv /\ [Next]_vars => ClosedInv'
  <2> SUFFICES ASSUME ElectionInv, ElectionInv', OneCreation, ClosedInv, [Next]_vars
               PROVE  ClosedInv'
    OBVIOUS
  <2>1. ASSUME NEW c \in CreateRequests, Create(c) PROVE ClosedInv'
    BY <2>1, CreateClosed
  <2>2. ASSUME NEW k \in CloseRequests, Close(k) PROVE ClosedInv'
    BY <2>2, CloseClosed
  <2>3. CASE Restart
    <3>1. /\ ballots_by_decade' = [d \in Decades |-> None]
          /\ election_closed' = [d \in Decades |-> FALSE]
      BY <2>3 DEF Restart
    <3>2. \A r \in Requests : pc'[r] \in {"new", "done"}
      BY <2>3 DEF Restart
    <3> QED BY <3>1, <3>2, RouteFacts
            DEF ClosedInv, Creating, ClosedFlagBehindChain
  <2>4. CASE \/ \E f \in Finalizers : Finalize(f)
             \/ \E p \in Batches : Batch(p)
             \/ \E q \in ResolveRequests : ResolveTie(q)
             \/ \E t \in DOMAIN transactions : Execute(t)
             \/ UNCHANGED vars
    BY <2>4, OtherClosed
  <2> QED BY <2>1, <2>2, <2>3, <2>4 DEF Next
<1>3. ClosedInv => ClosedFlagBehindChain
  BY DEF ClosedInv
<1> QED BY <1>1, <1>2, <1>3, ElectionCorrect, PTL DEF Spec
=============================================================================
