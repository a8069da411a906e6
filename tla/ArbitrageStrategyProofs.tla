------------------------ MODULE ArbitrageStrategyProofs ------------------------
(***************************************************************************)
(* The promise of AccountContract and the safety of ArbitrageStrategy,     *)
(* proved for any exchanges, accounts, pairs, tickers and orders.          *)
(***************************************************************************)
EXTENDS ArbitrageStrategy, TLAPS

(***************************************************************************)
(* The contract of the accounts                                            *)
(***************************************************************************)

\* Every open order is registered, lost, or about to be answered.
LiveKnown == \A a \in Accounts : live[a] \subseteq registered[a] \cup lost[a] \cup pending[a]

\* An open order was accepted: what a restart forgets is lost, not unknown.
LiveAccepted == \A a \in Accounts : live[a] \subseteq accepted[a]

\* Only a request that has not returned has an order to be answered.
PendingBusy == \A a \in Accounts : pending[a] # {} => busy[a]

\* No request is in progress on a synced account.
SyncedIdle == \A a \in Accounts : isSynced[a] => ~busy[a]

ContractInv == ContractTypeOK /\ LiveKnown /\ LiveAccepted /\ PendingBusy /\ SyncedIdle

\* The first states satisfy the invariant.
LEMMA ContractInitInv == ContractInit => ContractInv
  BY DEF ContractInit, ContractInv, ContractTypeOK, LiveKnown, LiveAccepted, PendingBusy, SyncedIdle

\* Every step of an account preserves the invariant.
LEMMA ContractStepInv == ContractInv /\ [ContractNext]_contractVars => ContractInv'
<1> SUFFICES ASSUME ContractInv, [ContractNext]_contractVars PROVE ContractInv'
  OBVIOUS
<1> USE DEF ContractInv, ContractTypeOK, LiveKnown, LiveAccepted, PendingBusy, SyncedIdle
<1>1. ASSUME NEW a \in Accounts, Request(a) PROVE ContractInv'
  BY <1>1 DEF Request
<1>2. ASSUME NEW a \in Accounts, Lose(a) PROVE ContractInv'
  BY <1>2 DEF Lose
<1>3. ASSUME NEW a \in Accounts, Return(a) PROVE ContractInv'
  BY <1>3 DEF Return
<1>4. ASSUME NEW a \in Accounts, Throw(a) PROVE ContractInv'
  BY <1>4 DEF Throw
<1>5. ASSUME NEW a \in Accounts, Refresh(a) PROVE ContractInv'
  BY <1>5 DEF Refresh
<1>6. ASSUME NEW a \in Accounts, Restart(a) PROVE ContractInv'
  BY <1>6 DEF Restart
<1>7. ASSUME NEW a \in Accounts, NEW i \in Orders, Accept(a, i) PROVE ContractInv'
  <2>1. ContractTypeOK'
    BY <1>7 DEF Accept
  <2>2. LiveKnown' /\ LiveAccepted'
    BY <1>7 DEF Accept
  <2>3. PendingBusy' /\ SyncedIdle'
    BY <1>7 DEF Accept
  <2> QED
    BY <2>1, <2>2, <2>3
<1>8. ASSUME NEW a \in Accounts, NEW i \in Orders, Register(a, i) PROVE ContractInv'
  BY <1>8 DEF Register
<1>9. ASSUME NEW a \in Accounts, NEW i \in Orders, Close(a, i) PROVE ContractInv'
  BY <1>9 DEF Close
<1>10. ASSUME NEW a \in Accounts, NEW i \in Orders, Forget(a, i) PROVE ContractInv'
  BY <1>10 DEF Forget
<1>11. CASE UNCHANGED contractVars
  BY <1>11 DEF contractVars
<1> QED
  BY <1>1, <1>2, <1>3, <1>4, <1>5, <1>6, <1>7, <1>8, <1>9, <1>10, <1>11 DEF ContractNext

\* The promise follows from the invariant: a synced account has no request in
\* progress, hence nothing to be answered.
LEMMA ContractInvPromise == ContractInv => OpenOrdersKnown
  BY DEF ContractInv, LiveKnown, PendingBusy, SyncedIdle, OpenOrdersKnown

\* An account manager that keeps the contract never calls an account synced that
\* has an open order it has neither registered nor lost.
THEOREM PromiseKept == ContractSpec => []OpenOrdersKnown
<1>1. ContractSpec => []ContractInv
  BY ContractInitInv, ContractStepInv, PTL DEF ContractSpec
<1> QED
  BY <1>1, ContractInvPromise, PTL

(***************************************************************************)
(* The strategy                                                            *)
(***************************************************************************)

\* The feed that sends holds m_orders_mutex, and what it waits for tells how its
\* first leg ended.
SendInv ==
    \A f \in Feeds :
        /\ ordersMutex = f <=> pc[f] \in Sending
        /\ pc[f] = "wait_buy" => leg[f]["SELL"] = "placed"
        /\ pc[f] = "unwind" => leg[f]["SELL"] = "thrown"

InFlight == LegRunning \ {"start"}

\* An account is busy for a leg only.
BusyInv ==
    \A a \in Accounts : busy[a] =>
        \E f \in Feeds, s \in Sides : sides[f][s] = a /\ leg[f][s] \in InFlight

\* An order to be answered was sent by the feed that sends now.
PendingInv ==
    \A a \in Accounts : \A i \in pending[a] : sentBy[a][i].feed = ordersMutex

\* Once an account manager has said that it has no orders of the pair, it has none
\* that this feed sent.
CheckedInv ==
    \A f \in Feeds : pc[f] = "asking" =>
        \A a \in Accounts \ toAsk[f] : OpenOrders(a, f, pair[f]) = {}

Inv == TypeOK /\ ContractInv /\ SendInv /\ BusyInv /\ PendingInv /\ CheckedInv

(***************************************************************************)
(* The accounts                                                            *)
(***************************************************************************)

\* The strategy uses an account only as the contract says.
LEMMA StepsOfContract == TypeOK /\ [Next]_vars => [ContractNext]_contractVars
<1> SUFFICES ASSUME TypeOK, [Next]_vars PROVE [ContractNext]_contractVars
  OBVIOUS
<1>1. CASE \E f \in Feeds, p \in Pairs, q \in Quotes : OnBookTicker(f, p, q)
  BY <1>1 DEF OnBookTicker
<1>2. ASSUME NEW f \in Feeds, FeedStep(f) PROVE UNCHANGED contractVars
  BY <1>2 DEF FeedStep, BelowMinimum, AskSynced, AskOpenOrders, StartLegs, SkipLegs,
     SendBasicArbitrageOrders, WaitSell, WaitBuy, Unwind, GiveUp, PcTo, Exit, Leave
<1>3. ASSUME NEW f \in Feeds, NEW s \in Sides, LimitOrder(f, s)
      PROVE  [ContractNext]_contractVars
  <2>1. sides[f][s] \in Accounts
    BY DEF TypeOK
  <2>2. CASE LegRequest(f, s)
    BY <2>1, <2>2 DEF LegRequest, ContractNext
  <2>3. CASE LegAccepted(f, s)
    <3>1. NewId(sides[f][s]) \in Orders
      BY <2>3 DEF LegAccepted, NewId
    <3> QED
      BY <2>1, <2>3, <3>1 DEF LegAccepted, ContractNext
  <2>4. CASE LegRefused(f, s)
    BY <2>4 DEF LegRefused
  <2>5. CASE LegReplyLost(f, s)
    BY <2>1, <2>5 DEF LegReplyLost, ContractNext
  <2>6. CASE LegThrown(f, s)
    BY <2>1, <2>6 DEF LegThrown, ContractNext
  <2>7. CASE LegStored(f, s)
    BY <2>1, <2>7 DEF LegStored, ContractNext
  <2>8. CASE LegReturns(f, s)
    BY <2>1, <2>8 DEF LegReturns, ContractNext
  <2> QED
    BY <1>3, <2>2, <2>3, <2>4, <2>5, <2>6, <2>7, <2>8 DEF LimitOrder
<1>4. CASE AccountStep
  BY <1>4 DEF AccountStep, ContractNext
<1>5. CASE UNCHANGED vars
  BY <1>5 DEF vars
<1> QED
  BY <1>1, <1>2, <1>3, <1>4, <1>5 DEF Next

(***************************************************************************)
(* Types                                                                   *)
(***************************************************************************)

\* The initial states are well typed.
LEMMA InitType == Init => TypeOK
<1> SUFFICES ASSUME Init PROVE TypeOK
  OBVIOUS
<1>1. ContractTypeOK
  BY ContractInitInv DEF Init, ContractInv
<1>2. NoSides \in [Sides -> Accounts]
  BY StrategyAssumption DEF NoSides
<1>3. Nobody \in [feed : Feeds \cup {NoFeed}, pair : Pairs]
  BY StrategyAssumption DEF Nobody
<1>4. tickers \in [Pairs -> UNION {[E -> Quotes] : E \in SUBSET Exchanges}]
  <2>1. [e \in {} |-> 0] \in [{} -> Quotes]
    OBVIOUS
  <2> QED
    BY <2>1 DEF Init
<1>5. leg \in [Feeds -> [Sides -> {"none"} \cup LegRunning \cup LegDone]]
  BY DEF Init, NoLegs
<1>6. \A f \in Feeds : leg[f] = NoLegs /\ pc[f] = "idle"
  BY DEF Init
<1>7. /\ pair \in [Feeds -> Pairs] /\ sides \in [Feeds -> [Sides -> Accounts]]
      /\ sentBy \in [Accounts -> [Orders -> [feed : Feeds \cup {NoFeed}, pair : Pairs]]]
  BY <1>2, <1>3 DEF Init
<1>8. /\ toAsk \in [Feeds -> SUBSET Accounts]
      /\ pc \in [Feeds -> {"idle"} \cup Checking \cup Sending]
      /\ failures \in 0 .. MaxFailures
  BY StrategyAssumption DEF Init
<1>9. running \in BOOLEAN /\ ordersMutex \in Feeds \cup {NoFeed}
  BY DEF Init
<1> QED
  BY <1>1, <1>4, <1>5, <1>6, <1>7, <1>8, <1>9 DEF TypeOK

\* So are the states every step leads to.
LEMMA StepType ==
    ASSUME TypeOK, SendInv, ContractTypeOK', [Next]_vars
    PROVE  TypeOK'
<1> USE DEF TypeOK
<1>0. NoSides \in [Sides -> Accounts] /\ Nobody.pair \in Pairs
  BY StrategyAssumption DEF NoSides, Nobody
<1>1. ASSUME NEW f \in Feeds, NEW p \in Pairs, NEW q \in Quotes, OnBookTicker(f, p, q)
      PROVE  TypeOK'
  <2> DEFINE t == [e \in DOMAIN tickers[p] \cup {f} |-> IF e = f THEN q ELSE tickers[p][e]]
  <2>1. PICK E \in SUBSET Exchanges : tickers[p] \in [E -> Quotes]
    OBVIOUS
  <2>2. t \in [E \cup {f} -> Quotes] /\ E \cup {f} \in SUBSET Exchanges
    BY <2>1 DEF Feeds
  <2>3. t \in UNION {[F -> Quotes] : F \in SUBSET Exchanges}
    BY <2>2
  <2>4. tickers' = [tickers EXCEPT ![p] = t]
    BY <1>1 DEF OnBookTicker
  <2> HIDE DEF t
  <2>5. tickers' \in [Pairs -> UNION {[F -> Quotes] : F \in SUBSET Exchanges}]
    BY <2>3, <2>4
  <2>6. \/ UNCHANGED <<pc, pair, sides>>
        \/ /\ {BestBid(t), BestAsk(t)} \subseteq Accounts
           /\ pc' = [pc EXCEPT ![f] = "matched"]
           /\ pair' = [pair EXCEPT ![f] = p]
           /\ sides' = [sides EXCEPT ![f] = [SELL |-> BestBid(t), BUY |-> BestAsk(t)]]
    BY <1>1 DEF OnBookTicker, Tradable, t
  <2>7. sides' \in [Feeds -> [Sides -> Accounts]]
    <3>1. ASSUME NEW x \in Accounts, NEW y \in Accounts
          PROVE  [SELL |-> x, BUY |-> y] \in [Sides -> Accounts]
      BY DEF Sides
    <3>2. CASE UNCHANGED sides
      BY <3>2
    <3>3. CASE ~UNCHANGED sides
      <4>1. PICK x \in Accounts, y \in Accounts :
              sides' = [sides EXCEPT ![f] = [SELL |-> x, BUY |-> y]]
        BY <2>6, <3>3
      <4> QED
        BY <3>1, <4>1
    <3> QED
      BY <3>2, <3>3
  <2>8. pc' \in [Feeds -> {"idle"} \cup Checking \cup Sending]
        /\ pair' \in [Feeds -> Pairs]
    BY <2>6 DEF Checking
  <2>9. \A g \in Feeds : pc'[g] \notin Sending => leg'[g] = NoLegs
    BY <1>1, <2>6 DEF OnBookTicker, Sending
  <2> QED
    BY <1>1, <2>5, <2>7, <2>8, <2>9 DEF OnBookTicker
<1>2. ASSUME NEW f \in Feeds, GiveUp(f), pc[f] \notin Sending PROVE TypeOK'
  BY <1>0, <1>2 DEF GiveUp, Sending
<1>3. ASSUME NEW f \in Feeds, FeedStep(f) PROVE TypeOK'
  <2>1. CASE BelowMinimum(f)
    BY <1>2, <2>1 DEF BelowMinimum, Sending
  <2>2. CASE AskSynced(f)
    <3>1. pc[f] \notin Sending
      BY <2>2 DEF AskSynced, Sending
    <3>2. CASE GiveUp(f)
      BY <1>2, <3>1, <3>2
    <3>3. CASE ~GiveUp(f)
      <4>1. PICK state \in Checking, rest \in SUBSET Accounts :
               /\ pc' = [pc EXCEPT ![f] = state]
               /\ toAsk' = [toAsk EXCEPT ![f] = rest]
        BY <2>2, <3>3 DEF AskSynced, Checking
      <4>2. UNCHANGED <<running, tickers, ordersMutex, pair, sides, leg, sentBy, failures>>
        BY <2>2, <3>3 DEF AskSynced
      <4> QED
        BY <3>1, <4>1, <4>2
    <3> QED
      BY <3>2, <3>3
  <2>3. CASE AskOpenOrders(f)
    BY <1>2, <2>3 DEF AskOpenOrders, Sending
  <2>4. CASE StartLegs(f)
    BY <2>4 DEF StartLegs, Sending, LegRunning
  <2>5. CASE SkipLegs(f)
    BY <1>2, <2>5 DEF SkipLegs, Sending
  <2>6. ASSUME Leave(f), \A s \in Sides : leg[f][s] \in LegDone PROVE TypeOK'
    <3>1. leg' = [leg EXCEPT ![f] = NoLegs]
      BY <2>6 DEF Leave, NoLegs
    <3>2. NoLegs \in [Sides -> {"none"} \cup LegRunning \cup LegDone]
      BY DEF NoLegs
    <3> QED
      BY <1>0, <2>6, <3>1, <3>2 DEF Leave, MutexAfter
  <2>7. ASSUME NEW state \in Sending, PcTo(f, state), pc[f] \in Sending PROVE TypeOK'
    BY <2>7 DEF PcTo
  <2>8. CASE Exit
    BY <2>8 DEF Exit, processVars, contractVars
  <2>9. CASE WaitSell(f)
    BY <2>7, <2>8, <2>9 DEF WaitSell, Sending
  <2>10. CASE WaitBuy(f)
    BY <2>6, <2>8, <2>10 DEF WaitBuy, SendInv, LegDone, Sides
  <2>11. CASE Unwind(f)
    BY <2>6, <2>11 DEF Unwind, Joined, SendInv, LegDone, Sides
  <2> QED
    BY <1>3, <2>1, <2>2, <2>3, <2>4, <2>5, <2>9, <2>10, <2>11
    DEF FeedStep, SendBasicArbitrageOrders
<1>4. ASSUME NEW f \in Feeds, NEW s \in Sides, LimitOrder(f, s) PROVE TypeOK'
  <2>1. pc[f] \in Sending
    BY <1>4 DEF LimitOrder, LegRequest, LegAccepted, LegRefused, LegReplyLost,
       LegThrown, LegStored, LegReturns, NoLegs
  <2>2. ASSUME NEW state \in LegRunning \cup LegDone, LegTo(f, s, state),
               sentBy' \in [Accounts -> [Orders -> [feed : Feeds \cup {NoFeed}, pair : Pairs]]],
               failures' \in 0 .. MaxFailures
        PROVE  TypeOK'
    BY <2>1, <2>2 DEF LegTo, feedVars
  <2>3. CASE UNCHANGED <<sentBy, failures>>
    BY <1>4, <2>2, <2>3 DEF LimitOrder, LegRequest, LegAccepted, LegRefused, LegReplyLost,
       LegThrown, LegStored, LegReturns, Fail, LegRunning, LegDone
  <2>4. CASE LegAccepted(f, s)
    <3>1. [feed |-> f, pair |-> pair[f]] \in [feed : Feeds \cup {NoFeed}, pair : Pairs]
      OBVIOUS
    <3> QED
      BY <2>2, <2>4, <3>1 DEF LegAccepted, LegRunning
  <2>5. CASE LegReplyLost(f, s) \/ LegThrown(f, s)
    <3>1. failures' \in 0 .. MaxFailures
      BY <2>5, StrategyAssumption DEF LegReplyLost, LegThrown, Fail
    <3> QED
      BY <2>2, <2>5, <3>1 DEF LegReplyLost, LegThrown, LegRunning, LegDone
  <2> QED
    BY <1>4, <2>3, <2>4, <2>5 DEF LimitOrder, LegRequest, LegRefused, LegStored, LegReturns
<1>5. CASE AccountStep
  BY <1>5 DEF AccountStep, strategyVars, processVars
<1>6. CASE UNCHANGED vars
  BY <1>6 DEF vars, strategyVars, processVars
<1> QED
  BY <1>1, <1>3, <1>4, <1>5, <1>6 DEF Next

(***************************************************************************)
(* The mutex                                                               *)
(***************************************************************************)

\* A leg that runs belongs to the feed that holds the mutex.
LEMMA LegsOfHolder ==
    ASSUME TypeOK, SendInv, NEW f \in Feeds, NEW s \in Sides, leg[f][s] # "none"
    PROVE  ordersMutex = f
<1>1. pc[f] \in Sending
  BY DEF TypeOK, NoLegs
<1> QED
  BY <1>1 DEF SendInv

\* A step of LimitOrder moves one running leg.
LEMMA LegMoves ==
    ASSUME NEW f \in Feeds, NEW s \in Sides, LimitOrder(f, s)
    PROVE  /\ leg[f][s] \in LegRunning
           /\ \E state \in InFlight \cup LegDone : leg' = [leg EXCEPT ![f][s] = state]
           /\ UNCHANGED feedVars
<1>1. leg[f][s] \in LegRunning /\ UNCHANGED feedVars
  BY DEF LimitOrder, LegRequest, LegAccepted, LegRefused, LegReplyLost, LegThrown,
     LegStored, LegReturns, LegTo, LegRunning
<1>2. \E state \in InFlight \cup LegDone : LegTo(f, s, state)
  BY DEF LimitOrder, LegRequest, LegAccepted, LegRefused, LegReplyLost, LegThrown,
     LegStored, LegReturns, LegRunning, LegDone, InFlight
<1> QED
  BY <1>1, <1>2 DEF LegTo

\* A feed takes the mutex as it begins to send, and gives it back as it ends.
LEMMA StepSend ==
    ASSUME TypeOK, SendInv, [Next]_vars
    PROVE  SendInv'
<1> USE DEF TypeOK
<1>1. ASSUME NEW f \in Feeds, NEW p \in Pairs, NEW q \in Quotes, OnBookTicker(f, p, q)
      PROVE  SendInv'
  BY <1>1 DEF OnBookTicker, SendInv, Sending
<1>2. ASSUME NEW f \in Feeds, GiveUp(f), pc[f] \notin Sending PROVE SendInv'
  BY <1>2 DEF GiveUp, SendInv, Sending
<1>3. ASSUME NEW f \in Feeds, FeedStep(f) PROVE SendInv'
  <2>1. CASE BelowMinimum(f) \/ AskOpenOrders(f) \/ SkipLegs(f)
    BY <1>2, <2>1 DEF BelowMinimum, AskOpenOrders, SkipLegs, SendInv, Sending
  <2>2. CASE AskSynced(f)
    <3>1. pc[f] \notin Sending
      BY <2>2 DEF AskSynced, Sending
    <3>2. CASE ~GiveUp(f)
      <4>1. PICK state \in Checking : pc' = [pc EXCEPT ![f] = state]
        BY <2>2, <3>2 DEF AskSynced, Checking
      <4>2. UNCHANGED <<ordersMutex, leg>>
        BY <2>2, <3>2 DEF AskSynced
      <4> QED
        BY <3>1, <4>1, <4>2 DEF SendInv, Sending, Checking
    <3> QED
      BY <1>2, <3>1, <3>2
  <2>3. CASE StartLegs(f)
    BY <2>3, StrategyAssumption DEF StartLegs, TryLock, SendInv, Sending
  <2>4. ASSUME Leave(f), pc[f] \in Sending PROVE SendInv'
    BY <2>4, StrategyAssumption DEF Leave, MutexAfter, SendInv, Sending
  <2>5. CASE Exit
    BY <2>5 DEF Exit, processVars, SendInv
  <2>6. CASE WaitSell(f)
    BY <2>5, <2>6 DEF WaitSell, PcTo, SendInv, Sending
  <2>7. CASE WaitBuy(f)
    BY <2>4, <2>5, <2>7 DEF WaitBuy, Sending
  <2>8. CASE Unwind(f)
    BY <2>4, <2>8 DEF Unwind, Sending
  <2> QED
    BY <1>3, <2>1, <2>2, <2>3, <2>6, <2>7, <2>8 DEF FeedStep, SendBasicArbitrageOrders
<1>4. ASSUME NEW f \in Feeds, NEW s \in Sides, LimitOrder(f, s) PROVE SendInv'
  <2>1. leg[f][s] \notin {"placed", "thrown"} /\ UNCHANGED <<pc, ordersMutex>>
    BY <1>4, LegMoves DEF feedVars, LegRunning
  <2>2. PICK state : leg' = [leg EXCEPT ![f][s] = state]
    BY <1>4, LegMoves
  <2>3. \A g \in Feeds : leg[g]["SELL"] \in {"placed", "thrown"} => leg'[g]["SELL"] = leg[g]["SELL"]
    BY <2>1, <2>2 DEF Sides
  <2> QED
    BY <2>1, <2>3 DEF SendInv
<1>5. CASE AccountStep
  BY <1>5 DEF AccountStep, strategyVars, processVars, SendInv
<1>6. CASE UNCHANGED vars
  BY <1>6 DEF vars, strategyVars, processVars, SendInv
<1> QED
  BY <1>1, <1>3, <1>4, <1>5, <1>6 DEF Next

(***************************************************************************)
(* The accounts and the checks                                             *)
(***************************************************************************)

\* Nothing is waiting for an answer unless a feed sends.
LEMMA NothingPending ==
    ASSUME TypeOK, ContractInv, SendInv, BusyInv,
           \A f \in Feeds : ordersMutex = f => \A s \in Sides : leg[f][s] \notin InFlight
    PROVE  \A a \in Accounts : pending[a] = {}
<1> SUFFICES ASSUME NEW a \in Accounts, pending[a] # {} PROVE FALSE
  OBVIOUS
<1>1. PICK f \in Feeds, s \in Sides : sides[f][s] = a /\ leg[f][s] \in InFlight
  BY DEF ContractInv, PendingBusy, BusyInv
<1>2. ordersMutex = f
  BY <1>1, LegsOfHolder DEF InFlight, LegRunning
<1> QED
  BY <1>1, <1>2

\* What the steps of the feeds change.
LEMMA FeedStepCases ==
    ASSUME TypeOK, SendInv, NEW f \in Feeds, FeedStep(f)
    PROVE  /\ UNCHANGED <<contractVars, sentBy>>
           /\ \/ /\ UNCHANGED <<ordersMutex, leg>>
                 /\ \/ UNCHANGED sides
                    \/ pc[f] \notin Sending /\ sides' = [sides EXCEPT ![f] = NoSides]
              \/ /\ StartLegs(f)
                 /\ ordersMutex = NoFeed
              \/ /\ Leave(f)
                 /\ ordersMutex = f
                 /\ \A s \in Sides : leg[f][s] \in LegDone
<1>1. CASE BelowMinimum(f) \/ AskSynced(f) \/ AskOpenOrders(f) \/ SkipLegs(f)
  BY <1>1 DEF BelowMinimum, AskSynced, AskOpenOrders, SkipLegs, GiveUp, Sending
<1>2. CASE StartLegs(f)
  BY <1>2 DEF StartLegs, TryLock
<1>3. CASE WaitSell(f)
  BY <1>3 DEF WaitSell, PcTo, Exit, processVars
<1>4. CASE WaitBuy(f)
  BY <1>4 DEF WaitBuy, Leave, Exit, processVars, SendInv, Sending, LegDone, Sides
<1>5. CASE Unwind(f)
  BY <1>5 DEF Unwind, Joined, Leave, SendInv, Sending, LegDone, Sides
<1> QED
  BY <1>1, <1>2, <1>3, <1>4, <1>5 DEF FeedStep, SendBasicArbitrageOrders

\* An account stays busy only while a leg has its request there.
LEMMA StepBusy ==
    ASSUME TypeOK, SendInv, BusyInv, [Next]_vars
    PROVE  BusyInv'
<1> USE DEF TypeOK
<1>1. ASSUME NEW f \in Feeds, leg[f] = NoLegs \/ \A s \in Sides : leg[f][s] \in LegDone,
             \A g \in Feeds \ {f} : sides'[g] = sides[g] /\ leg'[g] = leg[g],
             UNCHANGED busy
      PROVE  BusyInv'
  <2> SUFFICES ASSUME NEW a \in Accounts, busy[a]
               PROVE  \E g \in Feeds, t \in Sides : sides'[g][t] = a /\ leg'[g][t] \in InFlight
    BY <1>1 DEF BusyInv
  <2>1. PICK g \in Feeds, t \in Sides : sides[g][t] = a /\ leg[g][t] \in InFlight
    BY DEF BusyInv
  <2>2. g # f
    BY <1>1, <2>1 DEF NoLegs, InFlight, LegRunning, LegDone
  <2> QED
    BY <1>1, <2>1, <2>2
<1>2. CASE UNCHANGED <<busy, sides, leg>>
  BY <1>2 DEF BusyInv
<1>3. ASSUME NEW f \in Feeds, NEW p \in Pairs, NEW q \in Quotes, OnBookTicker(f, p, q)
      PROVE  BusyInv'
  <2>1. leg[f] = NoLegs /\ UNCHANGED <<leg, busy>>
    BY <1>3 DEF OnBookTicker, Sending, contractVars
  <2>2. \A g \in Feeds \ {f} : sides'[g] = sides[g]
    BY <1>3 DEF OnBookTicker
  <2> QED
    BY <1>1, <2>1, <2>2
<1>4. ASSUME NEW f \in Feeds, FeedStep(f) PROVE BusyInv'
  <2>1. UNCHANGED busy
    BY <1>4, FeedStepCases DEF contractVars
  <2>2. CASE UNCHANGED <<sides, leg>>
    BY <1>2, <2>1, <2>2
  <2>3. CASE UNCHANGED leg /\ pc[f] \notin Sending /\ sides' = [sides EXCEPT ![f] = NoSides]
    BY <1>1, <2>1, <2>3
  <2>4. CASE StartLegs(f)
    BY <1>1, <2>1, <2>4 DEF StartLegs, Sending
  <2>5. CASE Leave(f) /\ \A s \in Sides : leg[f][s] \in LegDone
    BY <1>1, <2>1, <2>5 DEF Leave
  <2> QED
    BY <1>4, <2>2, <2>3, <2>4, <2>5, FeedStepCases
<1>5. ASSUME NEW f \in Feeds, NEW s \in Sides, LimitOrder(f, s) PROVE BusyInv'
  <2>1. UNCHANGED sides
    BY <1>5, LegMoves DEF feedVars
  <2>2. ASSUME NEW state \in InFlight, leg' = [leg EXCEPT ![f][s] = state],
               \A a \in Accounts : busy'[a] => busy[a] \/ a = sides[f][s]
        PROVE  BusyInv'
    BY <2>1, <2>2 DEF BusyInv
  <2>3. ASSUME NEW state, leg' = [leg EXCEPT ![f][s] = state],
               busy' = [busy EXCEPT ![sides[f][s]] = FALSE], sides[f][s] \in Accounts
        PROVE  BusyInv'
    <3> SUFFICES ASSUME NEW a \in Accounts, busy[a], a # sides[f][s]
                 PROVE  \E g \in Feeds, t \in Sides : sides'[g][t] = a /\ leg'[g][t] \in InFlight
      BY <2>3 DEF BusyInv, ContractTypeOK
    <3>1. PICK g \in Feeds, t \in Sides : sides[g][t] = a /\ leg[g][t] \in InFlight
      BY DEF BusyInv
    <3> QED
      BY <2>1, <2>3, <3>1
  <2>4. CASE LegRequest(f, s)
    BY <2>2, <2>4 DEF LegRequest, LegTo, Request, InFlight, LegRunning, ContractTypeOK
  <2>5. CASE LegAccepted(f, s) \/ LegRefused(f, s) \/ LegReplyLost(f, s) \/ LegStored(f, s)
    <3>1. \E state \in InFlight : leg' = [leg EXCEPT ![f][s] = state]
      BY <2>5 DEF LegAccepted, LegRefused, LegReplyLost, LegStored, LegTo, InFlight, LegRunning
    <3>2. UNCHANGED busy
      BY <2>5 DEF LegAccepted, LegRefused, LegReplyLost, LegStored, Accept, Lose, Register,
         contractVars
    <3> QED
      BY <2>2, <3>1, <3>2
  <2>6. CASE LegThrown(f, s)
    <3>1. leg' = [leg EXCEPT ![f][s] = "thrown"]
      BY <2>6 DEF LegThrown, LegTo
    <3>2. busy' = [busy EXCEPT ![sides[f][s]] = FALSE] /\ sides[f][s] \in Accounts
      BY <2>6 DEF LegThrown, Throw
    <3> QED
      BY <2>3, <3>1, <3>2
  <2>7. CASE LegReturns(f, s)
    <3> DEFINE state == IF leg[f][s] = "stored" THEN "placed" ELSE "refused"
    <3>1. leg' = [leg EXCEPT ![f][s] = state]
      BY <2>7 DEF LegReturns, LegTo
    <3>2. busy' = [busy EXCEPT ![sides[f][s]] = FALSE] /\ sides[f][s] \in Accounts
      BY <2>7 DEF LegReturns, Return
    <3> HIDE DEF state
    <3> QED
      BY <2>3, <3>1, <3>2
  <2> QED
    BY <1>5, <2>4, <2>5, <2>6, <2>7 DEF LimitOrder
<1>6. CASE AccountStep
  BY <1>2, <1>6 DEF AccountStep, strategyVars, processVars, Refresh, Close, Forget
<1>7. CASE UNCHANGED vars
  BY <1>2, <1>7 DEF vars, strategyVars, processVars, contractVars
<1> QED
  BY <1>3, <1>4, <1>5, <1>6, <1>7 DEF Next

\* An order that awaits an answer was sent by the feed that sends, in every step.
LEMMA StepPending ==
    ASSUME TypeOK, ContractInv, SendInv, BusyInv, PendingInv, [Next]_vars
    PROVE  PendingInv'
<1> USE DEF TypeOK
<1>1. CASE UNCHANGED <<sentBy, ordersMutex>> /\ \A a \in Accounts : pending'[a] \subseteq pending[a]
  BY <1>1 DEF PendingInv
<1>2. ASSUME NEW f \in Feeds, NEW p \in Pairs, NEW q \in Quotes, OnBookTicker(f, p, q)
      PROVE  PendingInv'
  BY <1>1, <1>2 DEF OnBookTicker, contractVars
<1>3. ASSUME NEW f \in Feeds, FeedStep(f) PROVE PendingInv'
  <2>1. UNCHANGED <<pending, sentBy>>
    BY <1>3, FeedStepCases DEF contractVars
  <2>2. CASE UNCHANGED ordersMutex
    BY <1>1, <2>1, <2>2
  <2>3. CASE ordersMutex = NoFeed
    <3>1. \A a \in Accounts : pending[a] = {}
      BY <2>3, NothingPending, StrategyAssumption
    <3> QED
      BY <2>1, <3>1 DEF PendingInv
  <2>4. CASE ordersMutex = f /\ \A s \in Sides : leg[f][s] \in LegDone
    <3>1. \A a \in Accounts : pending[a] = {}
      BY <2>4, NothingPending DEF InFlight, LegRunning, LegDone
    <3> QED
      BY <2>1, <3>1 DEF PendingInv
  <2> QED
    BY <1>3, <2>2, <2>3, <2>4, FeedStepCases
<1>4. ASSUME NEW f \in Feeds, NEW s \in Sides, LimitOrder(f, s) PROVE PendingInv'
  <2>1. UNCHANGED ordersMutex
    BY <1>4, LegMoves DEF feedVars
  <2>2. CASE ~LegAccepted(f, s)
    <3>1. UNCHANGED sentBy /\ \A a \in Accounts : pending'[a] \subseteq pending[a]
      <4>1. CASE LegRequest(f, s) \/ LegRefused(f, s) \/ LegReturns(f, s)
        BY <4>1 DEF LegRequest, LegRefused, LegReturns, Request, Return, contractVars
      <4>2. CASE LegReplyLost(f, s) \/ LegThrown(f, s)
        <5>1. pending' = [pending EXCEPT ![sides[f][s]] = {}] /\ UNCHANGED sentBy
          BY <4>2 DEF LegReplyLost, LegThrown, Lose, Throw
        <5> QED
          BY <5>1 DEF ContractTypeOK
      <4>3. CASE LegStored(f, s)
        <5>1. PICK i \in Orders : pending' = [pending EXCEPT ![sides[f][s]] = @ \ {i}]
          BY <4>3 DEF LegStored, Register
        <5>2. UNCHANGED sentBy
          BY <4>3 DEF LegStored
        <5> QED
          BY <5>1, <5>2 DEF ContractTypeOK
      <4> QED
        BY <1>4, <2>2, <4>1, <4>2, <4>3 DEF LimitOrder
    <3> QED
      BY <1>1, <2>1, <3>1
  <2>3. CASE LegAccepted(f, s)
    <3> DEFINE a == sides[f][s]
               n == NewId(a)
    <3>1. a \in Accounts /\ n \in Orders
      BY <2>3 DEF LegAccepted, NewId
    <3>2. ordersMutex = f
      BY <2>3, LegsOfHolder DEF LegAccepted
    <3>3. /\ pending' = [pending EXCEPT ![a] = @ \cup {n}]
          /\ sentBy' = [sentBy EXCEPT ![a][n] = [feed |-> f, pair |-> pair[f]]]
      BY <2>3 DEF LegAccepted, Accept
    <3> HIDE DEF a, n
    <3> QED
      BY <2>1, <3>1, <3>2, <3>3 DEF PendingInv, ContractTypeOK
  <2> QED
    BY <2>2, <2>3
<1>5. CASE AccountStep
  BY <1>1, <1>5 DEF AccountStep, strategyVars, processVars, Refresh, Close, Forget
<1>6. CASE UNCHANGED vars
  BY <1>1, <1>6 DEF vars, strategyVars, processVars, contractVars
<1> QED
  BY <1>2, <1>3, <1>4, <1>5, <1>6 DEF Next

\* When the account manager of a answers that it has no orders of the pair, this
\* feed has none open there: its own are all answered, hence registered or lost.
LEMMA AnswerSound ==
    ASSUME TypeOK, ContractInv, SendInv, PendingInv,
           NEW f \in Feeds, pc[f] \notin Sending,
           NEW a \in Accounts, RegisteredOf(f, a) = {}
    PROVE  OpenOrders(a, f, pair[f]) = {}
<1> SUFFICES ASSUME NEW i \in live[a] \ lost[a],
                    sentBy[a][i] = [feed |-> f, pair |-> pair[f]]
             PROVE  FALSE
  BY DEF OpenOrders
<1>1. i \in registered[a] \/ i \in pending[a]
  BY DEF ContractInv, LiveKnown
<1>2. i \notin registered[a]
  BY DEF RegisteredOf
<1>3. ordersMutex = f
  BY <1>1, <1>2 DEF PendingInv
<1> QED
  BY <1>3 DEF SendInv

\* What a feed has learnt of an account stays true until it tries the mutex.
LEMMA StepChecked ==
    ASSUME TypeOK, ContractInv, SendInv, PendingInv, CheckedInv, [Next]_vars
    PROVE  CheckedInv'
<1> USE DEF TypeOK
<1>1. ASSUME NEW f \in Feeds, pc'[f] # "asking",
             \A g \in Feeds \ {f} :
                 pc'[g] = pc[g] /\ toAsk'[g] = toAsk[g] /\ pair'[g] = pair[g],
             UNCHANGED <<live, lost, sentBy>>
      PROVE  CheckedInv'
  <2> SUFFICES ASSUME NEW g \in Feeds, pc'[g] = "asking", NEW a \in Accounts \ toAsk'[g]
               PROVE  OpenOrders(a, g, pair[g])' = {}
    BY DEF CheckedInv
  <2>1. g # f
    BY <1>1
  <2>2. OpenOrders(a, g, pair[g]) = {}
    BY <1>1, <2>1 DEF CheckedInv
  <2>3. pair'[g] = pair[g]
    BY <1>1, <2>1
  <2> QED
    BY <1>1, <2>2, <2>3 DEF OpenOrders
<1>2. CASE /\ UNCHANGED <<pc, toAsk, pair, sentBy>>
           /\ \A a \in Accounts : live'[a] \ lost'[a] \subseteq live[a] \ lost[a]
  BY <1>2 DEF CheckedInv, OpenOrders
<1>3. ASSUME NEW f \in Feeds, NEW p \in Pairs, NEW q \in Quotes, OnBookTicker(f, p, q)
      PROVE  CheckedInv'
  BY <1>1, <1>3 DEF OnBookTicker, contractVars
<1>4. ASSUME NEW f \in Feeds, FeedStep(f) PROVE CheckedInv'
  <2>0. ASSUME GiveUp(f) PROVE CheckedInv'
    BY <1>1, <2>0 DEF GiveUp, contractVars
  <2>1. CASE BelowMinimum(f) \/ SkipLegs(f)
    BY <2>0, <2>1 DEF BelowMinimum, SkipLegs
  <2>2. CASE AskSynced(f) /\ ~GiveUp(f)
    <3>1. PICK s \in Sides :
            /\ pc' = [pc EXCEPT ![f] = IF s = "SELL" THEN "bid_synced" ELSE "asking"]
            /\ toAsk' = [toAsk EXCEPT ![f] = IF s = "SELL" THEN {} ELSE Accounts]
            /\ UNCHANGED <<pair, sentBy, contractVars>>
      BY <2>2 DEF AskSynced
    <3>2. CASE s = "SELL"
      BY <1>1, <3>1, <3>2 DEF contractVars
    <3>3. CASE s # "SELL"
      BY <3>1, <3>3 DEF CheckedInv, OpenOrders, contractVars
    <3> QED
      BY <3>2, <3>3
  <2>3. CASE AskOpenOrders(f) /\ ~GiveUp(f)
    <3>1. PICK a \in toAsk[f] :
            /\ RegisteredOf(f, a) = {}
            /\ toAsk' = [toAsk EXCEPT ![f] = @ \ {a}]
            /\ UNCHANGED <<pc, pair, sentBy, contractVars>>
      BY <2>3 DEF AskOpenOrders
    <3>2. OpenOrders(a, f, pair[f]) = {}
      BY <2>3, <3>1, AnswerSound DEF AskOpenOrders, Sending
    <3> QED
      BY <3>1, <3>2 DEF CheckedInv, OpenOrders, contractVars
  <2>4. CASE StartLegs(f)
    BY <1>1, <2>4 DEF StartLegs, contractVars
  <2>5. ASSUME Leave(f) PROVE CheckedInv'
    BY <1>1, <2>5 DEF Leave, contractVars
  <2>6. CASE Exit
    BY <1>2, <2>6 DEF Exit, processVars, contractVars
  <2>7. ASSUME NEW state \in Sending, PcTo(f, state) PROVE CheckedInv'
    BY <1>1, <2>7 DEF PcTo, Sending, contractVars
  <2>8. CASE SendBasicArbitrageOrders(f)
    BY <2>5, <2>6, <2>7, <2>8 DEF SendBasicArbitrageOrders, WaitSell, WaitBuy, Unwind, Sending
  <2> QED
    BY <1>4, <2>0, <2>1, <2>2, <2>3, <2>4, <2>8 DEF FeedStep
<1>5. ASSUME NEW f \in Feeds, NEW s \in Sides, LimitOrder(f, s) PROVE CheckedInv'
  <2>1. UNCHANGED <<pc, toAsk, pair>>
    BY <1>5, LegMoves DEF feedVars
  <2>2. CASE LegAccepted(f, s)
    <3> DEFINE a == sides[f][s]
               n == NewId(a)
    <3>1. a \in Accounts /\ n \in Orders
      BY <2>2 DEF LegAccepted, NewId
    <3>2. pc[f] \in Sending
      BY <2>2, LegsOfHolder DEF LegAccepted, SendInv
    <3>3. /\ live' = [live EXCEPT ![a] = @ \cup {n}]
          /\ sentBy' = [sentBy EXCEPT ![a][n] = [feed |-> f, pair |-> pair[f]]]
          /\ UNCHANGED lost
      BY <2>2 DEF LegAccepted, Accept
    <3> HIDE DEF a, n
    <3>4. SUFFICES ASSUME NEW g \in Feeds, pc[g] = "asking", NEW b \in Accounts \ toAsk[g],
                          NEW i \in live'[b] \ lost'[b],
                          sentBy'[b][i] = [feed |-> g, pair |-> pair[g]]
                   PROVE  FALSE
      BY <2>1 DEF CheckedInv, OpenOrders
    <3>5. g # f
      BY <3>2, <3>4 DEF Sending
    <3>6. ~(b = a /\ i = n)
      BY <3>1, <3>3, <3>4, <3>5
    <3>7. i \in live[b] \ lost[b] /\ sentBy'[b][i] = sentBy[b][i]
      BY <3>1, <3>3, <3>4, <3>6 DEF ContractTypeOK
    <3> QED
      BY <3>4, <3>7 DEF CheckedInv, OpenOrders
  <2>3. CASE LegReplyLost(f, s) \/ LegThrown(f, s)
    <3>1. /\ lost' = [lost EXCEPT ![sides[f][s]] = @ \cup pending[sides[f][s]]]
          /\ UNCHANGED <<live, sentBy>>
      BY <2>3 DEF LegReplyLost, LegThrown, Lose, Throw
    <3>2. \A a \in Accounts : live'[a] \ lost'[a] \subseteq live[a] \ lost[a]
      BY <3>1 DEF ContractTypeOK
    <3> QED
      BY <1>2, <2>1, <3>1, <3>2
  <2>4. CASE LegRequest(f, s) \/ LegRefused(f, s) \/ LegStored(f, s) \/ LegReturns(f, s)
    BY <1>2, <2>1, <2>4 DEF LegRequest, LegRefused, LegStored, LegReturns, Request, Register,
       Return, contractVars
  <2> QED
    BY <1>5, <2>2, <2>3, <2>4 DEF LimitOrder
<1>6. CASE AccountStep
  <2>1. UNCHANGED <<pc, toAsk, pair, sentBy>>
    BY <1>6 DEF AccountStep, strategyVars, processVars
  <2>2. /\ UNCHANGED lost
        /\ live' = live \/ \E a \in Accounts, i \in Orders : live' = [live EXCEPT ![a] = @ \ {i}]
    <3>1. PICK a \in Accounts : Refresh(a) \/ \E i \in Orders : Close(a, i) \/ Forget(a, i)
      BY <1>6 DEF AccountStep
    <3> QED
      BY <3>1 DEF Refresh, Close, Forget
  <2>3. \A a \in Accounts : live'[a] \ lost'[a] \subseteq live[a] \ lost[a]
    <3>1. CASE live' = live
      BY <2>2, <3>1
    <3>2. ASSUME NEW b \in Accounts, NEW i \in Orders, live' = [live EXCEPT ![b] = @ \ {i}],
                 NEW a \in Accounts
          PROVE  live'[a] \subseteq live[a]
      <4>1. live \in [Accounts -> SUBSET Orders]
        BY DEF ContractTypeOK
      <4> QED
        BY <3>2, <4>1
    <3> QED
      BY <2>2, <3>1, <3>2
  <2> QED
    BY <1>2, <2>1, <2>3
<1>7. CASE UNCHANGED vars
  BY <1>2, <1>7 DEF vars, strategyVars, processVars, contractVars
<1> QED
  BY <1>3, <1>4, <1>5, <1>6, <1>7 DEF Next

(***************************************************************************)
(* The theorems                                                            *)
(***************************************************************************)

\* The invariant holds at the start.
LEMMA InitInv == Init => Inv
<1> SUFFICES ASSUME Init PROVE Inv
  OBVIOUS
<1>1. TypeOK /\ ContractInv
  BY InitType, ContractInitInv DEF Init
<1>2. SendInv
  BY StrategyAssumption DEF Init, SendInv, Sending
<1>3. BusyInv /\ PendingInv
  BY DEF Init, ContractInit, BusyInv, PendingInv
<1>4. CheckedInv
  BY DEF Init, CheckedInv
<1> QED
  BY <1>1, <1>2, <1>3, <1>4 DEF Inv

\* Every step preserves it.
LEMMA StepInv == Inv /\ [Next]_vars => Inv'
<1> SUFFICES ASSUME Inv, [Next]_vars PROVE Inv'
  OBVIOUS
<1>1. ContractInv'
  BY StepsOfContract, ContractStepInv DEF Inv
<1>2. TypeOK'
  BY <1>1, StepType DEF Inv, ContractInv
<1> QED
  BY <1>1, <1>2, StepSend, StepBusy, StepPending, StepChecked DEF Inv

\* The inductive invariant, of which the theorems are consequences.
LEMMA Invariant == Spec => []Inv
  BY InitInv, StepInv, PTL DEF Spec

\* Every reachable state of the feeds, the legs and the accounts is well typed, and
\* only a feed that sends has legs.
THEOREM TypeCorrect == Spec => []TypeOK
<1>1. Inv => TypeOK
  BY DEF Inv
<1> QED
  BY <1>1, Invariant, PTL

\* The strategy uses every account as its contract says, so that what AccountManager
\* implements is all it relies on.
THEOREM UsesContract == Spec => ContractSpec
<1>1. Init => ContractInit
  BY DEF Init
<1>2. Inv /\ [Next]_vars => [ContractNext]_contractVars
  BY StepsOfContract DEF Inv
<1> QED
  BY <1>1, <1>2, Invariant, PTL DEF Spec, ContractSpec

\* Only the thread that holds m_orders_mutex has orders under way, those that an
\* exception has left behind included.
THEOREM OnlyHolderSendsCorrect == Spec => []OnlyHolderSends
<1>1. Inv => OnlyHolderSends
  BY LegsOfHolder DEF Inv, OnlyHolderSends
<1> QED
  BY <1>1, Invariant, PTL

\* m_orders_mutex is never left locked.
THEOREM OrdersMutexNotLeakedCorrect == Spec => []OrdersMutexNotLeaked
<1>1. Inv => OrdersMutexNotLeaked
  BY DEF Inv, SendInv, OrdersMutexNotLeaked
<1> QED
  BY <1>1, Invariant, PTL

\* The mutex is taken by StartLegs, and given back by the return of the buy order or
\* by an exception.
LEMMA HolderChanges ==
    ASSUME Inv, [Next]_vars, ordersMutex' # ordersMutex
    PROVE  \E f \in Feeds :
              \/ StartLegs(f) /\ ordersMutex = NoFeed
              \/ /\ ordersMutex = f
                 /\ (WaitBuy(f) /\ Leave(f)) \/ Unwind(f)
<1>1. PICK f \in Feeds : FeedStep(f)
  BY LegMoves DEF Next, OnBookTicker, AccountStep, vars, strategyVars, processVars, feedVars
<1>2. UNCHANGED ordersMutex \/ StartLegs(f) \/ (WaitBuy(f) /\ Leave(f)) \/ Unwind(f)
  BY <1>1 DEF FeedStep, BelowMinimum, AskSynced, AskOpenOrders, SkipLegs, GiveUp,
     SendBasicArbitrageOrders, WaitSell, WaitBuy, PcTo, Exit, processVars
<1>3. StartLegs(f) => ordersMutex = NoFeed
  BY DEF StartLegs, TryLock
<1>4. WaitBuy(f) \/ Unwind(f) => ordersMutex = f
  BY DEF WaitBuy, Unwind, Inv, SendInv, Sending
<1> QED
  BY <1>2, <1>3, <1>4

\* A feed never begins an arbitrage on a pair while an order it sent for that pair,
\* and whose reply arrived, is open on any account.
THEOREM OneArbitragePerFeedCorrect == Spec => OneArbitragePerFeed
<1>1. ASSUME Inv, [Next]_vars, NEW f \in Feeds, Begins(f), NEW a \in Accounts
      PROVE  OpenOrders(a, f, pair[f]) = {}
  <2>1. ordersMutex' = f /\ ordersMutex # f
    BY <1>1 DEF Begins
  <2>2. PICK g \in Feeds : \/ StartLegs(g)
                           \/ (WaitBuy(g) /\ Leave(g)) \/ Unwind(g)
    BY <1>1, <2>1, HolderChanges
  <2>3. StartLegs(g) /\ g = f
    BY <2>1, <2>2, StrategyAssumption DEF Unwind, Leave, MutexAfter, StartLegs
  <2>4. pc[f] = "asking" /\ toAsk[f] = {}
    BY <2>3 DEF StartLegs
  <2> QED
    BY <1>1, <2>4 DEF Inv, CheckedInv
<1>2. Inv /\ [Next]_vars =>
        [\A f \in Feeds : Begins(f) => \A a \in Accounts : OpenOrders(a, f, pair[f]) = {}]_vars
  BY <1>1
<1> QED
  BY <1>2, Invariant, PTL DEF Spec, OneArbitragePerFeed

\* An arbitrage that is over, with the process still running, has placed both orders
\* or has thrown.
THEOREM EndsPairedOrThrownCorrect == Spec => EndsPairedOrThrown
<1>1. ASSUME Inv, [Next]_vars, NEW f \in Feeds, ordersMutex = f, ordersMutex' # f
      PROVE  \/ \A s \in Sides : leg[f][s] = "placed"
             \/ \E s \in Sides : leg[f][s] = "thrown"
  <2>1. PICK g \in Feeds : \/ StartLegs(g) /\ ordersMutex = NoFeed
                           \/ ordersMutex = g /\ ((WaitBuy(g) /\ Leave(g)) \/ Unwind(g))
    BY <1>1, HolderChanges
  <2>2. (WaitBuy(f) /\ Leave(f)) \/ Unwind(f)
    BY <1>1, <2>1, StrategyAssumption
  <2>3. CASE Unwind(f)
    BY <1>1, <2>3 DEF Unwind, Inv, SendInv, Sides
  <2>4. CASE WaitBuy(f) /\ Leave(f)
    <3>1. leg[f]["SELL"] = "placed"
      BY <1>1, <2>4 DEF WaitBuy, Inv, SendInv
    <3>2. leg[f]["BUY"] # "refused"
      BY <1>1, <2>4, StrategyAssumption DEF WaitBuy, BuyFailed, Exit, processVars
    <3>3. leg[f]["BUY"] \in LegDone
      BY <2>4 DEF WaitBuy
    <3> QED
      BY <3>1, <3>2, <3>3 DEF LegDone, Sides
  <2> QED
    BY <2>2, <2>3, <2>4
<1>2. Inv /\ [Next]_vars =>
        [\A f \in Feeds : ordersMutex = f /\ ordersMutex' # f =>
            \/ \A s \in Sides : leg[f][s] = "placed"
            \/ \E s \in Sides : leg[f][s] = "thrown"]_vars
  BY <1>1
<1> QED
  BY <1>2, Invariant, PTL DEF Spec, EndsPairedOrThrown
===============================================================================
