-------------------------- MODULE ArbitrageStrategy --------------------------
(***************************************************************************)
(* ArbitrageStrategy (strategy/arbitrage/arbitrage_strategy.hpp) over      *)
(* accounts that keep AccountContract.                                     *)
(*                                                                         *)
(* Every exchange has one ticker stream, whose thread (a feed, named after *)
(* its exchange) runs OnBookTicker: it stores the ticker, looks for a      *)
(* match, asks the account managers whether they are synced and have open  *)
(* orders, and sends one order to each of the two exchanges from two       *)
(* std::async threads (the legs).  The feeds share the tickers, the        *)
(* account managers and m_orders_mutex; the checks are made before the     *)
(* mutex is tried.                                                         *)
(*                                                                         *)
(* The MEAN_REVERSION_SIGNAL branches are not compiled by the Makefile.    *)
(***************************************************************************)
EXTENDS ArbitrageOrders, AccountContract

CONSTANTS
    Pairs,      \* symbol pairs
    Quotes,     \* the tickers an exchange may send
    NoFeed,     \* m_orders_mutex is free
    MaxFailures \* bound on the requests that lose their reply or throw

Feeds == Exchanges
Sides == {"SELL", "BUY"}

\* Where a leg is in LimitOrder; a leg that is done has set its future.
LegRunning == {"start", "request", "reply", "resent", "last_reply", "stored", "failed"}
LegDone == {"placed", "refused", "thrown"}

\* Where a feed is in OnBookTicker.
Checking == {"matched", "bid_synced", "asking"}
Sending == {"wait_sell", "wait_buy", "unwind"}

ASSUME StrategyAssumption ==
    /\ Accounts \subseteq Exchanges /\ Accounts # {}
    /\ Pairs # {}
    /\ Quotes \subseteq Ticker
    /\ NoFeed \notin Feeds
    /\ MaxFailures \in Nat

VARIABLES
    running,        \* the process has not called std::exit
    tickers,        \* tickers[p]: m_tickers[p], by exchange
    ordersMutex,    \* holder of m_orders_mutex
    pc,             \* pc[f]: where feed f is
    pair,           \* pair[f]: the pair f works on
    sides,          \* sides[f]: the exchange f sells on and the one it buys on
    toAsk,          \* toAsk[f]: account managers HasOpenOrders has still to ask
    leg,            \* leg[f]: the legs of f
    sentBy,         \* history: sentBy[a][i] is who sent order i to account a
    failures        \* history: requests that lost their reply or threw

processVars == <<tickers, ordersMutex, pc, pair, sides, toAsk, leg, sentBy,
                 failures>>
strategyVars == <<running, processVars>>
vars == <<strategyVars, contractVars>>

NoLegs == [s \in Sides |-> "none"]
NoSides == [s \in Sides |-> CHOOSE a \in Accounts : TRUE]
Nobody == [feed |-> NoFeed, pair |-> CHOOSE p \in Pairs : TRUE]

(***************************************************************************)
(* OnBookTicker                                                            *)
(***************************************************************************)

\* A match between exchanges with an account manager.
Tradable(t) == HasMatch(t) /\ {BestBid(t), BestAsk(t)} \subseteq Accounts

\* The ticker is stored and FindMatch runs under m_tickers_lock.  A match goes on
\* unless one of its tickers is too old or came too late, which is left open: a
\* stored ticker may be of any age, those of a closed connection included.
OnBookTicker(f, p, quote) ==
    /\ pc[f] = "idle"
    /\ LET t == [e \in DOMAIN tickers[p] \cup {f} |-> IF e = f THEN quote ELSE tickers[p][e]]
       IN  /\ tickers' = [tickers EXCEPT ![p] = t]
           /\ \/ UNCHANGED <<pc, pair, sides>>
              \/ /\ Tradable(t)
                 /\ pc' = [pc EXCEPT ![f] = "matched"]
                 /\ pair' = [pair EXCEPT ![f] = p]
                 /\ sides' = [sides EXCEPT ![f] = [SELL |-> BestBid(t), BUY |-> BestAsk(t)]]
    /\ UNCHANGED <<running, ordersMutex, toAsk, leg, sentBy, failures, contractVars>>

\* OnBookTicker returns without having sent anything.
GiveUp(f) ==
    /\ pc' = [pc EXCEPT ![f] = "idle"]
    /\ pair' = [pair EXCEPT ![f] = Nobody.pair]
    /\ sides' = [sides EXCEPT ![f] = NoSides]
    /\ toAsk' = [toAsk EXCEPT ![f] = {}]
    /\ UNCHANGED <<running, tickers, ordersMutex, leg, sentBy, failures,
                   contractVars>>

\* The free balances or the volumes allow less than min_amount.
BelowMinimum(f) == pc[f] = "matched" /\ GiveUp(f)

\* IsAccountSynced() of the exchange to sell on, then of the one to buy on.
AskSynced(f) ==
    \E s \in Sides :
        /\ pc[f] = IF s = "SELL" THEN "matched" ELSE "bid_synced"
        /\ \/ ~isSynced[sides[f][s]] /\ GiveUp(f)
           \/ /\ isSynced[sides[f][s]]
              /\ pc' = [pc EXCEPT ![f] = IF s = "SELL" THEN "bid_synced" ELSE "asking"]
              /\ toAsk' = [toAsk EXCEPT ![f] = IF s = "SELL" THEN {} ELSE Accounts]
              /\ UNCHANGED <<running, tickers, ordersMutex, pair, sides, leg,
                             sentBy, failures, contractVars>>

\* The orders m_our_orders of account a has of pair p.
\* Mutant: the orders of the feed's own exchange only.
RegisteredHere(f, a) ==
    {i \in registered[a] : a = f /\ sentBy[a][i].pair = pair[f]}
RegisteredOf(f, a) ==
    {i \in registered[a] : sentBy[a][i].pair = pair[f]}

\* HasOpenOrders(pair) of one account manager after the other.
AskOpenOrders(f) ==
    /\ pc[f] = "asking"
    /\ \E a \in toAsk[f] :
          \/ RegisteredOf(f, a) # {} /\ GiveUp(f)
          \/ /\ RegisteredOf(f, a) = {}
             /\ toAsk' = [toAsk EXCEPT ![f] = @ \ {a}]
             /\ UNCHANGED <<running, tickers, ordersMutex, pc, pair, sides, leg,
                            sentBy, failures, contractVars>>

\* lock_obj.try_lock()
\* Mutant: its result is not looked at.
TryLockIgnored == TRUE
TryLock == ordersMutex = NoFeed

\* The legs start.
StartLegs(f) ==
    /\ pc[f] = "asking" /\ toAsk[f] = {}
    /\ TryLock
    /\ ordersMutex' = f
    /\ pc' = [pc EXCEPT ![f] = "wait_sell"]
    /\ leg' = [leg EXCEPT ![f] = [s \in Sides |-> "start"]]
    /\ UNCHANGED <<running, tickers, pair, sides, toAsk, sentBy, failures,
                   contractVars>>

\* Another thread is sending orders.
SkipLegs(f) ==
    /\ pc[f] = "asking" /\ toAsk[f] = {}
    /\ ~TryLock
    /\ GiveUp(f)

(***************************************************************************)
(* The legs: LimitOrder of an account manager, in a std::async thread      *)
(***************************************************************************)

feedVars == <<running, tickers, ordersMutex, pc, pair, sides, toAsk>>

LegTo(f, s, state) ==
    /\ leg' = [leg EXCEPT ![f][s] = state]
    /\ UNCHANGED feedVars

LegRequest(f, s) ==
    /\ leg[f][s] = "start"
    /\ Request(sides[f][s])
    /\ LegTo(f, s, "request")
    /\ UNCHANGED <<sentBy, failures>>

\* Which id the exchange gives to an order is of no consequence.
NewId(a) == CHOOSE i \in Orders : i \notin accepted[a]

LegAccepted(f, s) ==
    /\ leg[f][s] \in {"request", "resent"}
    /\ LET a == sides[f][s] IN
       /\ Orders \ accepted[a] # {}
       /\ Accept(a, NewId(a))
       /\ sentBy' = [sentBy EXCEPT ![a][NewId(a)] = [feed |-> f, pair |-> pair[f]]]
    /\ LegTo(f, s, IF leg[f][s] = "request" THEN "reply" ELSE "last_reply")
    /\ UNCHANGED failures

LegRefused(f, s) ==
    /\ leg[f][s] \in {"request", "resent"}
    /\ LegTo(f, s, "failed")
    /\ UNCHANGED <<sentBy, failures, contractVars>>

Fail ==
    /\ failures < MaxFailures
    /\ failures' = failures + 1

\* HttpClient::send sends the request once more.
LegReplyLost(f, s) ==
    /\ leg[f][s] \in {"reply", "last_reply"}
    /\ Lose(sides[f][s])
    /\ LegTo(f, s, IF leg[f][s] = "reply" THEN "resent" ELSE "failed")
    /\ Fail
    /\ UNCHANGED sentBy

LegThrown(f, s) ==
    /\ leg[f][s] \in {"request", "reply", "resent", "last_reply"}
    /\ Throw(sides[f][s])
    /\ LegTo(f, s, "thrown")
    /\ Fail
    /\ UNCHANGED sentBy

LegStored(f, s) ==
    /\ leg[f][s] \in {"reply", "last_reply"}
    /\ \E i \in Orders : Register(sides[f][s], i)
    /\ LegTo(f, s, "stored")
    /\ UNCHANGED <<sentBy, failures>>

LegReturns(f, s) ==
    /\ leg[f][s] \in {"stored", "failed"}
    /\ Return(sides[f][s])
    /\ LegTo(f, s, IF leg[f][s] = "stored" THEN "placed" ELSE "refused")
    /\ UNCHANGED <<sentBy, failures>>

LimitOrder(f, s) ==
    \/ LegRequest(f, s) \/ LegAccepted(f, s)
    \/ LegRefused(f, s) \/ LegReplyLost(f, s) \/ LegThrown(f, s)
    \/ LegStored(f, s) \/ LegReturns(f, s)

(***************************************************************************)
(* SendBasicArbitrageOrders waits for the legs                             *)
(***************************************************************************)

\* std::exit(1): every thread stops where it is.
Exit ==
    /\ running' = FALSE
    /\ UNCHANGED <<processVars, contractVars>>

\* Mutant: lock_obj is not released when an exception leaves OnBookTicker.
MutexKeptByThrow(f) ==
    IF \E s \in Sides : leg[f][s] = "thrown" THEN ordersMutex ELSE NoFeed
MutexAfter(f) == NoFeed

\* OnBookTicker returns, or an exception leaves it; on_message catches that.
Leave(f) ==
    /\ pc' = [pc EXCEPT ![f] = "idle"]
    /\ pair' = [pair EXCEPT ![f] = Nobody.pair]
    /\ sides' = [sides EXCEPT ![f] = NoSides]
    /\ ordersMutex' = MutexAfter(f)
    /\ leg' = [leg EXCEPT ![f] =
          [s \in Sides |-> IF leg[f][s] \in LegDone THEN "none" ELSE leg[f][s]]]
    /\ UNCHANGED <<running, tickers, toAsk, sentBy, failures, contractVars>>

PcTo(f, state) ==
    /\ pc' = [pc EXCEPT ![f] = state]
    /\ UNCHANGED <<running, tickers, ordersMutex, pair, sides, toAsk, leg, sentBy,
                   failures, contractVars>>

\* f1.get()
WaitSell(f) ==
    /\ pc[f] = "wait_sell"
    /\ \/ leg[f]["SELL"] = "placed" /\ PcTo(f, "wait_buy")
       \/ leg[f]["SELL"] = "refused" /\ Exit
       \/ leg[f]["SELL"] = "thrown" /\ PcTo(f, "unwind")

\* Mutant: the result of the second order is not looked at.
BuyFailureIgnored(f) == FALSE
BuyFailed(f) == leg[f]["BUY"] = "refused"

\* f2.get()
WaitBuy(f) ==
    /\ pc[f] = "wait_buy"
    /\ leg[f]["BUY"] \in LegDone
    /\ IF BuyFailed(f) THEN Exit ELSE Leave(f)

\* Mutant: the futures do not join their threads.
UnwindAtOnce(f) == TRUE
\* The destructor of the future of std::async waits for the other leg.
Joined(f) == leg[f]["BUY"] \in LegDone

Unwind(f) ==
    /\ pc[f] = "unwind"
    /\ Joined(f)
    /\ Leave(f)

SendBasicArbitrageOrders(f) == WaitSell(f) \/ WaitBuy(f) \/ Unwind(f)

(***************************************************************************)
(* Specification                                                           *)
(***************************************************************************)

\* What else happens to the accounts.
AccountStep ==
    /\ \E a \in Accounts : Refresh(a) \/ \E i \in Orders : Close(a, i) \/ Forget(a, i)
    /\ UNCHANGED strategyVars

Init ==
    /\ ContractInit
    /\ running = TRUE
    /\ tickers = [p \in Pairs |-> [e \in {} |-> 0]]
    /\ ordersMutex = NoFeed
    /\ pc = [f \in Feeds |-> "idle"]
    /\ pair = [f \in Feeds |-> Nobody.pair]
    /\ sides = [f \in Feeds |-> NoSides]
    /\ toAsk = [f \in Feeds |-> {}]
    /\ leg = [f \in Feeds |-> NoLegs]
    /\ sentBy = [a \in Accounts |-> [i \in Orders |-> Nobody]]
    /\ failures = 0

FeedStep(f) ==
    \/ BelowMinimum(f) \/ AskSynced(f) \/ AskOpenOrders(f)
    \/ StartLegs(f) \/ SkipLegs(f) \/ SendBasicArbitrageOrders(f)

Next ==
    /\ running
    /\ \/ \E f \in Feeds, p \in Pairs, q \in Quotes : OnBookTicker(f, p, q)
       \/ \E f \in Feeds : FeedStep(f)
       \/ \E f \in Feeds, s \in Sides : LimitOrder(f, s)
       \/ AccountStep

Spec == Init /\ [][Next]_vars

(***************************************************************************)
(* Properties                                                              *)
(***************************************************************************)

TypeOK ==
    /\ ContractTypeOK
    /\ running \in BOOLEAN
    /\ tickers \in [Pairs -> UNION {[E -> Quotes] : E \in SUBSET Exchanges}]
    /\ ordersMutex \in Feeds \cup {NoFeed}
    /\ pc \in [Feeds -> {"idle"} \cup Checking \cup Sending]
    /\ pair \in [Feeds -> Pairs]
    /\ sides \in [Feeds -> [Sides -> Accounts]]
    /\ toAsk \in [Feeds -> SUBSET Accounts]
    /\ leg \in [Feeds -> [Sides -> {"none"} \cup LegRunning \cup LegDone]]
    /\ \A f \in Feeds : pc[f] \notin Sending => leg[f] = NoLegs
    /\ sentBy \in [Accounts -> [Orders -> [feed : Feeds \cup {NoFeed}, pair : Pairs]]]
    /\ failures \in 0 .. MaxFailures

\* The orders that are open at account a, were sent by feed f for pair p, and whose
\* reply arrived.
OpenOrders(a, f, p) ==
    {i \in live[a] \ lost[a] : sentBy[a][i] = [feed |-> f, pair |-> p]}

Begins(f) == ordersMutex # f /\ ordersMutex' = f

\* A feed never begins an arbitrage while an order of an earlier one of its own on
\* this pair is open on any exchange: with n feeds there are at most n arbitrages
\* open per pair, although requests, replies, refreshes and closings go on between
\* the checks and the lock.
OneArbitragePerFeed ==
    [][\A f \in Feeds : Begins(f) => \A a \in Accounts : OpenOrders(a, f, pair[f]) = {}]_vars

\* "Only one thread can send orders at any given point" (arbitrage_strategy.hpp:138),
\* including the legs a thread has left behind by an exception.
OnlyHolderSends ==
    \A f \in Feeds, s \in Sides : leg[f][s] # "none" => ordersMutex = f

\* The process goes on after an arbitrage only if both orders were placed or a
\* request threw: an error result for one of them ends it.
EndsPairedOrThrown ==
    [][\A f \in Feeds : ordersMutex = f /\ ordersMutex' # f =>
          \/ \A s \in Sides : leg[f][s] = "placed"
          \/ \E s \in Sides : leg[f][s] = "thrown"]_vars

\* m_orders_mutex is never held by a feed that has left the arbitrage, whatever
\* became of its orders: an exception does not leave it locked for good.
OrdersMutexNotLeaked ==
    \A f \in Feeds : ordersMutex = f => pc[f] \in Sending

\* "Not doing basic arbitrage since there are already open orders for" the pair
\* (arbitrage_strategy.hpp:133): an arbitrage begins only when no order of this
\* process for the pair is open.
NoArbitrageWhileOpen ==
    [][\A f \in Feeds : Begins(f) =>
          \A a \in Accounts, g \in Feeds : OpenOrders(a, g, pair[f]) = {}]_vars
=============================================================================
