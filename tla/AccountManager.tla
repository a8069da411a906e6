--------------------------- MODULE AccountManager ---------------------------
(***************************************************************************)
(* AccountManagerImpl (src/src/exchange/account_manager_impl.cc): one      *)
(* exchange account as the trading process sees it.                        *)
(*                                                                         *)
(* Three kinds of threads use it.  Senders (the strategy's std::async      *)
(* tasks) place orders over REST, refreshers (AccountRefresher) replace    *)
(* the cached balance by a REST snapshot, and the user data stream thread  *)
(* runs OnConnectionOpen, OnOrderUpdate and OnAccountBalanceUpdate.  All   *)
(* of them hold m_order_mutex for the length of the operation, REST calls  *)
(* included; the getters the strategy polls do not take it, so every step  *)
(* between two stores a getter can see is an action of its own.            *)
(*                                                                         *)
(* Amounts are symbolic.  The locked map is kept as the number of times    *)
(* each order's amount is included in it, and the total map as the number  *)
(* of executed units of each order included in it: the double the code     *)
(* stores is the sum over the orders of that number times the amount.      *)
(***************************************************************************)
EXTENDS Integers, Sequences

CONSTANTS
    OwnIds,         \* ids the exchange gives to the orders this process sends
    ExtIds,         \* ids of the orders somebody else places on the account
    Known,          \* the ids whose trading pair the symbol table knows
    Exact,          \* the ids whose events repeat the price and quantity sent
    Senders,        \* threads that call LimitOrder or MarketOrder
    Refreshers,     \* AccountRefresher threads; bounds connections per process
    Stream,         \* the thread of the user data stream
    NoThread,       \* m_order_mutex is free
    NoOrder,        \* no REST reply carries an order
    MaxFailures,    \* bound on the failures (lost replies, crashes) of a run
    MaxEvents       \* bound on the frames waiting when the exchange moves by itself

Ids == OwnIds \cup ExtIds
Threads == Senders \cup Refreshers \cup {Stream}

\* An order is executed in at most this many parts.
Units == 2

\* The price an Order object carries: the one passed to LimitOrder, or the one
\* of a user data event or of GetOpenOrders.
Prices == {"asked", "reported"}

Open == {"NEW", "PARTIALLY_FILLED"}
Closed == {"FILLED", "CANCELED", "EXPIRED", "REJECTED"}
Status == {"none"} \cup Open \cup Closed

\* Where each kind of thread holds m_order_mutex.
SenderLocked == {"request", "reply", "lock", "finish", "failed"}
RefresherLocked == {"request", "assign", "replay_external", "replay_our"}
StreamLocked == {"request", "reply", "close"}

Executions == [Ids -> 0 .. Units]
OrderFrames == [kind : {"order"}, id : Ids, status : Status]
PositionFrames == [kind : {"position"}, executed : Executions]

ASSUME ConstantsAssumption ==
    /\ OwnIds \cap ExtIds = {}
    /\ Known \subseteq Ids /\ Exact \subseteq Ids
    /\ OwnIds \subseteq Known
    /\ Senders \cap Refreshers = {}
    /\ Stream \notin Senders \cup Refreshers
    /\ NoThread \notin Threads
    /\ NoOrder \notin Ids
    /\ MaxFailures \in Nat
    /\ MaxEvents \in Nat

VARIABLES
    \* The exchange.
    exch,       \* exch[i]: status of order i at the exchange
    executed,   \* executed[i]: units of order i the exchange has executed
    events,     \* user data frames sent to the open connection, not yet handled
    \* The threads of the process.
    mutex,      \* holder of m_order_mutex
    sender,     \* where each sender is in LimitOrder
    refresher,  \* where each refresher is in RefreshAccountBalance
    stream,     \* what the user data stream thread is doing
    \* REST replies on the stack of the thread that holds the mutex.
    attempt,    \* request.m_retries of the order request
    sent,       \* the order the exchange accepted and answers with
    snapshot,   \* the balance GetAccountBalance returns
    openOrders, \* the orders GetOpenOrders returns
    \* The fields of AccountManagerImpl.
    our,        \* m_our_orders: the price the stored order carries, or "absent"
    ext,        \* m_external_orders
    locked,     \* m_account_balance.m_locked_balance_map
    total,      \* m_account_balance.m_asset_balance_map
    synced,     \* m_is_account_synced
    \* History: not in the code, read by properties and bounds only.
    leaked,     \* amounts whose order m_external_orders.clear() dropped
    orphans,    \* own orders whose reply never reached this process
    failures    \* failures so far

exchVars == <<exch, executed, events>>
threadVars == <<mutex, sender, refresher, stream>>
restVars == <<attempt, sent, snapshot, openOrders>>
bookVars == <<our, ext>>
balanceVars == <<locked, total>>
historyVars == <<leaked, orphans, failures>>
vars == <<exchVars, threadVars, restVars, bookVars, balanceVars, synced, historyVars>>

IsOpen(i) == exch[i] \in Open
NoExecutions == [i \in Ids |-> 0]
NoLocks == [i \in Ids |-> [p \in Prices |-> 0]]

(***************************************************************************)
(* Balances                                                                *)
(***************************************************************************)

\* Orders of Exact lock the same amount whichever price the object carries.
Amount(i, price) == IF i \in Exact THEN "asked" ELSE price

\* AdjustLockedBalance adds or subtracts the amount of the given Order object.
AdjustLockedBalance(l, i, price, n) == [l EXCEPT ![i][Amount(i, price)] = @ + n]

\* What the orders stored in each map should have locked of order i at price p.
OurLock(i, p) == IF our[i] # "absent" /\ Amount(i, our[i]) = p THEN 1 ELSE 0
ExtLock(i, p) == IF i \in ext /\ Amount(i, "reported") = p THEN 1 ELSE 0

(***************************************************************************)
(* The exchange                                                            *)
(***************************************************************************)

Connected == stream # "down"

\* Binance sends an executionReport, then the outboundAccountPosition after it.
Send(q, i, s, ex) ==
    LET order == [kind |-> "order", id |-> i, status |-> s]
        position == [kind |-> "position", executed |-> ex]
    IN  Append(Append(q, order), position)

\* The exchange moves order i to status s with ex executed; without a
\* connection the frames are lost.
Report(i, s, ex) ==
    /\ exch' = [exch EXCEPT ![i] = s]
    /\ executed' = ex
    /\ events' = IF Connected THEN Send(events, i, s, ex) ELSE events

ProcessUnchanged ==
    UNCHANGED <<threadVars, restVars, bookVars, balanceVars, synced, historyVars>>

Unhurried == Len(events) < MaxEvents

PlaceExternal(i) ==
    /\ Unhurried
    /\ exch[i] = "none"
    /\ Report(i, "NEW", executed)
    /\ ProcessUnchanged

Execute(i) ==
    /\ Unhurried
    /\ IsOpen(i)
    /\ LET n == executed[i] + 1 IN
       Report(i, IF n = Units THEN "FILLED" ELSE "PARTIALLY_FILLED",
              [executed EXCEPT ![i] = n])
    /\ ProcessUnchanged

\* An order of ours that is rejected is refused in the reply to the request.
CloseOrder(i, s) ==
    /\ Unhurried
    /\ IsOpen(i)
    /\ s \in {"CANCELED", "EXPIRED"} \/ (s = "REJECTED" /\ i \in ExtIds /\ exch[i] = "NEW")
    /\ Report(i, s, executed)
    /\ ProcessUnchanged

(***************************************************************************)
(* LimitOrder and MarketOrder                                              *)
(***************************************************************************)

\* The caller polls IsAccountSynced some time before it places an order.
Decide(t) ==
    /\ sender[t] = "idle"
    /\ synced
    /\ sender' = [sender EXCEPT ![t] = "decided"]
    /\ UNCHANGED <<exchVars, mutex, refresher, stream, restVars, bookVars,
                   balanceVars, synced, historyVars>>

\* Mutant: the request leaves m_is_account_synced alone.
SyncedDuringRequestKept == synced
SyncedDuringRequest == FALSE

SendBegin(t) ==
    /\ sender[t] = "decided"
    /\ mutex = NoThread
    /\ mutex' = t
    /\ synced' = SyncedDuringRequest
    /\ sender' = [sender EXCEPT ![t] = "request"]
    /\ UNCHANGED <<exchVars, refresher, stream, restVars, bookVars, balanceVars,
                   historyVars>>

\* The exchange accepts the order; its events may overtake the reply.
SendAccepted(t, i) ==
    /\ sender[t] = "request"
    /\ exch[i] = "none"
    /\ Report(i, "NEW", executed)
    /\ sent' = i
    /\ sender' = [sender EXCEPT ![t] = "reply"]
    /\ UNCHANGED <<mutex, refresher, stream, attempt, snapshot, openOrders,
                   bookVars, balanceVars, synced, historyVars>>

\* The reply is an error message, or no connection could be made.
SendRefused(t) ==
    /\ sender[t] = "request"
    /\ sender' = [sender EXCEPT ![t] = "failed"]
    /\ UNCHANGED <<exchVars, mutex, refresher, stream, restVars, bookVars,
                   balanceVars, synced, historyVars>>

\* HttpClient::send fails reading the reply and sends the request once more.
SendReplyLost(t) ==
    /\ sender[t] = "reply"
    /\ failures < MaxFailures
    /\ failures' = failures + 1
    /\ orphans' = orphans \cup {sent}
    /\ sent' = NoOrder
    /\ attempt' = 1
    /\ sender' = [sender EXCEPT ![t] = IF attempt = 0 THEN "request" ELSE "failed"]
    /\ UNCHANGED <<exchVars, mutex, refresher, stream, snapshot, openOrders,
                   bookVars, balanceVars, synced, leaked>>

\* The reply, to an accepted order or not, is no JSON: json::parse throws through
\* LimitOrder to the caller.
SendReplyGarbled(t) ==
    /\ sender[t] \in {"request", "reply"}
    /\ failures < MaxFailures
    /\ failures' = failures + 1
    /\ orphans' = orphans \cup (IF sender[t] = "reply" THEN {sent} ELSE {})
    /\ sent' = NoOrder
    /\ attempt' = 0
    /\ sender' = [sender EXCEPT ![t] = "idle"]
    /\ mutex' = NoThread
    /\ UNCHANGED <<exchVars, refresher, stream, snapshot, openOrders,
                   bookVars, balanceVars, synced, leaked>>

\* m_our_orders.insert_or_assign, after SetPrice(price).
SendStore(t) ==
    /\ sender[t] = "reply"
    /\ our' = [our EXCEPT ![sent] = "asked"]
    /\ sender' = [sender EXCEPT ![t] = "lock"]
    /\ UNCHANGED <<exchVars, mutex, refresher, stream, restVars, ext, balanceVars,
                   synced, historyVars>>

SendLock(t) ==
    /\ sender[t] = "lock"
    /\ locked' = AdjustLockedBalance(locked, sent, "asked", 1)
    /\ sender' = [sender EXCEPT ![t] = "finish"]
    /\ UNCHANGED <<exchVars, mutex, refresher, stream, restVars, bookVars, total,
                   synced, historyVars>>

\* The account counts as synced again, with or without an order placed.
SendFinish(t) ==
    /\ sender[t] \in {"finish", "failed"}
    /\ synced' = TRUE
    /\ sent' = NoOrder
    /\ attempt' = 0
    /\ sender' = [sender EXCEPT ![t] = "idle"]
    /\ mutex' = NoThread
    /\ UNCHANGED <<exchVars, refresher, stream, snapshot, openOrders,
                   bookVars, balanceVars, historyVars>>

SendOrder(t) ==
    \/ Decide(t) \/ SendBegin(t)
    \/ \E i \in OwnIds : SendAccepted(t, i)
    \/ SendRefused(t) \/ SendReplyLost(t) \/ SendReplyGarbled(t)
    \/ SendStore(t) \/ SendLock(t) \/ SendFinish(t)

(***************************************************************************)
(* The end of the process: an exception leaves a detached thread.  The     *)
(* operator starts it again; the exchange keeps the orders.                *)
(***************************************************************************)
Crash ==
    /\ failures < MaxFailures
    /\ failures' = failures + 1
    /\ mutex' = NoThread
    /\ sender' = [t \in Senders |-> "idle"]
    /\ refresher' = [r \in Refreshers |-> "off"]
    /\ stream' = "down"
    /\ events' = <<>>
    /\ attempt' = 0
    /\ sent' = NoOrder
    /\ snapshot' = NoExecutions
    /\ openOrders' = {}
    /\ our' = [i \in Ids |-> "absent"]
    /\ ext' = {}
    /\ locked' = NoLocks
    /\ total' = NoExecutions
    /\ synced' = FALSE
    /\ leaked' = [i \in Ids |-> 0]
    /\ orphans' = {i \in OwnIds : exch[i] # "none"}
    /\ UNCHANGED <<exch, executed>>

(***************************************************************************)
(* RefreshAccountBalance, called at once by a new AccountRefresher thread  *)
(* ("start") and again after each sleep.                                   *)
(***************************************************************************)

RefreshBegin(r) ==
    /\ refresher[r] \in {"start", "sleep"}
    /\ mutex = NoThread
    /\ mutex' = r
    /\ refresher' = [refresher EXCEPT ![r] = "request"]
    /\ UNCHANGED <<exchVars, sender, stream, restVars, bookVars, balanceVars,
                   synced, historyVars>>

\* The exchange answers with the balance at this instant.
RefreshReply(r) ==
    /\ refresher[r] = "request"
    /\ snapshot' = executed
    /\ refresher' = [refresher EXCEPT ![r] = "assign"]
    /\ UNCHANGED <<exchVars, mutex, sender, stream, attempt, sent, openOrders,
                   bookVars, balanceVars, synced, historyVars>>

\* res.Get() of a failed request throws bad_optional_access.
RefreshFailed(r) == refresher[r] = "request" /\ Crash

\* Mutant: only the totals of the reply are taken over.
LockedOfReplyKept == locked
\* The balance that replaces the cached one has an empty locked map.
LockedOfReply == NoLocks

\* Mutant: the totals of the reply are dropped.
TotalOfReplyKept == total
TotalOfReply == snapshot

\* Getters see the new balance from here on, before the replay.
RefreshAssign(r) ==
    /\ refresher[r] = "assign"
    /\ total' = TotalOfReply
    /\ locked' = LockedOfReply
    /\ snapshot' = NoExecutions
    /\ leaked' = [i \in Ids |-> 0]
    /\ refresher' = [refresher EXCEPT ![r] = "replay_external"]
    /\ UNCHANGED <<exchVars, mutex, sender, stream, attempt, sent, openOrders,
                   bookVars, synced, orphans, failures>>

RefreshReplayExternal(r) ==
    /\ refresher[r] = "replay_external"
    /\ locked' = [i \in Ids |-> [p \in Prices |-> locked[i][p] + ExtLock(i, p)]]
    /\ refresher' = [refresher EXCEPT ![r] = "replay_our"]
    /\ UNCHANGED <<exchVars, mutex, sender, stream, restVars, bookVars, total,
                   synced, historyVars>>

\* Mutant: only the external orders are replayed.
ReplayOurSkipped == locked
ReplayOur == [i \in Ids |-> [p \in Prices |-> locked[i][p] + OurLock(i, p)]]

\* Mutant: a refresh does not make the account synced.
SyncedAfterRefreshKept == synced
SyncedAfterRefresh == TRUE

RefreshReplayOur(r) ==
    /\ refresher[r] = "replay_our"
    /\ locked' = ReplayOur
    /\ synced' = SyncedAfterRefresh
    /\ refresher' = [refresher EXCEPT ![r] = "sleep"]
    /\ mutex' = NoThread
    /\ UNCHANGED <<exchVars, sender, stream, restVars, bookVars, total,
                   historyVars>>

RefreshAccountBalance(r) ==
    \/ RefreshBegin(r) \/ RefreshReply(r) \/ RefreshFailed(r)
    \/ RefreshAssign(r) \/ RefreshReplayExternal(r) \/ RefreshReplayOur(r)

(***************************************************************************)
(* The user data stream: connection events                                 *)
(***************************************************************************)

\* The connection is up and on_open runs; it has yet to get the mutex.
Connect ==
    /\ stream = "down"
    /\ \E r \in Refreshers : refresher[r] = "off"
    /\ stream' = "opening"
    /\ UNCHANGED <<exchVars, mutex, sender, refresher, restVars, bookVars,
                   balanceVars, synced, historyVars>>

\* The connection is lost with every frame not handled; on_close changes
\* nothing in the account manager.
Disconnect ==
    /\ stream = "open"
    /\ \E r \in Refreshers : refresher[r] = "off"
    /\ stream' = "down"
    /\ events' = <<>>
    /\ UNCHANGED <<exch, executed, mutex, sender, refresher, restVars, bookVars,
                   balanceVars, synced, historyVars>>

\* Initialize starts one more AccountRefresher thread on every connection.
InitializeBegin ==
    /\ stream = "opening"
    /\ mutex = NoThread
    /\ mutex' = Stream
    /\ \E r \in Refreshers :
          /\ refresher[r] = "off"
          /\ refresher' = [refresher EXCEPT ![r] = "start"]
    /\ stream' = "request"
    /\ UNCHANGED <<exchVars, sender, restVars, bookVars, balanceVars, synced,
                   historyVars>>

\* Mutant: closed orders are asked for as well.
GetAllOrders == {[id |-> i, status |-> exch[i]] : i \in {j \in Ids : exch[j] # "none"}}
GetOpenOrders == {[id |-> i, status |-> exch[i]] : i \in {j \in Ids : IsOpen(j)}}

InitializeReply ==
    /\ stream = "request"
    /\ openOrders' = GetOpenOrders
    /\ stream' = "reply"
    /\ UNCHANGED <<exchVars, mutex, sender, refresher, attempt, sent, snapshot,
                   bookVars, balanceVars, synced, historyVars>>

\* Initialize throws out of on_open, which nothing catches.
InitializeFailed == stream = "request" /\ Crash

\* The orders HandleExternalOrder stores: those still NEW in the reply.
Reported == {i \in Known : [id |-> i, status |-> "NEW"] \in openOrders}

\* clear() drops the external orders but not what they have locked.
InitializeFinish ==
    /\ stream = "reply"
    /\ ext' = Reported
    /\ locked' = [i \in Ids |->
          IF i \in Reported THEN AdjustLockedBalance(locked, i, "reported", 1)[i]
          ELSE locked[i]]
    /\ leaked' = [i \in Ids |-> leaked[i] + (IF i \in ext THEN 1 ELSE 0)]
    /\ openOrders' = {}
    /\ stream' = "open"
    /\ mutex' = NoThread
    /\ UNCHANGED <<exchVars, sender, refresher, attempt, sent, snapshot, our,
                   total, synced, orphans, failures>>

(***************************************************************************)
(* The user data stream: frames, handled one after the other               *)
(***************************************************************************)

\* The stream thread is free and its next frame is of this kind.
NextFrame(kind) ==
    /\ stream = "open"
    /\ events # <<>>
    /\ Head(events).kind = kind

\* Mutant: OnOrderUpdate does not wait for m_order_mutex.
OrderUpdateUnguarded ==
    /\ NextFrame("order")
    /\ Head(events).id \in Known
\* An order frame that OnOrderUpdate does not drop as of an unknown pair; the
\* handler has got the mutex.
OrderUpdate ==
    /\ NextFrame("order")
    /\ mutex = NoThread
    /\ Head(events).id \in Known

IsOur(i) == our[i] # "absent"

\* Mutant: an external order is never found.
NeverAdded(i) == FALSE
WasAdded(i) == i \in ext

\* Mutant: only FILLED ends an own order.
FilledClosesOur(s) == s = "FILLED"
\* Mutant: a partial fill falls through to the case below it.
PartialFillClosesOur(s) == s \in {"PARTIALLY_FILLED", "FILLED", "CANCELED", "EXPIRED"}
\* The statuses on which UpdateOurOrder unlocks and erases; it logs REJECTED.
ClosesOur(s) == s \in {"FILLED", "CANCELED", "EXPIRED"}

\* Mutant: the balances of the frame are added to the cached ones.
UpdateTotalBalanceAdding(ex) == [i \in Ids |-> total[i] + ex[i]]
UpdateTotalBalance(ex) == ex

OnAccountBalanceUpdate ==
    /\ NextFrame("position")
    /\ mutex = NoThread
    /\ total' = UpdateTotalBalance(Head(events).executed)
    /\ events' = Tail(events)
    /\ UNCHANGED <<exch, executed, threadVars, restVars, bookVars, locked, synced,
                   historyVars>>

\* Frames of an unknown pair are dropped before the mutex is taken.
OnUnknownOrder ==
    /\ NextFrame("order")
    /\ Head(events).id \notin Known
    /\ events' = Tail(events)
    /\ UNCHANGED <<exch, executed, threadVars, restVars, bookVars, balanceVars,
                   synced, historyVars>>

\* UpdateOurOrder, order kept: NEW replaces the stored order.
UpdateOurOrder ==
    /\ OrderUpdate
    /\ LET e == Head(events) IN
       /\ IsOur(e.id)
       /\ ~ClosesOur(e.status)
       /\ our' = IF e.status = "NEW" THEN [our EXCEPT ![e.id] = "reported"] ELSE our
    /\ events' = Tail(events)
    /\ UNCHANGED <<exch, executed, threadVars, restVars, ext, balanceVars, synced,
                   historyVars>>

\* HandleExternalOrder, NEW: registered once.
AddExternalOrder ==
    /\ OrderUpdate
    /\ LET e == Head(events) IN
       /\ ~IsOur(e.id)
       /\ e.status = "NEW" /\ ~WasAdded(e.id)
       /\ ext' = ext \cup {e.id}
       /\ locked' = AdjustLockedBalance(locked, e.id, "reported", 1)
    /\ events' = Tail(events)
    /\ UNCHANGED <<exch, executed, threadVars, restVars, our, total, synced,
                   historyVars>>

\* HandleExternalOrder, the frames it ignores.
IgnoreExternalOrder ==
    /\ OrderUpdate
    /\ LET e == Head(events) IN
       /\ ~IsOur(e.id)
       /\ \/ e.status = "NEW" /\ WasAdded(e.id)
          \/ e.status = "PARTIALLY_FILLED"
          \/ e.status \in Closed /\ ~WasAdded(e.id)
    /\ events' = Tail(events)
    /\ UNCHANGED <<exch, executed, threadVars, restVars, bookVars, balanceVars,
                   synced, historyVars>>

\* SubtractLockedBalance, for an own order or an external one; the handler goes
\* on in CloseFinish.
CloseBegin ==
    /\ OrderUpdate
    /\ LET e == Head(events) IN
       \/ /\ IsOur(e.id) /\ ClosesOur(e.status)
          /\ locked' = AdjustLockedBalance(locked, e.id, our[e.id], -1)
       \/ /\ ~IsOur(e.id) /\ e.status \in Closed /\ WasAdded(e.id)
          /\ locked' = AdjustLockedBalance(locked, e.id, "reported", -1)
    /\ mutex' = Stream
    /\ stream' = "close"
    /\ UNCHANGED <<exchVars, sender, refresher, restVars, bookVars, total, synced,
                   historyVars>>

\* Totals move by the whole quantity: for an own order when it is FILLED, for an
\* external one whatever closed it.  Then the order is erased.
CloseFinish ==
    /\ stream = "close"
    /\ LET e == Head(events) IN
       \/ /\ IsOur(e.id)
          /\ total' = [total EXCEPT ![e.id] = @ + IF e.status = "FILLED" THEN Units ELSE 0]
          /\ our' = [our EXCEPT ![e.id] = "absent"]
          /\ UNCHANGED ext
       \/ /\ ~IsOur(e.id)
          /\ total' = [total EXCEPT ![e.id] = @ + Units]
          /\ ext' = ext \ {e.id}
          /\ UNCHANGED our
    /\ events' = Tail(events)
    /\ stream' = "open"
    /\ mutex' = NoThread
    /\ UNCHANGED <<exch, executed, sender, refresher, restVars, locked, synced,
                   historyVars>>

OnConnectionOpen ==
    \/ Connect \/ InitializeBegin \/ InitializeReply \/ InitializeFailed
    \/ InitializeFinish

OnOrderUpdate ==
    \/ OnUnknownOrder \/ UpdateOurOrder \/ AddExternalOrder
    \/ IgnoreExternalOrder \/ CloseBegin \/ CloseFinish

(***************************************************************************)
(* Specification                                                           *)
(***************************************************************************)

Init ==
    /\ exch = [i \in Ids |-> "none"]
    /\ executed = NoExecutions
    /\ events = <<>>
    /\ mutex = NoThread
    /\ sender = [t \in Senders |-> "idle"]
    /\ refresher = [r \in Refreshers |-> "off"]
    /\ stream = "down"
    /\ attempt = 0
    /\ sent = NoOrder
    /\ snapshot = NoExecutions
    /\ openOrders = {}
    /\ our = [i \in Ids |-> "absent"]
    /\ ext = {}
    /\ locked = NoLocks
    /\ total = NoExecutions
    /\ synced = FALSE
    /\ leaked = [i \in Ids |-> 0]
    /\ orphans = {}
    /\ failures = 0

Exchange ==
    \/ \E i \in ExtIds : PlaceExternal(i)
    \/ \E i \in Ids : Execute(i)
    \/ \E i \in Ids, s \in Closed : CloseOrder(i, s)

Next ==
    \/ Exchange
    \/ \E t \in Senders : SendOrder(t)
    \/ \E r \in Refreshers : RefreshAccountBalance(r)
    \/ OnConnectionOpen \/ Disconnect
    \/ OnAccountBalanceUpdate \/ OnOrderUpdate

Spec == Init /\ [][Next]_vars

StreamStep == OnConnectionOpen \/ OnAccountBalanceUpdate \/ OnOrderUpdate

\* Nobody keeps m_order_mutex for ever (a REST call ends in a reply or in an
\* error) and refreshers sleep between two refreshes, so a thread that waits for
\* the mutex gets it.  No caller is obliged to place an order.
Fairness ==
    /\ SF_vars(StreamStep)
    /\ \A r \in Refreshers : SF_vars(RefreshAccountBalance(r))
    /\ \A t \in Senders : WF_vars(mutex = t /\ SendOrder(t))

FairSpec == Spec /\ Fairness

(***************************************************************************)
(* Properties                                                              *)
(***************************************************************************)

TypeOK ==
    /\ exch \in [Ids -> Status]
    /\ executed \in Executions
    /\ events \in Seq(OrderFrames \cup PositionFrames)
    /\ mutex \in Threads \cup {NoThread}
    /\ sender \in [Senders -> {"idle", "decided"} \cup SenderLocked]
    /\ refresher \in [Refreshers -> {"off", "start", "sleep"} \cup RefresherLocked]
    /\ stream \in {"down", "opening", "open"} \cup StreamLocked
    /\ attempt \in 0 .. 1
    /\ sent \in OwnIds \cup {NoOrder}
    /\ snapshot \in Executions
    /\ openOrders \subseteq [id : Ids, status : Open]
    /\ our \in [Ids -> Prices \cup {"absent"}]
    /\ ext \subseteq Known
    /\ locked \in [Ids -> [Prices -> Int]]
    /\ total \in [Ids -> Int]
    /\ synced \in BOOLEAN
    /\ leaked \in [Ids -> Nat]
    /\ orphans \subseteq OwnIds
    /\ failures \in 0 .. MaxFailures

\* HasOpenOrders(pair), where pair is the set of the own orders of that pair.
HasOpenOrders(pair) == \E i \in pair : IsOur(i)

\* While the account is synced and HasOpenOrders(pair) is false, no order of this
\* process for that pair is open at the exchange, whatever requests, replies,
\* refreshes and stream events are under way; orders whose reply was lost are the
\* exception.  ArbitrageStrategy sends on these two answers.
HasOpenOrdersSound ==
    synced => \A pair \in SUBSET OwnIds :
        ~HasOpenOrders(pair) => \A i \in pair \ orphans : ~IsOpen(i)

\* The race m_order_mutex is there for: no order is registered both as ours and
\* as external.  Holds as long as the process opens one connection.
NeverOwnAndExternal == \A i \in Ids : ~(IsOur(i) /\ i \in ext)

\* Whenever the mutex is free, the locked balance of an order with a stable
\* price is what its registrations account for plus what clear() left behind:
\* no operation adds or subtracts it once too often.
LockAccounting ==
    mutex = NoThread =>
        \A i \in Exact :
            locked[i]["asked"] = OurLock(i, "asked") + ExtLock(i, "asked") + leaked[i]

\* A refresh ends with exactly the registered orders locked, for stable and
\* unstable prices, even if locks were left behind before it.
RefreshRestoresLocks ==
    [][\A r \in Refreshers :
          refresher[r] = "replay_our" /\ refresher'[r] = "sleep" =>
              \A i \in Ids, p \in Prices :
                  locked'[i][p] = OurLock(i, p)' + ExtLock(i, p)']_vars

\* Every frame sent so far has been handled and no operation is under way.
Drained == stream = "open" /\ events = <<>> /\ mutex = NoThread

\* Once everything is handled, an order closed at the exchange locks nothing.
LocksReleasedWhenDrained ==
    Drained => \A i \in Known \cap Exact : ~IsOpen(i) => locked[i]["asked"] = 0

\* The cached totals are the exchange's once everything is handled and the
\* refresh of this connection has been made, although FILLED orders adjust the
\* totals, refreshes replace them and frames overwrite them at unrelated times.
TotalsAgreeWhenDrained ==
    Drained /\ (\A r \in Refreshers : refresher[r] # "start") => total = executed

\* An own order that has closed leaves m_our_orders, so HasOpenOrders() does not
\* block the pair for ever.  Holds as long as the process opens one connection.
ClosedOrdersForgotten ==
    \A i \in OwnIds : (IsOur(i) /\ exch[i] \in Closed) ~> ~IsOur(i)

\* No locked amount stays for ever (the comment above m_order_mutex,
\* account_manager_impl.h:89-95): what an own order has locked is freed for good
\* once the order is closed.  Holds as long as the process opens one connection.
LockedAmountFreed ==
    \A i \in OwnIds \cap Exact :
        (exch[i] \in Closed) ~> [](locked[i]["asked"] = 0)

\* The account is synced again and again, whatever requests failed or threw.
SyncRecovers == []<>synced

\* "Account is not synced until we got a response (we do not know if and when
\* exactly it will be placed)" (account_manager_impl.cc:81): HasOpenOrdersSound
\* without its exception, an order the exchange accepted but whose reply was lost
\* or was no JSON.
SyncedMeansReplyReceived ==
    synced /\ ~HasOpenOrders(OwnIds) => \A i \in OwnIds : ~IsOpen(i)
=============================================================================
