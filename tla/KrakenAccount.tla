---------------------------- MODULE KrakenAccount ----------------------------
(***************************************************************************)
(* AccountManagerImpl on KrakenClient (http/kraken_client.hpp) and         *)
(* KrakenUserDataStream (websocket/kraken_user_data_stream.hpp), the       *)
(* second account of the arbitrage program.                                *)
(*                                                                         *)
(* The manager and its mutex are those of module AccountManager.  What is  *)
(* different is what it is told: the stream subscribes to the orders only  *)
(* after Initialize has asked for them over REST, the subscription begins  *)
(* with a snapshot, a message may hold several orders, and after the first *)
(* one the frames of an order name what has changed and leave out the      *)
(* pair, in whose place the handler reads memory nobody has written.       *)
(* There are no balance frames.                                            *)
(*                                                                         *)
(* Here the orders are followed and not the balances; an order the         *)
(* exchange accepts is open until it is filled, canceled or expired.       *)
(***************************************************************************)
EXTENDS FiniteSets, SequencesExt

CONSTANTS
    OwnIds,         \* ids the exchange gives to the orders this process sends
    ExtIds,         \* ids of the orders somebody else places on the account
    Known,          \* the ids whose trading pair the symbol table knows
    Senders,        \* threads that call LimitOrder or MarketOrder
    Refreshers,     \* AccountRefresher threads; bounds connections per process
    Stream,         \* the thread of the user data stream
    NoThread,       \* m_order_mutex is free
    NoOrder,        \* no REST reply carries an order
    MaxFailures,    \* bound on lost and unreadable replies and on crashes
    MaxFrames       \* bound on the frames waiting when the exchange moves by itself

Ids == OwnIds \cup ExtIds

ASSUME KrakenAccountAssumption ==
    /\ IsFiniteSet(Ids)
    /\ OwnIds \cap ExtIds = {} /\ OwnIds \subseteq Known /\ Known \subseteq Ids
    /\ Senders \cap Refreshers = {}
    /\ Stream \notin Senders \cup Refreshers
    /\ NoThread \notin Senders \cup Refreshers \cup {Stream}
    /\ NoOrder \notin Ids
    /\ {MaxFailures, MaxFrames} \subseteq Nat

VARIABLES
    exch,       \* exchange: an order is "none", "open" or "closed"
    feed,       \* exchange: openOrders is not subscribed, "asked" for or "on"
    messages,   \* exchange: messages of the feed, each a sequence of orders
    mutex,      \* holder of m_order_mutex
    sender,     \* where each sender is in LimitOrder
    refresher,  \* where each refresher is in RefreshAccountBalance
    stream,     \* what the user data stream thread is doing
    reading,    \* the orders of a message OnMessage has yet to come to
    attempt,    \* request.m_retries of the order request
    sent,       \* the order the exchange accepted and answers with
    openOrders, \* the orders GetOpenOrders returns
    our,        \* m_our_orders
    ext,        \* m_external_orders
    synced,     \* m_is_account_synced
    orphans,    \* history: own orders whose reply never reached this process
    missed,     \* history: orders of which this process was not told the last news
    failures    \* history: failures so far

exchVars == <<exch, feed, messages>>
threadVars == <<mutex, sender, refresher, stream>>
restVars == <<attempt, sent, openOrders>>
bookVars == <<our, ext>>
vars == <<exchVars, threadVars, reading, restVars, bookVars, synced,
          orphans, missed, failures>>

IsOpen(i) == exch[i] = "open"
OpenIds == {i \in Ids : IsOpen(i)}

(***************************************************************************)
(* The exchange                                                            *)
(***************************************************************************)

\* An order is described when it opens and in the snapshot; it may be when it
\* closes.  A change of the executed volume comes without a status.
Opening(i) == [id |-> i, status |-> "open", described |-> TRUE]
Progress(i) == [id |-> i, status |-> "none", described |-> FALSE]
Closing(i, described) == [id |-> i, status |-> "closed", described |-> described]

\* The orders a sequence of frames has news of.
NewsOf(frames) == {f.id : f \in {g \in Range(frames) : g.status # "none"}}

\* A frame is sent to the subscriber, in a message of its own or with the frames
\* that wait; nobody is told later of what happens without a subscription.
Tell(frame) ==
    IF feed = "on"
    THEN /\ \/ messages' = Append(messages, <<frame>>)
            \/ /\ messages # <<>>
               /\ messages' = [messages EXCEPT ![Len(messages)] = Append(@, frame)]
         /\ UNCHANGED missed
    ELSE /\ missed' = missed \cup NewsOf(<<frame>>)
         /\ UNCHANGED messages

Unhurried == Len(FlattenSeq(messages)) < MaxFrames

ProcessUnchanged ==
    UNCHANGED <<feed, threadVars, reading, restVars, bookVars, synced, orphans, failures>>

PlaceExternal(i) ==
    /\ Unhurried
    /\ exch[i] = "none"
    /\ exch' = [exch EXCEPT ![i] = "open"]
    /\ Tell(Opening(i))
    /\ ProcessUnchanged

Execute(i) ==
    /\ Unhurried
    /\ IsOpen(i)
    /\ Tell(Progress(i))
    /\ UNCHANGED exch
    /\ ProcessUnchanged

CloseOrder(i, described) ==
    /\ Unhurried
    /\ IsOpen(i)
    /\ exch' = [exch EXCEPT ![i] = "closed"]
    /\ Tell(Closing(i, described))
    /\ ProcessUnchanged

\* The subscription takes effect: the feed begins with all that is open.
ExchangeSubscribes ==
    /\ feed = "asked"
    /\ feed' = "on"
    /\ messages' = <<SetToSeq({Opening(i) : i \in OpenIds})>>
    /\ missed' = missed \ OpenIds
    /\ UNCHANGED <<exch, threadVars, reading, restVars, bookVars, synced,
                   orphans, failures>>

(***************************************************************************)
(* LimitOrder and MarketOrder                                              *)
(***************************************************************************)

\* The caller has found the account synced at some time: it was not before the first
\* refresh of this process.
SendBegin(t) ==
    /\ sender[t] = "idle"
    /\ \E r \in Refreshers : refresher[r] = "sleep"
    /\ mutex = NoThread
    /\ mutex' = t
    /\ synced' = FALSE
    /\ sender' = [sender EXCEPT ![t] = "request"]
    /\ UNCHANGED <<exchVars, refresher, stream, reading, restVars, bookVars,
                   orphans, missed, failures>>

SendAccepted(t, i) ==
    /\ sender[t] = "request"
    /\ exch[i] = "none"
    /\ exch' = [exch EXCEPT ![i] = "open"]
    /\ Tell(Opening(i))
    /\ sent' = i
    /\ sender' = [sender EXCEPT ![t] = "reply"]
    /\ UNCHANGED <<feed, mutex, refresher, stream, reading, attempt, openOrders,
                   bookVars, synced, orphans, failures>>

\* The reply has an error, or no connection could be made.
SendRefused(t) ==
    /\ sender[t] = "request"
    /\ sender' = [sender EXCEPT ![t] = "failed"]
    /\ UNCHANGED <<exchVars, mutex, refresher, stream, reading, restVars, bookVars,
                   synced, orphans, missed, failures>>

\* HttpClient::send fails reading the reply and sends the request once more.
SendReplyLost(t) ==
    /\ sender[t] = "reply"
    /\ failures < MaxFailures
    /\ failures' = failures + 1
    /\ orphans' = orphans \cup {sent}
    /\ sent' = NoOrder
    /\ attempt' = 1
    /\ sender' = [sender EXCEPT ![t] = IF attempt = 0 THEN "request" ELSE "failed"]
    /\ UNCHANGED <<exchVars, mutex, refresher, stream, reading, openOrders, bookVars,
                   synced, missed>>

\* The reply is no JSON or has no txid: the exception goes through LimitOrder.
SendReplyGarbled(t) ==
    /\ sender[t] \in {"request", "reply"}
    /\ failures < MaxFailures
    /\ failures' = failures + 1
    /\ orphans' = orphans \cup (IF sender[t] = "reply" THEN {sent} ELSE {})
    /\ sent' = NoOrder
    /\ attempt' = 0
    /\ sender' = [sender EXCEPT ![t] = "idle"]
    /\ mutex' = NoThread
    /\ UNCHANGED <<exchVars, refresher, stream, reading, openOrders, bookVars,
                   synced, missed>>

SendStore(t) ==
    /\ sender[t] = "reply"
    /\ our' = our \cup {sent}
    /\ sender' = [sender EXCEPT ![t] = "finish"]
    /\ UNCHANGED <<exchVars, mutex, refresher, stream, reading, restVars, ext,
                   synced, orphans, missed, failures>>

SendFinish(t) ==
    /\ sender[t] \in {"finish", "failed"}
    /\ synced' = TRUE
    /\ sent' = NoOrder
    /\ attempt' = 0
    /\ sender' = [sender EXCEPT ![t] = "idle"]
    /\ mutex' = NoThread
    /\ UNCHANGED <<exchVars, refresher, stream, reading, openOrders, bookVars,
                   orphans, missed, failures>>

SendOrder(t) ==
    \/ SendBegin(t)
    \/ \E i \in OwnIds : SendAccepted(t, i)
    \/ SendRefused(t) \/ SendReplyLost(t) \/ SendReplyGarbled(t)
    \/ SendStore(t) \/ SendFinish(t)

(***************************************************************************)
(* The end of the process; the operator starts it again                    *)
(***************************************************************************)

Crash ==
    /\ failures < MaxFailures
    /\ failures' = failures + 1
    /\ feed' = "none"
    /\ messages' = <<>>
    /\ mutex' = NoThread
    /\ sender' = [t \in Senders |-> "idle"]
    /\ refresher' = [r \in Refreshers |-> "off"]
    /\ stream' = "down"
    /\ reading' = <<>>
    /\ attempt' = 0
    /\ sent' = NoOrder
    /\ openOrders' = {}
    /\ our' = {}
    /\ ext' = {}
    /\ synced' = FALSE
    /\ orphans' = {i \in OwnIds : exch[i] # "none"}
    /\ missed' = {}
    /\ UNCHANGED exch

(***************************************************************************)
(* RefreshAccountBalance                                                   *)
(***************************************************************************)

RefreshBegin(r) ==
    /\ refresher[r] \in {"start", "sleep"}
    /\ mutex = NoThread
    /\ mutex' = r
    /\ refresher' = [refresher EXCEPT ![r] = "request"]
    /\ UNCHANGED <<exchVars, sender, stream, reading, restVars, bookVars, synced,
                   orphans, missed, failures>>

RefreshFinish(r) ==
    /\ refresher[r] = "request"
    /\ synced' = TRUE
    /\ refresher' = [refresher EXCEPT ![r] = "sleep"]
    /\ mutex' = NoThread
    /\ UNCHANGED <<exchVars, sender, stream, reading, restVars, bookVars,
                   orphans, missed, failures>>

\* A balance that cannot be parsed is returned with an empty error message and
\* counts as a success: Get() throws for it as it does for any failed request.
RefreshFailed(r) == refresher[r] = "request" /\ Crash

RefreshAccountBalance(r) == RefreshBegin(r) \/ RefreshFinish(r) \/ RefreshFailed(r)

(***************************************************************************)
(* The user data stream: OnOpen and OnClose                                *)
(***************************************************************************)

Connect ==
    /\ stream = "down"
    /\ \E r \in Refreshers : refresher[r] = "off"
    /\ stream' = "opening"
    /\ UNCHANGED <<exchVars, mutex, sender, refresher, reading, restVars, bookVars,
                   synced, orphans, missed, failures>>

InitializeBegin ==
    /\ stream = "opening"
    /\ mutex = NoThread
    /\ mutex' = Stream
    /\ \E r \in Refreshers :
          /\ refresher[r] = "off"
          /\ refresher' = [refresher EXCEPT ![r] = "start"]
    /\ stream' = "request"
    /\ UNCHANGED <<exchVars, sender, reading, restVars, bookVars, synced,
                   orphans, missed, failures>>

\* Every order of the reply is "open" or "pending", which are NEW.
InitializeReply ==
    /\ stream = "request"
    /\ openOrders' = OpenIds
    /\ stream' = "reply"
    /\ UNCHANGED <<exchVars, mutex, sender, refresher, reading, attempt, sent,
                   bookVars, synced, orphans, missed, failures>>

InitializeFinish ==
    /\ stream = "reply"
    /\ ext' = openOrders \cap Known
    /\ openOrders' = {}
    /\ stream' = "subscribing"
    /\ mutex' = NoThread
    /\ UNCHANGED <<exchVars, sender, refresher, reading, attempt, sent, our, synced,
                   orphans, missed, failures>>

\* SubscribeOpenOrders, with the token of one more REST request: without one the
\* subscription is refused and the connection stays silent.
SubscribeOpenOrders ==
    /\ stream = "subscribing"
    /\ feed' \in {"asked", "none"}
    /\ stream' = "open"
    /\ UNCHANGED <<exch, messages, mutex, sender, refresher, reading, restVars,
                   bookVars, synced, orphans, missed, failures>>

\* Initialize throws, or GetWebSocketsToken on a reply that is no JSON: nothing
\* catches it in on_open.
OnOpenThrows == stream \in {"request", "subscribing"} /\ Crash

\* The connection is lost with every message not handled.
OnClose ==
    /\ stream = "open"
    /\ reading = <<>>
    /\ \E r \in Refreshers : refresher[r] = "off"
    /\ stream' = "down"
    /\ feed' = "none"
    /\ messages' = <<>>
    /\ missed' = missed \cup UNION {NewsOf(m) : m \in Range(messages)}
    /\ UNCHANGED <<exch, mutex, sender, refresher, reading, restVars, bookVars,
                   synced, orphans, failures>>

\* OnClose asks for a token as well.
OnCloseThrows == stream = "open" /\ reading = <<>> /\ Crash

(***************************************************************************)
(* The user data stream: OnMessage, one order after the other              *)
(***************************************************************************)

ReadMessage ==
    /\ stream = "open"
    /\ reading = <<>>
    /\ messages # <<>>
    /\ reading' = Head(messages)
    /\ messages' = Tail(messages)
    /\ UNCHANGED <<exch, feed, threadVars, restVars, bookVars, synced,
                   orphans, missed, failures>>

\* A frame without a status, or without the executed volume, ends the handler: the
\* orders behind it in the message are dropped with it.
LeaveMessage ==
    /\ reading # <<>>
    /\ Head(reading).status = "none"
    /\ reading' = <<>>
    /\ missed' = missed \cup NewsOf(reading)
    /\ UNCHANGED <<exchVars, threadVars, restVars, bookVars, synced, orphans, failures>>

\* The pair is UNKNOWN: it is not in the table, or it is what the memory of a pair
\* that was not described happens to hold.
DropOrder ==
    /\ reading # <<>>
    /\ LET f == Head(reading)
       IN  /\ f.status # "none"
           /\ f.described => f.id \notin Known
           /\ missed' = IF f.described THEN missed ELSE missed \cup {f.id}
    /\ reading' = Tail(reading)
    /\ UNCHANGED <<exchVars, threadVars, restVars, bookVars, synced, orphans, failures>>

\* Mutant: every status closes an order.
IsClosingAny(frame) == TRUE
IsClosing(frame) == frame.status = "closed"

\* HandleExternalOrder: NEW registers an order once, closing erases it.
HandleExternalOrder(frame) ==
    IF IsClosing(frame) THEN ext \ {frame.id} ELSE ext \cup {frame.id}

\* Mutant: an order of any pair is handled.
HasPairAny(frame) == TRUE

\* The pair is one of the table, or memory that does not say UNKNOWN.
HasPair(frame) == frame.described => frame.id \in Known

\* Mutant: the handler does not wait for m_order_mutex.
HandlerEntersAnyTime == TRUE
HandlerEnters == mutex = NoThread

\* OnOrderUpdate.  An own order that is open is replaced by what the frame says.
HandleOrder ==
    /\ reading # <<>>
    /\ Head(reading).status # "none"
    /\ HasPair(Head(reading))
    /\ HandlerEnters
    /\ LET f == Head(reading)
       IN  IF f.id \in our
           THEN /\ our' = IF IsClosing(f) THEN our \ {f.id} ELSE our
                /\ UNCHANGED ext
           ELSE /\ ext' = HandleExternalOrder(f)
                /\ UNCHANGED our
    /\ reading' = Tail(reading)
    /\ UNCHANGED <<exchVars, threadVars, restVars, synced, orphans, missed, failures>>

----------------------------------------------------------------------------

Init ==
    /\ exch = [i \in Ids |-> "none"]
    /\ feed = "none"
    /\ messages = <<>>
    /\ mutex = NoThread
    /\ sender = [t \in Senders |-> "idle"]
    /\ refresher = [r \in Refreshers |-> "off"]
    /\ stream = "down"
    /\ reading = <<>>
    /\ attempt = 0
    /\ sent = NoOrder
    /\ openOrders = {}
    /\ our = {}
    /\ ext = {}
    /\ synced = FALSE
    /\ orphans = {}
    /\ missed = {}
    /\ failures = 0

Exchange ==
    \/ \E i \in ExtIds : PlaceExternal(i)
    \/ \E i \in Ids : Execute(i)
    \/ \E i \in Ids, described \in BOOLEAN : CloseOrder(i, described)
    \/ ExchangeSubscribes

OnOpen ==
    \/ Connect \/ InitializeBegin \/ InitializeReply \/ InitializeFinish
    \/ SubscribeOpenOrders \/ OnOpenThrows

OnMessage == ReadMessage \/ LeaveMessage \/ DropOrder \/ HandleOrder

Next ==
    \/ Exchange
    \/ \E t \in Senders : SendOrder(t)
    \/ \E r \in Refreshers : RefreshAccountBalance(r)
    \/ OnOpen \/ OnClose \/ OnCloseThrows \/ OnMessage

Spec == Init /\ [][Next]_vars

(***************************************************************************)
(* Properties                                                              *)
(***************************************************************************)

Frame == [id : Ids, status : {"open", "closed", "none"}, described : BOOLEAN]

\* The type invariant.  An order of an unknown pair is never registered, although
\* the handler may take the memory of its pair for one that is known.
TypeOK ==
    /\ exch \in [Ids -> {"none", "open", "closed"}]
    /\ feed \in {"none", "asked", "on"}
    /\ messages \in Seq(Seq(Frame))
    /\ mutex \in Senders \cup Refreshers \cup {Stream, NoThread}
    /\ sender \in [Senders -> {"idle", "request", "reply", "finish", "failed"}]
    /\ refresher \in [Refreshers -> {"off", "start", "sleep", "request"}]
    /\ stream \in {"down", "opening", "request", "reply", "subscribing", "open"}
    /\ reading \in Seq(Frame)
    /\ attempt \in 0..1
    /\ sent \in OwnIds \cup {NoOrder}
    /\ openOrders \subseteq Ids
    /\ our \subseteq OwnIds
    /\ ext \subseteq Known
    /\ synced \in BOOLEAN
    /\ orphans \subseteq OwnIds
    /\ missed \subseteq Ids
    /\ failures \in 0..MaxFailures

\* More than one connection of this process has been opened.
Reconnected ==
    \E q, r \in Refreshers : q # r /\ refresher[q] # "off" /\ refresher[r] # "off"

\* Every message sent so far has been handled and no operation is under way.
Drained ==
    /\ stream = "open" /\ feed = "on"
    /\ messages = <<>> /\ reading = <<>>
    /\ mutex = NoThread

\* Once everything is handled the registered orders are the open ones of the known
\* pairs, whatever order the replies, the snapshot and the messages came in.  The
\* exceptions are the orders whose last news was not told or not read, and, after a
\* reconnection, own orders that Initialize made external ones as well.
RegistersAgreeWhenDrained ==
    Drained => \A i \in Known \ missed :
        /\ IsOpen(i) => i \in our \cup ext
        /\ i \in our => IsOpen(i)
        /\ i \in ext => IsOpen(i) \/ (i \in OwnIds /\ Reconnected)

Account == "kraken"
OfAccount(x) == [a \in {Account} |-> x]

Accepted == {i \in OwnIds : exch[i] # "none"}
Live == {i \in OwnIds : IsOpen(i)}

\* The order whose reply is on the stack of a sender.
Unanswered == {i \in OwnIds : sent = i /\ \E t \in Senders : sender[t] = "reply"}

Sending == mutex \in Senders

Contract == INSTANCE AccountContract WITH
    Accounts   <- {Account},
    Orders     <- OwnIds,
    accepted   <- OfAccount(Accepted),
    live       <- OfAccount(Live),
    pending    <- OfAccount(Unanswered),
    registered <- OfAccount(our),
    lost       <- OfAccount(orphans),
    busy       <- OfAccount(Sending),
    isSynced   <- OfAccount(synced)

\* The Kraken account implements the contract the arbitrage strategy is modelled
\* against: frames without a pair, messages left in the middle and a feed that
\* begins late never make the account synced with an own order open and neither
\* registered nor lost, and never erase an order that is open.
ImplementsContract == Contract!ContractSpec
=============================================================================
