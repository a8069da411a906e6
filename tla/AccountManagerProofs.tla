------------------------ MODULE AccountManagerProofs ------------------------
(***************************************************************************)
(* Theorems about AccountManager, for every set of orders and threads.     *)
(*                                                                         *)
(* First the invariant Inv: orders are known while the account is synced,  *)
(* and locked amounts are those of the registered orders.                  *)
(*                                                                         *)
(* Then what the account manager promises the strategy: it implements      *)
(* AccountContract.  Inv is what makes the steps match: a request returns  *)
(* with nothing to be answered, and only closed orders are erased.         *)
(*                                                                         *)
(* Once every frame is handled an account shows the exchange's totals, for *)
(* any number of connections, and, as long as the process has opened only  *)
(* one, its orders and what they lock.  The totals are moved by three      *)
(* writers: a closing order adds to them, a refresh replaces them, a       *)
(* position frame overwrites them.  They come out right because the last   *)
(* frame waiting is always a position frame with the balance of now        *)
(* (PositionInv), so whatever came in between is overwritten, and because  *)
(* a refresh in progress on this connection has the balance of now unless  *)
(* a frame is waiting (TotalInv).                                          *)
(***************************************************************************)
EXTENDS AccountManagerRefinement, TLAPS

Frame == OrderFrames \cup PositionFrames

LEMMA SendType ==
    ASSUME NEW q \in Seq(Frame), NEW i \in Ids, NEW s \in Status, NEW ex \in Executions
    PROVE  Send(q, i, s, ex) \in Seq(Frame)
<1>1. [kind |-> "order", id |-> i, status |-> s] \in Frame
  BY DEF Frame, OrderFrames
<1>2. [kind |-> "position", executed |-> ex] \in Frame
  BY DEF Frame, PositionFrames
<1> QED BY <1>1, <1>2 DEF Send

\* The parts of TypeOK, by the part of the system they type.
ExchangeType ==
    /\ exch \in [Ids -> Status]
    /\ executed \in Executions
    /\ events \in Seq(Frame)
ThreadType ==
    /\ mutex \in Threads \cup {NoThread}
    /\ sender \in [Senders -> {"idle", "decided"} \cup SenderLocked]
    /\ refresher \in [Refreshers -> {"off", "start", "sleep"} \cup RefresherLocked]
    /\ stream \in {"down", "opening", "open"} \cup StreamLocked
RestType ==
    /\ attempt \in 0 .. 1
    /\ sent \in OwnIds \cup {NoOrder}
    /\ snapshot \in Executions
    /\ openOrders \subseteq [id : Ids, status : Open]
BookType ==
    /\ our \in [Ids -> Prices \cup {"absent"}]
    /\ ext \subseteq Known
BalanceType ==
    /\ locked \in [Ids -> [Prices -> Int]]
    /\ total \in [Ids -> Int]
    /\ synced \in BOOLEAN
HistoryType ==
    /\ leaked \in [Ids -> Nat]
    /\ orphans \subseteq OwnIds
    /\ failures \in 0 .. MaxFailures

LEMMA TypeParts ==
    TypeOK <=> /\ ExchangeType /\ ThreadType /\ RestType /\ BookType
               /\ BalanceType /\ HistoryType
BY DEF TypeOK, ExchangeType, ThreadType, RestType, BookType, BalanceType,
   HistoryType, Frame

LEMMA NoLocksType == NoLocks \in [Ids -> [Prices -> Int]]
<1>1. [p \in Prices |-> 0] \in [Prices -> Int]
  OBVIOUS
<1> QED BY <1>1 DEF NoLocks

\* Adding to a locked amount keeps the type of the map.
LEMMA AdjustLocked ==
    ASSUME NEW l \in [Ids -> [Prices -> Int]], NEW i \in Ids, NEW price \in Prices,
           NEW n \in Int
    PROVE  AdjustLockedBalance(l, i, price, n) \in [Ids -> [Prices -> Int]]
<1>1. Amount(i, price) \in Prices
  BY DEF Amount, Prices
<1>2. [l[i] EXCEPT ![Amount(i, price)] = @ + n] \in [Prices -> Int]
  BY <1>1
<1> QED BY <1>2 DEF AdjustLockedBalance

LEMMA TypeInit == Init => TypeOK
<1> SUFFICES ASSUME Init PROVE TypeOK
  OBVIOUS
<1> USE ConstantsAssumption DEF Init
<1>1. ExchangeType
  BY DEF ExchangeType, Status, NoExecutions, Executions, Units
<1>2. ThreadType
  BY DEF ThreadType
<1>3. RestType
  BY DEF RestType, NoExecutions, Executions, Units
<1>4. BookType
  BY DEF BookType
<1>5. BalanceType
  <2>1. locked \in [Ids -> [Prices -> Int]]
    BY NoLocksType
  <2>2. total \in [Ids -> Int]
    BY DEF NoExecutions
  <2> QED BY <2>1, <2>2 DEF BalanceType
<1>6. HistoryType
  BY DEF HistoryType
<1> QED BY <1>1, <1>2, <1>3, <1>4, <1>5, <1>6, TypeParts

\* A sender that waits for a reply that has been sent, or works on it, has the
\* order it carries.
SentInv ==
    \A t \in Senders : sender[t] \in {"reply", "lock", "finish"} => sent \in OwnIds

\* A report of the exchange keeps the types of the exchange.
LEMMA ReportType ==
    ASSUME TypeOK, NEW i \in Ids, NEW s \in Status, NEW ex \in Executions,
           Report(i, s, ex)
    PROVE  /\ exch' \in [Ids -> Status]
           /\ executed' \in Executions
           /\ events' \in Seq(OrderFrames \cup PositionFrames)
<1>1. events \in Seq(Frame)
  BY DEF TypeOK, Frame
<1>2. Send(events, i, s, ex) \in Seq(Frame)
  BY <1>1, SendType
<1> QED BY <1>1, <1>2 DEF Report, TypeOK, Frame

LEMMA CrashType == ASSUME TypeOK, Crash PROVE TypeOK'
<1> USE ConstantsAssumption DEF Crash
<1>1. ExchangeType'
  BY DEF TypeOK, ExchangeType
<1>2. ThreadType'
  BY DEF ThreadType
<1>3. RestType'
  BY DEF RestType, NoExecutions, Executions, Units
<1>4. BookType'
  BY DEF BookType
<1>5. BalanceType'
  <2>1. locked' \in [Ids -> [Prices -> Int]]
    BY NoLocksType
  <2>2. total' \in [Ids -> Int]
    BY DEF NoExecutions
  <2> QED BY <2>1, <2>2 DEF BalanceType
<1>6. HistoryType'
  BY DEF TypeOK, HistoryType
<1> QED BY <1>1, <1>2, <1>3, <1>4, <1>5, <1>6
        DEF TypeOK, ExchangeType, ThreadType, RestType, BookType, BalanceType,
            HistoryType, Frame

\* What an exchange action leaves alone keeps its type.
LEMMA ExchangeStepType ==
    ASSUME TypeOK, ProcessUnchanged,
           NEW i \in Ids, NEW s \in Status, NEW ex \in Executions, Report(i, s, ex)
    PROVE  TypeOK'
BY ReportType
   DEF TypeOK, ProcessUnchanged, threadVars, restVars, bookVars, balanceVars,
       historyVars

LEMMA TypeSend == ASSUME TypeOK, SentInv, NEW t \in Senders, SendOrder(t) PROVE TypeOK'
<1> USE ConstantsAssumption
    DEF exchVars, threadVars, restVars, bookVars, balanceVars, historyVars,
        SenderLocked, Threads
<1>1. CASE Decide(t)
  BY <1>1 DEF Decide, TypeOK
<1>2. CASE SendBegin(t)
  BY <1>2 DEF SendBegin, SyncedDuringRequest, TypeOK
<1>3. CASE \E i \in OwnIds : SendAccepted(t, i)
  <2>1. PICK i \in OwnIds : SendAccepted(t, i)
    BY <1>3
  <2>2. i \in Ids /\ "NEW" \in Status /\ executed \in Executions
    BY DEF Ids, Status, Open, TypeOK
  <2>3. /\ exch' \in [Ids -> Status]
        /\ executed' \in Executions
        /\ events' \in Seq(OrderFrames \cup PositionFrames)
    BY <2>1, <2>2, ReportType DEF SendAccepted
  <2> QED BY <2>1, <2>3 DEF SendAccepted, TypeOK
<1>4. CASE SendRefused(t)
  BY <1>4 DEF SendRefused, TypeOK
<1>5. CASE SendReplyLost(t)
  BY <1>5 DEF SendReplyLost, TypeOK, SentInv
<1>6. CASE SendReplyGarbled(t)
  BY <1>6 DEF SendReplyGarbled, TypeOK, SentInv
<1>7. CASE SendStore(t)
  BY <1>7 DEF SendStore, TypeOK, Prices
<1>8. CASE SendLock(t)
  <2>1. sent \in Ids /\ "asked" \in Prices /\ locked \in [Ids -> [Prices -> Int]]
    BY <1>8 DEF SendLock, SentInv, Ids, Prices, TypeOK
  <2>2. 1 \in Int
    OBVIOUS
  <2>3. AdjustLockedBalance(locked, sent, "asked", 1) \in [Ids -> [Prices -> Int]]
    BY <2>1, <2>2, AdjustLocked
  <2>4. locked' \in [Ids -> [Prices -> Int]]
    BY <1>8, <2>3 DEF SendLock
  <2> QED BY <1>8, <2>4 DEF SendLock, TypeOK
<1>9. CASE SendFinish(t)
  BY <1>9 DEF SendFinish, TypeOK
<1> QED BY <1>1, <1>2, <1>3, <1>4, <1>5, <1>6, <1>7, <1>8, <1>9 DEF SendOrder

LEMMA TypeRefresh ==
    ASSUME TypeOK, NEW r \in Refreshers, RefreshAccountBalance(r) PROVE TypeOK'
<1> USE ConstantsAssumption
    DEF exchVars, threadVars, restVars, bookVars, balanceVars, historyVars,
        RefresherLocked, Threads
<1>1. CASE RefreshBegin(r)
  BY <1>1 DEF RefreshBegin, TypeOK
<1>2. CASE RefreshReply(r)
  BY <1>2 DEF RefreshReply, TypeOK
<1>3. CASE RefreshFailed(r)
  BY <1>3, CrashType DEF RefreshFailed
<1>4. CASE RefreshAssign(r)
  BY <1>4, NoLocksType
     DEF RefreshAssign, TypeOK, TotalOfReply, LockedOfReply, NoExecutions,
         Executions, Units
<1>5. CASE RefreshReplayExternal(r)
  BY <1>5 DEF RefreshReplayExternal, TypeOK, ExtLock
<1>6. CASE RefreshReplayOur(r)
  BY <1>6 DEF RefreshReplayOur, TypeOK, ReplayOur, SyncedAfterRefresh, OurLock
<1> QED BY <1>1, <1>2, <1>3, <1>4, <1>5, <1>6 DEF RefreshAccountBalance

LEMMA TypeOpen == ASSUME TypeOK, OnConnectionOpen PROVE TypeOK'
<1> USE ConstantsAssumption
    DEF exchVars, threadVars, restVars, bookVars, balanceVars, historyVars,
        StreamLocked, Threads
<1>1. CASE Connect
  BY <1>1 DEF Connect, TypeOK
<1>2. CASE InitializeBegin
  BY <1>2 DEF InitializeBegin, TypeOK
<1>3. CASE InitializeReply
  BY <1>3 DEF InitializeReply, TypeOK, GetOpenOrders, IsOpen
<1>4. CASE InitializeFailed
  BY <1>4, CrashType DEF InitializeFailed
<1>5. CASE InitializeFinish
  <2>1. locked' \in [Ids -> [Prices -> Int]]
    <3>1. "reported" \in Prices /\ locked \in [Ids -> [Prices -> Int]]
      BY DEF Prices, TypeOK
    <3>2. 1 \in Int
      OBVIOUS
    <3>3. ASSUME NEW i \in Ids
          PROVE  AdjustLockedBalance(locked, i, "reported", 1) \in [Ids -> [Prices -> Int]]
      BY <3>1, <3>2, AdjustLocked
    <3>4. \A i \in Ids : AdjustLockedBalance(locked, i, "reported", 1)[i] \in [Prices -> Int]
      BY <3>3
    <3> QED BY <1>5, <3>1, <3>4 DEF InitializeFinish
  <2>2. leaked' \in [Ids -> Nat]
    BY <1>5 DEF InitializeFinish, TypeOK
  <2> QED BY <1>5, <2>1, <2>2 DEF InitializeFinish, TypeOK, Reported
<1> QED BY <1>1, <1>2, <1>3, <1>4, <1>5 DEF OnConnectionOpen

\* What the frame at the head of the queue carries.
LEMMA HeadType ==
    ASSUME TypeOK, events # <<>>
    PROVE  /\ Tail(events) \in Seq(OrderFrames \cup PositionFrames)
           /\ Head(events) \in OrderFrames \cup PositionFrames
           /\ Head(events).kind = "order" =>
                 Head(events).id \in Ids /\ Head(events).status \in Status
           /\ Head(events).kind = "position" => Head(events).executed \in Executions
<1>1. events \in Seq(OrderFrames \cup PositionFrames)
  BY DEF TypeOK
<1>2. Head(events) \in OrderFrames \cup PositionFrames
  BY <1>1
<1>3. Tail(events) \in Seq(OrderFrames \cup PositionFrames)
  BY <1>1
<1> QED BY <1>2, <1>3 DEF OrderFrames, PositionFrames

\* A frame under CloseFinish is an order frame of a known order, and the order is
\* registered.
CloseInv ==
    stream = "close" =>
        /\ events # <<>>
        /\ Head(events).kind = "order"
        /\ Head(events).id \in Known
        /\ Head(events).status \in Closed
        /\ IsOur(Head(events).id) \/ Head(events).id \in ext

LEMMA TypeFrame ==
    ASSUME TypeOK, CloseInv, OnAccountBalanceUpdate \/ OnOrderUpdate PROVE TypeOK'
<1> USE ConstantsAssumption
    DEF exchVars, threadVars, restVars, bookVars, balanceVars, historyVars,
        StreamLocked, Threads
<1>1. CASE OnAccountBalanceUpdate
  BY <1>1, HeadType
     DEF OnAccountBalanceUpdate, NextFrame, UpdateTotalBalance, TypeOK, Executions, Units
<1>2. CASE OnUnknownOrder
  BY <1>2, HeadType DEF OnUnknownOrder, NextFrame, TypeOK
<1>3. CASE UpdateOurOrder
  BY <1>3, HeadType DEF UpdateOurOrder, OrderUpdate, NextFrame, TypeOK, Prices
<1>4. CASE AddExternalOrder
  <2>1. Head(events).id \in Ids /\ "reported" \in Prices
        /\ locked \in [Ids -> [Prices -> Int]]
    BY <1>4, HeadType DEF AddExternalOrder, OrderUpdate, NextFrame, Prices, TypeOK
  <2>2. 1 \in Int
    OBVIOUS
  <2>3. AdjustLockedBalance(locked, Head(events).id, "reported", 1)
           \in [Ids -> [Prices -> Int]]
    BY <2>1, <2>2, AdjustLocked
  <2>4. locked' \in [Ids -> [Prices -> Int]]
    BY <1>4, <2>3 DEF AddExternalOrder
  <2>5. ext' \subseteq Known
    BY <1>4 DEF AddExternalOrder, OrderUpdate, TypeOK
  <2> QED BY <1>4, <2>4, <2>5, HeadType DEF AddExternalOrder, OrderUpdate, NextFrame, TypeOK
<1>5. CASE IgnoreExternalOrder
  BY <1>5, HeadType DEF IgnoreExternalOrder, OrderUpdate, NextFrame, TypeOK
<1>6. CASE CloseBegin
  <2>1. Head(events).id \in Ids /\ "reported" \in Prices
        /\ locked \in [Ids -> [Prices -> Int]]
    BY <1>6, HeadType DEF CloseBegin, OrderUpdate, NextFrame, Prices, TypeOK
  <2>2. IsOur(Head(events).id) => our[Head(events).id] \in Prices
    BY <2>1 DEF IsOur, TypeOK
  <2>3. -1 \in Int
    OBVIOUS
  <2>4. ASSUME NEW price \in Prices
        PROVE  AdjustLockedBalance(locked, Head(events).id, price, -1)
                  \in [Ids -> [Prices -> Int]]
    BY <2>1, <2>3, AdjustLocked
  <2>5. locked' \in [Ids -> [Prices -> Int]]
    BY <1>6, <2>1, <2>2, <2>4 DEF CloseBegin
  <2> QED BY <1>6, <2>5 DEF CloseBegin, TypeOK
<1>7. CASE CloseFinish
  <2>1. Head(events).id \in Ids /\ Tail(events) \in Seq(OrderFrames \cup PositionFrames)
    BY <1>7, HeadType DEF CloseFinish, CloseInv
  <2>2. total' \in [Ids -> Int]
    BY <1>7, <2>1 DEF CloseFinish, TypeOK, Units
  <2>3. our' \in [Ids -> Prices \cup {"absent"}]
    BY <1>7, <2>1 DEF CloseFinish, TypeOK
  <2>4. ext' \subseteq Known
    BY <1>7 DEF CloseFinish, TypeOK
  <2> QED BY <1>7, <2>1, <2>2, <2>3, <2>4 DEF CloseFinish, TypeOK
<1> QED BY <1>1, <1>2, <1>3, <1>4, <1>5, <1>6, <1>7 DEF OnOrderUpdate

\* An order the exchange has not closed has units left to execute.
ExecInv == \A i \in Ids : exch[i] \notin Closed => executed[i] < Units

LEMMA TypeStep == TypeOK /\ SentInv /\ CloseInv /\ ExecInv /\ [Next]_vars => TypeOK'
<1> SUFFICES ASSUME TypeOK, SentInv, CloseInv, ExecInv, [Next]_vars PROVE TypeOK'
  OBVIOUS
<1>1. CASE Exchange
  <2>1. ASSUME NEW i \in ExtIds, PlaceExternal(i) PROVE TypeOK'
    <3>1. i \in Ids /\ "NEW" \in Status /\ executed \in Executions
      BY DEF Ids, Status, Open, TypeOK
    <3> QED BY <2>1, <3>1, ExchangeStepType DEF PlaceExternal
  <2>2. ASSUME NEW i \in Ids, Execute(i) PROVE TypeOK'
    <3>1. [executed EXCEPT ![i] = executed[i] + 1] \in Executions
      <4>1. executed[i] \in 0 .. Units /\ executed[i] < Units
        BY <2>2 DEF Execute, IsOpen, Open, Closed, TypeOK, Executions, ExecInv
      <4>2. executed[i] + 1 \in 0 .. Units
        BY <4>1 DEF Units
      <4> QED BY <4>2 DEF TypeOK, Executions
    <3> QED BY <2>2, <3>1, ExchangeStepType DEF Execute, Status, Open, Closed
  <2>3. ASSUME NEW i \in Ids, NEW s \in Closed, CloseOrder(i, s) PROVE TypeOK'
    <3>1. s \in Status /\ executed \in Executions
      BY DEF Status, TypeOK
    <3> QED BY <2>3, <3>1, ExchangeStepType DEF CloseOrder
  <2> QED BY <1>1, <2>1, <2>2, <2>3 DEF Exchange
<1>2. CASE \E t \in Senders : SendOrder(t)
  BY <1>2, TypeSend
<1>3. CASE \E r \in Refreshers : RefreshAccountBalance(r)
  BY <1>3, TypeRefresh
<1>4. CASE OnConnectionOpen
  BY <1>4, TypeOpen
<1>5. CASE Disconnect
  BY <1>5 DEF Disconnect, TypeOK, restVars, bookVars, balanceVars, historyVars
<1>6. CASE OnAccountBalanceUpdate \/ OnOrderUpdate
  BY <1>6, TypeFrame
<1>7. CASE UNCHANGED vars
  BY <1>7 DEF vars, exchVars, threadVars, restVars, bookVars, balanceVars,
              historyVars, TypeOK
<1> QED BY <1>1, <1>2, <1>3, <1>4, <1>5, <1>6, <1>7 DEF Next

(***************************************************************************)
(* The inductive invariant                                                 *)
(***************************************************************************)

\* Who is where it must hold m_order_mutex is who holds it.
MutexInv ==
    /\ \A t \in Senders : sender[t] \in SenderLocked <=> mutex = t
    /\ \A r \in Refreshers : refresher[r] \in RefresherLocked <=> mutex = r
    /\ stream \in StreamLocked <=> mutex = Stream

\* A frame that closes an order is sent once the order is closed for good.
FramesInv ==
    \A n \in 1 .. Len(events) :
        events[n].kind = "order" /\ events[n].status \in Closed =>
            exch[events[n].id] \in Closed

\* The account is not synced while an order is being placed.
SyncedInv == \A t \in Senders : sender[t] \in SenderLocked => ~synced

\* Order i is the one of a reply still to be handled.
InReply(i) == sent = i /\ \E t \in Senders : sender[t] = "reply"

\* m_our_orders: an open order of ours is in it, an order never placed is not.
OurInv ==
    /\ \A i \in OwnIds \ orphans : IsOpen(i) => IsOur(i) \/ InReply(i)
    /\ \A i \in Ids : IsOur(i) \/ InReply(i) => exch[i] # "none"
    /\ \A i \in Ids : ~(IsOur(i) /\ InReply(i))

\* Registrations whose amount is not locked yet, or is no longer.
Pending(i) ==
    (IF sent = i /\ \E t \in Senders : sender[t] = "lock" THEN 1 ELSE 0)
    + (IF stream = "close" /\ Head(events).id = i THEN 1 ELSE 0)

Replaying == \E r \in Refreshers : refresher[r] \in {"replay_external", "replay_our"}

NothingLeaked == \A i \in Ids : leaked[i] = 0

\* LockAccounting, at every point of every operation.
LockInv ==
    /\ ~Replaying => \A i \in Exact :
          locked[i]["asked"] =
              OurLock(i, "asked") + ExtLock(i, "asked") + leaked[i] - Pending(i)
    /\ \A r \in Refreshers :
          /\ refresher[r] = "replay_external" => NothingLeaked /\ locked = NoLocks
          /\ refresher[r] = "replay_our" =>
                NothingLeaked /\ \A i \in Ids, p \in Prices : locked[i][p] = ExtLock(i, p)

Inv ==
    /\ TypeOK /\ MutexInv /\ SentInv /\ CloseInv /\ ExecInv
    /\ FramesInv /\ SyncedInv /\ OurInv /\ LockInv

LEMMA InvInit == Init => Inv
<1> SUFFICES ASSUME Init PROVE Inv
  OBVIOUS
<1> USE ConstantsAssumption DEF Init
<1>1. TypeOK
  BY TypeInit
<1>2. MutexInv
  BY DEF MutexInv, Threads, SenderLocked, RefresherLocked, StreamLocked
<1>3. SentInv /\ CloseInv /\ SyncedInv
  BY DEF SentInv, CloseInv, SyncedInv, SenderLocked
<1>4. ExecInv
  BY DEF ExecInv, NoExecutions, Units
<1>5. FramesInv
  BY DEF FramesInv
<1>6. OurInv
  BY DEF OurInv, InReply, IsOpen, Open, IsOur, Ids
<1>7. LockInv
  BY DEF LockInv, NoLocks, Prices, OurLock, ExtLock, Pending
<1> QED BY <1>1, <1>2, <1>3, <1>4, <1>5, <1>6, <1>7 DEF Inv

(***************************************************************************)
(* A step preserves it                                                     *)
(***************************************************************************)

\* A report adds frames behind those that wait.
LEMMA ReportFrames ==
    ASSUME TypeOK, NEW i \in Ids, NEW s \in Status, NEW ex \in Executions,
           Report(i, s, ex)
    PROVE  /\ Len(events') >= Len(events)
           /\ \A n \in 1 .. Len(events) : events'[n] = events[n]
           /\ \A n \in 1 .. Len(events') : n > Len(events) =>
                 \/ events'[n].kind = "position"
                 \/ events'[n].id = i /\ events'[n].status = s
           /\ events # <<>> => events' # <<>> /\ Head(events') = Head(events)
<1> DEFINE order == [kind |-> "order", id |-> i, status |-> s]
           position == [kind |-> "position", executed |-> ex]
<1>1. events \in Seq(Frame) /\ order \in Frame /\ position \in Frame
  BY DEF TypeOK, Frame, OrderFrames, PositionFrames
<1>2. order.id = i /\ order.status = s /\ position.kind = "position"
  OBVIOUS
<1> HIDE DEF order, position
<1>3. CASE events' = events
  BY <1>1, <1>3
<1>4. CASE events' = Append(Append(events, order), position)
  BY <1>1, <1>2, <1>4
<1> QED BY <1>3, <1>4 DEF Report, Send, order, position

\* Reports about an order that is not closed keep what ExecInv and FramesInv say.
LEMMA ReportInv ==
    ASSUME TypeOK, ExecInv, FramesInv, NEW i \in Ids, NEW s \in Status \ {"none"},
           NEW ex \in Executions, exch[i] \notin Closed, Report(i, s, ex),
           s \notin Closed => ex[i] < Units,
           \A j \in Ids \ {i} : ex[j] = executed[j]
    PROVE  ExecInv' /\ FramesInv'
<1>1. ExecInv'
  BY DEF ExecInv, Report, TypeOK
<1>2. FramesInv'
  <2> SUFFICES ASSUME NEW n \in 1 .. Len(events'), events'[n].kind = "order",
                      events'[n].status \in Closed
               PROVE  exch'[events'[n].id] \in Closed
    BY DEF FramesInv
  <2>1. CASE n \in 1 .. Len(events)
    <3>1. events'[n] = events[n]
      BY <2>1, ReportFrames
    <3>2. exch[events[n].id] \in Closed
      BY <2>1, <3>1 DEF FramesInv
    <3>3. events[n].id \in Ids
      BY <2>1, <3>1 DEF TypeOK, OrderFrames, PositionFrames
    <3> QED BY <3>1, <3>2, <3>3 DEF Report, TypeOK
  <2>2. CASE n \notin 1 .. Len(events)
    <3>1. n > Len(events)
      BY <2>2 DEF TypeOK
    <3>2. events'[n].id = i /\ events'[n].status = s
      BY <3>1, ReportFrames
    <3> QED BY <3>2 DEF Report, TypeOK
  <2> QED BY <2>1, <2>2
<1> QED BY <1>1, <1>2

LEMMA MutexStep == Inv /\ [Next]_vars => MutexInv'
<1> SUFFICES ASSUME Inv, [Next]_vars PROVE MutexInv'
  OBVIOUS
<1> USE ConstantsAssumption
    DEF Inv, MutexInv, Threads, SenderLocked, RefresherLocked, StreamLocked,
        threadVars
<1>1. CASE Exchange
  BY <1>1 DEF Exchange, PlaceExternal, Execute, CloseOrder, ProcessUnchanged
<1>2. ASSUME NEW t \in Senders, SendOrder(t) PROVE MutexInv'
  <2> USE DEF TypeOK
  <2>1. CASE Decide(t)
    BY <2>1 DEF Decide
  <2>2. CASE SendBegin(t)
    BY <2>2 DEF SendBegin
  <2>3. CASE \E i \in OwnIds : SendAccepted(t, i)
    BY <2>3 DEF SendAccepted
  <2>4. CASE SendRefused(t)
    BY <2>4 DEF SendRefused
  <2>5. CASE SendReplyLost(t)
    BY <2>5 DEF SendReplyLost
  <2>6. CASE SendReplyGarbled(t) \/ SendFinish(t)
    <3>1. mutex = t /\ mutex' = NoThread /\ sender' = [sender EXCEPT ![t] = "idle"]
          /\ UNCHANGED <<refresher, stream>>
      BY <2>6 DEF SendReplyGarbled, SendFinish
    <3> QED BY <3>1
  <2>7. CASE SendStore(t) \/ SendLock(t)
    <3>1. /\ sender[t] \in {"reply", "lock"} /\ UNCHANGED <<mutex, refresher, stream>>
          /\ \E l \in {"lock", "finish"} : sender' = [sender EXCEPT ![t] = l]
      BY <2>7 DEF SendStore, SendLock
    <3> QED BY <3>1
  <2> QED BY <1>2, <2>1, <2>2, <2>3, <2>4, <2>5, <2>6, <2>7 DEF SendOrder
<1>3. CASE Crash
  BY <1>3 DEF Crash
<1>4. ASSUME NEW r \in Refreshers, RefreshAccountBalance(r) PROVE MutexInv'
  <2> USE DEF TypeOK
  <2>1. CASE RefreshBegin(r)
    BY <2>1 DEF RefreshBegin
  <2>2. CASE RefreshFailed(r)
    BY <1>3, <2>2 DEF RefreshFailed
  <2>3. CASE RefreshReply(r) \/ RefreshAssign(r) \/ RefreshReplayExternal(r)
    <3>1. /\ refresher[r] \in RefresherLocked /\ UNCHANGED <<mutex, sender, stream>>
          /\ \E l \in RefresherLocked : refresher' = [refresher EXCEPT ![r] = l]
      BY <2>3 DEF RefreshReply, RefreshAssign, RefreshReplayExternal
    <3> QED BY <3>1
  <2>4. CASE RefreshReplayOur(r)
    BY <2>4 DEF RefreshReplayOur
  <2> QED BY <1>4, <2>1, <2>2, <2>3, <2>4 DEF RefreshAccountBalance
<1>5. CASE OnConnectionOpen
  <2>1. CASE Connect \/ InitializeReply \/ InitializeFinish
    BY <2>1 DEF Connect, InitializeReply, InitializeFinish, TypeOK
  <2>2. CASE InitializeBegin
    BY <2>2 DEF InitializeBegin, TypeOK
  <2>3. CASE InitializeFailed
    BY <1>3, <2>3 DEF InitializeFailed
  <2> QED BY <1>5, <2>1, <2>2, <2>3 DEF OnConnectionOpen
<1>6. CASE Disconnect
  BY <1>6 DEF Disconnect
<1>7. CASE OnAccountBalanceUpdate \/ OnOrderUpdate
  BY <1>7 DEF OnAccountBalanceUpdate, OnOrderUpdate, OnUnknownOrder, UpdateOurOrder,
              AddExternalOrder, IgnoreExternalOrder, CloseBegin, CloseFinish,
              OrderUpdate, NextFrame
<1>8. CASE UNCHANGED vars
  BY <1>8 DEF vars
<1> QED BY <1>1, <1>2, <1>4, <1>5, <1>6, <1>7, <1>8 DEF Next

\* What the exchange does of its own accord is a report about an order that is
\* not closed, and a new order is somebody else's.
LEMMA ExchangeReports ==
    ASSUME Inv, Exchange
    PROVE  /\ ProcessUnchanged
           /\ \E i \in Ids, s \in Status \ {"none"}, ex \in Executions :
                 /\ Report(i, s, ex)
                 /\ exch[i] \notin Closed
                 /\ exch[i] = "none" => i \in ExtIds
                 /\ s \notin Closed => ex[i] < Units
                 /\ \A j \in Ids \ {i} : ex[j] = executed[j]
<1>1. ProcessUnchanged
  BY DEF Exchange, PlaceExternal, Execute, CloseOrder
<1>2. executed \in Executions
  BY DEF Inv, TypeOK
<1>3. ASSUME NEW i \in ExtIds, PlaceExternal(i)
      PROVE  /\ i \in Ids /\ "NEW" \in Status \ {"none"} /\ Report(i, "NEW", executed)
             /\ exch[i] = "none" /\ exch[i] \notin Closed /\ executed[i] < Units
  BY <1>3 DEF PlaceExternal, Ids, Status, Open, Closed, Inv, ExecInv
<1>4. ASSUME NEW i \in Ids, Execute(i)
      PROVE  \E s \in Status \ {"none"}, ex \in Executions :
                 /\ Report(i, s, ex)
                 /\ exch[i] \notin Closed /\ exch[i] # "none"
                 /\ s \notin Closed => ex[i] < Units
                 /\ \A j \in Ids \ {i} : ex[j] = executed[j]
  <2> DEFINE n == executed[i] + 1
             s == IF n = Units THEN "FILLED" ELSE "PARTIALLY_FILLED"
             ex == [executed EXCEPT ![i] = n]
  <2>1. Report(i, s, ex) /\ exch[i] \notin Closed /\ exch[i] # "none"
    BY <1>4 DEF Execute, IsOpen, Open, Closed
  <2>2. executed[i] \in 0 .. Units /\ executed[i] < Units
    BY <2>1 DEF Inv, TypeOK, Executions, ExecInv
  <2>3. n \in 0 .. Units
    BY <2>2 DEF Units
  <2>4. ex \in Executions /\ ex[i] = n /\ \A j \in Ids \ {i} : ex[j] = executed[j]
    BY <2>3 DEF Inv, TypeOK, Executions
  <2>5. s \in Status \ {"none"} /\ (s \notin Closed => n < Units)
    BY <2>3 DEF Status, Open, Closed, Units
  <2> HIDE DEF n, s, ex
  <2> QED BY <2>1, <2>4, <2>5
<1>5. ASSUME NEW i \in Ids, NEW s \in Closed, CloseOrder(i, s)
      PROVE  /\ Report(i, s, executed) /\ s \in Status \ {"none"}
             /\ exch[i] # "none" /\ exch[i] \notin Closed
  BY <1>5 DEF CloseOrder, IsOpen, Status, Open, Closed
<1> QED BY <1>1, <1>2, <1>3, <1>4, <1>5 DEF Exchange

LEMMA SentStep == Inv /\ [Next]_vars => SentInv' /\ SyncedInv'
<1> SUFFICES ASSUME Inv, [Next]_vars PROVE SentInv' /\ SyncedInv'
  OBVIOUS
<1> USE ConstantsAssumption
    DEF Inv, SentInv, SyncedInv, MutexInv, SenderLocked, RefresherLocked,
        StreamLocked, threadVars, restVars
<1>1. CASE Exchange
  BY <1>1, ExchangeReports DEF ProcessUnchanged
<1>2. ASSUME NEW t \in Senders, SendOrder(t) PROVE SentInv' /\ SyncedInv'
  <2> USE DEF TypeOK
  <2>1. CASE Decide(t)
    BY <2>1 DEF Decide
  <2>2. CASE SendBegin(t)
    BY <2>2 DEF SendBegin, SyncedDuringRequest
  <2>3. CASE \E i \in OwnIds : SendAccepted(t, i)
    BY <2>3 DEF SendAccepted
  <2>4. CASE SendRefused(t)
    BY <2>4 DEF SendRefused
  <2>5. CASE SendReplyLost(t)
    BY <2>5 DEF SendReplyLost
  <2>6. CASE SendReplyGarbled(t) \/ SendFinish(t)
    <3>1. mutex = t /\ sender' = [sender EXCEPT ![t] = "idle"]
      BY <2>6 DEF SendReplyGarbled, SendFinish
    <3> QED BY <3>1
  <2>7. CASE SendStore(t)
    BY <2>7 DEF SendStore
  <2>8. CASE SendLock(t)
    BY <2>8 DEF SendLock
  <2> QED BY <1>2, <2>1, <2>2, <2>3, <2>4, <2>5, <2>6, <2>7, <2>8 DEF SendOrder
<1>3. CASE Crash
  BY <1>3 DEF Crash
<1>4. ASSUME NEW r \in Refreshers, RefreshAccountBalance(r)
      PROVE  SentInv' /\ SyncedInv'
  <2>1. CASE RefreshReplayOur(r)
    <3>1. mutex = r /\ UNCHANGED <<sender, sent>>
      BY <2>1 DEF RefreshReplayOur
    <3> QED BY <3>1
  <2>2. CASE RefreshFailed(r)
    BY <1>3, <2>2 DEF RefreshFailed
  <2>3. CASE UNCHANGED <<sender, sent, synced>>
    BY <2>3
  <2> QED BY <1>4, <2>1, <2>2, <2>3
          DEF RefreshAccountBalance, RefreshBegin, RefreshReply, RefreshAssign,
              RefreshReplayExternal
<1>5. CASE OnConnectionOpen
  BY <1>3, <1>5 DEF OnConnectionOpen, Connect, InitializeBegin, InitializeReply,
              InitializeFailed, InitializeFinish
<1>6. CASE Disconnect
  BY <1>6 DEF Disconnect
<1>7. CASE OnAccountBalanceUpdate \/ OnOrderUpdate
  BY <1>7 DEF OnAccountBalanceUpdate, OnOrderUpdate, OnUnknownOrder, UpdateOurOrder,
              AddExternalOrder, IgnoreExternalOrder, CloseBegin, CloseFinish
<1>8. CASE UNCHANGED vars
  BY <1>8 DEF vars
<1> QED BY <1>1, <1>2, <1>4, <1>5, <1>6, <1>7, <1>8 DEF Next

\* Handling the first frame keeps FramesInv.
LEMMA TailFrames ==
    ASSUME TypeOK, FramesInv, events # <<>>, events' = Tail(events), exch' = exch
    PROVE  FramesInv'
<1>1. events \in Seq(Frame)
  BY DEF TypeOK, Frame
<1>2. Len(events') = Len(events) - 1 /\ \A n \in 1 .. Len(events') : events'[n] = events[n + 1]
  BY <1>1
<1>3. \A n \in 1 .. Len(events') : n + 1 \in 1 .. Len(events)
  BY <1>1, <1>2
<1> QED BY <1>2, <1>3 DEF FramesInv

LEMMA ExchangeInvStep == Inv /\ [Next]_vars => ExecInv' /\ FramesInv'
<1> SUFFICES ASSUME Inv, [Next]_vars PROVE ExecInv' /\ FramesInv'
  OBVIOUS
<1> USE ConstantsAssumption DEF Inv, exchVars
<1>1. CASE UNCHANGED exchVars
  BY <1>1 DEF ExecInv, FramesInv
<1>2. CASE Exchange
  BY <1>2, ExchangeReports, ReportInv
<1>3. ASSUME NEW t \in Senders, NEW i \in OwnIds, SendAccepted(t, i)
      PROVE  ExecInv' /\ FramesInv'
  <2>1. /\ i \in Ids /\ "NEW" \in Status \ {"none"} /\ executed \in Executions
        /\ exch[i] \notin Closed /\ Report(i, "NEW", executed)
    BY <1>3 DEF SendAccepted, Ids, Status, Open, Closed, TypeOK
  <2>2. executed[i] < Units
    BY <2>1 DEF ExecInv
  <2> QED BY <2>1, <2>2, ReportInv
<1>4. CASE (Crash \/ Disconnect)
  <2>1. UNCHANGED <<exch, executed>> /\ events' = <<>>
    BY <1>4 DEF Crash, Disconnect
  <2> QED BY <2>1 DEF ExecInv, FramesInv
<1>5. CASE events # <<>> /\ events' = Tail(events) /\ UNCHANGED <<exch, executed>>
  BY <1>5, TailFrames DEF ExecInv
<1>6. CASE \E t \in Senders : SendOrder(t)
  BY <1>1, <1>3, <1>6
     DEF SendOrder, Decide, SendBegin, SendRefused, SendReplyLost, SendReplyGarbled,
         SendStore, SendLock, SendFinish
<1>7. CASE \E r \in Refreshers : RefreshAccountBalance(r)
  BY <1>1, <1>4, <1>7
     DEF RefreshAccountBalance, RefreshBegin, RefreshReply, RefreshFailed,
         RefreshAssign, RefreshReplayExternal, RefreshReplayOur
<1>8. CASE OnConnectionOpen
  BY <1>1, <1>4, <1>8
     DEF OnConnectionOpen, Connect, InitializeBegin, InitializeReply,
         InitializeFailed, InitializeFinish
<1>9. CASE OnAccountBalanceUpdate \/ OnOrderUpdate
  BY <1>1, <1>5, <1>9
     DEF OnAccountBalanceUpdate, OnOrderUpdate, OnUnknownOrder, UpdateOurOrder,
         AddExternalOrder, IgnoreExternalOrder, CloseBegin, CloseFinish,
         OrderUpdate, NextFrame, CloseInv
<1> QED BY <1>1, <1>2, <1>4, <1>6, <1>7, <1>8, <1>9 DEF Next, vars

\* Only the holder of m_order_mutex goes on while there is one; the others may at
\* most decide to place an order.
LEMMA HolderOnly ==
    ASSUME Inv
    PROVE  /\ \A t \in Senders :
                 SendOrder(t) /\ mutex \notin {t, NoThread} => Decide(t)
           /\ \A r \in Refreshers : RefreshAccountBalance(r) => mutex \in {r, NoThread}
BY DEF Inv, MutexInv, SenderLocked, RefresherLocked, SendOrder, SendBegin, SendAccepted,
       SendRefused, SendReplyLost, SendReplyGarbled, SendStore, SendLock, SendFinish,
       RefreshAccountBalance, RefreshBegin, RefreshReply, RefreshFailed,
       RefreshAssign, RefreshReplayExternal, RefreshReplayOur

LEMMA CloseStep == Inv /\ [Next]_vars => CloseInv'
<1> SUFFICES ASSUME Inv, [Next]_vars, stream' = "close"
             PROVE  CloseInv'
  BY DEF CloseInv
<1> USE ConstantsAssumption
    DEF Inv, exchVars, threadVars, bookVars, IsOur
<1>1. CASE stream = "close" /\ UNCHANGED <<our, ext>>
           /\ events' # <<>> /\ Head(events') = Head(events)
  BY <1>1 DEF CloseInv
<1>2. CASE Exchange
  <2>1. UNCHANGED <<stream, our, ext>>
    BY <1>2, ExchangeReports DEF ProcessUnchanged
  <2>2. stream = "close" /\ events # <<>>
    BY <2>1 DEF CloseInv
  <2>3. events' # <<>> /\ Head(events') = Head(events)
    BY <1>2, <2>2, ExchangeReports, ReportFrames
  <2> QED BY <1>1, <2>1, <2>2, <2>3
<1>3. ASSUME NEW t \in Senders, SendOrder(t) PROVE CloseInv'
  <2>1. stream = "close"
    BY <1>3 DEF SendOrder, Decide, SendBegin, SendAccepted, SendRefused, SendReplyLost,
                SendReplyGarbled, SendStore, SendLock, SendFinish
  <2>2. Decide(t)
    BY <1>3, <2>1, HolderOnly DEF MutexInv, StreamLocked, Threads
  <2> QED BY <1>1, <2>1, <2>2 DEF Decide, CloseInv
<1>4. ASSUME NEW r \in Refreshers, RefreshAccountBalance(r) PROVE FALSE
  <2>1. mutex \in {r, NoThread}
    BY <1>4, HolderOnly
  <2>2. stream # "close"
    BY <2>1 DEF MutexInv, StreamLocked, Threads
  <2> QED BY <1>4, <2>2
          DEF RefreshAccountBalance, RefreshBegin, RefreshReply, RefreshFailed, Crash,
              RefreshAssign, RefreshReplayExternal, RefreshReplayOur
<1>5. CASE CloseBegin
  <2>1. Head(events).status \in Closed
    BY <1>5 DEF CloseBegin, ClosesOur, Closed
  <2>2. Head(events).kind = "order" /\ events # <<>> /\ Head(events).id \in Known
    BY <1>5 DEF CloseBegin, OrderUpdate, NextFrame
  <2>3. IsOur(Head(events).id) \/ Head(events).id \in ext
    BY <1>5 DEF CloseBegin, WasAdded
  <2> QED BY <1>5, <2>1, <2>2, <2>3 DEF CloseBegin, CloseInv
<1>6. ~ (OnConnectionOpen \/ Disconnect)
  BY DEF OnConnectionOpen, Connect, InitializeBegin, InitializeReply, InitializeFailed,
         InitializeFinish, Crash, Disconnect
<1>7. ~ (OnAccountBalanceUpdate \/ OnUnknownOrder \/ UpdateOurOrder
         \/ AddExternalOrder \/ IgnoreExternalOrder \/ CloseFinish)
  BY DEF OnAccountBalanceUpdate, OnUnknownOrder, UpdateOurOrder, AddExternalOrder,
         IgnoreExternalOrder, CloseFinish, OrderUpdate, NextFrame
<1>8. CASE UNCHANGED vars
  BY <1>1, <1>8 DEF vars, CloseInv
<1> QED BY <1>2, <1>3, <1>4, <1>5, <1>6, <1>7, <1>8 DEF Next, OnOrderUpdate

\* An order frame under CloseFinish is of an order closed at the exchange.
LEMMA CloseFrame ==
    ASSUME Inv, stream = "close"
    PROVE  Head(events).id \in Ids /\ exch[Head(events).id] \in Closed
<1>1. /\ events # <<>> /\ Head(events).kind = "order"
      /\ Head(events).status \in Closed /\ Head(events).id \in Known
  BY DEF Inv, CloseInv
<1>2. events \in Seq(Frame)
  BY DEF Inv, TypeOK, Frame
<1>3. 1 \in 1 .. Len(events) /\ Head(events) = events[1]
  BY <1>1, <1>2
<1> QED BY <1>1, <1>3, ConstantsAssumption DEF Inv, FramesInv

LEMMA OurStep == Inv /\ [Next]_vars => OurInv'
<1> SUFFICES ASSUME Inv, [Next]_vars PROVE OurInv'
  OBVIOUS
<1> USE ConstantsAssumption
    DEF Inv, IsOur, IsOpen, exchVars, threadVars, restVars, bookVars, historyVars
<1>1. CASE UNCHANGED <<exch, sender, sent, our, orphans>>
  BY <1>1 DEF OurInv, InReply
<1>2. CASE Exchange
  <2>1. UNCHANGED <<sender, sent, our, orphans>>
    BY <1>2, ExchangeReports DEF ProcessUnchanged
  <2>2. PICK i \in Ids, s \in Status \ {"none"}, ex \in Executions :
            /\ Report(i, s, ex) /\ exch[i] \notin Closed
            /\ exch[i] = "none" => i \in ExtIds
    BY <1>2, ExchangeReports
  <2>3. exch' = [exch EXCEPT ![i] = s] /\ exch \in [Ids -> Status]
    BY <2>2 DEF Report, TypeOK
  <2>4. ASSUME NEW j \in OwnIds, exch'[j] \in Open PROVE exch[j] \in Open
    BY <2>2, <2>3, <2>4 DEF Ids, Status
  <2>5. ASSUME NEW j \in Ids, exch[j] # "none" PROVE exch'[j] # "none"
    BY <2>3, <2>5
  <2> QED BY <2>1, <2>4, <2>5 DEF OurInv, InReply
<1>3. ASSUME NEW t \in Senders, SendOrder(t) PROVE OurInv'
  <2>1. CASE \E i \in OwnIds : SendAccepted(t, i)
    <3>1. PICK i \in OwnIds : SendAccepted(t, i)
      BY <2>1
    <3>2. /\ i \in Ids /\ exch[i] = "none" /\ exch' = [exch EXCEPT ![i] = "NEW"]
          /\ exch \in [Ids -> Status] /\ sender' = [sender EXCEPT ![t] = "reply"]
          /\ sender[t] = "request" /\ sent' = i /\ UNCHANGED <<our, orphans>>
      BY <3>1 DEF SendAccepted, Report, Ids, TypeOK
    <3>3. \A u \in Senders : sender[u] # "reply"
      BY <3>2 DEF MutexInv, SenderLocked
    <3>4. InReply(i)' /\ \A j \in Ids : ~InReply(j)
      BY <3>2, <3>3 DEF InReply, TypeOK
    <3>5. \A j \in Ids \ {i} : exch'[j] = exch[j] /\ ~InReply(j)'
      BY <3>2 DEF InReply
    <3>6. ~IsOur(i) /\ exch'[i] = "NEW"
      BY <3>2 DEF OurInv
    <3> QED BY <3>2, <3>4, <3>5, <3>6 DEF OurInv, Ids
  <2>2. CASE SendReplyLost(t) \/ SendReplyGarbled(t)
    <3>1. /\ sent' = NoOrder /\ UNCHANGED <<exch, our>> /\ orphans \subseteq orphans'
          /\ sender[t] = "request" \/ (sender[t] = "reply" /\ sent \in orphans')
      BY <2>2 DEF SendReplyLost, SendReplyGarbled
    <3>2. \A i \in Ids : ~InReply(i)'
      BY <3>1 DEF InReply
    <3>3. \A i \in Ids : InReply(i) => i \in orphans'
      BY <3>1 DEF InReply, MutexInv, SenderLocked
    <3> QED BY <3>1, <3>2, <3>3 DEF OurInv, Ids
  <2>3. CASE SendStore(t)
    <3>1. /\ sender[t] = "reply" /\ sender' = [sender EXCEPT ![t] = "lock"]
          /\ our' = [our EXCEPT ![sent] = "asked"] /\ UNCHANGED <<exch, orphans, sent>>
      BY <2>3 DEF SendStore
    <3>2. \A u \in Senders : sender'[u] # "reply"
      BY <3>1 DEF MutexInv, SenderLocked, TypeOK
    <3>3. \A i \in Ids : ~InReply(i)' /\ (i # sent => ~InReply(i))
      BY <3>2 DEF InReply
    <3>4. sent \in OwnIds /\ exch[sent] # "none"
      BY <3>1 DEF SentInv, OurInv, InReply, Ids
    <3> QED BY <3>1, <3>3, <3>4 DEF OurInv, TypeOK
  <2>4. CASE SendFinish(t)
    <3>1. /\ sender' = [sender EXCEPT ![t] = "idle"] /\ mutex = t /\ sender[t] # "reply"
          /\ UNCHANGED <<exch, our, orphans>>
      BY <2>4 DEF SendFinish, MutexInv, SenderLocked
    <3>2. \A u \in Senders : sender[u] # "reply" /\ sender'[u] # "reply"
      BY <3>1 DEF MutexInv, SenderLocked, TypeOK
    <3> QED BY <3>1, <3>2 DEF OurInv, InReply
  <2>5. CASE Decide(t) \/ SendBegin(t) \/ SendRefused(t) \/ SendLock(t)
    <3>1. \E l \in {"decided", "request", "failed", "finish"} :
             sender[t] # "reply" /\ sender' = [sender EXCEPT ![t] = l]
      BY <2>5 DEF Decide, SendBegin, SendRefused, SendLock
    <3>2. UNCHANGED <<exch, sent, our, orphans>>
      BY <2>5 DEF Decide, SendBegin, SendRefused, SendLock
    <3>3. \A u \in Senders : sender'[u] = "reply" <=> sender[u] = "reply"
      BY <3>1 DEF TypeOK
    <3> QED BY <3>2, <3>3 DEF OurInv, InReply
  <2> QED BY <1>3, <2>1, <2>2, <2>3, <2>4, <2>5 DEF SendOrder
<1>4. CASE Crash
  <2>1. /\ orphans' = {i \in OwnIds : exch[i] # "none"} /\ UNCHANGED exch
        /\ \A i \in Ids : our'[i] = "absent"
        /\ \A t \in Senders : sender'[t] = "idle"
    BY <1>4 DEF Crash
  <2>2. \A i \in Ids : ~InReply(i)'
    BY <2>1 DEF InReply
  <2> QED BY <2>1, <2>2 DEF OurInv, Open, Ids
<1>5. CASE \E r \in Refreshers : RefreshAccountBalance(r)
  BY <1>1, <1>4, <1>5
     DEF RefreshAccountBalance, RefreshBegin, RefreshReply, RefreshFailed,
         RefreshAssign, RefreshReplayExternal, RefreshReplayOur
<1>6. CASE OnConnectionOpen
  BY <1>1, <1>4, <1>6
     DEF OnConnectionOpen, Connect, InitializeBegin, InitializeReply,
         InitializeFailed, InitializeFinish
<1>7. CASE UpdateOurOrder
  <2>1. /\ IsOur(Head(events).id) /\ UNCHANGED <<exch, sender, sent, orphans>>
        /\ our' = our \/ our' = [our EXCEPT ![Head(events).id] = "reported"]
    BY <1>7 DEF UpdateOurOrder
  <2>2. \A i \in Ids : our'[i] # "absent" <=> our[i] # "absent"
    BY <2>1 DEF TypeOK
  <2> QED BY <2>1, <2>2 DEF OurInv, InReply, Ids
<1>8. CASE CloseFinish
  <2>1. /\ UNCHANGED <<exch, sender, sent, orphans>>
        /\ our' = our \/ our' = [our EXCEPT ![Head(events).id] = "absent"]
    BY <1>8 DEF CloseFinish
  <2>2. exch[Head(events).id] \in Closed
    BY <1>8, CloseFrame DEF CloseFinish
  <2>3. \A i \in Ids : /\ our'[i] # "absent" => our[i] # "absent"
                       /\ exch[i] \in Open => our'[i] = our[i]
    BY <2>1, <2>2 DEF TypeOK, Open, Closed
  <2> QED BY <2>1, <2>3 DEF OurInv, InReply, Ids
<1>9. CASE Disconnect \/ OnAccountBalanceUpdate \/ OnUnknownOrder \/ AddExternalOrder
           \/ IgnoreExternalOrder \/ CloseBegin
  BY <1>1, <1>9
     DEF Disconnect, OnAccountBalanceUpdate, OnUnknownOrder, AddExternalOrder,
         IgnoreExternalOrder, CloseBegin
<1> QED BY <1>1, <1>2, <1>3, <1>5, <1>6, <1>7, <1>8, <1>9 DEF Next, OnOrderUpdate, vars

\* For an order of Exact both prices stand for one amount.
LEMMA ExactLocks ==
    ASSUME NEW i \in Exact
    PROVE  /\ OurLock(i, "asked") = IF IsOur(i) THEN 1 ELSE 0
           /\ ExtLock(i, "asked") = IF i \in ext THEN 1 ELSE 0
           /\ OurLock(i, "asked")' = IF IsOur(i)' THEN 1 ELSE 0
           /\ ExtLock(i, "asked")' = IF i \in ext' THEN 1 ELSE 0
BY DEF OurLock, ExtLock, IsOur, Amount

LEMMA AdjustExact ==
    ASSUME NEW l \in [Ids -> [Prices -> Int]], NEW i \in Ids, NEW price \in Prices,
           NEW n \in Int, NEW j \in Exact
    PROVE  AdjustLockedBalance(l, i, price, n)[j]["asked"] =
               l[j]["asked"] + IF j = i THEN n ELSE 0
<1>1. j \in Ids /\ l[j] \in [Prices -> Int] /\ "asked" \in Prices
  BY ConstantsAssumption DEF Prices
<1>2. CASE j = i
  <2>1. Amount(i, price) = "asked"
    BY <1>2 DEF Amount
  <2> QED BY <1>1, <1>2, <2>1 DEF AdjustLockedBalance
<1>3. CASE j # i
  BY <1>1, <1>3 DEF AdjustLockedBalance
<1> QED BY <1>2, <1>3

\* Nothing is pending between operations, nor for another thread than the holder.
LEMMA PendingValues ==
    ASSUME Inv, NEW i \in Ids
    PROVE  /\ stream # "close" /\ (\A t \in Senders : sender[t] # "lock") => Pending(i) = 0
           /\ stream = "close" => Pending(i) = IF Head(events).id = i THEN 1 ELSE 0
           /\ (\E t \in Senders : sender[t] = "lock") =>
                 Pending(i) = IF sent = i THEN 1 ELSE 0
BY ConstantsAssumption DEF Pending, Inv, MutexInv, SenderLocked, StreamLocked, Threads

\* A step that moves no amount and no registration.
LEMMA LockKept ==
    ASSUME LockInv, UNCHANGED <<locked, our, ext, leaked>>,
           \A i \in Ids : Pending(i)' = Pending(i),
           \A r \in Refreshers, l \in {"replay_external", "replay_our"} :
               refresher'[r] = l <=> refresher[r] = l
    PROVE  LockInv'
BY ConstantsAssumption DEF LockInv, Replaying, NothingLeaked, OurLock, ExtLock

\* LockInv between refreshes.
LEMMA LockAfter ==
    ASSUME \A r \in Refreshers : refresher'[r] \notin {"replay_external", "replay_our"},
           \A i \in Exact :
               locked'[i]["asked"] = OurLock(i, "asked")' + ExtLock(i, "asked")'
                                         + leaked'[i] - Pending(i)'
    PROVE  LockInv'
BY DEF LockInv, Replaying

\* While no refresher holds the mutex there is no replay.
LEMMA NoReplay ==
    ASSUME Inv, mutex \notin Refreshers
    PROVE  /\ \A r \in Refreshers : refresher[r] \notin {"replay_external", "replay_our"}
           /\ \A i \in Exact :
                 locked[i]["asked"] = OurLock(i, "asked") + ExtLock(i, "asked")
                                          + leaked[i] - Pending(i)
BY DEF Inv, MutexInv, RefresherLocked, LockInv, Replaying

LEMMA LockSend == ASSUME Inv, NEW t \in Senders, SendOrder(t) PROVE LockInv'
<1> USE ConstantsAssumption
    DEF exchVars, threadVars, restVars, bookVars, balanceVars, historyVars
<1>0. LockInv /\ TypeOK
  BY DEF Inv
<1>1. CASE Decide(t) \/ SendBegin(t) \/ SendRefused(t)
  <2>1. \E l \in {"decided", "request", "failed"} :
           sender[t] # "lock" /\ sender' = [sender EXCEPT ![t] = l]
    BY <1>1 DEF Decide, SendBegin, SendRefused
  <2>2. UNCHANGED <<sent, stream, events, refresher, locked, our, ext, leaked>>
    BY <1>1 DEF Decide, SendBegin, SendRefused
  <2>3. \A u \in Senders : sender'[u] = "lock" <=> sender[u] = "lock"
    BY <1>0, <2>1 DEF TypeOK
  <2>4. \A i \in Ids : Pending(i)' = Pending(i)
    BY <2>2, <2>3 DEF Pending
  <2> QED BY <1>0, <2>2, <2>4, LockKept
<1>2. CASE \/ \E i \in OwnIds : SendAccepted(t, i)
           \/ SendReplyLost(t) \/ SendReplyGarbled(t) \/ SendFinish(t)
  <2>1. /\ \E l \in {"request", "reply", "failed", "idle"} :
              sender' = [sender EXCEPT ![t] = l]
        /\ sender[t] \in {"request", "reply", "finish", "failed"}
        /\ UNCHANGED <<stream, refresher, locked, our, ext, leaked>>
    BY <1>2 DEF SendAccepted, SendReplyLost, SendReplyGarbled, SendFinish
  <2>2. stream # "close" /\ \A u \in Senders : sender[u] # "lock"
    BY <2>1 DEF Inv, MutexInv, SenderLocked, StreamLocked
  <2>3. stream' # "close" /\ \A u \in Senders : sender'[u] # "lock"
    BY <1>0, <2>1, <2>2 DEF TypeOK
  <2>4. \A i \in Ids : Pending(i)' = Pending(i)
    BY <2>2, <2>3 DEF Pending
  <2> QED BY <1>0, <2>1, <2>4, LockKept
<1>3. CASE SendStore(t) \/ SendLock(t)
  <2>1. /\ mutex = t /\ stream # "close" /\ stream' = stream /\ refresher' = refresher
        /\ sent \in OwnIds /\ sent' = sent /\ UNCHANGED <<ext, leaked>>
    BY <1>3 DEF SendStore, SendLock, Inv, MutexInv, SentInv, SenderLocked, StreamLocked
  <2>2. /\ \A r \in Refreshers : refresher'[r] \notin {"replay_external", "replay_our"}
        /\ \A i \in Exact :
              locked[i]["asked"] = OurLock(i, "asked") + ExtLock(i, "asked")
                                       + leaked[i] - Pending(i)
    BY <2>1, NoReplay
  <2>3. locked \in [Ids -> [Prices -> Int]] /\ "asked" \in Prices /\ leaked \in [Ids -> Nat]
    BY <1>0 DEF TypeOK, Prices
  <2>4. CASE SendStore(t)
    <3>1. /\ sender[t] = "reply" /\ sender' = [sender EXCEPT ![t] = "lock"]
          /\ our' = [our EXCEPT ![sent] = "asked"] /\ locked' = locked
      BY <2>4 DEF SendStore
    <3>2. \A u \in Senders : sender[u] # "lock"
      BY <3>1 DEF Inv, MutexInv, SenderLocked
    <3>3. sender'[t] = "lock"
      BY <1>0, <3>1 DEF TypeOK
    <3>4. \A i \in Ids : Pending(i) = 0 /\ Pending(i)' = IF sent = i THEN 1 ELSE 0
      BY <2>1, <3>2, <3>3 DEF Pending
    <3>5. ~IsOur(sent)
      BY <2>1, <3>1 DEF Inv, OurInv, InReply, Ids
    <3>6. \A i \in Ids : IsOur(i)' <=> IsOur(i) \/ i = sent
      BY <1>0, <3>1 DEF TypeOK, IsOur
    <3>7. ASSUME NEW i \in Exact
          PROVE  locked'[i]["asked"] = OurLock(i, "asked")' + ExtLock(i, "asked")'
                                           + leaked'[i] - Pending(i)'
      <4>1. i \in Ids /\ leaked[i] \in Nat
        BY <2>3
      <4>2. ExtLock(i, "asked")' = ExtLock(i, "asked") /\ ExtLock(i, "asked") \in Int
        BY <2>1 DEF ExtLock
      <4>3. OurLock(i, "asked") \in Int
            /\ OurLock(i, "asked")' = OurLock(i, "asked") + IF i = sent THEN 1 ELSE 0
        <5>1. CASE i = sent
          BY <3>5, <3>6, <4>1, <5>1, ExactLocks
        <5>2. CASE i # sent
          BY <3>6, <4>1, <5>2, ExactLocks
        <5> QED BY <5>1, <5>2
      <4> QED BY <2>1, <2>2, <3>1, <3>4, <4>1, <4>2, <4>3
    <3> QED BY <2>2, <3>7, LockAfter
  <2>5. CASE SendLock(t)
    <3>1. /\ sender[t] = "lock" /\ sender' = [sender EXCEPT ![t] = "finish"]
          /\ our' = our /\ locked' = AdjustLockedBalance(locked, sent, "asked", 1)
      BY <2>5 DEF SendLock
    <3>2. \A u \in Senders : sender'[u] # "lock"
      BY <1>0, <3>1 DEF Inv, MutexInv, SenderLocked, TypeOK
    <3>3. \A i \in Ids : Pending(i)' = 0 /\ Pending(i) = IF sent = i THEN 1 ELSE 0
      BY <2>1, <3>1, <3>2 DEF Pending
    <3>4. sent \in Ids /\ 1 \in Int
      BY <2>1 DEF Ids
    <3>5. \A i \in Exact : locked'[i]["asked"] = locked[i]["asked"] + IF i = sent THEN 1 ELSE 0
      BY <2>3, <3>1, <3>4, AdjustExact
    <3>6. ASSUME NEW i \in Exact
          PROVE  locked'[i]["asked"] = OurLock(i, "asked")' + ExtLock(i, "asked")'
                                           + leaked'[i] - Pending(i)'
      <4>1. i \in Ids /\ leaked[i] \in Nat
        BY <2>3
      <4>2. OurLock(i, "asked")' = OurLock(i, "asked") /\ ExtLock(i, "asked")' = ExtLock(i, "asked")
        BY <2>1, <3>1 DEF OurLock, ExtLock
      <4>3. OurLock(i, "asked") \in Int /\ ExtLock(i, "asked") \in Int
        BY ExactLocks
      <4> QED BY <2>1, <2>2, <3>3, <3>5, <4>1, <4>2, <4>3
    <3> QED BY <2>2, <3>6, LockAfter
  <2> QED BY <1>3, <2>4, <2>5
<1> QED BY <1>1, <1>2, <1>3 DEF SendOrder

LEMMA LockCrash == ASSUME Crash PROVE LockInv'
<1>1. /\ \A r \in Refreshers : refresher'[r] = "off"
      /\ \A t \in Senders : sender'[t] = "idle"
      /\ stream' # "close"
      /\ \A i \in Ids : our'[i] = "absent" /\ leaked'[i] = 0
      /\ ext' = {} /\ locked' = NoLocks
  BY DEF Crash
<1>2. ASSUME NEW i \in Exact
      PROVE  locked'[i]["asked"] = OurLock(i, "asked")' + ExtLock(i, "asked")'
                                       + leaked'[i] - Pending(i)'
  <2>1. i \in Ids /\ "asked" \in Prices
    BY ConstantsAssumption DEF Prices
  <2>2. Pending(i)' = 0
    BY <1>1 DEF Pending
  <2>3. OurLock(i, "asked")' = 0 /\ ExtLock(i, "asked")' = 0
    BY <1>1, <2>1, ExactLocks DEF IsOur
  <2>4. locked'[i]["asked"] = 0
    BY <1>1, <2>1 DEF NoLocks
  <2> QED BY <1>1, <2>1, <2>2, <2>3, <2>4
<1> QED BY <1>1, <1>2, LockAfter

\* The state at the end of a refresh: every registered order is locked, and
\* nothing else.
LEMMA RefreshEnd ==
    ASSUME Inv, NEW r \in Refreshers, RefreshReplayOur(r)
    PROVE  /\ NothingLeaked'
           /\ \A i \in Ids, p \in Prices :
                 locked'[i][p] = OurLock(i, p)' + ExtLock(i, p)'
<1>1. /\ refresher[r] = "replay_our" /\ UNCHANGED <<our, ext, leaked>>
      /\ locked' = [i \in Ids |-> [p \in Prices |-> locked[i][p] + OurLock(i, p)]]
  BY DEF RefreshReplayOur, ReplayOur, bookVars, historyVars
<1>2. NothingLeaked /\ \A i \in Ids, p \in Prices : locked[i][p] = ExtLock(i, p)
  BY <1>1 DEF Inv, LockInv
<1>3. ASSUME NEW i \in Ids, NEW p \in Prices
      PROVE  locked'[i][p] = OurLock(i, p)' + ExtLock(i, p)'
  <2>1. OurLock(i, p)' = OurLock(i, p) /\ ExtLock(i, p)' = ExtLock(i, p)
    BY <1>1 DEF OurLock, ExtLock
  <2>2. OurLock(i, p) \in Int /\ ExtLock(i, p) \in Int
    BY DEF OurLock, ExtLock
  <2>3. locked'[i][p] = locked[i][p] + OurLock(i, p)
    BY <1>1
  <2> QED BY <1>2, <2>1, <2>2, <2>3
<1> QED BY <1>1, <1>2, <1>3 DEF NothingLeaked

LEMMA LockRefresh ==
    ASSUME Inv, NEW r \in Refreshers, RefreshAccountBalance(r) PROVE LockInv'
<1> USE ConstantsAssumption
    DEF exchVars, threadVars, restVars, bookVars, balanceVars, historyVars
<1>0. LockInv /\ TypeOK
  BY DEF Inv
<1>1. CASE RefreshBegin(r) \/ RefreshReply(r)
  <2>1. /\ refresher[r] \in {"start", "sleep", "request"}
        /\ \E l \in {"request", "assign"} : refresher' = [refresher EXCEPT ![r] = l]
    BY <1>1 DEF RefreshBegin, RefreshReply
  <2>2. UNCHANGED <<sender, sent, stream, events, locked, our, ext, leaked>>
    BY <1>1 DEF RefreshBegin, RefreshReply
  <2>3. \A q \in Refreshers, l \in {"replay_external", "replay_our"} :
            refresher'[q] = l <=> refresher[q] = l
    BY <1>0, <2>1 DEF TypeOK
  <2>4. \A i \in Ids : Pending(i)' = Pending(i)
    BY <2>2 DEF Pending
  <2> QED BY <1>0, <2>2, <2>3, <2>4, LockKept
<1>2. CASE RefreshFailed(r)
  BY <1>2, LockCrash DEF RefreshFailed
<1>3. CASE RefreshAssign(r) \/ RefreshReplayExternal(r) \/ RefreshReplayOur(r)
  <2>1. /\ refresher[r] \in RefresherLocked
        /\ \E l \in {"replay_external", "replay_our", "sleep"} :
              refresher' = [refresher EXCEPT ![r] = l]
    BY <1>3 DEF RefreshAssign, RefreshReplayExternal, RefreshReplayOur, RefresherLocked
  <2>2. mutex = r /\ \A q \in Refreshers \ {r} :
            refresher'[q] \notin {"replay_external", "replay_our"}
    BY <2>1 DEF Inv, MutexInv, RefresherLocked
  <2>3. CASE RefreshAssign(r)
    <3>1. /\ refresher'[r] = "replay_external" /\ locked' = NoLocks
          /\ leaked' = [i \in Ids |-> 0]
      BY <1>0, <2>3 DEF RefreshAssign, LockedOfReply, TypeOK
    <3> QED BY <2>2, <3>1 DEF LockInv, Replaying, NothingLeaked
  <2>4. CASE RefreshReplayExternal(r)
    <3>1. /\ refresher'[r] = "replay_our" /\ UNCHANGED <<ext, leaked>>
          /\ refresher[r] = "replay_external"
          /\ locked' = [i \in Ids |-> [p \in Prices |-> locked[i][p] + ExtLock(i, p)]]
      BY <1>0, <2>4 DEF RefreshReplayExternal, TypeOK
    <3>2. NothingLeaked /\ locked = NoLocks
      BY <1>0, <3>1 DEF LockInv
    <3>3. ASSUME NEW i \in Ids, NEW p \in Prices PROVE locked'[i][p] = ExtLock(i, p)'
      BY <3>1, <3>2 DEF NoLocks, ExtLock
    <3> QED BY <2>2, <3>1, <3>2, <3>3 DEF LockInv, Replaying, NothingLeaked
  <2>5. CASE RefreshReplayOur(r)
    <3>1. refresher'[r] = "sleep" /\ UNCHANGED <<stream, sender>>
      BY <1>0, <2>5 DEF RefreshReplayOur, TypeOK
    <3>2. stream # "close" /\ \A t \in Senders : sender[t] # "lock"
      BY <2>2 DEF Inv, MutexInv, StreamLocked, SenderLocked, Threads
    <3>3. \A i \in Ids : Pending(i)' = 0
      BY <3>1, <3>2 DEF Pending
    <3>4. ASSUME NEW i \in Exact
          PROVE  locked'[i]["asked"] = OurLock(i, "asked")' + ExtLock(i, "asked")'
                                           + leaked'[i] - Pending(i)'
      <4>1. i \in Ids /\ "asked" \in Prices
        BY DEF Prices
      <4>2. locked'[i]["asked"] = OurLock(i, "asked")' + ExtLock(i, "asked")' /\ leaked'[i] = 0
        BY <2>5, <4>1, RefreshEnd DEF NothingLeaked
      <4>3. OurLock(i, "asked")' \in Int /\ ExtLock(i, "asked")' \in Int
        BY DEF OurLock, ExtLock
      <4> QED BY <3>3, <4>1, <4>2, <4>3
    <3>5. \A q \in Refreshers : refresher'[q] \notin {"replay_external", "replay_our"}
      BY <2>2, <3>1
    <3> QED BY <3>4, <3>5, LockAfter
  <2> QED BY <1>3, <2>3, <2>4, <2>5
<1> QED BY <1>1, <1>2, <1>3 DEF RefreshAccountBalance

LEMMA LockOpen == ASSUME Inv, OnConnectionOpen \/ Disconnect PROVE LockInv'
<1> USE ConstantsAssumption
    DEF exchVars, threadVars, restVars, bookVars, balanceVars, historyVars
<1>0. LockInv /\ TypeOK
  BY DEF Inv
<1>1. CASE Connect \/ InitializeBegin \/ InitializeReply \/ Disconnect
  <2>1. /\ stream # "close" /\ stream' # "close"
        /\ UNCHANGED <<sender, sent, locked, our, ext, leaked>>
    BY <1>1 DEF Connect, InitializeBegin, InitializeReply, Disconnect
  <2>2. \A r \in Refreshers, l \in {"replay_external", "replay_our"} :
            refresher'[r] = l <=> refresher[r] = l
    BY <1>0, <1>1 DEF Connect, InitializeBegin, InitializeReply, Disconnect, TypeOK
  <2>3. \A i \in Ids : Pending(i)' = Pending(i)
    BY <2>1 DEF Pending
  <2> QED BY <1>0, <2>1, <2>2, <2>3, LockKept
<1>2. CASE InitializeFailed
  BY <1>2, LockCrash DEF InitializeFailed
<1>3. CASE InitializeFinish
  <2>1. /\ stream = "reply" /\ stream' = "open" /\ ext' = Reported
        /\ UNCHANGED <<refresher, sender, sent, our>>
        /\ leaked' = [i \in Ids |-> leaked[i] + (IF i \in ext THEN 1 ELSE 0)]
        /\ locked' = [i \in Ids |->
              IF i \in Reported THEN AdjustLockedBalance(locked, i, "reported", 1)[i]
              ELSE locked[i]]
    BY <1>3 DEF InitializeFinish
  <2>2. mutex = Stream
    BY <2>1 DEF Inv, MutexInv, StreamLocked
  <2>3. /\ \A r \in Refreshers : refresher'[r] \notin {"replay_external", "replay_our"}
        /\ \A i \in Exact :
              locked[i]["asked"] = OurLock(i, "asked") + ExtLock(i, "asked")
                                       + leaked[i] - Pending(i)
    BY <2>1, <2>2, NoReplay
  <2>4. \A t \in Senders : sender[t] # "lock"
    BY <2>2 DEF Inv, MutexInv, SenderLocked, Threads
  <2>5. \A i \in Ids : Pending(i) = 0 /\ Pending(i)' = 0
    BY <2>1, <2>4 DEF Pending
  <2>6. ASSUME NEW i \in Exact
        PROVE  locked'[i]["asked"] = OurLock(i, "asked")' + ExtLock(i, "asked")'
                                         + leaked'[i] - Pending(i)'
    <3>1. /\ i \in Ids /\ "reported" \in Prices /\ locked \in [Ids -> [Prices -> Int]]
          /\ 1 \in Int
      BY <1>0 DEF Prices, TypeOK
    <3>2. AdjustLockedBalance(locked, i, "reported", 1)[i]["asked"] = locked[i]["asked"] + 1
      <4>1. AdjustLockedBalance(locked, i, "reported", 1)[i]["asked"] =
                locked[i]["asked"] + IF i = i THEN 1 ELSE 0
        BY <3>1, AdjustExact
      <4> QED BY <4>1
    <3>3. locked'[i]["asked"] = IF i \in Reported THEN locked[i]["asked"] + 1
                                ELSE locked[i]["asked"]
      BY <2>1, <3>1, <3>2
    <3>4. leaked'[i] = leaked[i] + (IF i \in ext THEN 1 ELSE 0) /\ leaked[i] \in Nat
      BY <1>0, <2>1, <3>1 DEF TypeOK
    <3>5. OurLock(i, "asked")' = OurLock(i, "asked") /\ OurLock(i, "asked") \in Int
      BY <2>1 DEF OurLock
    <3>6. /\ ExtLock(i, "asked") = IF i \in ext THEN 1 ELSE 0
          /\ ExtLock(i, "asked")' = IF i \in Reported THEN 1 ELSE 0
      BY <2>1, ExactLocks
    <3> QED BY <2>3, <2>5, <3>1, <3>3, <3>4, <3>5, <3>6
  <2> QED BY <2>3, <2>6, LockAfter
<1> QED BY <1>1, <1>2, <1>3 DEF OnConnectionOpen

LEMMA LockFrame ==
    ASSUME Inv, OnAccountBalanceUpdate \/ OnOrderUpdate PROVE LockInv'
<1> USE ConstantsAssumption
    DEF exchVars, threadVars, restVars, bookVars, balanceVars, historyVars
<1>0. LockInv /\ TypeOK
  BY DEF Inv
<1>1. CASE OnAccountBalanceUpdate \/ OnUnknownOrder \/ IgnoreExternalOrder
  <2>1. /\ stream = "open" /\ stream' = "open"
        /\ UNCHANGED <<sender, sent, refresher, locked, our, ext, leaked>>
    BY <1>1 DEF OnAccountBalanceUpdate, OnUnknownOrder, IgnoreExternalOrder,
                OrderUpdate, NextFrame
  <2>2. \A i \in Ids : Pending(i)' = Pending(i)
    BY <2>1 DEF Pending
  <2> QED BY <1>0, <2>1, <2>2, LockKept
<1>2. CASE UpdateOurOrder \/ AddExternalOrder \/ CloseBegin \/ CloseFinish
  <2> DEFINE id == Head(events).id
  <2>1. mutex \in {NoThread, Stream} /\ UNCHANGED <<sender, sent, refresher, leaked>>
    BY <1>2 DEF UpdateOurOrder, AddExternalOrder, CloseBegin, CloseFinish, OrderUpdate,
                Inv, MutexInv, StreamLocked
  <2>2. /\ \A r \in Refreshers : refresher'[r] \notin {"replay_external", "replay_our"}
        /\ \A i \in Exact :
              locked[i]["asked"] = OurLock(i, "asked") + ExtLock(i, "asked")
                                       + leaked[i] - Pending(i)
    BY <2>1, NoReplay DEF Threads
  <2>3. \A t \in Senders : sender[t] # "lock" /\ sender'[t] # "lock"
    BY <2>1 DEF Inv, MutexInv, SenderLocked, Threads
  <2>4. id \in Ids
    BY <1>2, CloseFrame DEF UpdateOurOrder, AddExternalOrder, CloseBegin, CloseFinish,
                            OrderUpdate
  <2>5. locked \in [Ids -> [Prices -> Int]] /\ "reported" \in Prices /\ 1 \in Int /\ -1 \in Int
    BY <1>0 DEF TypeOK, Prices
  <2>6. \A i \in Exact : i \in Ids /\ leaked[i] \in Nat
    BY <1>0 DEF TypeOK
  <2> SUFFICES ASSUME NEW i \in Exact
               PROVE  locked'[i]["asked"] = OurLock(i, "asked")' + ExtLock(i, "asked")'
                                                + leaked'[i] - Pending(i)'
    BY <2>2, LockAfter
  <2>7. CASE UpdateOurOrder
    <3>1. /\ IsOur(id) /\ UNCHANGED <<ext, locked>> /\ stream = "open" /\ stream' = "open"
          /\ our' = our \/ our' = [our EXCEPT ![id] = "reported"]
      BY <2>7 DEF UpdateOurOrder, OrderUpdate, NextFrame
    <3>2. IsOur(i)' <=> IsOur(i)
      BY <1>0, <2>6, <3>1 DEF TypeOK, IsOur
    <3>3. Pending(i) = 0 /\ Pending(i)' = 0
      BY <2>3, <3>1 DEF Pending
    <3> QED BY <2>1, <2>2, <3>1, <3>2, <3>3, ExactLocks
  <2>8. CASE AddExternalOrder
    <3>1. /\ id \notin ext /\ ext' = ext \cup {id} /\ our' = our
          /\ stream = "open" /\ stream' = "open"
          /\ locked' = AdjustLockedBalance(locked, id, "reported", 1)
      BY <2>8 DEF AddExternalOrder, OrderUpdate, NextFrame, WasAdded
    <3>2. locked'[i]["asked"] = locked[i]["asked"] + IF i = id THEN 1 ELSE 0
      <4>1. AdjustLockedBalance(locked, id, "reported", 1)[i]["asked"] =
                locked[i]["asked"] + IF i = id THEN 1 ELSE 0
        BY <2>4, <2>5, AdjustExact
      <4> QED BY <3>1, <4>1
    <3>3. Pending(i) = 0 /\ Pending(i)' = 0
      BY <2>3, <3>1 DEF Pending
    <3>4. OurLock(i, "asked")' = OurLock(i, "asked") /\ OurLock(i, "asked") \in Int
      BY <3>1 DEF OurLock
    <3>5. /\ ExtLock(i, "asked") = IF i \in ext THEN 1 ELSE 0
          /\ ExtLock(i, "asked")' = IF i \in ext \/ i = id THEN 1 ELSE 0
      BY <3>1, ExactLocks
    <3> QED BY <2>1, <2>2, <2>6, <3>1, <3>2, <3>3, <3>4, <3>5
  <2>9. CASE CloseBegin
    <3>1. /\ UNCHANGED <<our, ext, events>> /\ stream = "open" /\ stream' = "close"
          /\ \E price \in Prices : locked' = AdjustLockedBalance(locked, id, price, -1)
      BY <1>0, <2>4, <2>9 DEF CloseBegin, OrderUpdate, NextFrame, IsOur, TypeOK, Prices
    <3>2. locked'[i]["asked"] = locked[i]["asked"] + IF i = id THEN -1 ELSE 0
      <4>1. PICK price \in Prices : locked' = AdjustLockedBalance(locked, id, price, -1)
        BY <3>1
      <4>2. AdjustLockedBalance(locked, id, price, -1)[i]["asked"] =
                locked[i]["asked"] + IF i = id THEN -1 ELSE 0
        BY <2>4, <2>5, AdjustExact
      <4> QED BY <4>1, <4>2
    <3>3. Pending(i) = 0 /\ Pending(i)' = IF i = id THEN 1 ELSE 0
      BY <2>3, <3>1 DEF Pending
    <3>4. /\ OurLock(i, "asked")' = OurLock(i, "asked") /\ OurLock(i, "asked") \in Int
          /\ ExtLock(i, "asked")' = ExtLock(i, "asked") /\ ExtLock(i, "asked") \in Int
      BY <3>1 DEF OurLock, ExtLock
    <3> QED BY <2>1, <2>2, <2>6, <3>2, <3>3, <3>4
  <2>10. CASE CloseFinish
    <3>1. /\ stream = "close" /\ stream' = "open" /\ locked' = locked
          /\ \/ IsOur(id) /\ our' = [our EXCEPT ![id] = "absent"] /\ ext' = ext
             \/ ~IsOur(id) /\ our' = our /\ ext' = ext \ {id}
      BY <2>10 DEF CloseFinish
    <3>2. IsOur(id) \/ id \in ext
      BY <3>1 DEF Inv, CloseInv
    <3>3. Pending(i)' = 0 /\ Pending(i) = IF i = id THEN 1 ELSE 0
      BY <2>3, <3>1 DEF Pending
    <3>4. OurLock(i, "asked")' + ExtLock(i, "asked")' =
              OurLock(i, "asked") + ExtLock(i, "asked") - IF i = id THEN 1 ELSE 0
      <4>1. CASE IsOur(id)
        <5>1. ext' = ext /\ (IsOur(i)' <=> IsOur(i) /\ i # id)
          BY <1>0, <2>4, <2>6, <3>1, <4>1 DEF IsOur, TypeOK
        <5> QED BY <4>1, <5>1, ExactLocks
      <4>2. CASE ~IsOur(id)
        <5>1. our' = our /\ ext' = ext \ {id} /\ id \in ext
          BY <3>1, <3>2, <4>2
        <5> QED BY <5>1, ExactLocks DEF IsOur
      <4> QED BY <4>1, <4>2
    <3>5. OurLock(i, "asked") \in Int /\ ExtLock(i, "asked") \in Int
      BY DEF OurLock, ExtLock
    <3> QED BY <2>1, <2>2, <2>6, <3>1, <3>3, <3>4, <3>5
  <2> QED BY <1>2, <2>7, <2>8, <2>9, <2>10
<1> QED BY <1>1, <1>2 DEF OnOrderUpdate

LEMMA LockStep == Inv /\ [Next]_vars => LockInv'
<1> SUFFICES ASSUME Inv, [Next]_vars PROVE LockInv'
  OBVIOUS
<1>1. CASE Exchange
  <2>1. UNCHANGED <<sender, sent, stream, refresher, locked, our, ext, leaked>>
    BY <1>1, ExchangeReports
       DEF ProcessUnchanged, threadVars, restVars, bookVars, balanceVars, historyVars
  <2>2. stream = "close" => Head(events') = Head(events)
    BY <1>1, ExchangeReports, ReportFrames DEF Inv, CloseInv
  <2>3. \A i \in Ids : Pending(i)' = Pending(i)
    BY <2>1, <2>2 DEF Pending
  <2> QED BY <2>1, <2>3, LockKept DEF Inv
<1>2. CASE UNCHANGED vars
  <2>1. /\ UNCHANGED <<sender, sent, stream, refresher, locked, our, ext, leaked>>
        /\ events' = events
    BY <1>2 DEF vars, exchVars, threadVars, restVars, bookVars, balanceVars, historyVars
  <2>2. \A i \in Ids : Pending(i)' = Pending(i)
    BY <2>1 DEF Pending
  <2> QED BY <2>1, <2>2, LockKept DEF Inv
<1> QED BY <1>1, <1>2, LockSend, LockRefresh, LockOpen, LockFrame DEF Next

(***************************************************************************)
(* Theorems                                                                *)
(***************************************************************************)

LEMMA InvStep == Inv /\ [Next]_vars => Inv'
BY TypeStep, MutexStep, SentStep, CloseStep, ExchangeInvStep, OurStep, LockStep DEF Inv

LEMMA Invariance == Spec => []Inv
BY InvInit, InvStep, PTL DEF Spec

\* Every field of AccountManagerImpl, every frame and every reply has its type
\* in all interleavings of senders, refreshers and the user data stream.
THEOREM TypeCorrect == Spec => []TypeOK
<1>1. Inv => TypeOK
  BY DEF Inv
<1> QED BY <1>1, Invariance, PTL

\* An open order is in m_our_orders while the account is synced.
LEMMA SyncedOrders ==
    ASSUME Inv, synced, NEW i \in OwnIds \ orphans, IsOpen(i) PROVE IsOur(i)
<1>1. \A t \in Senders : sender[t] # "reply"
  BY DEF Inv, SyncedInv, SenderLocked
<1> QED BY <1>1 DEF InReply, Inv, OurInv

\* Whatever is under way, IsAccountSynced() and not HasOpenOrders(pair) together
\* mean that no order of this process for that pair is open at the exchange, but
\* those whose reply was lost.
THEOREM HasOpenOrdersCorrect == Spec => []HasOpenOrdersSound
<1>1. Inv => HasOpenOrdersSound
  <2> SUFFICES ASSUME Inv, synced, NEW pair \in SUBSET OwnIds, ~HasOpenOrders(pair),
                      NEW i \in pair \ orphans, IsOpen(i)
               PROVE  FALSE
    BY DEF HasOpenOrdersSound
  <2>1. ~IsOur(i)
    BY DEF HasOpenOrders
  <2> QED BY <2>1, SyncedOrders
<1> QED BY <1>1, Invariance, PTL

\* The locked balance is the sum over the registered orders, and over those
\* m_external_orders.clear() dropped, whenever nobody holds m_order_mutex.
THEOREM LockAccountingCorrect == Spec => []LockAccounting
<1>1. Inv => LockAccounting
  <2> SUFFICES ASSUME Inv, mutex = NoThread, NEW i \in Exact
               PROVE  locked[i]["asked"] =
                          OurLock(i, "asked") + ExtLock(i, "asked") + leaked[i]
    BY DEF LockAccounting
  <2>1. locked[i]["asked"] = OurLock(i, "asked") + ExtLock(i, "asked")
                                 + leaked[i] - Pending(i)
    BY NoReplay, ConstantsAssumption DEF Threads
  <2>2. stream # "close" /\ \A t \in Senders : sender[t] # "lock"
    BY ConstantsAssumption DEF Inv, MutexInv, StreamLocked, SenderLocked, Threads
  <2>3. i \in Ids /\ leaked[i] \in Nat
    BY ConstantsAssumption DEF Inv, TypeOK
  <2>4. Pending(i) = 0
    BY <2>2, <2>3, PendingValues
  <2>5. OurLock(i, "asked") \in Int /\ ExtLock(i, "asked") \in Int
    BY DEF OurLock, ExtLock
  <2> QED BY <2>1, <2>3, <2>4, <2>5
<1> QED BY <1>1, Invariance, PTL

\* Whatever was left locked before, the account locks exactly the registered
\* orders when RefreshAccountBalance ends, at stable and at unstable prices.
THEOREM RefreshCorrect == Spec => RefreshRestoresLocks
<1> DEFINE Restores ==
        \A r \in Refreshers :
            refresher[r] = "replay_our" /\ refresher'[r] = "sleep" =>
                \A i \in Ids, p \in Prices :
                    locked'[i][p] = OurLock(i, p)' + ExtLock(i, p)'
<1>1. Inv /\ [Next]_vars => [Restores]_vars
  <2> SUFFICES ASSUME Inv, [Next]_vars, NEW r \in Refreshers,
                      refresher[r] = "replay_our", refresher'[r] = "sleep"
               PROVE  RefreshReplayOur(r)
    BY RefreshEnd
  <2> USE DEF threadVars
  <2>1. mutex = r
    BY DEF Inv, MutexInv, RefresherLocked
  <2>2. ~Exchange /\ ~UNCHANGED vars
    BY ExchangeReports DEF ProcessUnchanged, vars
  <2>3. \A t \in Senders : ~SendOrder(t)
    BY DEF SendOrder, Decide, SendBegin, SendAccepted, SendRefused, SendReplyLost,
           SendReplyGarbled, SendStore, SendLock, SendFinish
  <2>4. ~(OnConnectionOpen \/ Disconnect)
    BY DEF OnConnectionOpen, Connect, InitializeBegin, InitializeReply, InitializeFailed,
           InitializeFinish, Disconnect, Crash, Inv, TypeOK
  <2>5. ~(OnAccountBalanceUpdate \/ OnOrderUpdate)
    BY DEF OnAccountBalanceUpdate, OnOrderUpdate, OnUnknownOrder, UpdateOurOrder,
           AddExternalOrder, IgnoreExternalOrder, CloseBegin, CloseFinish
  <2>6. PICK q \in Refreshers : RefreshAccountBalance(q)
    BY <2>2, <2>3, <2>4, <2>5 DEF Next
  <2>7. q = r
    BY <2>1, <2>6, HolderOnly, ConstantsAssumption DEF Threads
  <2> QED BY <2>6, <2>7
          DEF RefreshAccountBalance, RefreshBegin, RefreshReply, RefreshFailed, Crash,
              RefreshAssign, RefreshReplayExternal, Inv, TypeOK
<1> QED BY <1>1, Invariance, PTL DEF Spec, RefreshRestoresLocks

(***************************************************************************)
(* The steps of the contract, in terms of what the account manager keeps   *)
(***************************************************************************)

\* A request begins.
LEMMA MapRequest ==
    ASSUME ~Sending, Sending', synced' = FALSE,
           UNCHANGED <<Accepted, Live, Unanswered, Registered, orphans>>
    PROVE  Contract!Request(Account)
  BY DEF Contract!Request, OfAccount

\* The exchange accepts an order of ours.
LEMMA MapAccept ==
    ASSUME NEW i \in OwnIds \ Accepted, Sending,
           Accepted' = Accepted \cup {i}, Live' = Live \cup {i},
           Unanswered' = Unanswered \cup {i},
           UNCHANGED <<Registered, orphans, Sending, synced>>
    PROVE  Contract!Accept(Account, i)
  BY DEF Contract!Accept, OfAccount

\* An order is stored in m_our_orders.
LEMMA MapRegister ==
    ASSUME NEW i \in Unanswered,
           Unanswered' = Unanswered \ {i}, Registered' = Registered \cup {i},
           UNCHANGED <<Accepted, Live, orphans, Sending, synced>>
    PROVE  Contract!Register(Account, i)
  BY DEF Contract!Register, OfAccount

\* A reply is lost.
LEMMA MapLose ==
    ASSUME Unanswered' = {}, orphans' = orphans \cup Unanswered,
           UNCHANGED <<Accepted, Live, Registered, Sending, synced>>
    PROVE  Contract!Lose(Account)
  BY DEF Contract!Lose, OfAccount

\* A request returns.
LEMMA MapReturn ==
    ASSUME Sending, Sending' = FALSE, Unanswered = {}, synced' = TRUE,
           UNCHANGED <<Accepted, Live, Unanswered, Registered, orphans>>
    PROVE  Contract!Return(Account)
  BY DEF Contract!Return, OfAccount

\* A request throws.
LEMMA MapThrow ==
    ASSUME Sending, Sending' = FALSE, Unanswered' = {}, orphans' = orphans \cup Unanswered,
           UNCHANGED <<Accepted, Live, Registered, synced>>
    PROVE  Contract!Throw(Account)
  BY DEF Contract!Throw, OfAccount

\* A refresh ends.
LEMMA MapRefresh ==
    ASSUME ~Sending, synced' = TRUE,
           UNCHANGED <<Accepted, Live, Unanswered, Registered, orphans, Sending>>
    PROVE  Contract!Refresh(Account)
  BY DEF Contract!Refresh, OfAccount

\* The exchange closes an order of ours.
LEMMA MapClose ==
    ASSUME NEW i \in Live, Live' = Live \ {i},
           UNCHANGED <<Accepted, Unanswered, Registered, orphans, Sending, synced>>
    PROVE  Contract!Close(Account, i)
  BY DEF Contract!Close, OfAccount

\* An order is erased from m_our_orders.
LEMMA MapForget ==
    ASSUME NEW i \in Registered \ Live, ~Sending, Registered' = Registered \ {i},
           UNCHANGED <<Accepted, Live, Unanswered, orphans, Sending, synced>>
    PROVE  Contract!Forget(Account, i)
  BY DEF Contract!Forget, OfAccount

\* The process ends and starts again.
LEMMA MapRestart ==
    ASSUME Unanswered' = {}, Registered' = {}, orphans' = Accepted, Sending' = FALSE,
           synced' = FALSE, UNCHANGED <<Accepted, Live>>
    PROVE  Contract!Restart(Account)
  BY DEF Contract!Restart, OfAccount

\* A step the contract does not see.
LEMMA MapStutter ==
    ASSUME UNCHANGED <<Accepted, Live, Unanswered, Registered, orphans, Sending, synced>>
    PROVE  UNCHANGED Contract!contractVars
  BY DEF Contract!contractVars, OfAccount

\* A step of the contract is a step of its next-state relation.
LEMMA MapNext ==
    ASSUME \/ Contract!Request(Account) \/ Contract!Lose(Account)
           \/ Contract!Return(Account) \/ Contract!Throw(Account)
           \/ Contract!Refresh(Account) \/ Contract!Restart(Account)
           \/ \E i \in OwnIds : \/ Contract!Accept(Account, i) \/ Contract!Register(Account, i)
                                \/ Contract!Close(Account, i) \/ Contract!Forget(Account, i)
           \/ UNCHANGED Contract!contractVars
    PROVE  [Contract!ContractNext]_(Contract!contractVars)
  BY DEF Contract!ContractNext

(***************************************************************************)
(* The steps of the account manager                                        *)
(***************************************************************************)

Mapped == [Contract!ContractNext]_(Contract!contractVars)

\* A report about an order whose request has been answered at the exchange closes
\* it, or the contract does not see it.
LEMMA MappedExchange == ASSUME Inv, Exchange PROVE Mapped
<1>1. /\ UNCHANGED <<Unanswered, Registered, orphans, Sending, synced>>
      /\ \E i \in Ids, s \in Status \ {"none"}, ex \in Executions :
            /\ Report(i, s, ex)
            /\ exch[i] \notin Closed
            /\ exch[i] = "none" => i \in ExtIds
  BY ExchangeReports
     DEF ProcessUnchanged, threadVars, restVars, bookVars, historyVars, Unanswered,
         Registered, IsOur, Sending
<1>2. PICK i \in Ids, s \in Status \ {"none"} :
            /\ exch' = [exch EXCEPT ![i] = s]
            /\ exch[i] \notin Closed
            /\ exch[i] = "none" => i \in ExtIds
  BY <1>1 DEF Report
<1>3. exch \in [Ids -> Status]
  BY DEF Inv, TypeOK
<1>4. Accepted' = Accepted
  BY <1>2, <1>3, ConstantsAssumption DEF Accepted, Ids
<1>5. CASE i \in OwnIds /\ s \in Closed
  <2>1. i \in Live /\ Live' = Live \ {i}
    BY <1>2, <1>3, <1>5, ConstantsAssumption DEF Live, IsOpen, Status, Open, Closed, Ids
  <2> QED BY <1>1, <1>4, <1>5, <2>1, MapClose, MapNext DEF Mapped
<1>6. CASE ~(i \in OwnIds /\ s \in Closed)
  <2>1. Live' = Live
    BY <1>2, <1>3, <1>6, ConstantsAssumption DEF Live, IsOpen, Status, Open, Closed, Ids
  <2> QED BY <1>1, <1>4, <2>1, MapStutter, MapNext DEF Mapped
<1> QED BY <1>5, <1>6

\* The process ends: the orders accepted so far are those whose replies are lost.
LEMMA MappedCrash == ASSUME Inv, Crash PROVE Mapped
<1>1. /\ UNCHANGED <<Accepted, Live>>
      /\ Unanswered' = {} /\ Registered' = {} /\ Sending' = FALSE
  BY ConstantsAssumption
     DEF Crash, Accepted, Live, IsOpen, Unanswered, Registered, IsOur, Sending, Threads, Ids
<1>2. orphans' = Accepted /\ synced' = FALSE
  BY DEF Crash, Accepted
<1> QED BY <1>1, <1>2, MapRestart, MapNext DEF Mapped

\* LimitOrder: the request is the contract's, step by step.
LEMMA MappedSend == ASSUME Inv, NEW t \in Senders, SendOrder(t) PROVE Mapped
<1> USE ConstantsAssumption
    DEF exchVars, threadVars, restVars, bookVars, balanceVars, historyVars
<1>0. /\ sender \in [Senders -> {"idle", "decided"} \cup SenderLocked]
      /\ exch \in [Ids -> Status] /\ our \in [Ids -> Prices \cup {"absent"}]
      /\ OwnIds \subseteq Ids
      /\ \A u \in Senders : sender[u] \in SenderLocked => u = mutex
  BY DEF Inv, TypeOK, MutexInv, Ids
<1>1. CASE Decide(t)
  <2>1. UNCHANGED <<Accepted, Live, Unanswered, Registered, orphans, Sending, synced>>
    BY <1>0, <1>1 DEF Decide, Accepted, Live, IsOpen, Unanswered, Registered, IsOur, Sending
  <2> QED BY <2>1, MapStutter, MapNext DEF Mapped
<1>2. CASE SendBegin(t)
  <2>1. ~Sending /\ Sending' /\ synced' = FALSE
    BY <1>2 DEF SendBegin, SyncedDuringRequest, Sending, Threads
  <2>2. UNCHANGED <<Accepted, Live, Unanswered, Registered, orphans>>
    BY <1>0, <1>2 DEF SendBegin, Accepted, Live, IsOpen, Unanswered, Registered, IsOur
  <2> QED BY <2>1, <2>2, MapRequest, MapNext DEF Mapped
<1>3. ASSUME NEW i \in OwnIds, SendAccepted(t, i) PROVE Mapped
  <2>1. /\ sender[t] = "request" /\ sender' = [sender EXCEPT ![t] = "reply"]
        /\ exch[i] = "none" /\ exch' = [exch EXCEPT ![i] = "NEW"] /\ sent' = i
        /\ UNCHANGED <<our, orphans, mutex, synced>>
    BY <1>3 DEF SendAccepted, Report
  <2>2. Sending /\ t = mutex
    BY <1>0, <2>1 DEF SenderLocked, Sending
  <2>3. Unanswered = {} /\ Unanswered' = {i}
    BY <1>0, <2>1, <2>2 DEF Unanswered, SenderLocked
  <2>4. i \notin Accepted /\ Accepted' = Accepted \cup {i} /\ Live' = Live \cup {i}
    BY <1>0, <2>1 DEF Accepted, Live, IsOpen, Open
  <2>5. UNCHANGED <<Registered, Sending>>
    BY <2>1 DEF Registered, IsOur, Sending
  <2> QED BY <2>1, <2>2, <2>3, <2>4, <2>5, MapAccept, MapNext DEF Mapped
<1>4. CASE SendRefused(t)
  <2>1. UNCHANGED <<Accepted, Live, Unanswered, Registered, orphans, Sending, synced>>
    BY <1>0, <1>4 DEF SendRefused, Accepted, Live, IsOpen, Unanswered, Registered, IsOur,
                      Sending
  <2> QED BY <2>1, MapStutter, MapNext DEF Mapped
<1>5. CASE SendReplyLost(t)
  <2>1. Unanswered = {sent} /\ Unanswered' = {} /\ orphans' = orphans \cup {sent}
    BY <1>0, <1>5 DEF SendReplyLost, Unanswered, SenderLocked, Inv, SentInv
  <2>2. UNCHANGED <<Accepted, Live, Registered, Sending, synced>>
    BY <1>5 DEF SendReplyLost, Accepted, Live, IsOpen, Registered, IsOur, Sending
  <2> QED BY <2>1, <2>2, MapLose, MapNext DEF Mapped
<1>6. CASE SendReplyGarbled(t)
  <2>1. Sending /\ Sending' = FALSE
    BY <1>0, <1>6 DEF SendReplyGarbled, Sending, SenderLocked, Threads
  <2>2. /\ Unanswered = IF sender[t] = "reply" THEN {sent} ELSE {}
        /\ Unanswered' = {}
    BY <1>0, <1>6 DEF SendReplyGarbled, Unanswered, SenderLocked, Inv, SentInv
  <2>3. orphans' = orphans \cup Unanswered
    BY <1>6, <2>2 DEF SendReplyGarbled
  <2>4. UNCHANGED <<Accepted, Live, Registered, synced>>
    BY <1>6 DEF SendReplyGarbled, Accepted, Live, IsOpen, Registered, IsOur
  <2> QED BY <2>1, <2>2, <2>3, <2>4, MapThrow, MapNext DEF Mapped
<1>7. CASE SendStore(t)
  <2>1. sent \in Unanswered /\ Unanswered' = Unanswered \ {sent}
    BY <1>0, <1>7 DEF SendStore, Unanswered, SenderLocked, Inv, SentInv
  <2>2. Registered' = Registered \cup {sent}
    BY <1>0, <1>7, <2>1 DEF SendStore, Registered, IsOur, Unanswered
  <2>3. UNCHANGED <<Accepted, Live, orphans, Sending, synced>>
    BY <1>7 DEF SendStore, Accepted, Live, IsOpen, Sending
  <2>4. sent \in OwnIds
    BY <2>1 DEF Unanswered
  <2> QED BY <2>1, <2>2, <2>3, <2>4, MapRegister, MapNext DEF Mapped
<1>8. CASE SendLock(t)
  <2>1. UNCHANGED <<Accepted, Live, Unanswered, Registered, orphans, Sending, synced>>
    BY <1>0, <1>8 DEF SendLock, Accepted, Live, IsOpen, Unanswered, Registered, IsOur,
                      Sending
  <2> QED BY <2>1, MapStutter, MapNext DEF Mapped
<1>9. CASE SendFinish(t)
  <2>1. Sending /\ Sending' = FALSE /\ synced' = TRUE
    BY <1>0, <1>9 DEF SendFinish, Sending, SenderLocked, Threads
  <2>2. Unanswered = {} /\ Unanswered' = {}
    BY <1>0, <1>9 DEF SendFinish, Unanswered, SenderLocked
  <2>3. UNCHANGED <<Accepted, Live, Registered, orphans>>
    BY <1>9 DEF SendFinish, Accepted, Live, IsOpen, Registered, IsOur
  <2> QED BY <2>1, <2>2, <2>3, MapReturn, MapNext DEF Mapped
<1> QED BY <1>1, <1>2, <1>3, <1>4, <1>5, <1>6, <1>7, <1>8, <1>9 DEF SendOrder

\* RefreshAccountBalance: the contract sees its end, or the crash of a failure.
LEMMA MappedRefresh ==
    ASSUME Inv, NEW r \in Refreshers, RefreshAccountBalance(r) PROVE Mapped
<1> USE ConstantsAssumption
    DEF exchVars, threadVars, restVars, bookVars, balanceVars, historyVars
<1>1. CASE RefreshFailed(r)
  BY <1>1, MappedCrash DEF RefreshFailed
<1>2. CASE ~RefreshFailed(r)
  <2>1. UNCHANGED <<exch, sender, sent, our, orphans>>
    BY <1>2 DEF RefreshAccountBalance, RefreshBegin, RefreshReply, RefreshAssign,
                RefreshReplayExternal, RefreshReplayOur
  <2>2. UNCHANGED <<Accepted, Live, Unanswered, Registered, orphans>>
    BY <2>1 DEF Accepted, Live, IsOpen, Unanswered, Registered, IsOur
  <2>3. mutex \in {r, NoThread} /\ mutex' \in {r, NoThread}
    BY <1>2, HolderOnly
       DEF RefreshAccountBalance, RefreshBegin, RefreshReply, RefreshAssign,
           RefreshReplayExternal, RefreshReplayOur
  <2>4. Sending = FALSE /\ Sending' = FALSE
    BY <2>3 DEF Sending, Threads
  <2>5. CASE RefreshReplayOur(r)
    <3>1. synced' = TRUE
      BY <2>5 DEF RefreshReplayOur, SyncedAfterRefresh
    <3> QED BY <2>2, <2>4, <3>1, MapRefresh, MapNext DEF Mapped
  <2>6. CASE ~RefreshReplayOur(r)
    <3>1. synced' = synced
      BY <1>2, <2>6 DEF RefreshAccountBalance, RefreshBegin, RefreshReply, RefreshAssign,
                        RefreshReplayExternal
    <3> QED BY <2>2, <2>4, <3>1, MapStutter, MapNext DEF Mapped
  <2> QED BY <2>5, <2>6
<1> QED BY <1>1, <1>2

\* Connections: nothing the contract sees, but the crash of a failed Initialize.
LEMMA MappedOpen == ASSUME Inv, OnConnectionOpen \/ Disconnect PROVE Mapped
<1> USE ConstantsAssumption
    DEF exchVars, threadVars, restVars, bookVars, balanceVars, historyVars
<1>1. CASE InitializeFailed
  BY <1>1, MappedCrash DEF InitializeFailed
<1>2. CASE ~InitializeFailed
  <2>1. /\ UNCHANGED <<exch, sender, sent, our, orphans, synced>>
        /\ mutex' = mutex \/ {mutex, mutex'} \subseteq {Stream, NoThread}
    BY <1>2 DEF OnConnectionOpen, Connect, InitializeBegin, InitializeReply,
                InitializeFinish, Disconnect, Inv, MutexInv, StreamLocked
  <2>2. UNCHANGED <<Accepted, Live, Unanswered, Registered>>
    BY <2>1 DEF Accepted, Live, IsOpen, Unanswered, Registered, IsOur
  <2>3. Sending' = Sending
    BY <2>1 DEF Sending, Threads
  <2> QED BY <2>1, <2>2, <2>3, MapStutter, MapNext DEF Mapped
<1> QED BY <1>1, <1>2

\* Frames: an order erased from m_our_orders is closed at the exchange.
LEMMA MappedFrame ==
    ASSUME Inv, OnAccountBalanceUpdate \/ OnOrderUpdate PROVE Mapped
<1> USE ConstantsAssumption
    DEF exchVars, threadVars, restVars, bookVars, balanceVars, historyVars
<1> DEFINE id == Head(events).id
<1>1. /\ UNCHANGED <<exch, sender, sent, orphans, synced>>
      /\ mutex' = mutex \/ {mutex, mutex'} \subseteq {Stream, NoThread}
  BY DEF OnAccountBalanceUpdate, OnOrderUpdate, OnUnknownOrder, UpdateOurOrder,
         AddExternalOrder, IgnoreExternalOrder, CloseBegin, CloseFinish, OrderUpdate,
         Inv, MutexInv, StreamLocked
<1>2. UNCHANGED <<Accepted, Live, Unanswered>> /\ Sending' = Sending
  BY <1>1 DEF Accepted, Live, IsOpen, Unanswered, Sending, Threads
<1>3. our \in [Ids -> Prices \cup {"absent"}] /\ OwnIds \subseteq Ids
  BY DEF Inv, TypeOK, Ids
<1>4. CASE Registered' = Registered
  BY <1>1, <1>2, <1>4, MapStutter, MapNext DEF Mapped
<1>5. CASE CloseFinish
  <2>1. /\ our' = our \/ (IsOur(id) /\ our' = [our EXCEPT ![id] = "absent"])
        /\ stream = "close"
    BY <1>5 DEF CloseFinish
  <2>2. id \in Ids /\ exch[id] \in Closed /\ ~Sending
    BY <2>1, CloseFrame DEF Inv, MutexInv, StreamLocked, Sending, Threads
  <2>3. CASE id \in OwnIds /\ IsOur(id) /\ our' = [our EXCEPT ![id] = "absent"]
    <3>1. id \in Registered \ Live
      BY <2>2, <2>3 DEF Registered, Live, IsOpen, Open, Closed
    <3>2. Registered' = Registered \ {id}
      BY <1>3, <2>3 DEF Registered, IsOur
    <3>3. id \in OwnIds
      BY <2>3
    <3> HIDE DEF id
    <3> QED BY <1>1, <1>2, <2>2, <3>1, <3>2, <3>3, MapForget, MapNext DEF Mapped
  <2>4. CASE id \notin OwnIds \/ our' = our
    <3>1. Registered' = Registered
      BY <1>3, <2>1, <2>2, <2>4 DEF Registered, IsOur
    <3> QED BY <3>1, <1>4
  <2> QED BY <2>1, <2>3, <2>4
<1>6. CASE UpdateOurOrder
  <2>1. IsOur(id) /\ (our' = our \/ our' = [our EXCEPT ![id] = "reported"])
    BY <1>6 DEF UpdateOurOrder
  <2>2. Registered' = Registered
    BY <1>3, <2>1 DEF Registered, IsOur
  <2> QED BY <1>4, <2>2
<1>7. CASE ~CloseFinish /\ ~UpdateOurOrder
  <2>1. our' = our
    BY <1>7 DEF OnAccountBalanceUpdate, OnOrderUpdate, OnUnknownOrder, AddExternalOrder,
                IgnoreExternalOrder, CloseBegin
  <2> QED BY <1>4, <2>1 DEF Registered, IsOur
<1> QED BY <1>5, <1>6, <1>7

\* The account manager starts as the contract does.
LEMMA MappedInit == Init => Contract!ContractInit
<1> SUFFICES ASSUME Init PROVE Contract!ContractInit
  OBVIOUS
<1>1. /\ Accepted = {} /\ Live = {} /\ Registered = {} /\ Unanswered = {}
      /\ orphans = {} /\ synced = FALSE
  BY ConstantsAssumption
     DEF Init, Accepted, Live, IsOpen, Open, Registered, IsOur, Unanswered, Ids
<1>2. Sending = FALSE
  BY ConstantsAssumption DEF Init, Sending, Threads
<1> QED BY <1>1, <1>2 DEF Contract!ContractInit, OfAccount

\* Every step of the account manager is one of the contract or leaves what the
\* contract sees alone.
LEMMA MappedStep == Inv /\ [Next]_vars => Mapped
<1> SUFFICES ASSUME Inv, [Next]_vars PROVE Mapped
  OBVIOUS
<1>1. CASE UNCHANGED vars
  <2>1. UNCHANGED <<Accepted, Live, Unanswered, Registered, orphans, Sending, synced>>
    BY <1>1 DEF vars, exchVars, threadVars, restVars, bookVars, historyVars, Accepted,
                Live, IsOpen, Unanswered, Registered, IsOur, Sending
  <2> QED BY <2>1, MapStutter, MapNext DEF Mapped
<1> QED BY <1>1, MappedExchange, MappedSend, MappedRefresh, MappedOpen, MappedFrame DEF Next

\* Whatever senders, refreshers, frames, lost replies and crashes do, the account
\* manager keeps the contract the arbitrage strategy relies on.
THEOREM ContractImplemented == Spec => ImplementsContract
<1>1. Spec => Contract!ContractInit /\ [][Contract!ContractNext]_(Contract!contractVars)
  BY MappedInit, MappedStep, Invariance, PTL DEF Spec, Mapped
<1> QED BY <1>1 DEF ImplementsContract, Contract!ContractSpec

-----------------------------------------------------------------------------
(***************************************************************************)
(* The account once every frame is handled                                 *)
(***************************************************************************)

\* Initialize has begun on this connection.
Started == stream \in {"request", "reply", "open", "close"}

\* The last frame waiting is the exchange's latest balance.
PositionInv ==
    /\ stream = "down" => events = <<>>
    /\ events # <<>> =>
          /\ events[Len(events)].kind = "position"
          /\ events[Len(events)].executed = executed

\* With no frame waiting a refresh holds the exchange's balance, and so does the
\* account once it has been refreshed on this connection.
TotalInv ==
    Started =>
        /\ \A r \in Refreshers : refresher[r] = "assign" /\ events = <<>> => snapshot = executed
        /\ events = <<>> /\ (\A r \in Refreshers : refresher[r] \notin {"start", "request", "assign"})
             => total = executed

-----------------------------------------------------------------------------
(***************************************************************************)
(* Frames                                                                  *)
(***************************************************************************)

\* What the queue of frames holds.
LEMMA FrameType ==
    ASSUME TypeOK
    PROVE  /\ events \in Seq(Frame) /\ Len(events) \in Nat
           /\ \A n \in 1..Len(events) :
                 /\ events[n].kind \in {"order", "position"}
                 /\ events[n].kind = "order" => events[n].id \in Ids /\ events[n].status \in Status
BY DEF TypeOK, Frame, OrderFrames, PositionFrames

\* A report adds an order frame and a position frame with the new balance, if
\* there is a connection.
LEMMA ReportAdds ==
    ASSUME TypeOK, NEW i \in Ids, NEW s \in Status, NEW ex \in Executions, Report(i, s, ex)
    PROVE  /\ exch' = [exch EXCEPT ![i] = s] /\ executed' = ex
           /\ ~Connected => events' = events
           /\ Connected =>
                 /\ events' # <<>> /\ Len(events') = Len(events) + 2
                 /\ \A n \in 1..Len(events) : events'[n] = events[n]
                 /\ events'[Len(events) + 1] = [kind |-> "order", id |-> i, status |-> s]
                 /\ events'[Len(events) + 2] = [kind |-> "position", executed |-> ex]
<1> DEFINE order == [kind |-> "order", id |-> i, status |-> s]
           position == [kind |-> "position", executed |-> ex]
<1>1. events \in Seq(Frame) /\ order \in Frame /\ position \in Frame
  BY DEF TypeOK, Frame, OrderFrames, PositionFrames
<1>2. /\ exch' = [exch EXCEPT ![i] = s] /\ executed' = ex
      /\ ~Connected => events' = events
      /\ Connected => events' = Append(Append(events, order), position)
  BY DEF Report, Send
<1> HIDE DEF order, position
<1>3. ASSUME Connected
      PROVE  /\ events' # <<>> /\ Len(events') = Len(events) + 2
             /\ \A n \in 1..Len(events) : events'[n] = events[n]
             /\ events'[Len(events) + 1] = order
             /\ events'[Len(events) + 2] = position
  BY <1>1, <1>2, <1>3
<1> QED BY <1>2, <1>3 DEF order, position

\* Handling a frame leaves the others in their order.
LEMMA TailIs ==
    ASSUME TypeOK, events # <<>>, events' = Tail(events)
    PROVE  /\ Len(events) >= 1 /\ Len(events') = Len(events) - 1 /\ Head(events) = events[1]
           /\ events' = <<>> <=> Len(events) = 1
           /\ \A n \in 1..Len(events') : events'[n] = events[n + 1]
<1>1. events \in Seq(Frame) /\ Tail(events) \in Seq(Frame)
  BY FrameType
<1>2. \A q \in Seq(Frame) : q = <<>> <=> Len(q) = 0
  OBVIOUS
<1>3. Len(Tail(events)) = Len(events) - 1 /\ Len(events) >= 1
  BY <1>1
<1>4. Tail(events) = <<>> <=> Len(Tail(events)) = 0
  BY <1>1, <1>2
<1>5. /\ Head(events) = events[1]
      /\ \A n \in 1..Len(Tail(events)) : Tail(events)[n] = events[n + 1]
  BY <1>1
<1>6. Len(events) \in Nat
  BY <1>1
<1>7. Tail(events) = <<>> <=> Len(events) = 1
  BY <1>3, <1>4, <1>6
<1> QED BY <1>3, <1>5, <1>7

\* An order frame is never the last one waiting.
LEMMA OrderThenPosition ==
    ASSUME TypeOK, PositionInv, events # <<>>, Head(events).kind = "order", events' = Tail(events)
    PROVE  events' # <<>>
<1>1. Len(events) >= 1 /\ Len(events) \in Nat /\ events[1].kind = "order"
  BY FrameType, TailIs
<1>2. Len(events) # 1
  BY <1>1 DEF PositionInv
<1> QED BY <1>2, TailIs

\* What a request does to the frames and to the thread of the stream.
LEMMA SendFrames ==
    ASSUME Inv, NEW t \in Senders, SendOrder(t)
    PROVE  /\ UNCHANGED <<stream, refresher, snapshot, total, openOrders, leaked>>
           /\ \/ UNCHANGED <<exch, executed, events>>
              \/ \E i \in OwnIds : /\ exch[i] = "none" /\ SendAccepted(t, i)
                                   /\ Report(i, "NEW", executed)
BY DEF SendOrder, Decide, SendBegin, SendAccepted, SendRefused, SendReplyLost,
       SendReplyGarbled, SendStore, SendLock, SendFinish, exchVars, restVars, balanceVars,
       historyVars

\* A handled frame is taken off the queue; a closing one in two steps.
LEMMA HandledFrame ==
    ASSUME Inv, OnAccountBalanceUpdate \/ OnOrderUpdate
    PROVE  /\ stream \in {"open", "close"} /\ stream' \in {"open", "close"} /\ events # <<>>
           /\ UNCHANGED <<exch, executed, refresher, sender, sent, snapshot, openOrders, synced, leaked>>
           /\ \/ CloseBegin /\ UNCHANGED <<events, our, ext, total>>
              \/ /\ events' = Tail(events) /\ Head(events).kind = "order"
                 /\ OnUnknownOrder \/ UpdateOurOrder \/ AddExternalOrder \/ IgnoreExternalOrder
                 /\ UNCHANGED total
              \/ events' = Tail(events) /\ Head(events).kind = "order" /\ CloseFinish
              \/ OnAccountBalanceUpdate
BY DEF OnAccountBalanceUpdate, OnOrderUpdate, OnUnknownOrder, UpdateOurOrder, AddExternalOrder,
       IgnoreExternalOrder, CloseBegin, CloseFinish, OrderUpdate, NextFrame, exchVars, threadVars,
       restVars, bookVars, balanceVars, historyVars, Inv, CloseInv

-----------------------------------------------------------------------------
(***************************************************************************)
(* The totals                                                              *)
(***************************************************************************)

\* A report leaves its position frame last.
LEMMA ReportPosition ==
    ASSUME TypeOK, PositionInv, NEW i \in Ids, NEW s \in Status, NEW ex \in Executions,
           Report(i, s, ex), stream' = stream
    PROVE  PositionInv'
<1>1. CASE ~Connected
  <2>1. stream = "down" /\ events' = <<>>
    BY <1>1, ReportAdds DEF PositionInv, Connected
  <2> QED BY <2>1 DEF PositionInv
<1>2. CASE Connected
  <2>1. stream' # "down" /\ Len(events') = Len(events) + 2 /\ executed' = ex
        /\ events'[Len(events) + 2] = [kind |-> "position", executed |-> ex]
    BY <1>2, ReportAdds DEF Connected
  <2> QED BY <2>1 DEF PositionInv
<1> QED BY <1>1, <1>2

\* Handling a frame leaves the last one, if any.
LEMMA TailPosition ==
    ASSUME TypeOK, PositionInv, events # <<>>, events' = Tail(events), executed' = executed,
           stream' # "down"
    PROVE  PositionInv'
<1>1. CASE events' = <<>>
  BY <1>1 DEF PositionInv
<1>2. CASE events' # <<>>
  <2>1. Len(events') \in 1..Len(events') /\ Len(events') + 1 = Len(events)
    BY <1>2, FrameType, TailIs
  <2>2. events'[Len(events')] = events[Len(events)]
    BY <2>1, TailIs
  <2> QED BY <2>2 DEF PositionInv
<1> QED BY <1>1, <1>2

\* Every step leaves a position frame last.
LEMMA PositionStep == Inv /\ PositionInv /\ [Next]_vars => PositionInv'
<1> SUFFICES ASSUME Inv, PositionInv, [Next]_vars PROVE PositionInv'
  OBVIOUS
<1>0. TypeOK
  BY DEF Inv
<1>1. CASE UNCHANGED <<executed, events>> /\ (stream' = "down" => stream = "down")
  BY <1>1 DEF PositionInv
<1>2. CASE events' = <<>>
  BY <1>2 DEF PositionInv
<1>3. CASE Exchange
  <2>1. stream' = stream
    BY <1>3, ExchangeReports DEF ProcessUnchanged, threadVars
  <2>2. PICK i \in Ids, s \in Status \ {"none"}, ex \in Executions : Report(i, s, ex)
    BY <1>3, ExchangeReports
  <2> QED BY <1>0, <2>1, <2>2, ReportPosition
<1>4. ASSUME NEW t \in Senders, SendOrder(t) PROVE PositionInv'
  <2>1. CASE UNCHANGED <<exch, executed, events>>
    BY <1>1, <1>4, <2>1, SendFrames
  <2>2. CASE \E i \in OwnIds : Report(i, "NEW", executed)
    <3>1. PICK i \in OwnIds : Report(i, "NEW", executed)
      BY <2>2
    <3>2. i \in Ids /\ "NEW" \in Status /\ executed \in Executions /\ stream' = stream
      BY <1>0, <1>4, SendFrames DEF Ids, Status, Open, TypeOK
    <3> QED BY <1>0, <3>1, <3>2, ReportPosition
  <2> QED BY <1>4, <2>1, <2>2, SendFrames
<1>5. ASSUME NEW r \in Refreshers, RefreshAccountBalance(r) PROVE PositionInv'
  BY <1>1, <1>2, <1>5
     DEF RefreshAccountBalance, RefreshBegin, RefreshReply, RefreshFailed, RefreshAssign,
         RefreshReplayExternal, RefreshReplayOur, Crash, exchVars
<1>6. CASE OnConnectionOpen
  BY <1>1, <1>2, <1>6
     DEF OnConnectionOpen, Connect, InitializeBegin, InitializeReply, InitializeFailed,
         InitializeFinish, Crash, exchVars
<1>7. CASE Disconnect
  BY <1>2, <1>7 DEF Disconnect
<1>8. CASE OnAccountBalanceUpdate \/ OnOrderUpdate
  <2>1. /\ executed' = executed /\ stream' # "down" /\ events # <<>>
        /\ events' = events \/ events' = Tail(events)
    BY <1>8, HandledFrame DEF OnAccountBalanceUpdate
  <2> QED BY <1>0, <1>1, <2>1, TailPosition
<1>9. CASE UNCHANGED vars
  BY <1>1, <1>9 DEF vars, exchVars, threadVars
<1> QED BY <1>3, <1>4, <1>5, <1>6, <1>7, <1>8, <1>9 DEF Next

\* Every step keeps the totals right.
LEMMA TotalStep == Inv /\ PositionInv /\ TotalInv /\ [Next]_vars => TotalInv'
<1> SUFFICES ASSUME Inv, PositionInv, TotalInv, [Next]_vars PROVE TotalInv'
  OBVIOUS
<1>0. TypeOK /\ MutexInv
  BY DEF Inv
<1>1. CASE UNCHANGED <<executed, events, refresher, snapshot, total>> /\ (Started' => Started)
  BY <1>1 DEF TotalInv
<1>2. CASE ~Started'
  BY <1>2 DEF TotalInv
<1>3. ASSUME NEW i \in Ids, NEW s \in Status, NEW ex \in Executions, Report(i, s, ex),
             stream' = stream
      PROVE  TotalInv'
  <2>1. CASE Started
    <3>1. Connected
      BY <2>1 DEF Started, Connected
    <3>2. events' # <<>>
      BY <1>0, <1>3, <3>1, ReportAdds
    <3> QED BY <3>2 DEF TotalInv
  <2>2. CASE ~Started
    BY <1>2, <1>3, <2>2 DEF Started
  <2> QED BY <2>1, <2>2
<1>4. CASE Exchange
  <2>1. stream' = stream
    BY <1>4, ExchangeReports DEF ProcessUnchanged, threadVars
  <2> QED BY <1>3, <1>4, <2>1, ExchangeReports
<1>5. ASSUME NEW t \in Senders, SendOrder(t) PROVE TotalInv'
  <2>1. UNCHANGED <<stream, refresher, snapshot, total>>
    BY <1>5, SendFrames
  <2>2. CASE UNCHANGED <<exch, executed, events>>
    BY <1>1, <2>1, <2>2 DEF Started
  <2>3. CASE \E i \in OwnIds : Report(i, "NEW", executed)
    <3>1. PICK i \in OwnIds : Report(i, "NEW", executed)
      BY <2>3
    <3>2. i \in Ids /\ "NEW" \in Status /\ executed \in Executions
      BY <1>0 DEF Ids, Status, Open, TypeOK
    <3> QED BY <1>3, <2>1, <3>1, <3>2
  <2> QED BY <1>5, <2>2, <2>3, SendFrames
<1>6. ASSUME Crash PROVE TotalInv'
  BY <1>2, <1>6 DEF Crash, Started
<1>7. ASSUME NEW r \in Refreshers, RefreshAccountBalance(r) PROVE TotalInv'
  <2> USE DEF exchVars, threadVars, restVars, bookVars, balanceVars, historyVars
  <2>1. refresher \in [Refreshers -> {"off", "start", "sleep"} \cup RefresherLocked]
    BY <1>0 DEF TypeOK
  <2>2. CASE RefreshBegin(r)
    BY <2>1, <2>2 DEF RefreshBegin, TotalInv, Started
  <2>3. CASE RefreshReply(r)
    BY <2>1, <2>3 DEF RefreshReply, TotalInv, Started
  <2>4. CASE RefreshFailed(r)
    BY <1>6, <2>4 DEF RefreshFailed
  <2>5. CASE RefreshAssign(r)
    <3>1. /\ refresher[r] = "assign" /\ total' = snapshot /\ UNCHANGED <<executed, events, stream>>
          /\ refresher' = [refresher EXCEPT ![r] = "replay_external"]
      BY <2>5 DEF RefreshAssign, TotalOfReply
    <3>2. \A q \in Refreshers : refresher'[q] # "assign"
      <4> TAKE q \in Refreshers
      <4>1. q # r => refresher[q] # "assign"
        BY <1>0, <3>1 DEF MutexInv, RefresherLocked
      <4> QED BY <2>1, <3>1, <4>1
    <3> QED BY <3>1, <3>2 DEF TotalInv, Started
  <2>6. CASE RefreshReplayExternal(r)
    BY <2>1, <2>6 DEF RefreshReplayExternal, TotalInv, Started
  <2>7. CASE RefreshReplayOur(r)
    BY <2>1, <2>7 DEF RefreshReplayOur, TotalInv, Started
  <2> QED BY <1>7, <2>2, <2>3, <2>4, <2>5, <2>6, <2>7 DEF RefreshAccountBalance
<1>8. CASE OnConnectionOpen
  <2> USE DEF exchVars, threadVars, restVars, bookVars, balanceVars, historyVars
  <2>1. CASE Connect
    BY <1>2, <2>1 DEF Connect, Started
  <2>2. CASE InitializeBegin
    <3>1. PICK r \in Refreshers : refresher' = [refresher EXCEPT ![r] = "start"]
      BY <2>2 DEF InitializeBegin
    <3>2. refresher'[r] = "start"
      BY <1>0, <3>1 DEF TypeOK
    <3>3. \A q \in Refreshers : refresher'[q] # "assign"
      <4>1. \A q \in Refreshers : refresher[q] # "assign"
        BY <1>0, <2>2, ConstantsAssumption DEF InitializeBegin, MutexInv, RefresherLocked, Threads
      <4> QED BY <1>0, <3>1, <4>1 DEF TypeOK
    <3> QED BY <3>2, <3>3 DEF TotalInv
  <2>3. CASE InitializeReply
    BY <1>1, <2>3 DEF InitializeReply, Started
  <2>4. CASE InitializeFailed
    BY <1>6, <2>4 DEF InitializeFailed
  <2>5. CASE InitializeFinish
    BY <1>1, <2>5 DEF InitializeFinish, Started
  <2> QED BY <1>8, <2>1, <2>2, <2>3, <2>4, <2>5 DEF OnConnectionOpen
<1>9. CASE Disconnect
  BY <1>2, <1>9 DEF Disconnect, Started
<1>10. CASE OnAccountBalanceUpdate \/ OnOrderUpdate
  <2>1. /\ stream \in {"open", "close"} /\ Started /\ events # <<>>
        /\ UNCHANGED <<executed, refresher, snapshot>>
    BY <1>10, HandledFrame DEF Started
  <2>2. CASE CloseBegin /\ UNCHANGED <<events, our, ext, total>>
    BY <1>1, <2>1, <2>2
  <2>3. CASE events' = Tail(events) /\ Head(events).kind = "order"
    <3>1. events' # <<>>
      BY <1>0, <2>1, <2>3, OrderThenPosition
    <3> QED BY <3>1 DEF TotalInv
  <2>4. CASE OnAccountBalanceUpdate
    <3>1. /\ mutex = NoThread /\ events' = Tail(events) /\ total' = Head(events).executed
      BY <2>4 DEF OnAccountBalanceUpdate, UpdateTotalBalance
    <3>2. \A r \in Refreshers : refresher'[r] # "assign"
      BY <1>0, <2>1, <3>1, ConstantsAssumption DEF MutexInv, RefresherLocked, Threads
    <3>3. ASSUME events' = <<>> PROVE total' = executed'
      <4>1. Len(events) = 1 /\ Head(events) = events[1]
        BY <1>0, <2>1, <3>1, <3>3, TailIs
      <4> QED BY <2>1, <3>1, <4>1 DEF PositionInv
    <3> QED BY <3>2, <3>3 DEF TotalInv
  <2> QED BY <1>10, <2>2, <2>3, <2>4, HandledFrame
<1>11. CASE UNCHANGED vars
  BY <1>1, <1>11 DEF vars, exchVars, threadVars, restVars, balanceVars, Started
<1> QED BY <1>4, <1>5, <1>7, <1>8, <1>9, <1>10, <1>11 DEF Next

\* The two invariants, along with the account's own.
LEMMA TotalsInvariance == Spec => [](Inv /\ PositionInv /\ TotalInv)
<1>1. Init => PositionInv /\ TotalInv
  BY DEF Init, PositionInv, TotalInv, Started
<1> QED BY <1>1, Invariance, InvInit, InvStep, PositionStep, TotalStep, PTL DEF Spec

\* For any number of orders, threads, connections, crashes and failures: with every
\* frame handled and the account refreshed on this connection, the cached totals are
\* the exchange's, although closing orders adjust them, refreshes replace them and
\* position frames overwrite them at unrelated times.
THEOREM TotalsCorrect == Spec => []TotalsAgreeWhenDrained
<1>1. Inv /\ TotalInv => TotalsAgreeWhenDrained
  <2> SUFFICES ASSUME Inv, TotalInv, Drained, \A r \in Refreshers : refresher[r] # "start"
               PROVE  total = executed
    BY DEF TotalsAgreeWhenDrained
  <2>1. \A r \in Refreshers : refresher[r] \notin RefresherLocked
    BY ConstantsAssumption DEF Inv, MutexInv, Drained, Threads
  <2> QED BY <2>1 DEF TotalInv, Drained, Started, RefresherLocked
<1> QED BY <1>1, TotalsInvariance, PTL

-----------------------------------------------------------------------------
(***************************************************************************)
(* One connection                                                          *)
(*                                                                         *)
(* With one refresher the process opens one connection.  Before it nothing *)
(* is registered and nobody sends (ConnectionInv); after it no frame is    *)
(* lost, so a registered order that has closed still has its closing frame *)
(* waiting (ClosingInv).                                                   *)
(***************************************************************************)

OneConnection == \E r : Refreshers = {r}

\* Nothing is registered and nobody sends.
Fresh ==
    /\ \A i \in Ids : our[i] = "absent"
    /\ ext = {} /\ ~synced
    /\ \A t \in Senders : sender[t] = "idle"

ConnectionInv ==
    /\ \A r \in Refreshers : refresher[r] = "off" <=> ~Started
    /\ ~Started \/ stream \in {"request", "reply"} => Fresh
    /\ NothingLeaked

\* What is known of an order here was placed at the exchange.
PlacedInv ==
    /\ \A i \in ext : exch[i] # "none"
    /\ \A o \in openOrders : exch[o.id] # "none"
    /\ \A n \in 1..Len(events) : events[n].kind = "order" => exch[events[n].id] # "none"

\* An own order is registered as ours only, and never rejected later on.
OwnerInv ==
    /\ \A i \in Ids : IsOur(i) => i \in OwnIds /\ i \notin ext
    /\ \A i \in Ids : InReply(i) => i \notin ext
    /\ \A n \in 1..Len(events) :
          events[n].kind = "order" /\ events[n].status = "REJECTED" => events[n].id \notin OwnIds

InOpenOrders(i) == stream = "reply" /\ \E o \in openOrders : o.id = i
Kept(i) == IsOur(i) \/ InReply(i) \/ i \in ext \/ InOpenOrders(i)
Closes(e, i) == e.kind = "order" /\ e.id = i /\ e.status \in Closed

\* The frame that closes order i is waiting.
Waiting(i) == \E n \in 1..Len(events) : Closes(events[n], i)

\* The closing frame of an order that is kept, or will be when a frame before it is
\* handled, is waiting.
KeptClosing == \A i \in Known : Kept(i) /\ exch[i] \in Closed => Waiting(i)
FrameClosing ==
    \A n \in 1..Len(events) :
        /\ events[n].kind = "order" /\ events[n].status \notin Closed
        /\ exch[events[n].id] \in Closed
        => \E m \in (n + 1)..Len(events) : Closes(events[m], events[n].id)
ClosingInv == KeptClosing /\ FrameClosing

\* The only connection is not lost, and nothing is registered before it.
LEMMA ConnectionStep ==
    OneConnection /\ Inv /\ ConnectionInv /\ [Next]_vars => ConnectionInv'
<1> SUFFICES ASSUME OneConnection, Inv, ConnectionInv, [Next]_vars PROVE ConnectionInv'
  OBVIOUS
<1>0. TypeOK /\ MutexInv
  BY DEF Inv
<1> USE DEF exchVars, threadVars, restVars, bookVars, balanceVars, historyVars
<1>1. CASE UNCHANGED <<stream, refresher, our, ext, synced, sender, leaked>>
  BY <1>1 DEF ConnectionInv, Started, Fresh, NothingLeaked
<1>2. CASE Exchange
  BY <1>1, <1>2, ExchangeReports DEF ProcessUnchanged
<1>3. ASSUME NEW t \in Senders, SendOrder(t) PROVE ConnectionInv'
  <2>1. ~Fresh
    BY <1>3 DEF Fresh, SendOrder, Decide, SendBegin, SendAccepted, SendRefused, SendReplyLost,
                SendReplyGarbled, SendStore, SendLock, SendFinish
  <2>2. UNCHANGED <<stream, refresher, leaked>>
    BY <1>3, SendFrames
  <2> QED BY <2>1, <2>2 DEF ConnectionInv, Started, NothingLeaked
<1>4. ASSUME Crash PROVE ConnectionInv'
  BY <1>4 DEF Crash, ConnectionInv, Started, Fresh, NothingLeaked
<1>5. ASSUME NEW r \in Refreshers, RefreshAccountBalance(r) PROVE ConnectionInv'
  <2>1. CASE RefreshFailed(r)
    BY <1>4, <2>1 DEF RefreshFailed
  <2>2. CASE ~RefreshFailed(r)
    <3>1. /\ refresher[r] # "off" /\ UNCHANGED <<stream, our, ext, sender>>
          /\ leaked' = leaked \/ leaked' = [i \in Ids |-> 0]
          /\ \E w \in {"request", "assign", "replay_external", "replay_our", "sleep"} :
                refresher' = [refresher EXCEPT ![r] = w]
          /\ synced' = synced \/ (mutex = r)
      BY <1>0, <1>5, <2>2
         DEF RefreshAccountBalance, RefreshBegin, RefreshReply, RefreshAssign,
             RefreshReplayExternal, RefreshReplayOur, MutexInv, RefresherLocked
    <3>2. Started /\ \A q \in Refreshers : refresher'[q] # "off"
      BY <1>0, <3>1 DEF ConnectionInv, TypeOK
    <3>3. mutex = r => stream \notin {"request", "reply"}
      BY <1>0, ConstantsAssumption DEF MutexInv, StreamLocked
    <3>4. NothingLeaked'
      BY <3>1 DEF ConnectionInv, NothingLeaked
    <3>5. stream' \in {"request", "reply"} => Fresh'
      BY <3>1, <3>3 DEF ConnectionInv, Fresh
    <3> QED BY <3>1, <3>2, <3>4, <3>5 DEF ConnectionInv, Started
  <2> QED BY <2>1, <2>2
<1>6. CASE OnConnectionOpen
  <2>1. CASE Connect
    BY <2>1 DEF Connect, ConnectionInv, Started, Fresh, NothingLeaked
  <2>2. CASE InitializeBegin
    <3>1. /\ stream = "opening" /\ stream' = "request"
          /\ UNCHANGED <<our, ext, synced, sender, leaked>>
          /\ \E r \in Refreshers : refresher' = [refresher EXCEPT ![r] = "start"]
      BY <2>2 DEF InitializeBegin
    <3>2. \A q \in Refreshers : refresher'[q] = "start"
      BY <1>0, <3>1 DEF OneConnection, TypeOK
    <3> QED BY <3>1, <3>2 DEF ConnectionInv, Started, Fresh, NothingLeaked
  <2>3. CASE InitializeReply
    BY <2>3 DEF InitializeReply, ConnectionInv, Started, Fresh, NothingLeaked
  <2>4. CASE InitializeFailed
    BY <1>4, <2>4 DEF InitializeFailed
  <2>5. CASE InitializeFinish
    <3>1. stream = "reply" /\ stream' = "open" /\ refresher' = refresher
          /\ leaked' = [i \in Ids |-> leaked[i] + (IF i \in ext THEN 1 ELSE 0)]
      BY <2>5 DEF InitializeFinish
    <3>2. ext = {} /\ \A i \in Ids : leaked[i] = 0
      BY <3>1 DEF ConnectionInv, Fresh, NothingLeaked
    <3> QED BY <3>1, <3>2 DEF ConnectionInv, Started, NothingLeaked
  <2> QED BY <1>6, <2>1, <2>2, <2>3, <2>4, <2>5 DEF OnConnectionOpen
<1>7. CASE Disconnect
  BY <1>7 DEF Disconnect, ConnectionInv, Started
<1>8. CASE OnAccountBalanceUpdate \/ OnOrderUpdate
  BY <1>8, HandledFrame DEF ConnectionInv, Started, NothingLeaked
<1>9. CASE UNCHANGED vars
  BY <1>1, <1>9 DEF vars
<1> QED BY <1>2, <1>3, <1>5, <1>6, <1>7, <1>8, <1>9 DEF Next

\* Whatever the exchange reports, it places orders and never forgets them; of the
\* own ones it rejects none.
LEMMA ReportsPlaced ==
    ASSUME Inv, [Next]_vars
    PROVE  \/ UNCHANGED <<exch, executed, events>>
           \/ ~Started' /\ events' = <<>> /\ exch' = exch
           \/ /\ OnAccountBalanceUpdate \/ OnOrderUpdate
              /\ events # <<>> /\ events' = Tail(events) /\ exch' = exch
           \/ /\ UNCHANGED stream
              /\ \E i \in Ids, s \in Status \ {"none"}, ex \in Executions :
                    /\ Report(i, s, ex) /\ exch[i] \notin Closed
                    /\ s = "REJECTED" => i \in ExtIds
<1>0. TypeOK
  BY DEF Inv
<1> USE DEF exchVars, threadVars, restVars, bookVars, balanceVars, historyVars
<1>1. CASE Exchange
  <2>1. UNCHANGED stream
    BY <1>1, ExchangeReports DEF ProcessUnchanged
  <2>2. CASE \E i \in ExtIds : PlaceExternal(i)
    BY <1>0, <2>1, <2>2 DEF PlaceExternal, Ids, Status, Open, Closed, TypeOK
  <2>3. CASE \E i \in Ids : Execute(i)
    <3>1. PICK i \in Ids : Execute(i)
      BY <2>3
    <3> DEFINE n == executed[i] + 1
               s == IF n = Units THEN "FILLED" ELSE "PARTIALLY_FILLED"
               ex == [executed EXCEPT ![i] = n]
    <3>2. Report(i, s, ex) /\ exch[i] \notin Closed
      BY <3>1 DEF Execute, IsOpen, Open, Closed
    <3>3. executed[i] \in 0 .. Units /\ executed[i] < Units
      BY <1>0, <3>2 DEF Inv, TypeOK, Executions, ExecInv
    <3>4. n \in 0 .. Units
      BY <3>3 DEF Units
    <3>5. ex \in Executions
      BY <1>0, <3>4 DEF TypeOK, Executions
    <3>6. s \in Status \ {"none"} /\ s # "REJECTED"
      BY DEF Status, Open, Closed
    <3> HIDE DEF n, s, ex
    <3> QED BY <2>1, <3>2, <3>5, <3>6
  <2>4. CASE \E i \in Ids, s \in Closed : CloseOrder(i, s)
    <3>1. PICK i \in Ids, s \in Closed : CloseOrder(i, s)
      BY <2>4
    <3>2. /\ Report(i, s, executed) /\ exch[i] \notin Closed /\ s \in Status \ {"none"}
          /\ s = "REJECTED" => i \in ExtIds
      BY <3>1 DEF CloseOrder, IsOpen, Open, Closed, Status
    <3> QED BY <1>0, <2>1, <3>2 DEF TypeOK
  <2> QED BY <1>1, <2>2, <2>3, <2>4 DEF Exchange
<1>2. ASSUME NEW t \in Senders, SendOrder(t)
      PROVE  \/ UNCHANGED <<exch, executed, events>>
             \/ /\ UNCHANGED stream
                /\ \E i \in Ids, s \in Status \ {"none"}, ex \in Executions :
                      /\ Report(i, s, ex) /\ exch[i] \notin Closed
                      /\ s = "REJECTED" => i \in ExtIds
  <2>1. CASE UNCHANGED <<exch, executed, events>>
    BY <2>1
  <2>2. CASE \E i \in OwnIds : exch[i] = "none" /\ Report(i, "NEW", executed)
    <3>1. PICK i \in OwnIds : exch[i] = "none" /\ Report(i, "NEW", executed)
      BY <2>2
    <3>2. /\ i \in Ids /\ "NEW" \in Status \ {"none"} /\ executed \in Executions
          /\ exch[i] \notin Closed
      BY <1>0, <3>1 DEF Ids, Status, Open, Closed, TypeOK
    <3> QED BY <1>2, <3>1, <3>2, SendFrames
  <2> QED BY <1>2, <2>1, <2>2, SendFrames
<1>3. CASE Crash
  BY <1>3 DEF Crash, Started
<1>4. ASSUME NEW r \in Refreshers, RefreshAccountBalance(r), ~Crash
      PROVE  UNCHANGED <<exch, executed, events>>
  BY <1>4
     DEF RefreshAccountBalance, RefreshBegin, RefreshReply, RefreshFailed, RefreshAssign,
         RefreshReplayExternal, RefreshReplayOur
<1>5. CASE OnConnectionOpen /\ ~Crash
  BY <1>5
     DEF OnConnectionOpen, Connect, InitializeBegin, InitializeReply, InitializeFailed,
         InitializeFinish
<1>6. CASE Disconnect
  BY <1>6 DEF Disconnect, Started
<1>7. CASE OnAccountBalanceUpdate \/ OnOrderUpdate
  BY <1>7, HandledFrame DEF OnAccountBalanceUpdate
<1>8. CASE UNCHANGED vars
  BY <1>8 DEF vars
<1> QED BY <1>1, <1>2, <1>3, <1>4, <1>5, <1>6, <1>7, <1>8 DEF Next

\* How an order comes to be kept.
LEMMA BookChanges ==
    ASSUME Inv, [Next]_vars
    PROVE  /\ \A i \in Ids : IsOur(i)' => IsOur(i) \/ InReply(i)
           /\ \A i : InReply(i)' => InReply(i) \/ \E t \in Senders : SendAccepted(t, i)
           /\ ext' \subseteq ext \/ AddExternalOrder \/ InitializeFinish
           /\ openOrders' \subseteq openOrders \/ InitializeReply
           /\ stream' = "reply" => stream = "reply" \/ InitializeReply
<1>0. TypeOK /\ MutexInv
  BY DEF Inv
<1> USE DEF IsOur, InReply, exchVars, threadVars, restVars, bookVars, balanceVars, historyVars
<1>1. CASE UNCHANGED <<our, ext, openOrders, stream, sender, sent>>
  BY <1>1
<1>2. CASE Exchange
  BY <1>1, <1>2, ExchangeReports DEF ProcessUnchanged
<1>3. ASSUME NEW t \in Senders, SendOrder(t)
      PROVE  /\ UNCHANGED <<ext, openOrders, stream>>
             /\ \A i \in Ids : IsOur(i)' => IsOur(i) \/ InReply(i)
             /\ \A i : InReply(i)' => InReply(i) \/ SendAccepted(t, i)
  <2>1. UNCHANGED <<ext, openOrders, stream>>
    BY <1>3 DEF SendOrder, Decide, SendBegin, SendAccepted, SendRefused, SendReplyLost,
                SendReplyGarbled, SendStore, SendLock, SendFinish
  <2>2. CASE SendStore(t)
    <3>1. /\ sender[t] = "reply" /\ our' = [our EXCEPT ![sent] = "asked"] /\ sent' = sent
          /\ sender' = [sender EXCEPT ![t] = "lock"]
      BY <2>2 DEF SendStore
    <3> QED BY <1>0, <2>1, <3>1 DEF TypeOK
  <2>3. CASE our' = our /\ sent' = sent /\ ~\E i \in OwnIds : SendAccepted(t, i)
    <3>1. \A u \in Senders : sender'[u] = "reply" => sender[u] = "reply"
      BY <1>0, <1>3, <2>3
         DEF SendOrder, Decide, SendBegin, SendRefused, SendReplyLost,
             SendReplyGarbled, SendStore, SendLock, SendFinish, TypeOK
    <3> QED BY <2>1, <2>3, <3>1
  <2>4. CASE \E i \in OwnIds : SendAccepted(t, i)
    BY <2>1, <2>4 DEF SendAccepted
  <2>5. CASE SendReplyLost(t) \/ SendReplyGarbled(t) \/ SendFinish(t)
    <3>1. /\ sender[t] \in SenderLocked /\ our' = our
          /\ \E w \in {"request", "failed", "idle"} : sender' = [sender EXCEPT ![t] = w]
      BY <2>5 DEF SendReplyLost, SendReplyGarbled, SendFinish, SenderLocked
    <3>2. \A u \in Senders : sender'[u] # "reply"
      BY <1>0, <3>1 DEF MutexInv, SenderLocked, TypeOK
    <3> QED BY <2>1, <3>1, <3>2
  <2> QED BY <1>3, <2>2, <2>3, <2>4, <2>5
          DEF SendOrder, Decide, SendBegin, SendRefused, SendLock
<1>4. ASSUME Crash
      PROVE  /\ our' = [i \in Ids |-> "absent"] /\ ext' = {} /\ openOrders' = {}
             /\ stream' = "down" /\ sender' = [t \in Senders |-> "idle"]
  BY <1>4 DEF Crash
<1>5. ASSUME NEW r \in Refreshers, RefreshAccountBalance(r), ~Crash
      PROVE  UNCHANGED <<our, ext, openOrders, stream, sender, sent>>
  BY <1>5
     DEF RefreshAccountBalance, RefreshBegin, RefreshReply, RefreshFailed, RefreshAssign,
         RefreshReplayExternal, RefreshReplayOur
<1>6. CASE OnConnectionOpen /\ ~Crash
  BY <1>6
     DEF OnConnectionOpen, Connect, InitializeBegin, InitializeReply, InitializeFailed,
         InitializeFinish
<1>7. CASE Disconnect
  BY <1>7 DEF Disconnect
<1>8. CASE OnAccountBalanceUpdate \/ OnOrderUpdate
  <2>1. UNCHANGED <<openOrders, sender, sent>> /\ stream' # "reply"
    BY <1>8, HandledFrame
  <2>2. CASE UNCHANGED bookVars
    BY <2>1, <2>2
  <2>3. CASE UpdateOurOrder
    BY <1>0, <2>1, <2>3 DEF UpdateOurOrder, TypeOK
  <2>4. CASE AddExternalOrder
    BY <2>1, <2>4 DEF AddExternalOrder
  <2>5. CASE CloseFinish
    BY <1>0, <2>1, <2>5 DEF CloseFinish, TypeOK
  <2> QED BY <1>8, <2>2, <2>3, <2>4, <2>5
          DEF OnAccountBalanceUpdate, OnOrderUpdate, OnUnknownOrder, IgnoreExternalOrder, CloseBegin
<1>9. CASE UNCHANGED vars
  BY <1>1, <1>9 DEF vars
<1>10. CASE Crash
  BY <1>4, <1>10
<1> QED BY <1>2, <1>3, <1>5, <1>1, <1>6, <1>7, <1>8, <1>9, <1>10 DEF Next

\* Placed orders stay placed, and whoever is named here was.
LEMMA PlacedStep == Inv /\ PlacedInv /\ [Next]_vars => PlacedInv'
<1> SUFFICES ASSUME Inv, PlacedInv, [Next]_vars PROVE PlacedInv'
  OBVIOUS
<1>0. TypeOK
  BY DEF Inv
<1>1. ASSUME NEW i \in Ids, exch[i] # "none" PROVE exch'[i] # "none"
  <2>1. ASSUME NEW j \in Ids, NEW s \in Status \ {"none"}, NEW ex \in Executions, Report(j, s, ex)
        PROVE  exch'[i] # "none"
    <3>1. exch' = [exch EXCEPT ![j] = s]
      BY <1>0, <2>1, ReportAdds
    <3> QED BY <1>0, <1>1, <3>1 DEF TypeOK
  <2> QED BY <1>1, <2>1, ReportsPlaced
<1>2. \A o \in openOrders : o.id \in Ids
  BY <1>0 DEF TypeOK
<1>3. ASSUME NEW o \in openOrders' PROVE exch'[o.id] # "none"
  <2>1. CASE openOrders' \subseteq openOrders
    BY <1>1, <1>2, <1>3, <2>1 DEF PlacedInv
  <2>2. CASE InitializeReply
    BY <1>3, <2>2 DEF InitializeReply, GetOpenOrders, IsOpen, Open, exchVars
  <2> QED BY <2>1, <2>2, BookChanges
<1>4. ASSUME NEW i \in ext' PROVE exch'[i] # "none"
  <2>1. CASE ext' \subseteq ext
    BY <1>0, <1>1, <1>4, <2>1, ConstantsAssumption DEF PlacedInv, TypeOK
  <2>2. CASE AddExternalOrder
    <3>1. /\ ext' = ext \cup {Head(events).id} /\ exch' = exch /\ events # <<>>
          /\ Head(events).kind = "order"
      BY <2>2 DEF AddExternalOrder, OrderUpdate, NextFrame
    <3>2. 1 \in 1..Len(events) /\ Head(events) = events[1]
      BY <1>0, <3>1, FrameType
    <3> QED BY <1>4, <3>1, <3>2 DEF PlacedInv
  <2>3. CASE InitializeFinish
    BY <1>4, <2>3 DEF InitializeFinish, Reported, PlacedInv, exchVars
  <2> QED BY <2>1, <2>2, <2>3, BookChanges
<1>5. ASSUME NEW n \in 1..Len(events'), events'[n].kind = "order"
      PROVE  exch'[events'[n].id] # "none"
  <2>1. ASSUME NEW m \in 1..Len(events), events'[n] = events[m] PROVE exch'[events'[n].id] # "none"
    BY <1>0, <1>1, <1>5, <2>1, FrameType DEF PlacedInv
  <2>2. CASE UNCHANGED <<exch, executed, events>>
    BY <2>1, <2>2
  <2>3. CASE events' = <<>>
    BY <2>3
  <2>4. CASE events # <<>> /\ events' = Tail(events)
    <3>1. n + 1 \in 1..Len(events) /\ events'[n] = events[n + 1]
      BY <1>0, <2>4, TailIs, FrameType
    <3> QED BY <2>1, <3>1
  <2>5. ASSUME NEW i \in Ids, NEW s \in Status \ {"none"}, NEW ex \in Executions, Report(i, s, ex)
        PROVE  exch'[events'[n].id] # "none"
    <3>1. exch' = [exch EXCEPT ![i] = s]
      BY <1>0, <2>5, ReportAdds
    <3>2. CASE events' = events
      BY <2>1, <3>2
    <3>3. CASE Connected
      <4>1. /\ Len(events') = Len(events) + 2 /\ Len(events) \in Nat
            /\ \A m \in 1..Len(events) : events'[m] = events[m]
            /\ events'[Len(events) + 1] = [kind |-> "order", id |-> i, status |-> s]
            /\ events'[Len(events) + 2] = [kind |-> "position", executed |-> ex]
        BY <1>0, <2>5, <3>3, ReportAdds, FrameType
      <4>2. CASE n \in 1..Len(events)
        BY <2>1, <4>1, <4>2
      <4>3. CASE n = Len(events) + 1
        BY <1>0, <3>1, <4>1, <4>3 DEF TypeOK
      <4>4. CASE n = Len(events) + 2
        BY <1>5, <4>1, <4>4
      <4> QED BY <4>1, <4>2, <4>3, <4>4
    <3> QED BY <1>0, <2>5, <3>2, <3>3, ReportAdds
  <2> QED BY <2>2, <2>3, <2>4, <2>5, ReportsPlaced
<1> QED BY <1>3, <1>4, <1>5 DEF PlacedInv

\* Nobody waits for a reply while somebody else holds m_order_mutex.
LEMMA NoReply ==
    ASSUME Inv, mutex \in {NoThread, Stream}
    PROVE  \A i : ~InReply(i)
BY ConstantsAssumption DEF Inv, MutexInv, InReply, SenderLocked, Threads

\* An order stays ours alone.
LEMMA OwnerStep ==
    Inv /\ ConnectionInv /\ PlacedInv /\ OwnerInv /\ [Next]_vars => OwnerInv'
<1> SUFFICES ASSUME Inv, ConnectionInv, PlacedInv, OwnerInv, [Next]_vars PROVE OwnerInv'
  OBVIOUS
<1>0. TypeOK /\ MutexInv
  BY DEF Inv
<1>1. ASSUME NEW i \in Ids, InReply(i) PROVE i \in OwnIds /\ i \notin ext
  BY <1>0, <1>1, ConstantsAssumption DEF TypeOK, InReply, OwnerInv
<1>2. ASSUME NEW i \in Ids, IsOur(i)' PROVE i \in OwnIds /\ i \notin ext'
  <2>1. (IsOur(i) \/ InReply(i)) /\ i \in OwnIds /\ i \notin ext
    BY <1>1, <1>2, BookChanges DEF OwnerInv
  <2>2. CASE AddExternalOrder
    <3>1. ext' = ext \cup {Head(events).id} /\ ~IsOur(Head(events).id) /\ mutex = NoThread
      BY <2>2 DEF AddExternalOrder, OrderUpdate
    <3> QED BY <2>1, <3>1, NoReply
  <2>3. CASE InitializeFinish
    <3>1. stream = "reply" /\ our' = our
      BY <2>3 DEF InitializeFinish
    <3> QED BY <1>2, <3>1 DEF ConnectionInv, Fresh, IsOur
  <2> QED BY <2>1, <2>2, <2>3, BookChanges
<1>3. ASSUME NEW i \in Ids, InReply(i)' PROVE i \notin ext'
  <2>1. CASE \E t \in Senders : SendAccepted(t, i)
    <3>1. exch[i] = "none" /\ ext' = ext
      BY <2>1 DEF SendAccepted, bookVars
    <3> QED BY <3>1 DEF PlacedInv
  <2>2. CASE InReply(i)
    <3>1. i \notin ext /\ mutex \notin {NoThread, Stream}
      BY <1>1, <2>2, NoReply
    <3>2. ~AddExternalOrder
      BY <3>1 DEF AddExternalOrder, OrderUpdate
    <3>3. ~InitializeFinish
      BY <1>0, <3>1 DEF InitializeFinish, MutexInv, StreamLocked
    <3> QED BY <3>1, <3>2, <3>3, BookChanges
  <2> QED BY <1>3, <2>1, <2>2, BookChanges
<1>4. ASSUME NEW n \in 1..Len(events'), events'[n].kind = "order", events'[n].status = "REJECTED"
      PROVE  events'[n].id \notin OwnIds
  <2>1. ASSUME NEW m \in 1..Len(events), events'[n] = events[m] PROVE events'[n].id \notin OwnIds
    BY <1>4, <2>1 DEF OwnerInv
  <2>2. CASE UNCHANGED <<exch, executed, events>>
    BY <2>1, <2>2
  <2>3. CASE events' = <<>>
    BY <2>3
  <2>4. CASE events # <<>> /\ events' = Tail(events)
    <3>1. n + 1 \in 1..Len(events) /\ events'[n] = events[n + 1]
      BY <1>0, <2>4, TailIs, FrameType
    <3> QED BY <2>1, <3>1
  <2>5. ASSUME NEW i \in Ids, NEW s \in Status \ {"none"}, NEW ex \in Executions,
               Report(i, s, ex), s = "REJECTED" => i \in ExtIds
        PROVE  events'[n].id \notin OwnIds
    <3>1. CASE events' = events
      BY <2>1, <3>1
    <3>2. CASE Connected
      <4>1. /\ Len(events') = Len(events) + 2 /\ Len(events) \in Nat
            /\ \A m \in 1..Len(events) : events'[m] = events[m]
            /\ events'[Len(events) + 1] = [kind |-> "order", id |-> i, status |-> s]
            /\ events'[Len(events) + 2] = [kind |-> "position", executed |-> ex]
        BY <1>0, <2>5, <3>2, ReportAdds, FrameType
      <4>2. CASE n \in 1..Len(events)
        BY <2>1, <4>1, <4>2
      <4>3. CASE n = Len(events) + 1
        BY <1>4, <2>5, <4>1, <4>3, ConstantsAssumption
      <4>4. CASE n = Len(events) + 2
        BY <1>4, <4>1, <4>4
      <4> QED BY <4>1, <4>2, <4>3, <4>4
    <3> QED BY <1>0, <2>5, <3>1, <3>2, ReportAdds
  <2> QED BY <2>2, <2>3, <2>4, <2>5, ReportsPlaced
<1> QED BY <1>2, <1>3, <1>4 DEF OwnerInv

\* An order is kept because it was before, because a NEW frame about it is
\* handled, or it is open.
LEMMA KeptBefore ==
    ASSUME Inv, [Next]_vars, NEW i \in Known, Kept(i)', exch'[i] \in Closed
    PROVE  Kept(i) \/ (AddExternalOrder /\ i = Head(events).id)
<1>0. i \in Ids /\ TypeOK
  BY ConstantsAssumption DEF Inv
<1>1. CASE IsOur(i)'
  BY <1>0, <1>1, BookChanges DEF Kept
<1>2. CASE InReply(i)'
  <2>1. ASSUME NEW t \in Senders, SendAccepted(t, i) PROVE FALSE
    <3>1. exch' = [exch EXCEPT ![i] = "NEW"]
      BY <2>1 DEF SendAccepted, Report
    <3> QED BY <1>0, <3>1 DEF TypeOK, Closed
  <2> QED BY <1>2, <2>1, BookChanges DEF Kept
<1>3. CASE i \in ext'
  <2>1. CASE AddExternalOrder
    <3>1. ext' = ext \cup {Head(events).id}
      BY <2>1 DEF AddExternalOrder
    <3> QED BY <1>3, <2>1, <3>1 DEF Kept
  <2>2. CASE InitializeFinish
    <3>1. stream = "reply" /\ [id |-> i, status |-> "NEW"] \in openOrders
      BY <1>3, <2>2 DEF InitializeFinish, Reported
    <3> QED BY <3>1 DEF Kept, InOpenOrders
  <2> QED BY <1>3, <2>1, <2>2, BookChanges DEF Kept
<1>4. CASE InOpenOrders(i)'
  <2>1. CASE InitializeReply
    <3>1. exch' = exch /\ \A o \in openOrders' : exch[o.id] \in Open
      BY <2>1 DEF InitializeReply, GetOpenOrders, IsOpen, exchVars
    <3> QED BY <1>4, <3>1 DEF InOpenOrders, Open, Closed
  <2> QED BY <1>4, <2>1, BookChanges DEF InOpenOrders, Kept
<1> QED BY <1>1, <1>2, <1>3, <1>4 DEF Kept

\* A frame that closes a kept order is not handled without forgetting the order.
LEMMA ClosedForgotten ==
    ASSUME Inv, ConnectionInv, PositionInv, OwnerInv, OnAccountBalanceUpdate \/ OnOrderUpdate,
           events' = Tail(events), NEW i \in Known, Closes(Head(events), i)
    PROVE  ~Kept(i) \/ ~Kept(i)'
<1> DEFINE e == Head(events)
<1>0. i \in Ids /\ TypeOK /\ MutexInv
  BY ConstantsAssumption DEF Inv
<1>1. e.kind = "order" /\ e.id = i /\ e.status \in Closed
  BY DEF Closes
<1>2. CASE CloseBegin /\ UNCHANGED <<events, our, ext, total>>
  <2>1. events # <<>> /\ events' = events
    BY <1>2, HandledFrame
  <2>2. Len(events') = Len(events) - 1 /\ Len(events) \in Nat
    BY <1>0, <2>1, TailIs, FrameType
  <2> QED BY <2>1, <2>2
<1>3. CASE OnUnknownOrder
  BY <1>1, <1>3 DEF OnUnknownOrder
<1>4. CASE UpdateOurOrder
  <2>1. IsOur(i) /\ e.status = "REJECTED" /\ events # <<>>
    BY <1>1, <1>4 DEF UpdateOurOrder, OrderUpdate, NextFrame, ClosesOur, Closed
  <2>2. e = events[1] /\ 1 \in 1..Len(events)
    BY <1>0, <2>1, FrameType
  <2> QED BY <1>0, <1>1, <2>1, <2>2 DEF OwnerInv
<1>5. CASE AddExternalOrder
  BY <1>1, <1>5 DEF AddExternalOrder, Closed
<1>6. CASE IgnoreExternalOrder
  <2>1. /\ stream = "open" /\ mutex = NoThread /\ ~IsOur(i) /\ i \notin ext
    BY <1>1, <1>6 DEF IgnoreExternalOrder, OrderUpdate, NextFrame, WasAdded, Closed
  <2> QED BY <2>1, NoReply DEF Kept, InOpenOrders
<1>7. CASE CloseFinish
  <2>1. stream = "close" /\ stream' = "open" /\ UNCHANGED <<sender, sent>>
    BY <1>7 DEF CloseFinish, restVars
  <2>2. mutex = Stream
    BY <1>0, <2>1 DEF MutexInv, StreamLocked
  <2>3. ~InReply(i)' /\ ~InOpenOrders(i)'
    BY <2>1, <2>2, NoReply DEF InReply, InOpenOrders
  <2>4. CASE IsOur(i)
    <3>1. our' = [our EXCEPT ![i] = "absent"] /\ ext' = ext
      BY <1>1, <1>7, <2>4 DEF CloseFinish
    <3>2. i \notin ext
      BY <1>0, <2>4 DEF OwnerInv
    <3>3. ~IsOur(i)'
      BY <1>0, <3>1 DEF TypeOK, IsOur
    <3> QED BY <2>3, <3>1, <3>2, <3>3 DEF Kept
  <2>5. CASE ~IsOur(i)
    <3>1. our' = our /\ ext' = ext \ {i}
      BY <1>1, <1>7, <2>5 DEF CloseFinish
    <3> QED BY <2>3, <2>5, <3>1 DEF Kept, IsOur
  <2> QED BY <2>4, <2>5
<1>8. CASE OnAccountBalanceUpdate
  BY <1>1, <1>8 DEF OnAccountBalanceUpdate, NextFrame
<1> QED BY <1>2, <1>3, <1>4, <1>5, <1>6, <1>7, <1>8, HandledFrame

\* A report leaves the closing frames waiting, and closes an order with one.
LEMMA ClosingReport ==
    ASSUME TypeOK, PositionInv, FrameClosing, NEW i \in Ids, NEW s \in Status,
           NEW ex \in Executions, Report(i, s, ex), exch[i] \notin Closed
    PROVE  /\ FrameClosing'
           /\ Connected => \A j \in Ids :
                 exch'[j] \in Closed /\ (exch[j] \in Closed => Waiting(j)) => Waiting(j)'
<1>1. /\ exch' = [exch EXCEPT ![i] = s] /\ exch \in [Ids -> Status]
      /\ Len(events) \in Nat
  BY ReportAdds, FrameType DEF TypeOK
<1>2. CASE ~Connected
  <2>1. events' = <<>>
    BY <1>2, ReportAdds DEF Connected, PositionInv
  <2> QED BY <1>2, <2>1 DEF FrameClosing
<1>3. CASE Connected
  <2>1. /\ Len(events') = Len(events) + 2
        /\ \A n \in 1..Len(events) : events'[n] = events[n]
        /\ events'[Len(events) + 1] = [kind |-> "order", id |-> i, status |-> s]
        /\ events'[Len(events) + 2] = [kind |-> "position", executed |-> ex]
    BY <1>3, ReportAdds
  <2>2. s \in Closed => Closes(events'[Len(events) + 1], i)
    BY <2>1 DEF Closes
  <2>3. ASSUME NEW j \in Ids, exch'[j] \in Closed, exch[j] \in Closed => Waiting(j)
        PROVE  Waiting(j)'
    <3>1. CASE j = i
      <4>1. s \in Closed
        BY <1>1, <2>3, <3>1
      <4> QED BY <1>1, <2>1, <2>2, <3>1, <4>1 DEF Waiting
    <3>2. CASE j # i
      <4>1. Waiting(j)
        BY <1>1, <2>3, <3>2
      <4>2. PICK n \in 1..Len(events) : Closes(events[n], j)
        BY <4>1 DEF Waiting
      <4>3. n \in 1..Len(events') /\ Closes(events'[n], j)
        BY <1>1, <2>1, <4>2
      <4> QED BY <4>3 DEF Waiting
    <3> QED BY <3>1, <3>2
  <2>4. ASSUME NEW n \in 1..Len(events'), events'[n].kind = "order",
               events'[n].status \notin Closed, exch'[events'[n].id] \in Closed
        PROVE  \E m \in (n + 1)..Len(events') : Closes(events'[m], events'[n].id)
    <3>1. CASE n \in 1..Len(events)
      <4> DEFINE j == events[n].id
      <4>1. events'[n] = events[n] /\ j \in Ids
        BY <2>1, <2>4, <3>1, FrameType
      <4>2. CASE j = i
        <5>1. s \in Closed
          BY <1>1, <2>4, <4>1, <4>2
        <5>2. Len(events) + 1 \in (n + 1)..Len(events')
          BY <1>1, <2>1, <3>1
        <5> QED BY <2>2, <4>1, <4>2, <5>1, <5>2
      <4>3. CASE j # i
        <5>1. exch[j] \in Closed
          BY <1>1, <2>4, <4>1, <4>3
        <5>2. PICK m \in (n + 1)..Len(events) : Closes(events[m], j)
          BY <2>4, <3>1, <4>1, <5>1 DEF FrameClosing
        <5>3. m \in 1..Len(events) /\ m \in (n + 1)..Len(events')
          BY <1>1, <2>1, <3>1
        <5>4. Closes(events'[m], j)
          BY <2>1, <5>2, <5>3
        <5> QED BY <4>1, <5>3, <5>4
      <4> QED BY <4>2, <4>3
    <3>2. CASE n = Len(events) + 1
      <4>1. events'[n].id = i /\ events'[n].status = s
        BY <2>1, <3>2
      <4> QED BY <1>1, <2>4, <4>1
    <3>3. CASE n = Len(events) + 2
      BY <2>1, <2>4, <3>3
    <3> QED BY <1>1, <2>1, <3>1, <3>2, <3>3
  <2> QED BY <2>3, <2>4 DEF FrameClosing
<1> QED BY <1>2, <1>3

\* So does handling a frame, but for the frame handled.
LEMMA ClosingTail ==
    ASSUME TypeOK, FrameClosing, events # <<>>, events' = Tail(events), exch' = exch
    PROVE  /\ FrameClosing'
           /\ \A n \in 2..Len(events) : \A i : Closes(events[n], i) => Waiting(i)'
<1>1. /\ Len(events) \in Nat /\ Len(events') = Len(events) - 1 /\ Len(events) >= 1
      /\ \A n \in 1..Len(events') : events'[n] = events[n + 1]
  BY TailIs, FrameType
<1>2. ASSUME NEW n \in 1..Len(events'), events'[n].kind = "order",
             events'[n].status \notin Closed, exch'[events'[n].id] \in Closed
      PROVE  \E m \in (n + 1)..Len(events') : Closes(events'[m], events'[n].id)
  <2>1. n + 1 \in 1..Len(events) /\ events'[n] = events[n + 1]
    BY <1>1
  <2>2. PICK m \in (n + 2)..Len(events) : Closes(events[m], events[n + 1].id)
    <3>1. \E m \in ((n + 1) + 1)..Len(events) : Closes(events[m], events[n + 1].id)
      BY <1>2, <2>1 DEF FrameClosing
    <3> QED BY <3>1
  <2>3. m - 1 \in (n + 1)..Len(events') /\ m - 1 \in 1..Len(events') /\ (m - 1) + 1 = m
    BY <1>1
  <2>4. events'[m - 1] = events[m]
    BY <1>1, <2>3
  <2> QED BY <2>1, <2>2, <2>3, <2>4
<1>3. ASSUME NEW n \in 2..Len(events), NEW i, Closes(events[n], i) PROVE Waiting(i)'
  <2>1. n - 1 \in 1..Len(events') /\ (n - 1) + 1 = n
    BY <1>1
  <2>2. events'[n - 1] = events[n]
    BY <1>1, <2>1
  <2> QED BY <1>3, <2>1, <2>2 DEF Waiting
<1> QED BY <1>2, <1>3 DEF FrameClosing

\* No step leaves a closed order behind without the frame that closes it.
LEMMA ClosingStep ==
    ASSUME OneConnection, Inv, PositionInv, ConnectionInv, OwnerInv, ClosingInv, [Next]_vars
    PROVE  ClosingInv'
<1>0. TypeOK /\ KeptClosing /\ FrameClosing
  BY DEF Inv, ClosingInv
<1>1. ConnectionInv'
  BY ConnectionStep
<1>2. ASSUME NEW i \in Known, Kept(i)' PROVE Started'
  <2>1. i \in Ids
    BY ConstantsAssumption
  <2> QED BY <1>1, <1>2, <2>1
          DEF ConnectionInv, Fresh, Kept, IsOur, InReply, InOpenOrders, Started
<1>3. AddExternalOrder => events # <<>> /\ events' = Tail(events)
  BY DEF AddExternalOrder, OrderUpdate, NextFrame
<1>4. Len(events) \in Nat
  BY <1>0, FrameType
<1>5. CASE UNCHANGED <<exch, executed, events>>
  <2>1. ~AddExternalOrder
    <3>1. Len(events') # Len(events) - 1
      BY <1>4, <1>5
    <3> QED BY <1>0, <1>3, <3>1, TailIs
  <2>2. ASSUME NEW i \in Known, Kept(i)', exch'[i] \in Closed PROVE Waiting(i)'
    <3>1. Kept(i) /\ exch[i] \in Closed
      BY <1>5, <2>1, <2>2, KeptBefore
    <3> QED BY <1>0, <1>5, <3>1 DEF KeptClosing, Waiting
  <2> QED BY <1>0, <1>5, <2>2 DEF ClosingInv, KeptClosing, FrameClosing
<1>6. CASE ~Started' /\ events' = <<>>
  BY <1>2, <1>6 DEF ClosingInv, KeptClosing, FrameClosing
<1>7. CASE /\ OnAccountBalanceUpdate \/ OnOrderUpdate
           /\ events # <<>> /\ events' = Tail(events) /\ exch' = exch
  <2>1. /\ FrameClosing'
        /\ \A n \in 2..Len(events) : \A i : Closes(events[n], i) => Waiting(i)'
    BY <1>0, <1>7, ClosingTail
  <2>2. Len(events) >= 1 /\ Head(events) = events[1]
    BY <1>0, <1>7, TailIs
  <2>3. ASSUME NEW i \in Known, Kept(i)', exch'[i] \in Closed PROVE Waiting(i)'
    <3>1. CASE Kept(i)
      <4>1. exch[i] \in Closed
        BY <1>7, <2>3
      <4>2. PICK n \in 1..Len(events) : Closes(events[n], i)
        BY <1>0, <3>1, <4>1 DEF KeptClosing, Waiting
      <4>3. n # 1
        BY <1>7, <2>2, <2>3, <3>1, <4>2, ClosedForgotten
      <4> QED BY <1>4, <2>1, <4>2, <4>3
    <3>2. CASE AddExternalOrder /\ i = Head(events).id
      <4>1. /\ events[1].kind = "order" /\ events[1].id = i /\ events[1].status \notin Closed
            /\ exch[i] \in Closed
        BY <1>7, <2>2, <2>3, <3>2 DEF AddExternalOrder, OrderUpdate, NextFrame, Closed
      <4>2. 1 \in 1..Len(events)
        BY <1>4, <2>2
      <4>3. \E m \in (1 + 1)..Len(events) : Closes(events[m], i)
        BY <1>0, <4>1, <4>2 DEF FrameClosing
      <4> QED BY <2>1, <4>3
    <3> QED BY <2>3, <3>1, <3>2, KeptBefore
  <2> QED BY <2>1, <2>3 DEF ClosingInv, KeptClosing
<1>8. ASSUME UNCHANGED stream, NEW j \in Ids, NEW s \in Status \ {"none"}, NEW ex \in Executions,
             Report(j, s, ex), exch[j] \notin Closed
      PROVE  ClosingInv'
  <2>1. /\ FrameClosing'
        /\ Connected => \A i \in Ids :
              exch'[i] \in Closed /\ (exch[i] \in Closed => Waiting(i)) => Waiting(i)'
    BY <1>0, <1>8, ClosingReport
  <2>2. ~AddExternalOrder
    <3>1. events' = events \/ Len(events') = Len(events) + 2
      BY <1>0, <1>8, ReportAdds
    <3>2. Len(events') # Len(events) - 1
      BY <1>4, <3>1
    <3> QED BY <1>0, <1>3, <3>2, TailIs
  <2>3. ASSUME NEW i \in Known, Kept(i)', exch'[i] \in Closed PROVE Waiting(i)'
    <3>1. Kept(i)
      BY <2>2, <2>3, KeptBefore
    <3>2. Connected
      BY <1>2, <1>8, <2>3 DEF Started, Connected
    <3>3. i \in Ids
      BY ConstantsAssumption
    <3> QED BY <1>0, <2>1, <2>3, <3>1, <3>2, <3>3 DEF KeptClosing
  <2> QED BY <2>1, <2>3 DEF ClosingInv, KeptClosing
<1> QED BY <1>5, <1>6, <1>7, <1>8, ReportsPlaced

\* What holds of an account with one connection.
OneInv == Inv /\ PositionInv /\ ConnectionInv /\ PlacedInv /\ OwnerInv /\ ClosingInv

\* It holds of a process that has just started.
LEMMA OneInit == Init => OneInv
<1> SUFFICES ASSUME Init PROVE OneInv
  OBVIOUS
<1>1. Inv
  BY InvInit
<1>2. PositionInv /\ ConnectionInv
  BY DEF Init, PositionInv, ConnectionInv, Started, Fresh, NothingLeaked
<1>3. PlacedInv /\ OwnerInv
  BY DEF Init, PlacedInv, OwnerInv, IsOur, InReply
<1>4. ClosingInv
  BY ConstantsAssumption
     DEF Init, ClosingInv, KeptClosing, FrameClosing, Kept, IsOur, InReply, InOpenOrders
<1> QED BY <1>1, <1>2, <1>3, <1>4 DEF OneInv

\* It holds for as long as the process has one connection.
LEMMA OneInvariance == ASSUME OneConnection PROVE Spec => []OneInv
<1>1. OneInv /\ [Next]_vars => OneInv'
  BY InvStep, PositionStep, ConnectionStep, PlacedStep, OwnerStep, ClosingStep DEF OneInv
<1> QED BY <1>1, OneInit, PTL DEF Spec

\* While the process has opened one connection, no order is registered both as ours
\* and as external: m_order_mutex, held over the REST call, keeps the event of an
\* order behind the reply that says it is ours.
THEOREM OwnOrExternalCorrect == ASSUME OneConnection PROVE Spec => []NeverOwnAndExternal
<1>1. OneInv => NeverOwnAndExternal
  BY DEF OneInv, OwnerInv, NeverOwnAndExternal
<1> QED BY <1>1, OneInvariance, PTL

\* While the process has opened one connection, an order that is not open at the
\* exchange locks nothing once every frame is handled.
THEOREM LocksReleasedCorrect == ASSUME OneConnection PROVE Spec => []LocksReleasedWhenDrained
<1>1. OneInv /\ LockAccounting => LocksReleasedWhenDrained
  <2> SUFFICES ASSUME OneInv, LockAccounting, Drained, NEW i \in Known \cap Exact, ~IsOpen(i)
               PROVE  locked[i]["asked"] = 0
    BY DEF LocksReleasedWhenDrained
  <2>1. i \in Ids /\ TypeOK /\ Len(events) = 0
    BY ConstantsAssumption DEF OneInv, Inv, Drained
  <2>2. exch[i] \in Closed \/ exch[i] = "none"
    BY <2>1 DEF TypeOK, Status, IsOpen
  <2>3. ~Kept(i)
    <3>1. CASE exch[i] \in Closed
      BY <2>1, <3>1 DEF OneInv, ClosingInv, KeptClosing, Waiting
    <3>2. CASE exch[i] = "none"
      <4>1. ~InOpenOrders(i)
        BY DEF Drained, InOpenOrders
      <4> QED BY <2>1, <3>2, <4>1 DEF OneInv, Inv, OurInv, PlacedInv, Kept
    <3> QED BY <2>2, <3>1, <3>2
  <2>4. OurLock(i, "asked") = 0 /\ ExtLock(i, "asked") = 0
    BY <2>3 DEF Kept, IsOur, OurLock, ExtLock
  <2>5. leaked[i] = 0
    BY <2>1 DEF OneInv, ConnectionInv, NothingLeaked
  <2> QED BY <2>4, <2>5 DEF LockAccounting, Drained
<1> QED BY <1>1, OneInvariance, LockAccountingCorrect, PTL

=============================================================================
