-------------------------- MODULE KrakenAccountProofs --------------------------
(***************************************************************************)
(* The Kraken account, for every set of orders and threads: it is well     *)
(* typed, keeps the contract of AccountContract, and once every message is *)
(* handled its registers agree with the exchange.                          *)
(***************************************************************************)
EXTENDS KrakenAccount, FiniteSetTheorems, TLAPS

\* Whoever is inside an operation holds m_order_mutex, and nobody else does.
MutexInv ==
    /\ \A t \in Senders : sender[t] # "idle" <=> mutex = t
    /\ \A r \in Refreshers : refresher[r] = "request" <=> mutex = r
    /\ stream \in {"request", "reply"} <=> mutex = Stream

\* A reply names an order of this process.
SentInv == \A t \in Senders : sender[t] = "reply" => sent \in OwnIds

\* A frame is about an order that was placed; one that opens an order describes it,
\* and one that closes an order is about an order that is closed; e is the state of
\* the orders at the exchange.
True(e, f) ==
    /\ e[f.id] # "none"
    /\ f.status = "open" => f.described
    /\ f.status = "closed" => e[f.id] = "closed"

AllTrue(e, s) == \A k \in 1..Len(s) : True(e, s[k])

FramesInv ==
    /\ AllTrue(exch, reading)
    /\ \A m \in 1..Len(messages) : AllTrue(exch, messages[m])

Inv == TypeOK /\ MutexInv /\ SentInv /\ FramesInv

(***************************************************************************)
(* The exchange                                                            *)
(***************************************************************************)

\* A set of frames as a sequence.
LEMMA Enumerated ==
    ASSUME NEW S \in SUBSET Frame, IsFiniteSet(S)
    PROVE  SetToSeq(S) \in Seq(S) /\ Range(SetToSeq(S)) = S
<1> DEFINE n == Cardinality(S)
<1>1. n \in Nat /\ ExistsBijection(1..n, S)
  BY FS_CardinalityType
<1>2. PICK f \in Bijection(1..n, S) : TRUE
  BY <1>1 DEF ExistsBijection
<1>3. f \in [1..n -> S] /\ IsInjective(f)
  BY <1>2 DEF Bijection, Injection, Surjection, IsInjective
<1>4. SetToSeq(S) \in [1..n -> S] /\ IsInjective(SetToSeq(S))
  BY <1>3 DEF SetToSeq
<1> HIDE DEF n
<1>5. SetToSeq(S) \in Seq(S)
  BY <1>1, <1>4
<1>6. Range(SetToSeq(S)) = S
  <2> DEFINE g == SetToSeq(S)
  <2>1. IsFiniteSet(1..n) /\ Cardinality(1..n) = n
    BY <1>1, FS_Interval
  <2>2. g \in Injection(1..n, S)
    BY <1>4 DEF Injection, IsInjective
  <2>3. g \in Surjection(1..n, S)
    BY <2>1, <2>2, FS_Injection DEF n
  <2> HIDE DEF g
  <2>4. DOMAIN g = 1..n /\ g \in [1..n -> S] /\ \A x \in S : \E k \in 1..n : g[k] = x
    BY <2>3 DEF Surjection
  <2>5. Range(g) = S
    BY <2>4 DEF Range
  <2> QED BY <2>5 DEF g
<1> QED BY <1>5, <1>6

\* The snapshot: one frame for every open order.
LEMMA OpeningsFinite ==
    /\ IsFiniteSet({Opening(i) : i \in OpenIds})
    /\ {Opening(i) : i \in OpenIds} \in SUBSET Frame
<1> DEFINE S == {Opening(i) : i \in OpenIds}
<1>1. OpenIds \subseteq Ids
  BY DEF OpenIds
<1>2. IsFiniteSet(OpenIds)
  BY <1>1, FS_Subset, KrakenAccountAssumption
<1>3. [i \in OpenIds |-> Opening(i)] \in Surjection(OpenIds, S)
  BY DEF Surjection
<1>4. \A i \in Ids : Opening(i) \in Frame
  BY DEF Opening, Frame
<1> QED BY <1>1, <1>2, <1>3, <1>4, FS_Surjection

LEMMA NewsType == ASSUME NEW s \in Seq(Frame) PROVE NewsOf(s) \subseteq Ids
<1>1. Range(s) \subseteq Frame
  BY DEF Range
<1>2. \A f \in Frame : f.id \in Ids
  BY DEF Frame
<1> QED BY <1>1, <1>2 DEF NewsOf

\* The orders at the exchange move on: what was placed or is closed stays so.
Onward(e, f) ==
    \A i \in Ids : /\ e[i] # "none" => f[i] # "none"
                   /\ e[i] = "closed" => f[i] = "closed"

\* What the frames say stays true.
LEMMA StaysTrue ==
    ASSUME NEW e, NEW f, Onward(e, f), NEW s \in Seq(Frame), AllTrue(e, s)
    PROVE  AllTrue(f, s)
<1>1. ASSUME NEW k \in 1..Len(s) PROVE True(f, s[k])
  <2>1. s[k] \in Frame
    OBVIOUS
  <2>2. s[k].id \in Ids
    BY <2>1 DEF Frame
  <2>3. True(e, s[k])
    BY DEF AllTrue
  <2>4. f[s[k].id] # "none" /\ (s[k].status = "closed" => f[s[k].id] = "closed")
    BY <2>2, <2>3 DEF True, Onward
  <2> QED BY <2>3, <2>4 DEF True
<1> QED BY <1>1 DEF AllTrue

\* A frame is sent, or its news is missed.
LEMMA Told ==
    ASSUME TypeOK, FramesInv, NEW frame \in Frame, Tell(frame), True(exch', frame),
           Onward(exch, exch'), UNCHANGED reading
    PROVE  messages' \in Seq(Seq(Frame)) /\ missed' \subseteq Ids /\ FramesInv'
<1>1. /\ messages \in Seq(Seq(Frame)) /\ reading \in Seq(Frame) /\ missed \subseteq Ids
      /\ frame.id \in Ids
  BY DEF TypeOK, Frame
<1>2. NewsOf(<<frame>>) \subseteq {frame.id}
  BY DEF NewsOf, Range
<1>3. missed' \subseteq Ids
  BY <1>1, <1>2 DEF Tell
<1>4. AllTrue(exch', reading') /\ \A m \in 1..Len(messages) : AllTrue(exch', messages[m])
  BY <1>1, StaysTrue DEF FramesInv
<1>5. CASE messages' = Append(messages, <<frame>>)
  <2>1. AllTrue(exch', <<frame>>) /\ <<frame>> \in Seq(Frame)
    BY DEF AllTrue
  <2>2. messages' \in Seq(Seq(Frame)) /\ Len(messages') = Len(messages) + 1
    BY <1>1, <1>5, <2>1
  <2>3. \A m \in 1..Len(messages') : messages'[m] = messages[m] \/ messages'[m] = <<frame>>
    BY <1>1, <1>5
  <2>4. \A m \in 1..Len(messages') : m \in 1..Len(messages) \/ messages'[m] = <<frame>>
    BY <1>1, <1>5
  <2>5. \A m \in 1..Len(messages) : messages'[m] = messages[m]
    BY <1>1, <1>5
  <2> QED BY <1>3, <1>4, <2>1, <2>2, <2>4, <2>5 DEF FramesInv
<1>6. CASE /\ messages # <<>>
           /\ messages' = [messages EXCEPT ![Len(messages)] = Append(@, frame)]
  <2> DEFINE n == Len(messages)
             s == messages[n]
  <2>1. n \in 1..Len(messages) /\ s \in Seq(Frame)
    BY <1>1, <1>6
  <2>2. /\ messages' \in Seq(Seq(Frame)) /\ Len(messages') = n
        /\ messages'[n] = Append(s, frame)
        /\ \A m \in 1..n : m # n => messages'[m] = messages[m]
    BY <1>1, <1>6, <2>1
  <2>3. AllTrue(exch', Append(s, frame))
    BY <1>4, <2>1 DEF AllTrue
  <2> QED BY <1>3, <1>4, <2>2, <2>3 DEF FramesInv
<1>7. CASE UNCHANGED messages
  BY <1>1, <1>3, <1>4, <1>7 DEF FramesInv
<1> QED BY <1>5, <1>6, <1>7 DEF Tell

\* The parts of TypeOK.
ExchangeType ==
    /\ exch \in [Ids -> {"none", "open", "closed"}]
    /\ feed \in {"none", "asked", "on"}
    /\ messages \in Seq(Seq(Frame))
    /\ missed \subseteq Ids

ThreadType ==
    /\ mutex \in Senders \cup Refreshers \cup {Stream, NoThread}
    /\ sender \in [Senders -> {"idle", "request", "reply", "finish", "failed"}]
    /\ refresher \in [Refreshers -> {"off", "start", "sleep", "request"}]
    /\ stream \in {"down", "opening", "request", "reply", "subscribing", "open"}

RestType ==
    /\ reading \in Seq(Frame)
    /\ attempt \in 0..1
    /\ sent \in OwnIds \cup {NoOrder}
    /\ openOrders \subseteq Ids
    /\ our \subseteq OwnIds
    /\ ext \subseteq Known
    /\ synced \in BOOLEAN
    /\ orphans \subseteq OwnIds
    /\ failures \in 0..MaxFailures

LEMMA TypeParts == TypeOK <=> ExchangeType /\ ThreadType /\ RestType
  BY DEF TypeOK, ExchangeType, ThreadType, RestType

\* What the exchange does of itself leaves the process as it is.
LEMMA ExchangeInv == ASSUME Inv, Exchange PROVE Inv'
<1> USE KrakenAccountAssumption DEF exchVars, threadVars, restVars, bookVars, ProcessUnchanged
<1>0. ExchangeType /\ ThreadType /\ RestType /\ MutexInv /\ SentInv /\ FramesInv /\ TypeOK
  BY TypeParts DEF Inv
<1>1. UNCHANGED <<threadVars, reading, restVars, bookVars, synced, orphans, failures>>
  BY DEF Exchange, PlaceExternal, Execute, CloseOrder, ExchangeSubscribes
<1>2. ThreadType' /\ RestType' /\ MutexInv' /\ SentInv'
  BY <1>0, <1>1 DEF ThreadType, RestType, MutexInv, SentInv
<1>3. ASSUME NEW i \in ExtIds, PlaceExternal(i) PROVE ExchangeType' /\ FramesInv'
  <2>1. i \in Ids /\ Opening(i) \in Frame /\ exch' = [exch EXCEPT ![i] = "open"] /\ exch[i] = "none"
    BY <1>3 DEF Ids, Opening, Frame, PlaceExternal
  <2>2. True(exch', Opening(i)) /\ Onward(exch, exch')
    BY <1>0, <2>1 DEF True, Opening, Onward, ExchangeType
  <2>3. messages' \in Seq(Seq(Frame)) /\ missed' \subseteq Ids /\ FramesInv'
    BY <1>0, <1>1, <1>3, <2>1, <2>2, Told DEF PlaceExternal
  <2> QED BY <1>0, <1>3, <2>1, <2>3 DEF PlaceExternal, ExchangeType
<1>4. ASSUME NEW i \in Ids, Execute(i) PROVE ExchangeType' /\ FramesInv'
  <2>1. Progress(i) \in Frame /\ UNCHANGED exch /\ exch[i] = "open"
    BY <1>4 DEF Progress, Frame, Execute, IsOpen
  <2>2. True(exch', Progress(i)) /\ Onward(exch, exch')
    BY <2>1 DEF True, Progress, Onward
  <2>3. messages' \in Seq(Seq(Frame)) /\ missed' \subseteq Ids /\ FramesInv'
    BY <1>0, <1>1, <1>4, <2>1, <2>2, Told DEF Execute
  <2> QED BY <1>0, <1>4, <2>1, <2>3 DEF Execute, ExchangeType
<1>5. ASSUME NEW i \in Ids, NEW d \in BOOLEAN, CloseOrder(i, d) PROVE ExchangeType' /\ FramesInv'
  <2>1. Closing(i, d) \in Frame /\ exch' = [exch EXCEPT ![i] = "closed"]
    BY <1>5 DEF Closing, Frame, CloseOrder
  <2>2. True(exch', Closing(i, d)) /\ Onward(exch, exch')
    BY <1>0, <2>1 DEF True, Closing, Onward, ExchangeType
  <2>3. messages' \in Seq(Seq(Frame)) /\ missed' \subseteq Ids /\ FramesInv'
    BY <1>0, <1>1, <1>5, <2>1, <2>2, Told DEF CloseOrder
  <2> QED BY <1>0, <1>5, <2>1, <2>3 DEF CloseOrder, ExchangeType
<1>6. ASSUME ExchangeSubscribes PROVE ExchangeType' /\ FramesInv'
  <2> DEFINE S == {Opening(i) : i \in OpenIds}
             s == SetToSeq(S)
  <2>1. IsFiniteSet(S) /\ S \in SUBSET Frame
    BY OpeningsFinite
  <2>2. s \in Seq(S) /\ s \in Seq(Frame)
    BY <2>1, Enumerated
  <2>3. \A f \in S : True(exch, f)
    BY DEF True, Opening, OpenIds, IsOpen
  <2>4. AllTrue(exch, s)
    <3> HIDE DEF S, s
    <3> QED BY <2>2, <2>3 DEF AllTrue
  <2>5. messages' = <<s>> /\ UNCHANGED <<exch, reading>> /\ feed' = "on" /\ missed' \subseteq missed
    BY <1>1, <1>6 DEF ExchangeSubscribes
  <2> HIDE DEF s
  <2> QED BY <1>0, <2>2, <2>4, <2>5 DEF ExchangeType, FramesInv
<1>7. ExchangeType' /\ FramesInv'
  BY <1>3, <1>4, <1>5, <1>6 DEF Exchange
<1> QED BY <1>2, <1>7 DEF Inv, TypeOK, ExchangeType, ThreadType, RestType

(***************************************************************************)
(* The process                                                             *)
(***************************************************************************)

\* A step of a thread that sends nothing and reads no frame.
LEMMA FramesUntouched ==
    ASSUME FramesInv, UNCHANGED <<exch, reading, messages>>
    PROVE  FramesInv'
  BY DEF FramesInv

LEMMA InitInv == Init => Inv
<1> SUFFICES ASSUME Init PROVE Inv
  OBVIOUS
<1> USE KrakenAccountAssumption DEF Init
<1>1. ExchangeType /\ FramesInv
  BY DEF ExchangeType, FramesInv, AllTrue
<1>2. ThreadType
  BY DEF ThreadType
<1>4. RestType
  <2>1. /\ reading \in Seq(Frame) /\ attempt \in 0..1 /\ sent \in OwnIds \cup {NoOrder}
        /\ synced \in BOOLEAN /\ failures \in 0..MaxFailures
    <3>1. reading \in Seq(Frame)
      OBVIOUS
    <3>2. attempt \in 0..1
      OBVIOUS
    <3>3. sent \in OwnIds \cup {NoOrder}
      OBVIOUS
    <3>4. synced \in BOOLEAN
      OBVIOUS
    <3>5. failures \in 0..MaxFailures
      OBVIOUS
    <3> QED BY <3>1, <3>2, <3>3, <3>4, <3>5
  <2>2. openOrders \subseteq Ids /\ our \subseteq OwnIds /\ ext \subseteq Known
        /\ orphans \subseteq OwnIds
    OBVIOUS
  <2> QED BY <2>1, <2>2 DEF RestType
<1>3. MutexInv /\ SentInv
  BY DEF MutexInv, SentInv
<1> QED BY <1>1, <1>2, <1>3, <1>4, TypeParts DEF Inv

LEMMA CrashInv == ASSUME Inv, Crash PROVE Inv'
<1> USE KrakenAccountAssumption DEF Crash, Inv
<1>1. ExchangeType' /\ FramesInv'
  BY DEF TypeOK, ExchangeType, FramesInv, AllTrue
<1>2. ThreadType'
  BY DEF ThreadType
<1>3. MutexInv' /\ SentInv'
  BY DEF MutexInv, SentInv
<1>4. RestType'
  <2>1. failures' \in 0..MaxFailures
    BY DEF TypeOK
  <2>2. /\ reading' \in Seq(Frame) /\ attempt' \in 0..1 /\ sent' \in OwnIds \cup {NoOrder}
        /\ synced' \in BOOLEAN
    <3>1. reading' \in Seq(Frame)
      OBVIOUS
    <3>2. attempt' \in 0..1
      OBVIOUS
    <3>3. sent' \in OwnIds \cup {NoOrder}
      OBVIOUS
    <3>4. synced' \in BOOLEAN
      OBVIOUS
    <3> QED BY <3>1, <3>2, <3>3, <3>4
  <2>3. openOrders' \subseteq Ids /\ our' \subseteq OwnIds /\ ext' \subseteq Known
    OBVIOUS
  <2>4. orphans' \subseteq OwnIds
    OBVIOUS
  <2> QED BY <2>1, <2>2, <2>3, <2>4 DEF RestType
<1> QED BY <1>1, <1>2, <1>3, <1>4 DEF TypeOK, ExchangeType, ThreadType, RestType

\* LimitOrder and MarketOrder.
LEMMA SendOrderInv == ASSUME Inv, NEW t \in Senders, SendOrder(t) PROVE Inv'
<1> USE KrakenAccountAssumption DEF exchVars, threadVars, restVars, bookVars
<1>0. ExchangeType /\ ThreadType /\ RestType /\ MutexInv /\ SentInv /\ FramesInv /\ TypeOK
  BY TypeParts DEF Inv
<1>1. ASSUME NEW i \in OwnIds, SendAccepted(t, i) PROVE Inv'
  <2>1. i \in Ids /\ Opening(i) \in Frame /\ exch' = [exch EXCEPT ![i] = "open"] /\ exch[i] = "none"
    BY <1>1 DEF Ids, Opening, Frame, SendAccepted
  <2>2. True(exch', Opening(i)) /\ Onward(exch, exch')
    BY <1>0, <2>1 DEF True, Opening, Onward, ExchangeType
  <2>3. messages' \in Seq(Seq(Frame)) /\ missed' \subseteq Ids /\ FramesInv'
    BY <1>0, <1>1, <2>1, <2>2, Told DEF SendAccepted
  <2>4. ExchangeType'
    BY <1>0, <1>1, <2>1, <2>3 DEF SendAccepted, ExchangeType
  <2>5. ThreadType' /\ RestType' /\ MutexInv' /\ SentInv'
    BY <1>0, <1>1 DEF SendAccepted, ThreadType, RestType, MutexInv, SentInv
  <2> QED BY <2>3, <2>4, <2>5 DEF Inv, TypeOK, ExchangeType, ThreadType, RestType
<1>2. ASSUME SendBegin(t) \/ SendRefused(t) \/ SendReplyLost(t) \/ SendReplyGarbled(t)
             \/ SendStore(t) \/ SendFinish(t)
      PROVE  Inv'
  <2>1. UNCHANGED <<exchVars, reading, missed>>
    BY <1>2 DEF SendBegin, SendRefused, SendReplyLost, SendReplyGarbled, SendStore, SendFinish
  <2>2. ExchangeType' /\ FramesInv'
    BY <1>0, <2>1, FramesUntouched DEF ExchangeType
  <2>3. CASE SendBegin(t)
    <3>1. ThreadType' /\ RestType' /\ MutexInv' /\ SentInv'
      BY <1>0, <2>3 DEF SendBegin, ThreadType, RestType, MutexInv, SentInv
    <3> QED BY <2>2, <3>1 DEF Inv, TypeOK, ExchangeType, ThreadType, RestType
  <2>4. CASE SendRefused(t)
    <3>1. ThreadType' /\ RestType' /\ MutexInv' /\ SentInv'
      BY <1>0, <2>4 DEF SendRefused, ThreadType, RestType, MutexInv, SentInv
    <3> QED BY <2>2, <3>1 DEF Inv, TypeOK, ExchangeType, ThreadType, RestType
  <2>5. CASE SendReplyLost(t)
    <3>1. ThreadType' /\ RestType'
      BY <1>0, <2>5 DEF SendReplyLost, ThreadType, RestType, SentInv
    <3>2. MutexInv' /\ SentInv'
      BY <1>0, <2>5 DEF SendReplyLost, ThreadType, MutexInv, SentInv
    <3> QED BY <2>2, <3>1, <3>2 DEF Inv, TypeOK, ExchangeType, ThreadType, RestType
  <2>6. CASE SendReplyGarbled(t)
    <3>1. ThreadType' /\ RestType'
      BY <1>0, <2>6 DEF SendReplyGarbled, ThreadType, RestType, SentInv
    <3>2. MutexInv' /\ SentInv'
      BY <1>0, <2>6 DEF SendReplyGarbled, ThreadType, MutexInv, SentInv
    <3> QED BY <2>2, <3>1, <3>2 DEF Inv, TypeOK, ExchangeType, ThreadType, RestType
  <2>7. CASE SendStore(t)
    <3>1. ThreadType' /\ RestType' /\ MutexInv' /\ SentInv'
      BY <1>0, <2>7 DEF SendStore, ThreadType, RestType, MutexInv, SentInv
    <3> QED BY <2>2, <3>1 DEF Inv, TypeOK, ExchangeType, ThreadType, RestType
  <2>8. CASE SendFinish(t)
    <3>1. ThreadType' /\ RestType' /\ MutexInv' /\ SentInv'
      BY <1>0, <2>8 DEF SendFinish, ThreadType, RestType, MutexInv, SentInv
    <3> QED BY <2>2, <3>1 DEF Inv, TypeOK, ExchangeType, ThreadType, RestType
  <2> QED BY <1>2, <2>3, <2>4, <2>5, <2>6, <2>7, <2>8
<1> QED BY <1>1, <1>2 DEF SendOrder

\* RefreshAccountBalance.
LEMMA RefreshInv ==
    ASSUME Inv, NEW r \in Refreshers, RefreshAccountBalance(r) PROVE Inv'
<1> USE KrakenAccountAssumption DEF exchVars, threadVars, restVars, bookVars
<1>0. ExchangeType /\ ThreadType /\ RestType /\ MutexInv /\ SentInv /\ FramesInv /\ TypeOK
  BY TypeParts DEF Inv
<1>1. CASE RefreshFailed(r)
  BY <1>1, CrashInv DEF RefreshFailed
<1>2. CASE RefreshBegin(r) \/ RefreshFinish(r)
  <2>1. UNCHANGED <<exchVars, reading, missed>>
    BY <1>2 DEF RefreshBegin, RefreshFinish
  <2>2. ExchangeType' /\ FramesInv'
    BY <1>0, <2>1, FramesUntouched DEF ExchangeType
  <2>3. ThreadType' /\ RestType'
    BY <1>0, <1>2 DEF RefreshBegin, RefreshFinish, ThreadType, RestType
  <2>4. MutexInv' /\ SentInv'
    BY <1>0, <1>2 DEF RefreshBegin, RefreshFinish, ThreadType, MutexInv, SentInv
  <2> QED BY <2>2, <2>3, <2>4 DEF Inv, TypeOK, ExchangeType, ThreadType, RestType
<1> QED BY <1>1, <1>2 DEF RefreshAccountBalance

\* The connection: OnOpen and OnClose.
LEMMA ConnectionInv == ASSUME Inv, OnOpen \/ OnClose \/ OnCloseThrows PROVE Inv'
<1> USE KrakenAccountAssumption DEF exchVars, threadVars, restVars, bookVars
<1>0. ExchangeType /\ ThreadType /\ RestType /\ MutexInv /\ SentInv /\ FramesInv /\ TypeOK
  BY TypeParts DEF Inv
<1>1. CASE OnOpenThrows \/ OnCloseThrows
  BY <1>1, CrashInv DEF OnOpenThrows, OnCloseThrows
<1>2. ASSUME Connect \/ InitializeBegin \/ InitializeReply \/ InitializeFinish
             \/ SubscribeOpenOrders
      PROVE  Inv'
  <2>1. UNCHANGED <<exch, messages, reading, missed>>
    BY <1>2 DEF Connect, InitializeBegin, InitializeReply, InitializeFinish,
                SubscribeOpenOrders
  <2>2. FramesInv' /\ ExchangeType'
    <3>1. feed' \in {"none", "asked", "on"}
      BY <1>0, <1>2 DEF Connect, InitializeBegin, InitializeReply, InitializeFinish,
                        SubscribeOpenOrders, ExchangeType
    <3> QED BY <1>0, <2>1, <3>1, FramesUntouched DEF ExchangeType
  <2>3. ThreadType'
    BY <1>0, <1>2 DEF Connect, InitializeBegin, InitializeReply, InitializeFinish,
                      SubscribeOpenOrders, ThreadType
  <2>4. RestType'
    BY <1>0, <1>2 DEF Connect, InitializeBegin, InitializeReply, InitializeFinish,
                      SubscribeOpenOrders, RestType, OpenIds
  <2>5. MutexInv' /\ SentInv'
    BY <1>0, <1>2 DEF Connect, InitializeBegin, InitializeReply, InitializeFinish,
                      SubscribeOpenOrders, ThreadType, MutexInv, SentInv
  <2> QED BY <2>2, <2>3, <2>4, <2>5 DEF Inv, TypeOK, ExchangeType, ThreadType, RestType
<1>3. CASE OnClose
  <2>1. \A m \in Range(messages) : NewsOf(m) \subseteq Ids
    BY <1>0, NewsType DEF Range, ExchangeType
  <2>2. ExchangeType'
    BY <1>0, <1>3, <2>1 DEF OnClose, ExchangeType
  <2>3. FramesInv'
    BY <1>0, <1>3 DEF OnClose, FramesInv, AllTrue
  <2>4. ThreadType' /\ RestType' /\ MutexInv' /\ SentInv'
    BY <1>0, <1>3 DEF OnClose, ThreadType, RestType, MutexInv, SentInv
  <2> QED BY <2>2, <2>3, <2>4 DEF Inv, TypeOK, ExchangeType, ThreadType, RestType
<1> QED BY <1>1, <1>2, <1>3 DEF OnOpen

\* OnMessage: a frame that registers an order is described, so its pair is the one
\* the frame names.
LEMMA OnMessageInv == ASSUME Inv, OnMessage PROVE Inv'
<1> USE KrakenAccountAssumption DEF exchVars, threadVars, restVars, bookVars
<1>0. ExchangeType /\ ThreadType /\ RestType /\ MutexInv /\ SentInv /\ FramesInv /\ TypeOK
  BY TypeParts DEF Inv
<1>1. UNCHANGED <<exch, feed, threadVars, restVars, synced, orphans, failures>>
  BY DEF OnMessage, ReadMessage, LeaveMessage, DropOrder, HandleOrder
<1>2. ThreadType' /\ MutexInv' /\ SentInv'
  BY <1>0, <1>1 DEF ThreadType, MutexInv, SentInv
<1>3. CASE ReadMessage
  <2>1. /\ reading' = messages[1] /\ messages' = Tail(messages) /\ Len(messages) > 0
        /\ UNCHANGED <<our, ext, missed>>
    BY <1>0, <1>3 DEF ReadMessage, ExchangeType
  <2>2. ExchangeType' /\ RestType'
    BY <1>0, <1>1, <2>1 DEF ExchangeType, RestType
  <2>3. \A m \in 1..Len(messages') : messages'[m] = messages[m + 1] /\ m + 1 \in 1..Len(messages)
    BY <1>0, <2>1 DEF ExchangeType
  <2>4. FramesInv'
    BY <1>0, <1>1, <2>1, <2>3 DEF FramesInv
  <2> QED BY <1>2, <2>2, <2>4 DEF Inv, TypeOK, ExchangeType, ThreadType, RestType
<1>4. ASSUME LeaveMessage \/ DropOrder \/ HandleOrder PROVE Inv'
  <2> DEFINE f == Head(reading)
  <2>1. reading # <<>> /\ f \in Frame /\ f = reading[1] /\ True(exch, f)
    BY <1>0, <1>4 DEF LeaveMessage, DropOrder, HandleOrder, RestType, FramesInv, AllTrue
  <2>2. reading' \in {<<>>, Tail(reading)} /\ UNCHANGED messages
    BY <1>4 DEF LeaveMessage, DropOrder, HandleOrder
  <2>3. reading' \in Seq(Frame) /\ AllTrue(exch, reading')
    <3>1. reading \in Seq(Frame) /\ \A k \in 1..Len(reading) : True(exch, reading[k])
      BY <1>0 DEF RestType, FramesInv, AllTrue
    <3>2. /\ Tail(reading) \in Seq(Frame) /\ Len(Tail(reading)) = Len(reading) - 1
          /\ \A k \in 1..Len(Tail(reading)) : Tail(reading)[k] = reading[k + 1] /\ k + 1 \in 1..Len(reading)
      BY <2>1, <3>1
    <3>3. CASE reading' = <<>>
      BY <3>3 DEF AllTrue
    <3>4. CASE reading' = Tail(reading)
      <4>1. AllTrue(exch, Tail(reading))
        BY <3>1, <3>2 DEF AllTrue
      <4> QED BY <3>2, <3>4, <4>1
    <3> QED BY <2>2, <3>3, <3>4
  <2>4. FramesInv'
    BY <1>0, <1>1, <2>2, <2>3 DEF FramesInv
  <2>5. f.id \in Ids /\ f.described \in BOOLEAN
    BY <2>1 DEF Frame
  <2>6. missed' \subseteq Ids
    <3>1. NewsOf(reading) \subseteq Ids
      BY <1>0, NewsType DEF RestType
    <3> QED BY <1>0, <1>4, <2>5, <3>1 DEF LeaveMessage, DropOrder, HandleOrder, ExchangeType
  <2>7. our' \subseteq OwnIds
    BY <1>0, <1>4 DEF LeaveMessage, DropOrder, HandleOrder, RestType
  <2>8. ext' \subseteq Known
    <3>1. CASE UNCHANGED ext
      BY <1>0, <3>1 DEF RestType
    <3>2. CASE HandleOrder /\ ext' = HandleExternalOrder(f)
      <4>1. ~IsClosing(f) => f.id \in Known
        BY <2>1, <3>2 DEF HandleOrder, IsClosing, HasPair, True, Frame
      <4> QED BY <1>0, <3>2, <4>1 DEF HandleExternalOrder, RestType
    <3> QED BY <1>4, <3>1, <3>2 DEF LeaveMessage, DropOrder, HandleOrder
  <2>9. ExchangeType' /\ RestType'
    BY <1>0, <1>1, <2>2, <2>3, <2>6, <2>7, <2>8 DEF ExchangeType, RestType
  <2> QED BY <1>2, <2>4, <2>9 DEF Inv, TypeOK, ExchangeType, ThreadType, RestType
<1> QED BY <1>3, <1>4 DEF OnMessage

\* Every step preserves the invariant.
LEMMA StepInv == Inv /\ [Next]_vars => Inv'
<1> SUFFICES ASSUME Inv, [Next]_vars PROVE Inv'
  OBVIOUS
<1>1. CASE UNCHANGED vars
  BY <1>1 DEF vars, exchVars, threadVars, restVars, bookVars, Inv, TypeOK, MutexInv, SentInv,
              FramesInv
<1> QED BY <1>1, ExchangeInv, SendOrderInv, RefreshInv, ConnectionInv, OnMessageInv DEF Next

LEMMA Invariance == Spec => []Inv
  BY InitInv, StepInv, PTL DEF Spec

\* Every reachable state is well typed, the registers included: no order of an
\* unknown pair is ever registered.
THEOREM TypeCorrect == Spec => []TypeOK
<1>1. Inv => TypeOK
  BY DEF Inv
<1> QED BY <1>1, Invariance, PTL

(***************************************************************************)
(* The steps of the contract, in terms of what the account keeps           *)
(***************************************************************************)

\* A request begins.
LEMMA MapRequest ==
    ASSUME ~Sending, Sending', synced' = FALSE,
           UNCHANGED <<Accepted, Live, Unanswered, our, orphans>>
    PROVE  Contract!Request(Account)
  BY DEF Contract!Request, OfAccount

\* The exchange accepts an order of ours.
LEMMA MapAccept ==
    ASSUME NEW i \in OwnIds \ Accepted, Sending,
           Accepted' = Accepted \cup {i}, Live' = Live \cup {i},
           Unanswered' = Unanswered \cup {i},
           UNCHANGED <<our, orphans, Sending, synced>>
    PROVE  Contract!Accept(Account, i)
  BY DEF Contract!Accept, OfAccount

\* An order is stored in m_our_orders.
LEMMA MapRegister ==
    ASSUME NEW i \in Unanswered,
           Unanswered' = Unanswered \ {i}, our' = our \cup {i},
           UNCHANGED <<Accepted, Live, orphans, Sending, synced>>
    PROVE  Contract!Register(Account, i)
  BY DEF Contract!Register, OfAccount

\* A reply is lost.
LEMMA MapLose ==
    ASSUME Unanswered' = {}, orphans' = orphans \cup Unanswered,
           UNCHANGED <<Accepted, Live, our, Sending, synced>>
    PROVE  Contract!Lose(Account)
  BY DEF Contract!Lose, OfAccount

\* A request returns.
LEMMA MapReturn ==
    ASSUME Sending, Sending' = FALSE, Unanswered = {}, synced' = TRUE,
           UNCHANGED <<Accepted, Live, Unanswered, our, orphans>>
    PROVE  Contract!Return(Account)
  BY DEF Contract!Return, OfAccount

\* A request throws.
LEMMA MapThrow ==
    ASSUME Sending, Sending' = FALSE, Unanswered' = {}, orphans' = orphans \cup Unanswered,
           UNCHANGED <<Accepted, Live, our, synced>>
    PROVE  Contract!Throw(Account)
  BY DEF Contract!Throw, OfAccount

\* A refresh ends.
LEMMA MapRefresh ==
    ASSUME ~Sending, synced' = TRUE,
           UNCHANGED <<Accepted, Live, Unanswered, our, orphans, Sending>>
    PROVE  Contract!Refresh(Account)
  BY DEF Contract!Refresh, OfAccount

\* The exchange closes an order of ours.
LEMMA MapClose ==
    ASSUME NEW i \in Live, Live' = Live \ {i},
           UNCHANGED <<Accepted, Unanswered, our, orphans, Sending, synced>>
    PROVE  Contract!Close(Account, i)
  BY DEF Contract!Close, OfAccount

\* An order is erased from m_our_orders.
LEMMA MapForget ==
    ASSUME NEW i \in our \ Live, ~Sending, our' = our \ {i},
           UNCHANGED <<Accepted, Live, Unanswered, orphans, Sending, synced>>
    PROVE  Contract!Forget(Account, i)
  BY DEF Contract!Forget, OfAccount

\* The process ends and starts again.
LEMMA MapRestart ==
    ASSUME Unanswered' = {}, our' = {}, orphans' = Accepted, Sending' = FALSE,
           synced' = FALSE, UNCHANGED <<Accepted, Live>>
    PROVE  Contract!Restart(Account)
  BY DEF Contract!Restart, OfAccount

\* A step the contract does not see.
LEMMA MapStutter ==
    ASSUME UNCHANGED <<Accepted, Live, Unanswered, our, orphans, Sending, synced>>
    PROVE  UNCHANGED Contract!contractVars
  BY DEF Contract!contractVars, OfAccount

\* A step of the contract is a step of its next-state relation.
LEMMA MapNext ==
    ASSUME \/ Contract!Request(Account) \/ Contract!Lose(Account)
           \/ Contract!Return(Account) \/ Contract!Throw(Account)
           \/ Contract!Refresh(Account) \/ Contract!Restart(Account)
           \/ \E i \in OwnIds : \/ Contract!Accept(Account, i) \/ Contract!Register(Account, i)
                                \/ Contract!Close(Account, i) \/ Contract!Forget(Account, i)
           \/ UNCHANGED Contract!contractVars
    PROVE  [Contract!ContractNext]_(Contract!contractVars)
  BY DEF Contract!ContractNext

(***************************************************************************)
(* The steps of the account                                                *)
(***************************************************************************)

Mapped == [Contract!ContractNext]_(Contract!contractVars)

\* The contract sees an own order close; what becomes of the orders of somebody else
\* it does not see.
LEMMA MappedExchange == ASSUME Inv, Exchange PROVE Mapped
<1> USE KrakenAccountAssumption
<1>1. UNCHANGED <<Unanswered, our, orphans, Sending, synced>>
  BY DEF Exchange, PlaceExternal, Execute, CloseOrder, ExchangeSubscribes, ProcessUnchanged,
         threadVars, restVars, bookVars, Unanswered, Sending
<1>2. exch \in [Ids -> {"none", "open", "closed"}]
  BY DEF Inv, TypeOK
<1>3. CASE UNCHANGED exch
  <2>1. UNCHANGED <<Accepted, Live>>
    BY <1>3 DEF Accepted, Live, IsOpen
  <2> QED BY <1>1, <2>1, MapStutter, MapNext DEF Mapped
<1>4. ASSUME NEW i \in ExtIds, PlaceExternal(i) PROVE Mapped
  <2>1. UNCHANGED <<Accepted, Live>>
    BY <1>2, <1>4 DEF PlaceExternal, Accepted, Live, IsOpen, Ids
  <2> QED BY <1>1, <2>1, MapStutter, MapNext DEF Mapped
<1>5. ASSUME NEW i \in Ids, exch[i] = "open", exch' = [exch EXCEPT ![i] = "closed"] PROVE Mapped
  <2>1. Accepted' = Accepted
    BY <1>2, <1>5 DEF Accepted, Ids
  <2>2. CASE i \in OwnIds
    <3>1. i \in Live /\ Live' = Live \ {i}
      BY <1>2, <1>5, <2>2 DEF Live, IsOpen, Ids
    <3> QED BY <1>1, <2>1, <2>2, <3>1, MapClose, MapNext DEF Mapped
  <2>3. CASE i \notin OwnIds
    <3>1. Live' = Live
      BY <1>2, <1>5, <2>3 DEF Live, IsOpen, Ids
    <3> QED BY <1>1, <2>1, <3>1, MapStutter, MapNext DEF Mapped
  <2> QED BY <2>2, <2>3
<1> QED BY <1>3, <1>4, <1>5 DEF Exchange, Execute, CloseOrder, ExchangeSubscribes, IsOpen

\* The process ends: the orders accepted so far are those whose replies are lost.
LEMMA MappedCrash == ASSUME Inv, Crash PROVE Mapped
<1>1. UNCHANGED <<Accepted, Live>>
  BY DEF Crash, Accepted, Live, IsOpen
<1>2. Unanswered' = {} /\ Sending' = FALSE
  BY KrakenAccountAssumption DEF Crash, Unanswered, Sending
<1>3. orphans' = Accepted /\ synced' = FALSE /\ our' = {}
  BY DEF Crash, Accepted
<1> QED BY <1>1, <1>2, <1>3, MapRestart, MapNext DEF Mapped

\* LimitOrder: the request is the contract's, step by step.
LEMMA MappedSend == ASSUME Inv, NEW t \in Senders, SendOrder(t) PROVE Mapped
<1> USE KrakenAccountAssumption DEF exchVars, threadVars, restVars, bookVars
<1>0. /\ sender \in [Senders -> {"idle", "request", "reply", "finish", "failed"}]
      /\ exch \in [Ids -> {"none", "open", "closed"}]
      /\ OwnIds \subseteq Ids
      /\ \A u \in Senders : sender[u] # "idle" => u = mutex
      /\ sender[t] = "reply" => sent \in OwnIds
  BY DEF Inv, TypeOK, MutexInv, SentInv, Ids
<1>1. CASE SendBegin(t)
  <2>1. ~Sending /\ Sending' /\ synced' = FALSE
    BY <1>1 DEF SendBegin, Sending
  <2>2. UNCHANGED <<Accepted, Live, Unanswered, our, orphans>>
    BY <1>0, <1>1 DEF SendBegin, Accepted, Live, IsOpen, Unanswered
  <2> QED BY <2>1, <2>2, MapRequest, MapNext DEF Mapped
<1>2. ASSUME NEW i \in OwnIds, SendAccepted(t, i) PROVE Mapped
  <2>1. /\ sender[t] = "request" /\ sender' = [sender EXCEPT ![t] = "reply"]
        /\ exch[i] = "none" /\ exch' = [exch EXCEPT ![i] = "open"] /\ sent' = i
        /\ UNCHANGED <<our, orphans, mutex, synced>>
    BY <1>2 DEF SendAccepted
  <2>2. Sending /\ t = mutex
    BY <1>0, <2>1 DEF Sending
  <2>3. Unanswered = {} /\ Unanswered' = {i}
    BY <1>0, <2>1, <2>2 DEF Unanswered
  <2>4. i \notin Accepted /\ Accepted' = Accepted \cup {i} /\ Live' = Live \cup {i}
    BY <1>0, <2>1 DEF Accepted, Live, IsOpen
  <2>5. UNCHANGED Sending
    BY <2>1 DEF Sending
  <2> QED BY <2>1, <2>2, <2>3, <2>4, <2>5, MapAccept, MapNext DEF Mapped
<1>3. CASE SendRefused(t)
  <2>1. UNCHANGED <<Accepted, Live, Unanswered, our, orphans, Sending, synced>>
    BY <1>0, <1>3 DEF SendRefused, Accepted, Live, IsOpen, Unanswered, Sending
  <2> QED BY <2>1, MapStutter, MapNext DEF Mapped
<1>4. CASE SendReplyLost(t)
  <2>1. Unanswered = {sent} /\ Unanswered' = {} /\ orphans' = orphans \cup {sent}
    BY <1>0, <1>4 DEF SendReplyLost, Unanswered
  <2>2. UNCHANGED <<Accepted, Live, our, Sending, synced>>
    BY <1>4 DEF SendReplyLost, Accepted, Live, IsOpen, Sending
  <2> QED BY <2>1, <2>2, MapLose, MapNext DEF Mapped
<1>5. CASE SendReplyGarbled(t)
  <2>1. Sending /\ Sending' = FALSE
    BY <1>0, <1>5 DEF SendReplyGarbled, Sending
  <2>2. /\ Unanswered = IF sender[t] = "reply" THEN {sent} ELSE {}
        /\ Unanswered' = {}
    BY <1>0, <1>5 DEF SendReplyGarbled, Unanswered
  <2>3. orphans' = orphans \cup Unanswered
    BY <1>5, <2>2 DEF SendReplyGarbled
  <2>4. UNCHANGED <<Accepted, Live, our, synced>>
    BY <1>5 DEF SendReplyGarbled, Accepted, Live, IsOpen
  <2> QED BY <2>1, <2>2, <2>3, <2>4, MapThrow, MapNext DEF Mapped
<1>6. CASE SendStore(t)
  <2>1. sent \in Unanswered /\ Unanswered' = Unanswered \ {sent} /\ our' = our \cup {sent}
    BY <1>0, <1>6 DEF SendStore, Unanswered
  <2>2. UNCHANGED <<Accepted, Live, orphans, Sending, synced>>
    BY <1>6 DEF SendStore, Accepted, Live, IsOpen, Sending
  <2>3. sent \in OwnIds
    BY <2>1 DEF Unanswered
  <2> QED BY <2>1, <2>2, <2>3, MapRegister, MapNext DEF Mapped
<1>7. CASE SendFinish(t)
  <2>1. Sending /\ Sending' = FALSE /\ synced' = TRUE
    BY <1>0, <1>7 DEF SendFinish, Sending
  <2>2. Unanswered = {} /\ Unanswered' = {}
    BY <1>0, <1>7 DEF SendFinish, Unanswered
  <2>3. UNCHANGED <<Accepted, Live, our, orphans>>
    BY <1>7 DEF SendFinish, Accepted, Live, IsOpen
  <2> QED BY <2>1, <2>2, <2>3, MapReturn, MapNext DEF Mapped
<1> QED BY <1>1, <1>2, <1>3, <1>4, <1>5, <1>6, <1>7 DEF SendOrder

\* RefreshAccountBalance: the contract sees its end, or the crash of a failure.
LEMMA MappedRefresh ==
    ASSUME Inv, NEW r \in Refreshers, RefreshAccountBalance(r) PROVE Mapped
<1> USE KrakenAccountAssumption DEF exchVars, threadVars, restVars, bookVars
<1>1. CASE RefreshFailed(r)
  BY <1>1, MappedCrash DEF RefreshFailed
<1>2. CASE RefreshBegin(r) \/ RefreshFinish(r)
  <2>1. UNCHANGED <<Accepted, Live, Unanswered, our, orphans>>
    BY <1>2 DEF RefreshBegin, RefreshFinish, Accepted, Live, IsOpen, Unanswered
  <2>2. mutex \in {r, NoThread} /\ mutex' \in {r, NoThread}
    BY <1>2 DEF RefreshBegin, RefreshFinish, Inv, MutexInv
  <2>3. Sending = FALSE /\ Sending' = FALSE
    BY <2>2 DEF Sending
  <2>4. CASE RefreshBegin(r)
    <3>1. synced' = synced
      BY <2>4 DEF RefreshBegin
    <3> QED BY <2>1, <2>3, <3>1, MapStutter, MapNext DEF Mapped
  <2>5. CASE RefreshFinish(r)
    <3>1. synced' = TRUE
      BY <2>5 DEF RefreshFinish
    <3> QED BY <2>1, <2>3, <3>1, MapRefresh, MapNext DEF Mapped
  <2> QED BY <1>2, <2>4, <2>5
<1> QED BY <1>1, <1>2 DEF RefreshAccountBalance

\* Connections: nothing the contract sees, but the crash of a thread that throws.
LEMMA MappedConnection == ASSUME Inv, OnOpen \/ OnClose \/ OnCloseThrows PROVE Mapped
<1> USE KrakenAccountAssumption DEF exchVars, threadVars, restVars, bookVars
<1>1. CASE OnOpenThrows \/ OnCloseThrows
  BY <1>1, MappedCrash DEF OnOpenThrows, OnCloseThrows
<1>2. CASE ~(OnOpenThrows \/ OnCloseThrows)
  <2>1. /\ UNCHANGED <<exch, sender, sent, our, orphans, synced>>
        /\ mutex' = mutex \/ {mutex, mutex'} \subseteq {Stream, NoThread}
    BY <1>2 DEF OnOpen, Connect, InitializeBegin, InitializeReply, InitializeFinish,
                SubscribeOpenOrders, OnClose, Inv, MutexInv
  <2>2. UNCHANGED <<Accepted, Live, Unanswered>>
    BY <2>1 DEF Accepted, Live, IsOpen, Unanswered
  <2>3. Sending' = Sending
    BY <2>1 DEF Sending
  <2> QED BY <2>1, <2>2, <2>3, MapStutter, MapNext DEF Mapped
<1> QED BY <1>1, <1>2

\* Frames: an order erased from m_our_orders is closed at the exchange, and nobody is
\* inside a request.
LEMMA MappedMessage == ASSUME Inv, OnMessage PROVE Mapped
<1> USE KrakenAccountAssumption DEF exchVars, threadVars, restVars, bookVars
<1>1. UNCHANGED <<exch, sender, mutex, sent, orphans, synced>>
  BY DEF OnMessage, ReadMessage, LeaveMessage, DropOrder, HandleOrder
<1>2. UNCHANGED <<Accepted, Live, Unanswered, Sending>>
  BY <1>1 DEF Accepted, Live, IsOpen, Unanswered, Sending
<1>3. CASE UNCHANGED our
  BY <1>1, <1>2, <1>3, MapStutter, MapNext DEF Mapped
<1>4. CASE HandleOrder /\ our' # our
  <2> DEFINE f == Head(reading)
  <2>1. f.id \in our /\ IsClosing(f) /\ our' = our \ {f.id} /\ mutex = NoThread
    BY <1>4 DEF HandleOrder, HandlerEnters
  <2>2. True(exch, f)
    <3>1. reading # <<>> /\ reading \in Seq(Frame) /\ AllTrue(exch, reading)
      BY <1>4 DEF HandleOrder, Inv, TypeOK, FramesInv
    <3> QED BY <3>1 DEF AllTrue
  <2>3. f.id \in our \ Live /\ ~Sending
    BY <2>1, <2>2 DEF True, IsClosing, Live, IsOpen, Sending
  <2>4. f.id \in OwnIds
    BY <2>1 DEF Inv, TypeOK
  <2> HIDE DEF f
  <2> QED BY <1>1, <1>2, <2>1, <2>3, <2>4, MapForget, MapNext DEF Mapped
<1> QED BY <1>3, <1>4 DEF OnMessage, ReadMessage, LeaveMessage, DropOrder

\* The account starts as the contract does.
LEMMA MappedInit == Init => Contract!ContractInit
<1> SUFFICES ASSUME Init PROVE Contract!ContractInit
  OBVIOUS
<1>1. /\ Accepted = {} /\ Live = {} /\ our = {} /\ Unanswered = {}
      /\ orphans = {} /\ synced = FALSE
  BY KrakenAccountAssumption DEF Init, Accepted, Live, IsOpen, Unanswered, Ids
<1>2. Sending = FALSE
  BY KrakenAccountAssumption DEF Init, Sending
<1> QED BY <1>1, <1>2 DEF Contract!ContractInit, OfAccount

\* Every step of the account is one of the contract or leaves what the contract sees
\* alone.
LEMMA MappedStep == Inv /\ [Next]_vars => Mapped
<1> SUFFICES ASSUME Inv, [Next]_vars PROVE Mapped
  OBVIOUS
<1>1. CASE UNCHANGED vars
  <2>1. UNCHANGED <<Accepted, Live, Unanswered, our, orphans, Sending, synced>>
    BY <1>1 DEF vars, exchVars, threadVars, restVars, bookVars, Accepted, Live, IsOpen,
                Unanswered, Sending
  <2> QED BY <2>1, MapStutter, MapNext DEF Mapped
<1> QED BY <1>1, MappedExchange, MappedSend, MappedRefresh, MappedConnection, MappedMessage
    DEF Next

\* Whatever the frames leave out, and whatever is lost or thrown, the Kraken account
\* keeps the contract the arbitrage strategy relies on.
THEOREM ContractImplemented == Spec => ImplementsContract
<1>1. Spec => Contract!ContractInit /\ [][Contract!ContractNext]_(Contract!contractVars)
  BY MappedInit, MappedStep, Invariance, PTL DEF Spec, Mapped
<1> QED BY <1>1 DEF ImplementsContract, Contract!ContractSpec

(***************************************************************************)
(* What is waiting, and what the registers show without it                 *)
(***************************************************************************)

\* The frames sent and not handled.
Waiting ==
    {f \in Frame : \/ \E k \in 1..Len(reading) : reading[k] = f
                   \/ \E m \in 1..Len(messages) :
                         \E k \in 1..Len(messages[m]) : messages[m][k] = f}

\* The orders a waiting frame opens, and those one closes.
Opens == {i \in Ids : \E f \in Waiting : f.id = i /\ f.status = "open"}
Closes == {i \in Ids : \E f \in Waiting : f.id = i /\ f.status = "closed"}

\* No frame opens an order behind one that has closed it.
May(f, g) == ~(f.status = "closed" /\ g.status = "open" /\ f.id = g.id)
InOrder(s) == \A k, l \in 1..Len(s) : k < l => May(s[k], s[l])
Ordered(s, t) == \A k \in 1..Len(s), l \in 1..Len(t) : May(s[k], t[l])

QueueInv ==
    /\ InOrder(reading)
    /\ \A m \in 1..Len(messages) : InOrder(messages[m]) /\ Ordered(reading, messages[m])
    /\ \A m, n \in 1..Len(messages) : m < n => Ordered(messages[m], messages[n])

\* Frames come with a subscription, which a connection has once it is initialised.
FeedInv ==
    /\ feed # "none" => stream = "open"
    /\ feed # "on" => messages = <<>> /\ reading = <<>>
    /\ openOrders # {} => stream = "reply"

\* Before its first refresh a process has sent nothing.
StartInv ==
    /\ (\A r \in Refreshers : refresher[r] = "off") => our = {} /\ mutex \notin Senders
    /\ stream \in {"request", "reply"} /\ ~Reconnected => our = {}

\* An order that is registered, or in a reply, was placed.
PlacedInv == \A i \in our \cup ext \cup openOrders \cup Unanswered : exch[i] # "none"

\* Only a second Initialize takes an own order for an external one.
OwnInv == ~Reconnected => (our \cup Unanswered) \cap ext = {}

\* An open order is registered or about to be.
OpenInv ==
    feed = "on" => \A i \in Known \ missed : IsOpen(i) => i \in our \cup ext \cup Opens

\* The orders that are registered, or about to be.
Concerned ==
    our \cup Unanswered \cup openOrders \cup Opens
        \cup {i \in ext : ~(i \in OwnIds /\ Reconnected)}

\* Each of them that is closed has its closing frame waiting.
ClosingInv == \A i \in Known \ missed : exch[i] = "closed" /\ i \in Concerned => i \in Closes

AgreeInv ==
    /\ Inv /\ QueueInv /\ FeedInv /\ StartInv
    /\ PlacedInv /\ OwnInv /\ OpenInv /\ ClosingInv

(***************************************************************************)
(* The frames waiting                                                      *)
(***************************************************************************)

\* A frame that is sent is the last one; without a subscription its news is missed.
LEMMA WaitingTold ==
    ASSUME TypeOK, NEW frame \in Frame, Tell(frame), UNCHANGED reading
    PROVE  /\ feed = "on" => Waiting' = Waiting \cup {frame} /\ UNCHANGED missed
           /\ feed # "on" => Waiting' = Waiting /\ missed' = missed \cup NewsOf(<<frame>>)
<1>1. messages \in Seq(Seq(Frame)) /\ reading \in Seq(Frame)
  BY DEF TypeOK
<1>2. CASE feed = "on" /\ messages' = Append(messages, <<frame>>)
  <2>1. /\ Len(messages') = Len(messages) + 1 /\ messages'[Len(messages) + 1] = <<frame>>
        /\ \A m \in 1..Len(messages) : messages'[m] = messages[m]
    BY <1>1, <1>2
  <2>2. Len(messages) \in Nat /\ Len(<<frame>>) = 1 /\ <<frame>>[1] = frame
    BY <1>1
  <2>3. Waiting \cup {frame} \subseteq Waiting'
    <3>1. Len(messages) + 1 \in 1..Len(messages') /\ 1 \in 1..Len(<<frame>>)
      BY <2>1, <2>2
    <3>2. \E m \in 1..Len(messages') : \E k \in 1..Len(messages'[m]) : messages'[m][k] = frame
      BY <2>1, <2>2, <3>1
    <3>3. \A m \in 1..Len(messages) : m \in 1..Len(messages') /\ messages'[m] = messages[m]
      BY <2>1, <2>2
    <3> QED BY <3>2, <3>3 DEF Waiting
  <2>4. Waiting' \subseteq Waiting \cup {frame}
    BY <2>1, <2>2 DEF Waiting
  <2> QED BY <1>2, <2>3, <2>4 DEF Tell
<1>3. CASE /\ feed = "on" /\ messages # <<>>
           /\ messages' = [messages EXCEPT ![Len(messages)] = Append(@, frame)]
  <2> DEFINE n == Len(messages)
             s == messages[n]
  <2>1. n \in 1..Len(messages) /\ s \in Seq(Frame)
    BY <1>1, <1>3
  <2>2. /\ Len(messages') = n /\ messages'[n] = Append(s, frame)
        /\ \A m \in 1..n : m # n => messages'[m] = messages[m]
    BY <1>1, <1>3, <2>1
  <2>3. /\ Len(Append(s, frame)) = Len(s) + 1 /\ Len(s) \in Nat
        /\ Append(s, frame)[Len(s) + 1] = frame
        /\ \A k \in 1..Len(s) : Append(s, frame)[k] = s[k]
    BY <2>1
  <2>4. Waiting \cup {frame} \subseteq Waiting'
    <3>1. frame \in Waiting'
      BY <2>1, <2>2, <2>3 DEF Waiting
    <3>2. ASSUME NEW m \in 1..n, NEW k \in 1..Len(messages[m])
          PROVE  \E l \in 1..Len(messages'[m]) : messages'[m][l] = messages[m][k]
      <4>1. CASE m = n
        <5>1. k \in 1..Len(messages'[n]) /\ messages'[n][k] = messages[n][k]
          BY <2>2, <2>3, <4>1
        <5> QED BY <4>1, <5>1
      <4>2. CASE m # n
        BY <2>2, <4>2
      <4> QED BY <4>1, <4>2
    <3>3. \A m \in 1..n : m \in 1..Len(messages) /\ m \in 1..Len(messages')
      BY <2>2
    <3>4. ASSUME NEW f \in Waiting PROVE f \in Waiting'
      <4>1. CASE \E k \in 1..Len(reading) : reading[k] = f
        BY <4>1 DEF Waiting
      <4>2. ASSUME NEW m \in 1..n, NEW k \in 1..Len(messages[m]), messages[m][k] = f
            PROVE  f \in Waiting'
        <5>1. \E l \in 1..Len(messages'[m]) : messages'[m][l] = f
          BY <3>2, <4>2
        <5> QED BY <3>3, <5>1 DEF Waiting
      <4> QED BY <4>1, <4>2 DEF Waiting
    <3> QED BY <3>1, <3>4
  <2>5. Waiting' \subseteq Waiting \cup {frame}
    <3>1. ASSUME NEW m \in 1..n, NEW k \in 1..Len(messages'[m]), messages'[m][k] # frame
          PROVE  \E l \in 1..Len(messages[m]) : messages[m][l] = messages'[m][k]
      BY <2>2, <2>3, <3>1
    <3> QED BY <2>2, <3>1 DEF Waiting
  <2> QED BY <1>3, <2>4, <2>5 DEF Tell
<1>4. CASE feed # "on"
  BY <1>4 DEF Tell, Waiting
<1> QED BY <1>2, <1>3, <1>4 DEF Tell

\* What a frame that is sent opens and closes.
LEMMA NewsTold ==
    ASSUME TypeOK, NEW frame \in Frame, Tell(frame), UNCHANGED reading
    PROVE  /\ feed = "on" =>
                /\ Opens' = Opens \cup (IF frame.status = "open" THEN {frame.id} ELSE {})
                /\ Closes' = Closes \cup (IF frame.status = "closed" THEN {frame.id} ELSE {})
                /\ UNCHANGED missed
           /\ feed # "on" =>
                /\ UNCHANGED <<Opens, Closes>>
                /\ missed' = missed \cup (IF frame.status # "none" THEN {frame.id} ELSE {})
<1>1. frame.id \in Ids
  BY DEF Frame
<1>2. NewsOf(<<frame>>) = IF frame.status # "none" THEN {frame.id} ELSE {}
  BY DEF NewsOf, Range
<1> QED BY <1>1, <1>2, WaitingTold DEF Opens, Closes

\* A frame may be sent behind those that wait.
LEMMA QueueTold ==
    ASSUME TypeOK, FramesInv, QueueInv, NEW frame \in Frame, Tell(frame), UNCHANGED reading,
           frame.status = "open" => exch[frame.id] # "closed"
    PROVE  QueueInv'
<1>1. messages \in Seq(Seq(Frame)) /\ reading \in Seq(Frame)
  BY DEF TypeOK
<1>2. /\ \A k \in 1..Len(reading) : May(reading[k], frame)
      /\ \A m \in 1..Len(messages) : \A k \in 1..Len(messages[m]) : May(messages[m][k], frame)
  BY DEF FramesInv, AllTrue, True, May
<1>3. CASE messages' = Append(messages, <<frame>>)
  <2>1. /\ Len(messages') = Len(messages) + 1 /\ messages'[Len(messages) + 1] = <<frame>>
        /\ \A m \in 1..Len(messages) : messages'[m] = messages[m]
        /\ Len(messages) \in Nat
    BY <1>1, <1>3
  <2>2. InOrder(<<frame>>) /\ Ordered(reading, <<frame>>)
    BY <1>2 DEF InOrder, Ordered
  <2>3. \A m \in 1..Len(messages) : Ordered(messages[m], <<frame>>)
    BY <1>2 DEF Ordered
  <2>4. InOrder(reading')
    BY DEF QueueInv
  <2>5. \A m \in 1..Len(messages') : InOrder(messages'[m]) /\ Ordered(reading', messages'[m])
    BY <2>1, <2>2 DEF QueueInv
  <2>6. \A m, n \in 1..Len(messages') : m < n => Ordered(messages'[m], messages'[n])
    BY <2>1, <2>3 DEF QueueInv
  <2> QED BY <2>4, <2>5, <2>6 DEF QueueInv
<1>4. CASE /\ messages # <<>>
           /\ messages' = [messages EXCEPT ![Len(messages)] = Append(@, frame)]
  <2> DEFINE n == Len(messages)
             s == messages[n]
             t == Append(s, frame)
  <2>1. n \in 1..Len(messages) /\ s \in Seq(Frame)
    BY <1>1, <1>4
  <2>2. /\ Len(messages') = n /\ messages'[n] = t
        /\ \A m \in 1..n : m # n => messages'[m] = messages[m]
    BY <1>1, <1>4, <2>1
  <2>3. /\ Len(t) = Len(s) + 1 /\ Len(s) \in Nat /\ t[Len(s) + 1] = frame
        /\ \A k \in 1..Len(s) : t[k] = s[k]
    BY <2>1
  <2> HIDE DEF t
  <2>4. InOrder(t) /\ Ordered(reading, t)
    <3>1. /\ InOrder(s) /\ Ordered(reading, s)
          /\ \A k \in 1..Len(s) : May(s[k], frame)
          /\ \A k \in 1..Len(reading) : May(reading[k], frame)
      BY <1>2, <2>1 DEF QueueInv
    <3> HIDE DEF s
    <3>2. InOrder(t)
      BY <2>3, <3>1 DEF InOrder
    <3>3. Ordered(reading, t)
      BY <2>3, <3>1 DEF Ordered
    <3> QED BY <3>2, <3>3
  <2>5. ASSUME NEW m \in 1..n, m # n PROVE Ordered(messages[m], t)
    <3>1. Ordered(messages[m], s) /\ \A k \in 1..Len(messages[m]) : May(messages[m][k], frame)
      BY <1>2, <2>1, <2>5 DEF QueueInv
    <3> HIDE DEF s
    <3> QED BY <2>3, <3>1 DEF Ordered
  <2>6. InOrder(reading')
    BY DEF QueueInv
  <2>7. \A m \in 1..Len(messages') : InOrder(messages'[m]) /\ Ordered(reading', messages'[m])
    BY <2>2, <2>4 DEF QueueInv
  <2>8. \A m, l \in 1..Len(messages') : m < l => Ordered(messages'[m], messages'[l])
    BY <2>1, <2>2, <2>5 DEF QueueInv
  <2> QED BY <2>6, <2>7, <2>8 DEF QueueInv
<1>5. CASE UNCHANGED messages
  BY <1>5 DEF QueueInv
<1> QED BY <1>3, <1>4, <1>5 DEF Tell

\* A message is read: what waits is the same, in the same order.
LEMMA QueueRead ==
    ASSUME TypeOK, QueueInv, ReadMessage
    PROVE  QueueInv' /\ UNCHANGED <<Opens, Closes>>
<1>1. /\ messages \in Seq(Seq(Frame)) /\ reading = <<>> /\ reading' = messages[1]
      /\ messages' = Tail(messages) /\ Len(messages) > 0 /\ Len(messages) \in Nat
  BY DEF TypeOK, ReadMessage
<1>2. /\ Len(messages') = Len(messages) - 1
      /\ \A m \in 1..Len(messages') : messages'[m] = messages[m + 1] /\ m + 1 \in 1..Len(messages)
  BY <1>1
<1>3. QueueInv'
  <2>1. InOrder(reading')
    BY <1>1 DEF QueueInv
  <2>2. \A m \in 1..Len(messages') : InOrder(messages'[m]) /\ Ordered(reading', messages'[m])
    <3>1. \A m \in 1..Len(messages) : 1 < m => Ordered(messages[1], messages[m])
      BY <1>1 DEF QueueInv
    <3> QED BY <1>1, <1>2, <3>1 DEF QueueInv
  <2>3. \A m, n \in 1..Len(messages') : m < n => Ordered(messages'[m], messages'[n])
    BY <1>2 DEF QueueInv
  <2> QED BY <2>1, <2>2, <2>3 DEF QueueInv
<1>4. Waiting' = Waiting
  <2>1. ASSUME NEW m \in 1..Len(messages), m # 1
        PROVE  m - 1 \in 1..Len(messages') /\ messages'[m - 1] = messages[m]
    <3>1. m - 1 \in 1..Len(messages')
      BY <1>1, <1>2, <2>1
    <3> QED BY <1>2, <3>1
  <2>2. Waiting \subseteq Waiting'
    <3>1. ASSUME NEW f \in Frame, NEW m \in 1..Len(messages),
                 \E k \in 1..Len(messages[m]) : messages[m][k] = f
          PROVE  f \in Waiting'
      <4>1. CASE m = 1
        BY <1>1, <3>1, <4>1 DEF Waiting
      <4>2. CASE m # 1
        BY <2>1, <3>1, <4>2 DEF Waiting
      <4> QED BY <4>1, <4>2
    <3>2. ~\E k \in 1..Len(reading) : TRUE
      BY <1>1
    <3> QED BY <3>1, <3>2 DEF Waiting
  <2>3. Waiting' \subseteq Waiting
    <3>1. ASSUME NEW f \in Frame, \E k \in 1..Len(reading') : reading'[k] = f
          PROVE  f \in Waiting
      <4>1. 1 \in 1..Len(messages)
        BY <1>1
      <4> QED BY <1>1, <3>1, <4>1 DEF Waiting
    <3>2. ASSUME NEW f \in Frame, NEW m \in 1..Len(messages'),
                 \E k \in 1..Len(messages'[m]) : messages'[m][k] = f
          PROVE  f \in Waiting
      <4>1. m + 1 \in 1..Len(messages) /\ messages'[m] = messages[m + 1]
        BY <1>2, <3>2
      <4>2. \E k \in 1..Len(messages[m + 1]) : messages[m + 1][k] = f
        BY <3>2, <4>1
      <4> QED BY <4>1, <4>2 DEF Waiting
    <3> QED BY <3>1, <3>2 DEF Waiting
  <2> QED BY <2>2, <2>3
<1> QED BY <1>3, <1>4 DEF Opens, Closes

\* An order of the message is done with: when it was closed nothing opens it again.
LEMMA QueueTail ==
    ASSUME TypeOK, QueueInv, reading # <<>>, reading' = Tail(reading), UNCHANGED messages
    PROVE  /\ QueueInv'
           /\ Opens' \subseteq Opens /\ Closes' \subseteq Closes
           /\ Head(reading).status # "open" => Opens' = Opens
           /\ Head(reading).status # "closed" => Closes' = Closes
           /\ Opens \ {Head(reading).id} \subseteq Opens'
           /\ Closes \ {Head(reading).id} \subseteq Closes'
           /\ Head(reading).status = "open" => Head(reading).id \in Opens
           /\ Head(reading).status = "closed" => Head(reading).id \in Closes \ Opens'
<1> DEFINE f == Head(reading)
<1>1. /\ messages \in Seq(Seq(Frame)) /\ reading \in Seq(Frame) /\ Len(reading) \in Nat
      /\ f = reading[1] /\ 1 \in 1..Len(reading) /\ f \in Frame
  BY DEF TypeOK
<1>2. /\ Len(reading') = Len(reading) - 1
      /\ \A k \in 1..Len(reading') : reading'[k] = reading[k + 1] /\ k + 1 \in 1..Len(reading)
  BY <1>1
<1>3. QueueInv'
  <2>1. InOrder(reading')
    BY <1>2 DEF QueueInv, InOrder
  <2>2. \A m \in 1..Len(messages') : InOrder(messages'[m]) /\ Ordered(reading', messages'[m])
    BY <1>2 DEF QueueInv, Ordered
  <2> QED BY <2>1, <2>2 DEF QueueInv
<1>4. \A g \in Waiting' : g \in Waiting /\ May(f, g)
  <2>1. ASSUME NEW k \in 1..Len(reading') PROVE May(f, reading'[k])
    BY <1>1, <1>2 DEF QueueInv, InOrder
  <2>2. ASSUME NEW m \in 1..Len(messages), NEW k \in 1..Len(messages[m])
        PROVE  May(f, messages[m][k])
    BY <1>1 DEF QueueInv, Ordered
  <2>3. \A g \in Waiting' : g \in Waiting
    BY <1>2 DEF Waiting
  <2> HIDE DEF f
  <2> QED BY <2>1, <2>2, <2>3 DEF Waiting
<1>5. f \in Waiting
  BY <1>1 DEF Waiting
<1>6. ASSUME NEW g \in Waiting, g # f PROVE g \in Waiting'
  <2>1. ASSUME NEW k \in 1..Len(reading), reading[k] = g
        PROVE  k - 1 \in 1..Len(reading') /\ reading'[k - 1] = g
    <3>1. k - 1 \in 1..Len(reading')
      BY <1>1, <1>2, <1>6, <2>1
    <3> QED BY <1>2, <2>1, <3>1
  <2> QED BY <2>1 DEF Waiting
<1> HIDE DEF f
<1>7. Opens' \subseteq Opens /\ Closes' \subseteq Closes
  BY <1>4 DEF Opens, Closes
<1>8. /\ f.status # "open" => Opens \subseteq Opens'
      /\ f.status # "closed" => Closes \subseteq Closes'
  BY <1>6 DEF Opens, Closes
<1>9. Opens \ {f.id} \subseteq Opens' /\ Closes \ {f.id} \subseteq Closes'
  BY <1>6 DEF Opens, Closes
<1>10. f.id \in Ids
  BY <1>1 DEF Frame
<1>11. /\ f.status = "open" => f.id \in Opens
       /\ f.status = "closed" => f.id \in Closes
  BY <1>5, <1>10 DEF Opens, Closes
<1>12. f.status = "closed" => f.id \notin Opens'
  BY <1>4 DEF Opens, May
<1> QED BY <1>3, <1>7, <1>8, <1>9, <1>11, <1>12 DEF f

\* The news of a message that is left is missed.
LEMMA QueueLeft ==
    ASSUME TypeOK, QueueInv, reading' = <<>>, UNCHANGED messages
    PROVE  /\ QueueInv'
           /\ Opens' \subseteq Opens /\ Closes' \subseteq Closes
           /\ Opens \subseteq Opens' \cup NewsOf(reading)
           /\ Closes \subseteq Closes' \cup NewsOf(reading)
<1>1. QueueInv'
  BY DEF QueueInv, InOrder, Ordered
<1>2. Waiting' \subseteq Waiting
  BY DEF Waiting
<1>3. ASSUME NEW g \in Waiting, g.status # "none" PROVE g \in Waiting' \/ g.id \in NewsOf(reading)
  <2>1. CASE \E k \in 1..Len(reading) : reading[k] = g
    <3>1. g \in Range(reading)
      BY <2>1 DEF TypeOK, Range
    <3> QED BY <1>3, <3>1 DEF NewsOf
  <2>2. CASE ~\E k \in 1..Len(reading) : reading[k] = g
    BY <2>2 DEF Waiting
  <2> QED BY <2>1, <2>2
<1> QED BY <1>1, <1>2, <1>3 DEF Opens, Closes

\* The news of the messages lost with a connection is missed.
LEMMA QueueLost ==
    ASSUME TypeOK, messages' = <<>>, reading' = <<>>
    PROVE  /\ QueueInv' /\ Opens' = {} /\ Closes' = {}
           /\ reading = <<>> =>
                Opens \cup Closes \subseteq UNION {NewsOf(m) : m \in Range(messages)}
<1>1. QueueInv'
  BY DEF QueueInv, InOrder
<1>2. Waiting' = {}
  BY DEF Waiting
<1>3. ASSUME reading = <<>>, NEW g \in Waiting, g.status # "none"
      PROVE  g.id \in UNION {NewsOf(m) : m \in Range(messages)}
  <2>1. PICK m \in 1..Len(messages) : \E k \in 1..Len(messages[m]) : messages[m][k] = g
    BY <1>3 DEF Waiting
  <2>2. messages[m] \in Range(messages) /\ g \in Range(messages[m])
    BY <2>1 DEF TypeOK, Range
  <2>3. g.id \in NewsOf(messages[m])
    BY <1>3, <2>2 DEF NewsOf
  <2> QED BY <2>2, <2>3
<1>4. Opens' = {} /\ Closes' = {}
  BY <1>2 DEF Opens, Closes
<1>5. reading = <<>> => Opens \cup Closes \subseteq UNION {NewsOf(m) : m \in Range(messages)}
  BY <1>3 DEF Opens, Closes
<1> QED BY <1>1, <1>4, <1>5

\* The snapshot opens the orders that are open.
LEMMA QueueSnapshot ==
    ASSUME TypeOK, reading = <<>>, messages = <<>>, ExchangeSubscribes
    PROVE  QueueInv' /\ Opens' = OpenIds /\ Closes' = {} /\ Closes = {}
<1> DEFINE S == {Opening(i) : i \in OpenIds}
           s == SetToSeq(S)
<1>1. reading' = <<>> /\ messages' = <<s>>
  BY DEF ExchangeSubscribes
<1>2. IsFiniteSet(S) /\ S \in SUBSET Frame
  BY OpeningsFinite
<1>3. s \in Seq(S) /\ Range(s) = S
  BY <1>2, Enumerated
<1>4. \A f \in S : f \in Frame /\ f.status = "open" /\ f.id \in OpenIds
  BY <1>2 DEF Opening
<1>5. ASSUME NEW i \in OpenIds PROVE \E f \in S : f.id = i
  <2>1. Opening(i) \in S /\ Opening(i).id = i
    BY DEF Opening
  <2> QED BY <2>1
<1> HIDE DEF S, s
<1>6. Waiting' = S
  <2>1. \A f \in S : \E k \in 1..Len(s) : s[k] = f
    BY <1>3 DEF Range
  <2>2. Waiting' \subseteq S
    BY <1>1, <1>3 DEF Waiting
  <2>3. S \subseteq Waiting'
    BY <1>1, <1>4, <2>1 DEF Waiting
  <2> QED BY <2>2, <2>3
<1>7. QueueInv'
  <2>1. InOrder(s)
    BY <1>3, <1>4 DEF InOrder, May
  <2> QED BY <1>1, <2>1 DEF QueueInv, InOrder, Ordered
<1>8. Opens' = OpenIds /\ Closes' = {}
  BY <1>4, <1>5, <1>6 DEF Opens, Closes, OpenIds
<1>9. Closes = {}
  BY DEF Closes, Waiting
<1> QED BY <1>7, <1>8, <1>9

(***************************************************************************)
(* The registers agree with the exchange                                   *)
(***************************************************************************)

\* What waits tells the truth about the orders.
LEMMA NewsTrue ==
    ASSUME TypeOK, FramesInv
    PROVE  /\ Opens \subseteq Ids /\ Closes \subseteq Ids
           /\ \A i \in Opens : exch[i] # "none"
<1>1. \A f \in Waiting : exch[f.id] # "none"
  BY DEF Waiting, FramesInv, AllTrue, True
<1> QED BY <1>1 DEF Opens, Closes

\* The parts of the invariant that the frames are about.
NewsInv == QueueInv /\ PlacedInv /\ OpenInv /\ ClosingInv

\* An order opens, goes on or closes, and the frame that says so is sent.
LEMMA TellAgrees ==
    ASSUME AgreeInv, NEW i \in Ids, NEW frame \in Frame, frame.id = i, Tell(frame),
           UNCHANGED <<reading, feed, our, ext, openOrders, refresher>>,
           Unanswered' \subseteq Unanswered \cup {i},
           \A j \in Ids : j # i => exch'[j] = exch[j],
           exch'[i] # "none",
           exch'[i] = "open" => exch[i] = "open" \/ frame.status = "open",
           exch'[i] = "closed" => frame.status = "closed",
           frame.status = "open" => exch[i] # "closed"
    PROVE  NewsInv'
<1> USE KrakenAccountAssumption
<1>0. /\ TypeOK /\ FramesInv /\ QueueInv /\ PlacedInv /\ OpenInv /\ ClosingInv
      /\ our \subseteq Ids /\ ext \subseteq Ids /\ openOrders \subseteq Ids
      /\ Unanswered \subseteq Ids /\ Known \subseteq Ids
  BY DEF AgreeInv, Inv, TypeOK, Unanswered, Ids
<1>1. /\ feed = "on" =>
           /\ Opens' = Opens \cup (IF frame.status = "open" THEN {i} ELSE {})
           /\ Closes' = Closes \cup (IF frame.status = "closed" THEN {i} ELSE {})
           /\ missed' = missed
      /\ feed # "on" =>
           /\ Opens' = Opens /\ Closes' = Closes
           /\ missed' = missed \cup (IF frame.status # "none" THEN {i} ELSE {})
  BY <1>0, NewsTold
<1>2. QueueInv'
  BY <1>0, QueueTold
<1>3. PlacedInv'
  BY <1>0 DEF PlacedInv
<1>4. OpenInv'
  BY <1>0, <1>1 DEF OpenInv, IsOpen
<1>5. Concerned' \subseteq Concerned \cup {i}
  <2>1. Reconnected' = Reconnected
    BY DEF Reconnected
  <2> QED BY <1>1, <2>1 DEF Concerned
<1>6. ClosingInv'
  <2> SUFFICES ASSUME NEW j \in Known \ missed', exch'[j] = "closed", j \in Concerned'
               PROVE  j \in Closes'
    BY DEF ClosingInv
  <2>1. CASE j = i
    BY <1>1, <2>1
  <2>2. CASE j # i
    <3>1. j \in Known \ missed /\ exch[j] = "closed" /\ j \in Concerned
      BY <1>0, <1>1, <1>5, <2>2
    <3> QED BY <1>0, <1>1, <3>1 DEF ClosingInv
  <2> QED BY <2>1, <2>2
<1> QED BY <1>2, <1>3, <1>4, <1>6 DEF NewsInv

\* Nothing is sent and nothing is handled, and no order is forgotten that may still
\* be reported.
LEMMA QuietAgrees ==
    ASSUME AgreeInv, UNCHANGED <<exch, messages, reading, missed>>,
           feed' = "on" => feed = "on" /\ our \subseteq our' /\ ext \subseteq ext',
           our' \cup Unanswered' \subseteq our \cup Unanswered,
           openOrders' \subseteq openOrders \cup OpenIds,
           ext' \subseteq ext \cup openOrders,
           Reconnected => Reconnected'
    PROVE  NewsInv'
<1>0. QueueInv /\ PlacedInv /\ OpenInv /\ ClosingInv
  BY DEF AgreeInv
<1>1. Opens' = Opens /\ Closes' = Closes
  BY DEF Opens, Closes, Waiting
<1>2. QueueInv'
  BY <1>0 DEF QueueInv
<1>3. PlacedInv'
  BY <1>0 DEF PlacedInv, OpenIds, IsOpen
<1>4. OpenInv'
  BY <1>0, <1>1 DEF OpenInv, IsOpen
<1>5. Concerned' \subseteq Concerned \cup OpenIds
  BY <1>1 DEF Concerned
<1>6. ClosingInv'
  BY <1>0, <1>1, <1>5 DEF ClosingInv, OpenIds, IsOpen
<1> QED BY <1>2, <1>3, <1>4, <1>6 DEF NewsInv

\* The parts of the invariant that the threads are about.
ThreadInv == FeedInv /\ StartInv /\ OwnInv

LEMMA AgreeInit == Init => AgreeInv
<1> SUFFICES ASSUME Init PROVE AgreeInv
  OBVIOUS
<1> USE KrakenAccountAssumption DEF Init
<1>1. Inv
  BY InitInv
<1>2. Opens = {} /\ Closes = {} /\ Unanswered = {}
  BY DEF Opens, Closes, Waiting, Unanswered
<1>3. QueueInv
  BY DEF QueueInv, InOrder
<1>4. FeedInv /\ StartInv
  BY DEF FeedInv, StartInv
<1>5. PlacedInv /\ OwnInv /\ OpenInv
  BY <1>2 DEF PlacedInv, OwnInv, OpenInv
<1>6. ClosingInv
  BY <1>2 DEF ClosingInv, Concerned
<1> QED BY <1>1, <1>3, <1>4, <1>5, <1>6 DEF AgreeInv

LEMMA AgreeCrash == ASSUME AgreeInv, Crash PROVE NewsInv' /\ ThreadInv'
<1> USE KrakenAccountAssumption DEF Crash
<1>1. TypeOK
  BY DEF AgreeInv, Inv
<1>2. QueueInv' /\ Opens' = {} /\ Closes' = {}
  BY <1>1, QueueLost
<1>3. Unanswered' = {}
  BY DEF Unanswered
<1>4. FeedInv' /\ StartInv'
  BY DEF FeedInv, StartInv
<1>5. PlacedInv' /\ OwnInv' /\ OpenInv'
  BY <1>3 DEF PlacedInv, OwnInv, OpenInv
<1>6. ClosingInv'
  BY <1>2, <1>3 DEF ClosingInv, Concerned
<1> QED BY <1>2, <1>4, <1>5, <1>6 DEF NewsInv, ThreadInv

LEMMA AgreeExchange == ASSUME AgreeInv, Exchange PROVE NewsInv' /\ ThreadInv'
<1> USE KrakenAccountAssumption DEF threadVars, restVars, bookVars, ProcessUnchanged
<1>0. /\ TypeOK /\ FramesInv /\ QueueInv /\ FeedInv /\ StartInv /\ PlacedInv /\ OwnInv
      /\ OpenInv /\ ClosingInv /\ exch \in [Ids -> {"none", "open", "closed"}]
      /\ our \subseteq Ids /\ ext \subseteq Ids /\ Unanswered \subseteq Ids
      /\ openOrders \subseteq Ids /\ Known \subseteq Ids
  BY DEF AgreeInv, Inv, TypeOK, Unanswered, Ids
<1>1. UNCHANGED <<mutex, sender, refresher, stream, reading, sent, openOrders, our, ext>>
  BY DEF Exchange, PlaceExternal, Execute, CloseOrder, ExchangeSubscribes
<1>2. UNCHANGED <<Unanswered, Reconnected>>
  BY <1>1 DEF Unanswered, Reconnected
<1>3. StartInv' /\ OwnInv'
  BY <1>0, <1>1, <1>2 DEF StartInv, OwnInv
<1>4. ASSUME NEW frame \in Frame, Tell(frame), UNCHANGED feed PROVE FeedInv'
  BY <1>0, <1>1, <1>4 DEF Tell, FeedInv
<1>5. ASSUME NEW i \in ExtIds, PlaceExternal(i) PROVE NewsInv' /\ ThreadInv'
  <2>1. /\ i \in Ids /\ Opening(i) \in Frame /\ Opening(i).id = i
        /\ Opening(i).status = "open"
    BY DEF Ids, Opening, Frame
  <2>2. exch[i] = "none" /\ exch' = [exch EXCEPT ![i] = "open"] /\ Tell(Opening(i))
        /\ UNCHANGED feed
    BY <1>5 DEF PlaceExternal
  <2>3. NewsInv'
    BY <1>0, <1>1, <1>2, <2>1, <2>2, TellAgrees
  <2> QED BY <1>3, <1>4, <2>1, <2>2, <2>3 DEF ThreadInv
<1>6. ASSUME NEW i \in Ids, Execute(i) PROVE NewsInv' /\ ThreadInv'
  <2>1. Progress(i) \in Frame /\ Progress(i).id = i /\ Progress(i).status = "none"
    BY DEF Progress, Frame
  <2>2. exch[i] = "open" /\ exch' = exch /\ Tell(Progress(i)) /\ UNCHANGED feed
    BY <1>6 DEF Execute, IsOpen
  <2>3. NewsInv'
    BY <1>0, <1>1, <1>2, <2>1, <2>2, TellAgrees
  <2> QED BY <1>3, <1>4, <2>1, <2>2, <2>3 DEF ThreadInv
<1>7. ASSUME NEW i \in Ids, NEW d \in BOOLEAN, CloseOrder(i, d) PROVE NewsInv' /\ ThreadInv'
  <2>1. Closing(i, d) \in Frame /\ Closing(i, d).id = i /\ Closing(i, d).status = "closed"
    BY DEF Closing, Frame
  <2>2. exch' = [exch EXCEPT ![i] = "closed"] /\ Tell(Closing(i, d)) /\ UNCHANGED feed
    BY <1>7 DEF CloseOrder
  <2>3. NewsInv'
    BY <1>0, <1>1, <1>2, <2>1, <2>2, TellAgrees
  <2> QED BY <1>3, <1>4, <2>1, <2>2, <2>3 DEF ThreadInv
<1>8. ASSUME ExchangeSubscribes PROVE NewsInv' /\ ThreadInv'
  <2>1. /\ feed = "asked" /\ feed' = "on" /\ missed' = missed \ OpenIds /\ exch' = exch
        /\ reading = <<>> /\ messages = <<>> /\ stream = "open"
    BY <1>0, <1>8 DEF ExchangeSubscribes, FeedInv
  <2>2. QueueInv' /\ Opens' = OpenIds /\ Closes = {}
    BY <1>0, <1>8, <2>1, QueueSnapshot
  <2>3. FeedInv'
    BY <1>0, <1>1, <2>1 DEF FeedInv
  <2>4. PlacedInv'
    BY <1>0, <1>1, <1>2, <2>1 DEF PlacedInv
  <2>5. OpenInv'
    BY <1>0, <2>1, <2>2 DEF OpenInv, IsOpen, OpenIds
  <2>6. Concerned' \subseteq Concerned \cup OpenIds
    BY <1>1, <1>2, <2>2 DEF Concerned
  <2>7. ClosingInv'
    BY <1>0, <2>1, <2>2, <2>6 DEF ClosingInv, OpenIds, IsOpen
  <2> QED BY <1>3, <2>2, <2>3, <2>4, <2>5, <2>7 DEF NewsInv, ThreadInv
<1> QED BY <1>5, <1>6, <1>7, <1>8 DEF Exchange

LEMMA AgreeSend ==
    ASSUME AgreeInv, NEW t \in Senders, SendOrder(t) PROVE NewsInv' /\ ThreadInv'
<1> USE KrakenAccountAssumption DEF exchVars, threadVars, restVars, bookVars
<1>0. /\ TypeOK /\ FramesInv /\ QueueInv /\ FeedInv /\ StartInv /\ PlacedInv /\ OwnInv
      /\ OpenInv /\ ClosingInv /\ exch \in [Ids -> {"none", "open", "closed"}]
      /\ sender \in [Senders -> {"idle", "request", "reply", "finish", "failed"}]
      /\ \A u \in Senders : sender[u] # "idle" <=> mutex = u
      /\ stream \in {"request", "reply"} <=> mutex = Stream
  BY DEF AgreeInv, Inv, TypeOK, MutexInv
<1>1. UNCHANGED <<feed, refresher, stream, reading, openOrders, ext>>
  BY DEF SendOrder, SendBegin, SendAccepted, SendRefused, SendReplyLost, SendReplyGarbled,
         SendStore, SendFinish
<1>2. Reconnected' = Reconnected
  BY <1>1 DEF Reconnected
<1>3. ASSUME NEW i \in OwnIds, SendAccepted(t, i) PROVE NewsInv' /\ ThreadInv'
  <2>1. /\ i \in Ids /\ Opening(i) \in Frame /\ Opening(i).id = i
        /\ Opening(i).status = "open"
    BY DEF Ids, Opening, Frame
  <2>2. /\ exch[i] = "none" /\ exch' = [exch EXCEPT ![i] = "open"] /\ Tell(Opening(i))
        /\ sender[t] = "request" /\ sender' = [sender EXCEPT ![t] = "reply"]
        /\ sent' = i /\ UNCHANGED <<our, mutex>>
    BY <1>3 DEF SendAccepted
  <2>3. Unanswered' \subseteq {i}
    BY <2>2 DEF Unanswered
  <2>4. NewsInv'
    BY <1>0, <1>1, <2>1, <2>2, <2>3, TellAgrees
  <2>5. FeedInv' /\ StartInv'
    BY <1>0, <1>1, <1>2, <2>2 DEF FeedInv, StartInv, Tell
  <2>6. i \notin ext
    BY <1>0, <2>2 DEF PlacedInv
  <2>7. OwnInv'
    BY <1>0, <1>1, <1>2, <2>2, <2>3, <2>6 DEF OwnInv
  <2> QED BY <2>4, <2>5, <2>7 DEF ThreadInv
<1>4. ASSUME SendBegin(t) \/ SendRefused(t) \/ SendReplyLost(t) \/ SendReplyGarbled(t)
             \/ SendStore(t) \/ SendFinish(t)
      PROVE  NewsInv' /\ ThreadInv'
  <2>1. UNCHANGED <<exch, messages, missed>> /\ our \subseteq our'
    BY <1>4 DEF SendBegin, SendRefused, SendReplyLost, SendReplyGarbled, SendStore, SendFinish
  <2>2. our' \cup Unanswered' \subseteq our \cup Unanswered
    <3>1. CASE SendStore(t)
      <4>1. sent \in Unanswered /\ our' = our \cup {sent} /\ sent' = sent
            /\ sender' = [sender EXCEPT ![t] = "finish"]
        BY <3>1 DEF SendStore, Unanswered, AgreeInv, Inv, SentInv
      <4> QED BY <1>0, <4>1 DEF Unanswered
    <3>2. CASE ~SendStore(t)
      <4>1. our' = our
        BY <1>4, <3>2 DEF SendBegin, SendRefused, SendReplyLost, SendReplyGarbled, SendFinish
      <4>2. sent' \in {sent, NoOrder} /\ \A u \in Senders : sender'[u] = "reply" => sender[u] = "reply"
        BY <1>0, <1>4, <3>2
           DEF SendBegin, SendRefused, SendReplyLost, SendReplyGarbled, SendFinish
      <4>3. Unanswered' \subseteq Unanswered
        BY <4>2 DEF Unanswered, Ids
      <4> QED BY <4>1, <4>3
    <3> QED BY <3>1, <3>2
  <2>3. NewsInv'
    BY <1>1, <1>2, <2>1, <2>2, QuietAgrees
  <2>4. FeedInv'
    BY <1>0, <1>1, <2>1 DEF FeedInv
  <2>5. StartInv'
    <3>1. CASE SendBegin(t)
      BY <1>0, <1>1, <1>2, <3>1 DEF SendBegin, StartInv
    <3>2. CASE ~SendBegin(t)
      <4>1. mutex = t /\ mutex' \in {t, NoThread}
        BY <1>0, <1>4, <3>2
           DEF SendRefused, SendReplyLost, SendReplyGarbled, SendStore, SendFinish
      <4> QED BY <1>0, <1>1, <1>2, <4>1 DEF StartInv
    <3> QED BY <3>1, <3>2
  <2>6. OwnInv'
    BY <1>0, <1>1, <1>2, <2>2 DEF OwnInv
  <2> QED BY <2>3, <2>4, <2>5, <2>6 DEF ThreadInv
<1> QED BY <1>3, <1>4 DEF SendOrder

LEMMA AgreeRefresh ==
    ASSUME AgreeInv, NEW r \in Refreshers, RefreshAccountBalance(r)
    PROVE  NewsInv' /\ ThreadInv'
<1> USE KrakenAccountAssumption DEF exchVars, threadVars, restVars, bookVars
<1>1. CASE RefreshFailed(r)
  BY <1>1, AgreeCrash DEF RefreshFailed
<1>2. CASE RefreshBegin(r) \/ RefreshFinish(r)
  <2>0. FeedInv /\ StartInv /\ OwnInv /\ refresher \in [Refreshers -> {"off", "start", "sleep", "request"}]
    BY DEF AgreeInv, Inv, TypeOK
  <2>1. /\ UNCHANGED <<exch, feed, messages, missed, sender, stream, reading, sent, openOrders,
                       our, ext>>
        /\ refresher[r] # "off" /\ mutex' \in {r, NoThread}
        /\ \A q \in Refreshers : refresher'[q] = "off" <=> refresher[q] = "off"
    BY <1>2, <2>0 DEF RefreshBegin, RefreshFinish
  <2>2. Unanswered' = Unanswered /\ Reconnected' = Reconnected
    BY <2>1 DEF Unanswered, Reconnected
  <2>3. NewsInv'
    BY <2>1, <2>2, QuietAgrees
  <2>4. FeedInv' /\ StartInv' /\ OwnInv'
    BY <2>0, <2>1, <2>2 DEF FeedInv, StartInv, OwnInv
  <2> QED BY <2>3, <2>4 DEF ThreadInv
<1> QED BY <1>1, <1>2 DEF RefreshAccountBalance

LEMMA AgreeConnection ==
    ASSUME AgreeInv, OnOpen \/ OnClose \/ OnCloseThrows PROVE NewsInv' /\ ThreadInv'
<1> USE KrakenAccountAssumption DEF exchVars, threadVars, restVars, bookVars
<1>0. /\ TypeOK /\ FeedInv /\ StartInv /\ OwnInv /\ PlacedInv /\ OpenInv /\ ClosingInv
      /\ refresher \in [Refreshers -> {"off", "start", "sleep", "request"}]
      /\ \A u \in Senders : sender[u] # "idle" <=> mutex = u
      /\ stream \in {"request", "reply"} <=> mutex = Stream
  BY DEF AgreeInv, Inv, TypeOK, MutexInv
<1>1. CASE OnOpenThrows \/ OnCloseThrows
  BY <1>1, AgreeCrash DEF OnOpenThrows, OnCloseThrows
<1>2. CASE OnClose
  <2>1. /\ messages' = <<>> /\ reading = <<>> /\ reading' = <<>> /\ feed' = "none"
        /\ missed' = missed \cup UNION {NewsOf(m) : m \in Range(messages)}
        /\ UNCHANGED <<exch, mutex, sender, refresher, sent, openOrders, our, ext>>
        /\ stream' = "down" /\ stream = "open"
    BY <1>2 DEF OnClose
  <2>2. QueueInv' /\ Opens' = {} /\ Closes' = {} /\ Closes \subseteq missed'
    BY <1>0, <2>1, QueueLost
  <2>3. Unanswered' = Unanswered /\ Reconnected' = Reconnected
    BY <2>1 DEF Unanswered, Reconnected
  <2>4. FeedInv' /\ StartInv' /\ OwnInv'
    BY <1>0, <2>1, <2>3 DEF FeedInv, StartInv, OwnInv
  <2>5. PlacedInv' /\ OpenInv'
    BY <1>0, <2>1, <2>3 DEF PlacedInv, OpenInv
  <2>6. Concerned' \subseteq Concerned
    BY <2>1, <2>2, <2>3 DEF Concerned
  <2>7. ClosingInv'
    BY <1>0, <2>1, <2>2, <2>6 DEF ClosingInv
  <2> QED BY <2>2, <2>4, <2>5, <2>7 DEF NewsInv, ThreadInv
<1>3. ASSUME Connect \/ InitializeBegin \/ InitializeReply \/ InitializeFinish
             \/ SubscribeOpenOrders
      PROVE  NewsInv' /\ ThreadInv'
  <2>1. UNCHANGED <<exch, messages, missed, sender, reading, sent, our>>
    BY <1>3 DEF Connect, InitializeBegin, InitializeReply, InitializeFinish,
                SubscribeOpenOrders
  <2>2. /\ feed = "none" /\ feed' # "on" /\ messages = <<>> /\ reading = <<>>
    BY <1>0, <1>3 DEF Connect, InitializeBegin, InitializeReply, InitializeFinish,
                      SubscribeOpenOrders, FeedInv
  <2>3. /\ openOrders' \subseteq openOrders \cup OpenIds
        /\ ext' \subseteq ext \cup openOrders
    BY <1>3 DEF Connect, InitializeBegin, InitializeReply, InitializeFinish,
                SubscribeOpenOrders
  <2>4. Unanswered' = Unanswered
    BY <2>1 DEF Unanswered
  <2>5. Reconnected => Reconnected'
    <3>1. \A r \in Refreshers : refresher[r] # "off" => refresher'[r] # "off"
      BY <1>0, <1>3 DEF Connect, InitializeBegin, InitializeReply, InitializeFinish,
                        SubscribeOpenOrders
    <3> QED BY <3>1 DEF Reconnected
  <2>6. NewsInv'
    BY <2>1, <2>2, <2>3, <2>4, <2>5, QuietAgrees
  <2>7. FeedInv'
    BY <1>0, <1>3, <2>1, <2>2
       DEF Connect, InitializeBegin, InitializeReply, InitializeFinish,
           SubscribeOpenOrders, FeedInv
  <2>8. CASE InitializeBegin
    <3>1. /\ mutex = NoThread /\ mutex' = Stream /\ ext' = ext
          /\ \E r \in Refreshers : refresher[r] = "off" /\ refresher' = [refresher EXCEPT ![r] = "start"]
      BY <2>8 DEF InitializeBegin
    <3>2. ~Reconnected' => our = {}
      <4>1. PICK r \in Refreshers : refresher[r] = "off" /\ refresher' = [refresher EXCEPT ![r] = "start"]
        BY <3>1
      <4>2. ~Reconnected' => \A q \in Refreshers : refresher[q] = "off"
        BY <1>0, <4>1 DEF Reconnected
      <4> QED BY <1>0, <4>2 DEF StartInv
    <3>3. StartInv'
      BY <1>0, <2>1, <3>1, <3>2 DEF StartInv
    <3>4. OwnInv'
      BY <1>0, <2>1, <2>4, <2>5, <3>1 DEF OwnInv
    <3> QED BY <2>6, <2>7, <3>3, <3>4 DEF ThreadInv
  <2>9. CASE InitializeFinish
    <3>1. /\ stream = "reply" /\ stream' = "subscribing" /\ mutex' = NoThread
          /\ UNCHANGED refresher
      BY <2>9 DEF InitializeFinish
    <3>2. Unanswered = {} /\ Reconnected' = Reconnected
      BY <1>0, <3>1 DEF Unanswered, Reconnected
    <3>3. StartInv' /\ OwnInv'
      BY <1>0, <2>1, <2>4, <3>1, <3>2 DEF StartInv, OwnInv
    <3> QED BY <2>6, <2>7, <3>3 DEF ThreadInv
  <2>10. CASE Connect \/ InitializeReply \/ SubscribeOpenOrders
    <3>1. /\ UNCHANGED <<mutex, refresher, ext>>
          /\ stream' \in {"request", "reply"} => stream \in {"request", "reply"}
      BY <2>10 DEF Connect, InitializeReply, SubscribeOpenOrders
    <3>2. Reconnected' = Reconnected
      BY <3>1 DEF Reconnected
    <3>3. StartInv' /\ OwnInv'
      BY <1>0, <2>1, <2>4, <3>1, <3>2 DEF StartInv, OwnInv
    <3> QED BY <2>6, <2>7, <3>3 DEF ThreadInv
  <2> QED BY <1>3, <2>8, <2>9, <2>10
<1> QED BY <1>1, <1>2, <1>3 DEF OnOpen

\* Frames: an order is erased with nothing left that would register it again.
LEMMA AgreeMessage == ASSUME AgreeInv, OnMessage PROVE NewsInv' /\ ThreadInv'
<1> USE KrakenAccountAssumption DEF exchVars, threadVars, restVars, bookVars
<1>0. /\ TypeOK /\ FramesInv /\ QueueInv /\ FeedInv /\ StartInv /\ OwnInv /\ PlacedInv
      /\ OpenInv /\ ClosingInv
      /\ \A u \in Senders : sender[u] # "idle" <=> mutex = u
  BY DEF AgreeInv, Inv, MutexInv
<1>1. UNCHANGED <<exch, feed, mutex, sender, refresher, stream, sent, openOrders>>
  BY DEF OnMessage, ReadMessage, LeaveMessage, DropOrder, HandleOrder
<1>2. Unanswered' = Unanswered /\ Reconnected' = Reconnected
  BY <1>1 DEF Unanswered, Reconnected
<1>3. feed = "on"
  BY <1>0 DEF OnMessage, ReadMessage, LeaveMessage, DropOrder, HandleOrder, FeedInv
<1>4. FeedInv'
  BY <1>0, <1>1, <1>3 DEF FeedInv
<1>5. openOrders = {} /\ stream = "open"
  BY <1>0, <1>3 DEF FeedInv
<1>6. ASSUME UNCHANGED <<our, ext>> PROVE PlacedInv' /\ StartInv' /\ OwnInv'
  BY <1>0, <1>1, <1>2, <1>6 DEF PlacedInv, StartInv, OwnInv
<1>7. CASE ReadMessage
  <2>1. QueueInv' /\ Opens' = Opens /\ Closes' = Closes /\ UNCHANGED <<our, ext, missed>>
    BY <1>0, <1>7, QueueRead DEF ReadMessage
  <2>2. OpenInv' /\ ClosingInv'
    BY <1>0, <1>1, <1>2, <2>1 DEF OpenInv, ClosingInv, Concerned, IsOpen
  <2> QED BY <1>4, <1>6, <2>1, <2>2 DEF NewsInv, ThreadInv
<1>8. CASE LeaveMessage
  <2>1. reading' = <<>> /\ missed' = missed \cup NewsOf(reading)
        /\ UNCHANGED <<messages, our, ext>>
    BY <1>8 DEF LeaveMessage
  <2>2. /\ QueueInv' /\ Opens' \subseteq Opens /\ Opens \subseteq Opens' \cup NewsOf(reading)
        /\ Closes \subseteq Closes' \cup NewsOf(reading)
    BY <1>0, <2>1, QueueLeft
  <2>3. OpenInv'
    BY <1>0, <1>1, <2>1, <2>2 DEF OpenInv, IsOpen
  <2>4. Concerned' \subseteq Concerned
    BY <1>1, <1>2, <2>1, <2>2 DEF Concerned
  <2>5. ClosingInv'
    BY <1>0, <1>1, <2>1, <2>2, <2>4 DEF ClosingInv
  <2> QED BY <1>4, <1>6, <2>1, <2>2, <2>3, <2>5 DEF NewsInv, ThreadInv
<1>9. ASSUME DropOrder \/ HandleOrder PROVE NewsInv' /\ ThreadInv'
  <2> DEFINE f == Head(reading)
             i == f.id
  <2>1. reading # <<>> /\ reading' = Tail(reading) /\ UNCHANGED messages
    BY <1>9 DEF DropOrder, HandleOrder
  <2>2. /\ QueueInv' /\ Opens' \subseteq Opens /\ Closes' \subseteq Closes
        /\ f.status # "open" => Opens' = Opens
        /\ f.status # "closed" => Closes' = Closes
        /\ Opens \ {i} \subseteq Opens' /\ Closes \ {i} \subseteq Closes'
        /\ f.status = "open" => i \in Opens
        /\ f.status = "closed" => i \in Closes \ Opens'
    BY <1>0, <2>1, QueueTail
  <2>3. /\ f.status \in {"open", "closed"}
        /\ DropOrder => /\ UNCHANGED <<our, ext>> /\ missed \subseteq missed'
                        /\ i \notin Known \/ i \in missed'
        /\ HandleOrder => missed' = missed /\ mutex = NoThread
    <3>1. f \in Frame /\ f.status # "none"
      BY <1>0, <1>9 DEF DropOrder, HandleOrder, TypeOK
    <3>2. f.status \in {"open", "closed"}
      BY <3>1 DEF Frame
    <3> QED BY <3>2 DEF DropOrder, HandleOrder, HandlerEnters
  <2>4. CASE DropOrder
    <3> HIDE DEF f, i
    <3>1. OpenInv'
      BY <1>0, <1>1, <2>2, <2>3, <2>4 DEF OpenInv, IsOpen
    <3>2. Concerned' \subseteq Concerned
      BY <1>1, <1>2, <2>2, <2>3, <2>4 DEF Concerned
    <3>3. ClosingInv'
      BY <1>0, <1>1, <2>2, <2>3, <2>4, <3>2 DEF ClosingInv
    <3> QED BY <1>4, <1>6, <2>2, <2>3, <2>4, <3>1, <3>3 DEF NewsInv, ThreadInv
  <2>5. CASE HandleOrder
    <3>0. Unanswered = {} /\ our \subseteq OwnIds
      BY <1>0, <2>3, <2>5 DEF Unanswered, TypeOK
    <3>1. CASE f.status = "open"
      <4>1. /\ our' = our /\ ext \subseteq ext' /\ ext' \subseteq ext \cup {i}
            /\ i \in our \cup ext' /\ (i \in our => ext' = ext)
        BY <2>5, <3>1 DEF HandleOrder, HandleExternalOrder, IsClosing
      <4>2. exch[i] # "none"
        BY <1>0, <2>2, <3>1, NewsTrue
      <4> HIDE DEF f, i
      <4>3. PlacedInv'
        BY <1>0, <1>1, <1>2, <4>1, <4>2 DEF PlacedInv
      <4>4. StartInv' /\ OwnInv'
        BY <1>0, <1>1, <1>2, <3>0, <4>1 DEF StartInv, OwnInv
      <4>5. OpenInv'
        BY <1>0, <1>1, <2>2, <2>3, <2>5, <4>1 DEF OpenInv, IsOpen
      <4>6. Concerned' \subseteq Concerned
        BY <1>1, <1>2, <2>2, <3>1, <4>1 DEF Concerned
      <4>7. ClosingInv'
        BY <1>0, <1>1, <2>2, <2>3, <2>5, <3>1, <4>6 DEF ClosingInv
      <4> QED BY <1>4, <2>2, <4>3, <4>4, <4>5, <4>7 DEF NewsInv, ThreadInv
    <3>2. CASE f.status = "closed"
      <4>1. /\ our' \subseteq our /\ ext' \subseteq ext
            /\ our \ {i} \subseteq our' /\ ext \ {i} \subseteq ext'
            /\ i \notin our' /\ (i \in our \/ i \notin ext')
        BY <2>5, <3>2 DEF HandleOrder, HandleExternalOrder, IsClosing
      <4>2. exch[i] = "closed"
        <5>1. True(exch, f)
          BY <1>0, <2>1 DEF TypeOK, FramesInv, AllTrue
        <5> QED BY <3>2, <5>1 DEF True
      <4> HIDE DEF f, i
      <4>3. PlacedInv'
        BY <1>0, <1>1, <1>2, <4>1 DEF PlacedInv
      <4>4. StartInv' /\ OwnInv'
        BY <1>0, <1>1, <1>2, <4>1 DEF StartInv, OwnInv
      <4>5. OpenInv'
        BY <1>0, <1>1, <2>2, <2>3, <2>5, <3>2, <4>1, <4>2 DEF OpenInv, IsOpen
      <4>6. Concerned' \subseteq Concerned \ {i}
        <5>1. Concerned' \subseteq Concerned
          BY <1>1, <1>2, <2>2, <4>1 DEF Concerned
        <5>2. i \in ext' => i \in OwnIds /\ Reconnected'
          BY <1>0, <1>2, <3>0, <4>1 DEF OwnInv
        <5>3. i \notin Concerned'
          BY <1>1, <1>2, <1>5, <2>2, <3>0, <3>2, <4>1, <5>2 DEF Concerned
        <5> QED BY <5>1, <5>3
      <4>7. ClosingInv'
        BY <1>0, <1>1, <2>2, <2>3, <2>5, <4>6 DEF ClosingInv
      <4> QED BY <1>4, <2>2, <4>3, <4>4, <4>5, <4>7 DEF NewsInv, ThreadInv
    <3> QED BY <2>3, <3>1, <3>2
  <2> QED BY <1>9, <2>4, <2>5
<1> QED BY <1>7, <1>8, <1>9 DEF OnMessage

LEMMA AgreeStep == AgreeInv /\ [Next]_vars => AgreeInv'
<1> SUFFICES ASSUME AgreeInv, [Next]_vars PROVE AgreeInv'
  OBVIOUS
<1>1. Inv'
  BY StepInv DEF AgreeInv
<1>2. CASE UNCHANGED vars
  <2> USE <1>2 DEF vars, exchVars, threadVars, restVars, bookVars
  <2>1. UNCHANGED <<Unanswered, Reconnected, Waiting>>
    BY DEF Unanswered, Reconnected, Waiting
  <2>2. UNCHANGED <<Opens, Closes>>
    BY <2>1 DEF Opens, Closes
  <2>3. QueueInv' /\ FeedInv' /\ StartInv'
    BY <2>1 DEF AgreeInv, QueueInv, FeedInv, StartInv
  <2>4. PlacedInv' /\ OwnInv' /\ OpenInv' /\ ClosingInv'
    BY <2>1, <2>2 DEF AgreeInv, PlacedInv, OwnInv, OpenInv, ClosingInv, IsOpen, Concerned
  <2> QED BY <1>1, <2>3, <2>4 DEF AgreeInv
<1>3. CASE Next
  <2>1. NewsInv' /\ ThreadInv'
    BY <1>3, AgreeExchange, AgreeSend, AgreeRefresh, AgreeConnection, AgreeMessage DEF Next
  <2> QED BY <1>1, <2>1 DEF AgreeInv, NewsInv, ThreadInv
<1> QED BY <1>2, <1>3

\* Once every frame is handled the registered orders are the open ones, whatever
\* order the replies, the snapshot and the messages came in.
THEOREM RegistersCorrect == Spec => []RegistersAgreeWhenDrained
<1>1. AgreeInv => RegistersAgreeWhenDrained
  <2> SUFFICES ASSUME AgreeInv, Drained, NEW i \in Known \ missed
               PROVE  /\ IsOpen(i) => i \in our \cup ext
                      /\ i \in our => IsOpen(i)
                      /\ i \in ext => IsOpen(i) \/ (i \in OwnIds /\ Reconnected)
    BY DEF RegistersAgreeWhenDrained
  <2>1. Opens = {} /\ Closes = {}
    BY DEF Drained, Opens, Closes, Waiting
  <2>2. IsOpen(i) => i \in our \cup ext
    BY <2>1 DEF AgreeInv, OpenInv, Drained
  <2>3. i \in our \cup ext => exch[i] \in {"open", "closed"}
    BY KrakenAccountAssumption DEF AgreeInv, Inv, TypeOK, PlacedInv
  <2>4. i \in Concerned => exch[i] # "closed"
    BY <2>1 DEF AgreeInv, ClosingInv
  <2>5. i \in our \cup ext => IsOpen(i) \/ i \notin Concerned
    BY <2>3, <2>4 DEF IsOpen
  <2> QED BY <2>2, <2>5 DEF Concerned
<1> QED BY <1>1, AgreeInit, AgreeStep, PTL DEF Spec
=============================================================================
