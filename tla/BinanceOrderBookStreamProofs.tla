--------------------- MODULE BinanceOrderBookStreamProofs ---------------------
(***************************************************************************)
(* The invariants of BinanceOrderBookStream, proved for every book and     *)
(* every bound.                                                            *)
(*                                                                         *)
(* The inductive invariant IInv says what a depth update tells of the      *)
(* exchange's history (Good), that the updates under way are in order      *)
(* (Sorted), that the buffered ones leave nothing out after the snapshot's *)
(* id unless one was lost (Complete), and which of the exchange's moments  *)
(* every level of the book shows (Shows).                                  *)
(***************************************************************************)
EXTENDS BinanceOrderBookStream, WellFoundedInduction, SequenceTheorems, TLAPS

\* A level that was not touched since the last depth update is as it was then.
Untouched ==
    /\ touched # {} => emitted < Latest
    /\ \A k \in emitted..Latest : \A l \in Levels \ touched :
          BookAt(k)[l] = BookAt(Latest)[l]

\* A depth update holds the levels changed by U..u, as they are after u in the
\* history h; the exchange has sent the changes up to n.
Good(h, n, e) ==
    /\ 1 <= e.U /\ e.U <= e.u /\ e.u <= n
    /\ \A l \in DOMAIN e.levels : e.levels[l] = h[e.u + 1][l]
    /\ \A k \in (e.U - 1)..e.u : \A l \in Levels \ DOMAIN e.levels :
          h[k + 1][l] = h[e.u + 1][l]

AllGood(h, n, s) == \A i \in 1..Len(s) : Good(h, n, s[i])

Sorted(s) == \A i, j \in 1..Len(s) : i <= j => s[i].u <= s[j].u

\* The updates of s after id tell of every change between them.
Complete(h, id, s) ==
    \A i, j \in 1..Len(s) : i <= j /\ s[i].u > id =>
        \A l \in Levels :
            (\A m \in (i + 1)..j : l \notin DOMAIN s[m].levels)
                => h[s[i].u + 1][l] = h[s[j].u + 1][l]

\* The updates that have arrived and wait in the buffer, then those on their way.
Stream == buffer \o net

Updates == AllGood(history, emitted, Stream) /\ Sorted(Stream)

Reply ==
    ~lostInReply =>
        /\ future = "answered" =>
              /\ Complete(history, snapshotId, Stream)
              /\ link = "open" /\ Len(Stream) > 0 /\ Stream[Len(Stream)].u > snapshotId
                    => Stream[Len(Stream)].u = emitted
        /\ future = "ready" => Complete(history, snapshotId, buffer)

\* The updates s to come are not older than the book, unless it is as the snapshot
\* b left it.
Ahead(n, s, b, p) ==
    p = b \/ (p <= n /\ \A i \in 1..Len(s) : p <= s[i].u)

\* What a book bk built on snapshot b shows when its id is p, but for the levels of
\* S; only the levels of two moments after an update was lost.
Shows(h, lost, bk, S, b, p) ==
    /\ p < b => \A l \in Levels \ S : bk[l] \in {h[b + 1][l], h[p + 1][l]}
    /\ p >= b /\ (p = b \/ ~lost) => \A l \in Levels \ S : bk[l] = h[p + 1][l]

Following ==
    base # Base =>
        /\ Ahead(emitted, net, base, previous)
        /\ Shows(history, lostInReply, book, suspect, base, previous)

Connection ==
    /\ link = "closed" => net = <<>>
    /\ connects = 0 => future = "none" /\ link = "closed" /\ book = Empty
    /\ connects <= 1 => suspect = {} /\ (future # "none" => book = Empty)

Unfailed ==
    failures = 0 =>
        /\ future # "failed"
        /\ base = Base => book = Empty /\ (future = "none" => link = "closed")

IInv ==
    /\ TypeOK /\ Untouched /\ Updates /\ Reply /\ Following /\ Connection /\ Unfailed
-----------------------------------------------------------------------------
(***************************************************************************)
(* Least and greatest elements                                             *)
(***************************************************************************)

\* Every set of natural numbers that is not empty has a least element.
LEMMA Least ==
    ASSUME NEW T, T \subseteq Nat, T # {}
    PROVE  \E x \in T : \A y \in T : x <= y
<1> DEFINE R == OpToRel(<, Nat)
<1>1. IsWellFoundedOn(R, Nat)
  BY NatLessThanWellFounded
<1>2. \E x \in T : \A y \in T : ~(<<y, x>> \in R)
  <2> HIDE DEF R
  <2> QED BY <1>1, WFMin
<1>3. PICK x \in T : \A y \in T : ~(<<y, x>> \in R)
  BY <1>2
<1>4. ASSUME NEW y \in T PROVE x <= y
  <2>1. x \in Nat /\ y \in Nat
    OBVIOUS
  <2>2. ~(y < x)
    BY <1>3, <2>1 DEF OpToRel
  <2> QED BY <2>1, <2>2
<1> QED BY <1>4

\* Min finds it.
LEMMA MinExists ==
    ASSUME NEW T, T \subseteq Nat, T # {}
    PROVE  Min(T) \in T /\ \A y \in T : Min(T) <= y
BY Least DEF Min

\* Max finds the greatest of some first numbers.
LEMMA MaxExists ==
    ASSUME NEW n \in Nat, NEW T, T \subseteq 1..n, T # {}
    PROVE  Max(T) \in T /\ \A y \in T : y <= Max(T)
<1> DEFINE U == {k \in Nat : n - k \in T}
<1>1. U \subseteq Nat /\ U # {}
  <2>1. PICK x \in T : x \in 1..n
    OBVIOUS
  <2>2. n - x \in Nat /\ n - (n - x) = x
    BY <2>1
  <2>3. n - x \in U
    BY <2>1, <2>2
  <2> QED BY <2>3
<1>2. PICK u \in U : \A k \in U : u <= k
  <2> HIDE DEF U
  <2> QED BY <1>1, Least
<1>3. n - u \in T /\ u \in Nat
  OBVIOUS
<1>4. ASSUME NEW y \in T PROVE y <= n - u
  <2>1. y \in 1..n
    OBVIOUS
  <2>2. n - y \in Nat /\ n - (n - y) = y
    BY <2>1
  <2>3. n - y \in U
    BY <2>2
  <2>4. u <= n - y
    BY <1>2, <2>3
  <2> QED BY <1>3, <2>1, <2>4
<1>5. \E x \in T : \A y \in T : y <= x
  BY <1>3, <1>4
<1>6. \E x \in T : \A y \in T : x >= y
  BY <1>5
<1> QED BY <1>6 DEF Max

-----------------------------------------------------------------------------
(***************************************************************************)
(* Depth updates and books                                                 *)
(***************************************************************************)

\* The parts of a depth update.
LEMMA EventType ==
    ASSUME NEW e \in Event
    PROVE  /\ e.U \in Nat /\ e.u \in Nat
           /\ DOMAIN e.levels \subseteq Levels
           /\ \A l \in DOMAIN e.levels : e.levels[l] \in Quantities
<1>1. PICK T \in SUBSET Levels : e.levels \in [T -> Quantities]
  BY DEF Event
<1>2. e.U \in Nat /\ e.u \in Nat
  BY DEF Event
<1> QED BY <1>1, <1>2

\* The parts make one.
LEMMA EventMade ==
    ASSUME NEW U \in Nat, NEW u \in Nat, NEW T \in SUBSET Levels,
           NEW levels \in [T -> Quantities]
    PROVE  [U |-> U, u |-> u, levels |-> levels] \in Event
<1>1. levels \in UNION {[V -> Quantities] : V \in SUBSET Levels}
  OBVIOUS
<1> QED BY <1>1 DEF Event

\* The updates that name a level.
Hits(updates, l) == {i \in DOMAIN updates : l \in DOMAIN updates[i].levels}

\* After Update a level has the quantity of the last update that names it, or the
\* one it had.
LEMMA UpdateValue ==
    ASSUME NEW b, NEW updates \in Seq(Event), NEW l \in Levels
    PROVE  /\ Hits(updates, l) = {} => Update(b, updates)[l] = b[l]
           /\ Hits(updates, l) # {} =>
                \E m \in Hits(updates, l) :
                   /\ \A i \in Hits(updates, l) : i <= m
                   /\ Update(b, updates)[l] = updates[m].levels[l]
<1>1. Hits(updates, l) \subseteq 1..Len(updates) /\ Len(updates) \in Nat
  BY DEF Hits
<1>2. Hits(updates, l) # {} =>
         Max(Hits(updates, l)) \in Hits(updates, l)
         /\ \A i \in Hits(updates, l) : i <= Max(Hits(updates, l))
  BY <1>1, MaxExists
<1>3. Update(b, updates)[l] =
        IF Hits(updates, l) = {} THEN b[l] ELSE updates[Max(Hits(updates, l))].levels[l]
  BY DEF Update, Hits
<1> QED BY <1>2, <1>3

\* Update makes books of books.
LEMMA UpdateType ==
    ASSUME NEW b \in Books, NEW updates \in Seq(Event)
    PROVE  Update(b, updates) \in Books
<1>1. ASSUME NEW l \in Levels PROVE Update(b, updates)[l] \in Quantities
  <2>1. CASE Hits(updates, l) = {}
    <3>1. Update(b, updates)[l] = b[l]
      BY <2>1, UpdateValue
    <3> QED BY <3>1 DEF Books
  <2>2. CASE Hits(updates, l) # {}
    <3>1. PICK m \in Hits(updates, l) : Update(b, updates)[l] = updates[m].levels[l]
      BY <2>2, UpdateValue
    <3>2. updates[m] \in Event /\ l \in DOMAIN updates[m].levels
      BY <3>1 DEF Hits
    <3> QED BY <3>1, <3>2, EventType
  <2> QED BY <2>1, <2>2
<1>2. Update(b, updates) = [l \in Levels |-> Update(b, updates)[l]]
  BY DEF Update
<1> QED BY <1>1, <1>2 DEF Books

\* One update.
LEMMA UpdateOne ==
    ASSUME NEW b, NEW e \in Event
    PROVE  /\ \A l \in Levels :
                Update(b, <<e>>)[l] = IF l \in DOMAIN e.levels THEN e.levels[l] ELSE b[l]
           /\ Covered(<<e>>) = DOMAIN e.levels
<1>1. ASSUME NEW l \in Levels
      PROVE  Update(b, <<e>>)[l] = IF l \in DOMAIN e.levels THEN e.levels[l] ELSE b[l]
  <2>1. <<e>> \in Seq(Event) /\ DOMAIN <<e>> = {1} /\ <<e>>[1] = e
    OBVIOUS
  <2>2. Hits(<<e>>, l) = IF l \in DOMAIN e.levels THEN {1} ELSE {}
    BY <2>1 DEF Hits
  <2>3. CASE l \in DOMAIN e.levels
    <3>1. PICK m \in Hits(<<e>>, l) : Update(b, <<e>>)[l] = <<e>>[m].levels[l]
      BY <2>1, <2>2, <2>3, UpdateValue
    <3> QED BY <2>1, <2>2, <2>3, <3>1
  <2>4. CASE l \notin DOMAIN e.levels
    BY <2>1, <2>2, <2>4, UpdateValue
  <2> QED BY <2>3, <2>4
<1>2. Covered(<<e>>) = DOMAIN e.levels
  BY DEF Covered
<1> QED BY <1>1, <1>2

\* A snapshot names the levels there are.
LEMMA SnapshotType ==
    ASSUME TypeOK, NEW id \in 0..Latest
    PROVE  /\ BookAt(id) \in Books
           /\ Snapshot(id) \in Event
           /\ DOMAIN Snapshot(id).levels = {l \in Levels : BookAt(id)[l] # 0}
           /\ \A l \in DOMAIN Snapshot(id).levels : Snapshot(id).levels[l] = BookAt(id)[l]
<1>1. BookAt(id) \in Books
  BY DEF TypeOK, BookAt, Latest
<1> DEFINE present == {l \in Levels : BookAt(id)[l] # 0}
<1>2. [l \in present |-> BookAt(id)[l]] \in [present -> Quantities]
  BY <1>1 DEF Books
<1>3. id \in Nat
  BY DEF TypeOK, Latest
<1>4. Snapshot(id) \in Event
  BY <1>2, <1>3, EventMade DEF Snapshot
<1> QED BY <1>1, <1>4 DEF Snapshot

\* The replay is the end of the buffer from the first update that holds the
\* snapshot's next change.
LEMMA ReplayType ==
    ASSUME TypeOK, NEW id \in Nat
    PROVE  /\ ToReplay(id) \in Seq(Event)
           /\ ToReplay(id) # <<>> =>
                \E f \in 1..Len(buffer) :
                   /\ buffer[f].U <= id + 1 /\ buffer[f].u >= id + 1
                   /\ Len(ToReplay(id)) = Len(buffer) - f + 1
                   /\ \A i \in 1..Len(ToReplay(id)) : ToReplay(id)[i] = buffer[f + i - 1]
<1> DEFINE joins == {i \in DOMAIN buffer : buffer[i].U <= id + 1 /\ buffer[i].u >= id + 1}
<1>1. CASE joins = {}
  BY <1>1 DEF ToReplay
<1>2. CASE joins # {}
  <2>1. joins \subseteq 1..Len(buffer) /\ Len(buffer) \in Nat /\ buffer \in Seq(Event)
    BY DEF TypeOK
  <2>2. Min(joins) \in joins
    <3>1. joins \subseteq Nat
      BY <2>1
    <3> HIDE DEF joins
    <3> QED BY <1>2, <3>1, MinExists
  <2> DEFINE f == Min(joins)
  <2>3. f \in 1..Len(buffer) /\ buffer[f].U <= id + 1 /\ buffer[f].u >= id + 1
    BY <2>1, <2>2
  <2>4. ToReplay(id) = SubSeq(buffer, f, Len(buffer))
    BY <1>2 DEF ToReplay
  <2> HIDE DEF f, joins
  <2>5. \A i \in f..Len(buffer) : buffer[i] \in Event
    BY <2>1, <2>3
  <2>6. /\ ToReplay(id) \in Seq(Event)
        /\ Len(ToReplay(id)) = Len(buffer) - f + 1
        /\ \A i \in 1..(Len(buffer) - f + 1) : ToReplay(id)[i] = buffer[f + i - 1]
    BY <2>1, <2>3, <2>4, <2>5, SubSeqProperties
  <2> QED BY <2>3, <2>6
<1> QED BY <1>1, <1>2
-----------------------------------------------------------------------------
(***************************************************************************)
(* Types                                                                   *)
(***************************************************************************)

\* What the book may be when Follow takes the message.
Stands(s) ==
    /\ s.book \in Books /\ s.suspect \subseteq Levels
    /\ s.base \in {Base} \cup 0..Latest /\ s.previous \in Nat

\* Following one update gives a well-typed book, id and future.
LEMMA FollowType ==
    ASSUME TypeOK, NEW update \in Event, NEW s, Stands(s), Follow(update, s)
    PROVE  /\ book' \in Books /\ suspect' \subseteq Levels
           /\ base' \in {Base} \cup 0..Latest /\ previous' \in Nat
           /\ future' \in {"asked", "none"}
<1>1. CASE s.previous + 1 < update.U
  <2>1. Empty \in Books
    BY StreamAssumption DEF Empty, Books
  <2> QED BY <1>1, <2>1 DEF Follow, Stands
<1>2. CASE ~(s.previous + 1 < update.U)
  <2>1. <<update>> \in Seq(Event)
    OBVIOUS
  <2>2. Update(s.book, <<update>>) \in Books
    BY <2>1, UpdateType DEF Stands
  <2> QED BY <1>2, <2>2, EventType DEF Follow, Stands
<1> QED BY <1>1, <1>2

\* The message OnMessage takes.
LEMMA HeadType ==
    ASSUME TypeOK, net # <<>>
    PROVE  /\ Head(net) \in Event /\ Head(net) = net[1] /\ Tail(net) \in Seq(Event)
           /\ Len(net) \in Nat /\ Len(net) >= 1 /\ Len(Tail(net)) = Len(net) - 1
           /\ \A i \in 1..Len(Tail(net)) : Tail(net)[i] = net[i + 1]
BY HeadTailProperties DEF TypeOK

\* Where the book stands when the snapshot and the buffer have been put on it.
Replayed(id) ==
    LET replay == ToReplay(id)
        left == {l \in Levels : book[l] # 0 /\ BookAt(id)[l] = 0}
    IN  [book |-> Update(book, <<Snapshot(id)>> \o replay),
         suspect |-> left \ Covered(replay),
         base |-> id,
         previous |-> IF replay = <<>> THEN id ELSE replay[Len(replay)].u]

\* The replay of the buffered updates after a snapshot ends in a well-typed state.
LEMMA ReplayedStands ==
    ASSUME TypeOK
    PROVE  Stands(Replayed(snapshotId))
<1>1. snapshotId \in 0..Latest /\ snapshotId \in Nat /\ book \in Books
  BY DEF TypeOK, Latest
<1>2. Snapshot(snapshotId) \in Event /\ <<Snapshot(snapshotId)>> \in Seq(Event)
  BY <1>1, SnapshotType
<1>3. ToReplay(snapshotId) \in Seq(Event)
  BY <1>1, ReplayType
<1>4. <<Snapshot(snapshotId)>> \o ToReplay(snapshotId) \in Seq(Event)
  BY <1>2, <1>3, ConcatProperties
<1>5. Update(book, <<Snapshot(snapshotId)>> \o ToReplay(snapshotId)) \in Books
  BY <1>1, <1>4, UpdateType
<1>6. ToReplay(snapshotId) # <<>> =>
         ToReplay(snapshotId)[Len(ToReplay(snapshotId))].u \in Nat
  <2>1. ToReplay(snapshotId) # <<>> =>
           ToReplay(snapshotId)[Len(ToReplay(snapshotId))] \in Event
    BY <1>3
  <2> QED BY <2>1, EventType
<1> QED BY <1>1, <1>5, <1>6 DEF Replayed, Stands

\* The depth update the exchange sends.
LEMMA DepthUpdateType ==
    ASSUME TypeOK
    PROVE  /\ DepthUpdate \in Event
           /\ DepthUpdate.U = emitted + 1 /\ DepthUpdate.u = Latest
           /\ DOMAIN DepthUpdate.levels = touched
           /\ \A l \in touched : DepthUpdate.levels[l] = BookAt(Latest)[l]
<1>1. emitted + 1 \in Nat /\ Latest \in Nat /\ Latest \in 0..Latest
  BY DEF TypeOK, Latest
<1>2. BookAt(Latest) \in Books
  BY <1>1, SnapshotType
<1>3. touched \in SUBSET Levels
        /\ [l \in touched |-> BookAt(Latest)[l]] \in [touched -> Quantities]
  BY <1>2 DEF TypeOK, Books
<1>4. DepthUpdate \in Event
  BY <1>1, <1>3, EventMade DEF DepthUpdate
<1> QED BY <1>4 DEF DepthUpdate

\* The first state is well typed.
LEMMA TypeInit == Init => TypeOK
<1> SUFFICES ASSUME Init PROVE TypeOK
  OBVIOUS
<1>1. PICK b \in Books : history = <<b>>
  BY DEF Init
<1>2. history \in Seq(Books) /\ Len(history) = 1
  BY <1>1
<1>3. Empty \in Books /\ Garbage \subseteq Nat
  BY StreamAssumption DEF Empty, Books
<1>4. Latest = 0 /\ <<>> \in Seq(Event)
  BY <1>2 DEF Latest
<1>5. previous \in Nat /\ net \in Seq(Event) /\ buffer \in Seq(Event) /\ book \in Books
  BY <1>3, <1>4 DEF Init
<1>6. {connects, losses, failures} \subseteq Nat
  BY DEF Init
<1>7. emitted \in 0..Latest /\ snapshotId \in 0..Latest
  BY <1>4 DEF Init
<1>8. base \in {Base} \cup 0..Latest /\ touched \subseteq Levels /\ suspect \subseteq Levels
  BY DEF Init
<1>9. /\ link \in {"open", "closed"} /\ lostInReply \in BOOLEAN
      /\ future \in {"none", "asked", "answered", "ready", "failed"}
  BY DEF Init
<1> QED BY <1>2, <1>5, <1>6, <1>7, <1>8, <1>9 DEF TypeOK

\* Every step keeps the types.
LEMMA TypeStep == TypeOK /\ [Next]_vars => TypeOK'
<1> SUFFICES ASSUME TypeOK, [Next]_vars PROVE TypeOK'
  OBVIOUS
<1>0. {connects, losses, failures} \subseteq Nat
  BY DEF TypeOK
<1>1. ASSUME NEW l \in Levels, NEW q \in Quantities, ExchangeChange(l, q) PROVE TypeOK'
  <2>1. Latest \in 0..Latest
    BY DEF TypeOK, Latest
  <2>2. BookAt(Latest) \in Books
    BY <2>1, SnapshotType
  <2>3. [BookAt(Latest) EXCEPT ![l] = q] \in Books
    BY <2>2 DEF Books
  <2>4. history' \in Seq(Books) /\ Len(history') = Len(history) + 1
    BY <1>1, <2>3, AppendProperties DEF ExchangeChange, TypeOK
  <2> QED BY <1>1, <2>4
        DEF ExchangeChange, TypeOK, Latest, Base, requestVars, bookVars, countVars
<1>2. CASE ExchangeEmit
  <2>1. net' \in Seq(Event)
    <3>1. net \in Seq(Event) /\ DepthUpdate \in Event
      BY DepthUpdateType DEF TypeOK
    <3>2. Append(net, DepthUpdate) \in Seq(Event)
      BY <3>1, AppendProperties
    <3>3. net' = net \/ net' = Append(net, DepthUpdate)
      BY <1>2 DEF ExchangeEmit
    <3> QED BY <3>1, <3>2, <3>3
  <2>2. losses' \in Nat /\ lostInReply' \in BOOLEAN
    <3>1. losses' = losses \/ losses' = losses + 1
      BY <1>2 DEF ExchangeEmit
    <3>2. lostInReply' = lostInReply \/ lostInReply' = (lostInReply \/ future = "answered")
      BY <1>2 DEF ExchangeEmit
    <3>3. losses' \in Nat
      BY <1>0, <3>1
    <3>4. lostInReply' \in BOOLEAN
      BY <3>2 DEF TypeOK
    <3> QED BY <3>3, <3>4
  <2> QED BY <1>2, <2>1, <2>2
        DEF ExchangeEmit, TypeOK, Latest, Base, requestVars, bookVars
<1>3. CASE SnapshotAnswered
  BY <1>3 DEF SnapshotAnswered, TypeOK, Latest, exchangeVars, bookVars, countVars
<1>4. CASE SnapshotReady
  BY <1>4 DEF SnapshotReady, TypeOK, Latest, exchangeVars, bookVars, countVars
<1>5. CASE SnapshotFailed
  BY <1>0, <1>5 DEF SnapshotFailed, TypeOK, Latest, exchangeVars, bookVars
<1>6. CASE OnClose
  BY <1>6 DEF OnClose, TypeOK, Latest, exchangeVars, requestVars, bookVars, countVars
<1>7. CASE OnOpen
  BY <1>0, <1>7 DEF OnOpen, TypeOK, Latest, exchangeVars, bookVars
<1>8. CASE OnMessage
  <2>1. net # <<>> /\ net' = Tail(net)
    BY <1>8 DEF OnMessage
  <2>2. Head(net) \in Event /\ net' \in Seq(Event)
    BY <2>1, HeadType
  <2>3. buffer' \in Seq(Event)
    <3>1. buffer \in Seq(Event) /\ Append(buffer, Head(net)) \in Seq(Event)
            /\ <<>> \in Seq(Event)
      BY <2>2, AppendProperties DEF TypeOK
    <3>2. buffer' \in {buffer, Append(buffer, Head(net)), <<>>}
      BY <1>8 DEF OnMessage, BufferUpdate, SnapshotThrows, ApplySnapshot, ApplyUpdate, bookVars
    <3> QED BY <3>1, <3>2
  <2>4. /\ book' \in Books /\ suspect' \subseteq Levels
        /\ base' \in {Base} \cup 0..Latest /\ previous' \in Nat
        /\ future' \in {"none", "asked", "answered", "ready", "failed"}
        /\ snapshotId' = snapshotId
    <3>1. CASE BufferUpdate(Head(net))
      BY <3>1 DEF BufferUpdate, TypeOK, requestVars
    <3>2. CASE SnapshotThrows(Head(net))
      BY <3>2 DEF SnapshotThrows, TypeOK, bookVars
    <3>3. CASE ApplySnapshot(Head(net))
      <4>1. Follow(Head(net), Replayed(snapshotId)) /\ snapshotId' = snapshotId
        BY <3>3 DEF ApplySnapshot, Replayed
      <4> QED BY <2>2, <4>1, ReplayedStands, FollowType
    <3>4. CASE ApplyUpdate(Head(net))
      <4> DEFINE s == [book |-> book, suspect |-> suspect, base |-> base,
                       previous |-> previous]
      <4>1. Follow(Head(net), s) /\ snapshotId' = snapshotId
        BY <3>4 DEF ApplyUpdate
      <4>2. Stands(s)
        BY DEF Stands, TypeOK
      <4> HIDE DEF s
      <4> QED BY <2>2, <4>1, <4>2, FollowType
    <3> QED BY <1>8, <3>1, <3>2, <3>3, <3>4 DEF OnMessage
  <2> QED BY <1>8, <2>2, <2>3, <2>4
        DEF OnMessage, TypeOK, Latest, exchangeVars, countVars
<1>9. CASE UNCHANGED vars
  BY <1>9 DEF vars, TypeOK, Latest, exchangeVars, requestVars, bookVars, countVars
<1> QED BY <1>1, <1>2, <1>3, <1>4, <1>5, <1>6, <1>7, <1>8, <1>9 DEF Next
-----------------------------------------------------------------------------
(***************************************************************************)
(* Streams of depth updates                                                *)
(***************************************************************************)

\* What was true of a depth update stays true as the history grows.
LEMMA GoodKept ==
    ASSUME NEW h, NEW h2, NEW n \in Nat, NEW n2 \in Nat, n <= n2,
           \A k \in 0..n : h2[k + 1] = h[k + 1],
           NEW e \in Event, Good(h, n, e)
    PROVE  Good(h2, n2, e)
<1>1. e.U \in Nat /\ e.u \in Nat /\ 1 <= e.U /\ e.U <= e.u /\ e.u <= n
  BY EventType DEF Good
<1>2. h2[e.u + 1] = h[e.u + 1] /\ \A k \in (e.U - 1)..e.u : h2[k + 1] = h[k + 1]
  BY <1>1
<1> QED BY <1>1, <1>2 DEF Good

\* Updates stay true when the exchange changes its book once more.
LEMMA AllGoodKept ==
    ASSUME NEW h, NEW h2, NEW n \in Nat, NEW n2 \in Nat, n <= n2,
           \A k \in 0..n : h2[k + 1] = h[k + 1],
           NEW s \in Seq(Event), AllGood(h, n, s)
    PROVE  AllGood(h2, n2, s)
<1> SUFFICES ASSUME NEW i \in 1..Len(s) PROVE Good(h2, n2, s[i])
  BY DEF AllGood
<1>1. s[i] \in Event /\ Good(h, n, s[i])
  BY DEF AllGood
<1> QED BY <1>1, GoodKept

\* A gapless sequence stays gapless when the exchange changes its book once more.
LEMMA CompleteKept ==
    ASSUME NEW h, NEW h2, NEW n \in Nat, NEW id,
           \A k \in 0..n : h2[k + 1] = h[k + 1],
           NEW s \in Seq(Event), AllGood(h, n, s), Complete(h, id, s)
    PROVE  Complete(h2, id, s)
<1>1. ASSUME NEW i \in 1..Len(s) PROVE h2[s[i].u + 1] = h[s[i].u + 1]
  <2>1. s[i] \in Event /\ s[i].u <= n
    BY DEF AllGood, Good
  <2> QED BY <2>1, EventType
<1> QED BY <1>1 DEF Complete

\* Some updates of s, picked in their order.
Part(t, s, at) ==
    \A i \in 1..Len(t) : /\ at[i] \in 1..Len(s) /\ t[i] = s[at[i]]
                         /\ \A j \in 1..Len(t) : i <= j => at[i] <= at[j]

\* A part of the updates in flight is as true and as ordered as the whole.
LEMMA PartKept ==
    ASSUME NEW h, NEW n, NEW s \in Seq(Event), NEW t \in Seq(Event), NEW at,
           Part(t, s, at), AllGood(h, n, s), Sorted(s)
    PROVE  AllGood(h, n, t) /\ Sorted(t)
<1>1. AllGood(h, n, t)
  BY DEF AllGood, Part
<1>2. ASSUME NEW i \in 1..Len(t), NEW j \in 1..Len(t), i <= j PROVE t[i].u <= t[j].u
  <2>1. /\ at[i] \in 1..Len(s) /\ at[j] \in 1..Len(s) /\ at[i] <= at[j]
        /\ t[i] = s[at[i]] /\ t[j] = s[at[j]]
    BY <1>2 DEF Part
  <2> QED BY <2>1 DEF Sorted
<1> QED BY <1>1, <1>2 DEF Sorted

\* The first updates of s.
First(t, s) == \A i \in 1..Len(t) : i \in 1..Len(s) /\ t[i] = s[i]

\* The first updates of a gapless sequence have no gap either.
LEMMA CompleteFirst ==
    ASSUME NEW h, NEW id, NEW s \in Seq(Event), NEW t \in Seq(Event), First(t, s),
           Complete(h, id, s)
    PROVE  Complete(h, id, t)
<1> SUFFICES ASSUME NEW i \in 1..Len(t), NEW j \in 1..Len(t), i <= j, t[i].u > id,
                    NEW l \in Levels,
                    \A m \in (i + 1)..j : l \notin DOMAIN t[m].levels
             PROVE  h[t[i].u + 1][l] = h[t[j].u + 1][l]
  BY DEF Complete
<1>1. \A m \in 1..Len(t) : m \in 1..Len(s) /\ t[m] = s[m]
  BY DEF First
<1>2. \A m \in (i + 1)..j : l \notin DOMAIN s[m].levels
  BY <1>1
<1> QED BY <1>1, <1>2 DEF Complete

\* The stream is the buffer, then the updates on their way.
LEMMA StreamParts ==
    ASSUME TypeOK
    PROVE  /\ Stream \in Seq(Event) /\ Len(Stream) = Len(buffer) + Len(net)
           /\ Len(buffer) \in Nat /\ Len(net) \in Nat
           /\ \A i \in 1..Len(buffer) : Stream[i] = buffer[i]
           /\ \A i \in 1..Len(net) : Stream[Len(buffer) + i] = net[i]
           /\ First(buffer, Stream)
           /\ Part(buffer, Stream, [i \in 1..Len(buffer) |-> i])
           /\ Part(net, Stream, [i \in 1..Len(net) |-> Len(buffer) + i])
<1>1. buffer \in Seq(Event) /\ net \in Seq(Event) /\ Len(buffer) \in Nat /\ Len(net) \in Nat
  BY DEF TypeOK
<1>2. /\ Stream \in Seq(Event) /\ Len(Stream) = Len(buffer) + Len(net)
      /\ \A i \in 1..(Len(buffer) + Len(net)) :
            Stream[i] = IF i <= Len(buffer) THEN buffer[i] ELSE net[i - Len(buffer)]
  BY <1>1, ConcatProperties DEF Stream
<1>3. \A i \in 1..Len(buffer) : Stream[i] = buffer[i]
  BY <1>1, <1>2
<1>4. ASSUME NEW i \in 1..Len(net) PROVE Stream[Len(buffer) + i] = net[i]
  <2>1. Len(buffer) + i \in 1..(Len(buffer) + Len(net)) /\ ~(Len(buffer) + i <= Len(buffer))
          /\ (Len(buffer) + i) - Len(buffer) = i
    BY <1>1
  <2> QED BY <1>2, <2>1
<1>5. First(buffer, Stream) /\ Part(buffer, Stream, [i \in 1..Len(buffer) |-> i])
  BY <1>1, <1>2, <1>3 DEF First, Part
<1>6. Part(net, Stream, [i \in 1..Len(net) |-> Len(buffer) + i])
  BY <1>1, <1>2, <1>4 DEF Part
<1> QED BY <1>1, <1>2, <1>3, <1>4, <1>5, <1>6
-----------------------------------------------------------------------------
(***************************************************************************)
(* One update, and the replay of a buffer                                  *)
(***************************************************************************)

\* An update that leaves out no change after p takes the book to its own id.
LEMMA FollowShows ==
    ASSUME NEW h, NEW n, NEW lost, NEW e \in Event, Good(h, n, e),
           NEW bk, NEW S, NEW b \in Nat, NEW p \in Nat,
           p = b \/ p <= e.u, e.U <= p + 1, Shows(h, lost, bk, S, b, p)
    PROVE  Shows(h, lost, Update(bk, <<e>>), S \ Covered(<<e>>), b, e.u)
<1> DEFINE new == Update(bk, <<e>>)
<1>1. e.U \in Nat /\ e.u \in Nat /\ 1 <= e.U /\ e.U <= e.u
  BY EventType DEF Good
<1>2. ASSUME NEW l \in Levels, l \in DOMAIN e.levels PROVE new[l] = h[e.u + 1][l]
  BY <1>2, UpdateOne DEF Good
<1>3. ASSUME NEW l \in Levels, l \notin DOMAIN e.levels
      PROVE  /\ new[l] = bk[l]
             /\ \A k \in (e.U - 1)..e.u : h[k + 1][l] = h[e.u + 1][l]
  BY <1>3, UpdateOne DEF Good
<1>4. \A l \in Levels \ (S \ Covered(<<e>>)) : l \in DOMAIN e.levels \/ l \notin S
  BY UpdateOne
<1> HIDE DEF new
<1>5. ASSUME e.u < b, NEW l \in Levels \ (S \ Covered(<<e>>))
      PROVE  new[l] \in {h[b + 1][l], h[e.u + 1][l]}
  <2>1. CASE l \in DOMAIN e.levels
    BY <1>2, <2>1
  <2>2. CASE l \notin DOMAIN e.levels
    <3>1. l \in Levels \ S /\ new[l] = bk[l]
      BY <1>3, <1>4, <2>2
    <3>2. CASE p = b
      BY <3>1, <3>2 DEF Shows
    <3>3. CASE p # b
      <4>1. p < b /\ p \in (e.U - 1)..e.u
        BY <1>1, <1>5, <3>3
      <4>2. h[p + 1][l] = h[e.u + 1][l]
        BY <1>3, <2>2, <4>1
      <4>3. bk[l] \in {h[b + 1][l], h[p + 1][l]}
        BY <3>1, <4>1 DEF Shows
      <4> QED BY <3>1, <4>2, <4>3
    <3> QED BY <3>2, <3>3
  <2> QED BY <2>1, <2>2
<1>6. ASSUME e.u >= b, e.u = b \/ ~lost, NEW l \in Levels \ (S \ Covered(<<e>>))
      PROVE  new[l] = h[e.u + 1][l]
  <2>1. CASE l \in DOMAIN e.levels
    BY <1>2, <2>1
  <2>2. CASE l \notin DOMAIN e.levels
    <3>1. l \in Levels \ S /\ new[l] = bk[l]
      BY <1>3, <1>4, <2>2
    <3>2. p \in (e.U - 1)..e.u
      BY <1>1, <1>6
    <3>3. h[p + 1][l] = h[e.u + 1][l]
      BY <1>3, <2>2, <3>2
    <3>4. CASE p < b
      <4>1. b \in (e.U - 1)..e.u
        BY <1>1, <1>6, <3>2, <3>4
      <4>2. h[b + 1][l] = h[e.u + 1][l]
        BY <1>3, <2>2, <4>1
      <4>3. bk[l] \in {h[b + 1][l], h[p + 1][l]}
        BY <3>1, <3>4 DEF Shows
      <4> QED BY <3>1, <3>3, <4>2, <4>3
    <3>5. CASE p >= b
      <4>1. p = b \/ ~lost
        BY <1>1, <1>6, <3>2, <3>5
      <4>2. bk[l] = h[p + 1][l]
        BY <3>1, <3>5, <4>1 DEF Shows
      <4> QED BY <3>1, <3>3, <4>2
    <3> QED BY <3>4, <3>5
  <2> QED BY <2>1, <2>2
<1> QED BY <1>5, <1>6 DEF new, Shows

\* The snapshot and the replay make a book of the exchange's at the last update
\* replayed, if none was lost while the reply was under way.
LEMMA ReplayShows ==
    ASSUME TypeOK, Updates, Reply, future = "ready", NEW l \in Levels,
           l \notin Replayed(snapshotId).suspect,
           ToReplay(snapshotId) = <<>> \/ ~lostInReply
    PROVE  Replayed(snapshotId).book[l] = BookAt(Replayed(snapshotId).previous)[l]
<1> DEFINE id == snapshotId
           replay == ToReplay(id)
           all == <<Snapshot(id)>> \o replay
<1>1. id \in 0..Latest /\ id \in Nat /\ buffer \in Seq(Event) /\ Len(buffer) \in Nat
  BY DEF TypeOK, Latest
<1>2. /\ Snapshot(id) \in Event /\ <<Snapshot(id)>> \in Seq(Event)
      /\ DOMAIN Snapshot(id).levels = {m \in Levels : BookAt(id)[m] # 0}
      /\ \A m \in DOMAIN Snapshot(id).levels : Snapshot(id).levels[m] = BookAt(id)[m]
  BY <1>1, SnapshotType
<1>3. /\ replay \in Seq(Event)
      /\ replay # <<>> =>
            \E f \in 1..Len(buffer) :
               /\ buffer[f].U <= id + 1 /\ buffer[f].u >= id + 1
               /\ Len(replay) = Len(buffer) - f + 1
               /\ \A i \in 1..Len(replay) : replay[i] = buffer[f + i - 1]
  BY <1>1, ReplayType
<1> HIDE DEF replay
<1>4. /\ all \in Seq(Event) /\ Len(all) = 1 + Len(replay) /\ Len(replay) \in Nat
      /\ all[1] = Snapshot(id) /\ \A i \in 1..Len(replay) : all[i + 1] = replay[i]
  <2>1. /\ all \in Seq(Event) /\ Len(all) = 1 + Len(replay) /\ Len(replay) \in Nat
        /\ \A i \in 1..(1 + Len(replay)) :
              all[i] = IF i <= 1 THEN <<Snapshot(id)>>[i] ELSE replay[i - 1]
    BY <1>2, <1>3, ConcatProperties
  <2> HIDE DEF all
  <2>2. ASSUME NEW i \in 1..Len(replay) PROVE all[i + 1] = replay[i]
    <3>1. i + 1 \in 1..(1 + Len(replay)) /\ ~(i + 1 <= 1) /\ (i + 1) - 1 = i
      BY <2>1
    <3> QED BY <2>1, <3>1
  <2>3. 1 \in 1..(1 + Len(replay)) /\ 1 <= 1 /\ <<Snapshot(id)>>[1] = Snapshot(id)
    BY <2>1
  <2> QED BY <2>1, <2>2, <2>3
<1>5. Replayed(id).book = Update(book, all)
  BY DEF Replayed, replay
<1>6. Replayed(id).suspect = {m \in Levels : book[m] # 0 /\ BookAt(id)[m] = 0} \ Covered(replay)
  BY DEF Replayed, replay
<1>7. Replayed(id).previous = IF replay = <<>> THEN id ELSE replay[Len(replay)].u
  BY DEF Replayed, replay
<1> HIDE DEF all
\* A level the replay does not name is as in the snapshot.
<1>8. ASSUME \A i \in 1..Len(replay) : l \notin DOMAIN replay[i].levels
      PROVE  Update(book, all)[l] = BookAt(id)[l]
  <2>1. l \notin Covered(replay)
    BY <1>3, <1>8 DEF Covered
  <2>2. \A i \in Hits(all, l) : i = 1
    <3> SUFFICES ASSUME NEW i \in Hits(all, l), i # 1 PROVE FALSE
      OBVIOUS
    <3>1. i \in 1..Len(all) /\ l \in DOMAIN all[i].levels
      BY <1>4 DEF Hits
    <3>2. i - 1 \in 1..Len(replay) /\ (i - 1) + 1 = i
      BY <1>4, <3>1
    <3>3. all[i] = replay[i - 1]
      BY <1>4, <3>2
    <3> QED BY <1>8, <3>1, <3>2, <3>3
  <2>3. CASE BookAt(id)[l] # 0
    <3>1. l \in DOMAIN Snapshot(id).levels
      BY <1>2, <2>3
    <3>2. 1 \in Hits(all, l)
      BY <1>4, <3>1 DEF Hits
    <3>3. PICK m \in Hits(all, l) : Update(book, all)[l] = all[m].levels[l]
      BY <1>4, <3>2, UpdateValue
    <3> QED BY <1>2, <1>4, <2>2, <3>1, <3>3
  <2>4. CASE BookAt(id)[l] = 0
    <3>1. l \notin DOMAIN Snapshot(id).levels
      BY <1>2, <2>4
    <3>2. Hits(all, l) = {}
      BY <1>4, <2>2, <3>1 DEF Hits
    <3>3. Update(book, all)[l] = book[l]
      BY <1>4, <3>2, UpdateValue
    <3>4. book[l] = 0
      BY <1>6, <2>1, <2>4
    <3> QED BY <2>4, <3>3, <3>4
  <2> QED BY <2>3, <2>4
<1>9. CASE replay = <<>>
  <2>1. \A i \in 1..Len(replay) : l \notin DOMAIN replay[i].levels
    BY <1>9
  <2> QED BY <1>5, <1>7, <1>8, <1>9, <2>1
<1>10. CASE replay # <<>>
  <2>1. ~lostInReply
    BY <1>10 DEF replay
  <2>2. Complete(history, id, buffer)
    BY <2>1 DEF Reply
  <2>3. AllGood(history, emitted, buffer) /\ Sorted(buffer)
    BY <1>1, StreamParts, PartKept DEF Updates
  <2>4. PICK f \in 1..Len(buffer) :
               /\ buffer[f].U <= id + 1 /\ buffer[f].u >= id + 1
               /\ Len(replay) = Len(buffer) - f + 1
               /\ \A i \in 1..Len(replay) : replay[i] = buffer[f + i - 1]
    BY <1>3, <1>10
  <2> DEFINE last == Len(buffer)
  <2>5. replay[Len(replay)] = buffer[last] /\ Replayed(id).previous = buffer[last].u
    <3>1. Len(replay) \in 1..Len(replay) /\ f + Len(replay) - 1 = last
      BY <2>4
    <3>2. replay[Len(replay)] = buffer[f + Len(replay) - 1]
      BY <2>4, <3>1
    <3> QED BY <1>7, <1>10, <3>1, <3>2
  <2>6. \A i \in f..last : buffer[i] \in Event /\ buffer[i].u > id
    <3> TAKE i \in f..last
    <3>1. i \in 1..Len(buffer) /\ f <= i
      OBVIOUS
    <3>2. buffer[f].u <= buffer[i].u
      BY <2>3, <3>1 DEF Sorted
    <3>3. buffer[i] \in Event /\ buffer[f] \in Event
      BY <1>1, <3>1
    <3>4. buffer[i].u \in Nat /\ buffer[f].u \in Nat
      BY <3>3, EventType
    <3> QED BY <1>1, <2>4, <3>2, <3>3, <3>4
  <2>7. last \in f..last /\ last \in 1..Len(buffer)
    OBVIOUS
  <2>8. CASE \A i \in 1..Len(replay) : l \notin DOMAIN replay[i].levels
    <3>1. Update(book, all)[l] = BookAt(id)[l]
      BY <1>8, <2>8
    <3>2. ASSUME NEW m \in f..last PROVE l \notin DOMAIN buffer[m].levels
      <4>1. m - f + 1 \in 1..Len(replay) /\ f + (m - f + 1) - 1 = m
        BY <2>4
      <4> QED BY <2>4, <2>8, <4>1
    <3>3. BookAt(id)[l] = history[buffer[f].u + 1][l]
      <4>1. Good(history, emitted, buffer[f]) /\ l \notin DOMAIN buffer[f].levels
        BY <2>3, <3>2 DEF AllGood
      <4>2. buffer[f].U \in Nat /\ buffer[f].u \in Nat
        BY <1>1, EventType
      <4>3. id \in (buffer[f].U - 1)..buffer[f].u
        BY <1>1, <2>4, <4>2
      <4> QED BY <4>1, <4>3 DEF Good, BookAt
    <3>4. history[buffer[f].u + 1][l] = history[buffer[last].u + 1][l]
      <4>1. \A m \in (f + 1)..last : l \notin DOMAIN buffer[m].levels
        BY <3>2
      <4>2. f <= last /\ buffer[f].u > id
        BY <2>6
      <4> QED BY <2>2, <2>7, <4>1, <4>2 DEF Complete
    <3> QED BY <1>5, <2>5, <3>1, <3>3, <3>4 DEF BookAt
  <2>9. CASE \E i \in 1..Len(replay) : l \in DOMAIN replay[i].levels
    <3>1. PICK i0 \in 1..Len(replay) : l \in DOMAIN replay[i0].levels
      BY <2>9
    <3>2. i0 + 1 \in Hits(all, l) /\ i0 + 1 > 1
      BY <1>4, <3>1 DEF Hits
    <3>3. PICK m \in Hits(all, l) : /\ \A i \in Hits(all, l) : i <= m
                                   /\ Update(book, all)[l] = all[m].levels[l]
      <4>1. all \in Seq(Event) /\ Hits(all, l) # {}
        BY <1>4, <3>2
      <4>2. Hits(all, l) # {} =>
               \E m \in Hits(all, l) : /\ \A i \in Hits(all, l) : i <= m
                                       /\ Update(book, all)[l] = all[m].levels[l]
        BY <4>1, UpdateValue
      <4> QED BY <4>1, <4>2
    <3>4. m \in 1..Len(all) /\ l \in DOMAIN all[m].levels /\ m > 1
      BY <1>4, <3>2, <3>3 DEF Hits
    <3> DEFINE g == f + m - 2
    <3>5. /\ m - 1 \in 1..Len(replay) /\ (m - 1) + 1 = m /\ f + (m - 1) - 1 = g
          /\ g \in f..last /\ g \in 1..Len(buffer)
      BY <1>4, <2>4, <3>4
    <3>6. all[m] = buffer[g]
      BY <1>4, <2>4, <3>5
    <3>7. Update(book, all)[l] = history[buffer[g].u + 1][l]
      <4>1. Good(history, emitted, buffer[g]) /\ l \in DOMAIN buffer[g].levels
        BY <2>3, <3>4, <3>5, <3>6 DEF AllGood
      <4> QED BY <3>3, <3>6, <4>1 DEF Good
    <3>8. ASSUME NEW k \in (g + 1)..last PROVE l \notin DOMAIN buffer[k].levels
      <4>1. /\ k - f + 1 \in 1..Len(replay) /\ f + (k - f + 1) - 1 = k
            /\ k - f + 2 \in 1..Len(all) /\ (k - f + 1) + 1 = k - f + 2 /\ k - f + 2 > m
        BY <1>1, <1>4, <2>4, <3>4
      <4>2. all[k - f + 2] = buffer[k]
        BY <1>4, <2>4, <4>1
      <4>3. k - f + 2 \notin Hits(all, l)
        BY <3>3, <3>4, <4>1
      <4>4. DOMAIN all = 1..Len(all)
        BY <1>4
      <4> QED BY <4>1, <4>2, <4>3, <4>4 DEF Hits
    <3>9. history[buffer[g].u + 1][l] = history[buffer[last].u + 1][l]
      <4>1. g <= last /\ buffer[g].u > id
        BY <2>6, <3>5
      <4> HIDE DEF g
      <4> QED BY <2>2, <2>7, <3>5, <3>8, <4>1 DEF Complete
    <3> QED BY <1>5, <2>5, <3>7, <3>9 DEF BookAt
  <2> QED BY <2>8, <2>9
<1> QED BY <1>9, <1>10
-----------------------------------------------------------------------------
(***************************************************************************)
(* The steps                                                               *)
(***************************************************************************)

\* Applying the next update to a book that follows the exchange, or emptying the
\* book on a gap, leaves a book that follows it.
LEMMA FollowFollowing ==
    ASSUME TypeOK, Updates, net # <<>>, NEW s, Stands(s),
           s.base # Base =>
              /\ Ahead(emitted, net, s.base, s.previous)
              /\ Shows(history, lostInReply, s.book, s.suspect, s.base, s.previous),
           Follow(Head(net), s), net' = Tail(net),
           history' = history, emitted' = emitted, lostInReply' = lostInReply
    PROVE  Following'
<1> DEFINE e == Head(net)
<1>1. /\ e \in Event /\ e = net[1] /\ Len(net) \in Nat /\ Len(net) >= 1
      /\ Len(Tail(net)) = Len(net) - 1 /\ \A i \in 1..Len(Tail(net)) : Tail(net)[i] = net[i + 1]
  BY HeadType
<1>2. AllGood(history, emitted, net) /\ Sorted(net)
  BY StreamParts, PartKept DEF Updates, TypeOK
<1>3. Good(history, emitted, e) /\ e.u \in Nat /\ e.U \in Nat /\ e.u <= emitted
  BY <1>1, <1>2, EventType DEF AllGood, Good
<1> HIDE DEF e
<1>4. CASE s.previous + 1 < e.U
  BY <1>4 DEF Follow, Following, e
<1>5. CASE ~(s.previous + 1 < e.U) /\ s.base = Base
  BY <1>5 DEF Follow, Following, e
<1>6. CASE ~(s.previous + 1 < e.U) /\ s.base # Base
  <2>1. /\ book' = Update(s.book, <<e>>) /\ suspect' = s.suspect \ Covered(<<e>>)
        /\ base' = s.base /\ previous' = e.u
    BY <1>6 DEF Follow, e
  <2>2. s.base \in Nat /\ s.previous \in Nat
    BY <1>6 DEF Stands
  <2>3. s.previous = s.base \/ s.previous <= e.u
    BY <1>1, <1>6 DEF Ahead
  <2>4. e.U <= s.previous + 1
    BY <1>3, <1>6, <2>2
  <2>5. Shows(history, lostInReply, book', suspect', base', previous')
    BY <1>1, <1>3, <1>6, <2>1, <2>2, <2>3, <2>4, FollowShows
  <2>6. Ahead(emitted, Tail(net), s.base, e.u)
    <3>1. ASSUME NEW i \in 1..Len(Tail(net)) PROVE e.u <= Tail(net)[i].u
      <4>1. i + 1 \in 1..Len(net) /\ 1 \in 1..Len(net) /\ 1 <= i + 1
        BY <1>1
      <4> QED BY <1>1, <1>2, <4>1 DEF Sorted
    <3> QED BY <1>3, <3>1 DEF Ahead
  <2> QED BY <2>1, <2>5, <2>6 DEF Following
<1> QED BY <1>4, <1>5, <1>6

\* The snapshot and the replay leave the book ready for the message.
LEMMA ReplayedFollowing ==
    ASSUME TypeOK, Updates, Reply, future = "ready"
    PROVE  LET s == Replayed(snapshotId)
           IN  /\ Ahead(emitted, net, s.base, s.previous)
               /\ Shows(history, lostInReply, s.book, s.suspect, s.base, s.previous)
<1> DEFINE s == Replayed(snapshotId)
<1>1. snapshotId \in Nat /\ buffer \in Seq(Event) /\ s.base = snapshotId
  BY DEF TypeOK, Latest, Replayed
<1>2. s.previous = IF ToReplay(snapshotId) = <<>> THEN snapshotId
                   ELSE ToReplay(snapshotId)[Len(ToReplay(snapshotId))].u
  BY DEF Replayed
<1>3. \A l \in Levels \ s.suspect :
         ToReplay(snapshotId) = <<>> \/ ~lostInReply => s.book[l] = history[s.previous + 1][l]
  BY ReplayShows DEF BookAt
<1> HIDE DEF s
<1>4. CASE ToReplay(snapshotId) = <<>>
  <2>1. s.previous = snapshotId
    BY <1>2, <1>4
  <2> QED BY <1>1, <1>3, <1>4, <2>1 DEF s, Ahead, Shows
<1>5. CASE ToReplay(snapshotId) # <<>>
  <2>1. PICK f \in 1..Len(buffer) :
            /\ buffer[f].u >= snapshotId + 1
            /\ Len(ToReplay(snapshotId)) = Len(buffer) - f + 1
            /\ \A i \in 1..Len(ToReplay(snapshotId)) :
                  ToReplay(snapshotId)[i] = buffer[f + i - 1]
    BY <1>1, <1>5, ReplayType
  <2> DEFINE last == Len(buffer)
  <2>2. last \in 1..Len(buffer) /\ f <= last /\ Len(buffer) \in Nat
    BY <1>1
  <2>3. s.previous = buffer[last].u
    <3>1. Len(ToReplay(snapshotId)) \in 1..Len(ToReplay(snapshotId))
            /\ f + Len(ToReplay(snapshotId)) - 1 = last
      BY <2>1, <2>2
    <3> QED BY <1>2, <1>5, <2>1, <3>1
  <2>4. /\ \A i \in 1..Len(buffer) : Stream[i] = buffer[i]
        /\ \A i \in 1..Len(net) : Stream[Len(buffer) + i] = net[i]
        /\ Len(Stream) = Len(buffer) + Len(net) /\ Len(net) \in Nat
    BY StreamParts
  <2>5. Stream[last] = buffer[last] /\ last \in 1..Len(Stream)
    BY <2>2, <2>4
  <2>6. s.previous <= emitted
    BY <2>3, <2>5 DEF Updates, AllGood, Good
  <2>7. ASSUME NEW i \in 1..Len(net) PROVE s.previous <= net[i].u
    <3>1. Len(buffer) + i \in 1..Len(Stream) /\ last <= Len(buffer) + i
      BY <2>2, <2>4
    <3> QED BY <2>3, <2>4, <2>5, <3>1 DEF Updates, Sorted
  <2>8. s.previous > snapshotId
    <3>1. Stream[f].u <= Stream[last].u /\ Stream[f] = buffer[f]
      BY <2>2, <2>4, <2>5 DEF Updates, Sorted
    <3>2. buffer[f] \in Event /\ buffer[last] \in Event
      BY <1>1, <2>2
    <3>3. buffer[f].u \in Nat /\ buffer[last].u \in Nat
      BY <3>2, EventType
    <3> QED BY <1>1, <2>1, <2>3, <2>5, <3>1, <3>3
  <2>9. s.previous \in Nat
    BY ReplayedStands DEF Stands, s
  <2>10. Ahead(emitted, net, s.base, s.previous)
    BY <2>6, <2>7 DEF Ahead
  <2>11. Shows(history, lostInReply, s.book, s.suspect, s.base, s.previous)
    BY <1>1, <1>3, <2>8, <2>9 DEF Shows
  <2> QED BY <2>10, <2>11 DEF s
<1> QED BY <1>4, <1>5
\* The first state satisfies the invariant.
LEMMA InvInit == Init => IInv
<1> SUFFICES ASSUME Init PROVE IInv
  OBVIOUS
<1>1. TypeOK
  BY TypeInit
<1>2. PICK b \in Books : history = <<b>>
  BY DEF Init
<1>3. Latest = 0 /\ emitted = 0 /\ Len(history) = 1
  BY <1>2 DEF Init, Latest
<1>4. Untouched
  BY <1>3 DEF Init, Untouched
<1>5. Len(Stream) = 0
  BY DEF Init, Stream
<1>6. Updates /\ Reply
  BY <1>5 DEF Init, Updates, AllGood, Sorted, Reply
<1>7. Following /\ Connection /\ Unfailed
  BY DEF Init, Following, Connection, Unfailed
<1> QED BY <1>1, <1>4, <1>6, <1>7 DEF IInv

\* The history grows by one change.
LEMMA ChangeHistory ==
    ASSUME TypeOK, NEW l \in Levels, NEW q \in Quantities, ExchangeChange(l, q)
    PROVE  /\ Latest \in Nat /\ Latest' = Latest + 1 /\ emitted \in 0..Latest
           /\ emitted' = emitted
           /\ \A k \in 0..Latest : history'[k + 1] = history[k + 1]
           /\ \A m \in Levels \ {l} : history'[Latest' + 1][m] = history[Latest + 1][m]
<1>1. history \in Seq(Books) /\ Len(history) \in Nat /\ Len(history) >= 1
        /\ emitted \in 0..Latest /\ Latest \in Nat /\ Latest \in 0..Latest
  BY DEF TypeOK, Latest
<1>2. BookAt(Latest) \in Books
  BY <1>1, SnapshotType
<1> DEFINE new == [BookAt(Latest) EXCEPT ![l] = q]
<1>3. new \in Books /\ \A m \in Levels \ {l} : new[m] = history[Latest + 1][m]
  BY <1>2 DEF Books, BookAt
<1>4. history' = Append(history, new) /\ emitted' = emitted
  BY DEF ExchangeChange
<1> HIDE DEF new
<1>5. /\ Len(history') = Len(history) + 1
      /\ \A i \in 1..Len(history) : history'[i] = history[i]
      /\ history'[Len(history) + 1] = new
  BY <1>1, <1>3, <1>4, AppendProperties
<1>6. Latest' = Latest + 1 /\ Latest' + 1 = Len(history) + 1
  BY <1>1, <1>5 DEF Latest
<1>7. \A k \in 0..Latest : k + 1 \in 1..Len(history)
  BY <1>1 DEF Latest
<1> QED BY <1>1, <1>3, <1>4, <1>5, <1>6, <1>7

\* The levels not touched since the last update are as that update left them.
LEMMA UntouchedStep == TypeOK /\ Untouched /\ [Next]_vars => Untouched'
<1> SUFFICES ASSUME TypeOK, Untouched, [Next]_vars PROVE Untouched'
  OBVIOUS
<1>1. ASSUME NEW l \in Levels, NEW q \in Quantities, ExchangeChange(l, q) PROVE Untouched'
  <2>1. touched' = touched \cup {l}
    BY <1>1 DEF ExchangeChange
  <2>2. /\ Latest \in Nat /\ Latest' = Latest + 1 /\ emitted \in 0..Latest
        /\ emitted' = emitted
        /\ \A k \in 0..Latest : history'[k + 1] = history[k + 1]
        /\ \A m \in Levels \ {l} : history'[Latest' + 1][m] = history[Latest + 1][m]
    BY <1>1, ChangeHistory
  <2>3. ASSUME NEW k \in emitted'..Latest', NEW m \in Levels \ touched'
        PROVE  history'[k + 1][m] = history'[Latest' + 1][m]
    <3>1. CASE k = Latest'
      BY <3>1
    <3>2. CASE k # Latest'
      <4>1. k \in emitted..Latest /\ k \in 0..Latest /\ m \in Levels \ touched /\ m # l
        BY <2>1, <2>2, <3>2
      <4>2. history[k + 1][m] = history[Latest + 1][m]
        BY <4>1 DEF Untouched, BookAt
      <4> QED BY <2>2, <4>1, <4>2
    <3> QED BY <3>1, <3>2
  <2> QED BY <2>2, <2>3 DEF Untouched, BookAt
<1>2. CASE ExchangeEmit
  <2>1. Latest' = Latest /\ emitted' = Latest /\ touched' = {} /\ history' = history
    BY <1>2 DEF ExchangeEmit, Latest
  <2>2. Latest \in Nat
    BY DEF TypeOK, Latest
  <2> QED BY <2>1, <2>2 DEF Untouched, BookAt
<1>3. ASSUME UNCHANGED exchangeVars PROVE Untouched'
  BY <1>3 DEF Untouched, exchangeVars, Latest, BookAt
<1>4. SnapshotAnswered \/ SnapshotReady \/ SnapshotFailed \/ OnClose \/ OnOpen \/ OnMessage
        \/ UNCHANGED vars => UNCHANGED exchangeVars
  BY DEF SnapshotAnswered, SnapshotReady, SnapshotFailed, OnClose, OnOpen, OnMessage, vars
<1> QED BY <1>1, <1>2, <1>3, <1>4 DEF Next

\* The message OnMessage takes goes to the buffer's end, or the updates lose it.
LEMMA MessageStream ==
    ASSUME TypeOK, OnMessage
    PROVE  \/ /\ future' = future /\ buffer' = Append(buffer, Head(net)) /\ Stream' = Stream
           \/ /\ future' \in {"none", "asked"} /\ buffer' = buffer /\ net' = Tail(net)
           \/ /\ future' \in {"none", "asked"} /\ buffer' = <<>> /\ net' = Tail(net)
<1>1. net # <<>> /\ net' = Tail(net) /\ buffer \in Seq(Event) /\ net \in Seq(Event)
  BY DEF OnMessage, TypeOK
<1>2. CASE BufferUpdate(Head(net))
  <2>1. future' = future /\ buffer' = Append(buffer, Head(net))
    BY <1>2 DEF BufferUpdate, requestVars
  <2>2. Append(buffer, Head(net)) \o Tail(net) = buffer \o net
    BY <1>1
  <2> QED BY <1>1, <2>1, <2>2 DEF Stream
<1>3. CASE SnapshotThrows(Head(net))
  BY <1>1, <1>3 DEF SnapshotThrows, bookVars
<1>4. CASE ApplySnapshot(Head(net))
  BY <1>1, <1>4 DEF ApplySnapshot, Follow
<1>5. CASE ApplyUpdate(Head(net))
  BY <1>1, <1>5 DEF ApplyUpdate, Follow
<1> QED BY <1>2, <1>3, <1>4, <1>5 DEF OnMessage
\* What the exchange sends is true and in order, and loss or buffering keeps it so.
LEMMA UpdatesStep == TypeOK /\ Untouched /\ Updates /\ [Next]_vars => Updates'
<1> SUFFICES ASSUME TypeOK, Untouched, Updates, [Next]_vars PROVE Updates'
  OBVIOUS
<1>0. /\ Stream \in Seq(Event) /\ AllGood(history, emitted, Stream) /\ Sorted(Stream)
      /\ Latest \in Nat /\ emitted \in Nat /\ emitted <= Latest
  BY StreamParts DEF Updates, TypeOK, Latest
<1>1. ASSUME NEW l \in Levels, NEW q \in Quantities, ExchangeChange(l, q) PROVE Updates'
  <2>1. Stream' = Stream
    BY <1>1 DEF ExchangeChange, Stream, bookVars
  <2>2. emitted' = emitted /\ \A k \in 0..emitted : history'[k + 1] = history[k + 1]
    BY <1>0, <1>1, ChangeHistory
  <2> DEFINE after == history'
  <2>3. emitted <= emitted /\ \A k \in 0..emitted : after[k + 1] = history[k + 1]
    BY <1>0, <2>2
  <2> HIDE DEF after
  <2>4. AllGood(after, emitted, Stream)
    BY <1>0, <2>3, AllGoodKept
  <2> QED BY <1>0, <2>1, <2>2, <2>4 DEF Updates, after
<1>2. CASE ExchangeEmit
  <2>1. history' = history /\ emitted' = Latest /\ touched # {} /\ buffer' = buffer
    BY <1>2 DEF ExchangeEmit, bookVars
  <2>2. AllGood(history, Latest, Stream)
    BY <1>0, AllGoodKept
  <2>3. CASE net' = net
    <3>1. Stream' = Stream
      BY <2>1, <2>3 DEF Stream
    <3> QED BY <1>0, <2>1, <2>2, <3>1 DEF Updates
  <2>4. CASE net' = Append(net, DepthUpdate)
    <3> DEFINE e == DepthUpdate
    <3>1. /\ e \in Event /\ e.U = emitted + 1 /\ e.u = Latest /\ DOMAIN e.levels = touched
          /\ \A l \in touched : e.levels[l] = BookAt(Latest)[l]
      BY DepthUpdateType
    <3> HIDE DEF e
    <3>2. Good(history, Latest, e)
      <4>1. emitted < Latest
        BY <2>1 DEF Untouched
      <4> QED BY <1>0, <3>1, <4>1 DEF Good, Untouched, BookAt
    <3>3. Stream' = Append(Stream, e)
      <4>1. buffer \in Seq(Event) /\ net \in Seq(Event)
        BY DEF TypeOK
      <4>2. buffer \o Append(net, e) = Append(buffer \o net, e)
        BY <3>1, <4>1
      <4> QED BY <2>1, <2>4, <4>2 DEF Stream, e
    <3>4. /\ Len(Append(Stream, e)) = Len(Stream) + 1 /\ Len(Stream) \in Nat
          /\ Append(Stream, e)[Len(Stream) + 1] = e
          /\ \A i \in 1..Len(Stream) : Append(Stream, e)[i] = Stream[i]
      BY <1>0, <3>1, AppendProperties
    <3>5. AllGood(history, Latest, Append(Stream, e))
      BY <2>2, <3>2, <3>4 DEF AllGood
    <3>6. Sorted(Append(Stream, e))
      <4> SUFFICES ASSUME NEW i \in 1..(Len(Stream) + 1), NEW j \in 1..(Len(Stream) + 1), i <= j
                   PROVE  Append(Stream, e)[i].u <= Append(Stream, e)[j].u
        BY <3>4 DEF Sorted
      <4>1. CASE j <= Len(Stream)
        BY <1>0, <3>4, <4>1 DEF Sorted
      <4>2. CASE ~(j <= Len(Stream)) /\ i <= Len(Stream)
        <5>1. j = Len(Stream) + 1 /\ i \in 1..Len(Stream)
          BY <3>4, <4>2
        <5>2. Stream[i].u <= emitted /\ Stream[i] \in Event
          BY <1>0, <5>1 DEF AllGood, Good
        <5> QED BY <1>0, <3>1, <3>4, <5>1, <5>2, EventType
      <4>3. CASE ~(i <= Len(Stream))
        <5>1. i = Len(Stream) + 1 /\ j = Len(Stream) + 1
          BY <3>4, <4>3
        <5> QED BY <1>0, <3>1, <3>4, <5>1
      <4> QED BY <4>1, <4>2, <4>3
    <3> QED BY <2>1, <3>3, <3>5, <3>6 DEF Updates
  <2> QED BY <1>2, <2>3, <2>4 DEF ExchangeEmit
<1>3. ASSUME UNCHANGED <<history, emitted, buffer, net>> PROVE Updates'
  BY <1>3 DEF Updates, Stream
<1>4. SnapshotAnswered \/ SnapshotReady \/ SnapshotFailed \/ OnOpen \/ UNCHANGED vars
        => UNCHANGED <<history, emitted, buffer, net>>
  BY DEF SnapshotAnswered, SnapshotReady, SnapshotFailed, OnOpen, vars, exchangeVars, bookVars
<1>5. CASE OnClose
  <2>1. history' = history /\ emitted' = emitted /\ buffer' = buffer /\ net' = <<>>
    BY <1>5 DEF OnClose, exchangeVars, bookVars
  <2>2. Stream' = buffer /\ buffer \in Seq(Event)
    BY <2>1 DEF Stream, TypeOK
  <2>3. AllGood(history, emitted, buffer) /\ Sorted(buffer)
    BY <1>0, <2>2, StreamParts, PartKept
  <2> QED BY <2>1, <2>2, <2>3 DEF Updates
<1>6. CASE OnMessage
  <2>1. history' = history /\ emitted' = emitted /\ net # <<>>
    BY <1>6 DEF OnMessage, exchangeVars
  <2>2. /\ buffer \in Seq(Event) /\ net \in Seq(Event) /\ Tail(net) \in Seq(Event)
        /\ Len(buffer) \in Nat /\ Len(net) \in Nat /\ Len(net) >= 1
        /\ Len(Tail(net)) = Len(net) - 1
        /\ \A i \in 1..Len(Tail(net)) : Tail(net)[i] = net[i + 1]
        /\ \A i \in 1..Len(net) : Stream[Len(buffer) + i] = net[i]
        /\ \A i \in 1..Len(buffer) : Stream[i] = buffer[i]
        /\ Len(Stream) = Len(buffer) + Len(net)
    BY <2>1, HeadType, StreamParts DEF TypeOK
  <2>3. \A i \in 1..Len(Tail(net)) : Tail(net)[i] = Stream[Len(buffer) + 1 + i]
                                     /\ Len(buffer) + 1 + i \in 1..Len(Stream)
    <3> TAKE i \in 1..Len(Tail(net))
    <3>1. i + 1 \in 1..Len(net) /\ Len(buffer) + 1 + i = Len(buffer) + (i + 1)
      BY <2>2
    <3> QED BY <2>2, <3>1
  <2>4. CASE Stream' = Stream
    BY <1>0, <2>1, <2>4 DEF Updates
  <2>5. CASE buffer' = buffer /\ net' = Tail(net)
    <3> DEFINE at == [i \in 1..(Len(buffer) + Len(Tail(net))) |->
                         IF i <= Len(buffer) THEN i ELSE i + 1]
    <3>1. /\ Stream' \in Seq(Event) /\ Len(Stream') = Len(buffer) + Len(Tail(net))
          /\ \A i \in 1..(Len(buffer) + Len(Tail(net))) :
                Stream'[i] = IF i <= Len(buffer) THEN buffer[i] ELSE Tail(net)[i - Len(buffer)]
      BY <2>2, <2>5, ConcatProperties DEF Stream
    <3>2. ASSUME NEW i \in 1..Len(Stream')
          PROVE  at[i] \in 1..Len(Stream) /\ Stream'[i] = Stream[at[i]]
      <4>1. CASE i <= Len(buffer)
        BY <2>2, <3>1, <4>1
      <4>2. CASE ~(i <= Len(buffer))
        <5>1. i - Len(buffer) \in 1..Len(Tail(net)) /\ Len(buffer) + 1 + (i - Len(buffer)) = i + 1
          BY <2>2, <3>1, <4>2
        <5> QED BY <2>3, <3>1, <4>2, <5>1
      <4> QED BY <4>1, <4>2
    <3>3. \A i, j \in 1..Len(Stream') : i <= j => at[i] <= at[j]
      BY <2>2, <3>1
    <3>4. Part(Stream', Stream, at)
      BY <3>2, <3>3 DEF Part
    <3> HIDE DEF at
    <3>5. AllGood(history, emitted, Stream') /\ Sorted(Stream')
      BY <1>0, <3>1, <3>4, PartKept
    <3> QED BY <2>1, <3>5 DEF Updates
  <2>6. CASE buffer' = <<>> /\ net' = Tail(net)
    <3> DEFINE at == [i \in 1..Len(Tail(net)) |-> Len(buffer) + 1 + i]
    <3>1. Stream' = Tail(net)
      BY <2>2, <2>6 DEF Stream
    <3>2. \A i, j \in 1..Len(Tail(net)) : i <= j => at[i] <= at[j]
      BY <2>2
    <3>3. Part(Tail(net), Stream, at)
      BY <2>3, <3>2 DEF Part
    <3> HIDE DEF at
    <3>4. AllGood(history, emitted, Tail(net)) /\ Sorted(Tail(net))
      BY <1>0, <2>2, <3>3, PartKept
    <3> QED BY <2>1, <3>1, <3>4 DEF Updates
  <2> QED BY <1>6, <2>4, <2>5, <2>6, MessageStream
<1> QED BY <1>1, <1>2, <1>3, <1>4, <1>5, <1>6 DEF Next
\* A snapshot in hand has every update after it in the buffer or on its way, unless
\* one was lost meanwhile.
LEMMA ReplyStep == TypeOK /\ Untouched /\ Updates /\ Reply /\ [Next]_vars => Reply'
<1> SUFFICES ASSUME TypeOK, Untouched, Updates, Reply, [Next]_vars, ~lostInReply'
             PROVE  /\ future' = "answered" =>
                          /\ Complete(history', snapshotId', Stream')
                          /\ link' = "open" /\ Len(Stream') > 0
                             /\ Stream'[Len(Stream')].u > snapshotId'
                               => Stream'[Len(Stream')].u = emitted'
                    /\ future' = "ready" => Complete(history', snapshotId', buffer')
  BY DEF Reply
<1>0. /\ Stream \in Seq(Event) /\ AllGood(history, emitted, Stream) /\ Sorted(Stream)
      /\ Latest \in Nat /\ emitted \in Nat /\ emitted <= Latest /\ Len(Stream) \in Nat
      /\ buffer \in Seq(Event) /\ First(buffer, Stream)
      /\ AllGood(history, emitted, buffer)
  BY StreamParts, PartKept DEF Updates, TypeOK, Latest
<1>1. ASSUME NEW l \in Levels, NEW q \in Quantities, ExchangeChange(l, q) PROVE Reply'
  <2>1. /\ Stream' = Stream /\ buffer' = buffer /\ future' = future /\ link' = link
        /\ snapshotId' = snapshotId /\ lostInReply' = lostInReply
    BY <1>1 DEF ExchangeChange, Stream, bookVars, requestVars
  <2> DEFINE after == history'
  <2>2. emitted' = emitted /\ \A k \in 0..emitted : after[k + 1] = history[k + 1]
    BY <1>0, <1>1, ChangeHistory
  <2> HIDE DEF after
  <2>3. Complete(history, snapshotId, Stream) => Complete(after, snapshotId, Stream)
    BY <1>0, <2>2, CompleteKept
  <2>4. Complete(history, snapshotId, buffer) => Complete(after, snapshotId, buffer)
    BY <1>0, <2>2, CompleteKept
  <2> QED BY <2>1, <2>2, <2>3, <2>4 DEF Reply, after
<1>2. CASE ExchangeEmit
  <2>1. /\ history' = history /\ emitted' = Latest /\ buffer' = buffer /\ touched # {}
        /\ future' = future /\ link' = link /\ snapshotId' = snapshotId
    BY <1>2 DEF ExchangeEmit, bookVars, requestVars
  <2>2. ~lostInReply
    BY <1>2 DEF ExchangeEmit
  <2>3. CASE future # "answered"
    BY <2>1, <2>2, <2>3 DEF Reply
  <2>4. CASE future = "answered" /\ link = "open"
    <3> DEFINE e == DepthUpdate
               last == Len(Stream)
    <3>1. net' = Append(net, e)
      BY <1>2, <2>4 DEF ExchangeEmit
    <3>2. /\ e \in Event /\ e.u = Latest /\ DOMAIN e.levels = touched
      BY DepthUpdateType
    <3> HIDE DEF e
    <3>3. Stream' = Append(Stream, e)
      <4>1. net \in Seq(Event)
        BY DEF TypeOK
      <4>2. buffer \o Append(net, e) = Append(buffer \o net, e)
        BY <1>0, <3>2, <4>1
      <4> QED BY <2>1, <3>1, <4>2 DEF Stream
    <3>4. /\ Len(Stream') = last + 1 /\ Stream'[last + 1] = e
          /\ \A i \in 1..last : Stream'[i] = Stream[i]
      BY <1>0, <3>2, <3>3, AppendProperties
    <3>5. Complete(history, snapshotId, Stream')
      <4> SUFFICES ASSUME NEW i \in 1..(last + 1), NEW j \in 1..(last + 1), i <= j,
                          Stream'[i].u > snapshotId, NEW l \in Levels,
                          \A m \in (i + 1)..j : l \notin DOMAIN Stream'[m].levels
                   PROVE  history[Stream'[i].u + 1][l] = history[Stream'[j].u + 1][l]
        BY <3>4 DEF Complete
      <4>1. Complete(history, snapshotId, Stream)
        BY <2>2, <2>4 DEF Reply
      <4>2. CASE j <= last
        <5>1. i \in 1..last /\ j \in 1..last
          BY <1>0, <4>2
        <5>2. \A m \in (i + 1)..j : m \in 1..last /\ l \notin DOMAIN Stream[m].levels
          BY <3>4, <5>1
        <5> QED BY <3>4, <4>1, <5>1, <5>2 DEF Complete
      <4>3. CASE i = last + 1
        <5>1. i = j
          BY <1>0, <4>3
        <5> QED BY <5>1
      <4>4. CASE i # last + 1 /\ ~(j <= last)
        <5>1. i \in 1..last /\ j = last + 1 /\ last \in 1..last /\ last > 0
          BY <1>0, <4>4
        <5>2. \A m \in (i + 1)..last : l \notin DOMAIN Stream[m].levels
          <6>1. \A m \in (i + 1)..last : m \in (i + 1)..j /\ m \in 1..last
            BY <1>0, <5>1
          <6> QED BY <3>4, <6>1
        <5>3. history[Stream[i].u + 1][l] = history[Stream[last].u + 1][l]
          BY <3>4, <4>1, <5>1, <5>2 DEF Complete
        <5>4. Stream[last].u = emitted
          <6>1. Stream[i].u <= Stream[last].u /\ Stream[i].u > snapshotId
            BY <1>0, <3>4, <5>1 DEF Sorted
          <6>2. Stream[i].u \in Nat /\ Stream[last].u \in Nat /\ snapshotId \in Nat
            BY <1>0, <5>1, EventType DEF TypeOK, Latest
          <6>3. Stream[last].u > snapshotId
            BY <6>1, <6>2
          <6> QED BY <2>2, <2>4, <5>1, <6>3 DEF Reply
        <5>5. l \notin touched
          <6>1. j \in (i + 1)..j
            BY <1>0, <5>1
          <6> QED BY <3>2, <3>4, <5>1, <6>1
        <5>6. history[emitted + 1][l] = history[Latest + 1][l]
          BY <1>0, <5>5 DEF Untouched, BookAt
        <5> QED BY <3>2, <3>4, <5>1, <5>3, <5>4, <5>6
      <4> QED BY <4>2, <4>3, <4>4
    <3>6. Stream'[Len(Stream')].u = emitted'
      BY <2>1, <3>2, <3>4
    <3> QED BY <2>1, <2>4, <3>5, <3>6
  <2>5. CASE future = "answered" /\ link # "open"
    <3>1. net' = net
      BY <1>2, <2>5 DEF ExchangeEmit
    <3>2. Stream' = Stream
      BY <2>1, <3>1 DEF Stream
    <3> QED BY <2>1, <2>2, <2>5, <3>2 DEF Reply
  <2> QED BY <2>3, <2>4, <2>5
<1>3. CASE SnapshotAnswered
  <2>1. /\ Stream' = Stream /\ future' = "answered" /\ snapshotId' = Latest
        /\ \A i \in 1..Len(Stream) : Stream[i].u <= emitted /\ Stream[i].u \in Nat
    BY <1>0, <1>3, EventType DEF SnapshotAnswered, Stream, bookVars, AllGood, Good
  <2>2. \A i \in 1..Len(Stream) : ~(Stream[i].u > Latest)
    BY <1>0, <2>1
  <2> QED BY <1>0, <2>1, <2>2 DEF Complete
<1>4. CASE SnapshotReady
  <2>1. /\ history' = history /\ buffer' = buffer /\ future = "answered" /\ future' = "ready"
        /\ snapshotId' = snapshotId /\ ~lostInReply
    BY <1>4 DEF SnapshotReady, exchangeVars, bookVars
  <2>2. Complete(history, snapshotId, buffer)
    BY <1>0, <2>1, CompleteFirst DEF Reply
  <2> QED BY <2>1, <2>2
<1>5. CASE OnClose
  <2>1. /\ history' = history /\ emitted' = emitted /\ buffer' = buffer /\ net' = <<>>
        /\ future' = future /\ snapshotId' = snapshotId /\ link' = "closed" /\ ~lostInReply
    BY <1>5 DEF OnClose, exchangeVars, bookVars, requestVars
  <2>2. Stream' = buffer
    BY <1>0, <2>1 DEF Stream
  <2>3. Complete(history, snapshotId, Stream) => Complete(history, snapshotId, buffer)
    BY <1>0, CompleteFirst
  <2> QED BY <2>1, <2>2, <2>3 DEF Reply
<1>6. CASE OnMessage
  <2>1. /\ history' = history /\ emitted' = emitted /\ link' = link /\ ~lostInReply
        /\ net # <<>>
    BY <1>6 DEF OnMessage, exchangeVars
  <2>2. CASE future' \in {"none", "asked"}
    BY <2>2
  <2>3. CASE future' = future /\ buffer' = Append(buffer, Head(net)) /\ Stream' = Stream
             /\ future' \notin {"none", "asked"}
    <3>1. future # "ready" /\ snapshotId' = snapshotId
      BY <1>6, <2>3 DEF OnMessage, BufferUpdate, SnapshotThrows, ApplySnapshot, ApplyUpdate,
         Follow, requestVars
    <3> QED BY <2>1, <2>3, <3>1 DEF Reply
  <2> QED BY <1>6, <2>2, <2>3, MessageStream
<1>7. CASE SnapshotFailed
  BY <1>7 DEF SnapshotFailed
<1>8. CASE OnOpen
  BY <1>8 DEF OnOpen
<1>9. CASE UNCHANGED vars
  <2>1. /\ history' = history /\ emitted' = emitted /\ buffer' = buffer /\ Stream' = Stream
        /\ future' = future /\ snapshotId' = snapshotId /\ link' = link /\ ~lostInReply
    BY <1>9 DEF vars, exchangeVars, bookVars, requestVars, Stream
  <2> QED BY <2>1 DEF Reply
<1> QED BY <1>1, <1>2, <1>3, <1>4, <1>5, <1>6, <1>7, <1>8, <1>9 DEF Next, Reply
\* What a book shows does not depend on changes to come.
LEMMA ShowsKept ==
    ASSUME NEW h, NEW h2, NEW n \in Nat, \A k \in 0..n : h2[k + 1] = h[k + 1],
           NEW lost, NEW lost2, lost => lost2, NEW bk, NEW S,
           NEW b \in 0..n, NEW p \in Nat, p <= n, Shows(h, lost, bk, S, b, p)
    PROVE  Shows(h2, lost2, bk, S, b, p)
<1>1. h2[b + 1] = h[b + 1] /\ h2[p + 1] = h[p + 1]
  OBVIOUS
<1> QED BY <1>1 DEF Shows

\* Every step keeps the book at the exchange's, as far as Shows says.
LEMMA FollowingStep ==
    TypeOK /\ Updates /\ Reply /\ Following /\ [Next]_vars => Following'
<1> SUFFICES ASSUME TypeOK, Updates, Reply, Following, [Next]_vars PROVE Following'
  OBVIOUS
<1>0. /\ Latest \in Nat /\ emitted \in Nat /\ emitted <= Latest /\ previous \in Nat
      /\ base # Base => base \in 0..Latest /\ previous <= Latest
  <2>1. /\ Latest \in Nat /\ emitted \in Nat /\ emitted <= Latest /\ previous \in Nat
        /\ base # Base => base \in 0..Latest
    BY DEF TypeOK, Latest
  <2> QED BY <2>1 DEF Following, Ahead
<1>1. ASSUME NEW l \in Levels, NEW q \in Quantities, ExchangeChange(l, q), base' # Base
      PROVE  Following'
  <2>1. /\ net' = net /\ base' = base /\ book' = book /\ suspect' = suspect
        /\ previous' = previous /\ lostInReply' = lostInReply
    BY <1>1 DEF ExchangeChange, bookVars
  <2> DEFINE after == history'
  <2>2. emitted' = emitted /\ \A k \in 0..Latest : after[k + 1] = history[k + 1]
    BY <1>1, ChangeHistory
  <2> HIDE DEF after
  <2>3. Shows(history, lostInReply, book, suspect, base, previous)
    BY <1>1, <2>1 DEF Following
  <2>4. Shows(after, lostInReply, book, suspect, base, previous)
    BY <1>0, <1>1, <2>1, <2>2, <2>3, ShowsKept
  <2> QED BY <1>1, <2>1, <2>2, <2>4 DEF Following, after
<1>2. CASE ExchangeEmit /\ base' # Base
  <2>1. /\ history' = history /\ emitted' = Latest /\ base' = base /\ book' = book
        /\ suspect' = suspect /\ previous' = previous
    BY <1>2 DEF ExchangeEmit, bookVars
  <2>2. lostInReply => lostInReply'
    BY <1>2 DEF ExchangeEmit
  <2>3. /\ Ahead(emitted, net, base, previous)
        /\ Shows(history, lostInReply, book, suspect, base, previous)
    BY <1>2, <2>1 DEF Following
  <2> DEFINE lost == lostInReply'
  <2>4. lostInReply => lost
    BY <2>2
  <2> HIDE DEF lost
  <2>5. Shows(history, lost, book, suspect, base, previous)
    BY <2>3, <2>4 DEF Shows
  <2>6. CASE net' = net
    <3>1. Ahead(Latest, net, base, previous)
      BY <1>0, <2>3 DEF Ahead
    <3> QED BY <2>1, <2>5, <2>6, <3>1 DEF Following, lost
  <2>7. CASE net' = Append(net, DepthUpdate)
    <3> DEFINE e == DepthUpdate
    <3>1. e \in Event /\ e.u = Latest /\ net \in Seq(Event)
      BY DepthUpdateType DEF TypeOK
    <3> HIDE DEF e
    <3>2. /\ Len(Append(net, e)) = Len(net) + 1 /\ Len(net) \in Nat
          /\ \A i \in 1..Len(net) : Append(net, e)[i] = net[i]
          /\ Append(net, e)[Len(net) + 1] = e
      BY <3>1, AppendProperties
    <3>3. CASE previous = base
      <4>1. Ahead(Latest, Append(net, e), base, previous)
        BY <3>3 DEF Ahead
      <4> QED BY <2>1, <2>5, <2>7, <4>1 DEF Following, lost, e
    <3>4. CASE previous # base
      <4>1. previous <= Latest /\ \A i \in 1..Len(net) : previous <= net[i].u
        BY <1>0, <2>3, <3>4 DEF Ahead
      <4>2. ASSUME NEW i \in 1..(Len(net) + 1) PROVE previous <= Append(net, e)[i].u
        <5>1. CASE i \in 1..Len(net)
          BY <3>2, <4>1, <5>1
        <5>2. CASE i \notin 1..Len(net)
          <6>1. i = Len(net) + 1
            BY <3>2, <5>2
          <6> QED BY <3>1, <3>2, <4>1, <6>1
        <5> QED BY <5>1, <5>2
      <4>3. Ahead(Latest, Append(net, e), base, previous)
        BY <3>2, <4>1, <4>2 DEF Ahead
      <4> QED BY <2>1, <2>5, <2>7, <4>3 DEF Following, lost, e
    <3> QED BY <3>3, <3>4
  <2> QED BY <1>2, <2>6, <2>7 DEF ExchangeEmit
<1>3. CASE SnapshotAnswered \/ SnapshotReady \/ SnapshotFailed \/ OnOpen \/ UNCHANGED vars
  <2>1. /\ history' = history /\ emitted' = emitted /\ base' = base /\ book' = book
        /\ suspect' = suspect /\ previous' = previous /\ lostInReply' = lostInReply
        /\ net' = net
    BY <1>3 DEF SnapshotAnswered, SnapshotReady, SnapshotFailed, OnOpen, vars, exchangeVars,
       bookVars
  <2> QED BY <2>1 DEF Following
<1>4. CASE OnClose
  <2>1. /\ history' = history /\ emitted' = emitted /\ base' = base /\ book' = book
        /\ suspect' = suspect /\ previous' = previous /\ lostInReply' = lostInReply
        /\ net' = <<>>
    BY <1>4 DEF OnClose, exchangeVars, bookVars
  <2>2. Ahead(emitted, net, base, previous) => Ahead(emitted, <<>>, base, previous)
    BY DEF Ahead
  <2> QED BY <2>1, <2>2 DEF Following
<1>5. CASE OnMessage
  <2>1. /\ history' = history /\ emitted' = emitted /\ lostInReply' = lostInReply
        /\ net # <<>> /\ net' = Tail(net)
    BY <1>5 DEF OnMessage, exchangeVars
  <2>2. CASE BufferUpdate(Head(net)) \/ SnapshotThrows(Head(net))
    <3>1. /\ base' = base /\ book' = book /\ suspect' = suspect /\ previous' = previous
      BY <2>2 DEF BufferUpdate, SnapshotThrows, bookVars
    <3>2. Ahead(emitted, net, base, previous) => Ahead(emitted, Tail(net), base, previous)
      BY <2>1, HeadType DEF Ahead
    <3> QED BY <2>1, <3>1, <3>2 DEF Following
  <2>3. CASE ApplySnapshot(Head(net))
    <3> DEFINE s == Replayed(snapshotId)
    <3>1. future = "ready" /\ Follow(Head(net), s)
      BY <2>3 DEF ApplySnapshot, Replayed
    <3>2. /\ Ahead(emitted, net, s.base, s.previous)
          /\ Shows(history, lostInReply, s.book, s.suspect, s.base, s.previous)
      BY <3>1, ReplayedFollowing
    <3>3. Stands(s)
      BY ReplayedStands
    <3> HIDE DEF s
    <3> QED BY <2>1, <3>1, <3>2, <3>3, FollowFollowing
  <2>4. CASE ApplyUpdate(Head(net))
    <3> DEFINE s == [book |-> book, suspect |-> suspect, base |-> base, previous |-> previous]
    <3>1. Follow(Head(net), s)
      BY <2>4 DEF ApplyUpdate
    <3>2. s.base # Base =>
            /\ Ahead(emitted, net, s.base, s.previous)
            /\ Shows(history, lostInReply, s.book, s.suspect, s.base, s.previous)
      BY DEF Following
    <3>3. Stands(s)
      BY DEF Stands, TypeOK
    <3> HIDE DEF s
    <3> QED BY <2>1, <3>1, <3>2, <3>3, FollowFollowing
  <2> QED BY <1>5, <2>2, <2>3, <2>4 DEF OnMessage
<1>6. CASE base' = Base
  BY <1>6 DEF Following
<1> QED BY <1>1, <1>2, <1>3, <1>4, <1>5, <1>6 DEF Next
\* Nothing is left over from an earlier connection during the first one.
LEMMA ConnectionStep == TypeOK /\ Connection /\ [Next]_vars => Connection'
<1> SUFFICES ASSUME TypeOK, Connection, [Next]_vars PROVE Connection'
  OBVIOUS
<1>0. connects \in Nat
  BY DEF TypeOK
<1>1. ASSUME NEW l \in Levels, NEW q \in Quantities, ExchangeChange(l, q) PROVE Connection'
  BY <1>1 DEF ExchangeChange, Connection, requestVars, bookVars, countVars
<1>2. CASE ExchangeEmit
  BY <1>2 DEF ExchangeEmit, Connection, requestVars, bookVars
<1>3. CASE SnapshotAnswered \/ SnapshotReady \/ SnapshotFailed
  <2>1. /\ future \in {"asked", "answered"} /\ link' = link /\ net' = net /\ book' = book
        /\ suspect' = suspect /\ connects' = connects
    BY <1>3 DEF SnapshotAnswered, SnapshotReady, SnapshotFailed, bookVars, countVars
  <2> QED BY <2>1 DEF Connection
<1>4. CASE OnClose
  BY <1>4 DEF OnClose, Connection, requestVars, bookVars, countVars
<1>5. CASE OnOpen
  <2>1. /\ link' = "open" /\ book' = book /\ suspect' = suspect /\ connects' = connects + 1
    BY <1>5 DEF OnOpen, bookVars
  <2>2. connects' # 0 /\ (connects' <= 1 => connects = 0)
    BY <1>0, <2>1
  <2> QED BY <1>0, <2>1, <2>2 DEF Connection
<1>6. CASE OnMessage
  <2>1. net # <<>> /\ link' = link /\ connects' = connects /\ link # "closed" /\ connects # 0
    BY <1>6 DEF OnMessage, Connection, countVars
  <2>2. ASSUME connects <= 1 PROVE suspect' = {} /\ (future' # "none" => book' = Empty)
    <3>1. suspect = {} /\ (future # "none" => book = Empty)
      BY <2>2 DEF Connection
    <3>2. CASE BufferUpdate(Head(net)) \/ SnapshotThrows(Head(net))
      BY <3>1, <3>2 DEF BufferUpdate, SnapshotThrows, bookVars, requestVars
    <3>3. CASE ApplySnapshot(Head(net))
      <4>1. Follow(Head(net), Replayed(snapshotId)) /\ book = Empty
        BY <3>1, <3>3 DEF ApplySnapshot, Replayed
      <4>2. Replayed(snapshotId).suspect = {}
        BY <4>1 DEF Replayed, Empty
      <4> QED BY <4>1, <4>2 DEF Follow
    <3>4. CASE ApplyUpdate(Head(net))
      BY <3>1, <3>4 DEF ApplyUpdate, Follow
    <3> QED BY <1>6, <3>2, <3>3, <3>4 DEF OnMessage
  <2> QED BY <2>1, <2>2 DEF Connection
<1>7. CASE UNCHANGED vars
  BY <1>7 DEF vars, Connection, requestVars, bookVars, countVars
<1> QED BY <1>1, <1>2, <1>3, <1>4, <1>5, <1>6, <1>7 DEF Next

\* Without a failed request no book is built on nothing.
LEMMA UnfailedStep == TypeOK /\ Connection /\ Unfailed /\ [Next]_vars => Unfailed'
<1> SUFFICES ASSUME TypeOK, Connection, Unfailed, [Next]_vars PROVE Unfailed'
  OBVIOUS
<1>0. failures \in Nat
  BY DEF TypeOK
<1>1. ASSUME NEW l \in Levels, NEW q \in Quantities, ExchangeChange(l, q) PROVE Unfailed'
  BY <1>1 DEF ExchangeChange, Unfailed, requestVars, bookVars, countVars
<1>2. CASE ExchangeEmit
  BY <1>2 DEF ExchangeEmit, Unfailed, requestVars, bookVars
<1>3. CASE SnapshotAnswered \/ SnapshotReady
  BY <1>3 DEF SnapshotAnswered, SnapshotReady, Unfailed, bookVars, countVars
<1>4. CASE SnapshotFailed
  <2>1. failures' # 0
    BY <1>0, <1>4 DEF SnapshotFailed
  <2> QED BY <2>1 DEF Unfailed
<1>5. CASE OnClose
  BY <1>5 DEF OnClose, Unfailed, requestVars, bookVars, countVars
<1>6. CASE OnOpen
  BY <1>6 DEF OnOpen, Unfailed, bookVars
<1>7. CASE OnMessage
  <2>1. net # <<>> /\ link # "closed" /\ failures' = failures /\ link' = link
    BY <1>7 DEF OnMessage, Connection, countVars
  <2>2. CASE BufferUpdate(Head(net))
    BY <2>1, <2>2 DEF BufferUpdate, Unfailed, requestVars
  <2>3. CASE SnapshotThrows(Head(net))
    BY <2>1, <2>3 DEF SnapshotThrows, Unfailed
  <2>4. CASE ApplySnapshot(Head(net))
    <3>1. Follow(Head(net), Replayed(snapshotId)) /\ snapshotId # Base
      BY <2>4 DEF ApplySnapshot, Replayed, TypeOK, Base, Latest
    <3>2. Replayed(snapshotId).base # Base
      BY <3>1 DEF Replayed
    <3> QED BY <2>1, <3>1, <3>2 DEF Follow, Unfailed
  <2>5. CASE ApplyUpdate(Head(net))
    <3>1. failures = 0 => base # Base
      BY <2>1, <2>5 DEF ApplyUpdate, Unfailed
    <3> QED BY <2>1, <2>5, <3>1 DEF ApplyUpdate, Follow, Unfailed
  <2> QED BY <1>7, <2>2, <2>3, <2>4, <2>5 DEF OnMessage
<1>8. CASE UNCHANGED vars
  BY <1>8 DEF vars, Unfailed, requestVars, bookVars, countVars
<1> QED BY <1>1, <1>2, <1>3, <1>4, <1>5, <1>6, <1>7, <1>8 DEF Next

\* Every step keeps the invariant.
LEMMA InvStep == IInv /\ [Next]_vars => IInv'
BY TypeStep, UntouchedStep, UpdatesStep, ReplyStep, FollowingStep, ConnectionStep, UnfailedStep
   DEF IInv

\* The inductive invariant holds in every reachable state.
THEOREM Invariance == Spec => []IInv
<1>1. Init => IInv
  BY InvInit
<1>2. IInv /\ [Next]_vars => IInv'
  BY InvStep
<1> QED BY <1>1, <1>2, PTL DEF Spec

-----------------------------------------------------------------------------
(***************************************************************************)
(* The invariants of the runs                                              *)
(***************************************************************************)

\* The stream's state keeps its types: no replay reads past the buffer, no update
\* is put on the book whose levels are not the book's.
THEOREM TypeCorrect == Spec => []TypeOK
<1>1. IInv => TypeOK
  BY DEF IInv
<1> QED BY <1>1, Invariance, PTL

\* A settled book is one that follows with its id past the snapshot's.
LEMMA Settling == IInv => SettledBookIsExchanges
<1> SUFFICES ASSUME IInv, Settled, ~lostInReply, NEW l \in Levels \ suspect
             PROVE  book[l] = BookAt(previous)[l]
  BY DEF SettledBookIsExchanges
<1>1. base # Base /\ previous >= base
  BY DEF Settled
<1> QED BY <1>1 DEF IInv, Following, Shows, BookAt

\* For every number of levels, changes, connections, losses and failures: a book
\* that has caught up with its snapshot is the exchange's book after the change
\* m_previous_update_id, but for the levels a reconnection left over.
THEOREM BookIsExchanges == Spec => []SettledBookIsExchanges
BY Invariance, Settling, PTL

\* On the first connection no level is suspect.
LEMMA FirstSettling == IInv => FirstConnectionExact
<1> SUFFICES ASSUME IInv, Settled, ~lostInReply, connects = 1
             PROVE  book = BookAt(previous)
  BY DEF FirstConnectionExact
<1>1. suspect = {}
  BY DEF IInv, Connection
<1>2. \A l \in Levels : book[l] = BookAt(previous)[l]
  BY <1>1, Settling DEF SettledBookIsExchanges
<1>3. previous \in 0..Latest
  BY DEF IInv, TypeOK, Following, Ahead, Settled, Latest
<1>4. book \in Books /\ BookAt(previous) \in Books
  BY <1>3, SnapshotType DEF IInv, TypeOK
<1> QED BY <1>2, <1>4 DEF Books

\* On the first connection the book that has caught up is the exchange's, with no
\* level left out.
THEOREM FirstBookExact == Spec => []FirstConnectionExact
BY Invariance, FirstSettling, PTL

\* The levels of two moments are what Shows leaves before the book has settled.
LEMMA Mixing == IInv => LateUpdateMixesTwoBooks
BY DEF IInv, Following, Shows, LateUpdateMixesTwoBooks, BookAt

\* While late updates have taken the id back behind the snapshot, every level shows
\* one of two moments of the exchange's book.
THEOREM LateUpdatesMix == Spec => []LateUpdateMixesTwoBooks
BY Invariance, Mixing, PTL

\* This is a part of the invariant.
LEMMA Needing == IInv => BookNeedsSnapshot
BY DEF IInv, Unfailed, BookNeedsSnapshot

\* As long as no request has failed, a book without a snapshot is empty.
THEOREM SnapshotFirst == Spec => []BookNeedsSnapshot
BY Invariance, Needing, PTL
=============================================================================
