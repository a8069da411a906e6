----------------------- MODULE BinanceOrderBookStream -----------------------
(***************************************************************************)
(* BinanceOrderBookStream (websocket/binance_order_book_stream.hpp) on its *)
(* WebsocketClient, against an exchange that numbers the changes of its    *)
(* book.                                                                   *)
(*                                                                         *)
(* The book is built from a snapshot, asked for over REST on a thread of   *)
(* its own, and from the depth updates of the connection; the updates that *)
(* come before the snapshot are buffered and replayed.  The connection may *)
(* be lost at any time (by the exchange, or by the TickersWatcher when     *)
(* nothing came for 30 seconds) and is opened again with the book, the     *)
(* buffer and the update id of the connection before.                      *)
(*                                                                         *)
(* A book maps every level (a side and a price) to its quantity, 0 when it *)
(* has no such level: the depth of 1000 is the one the snapshot is asked   *)
(* for, and is more than the levels there are here.                        *)
(*                                                                         *)
(* A level is named by the price OrderBook::Update stores, which is cut to *)
(* an integer, and may be one step below the price sent.  Two levels of    *)
(* the exchange that are stored as one (1.12 and 1.13 with two digits, as  *)
(* 112) are outside of this model: each of its levels has a stored price   *)
(* of its own.                                                             *)
(***************************************************************************)
EXTENDS Integers, Sequences, FiniteSetsExt

CONSTANTS
    Levels,        \* sides and prices of the exchange's book, as they are stored
    Quantities,    \* quantities of a level, 0 included
    Garbage,       \* what memory m_previous_update_id may be given
    MaxId,         \* bound on the changes of the exchange's book
    MaxConnects,   \* bound on the connections
    MaxLosses,     \* bound on the updates the exchange does not deliver
    MaxFailures    \* bound on the snapshot requests that fail

ASSUME StreamAssumption ==
    /\ Quantities \subseteq Nat /\ 0 \in Quantities
    /\ Garbage \subseteq Nat /\ Garbage # {}
    /\ {MaxId, MaxConnects, MaxLosses, MaxFailures} \subseteq Nat

Books == [Levels -> Quantities]
Empty == [l \in Levels |-> 0]

VARIABLES
    history,     \* exchange: history[n + 1] is its book after n changes
    touched,     \* exchange: the levels changed since the last depth update
    emitted,     \* exchange: u of the last depth update
    link,        \* the websocket connection
    net,         \* depth updates on their way to OnMessage
    future,      \* m_book_snapshot_future and the request behind it
    snapshotId,  \* lastUpdateId of the reply, once the exchange has made it
    buffer,      \* m_depth_updates
    previous,    \* m_previous_update_id
    book,        \* m_order_book
    base,        \* history: id of the snapshot under the book, or -1
    suspect,     \* history: levels of the book that no snapshot or update vouches for
    lostInReply, \* history: an update was lost while a reply was under way
    connects, losses, failures  \* history: counted for the bounds

exchangeVars == <<history, touched, emitted>>
requestVars == <<future, snapshotId>>
bookVars == <<buffer, previous, book, base, suspect>>
countVars == <<connects, losses, failures>>
vars == <<exchangeVars, link, net, requestVars, bookVars, lostInReply, countVars>>

Latest == Len(history) - 1
BookAt(id) == history[id + 1]
Base == -1    \* no snapshot yet

(***************************************************************************)
(* The exchange                                                            *)
(***************************************************************************)

\* One level of the exchange's book changes.
ExchangeChange(l, q) ==
    /\ Latest < MaxId
    /\ q # BookAt(Latest)[l]
    /\ history' = Append(history, [BookAt(Latest) EXCEPT ![l] = q])
    /\ touched' = touched \cup {l}
    /\ UNCHANGED <<emitted, link, net, requestVars, bookVars, lostInReply, countVars>>

DepthUpdate ==
    [U |-> emitted + 1, u |-> Latest,
     levels |-> [l \in touched |-> BookAt(Latest)[l]]]

\* The exchange sends the changes since its last depth update to who is
\* connected.  The stream is written for updates that go missing.
ExchangeEmit ==
    /\ touched # {}
    /\ emitted' = Latest
    /\ touched' = {}
    /\ \/ /\ net' = IF link = "open" THEN Append(net, DepthUpdate) ELSE net
          /\ UNCHANGED <<losses, lostInReply>>
       \/ /\ link = "open"
          /\ losses < MaxLosses
          /\ losses' = losses + 1
          /\ lostInReply' = (lostInReply \/ future = "answered")
          /\ UNCHANGED net
    /\ UNCHANGED <<history, link, requestVars, bookVars, connects, failures>>

(***************************************************************************)
(* The snapshot thread: GetOrderBookSnapshot, after one second when it is  *)
(* started by OnOpen                                                       *)
(***************************************************************************)

SnapshotAnswered ==
    /\ future = "asked"
    /\ future' = "answered"
    /\ snapshotId' = Latest
    /\ UNCHANGED <<exchangeVars, link, net, bookVars, lostInReply, countVars>>

SnapshotReady ==
    /\ future = "answered"
    /\ future' = "ready"
    /\ UNCHANGED <<exchangeVars, link, net, snapshotId, bookVars, lostInReply, countVars>>

\* The thread throws "Getting order book snapshot failed" into its future.
SnapshotFailed ==
    /\ future \in {"asked", "answered"}
    /\ failures < MaxFailures
    /\ failures' = failures + 1
    /\ future' = "failed"
    /\ UNCHANGED <<exchangeVars, link, net, snapshotId, bookVars, lostInReply,
                   connects, losses>>

(***************************************************************************)
(* The connection                                                          *)
(***************************************************************************)

\* on_close: OnClose tells the listener and changes nothing of the stream.
OnClose ==
    /\ link = "open"
    /\ link' = "closed"
    /\ net' = <<>>
    /\ UNCHANGED <<exchangeVars, requestVars, bookVars, lostInReply, countVars>>

\* Mutant: the snapshot is only asked for when a gap is seen.
OnOpenUnasked ==
    /\ link = "closed"
    /\ connects < MaxConnects
    /\ link' = "open"
    /\ connects' = connects + 1
    /\ UNCHANGED <<exchangeVars, net, requestVars, bookVars, lostInReply, losses, failures>>

\* on_open after start or reconnect: OnOpen asks for a snapshot.  The future of a
\* request under way is thrown away, all the rest stays.
OnOpen ==
    /\ link = "closed"
    /\ connects < MaxConnects
    /\ link' = "open"
    /\ connects' = connects + 1
    /\ future' = "asked"
    /\ UNCHANGED <<exchangeVars, net, snapshotId, bookVars, lostInReply, losses, failures>>

(***************************************************************************)
(* OnMessage                                                               *)
(***************************************************************************)

\* Mutant: the levels an update does not name are lost.
UpdateDropping(b, updates) ==
    [l \in UNION {DOMAIN updates[i].levels : i \in DOMAIN updates} |->
        updates[Max({i \in DOMAIN updates : l \in DOMAIN updates[i].levels})].levels[l]]

\* OrderBook::Update with one or more updates, in their order: a quantity takes
\* the place of the level's quantity, 0 deletes the level.
Update(b, updates) ==
    [l \in Levels |->
        LET hits == {i \in DOMAIN updates : l \in DOMAIN updates[i].levels}
        IN  IF hits = {} THEN b[l] ELSE updates[Max(hits)].levels[l]]

Covered(updates) == UNION {DOMAIN updates[i].levels : i \in DOMAIN updates}

\* DeserializeOrderBookSnapshot: a snapshot holds the levels there are.
Snapshot(id) ==
    LET present == {l \in Levels : BookAt(id)[l] # 0}
    IN  [U |-> 0, u |-> id, levels |-> [l \in present |-> BookAt(id)[l]]]

\* Mutant: the replay begins with the first update wholly after the snapshot.
ToReplayAfter(id) ==
    LET joins == {i \in DOMAIN buffer : buffer[i].U >= id + 1}
    IN  IF joins = {} THEN <<>> ELSE SubSeq(buffer, Min(joins), Len(buffer))

\* The buffered updates that are replayed on a snapshot: those from the first one
\* that holds the snapshot's next change.
ToReplay(id) ==
    LET joins == {i \in DOMAIN buffer : buffer[i].U <= id + 1 /\ buffer[i].u >= id + 1}
    IN  IF joins = {} THEN <<>> ELSE SubSeq(buffer, Min(joins), Len(buffer))

\* Mutant: a gap between two updates is not looked for.
FollowUnchecked(update, s) ==
    /\ book' = Update(s.book, <<update>>)
    /\ suspect' = s.suspect \ Covered(<<update>>)
    /\ future' = "none"
    /\ base' = s.base
    /\ previous' = update.u

\* The message itself, on what the snapshot and the replay made of the book.
Follow(update, s) ==
    IF s.previous + 1 < update.U
    THEN /\ book' = Empty
         /\ suspect' = {}
         /\ future' = "asked"
         /\ base' = Base
         /\ previous' = s.previous
    ELSE /\ book' = Update(s.book, <<update>>)
         /\ suspect' = s.suspect \ Covered(<<update>>)
         /\ future' = "none"
         /\ base' = s.base
         /\ previous' = update.u

\* The reply has not come: the update is buffered.
BufferUpdate(update) ==
    /\ future \in {"asked", "answered"}
    /\ buffer' = Append(buffer, update)
    /\ UNCHANGED <<requestVars, previous, book, base, suspect>>

\* future.get() throws, on_message catches: the message is gone as well.
SnapshotThrows(update) ==
    /\ future = "failed"
    /\ future' = "none"
    /\ UNCHANGED <<snapshotId, bookVars>>

\* The snapshot is put on the book that is there, the buffer is replayed on it.
ApplySnapshot(update) ==
    /\ future = "ready"
    /\ LET replay == ToReplay(snapshotId)
           left == {l \in Levels : book[l] # 0 /\ BookAt(snapshotId)[l] = 0}
       IN  Follow(update,
               [book |-> Update(book, <<Snapshot(snapshotId)>> \o replay),
                suspect |-> left \ Covered(replay),
                base |-> snapshotId,
                previous |-> IF replay = <<>> THEN snapshotId
                             ELSE replay[Len(replay)].u])
    /\ buffer' = <<>>
    /\ UNCHANGED snapshotId

ApplyUpdate(update) ==
    /\ future = "none"
    /\ Follow(update, [book |-> book, suspect |-> suspect, base |-> base,
                       previous |-> previous])
    /\ UNCHANGED <<snapshotId, buffer>>

OnMessage ==
    /\ net # <<>>
    /\ net' = Tail(net)
    /\ \/ BufferUpdate(Head(net))
       \/ SnapshotThrows(Head(net))
       \/ ApplySnapshot(Head(net))
       \/ ApplyUpdate(Head(net))
    /\ UNCHANGED <<exchangeVars, link, lostInReply, countVars>>

----------------------------------------------------------------------------

Init ==
    /\ history \in {<<b>> : b \in Books}
    /\ touched = {}
    /\ emitted = 0
    /\ link = "closed"
    /\ net = <<>>
    /\ future = "none"
    /\ snapshotId = 0
    /\ buffer = <<>>
    /\ previous \in Garbage
    /\ book = Empty
    /\ base = Base
    /\ suspect = {}
    /\ lostInReply = FALSE
    /\ connects = 0
    /\ losses = 0
    /\ failures = 0

Next ==
    \/ \E l \in Levels, q \in Quantities : ExchangeChange(l, q)
    \/ ExchangeEmit
    \/ SnapshotAnswered
    \/ SnapshotReady
    \/ SnapshotFailed
    \/ OnClose
    \/ OnOpen
    \/ OnMessage

Spec == Init /\ [][Next]_vars

----------------------------------------------------------------------------

\* Depth updates: the changes U..u, with the quantities after the last of them.
Event ==
    [U : Nat, u : Nat, levels : UNION {[T -> Quantities] : T \in SUBSET Levels}]

TypeOK ==
    /\ history \in Seq(Books) /\ Len(history) >= 1
    /\ touched \subseteq Levels
    /\ emitted \in 0..Latest
    /\ link \in {"open", "closed"}
    /\ net \in Seq(Event)
    /\ future \in {"none", "asked", "answered", "ready", "failed"}
    /\ snapshotId \in 0..Latest
    /\ buffer \in Seq(Event)
    /\ previous \in Nat
    /\ book \in Books
    /\ base \in {Base} \cup 0..Latest
    /\ suspect \subseteq Levels
    /\ lostInReply \in BOOLEAN
    /\ {connects, losses, failures} \subseteq Nat

\* The book stands on a snapshot and has caught up with it.
Settled == base # Base /\ previous >= base

\* Once caught up with its snapshot, the book is the exchange's book after change
\* m_previous_update_id, but for levels of an earlier connection that have been
\* deleted since and that no update has named again.
SettledBookIsExchanges ==
    Settled /\ ~lostInReply =>
        \A l \in Levels \ suspect : book[l] = BookAt(previous)[l]

\* On the first connection nothing is left over: the book is exactly the
\* exchange's, a gap between two messages included, which clears it.
FirstConnectionExact ==
    Settled /\ ~lostInReply /\ connects = 1 => book = BookAt(previous)

\* An update older than the snapshot is put on it all the same and takes the
\* update id back: until the book has caught up again every level shows the
\* quantity of the snapshot or the one at that id, never a third.
LateUpdateMixesTwoBooks ==
    base # Base /\ previous < base =>
        \A l \in Levels \ suspect : book[l] \in {BookAt(base)[l], BookAt(previous)[l]}

\* A book is only ever built on a snapshot, on every connection, whatever memory
\* m_previous_update_id was given; but for the update that comes after a failed
\* first request, which is taken when the id there happens to be large enough.
BookNeedsSnapshot ==
    base = Base /\ failures = 0 => book = Empty

=============================================================================
