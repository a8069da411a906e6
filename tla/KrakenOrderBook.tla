--------------------------- MODULE KrakenOrderBook ---------------------------
(***************************************************************************)
(* KrakenWebsocketClient (websocket/kraken_websocket_client.hpp) with its  *)
(* KrakenOrderBookHandler, OrderBook and TickersWatcher, for one pair,     *)
(* against an exchange that sends its best levels.                         *)
(*                                                                         *)
(* SubscribeOrderBook keeps as many levels as it asks for, and the handler *)
(* can check the exchange's checksum after every update;                   *)
(* SubscribeBookTicker asks for 10 levels and keeps one.  A book that      *)
(* fails the check is not shown and the pair is subscribed again.  The     *)
(* watcher closes a connection that has gone silent, and every             *)
(* subscription is sent again on the next one.                             *)
(*                                                                         *)
(* The exchange's prices are decimals, counted here in units of the last   *)
(* digit that is sent.  The program multiplies the double by a power of    *)
(* ten and cuts it to an integer: a price may be stored one unit lower, or *)
(* as its neighbour is; and quick_pow10 has no entry for the precision of  *)
(* DOT_BTC, whose prices are stored as whatever lies behind the table      *)
(* makes of them.  A pair's conversion is part of its subscription.        *)
(***************************************************************************)
EXTENDS OrderBook

CONSTANTS
    Prices,        \* prices of the exchange's book
    Volumes,       \* volumes of its levels
    Truncated,     \* those that lose their last digit in CalculateChecksumInput
    Subscriptions, \* [feed, kept, validate, stored]: levels asked for, levels kept,
                   \* checksum or not, and what a price of the pair is stored as
    ChecksumDepth, \* levels of a side under the exchange's checksum
    Legal,         \* depths the exchange takes a subscription for
    Books,         \* books the exchange may start with
    MaxChanges,    \* bound on the changes of the exchange's book
    MaxLosses,     \* bound on the updates that are not delivered
    MaxConnects    \* bound on the connections

Sides == {"asks", "bids"}

ASSUME KrakenAssumption ==
    /\ Prices \subseteq Nat \ {0} /\ IsFiniteSet(Prices)
    /\ Volumes \subseteq Nat \ {0} /\ Truncated \subseteq Volumes
    /\ Legal \subseteq Nat \ {0, 1}
    /\ Subscriptions \subseteq
          [feed : Legal, kept : Nat, validate : BOOLEAN, stored : [Prices -> Nat]]
    /\ \A s \in Subscriptions : s.kept \in {s.feed, 1}
    /\ ChecksumDepth \in Nat \ {0}
    /\ Books \subseteq [Sides -> [Prices -> Volumes \cup {0}]]
    /\ {MaxChanges, MaxLosses, MaxConnects} \subseteq Nat

VARIABLES
    sub,        \* how the program subscribes
    volumes,    \* exchange: volume of every side and price, 0 for no level
    feeding,    \* exchange: it sends updates on this connection
    asked,      \* exchange: depth of a subscription it has to answer, or 0
    link,       \* the websocket connection: "closed", "open" or, half open, "silent"
    net,        \* messages on their way to OnMessage
    subscribed, \* m_subscription_msg and m_order_books hold the pair
    ob,         \* the pair's OrderBook
    age,        \* m_last_arrived: "none", "fresh" or, for 30 seconds, "old"
    shown,      \* the listener's last OnOrderBookUpdate, with the message behind it
    gap,        \* history: a message was lost since the last one sent
    current,    \* history: the exchange's levels at the last message
    intact,     \* history: no update was lost since the last snapshot
    changes, losses, connects  \* history: counted for the bounds

exchangeVars == <<volumes, feeding, gap, changes, losses>>
clientVars == <<subscribed, ob, shown, current, intact>>
vars == <<sub, exchangeVars, asked, link, net, clientVars, age, connects>>

(***************************************************************************)
(* The exchange: the best levels of its book, best one last                *)
(***************************************************************************)

Listed(vol, side) == {p \in Prices : vol[side][p] # 0}

Worse(side, p, q) == IF side = "asks" THEN p > q ELSE p < q

Better(vol, side, p) == {q \in Listed(vol, side) : Worse(side, p, q)}

\* The last level has no better one, the one before it one, and so on.
Best(vol, side, depth) ==
    LET listed == Cardinality(Listed(vol, side))
        count == IF listed < depth THEN listed ELSE depth
        At(i) == CHOOSE p \in Listed(vol, side) : Cardinality(Better(vol, side, p)) = count - i
    IN  [i \in 1..count |-> [price |-> At(i), volume |-> vol[side][At(i)]]]

Top(vol, depth) == [side \in Sides |-> Best(vol, side, depth)]

\* The last levels of a list, which are its best.
Tip(list, depth) ==
    SubSeq(list, IF Len(list) > depth THEN Len(list) - depth + 1 ELSE 1, Len(list))

TipOf(book, depth) == [side \in Sides |-> Tip(book[side], depth)]

Snapshot(vol, depth) ==
    LET top == Top(vol, depth)
    IN  [kind |-> "snapshot", asks |-> Reverse(top.asks), bids |-> Reverse(top.bids),
         book |-> top, gap |-> FALSE]

\* What the subscriber is told of a change at price p: the level, then the levels
\* that have come into the subscribed depth because of it.
Told(old, new, side, p, depth) ==
    LET before == {l.price : l \in ToSet(Best(old, side, depth))}
        entered == {l \in ToSet(Best(new, side, depth)) :
                        l.price # p /\ l.price \notin before}
    IN  <<[price |-> p, volume |-> new[side][p]]>> \o SetToSeq(entered)

Message(old, new, side, p) ==
    [kind |-> "update",
     asks |-> IF side = "asks" THEN Told(old, new, side, p, sub.feed) ELSE <<>>,
     bids |-> IF side = "bids" THEN Told(old, new, side, p, sub.feed) ELSE <<>>,
     book |-> Top(new, sub.feed), gap |-> gap]

\* A change outside the subscribed depth is not sent; one that is may be lost, a
\* case the checksum is there for.
ExchangeChange(side, p, v) ==
    /\ changes < MaxChanges
    /\ volumes[side][p] # v
    /\ LET new == [volumes EXCEPT ![side][p] = v]
           visible == Top(new, sub.feed) # Top(volumes, sub.feed)
           sent == feeding /\ link = "open" /\ visible
       IN  /\ volumes' = new
           /\ \/ /\ ~sent
                 /\ UNCHANGED <<net, gap, losses>>
              \/ /\ sent
                 /\ net' = Append(net, Message(volumes, new, side, p))
                 /\ gap' = FALSE
                 /\ UNCHANGED losses
              \/ /\ sent
                 /\ losses < MaxLosses
                 /\ losses' = losses + 1
                 /\ gap' = TRUE
                 /\ UNCHANGED net
    /\ changes' = changes + 1
    /\ UNCHANGED <<sub, feeding, asked, link, clientVars, age, connects>>

\* A subscription of a depth the exchange offers is answered by a snapshot and,
\* from there on, updates.  One the exchange has already is refused or renewed.
ExchangeAnswer ==
    /\ asked # 0
    /\ link = "open"
    /\ \/ /\ asked \in Legal
          /\ net' = Append(net, Snapshot(volumes, sub.feed))
          /\ feeding' = TRUE
          /\ gap' = FALSE
       \/ /\ asked \notin Legal \/ feeding
          /\ UNCHANGED <<net, feeding, gap>>
    /\ asked' = 0
    /\ UNCHANGED <<sub, volumes, changes, losses, link, clientVars, age, connects>>

\* The connection is there but nothing comes any more.
ExchangeSilent ==
    /\ link = "open"
    /\ link' = "silent"
    /\ net' = <<>>
    /\ UNCHANGED <<sub, exchangeVars, asked, clientVars, age, connects>>

(***************************************************************************)
(* The client                                                              *)
(***************************************************************************)

\* SubscribeOrderBook and SubscribeBookTicker, on the main thread: without a
\* connection send only logs an error.
Subscribe ==
    /\ ~subscribed
    /\ connects > 0
    /\ subscribed' = TRUE
    /\ asked' = IF link = "open" THEN sub.feed ELSE asked
    /\ UNCHANGED <<sub, exchangeVars, link, net, ob, shown, current, intact,
                   age, connects>>

\* OnOpen sends what was ever subscribed.
OnOpen ==
    /\ link = "closed"
    /\ connects < MaxConnects
    /\ connects' = connects + 1
    /\ link' = "open"
    /\ asked' = IF subscribed THEN sub.feed ELSE 0
    /\ UNCHANGED <<sub, exchangeVars, net, clientVars, age>>

\* on_close: the feed ends with its connection, the book stays.
OnClose ==
    /\ link' = "closed"
    /\ net' = <<>>
    /\ feeding' = FALSE
    /\ asked' = 0
    /\ UNCHANGED <<sub, volumes, gap, changes, losses, clientVars, age, connects>>

ExchangeCloses == link \in {"open", "silent"} /\ OnClose

\* No message of the pair for longer than the watcher's interval.
Elapse ==
    /\ age = "fresh"
    /\ age' = "old"
    /\ UNCHANGED <<sub, exchangeVars, asked, link, net, clientVars, connects>>

\* Mutant: only a connection that is still alive is closed.
WatchImplOpen ==
    /\ age = "old"
    /\ link = "open"
    /\ OnClose

\* TickersWatcher::WatchImpl looks at the pairs that have ever been heard.
WatchImpl ==
    /\ age = "old"
    /\ link \in {"open", "silent"}
    /\ OnClose

\* CalculateChecksumInput of the levels, best first: the price as it is stored; a
\* volume is multiplied by a power of ten and cut to an integer.
ChecksumInput(book) ==
    [side \in Sides |->
        [i \in 1..Len(book[side]) |->
            LET l == book[side][i]
            IN  [l EXCEPT !.volume = IF @ \in Truncated THEN @ - 1 ELSE @]]]

\* The exchange's checksum, over its best levels and their volumes.
ExchangeChecksum(book) == TipOf(book, ChecksumDepth)

\* Mutant: the bids are left out of the checksum.
IsValidAsks(m, book) ==
    \/ m.kind = "snapshot"
    \/ ~sub.validate
    \/ ChecksumInput(book).asks = ExchangeChecksum(m.book).asks

IsValid(m, book) ==
    \/ m.kind = "snapshot"
    \/ ~sub.validate
    \/ ChecksumInput(book) = ExchangeChecksum(m.book)

\* ParsePriceLevel of a message's levels: what their prices are stored as.
ParsePriceLevels(levels) ==
    [i \in 1..Len(levels) |-> [levels[i] EXCEPT !.price = sub.stored[@]]]

\* Mutant: the book is not cleared for a snapshot.
HandledOnTop(m) ==
    ChangeBook(ob, ParsePriceLevels(m.asks), ParsePriceLevels(m.bids), sub.kept)

\* KrakenOrderBookHandler: a snapshot is put on a cleared book.
Handled(m) ==
    ChangeBook(IF m.kind = "snapshot" THEN EmptyBook ELSE ob,
               ParsePriceLevels(m.asks), ParsePriceLevels(m.bids), sub.kept)

OnMessage ==
    /\ net # <<>>
    /\ LET m == Head(net)
       IN  /\ ob' = Handled(m)
           /\ current' = m.book
           /\ intact' = (m.kind = "snapshot" \/ (intact /\ ~m.gap))
           /\ \/ /\ IsValid(m, ob')
                 /\ age' = "fresh"
                 /\ shown' = [kind |-> m.kind, book |-> ob', exchange |-> m.book]
                 /\ UNCHANGED asked
              \/ /\ ~IsValid(m, ob')
                 /\ asked' = sub.kept
                 /\ UNCHANGED <<age, shown>>
    /\ net' = Tail(net)
    /\ UNCHANGED <<sub, exchangeVars, link, subscribed, connects>>

----------------------------------------------------------------------------

Init ==
    /\ sub \in Subscriptions
    /\ volumes \in Books
    /\ feeding = FALSE
    /\ asked = 0
    /\ link = "closed"
    /\ net = <<>>
    /\ subscribed = FALSE
    /\ ob = EmptyBook
    /\ age = "none"
    /\ shown = [kind |-> "snapshot", book |-> EmptyBook, exchange |-> EmptyBook]
    /\ current = EmptyBook
    /\ gap = FALSE
    /\ intact = FALSE
    /\ changes = 0
    /\ losses = 0
    /\ connects = 0

Next ==
    \/ \E side \in Sides, p \in Prices, v \in Volumes \cup {0} : ExchangeChange(side, p, v)
    \/ ExchangeAnswer
    \/ ExchangeSilent
    \/ ExchangeCloses
    \/ Subscribe
    \/ OnOpen
    \/ Elapse
    \/ WatchImpl
    \/ OnMessage

Spec == Init /\ [][Next]_vars

\* Time goes on while a connection is silent, and the watcher's thread looks at
\* the pairs every 30 seconds.
FairSpec ==
    /\ Spec
    /\ WF_vars(link = "silent" /\ Elapse)
    /\ WF_vars(WatchImpl)

----------------------------------------------------------------------------

Book == [Sides -> Seq(Level)]

\* A level of the exchange.
Offer == [price : Prices, volume : Volumes]

ExchangeBook == [Sides -> Seq(Offer)]

LevelChange == [price : Prices, volume : Volumes \cup {0}]

BookMessage == [kind : {"snapshot", "update"}, asks : Seq(LevelChange), bids : Seq(LevelChange),
                book : ExchangeBook, gap : BOOLEAN]

\* What each variable holds.
TypeOK ==
    /\ sub \in Subscriptions
    /\ volumes \in [Sides -> [Prices -> Volumes \cup {0}]]
    /\ {feeding, gap, subscribed, intact} \subseteq BOOLEAN
    /\ asked \in Nat
    /\ link \in {"closed", "open", "silent"}
    /\ net \in Seq(BookMessage)
    /\ ob \in Book /\ current \in ExchangeBook
    /\ shown \in [kind : {"snapshot", "update"}, book : Book, exchange : ExchangeBook]
    /\ age \in {"none", "fresh", "old"}
    /\ {changes, losses, connects} \subseteq Nat

\* The conversion keeps the exchange's prices apart and in order.
Apart == \A p, q \in Prices : p < q => sub.stored[p] < sub.stored[q]

\* It takes at most one unit from a price.
CutToUnit == \A p \in Prices : sub.stored[p] \in {p - 1, p}

\* The same prices, and no volume off by more than the unit a checksum cannot see.
PassesFor(mine, theirs) ==
    /\ Len(mine) = Len(theirs)
    /\ \A i \in 1..Len(mine) :
          /\ mine[i].price = theirs[i].price
          /\ mine[i].volume \in {theirs[i].volume, theirs[i].volume + 1}

\* With the checksum on, whatever was lost before and whatever the conversion does
\* to prices: the levels the checksum covers have the exchange's own prices in every
\* updated book the listener is shown, and volumes that differ from the exchange's
\* by one unit at most (the cut of kraken_order_book_handler.hpp:122 lets a stale
\* volume pass for the one below it).  A snapshot is shown unchecked: it has the
\* exchange's levels as they are stored, if the conversion keeps them apart.
ShownBookIsExchanges ==
    LET checked == IF sub.kept < ChecksumDepth THEN sub.kept ELSE ChecksumDepth
        mine == TipOf(shown.book, checked)
        theirs == TipOf(shown.exchange, checked)
    IN  sub.validate =>
            \A side \in Sides :
                /\ shown.kind = "update" => PassesFor(mine[side], theirs[side])
                /\ shown.kind = "snapshot" /\ Apart =>
                      mine[side] = ParsePriceLevels(theirs[side])

\* Without losses a book as deep as its subscription follows the exchange, the
\* levels that come and go at its end included, and after a reconnection too: it
\* has the exchange's levels under the prices they are stored as, if these are apart.
BookFollowsFeed ==
    intact /\ sub.kept = sub.feed /\ Apart =>
        \A side \in Sides : ob[side] = ParsePriceLevels(current[side])

\* A book that keeps fewer levels than it is sent may miss the best level, but
\* without losses it never shows a better price than the exchange has, but for the
\* unit the conversion may take from an ask (1.15 is stored as 114999999 with a
\* precision of 8): an arbitrage seen in it is, within that unit, one there is.
NeverBetterThanExchange ==
    intact /\ Apart /\ CutToUnit =>
        LET mine == TickerFromOrderBook(ob)
            theirs == TickerFromOrderBook(current)
        IN  /\ mine.ask_vol # 0 => mine.ask >= theirs.ask - 1 /\ theirs.ask_vol # 0
            /\ mine.bid <= theirs.bid

\* A connection that goes silent after the pair was heard on this or an earlier
\* one is closed by the watcher (tickers_watcher.hpp:50-51).
SilentIsClosed ==
    (link = "silent" /\ age # "none") ~> (link = "closed")

=============================================================================
