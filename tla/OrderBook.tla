------------------------------ MODULE OrderBook ------------------------------
(***************************************************************************)
(* OrderBook (model/order_book.h) and the ticker made from it              *)
(* (exchange/exchange_listener.h).                                         *)
(*                                                                         *)
(* A side of the book is a list of levels, the best one last: bids by      *)
(* rising price, asks by falling price.  A list longer than the depth of   *)
(* the book loses its front, the worst level.                              *)
(***************************************************************************)
EXTENDS Integers, SequencesExt

\* price_t and quantity_t: the price is what the conversion to an integer made of
\* the exchange's, and may be 0.
Level == [price : Nat, volume : Nat \ {0}]

\* PriceLevel::Null: what an empty side shows.
Null == [price |-> 0, volume |-> 0]

EmptyBook == [asks |-> <<>>, bids |-> <<>>]

\* The level takes the place of position i when that has its price, and is
\* inserted before position i when not.
PutAt(list, level, i) ==
    IF i <= Len(list) /\ list[i].price = level.price
    THEN [list EXCEPT ![i] = level]
    ELSE InsertAt(list, i, level)

PopWorst(list, depth) == IF Len(list) > depth THEN Tail(list) ELSE list

\* Where the walk from the front stops: at the first bid that is not lower.
BidPosition(bids, price) ==
    CHOOSE i \in 1..(Len(bids) + 1) :
        /\ \A j \in 1..(i - 1) : bids[j].price < price
        /\ i <= Len(bids) => bids[i].price >= price

\* At the first ask that is not higher.
AskPosition(asks, price) ==
    CHOOSE i \in 1..(Len(asks) + 1) :
        /\ \A j \in 1..(i - 1) : asks[j].price > price
        /\ i <= Len(asks) => asks[i].price <= price

UpsertBid(bids, level, depth) ==
    PopWorst(PutAt(bids, level, BidPosition(bids, level.price)), depth)

UpsertAsk(asks, level, depth) ==
    PopWorst(PutAt(asks, level, AskPosition(asks, level.price)), depth)

\* Mutant: the search leaves out the last level.
DeleteButBest(list, price) ==
    LET found == {i \in 1..(Len(list) - 1) : list[i].price = price}
    IN  IF found = {} THEN list ELSE RemoveAt(list, Max(found))

\* The search runs from the end, and only the level it finds is erased.
Delete(list, price) ==
    LET found == {i \in 1..Len(list) : list[i].price = price}
    IN  IF found = {} THEN list ELSE RemoveAt(list, Max(found))

\* Mutant: a level without volume is a level like any other.
ChangeBidAnyVolume(bids, level, depth) == UpsertBid(bids, level, depth)

\* One level of an update: no volume deletes the level.
ChangeBid(bids, level, depth) ==
    IF level.volume = 0 THEN Delete(bids, level.price) ELSE UpsertBid(bids, level, depth)

ChangeAsk(asks, level, depth) ==
    IF level.volume = 0 THEN Delete(asks, level.price) ELSE UpsertAsk(asks, level, depth)

\* The levels of a message, in its order, with the prices they are stored under:
\* two prices of the exchange that are stored as one are one level here.
ChangeBook(book, asks, bids, depth) ==
    [asks |-> FoldLeft(LAMBDA list, level : ChangeAsk(list, level, depth), book.asks, asks),
     bids |-> FoldLeft(LAMBDA list, level : ChangeBid(list, level, depth), book.bids, bids)]

BestOf(list) == IF list = <<>> THEN Null ELSE list[Len(list)]

TickerFromOrderBook(book) ==
    [ask |-> BestOf(book.asks).price, ask_vol |-> BestOf(book.asks).volume,
     bid |-> BestOf(book.bids).price, bid_vol |-> BestOf(book.bids).volume]

Ascending(list) ==
    \A i, j \in 1..Len(list) : i < j => list[i].price < list[j].price

Descending(list) ==
    \A i, j \in 1..Len(list) : i < j => list[i].price > list[j].price

=============================================================================
