-------------------------- MODULE MCKrakenOrderBook --------------------------
(***************************************************************************)
(* KrakenOrderBook for TLC: two levels a side are subscribed and are under *)
(* the checksum, where the program subscribes 10 and the exchange's        *)
(* checksum covers 10.                                                     *)
(*                                                                         *)
(* The prices are stored as they are, or with the lowest one unit lower,   *)
(* or with the second one as the first.                                    *)
(***************************************************************************)
EXTENDS KrakenOrderBook

Exact == [p \in Prices |-> p]
Cut == [p \in Prices |-> IF \A q \in Prices : p <= q THEN p - 1 ELSE p]
Merged == [p \in Prices |-> IF p - 1 \in Prices /\ p - 2 \notin Prices THEN p - 1 ELSE p]

MCSubscriptions ==
    {[feed |-> 2, kept |-> 2, validate |-> TRUE, stored |-> Exact],  \* kraken_order_book_main.cc
     [feed |-> 2, kept |-> 1, validate |-> FALSE, stored |-> Cut],   \* arbitrage_strategy_main.cc
     [feed |-> 2, kept |-> 2, validate |-> TRUE, stored |-> Merged]}

MCBooks ==
    {[asks |-> [p \in Prices |-> 1], bids |-> [p \in Prices |-> IF p = 3 THEN 0 ELSE 1]]}
=============================================================================
