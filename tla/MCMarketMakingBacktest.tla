----------------------- MODULE MCMarketMakingBacktest -----------------------
(***************************************************************************)
(* MarketMakingBacktest for TLC: tickers one price step and three apart.   *)
(***************************************************************************)
EXTENDS MarketMakingBacktest

MCTickers == {[bid |-> 4, ask |-> 4], [bid |-> 5, ask |-> 7], [bid |-> 3, ask |-> 9]}
=============================================================================
