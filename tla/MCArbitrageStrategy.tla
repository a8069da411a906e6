------------------------- MODULE MCArbitrageStrategy -------------------------
(***************************************************************************)
(* ArbitrageStrategy for TLC: two exchanges with different fees.  The book *)
(* of one exchange may be crossed for a while: it is the better one to     *)
(* sell on when the other exchange is low, and both orders go to it when   *)
(* it is alone or the other one is crossed as well.                        *)
(***************************************************************************)
EXTENDS ArbitrageStrategy, TLC

CONSTANTS binance, kraken

MCExchanges == {binance, kraken}
MCRank == binance :> 0 @@ kraken :> 1
MCFee == binance :> 1 @@ kraken :> 2
MCSlippage == binance :> 0 @@ kraken :> 0
MCDailyVolume == binance :> 5 @@ kraken :> 1
MCQuotes ==
    {[bid |-> 100, bid_vol |-> 3, ask |-> 101, ask_vol |-> 2],
     [bid |-> 110, bid_vol |-> 2, ask |-> 102, ask_vol |-> 3]}
=============================================================================
