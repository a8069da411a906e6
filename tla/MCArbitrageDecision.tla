------------------------- MODULE MCArbitrageDecision -------------------------
(***************************************************************************)
(* ArbitrageDecision for TLC: three exchanges, two of them with the same   *)
(* fee, a coarse grid of prices on which books are normal, locked (bid =   *)
(* ask) and crossed.                                                       *)
(***************************************************************************)
EXTENDS ArbitrageDecision, TLC

CONSTANTS binance, ftx, kraken

MCExchanges == {binance, ftx, kraken}
MCRank == binance :> 0 @@ ftx :> 1 @@ kraken :> 2
MCFee == binance :> 1 @@ ftx :> 1 @@ kraken :> 2
MCSlippage == binance :> 0 @@ ftx :> 1 @@ kraken :> 0
MCDailyVolume == binance :> 3 @@ ftx :> 2 @@ kraken :> 1
MCVolumes == {<<1, 2>>, <<2, 1>>}
MCQuotes ==
    {[bid |-> b, bid_vol |-> v[1], ask |-> a, ask_vol |-> v[2]] :
        b \in {0, 4, 7}, a \in {4, 5, 8}, v \in MCVolumes}
MCNormalQuotes == {q \in MCQuotes : q.bid < q.ask}
=============================================================================
