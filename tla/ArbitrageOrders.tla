--------------------------- MODULE ArbitrageOrders ---------------------------
(***************************************************************************)
(* The pure part of the arbitrage: ArbitrageStrategyMatcher finds the two  *)
(* exchanges to trade on, ArbitrageOrderCalculator the quantity and the    *)
(* prices of the two orders.                                               *)
(*                                                                         *)
(* Doubles are modelled by rational numbers: prices, volumes and balances  *)
(* are natural numbers, fees and margins are given in 1/Unit, and a result *)
(* that is a quotient is kept as the pair of numerator and denominator     *)
(* (denominators are positive).                                            *)
(***************************************************************************)
EXTENDS Integers

CONSTANTS
    Exchanges,      \* names of the exchanges, the keys of exchange_params
    Rank,           \* Rank[e]: position of e in the order of std::map's keys
    Fee,            \* ExchangeParams::fee, in 1/Unit
    Slippage,       \* ExchangeParams::slippage
    DailyVolume,    \* ExchangeParams::daily_volume
    Margin,         \* arbitrage_match_profit_margin, in 1/Unit
    Unit            \* what stands for 1.0 in a fee or margin

Ticker == [bid : Nat, bid_vol : Nat, ask : Nat, ask_vol : Nat]

ASSUME OrdersAssumption ==
    /\ Unit \in Nat \ {0}
    /\ Margin \in Nat
    /\ Rank \in [Exchanges -> Nat]
    /\ \A e, f \in Exchanges : Rank[e] = Rank[f] => e = f
    /\ Fee \in [Exchanges -> Nat]
    /\ \A e \in Exchanges : Fee[e] + Margin < Unit
    /\ Slippage \in [Exchanges -> Nat]
    /\ DailyVolume \in [Exchanges -> Nat \ {0}]

(***************************************************************************)
(* ArbitrageStrategyMatcher                                                *)
(***************************************************************************)

\* The loop of FindMatch replaces the best price by a strictly better one: the
\* first of the best in the order of the map.
\* Mutant: the comparison of the bids is the one of the asks.
LowestBid(tickers) ==
    CHOOSE e \in DOMAIN tickers : \A f \in DOMAIN tickers \ {e} :
        \/ tickers[e].bid < tickers[f].bid
        \/ tickers[e].bid = tickers[f].bid /\ Rank[e] < Rank[f]
BestBid(tickers) ==
    CHOOSE e \in DOMAIN tickers : \A f \in DOMAIN tickers \ {e} :
        \/ tickers[e].bid > tickers[f].bid
        \/ tickers[e].bid = tickers[f].bid /\ Rank[e] < Rank[f]

BestAsk(tickers) ==
    CHOOSE e \in DOMAIN tickers : \A f \in DOMAIN tickers \ {e} :
        \/ tickers[e].ask < tickers[f].ask
        \/ tickers[e].ask = tickers[f].ask /\ Rank[e] < Rank[f]

\* CalculateProfit, times Unit: selling one unit at the bid of exchange b after
\* buying it at the ask of exchange a.
\* Mutant: the fees are forgotten.
ProfitWithoutFees(b, bid, a, ask) ==
    Unit * (bid - Slippage[b]) - Unit * (ask + Slippage[a])
Profit(b, bid, a, ask) ==
    (Unit - Fee[b] - Margin) * (bid - Slippage[b])
        - (Unit + Fee[a] + Margin) * (ask + Slippage[a])

\* FindMatch: best_bid starts at 0, so a bid of 0 is never the best one.
HasMatch(tickers) ==
    /\ DOMAIN tickers # {}
    /\ LET b == BestBid(tickers)
           a == BestAsk(tickers)
       IN  /\ tickers[b].bid > 0
           /\ Profit(b, tickers[b].bid, a, tickers[a].ask) >= 0

(***************************************************************************)
(* ArbitrageOrderCalculator: b is the exchange and ticker of the best bid, *)
(* a those of the best ask.                                                *)
(***************************************************************************)

Smaller(x, y) == IF x < y THEN x ELSE y

\* CalculateQuantity, times 10 * ask: 30% of the smaller volume of the books, at
\* most 90% of either balance at the prices of the tickers.
\* Mutant: the quote balance is not looked at.
QuantityOfBase(bidVol, ask, askVol, base, quote) ==
    Smaller(3 * Smaller(bidVol, askVol) * ask, 9 * base * ask)
Quantity(bidVol, ask, askVol, base, quote) ==
    LET book == 3 * Smaller(bidVol, askVol) * ask
    IN  Smaller(book, Smaller(Smaller(book, 9 * quote), 9 * base * ask))

\* ask_coeff and bid_coeff, times 2 * daily_vol_sum * vol_sum: the weight of one
\* exchange by its daily volume and by the volume of its ticker.
Weight(daily, dailySum, vol, volSum) == daily * volSum + vol * dailySum

AskCoeff(b, bidVol, a, askVol) ==
    Weight(DailyVolume[a], DailyVolume[a] + DailyVolume[b], askVol, bidVol + askVol)
BidCoeff(b, bidVol, a, askVol) ==
    Weight(DailyVolume[b], DailyVolume[a] + DailyVolume[b], bidVol, bidVol + askVol)
CoeffUnit(b, bidVol, a, askVol) ==
    2 * (DailyVolume[a] + DailyVolume[b]) * (bidVol + askVol)

SellCost(b) == Unit - Fee[b]
BuyCost(a) == Unit + Fee[a]

\* CalculatePrices: the numerators of both prices are the same number.
\* buy_price = ask * ask_coeff + (sell_cost / buy_cost * bid) * bid_coeff
\* Mutant: the coefficients are swapped.
BuyPriceSwapped(b, bid, bidVol, a, ask, askVol) ==
    [num |-> ask * BidCoeff(b, bidVol, a, askVol) * BuyCost(a)
             + SellCost(b) * bid * AskCoeff(b, bidVol, a, askVol),
     den |-> CoeffUnit(b, bidVol, a, askVol) * BuyCost(a)]
BuyPrice(b, bid, bidVol, a, ask, askVol) ==
    [num |-> ask * AskCoeff(b, bidVol, a, askVol) * BuyCost(a)
             + SellCost(b) * bid * BidCoeff(b, bidVol, a, askVol),
     den |-> CoeffUnit(b, bidVol, a, askVol) * BuyCost(a)]

\* sell_price = bid * bid_coeff + (buy_cost / sell_cost * ask) * ask_coeff
SellPrice(b, bid, bidVol, a, ask, askVol) ==
    [num |-> bid * BidCoeff(b, bidVol, a, askVol) * SellCost(b)
             + BuyCost(a) * ask * AskCoeff(b, bidVol, a, askVol),
     den |-> CoeffUnit(b, bidVol, a, askVol) * SellCost(b)]
=============================================================================
