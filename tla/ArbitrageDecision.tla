-------------------------- MODULE ArbitrageDecision --------------------------
(***************************************************************************)
(* What ArbitrageStrategy::OnBookTicker decides for one pair: the tickers  *)
(* and the free balances change one by one, and after every change the     *)
(* match of ArbitrageStrategyMatcher and the orders of                     *)
(* ArbitrageOrderCalculator are those of ArbitrageOrders.                  *)
(***************************************************************************)
EXTENDS ArbitrageOrders

CONSTANTS
    Quotes,         \* the tickers an exchange may send
    Amounts         \* free balances

ASSUME DecisionAssumption ==
    /\ Quotes \subseteq {q \in Ticker : q.bid_vol > 0 /\ q.ask > 0 /\ q.ask_vol > 0}
    /\ Amounts \subseteq Nat

VARIABLES
    tickers,        \* m_tickers[pair], by exchange
    base,           \* GetBaseBalance of the exchange to sell on
    quote           \* GetQuoteBalance of the exchange to buy on

vars == <<tickers, base, quote>>

Init ==
    /\ tickers = [e \in {} |-> 0]
    /\ base \in Amounts
    /\ quote \in Amounts

StoreTicker(e, q) ==
    /\ tickers' = [f \in DOMAIN tickers \cup {e} |-> IF f = e THEN q ELSE tickers[f]]
    /\ UNCHANGED <<base, quote>>

BaseBalance(x) == base' = x /\ UNCHANGED <<tickers, quote>>

QuoteBalance(x) == quote' = x /\ UNCHANGED <<tickers, base>>

Next ==
    \/ \E e \in Exchanges, q \in Quotes : StoreTicker(e, q)
    \/ \E x \in Amounts : BaseBalance(x) \/ QuoteBalance(x)

Spec == Init /\ [][Next]_vars

(***************************************************************************)
(* The orders of the match                                                 *)
(***************************************************************************)

Match == HasMatch(tickers)

Bid == LET b == BestBid(tickers)
       IN  [exchange |-> b, price |-> tickers[b].bid, vol |-> tickers[b].bid_vol]
Ask == LET a == BestAsk(tickers)
       IN  [exchange |-> a, price |-> tickers[a].ask, vol |-> tickers[a].ask_vol]

Buy == BuyPrice(Bid.exchange, Bid.price, Bid.vol, Ask.exchange, Ask.price, Ask.vol)
Sell == SellPrice(Bid.exchange, Bid.price, Bid.vol, Ask.exchange, Ask.price, Ask.vol)

\* times 10 * Ask.price
Qty == Quantity(Bid.vol, Ask.price, Ask.vol, base, quote)

(***************************************************************************)
(* Properties                                                              *)
(***************************************************************************)

\* "perhaps add some validations and sanity checks eg. this is not the same exchange
\* on both bid and ask side" (arbitrage_strategy_matcher.cc:68): the two sides are
\* different exchanges as long as no single book is crossed.
DifferentExchanges ==
    /\ Match
    /\ \A e \in DOMAIN tickers : tickers[e].bid <= tickers[e].ask
    => Bid.exchange # Ask.exchange

\* FindMatch compares prices before fees; still, no two exchanges that cost at least
\* as much as those it looks at offer a match it does not find, or a better one.
NoBetterAtSameCost ==
    DOMAIN tickers # {} /\ tickers[BestBid(tickers)].bid > 0 =>
        \A b, a \in DOMAIN tickers :
            /\ Fee[b] >= Fee[Bid.exchange] /\ Slippage[b] >= Slippage[Bid.exchange]
            /\ Fee[a] >= Fee[Ask.exchange] /\ Slippage[a] >= Slippage[Ask.exchange]
            /\ Profit(b, tickers[b].bid, a, tickers[a].ask) >= 0
            => /\ Match
               /\ Profit(b, tickers[b].bid, a, tickers[a].ask)
                    <= Profit(Bid.exchange, Bid.price, Ask.exchange, Ask.price)

\* "Worst case is 0 profit" (arbitrage_order_calculator.cc:75): both orders filled at
\* their own prices cost in fees exactly what they earn.
WorstCaseZeroProfit ==
    Match => SellCost(Bid.exchange) * Sell.num * Buy.den
                = BuyCost(Ask.exchange) * Buy.num * Sell.den

\* The orders of a match can be filled at once from the books they were computed
\* from: what the matcher calls profitable with its margin and slippage leaves the
\* calculator, which knows only the fees, no price on the wrong side of the book.
PricesCrossTheBook ==
    Match => /\ Buy.num >= Ask.price * Buy.den
             /\ Sell.num <= Bid.price * Sell.den

\* The quantity takes at most 30% of the smaller volume and 90% of the balance on
\* either side, the quote balance at the price of the ask.
QuantityBounded ==
    Match =>
        /\ Qty >= 0
        /\ Qty <= 3 * Smaller(Bid.vol, Ask.vol) * Ask.price
        /\ Qty <= 9 * base * Ask.price
        /\ Qty <= 9 * quote

\* "Allow maximum 90% of actual balance to be traded"
\* (arbitrage_order_calculator.cc:45): the buy order, at its own price, takes at most
\* 90% of the free quote balance.
QuoteBalanceRespected ==
    Match => Qty * Buy.num <= 9 * quote * Ask.price * Buy.den
=============================================================================
