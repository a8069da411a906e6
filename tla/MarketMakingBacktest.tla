------------------------ MODULE MarketMakingBacktest ------------------------
(***************************************************************************)
(* A strategy played against the backtest exchange by the ticker producer, *)
(* as market_making_backtest.cc puts them together: every ticker goes to   *)
(* the exchange first and then to the strategy, so that the strategy never *)
(* orders on a ticker the exchange has not been given.  The tickers are of *)
(* two exchanges, of which this one is only one: the strategy may order    *)
(* before the exchange has a ticker of its own.                            *)
(*                                                                         *)
(* The program is either the market making one (MarketMakingStrategy and   *)
(* MarketMakingRiskManager: a sell and a buy order around the last ticker, *)
(* on order book updates) or one that calls the exchange directly with     *)
(* every kind of order, like the unit tests and the arbitrage backtest.    *)
(*                                                                         *)
(* The signal (moving averages, RSI) and the dice of OnPricePrediction are *)
(* abstracted to a choice; its `signal` is always 0.                       *)
(***************************************************************************)
EXTENDS BacktestExchange

CONSTANTS
    Spread,       \* distance of both orders from the middle price
    LimitPrices,  \* prices of a direct program's limit orders
    MaxTime, MaxTickers,  \* bounds
    MaxPredictions, MaxOrders  \* bounds of either program's orders

\* Predict: the base price is the middle of the last ticker's.
BasePrice(t) == (t.bid + t.ask) \div 2

ASSUME MarketMakingAssumption ==
    /\ {Spread, MaxTime, MaxTickers, MaxPredictions, MaxOrders} \subseteq Nat
    /\ LimitPrices \subseteq Nat
    /\ \A t \in Tickers : Spread < BasePrice(t)

VARIABLES
    program,         \* "market making" or "direct"
    bookTicker,      \* m_book_ticker of the signal
    orders,          \* m_orders of the risk manager
    tradingBalance,  \* m_trading_balance
    refused,         \* history: the orders refused for lack of funds
    cancelled,       \* history: the orders cancelled
    past             \* history: the tickers the exchange got

riskVars == <<bookTicker, orders, tradingBalance>>
vars == <<exchangeVars, riskVars, program, refused, cancelled, past>>

(***************************************************************************)
(* The risk manager                                                        *)
(***************************************************************************)

\* Mutant: a filled order is not taken out.
OnOrderUpdatesKept(filled) ==
    LET mine == {o \in Range(orders) : \E f \in filled : f.order.id = o.id}
        Of(side) == Cardinality({o \in mine : o.side = side})
    IN  /\ UNCHANGED orders
        /\ tradingBalance' = tradingBalance + Qty * (Of("BUY") - Of("SELL"))

\* OnOrderUpdate for every fill: the order is taken out and its quantity counted.
\* The orders are compared by client id, the id being empty.
OnOrderUpdates(filled) ==
    LET mine == {o \in Range(orders) : \E f \in filled : f.order.id = o.id}
        Of(side) == Cardinality({o \in mine : o.side = side})
    IN  /\ orders' = OrdersAt(orders, {i \in DOMAIN orders : orders[i] \notin mine})
        /\ tradingBalance' = tradingBalance + Qty * (Of("BUY") - Of("SELL"))

\* A sell and a buy order around the last ticker's middle price, with new uuids.
CalculateOrders ==
    <<NewOrder(lastOrderId + 1, "LIMIT", "SELL", BasePrice(bookTicker) + Spread),
      NewOrder(lastOrderId + 2, "LIMIT", "BUY", BasePrice(bookTicker) - Spread)>>

\* An order book update, when the prediction is confident enough: Predict gives no
\* confidence before many minutes of tickers, of whatever exchange.  Both orders are
\* kept, whatever SendOrder returns for them.
OnPricePrediction ==
    /\ program = "market making"
    /\ bookTicker # NoTicker
    /\ lastOrderId < 2 * MaxPredictions
    /\ AddLimitOrders(CalculateOrders)
    /\ orders' = orders \o CalculateOrders
    /\ refused' = refused \cup {o \in Range(CalculateOrders) : ~CanExecuteOrder(o)}
    /\ UNCHANGED <<program, bookTicker, tradingBalance, cancelled, past>>

(***************************************************************************)
(* A program that calls the exchange directly, before a first ticker too   *)
(***************************************************************************)

CanOrder == program = "direct" /\ lastOrderId < MaxOrders

DirectMarketOrder(side) ==
    /\ CanOrder
    /\ MarketOrder(side)
    /\ UNCHANGED <<riskVars, program, refused, cancelled, past>>

DirectLimitOrder(side, price) ==
    LET order == NewOrder(lastOrderId + 1, "LIMIT", side, price)
    IN  /\ CanOrder
        /\ AddLimitOrders(<<order>>)
        /\ refused' = IF CanExecuteOrder(order) THEN refused ELSE refused \cup {order}
        /\ UNCHANGED <<riskVars, program, cancelled, past>>

DirectCancel(order) ==
    /\ program = "direct"
    /\ CancelOrder(order)
    /\ cancelled' = cancelled \cup {order}
    /\ UNCHANGED <<riskVars, program, refused, past>>

(***************************************************************************)
(* The producer: events in the order of their arrival time                 *)
(***************************************************************************)

\* The risk manager is registered as the exchange's user data listener.
BookTicker(t, at) ==
    /\ Len(past) < MaxTickers
    /\ OnBookTicker(t, at)
    /\ past' = Append(past, [ticker |-> t, at |-> at])
    /\ IF program = "market making"
       THEN OnOrderUpdates(FillsOn(t, at)) /\ bookTicker' = t
       ELSE UNCHANGED riskVars
    /\ UNCHANGED <<program, refused, cancelled>>

\* A ticker of another exchange: the strategy takes its prices all the same.
OtherTicker(t, at) ==
    /\ OnOtherTicker(at)
    /\ bookTicker' = IF program = "market making" THEN t ELSE bookTicker
    /\ UNCHANGED <<orders, tradingBalance, program, refused, cancelled, past>>

Init ==
    /\ ExchangeInit
    /\ program \in {"market making", "direct"}
    /\ bookTicker = NoTicker
    /\ orders = <<>>
    /\ tradingBalance = 0
    /\ refused = {}
    /\ cancelled = {}
    /\ past = <<>>

Next ==
    \/ \E t \in Tickers, at \in updated..MaxTime : BookTicker(t, at) \/ OtherTicker(t, at)
    \/ OnPricePrediction
    \/ \E side \in {"BUY", "SELL"} :
          \/ DirectMarketOrder(side)
          \/ \E price \in LimitPrices : DirectLimitOrder(side, price)
    \/ \E order \in Range(resting) : DirectCancel(order)

Spec == Init /\ [][Next]_vars

(***************************************************************************)
(* Properties                                                              *)
(***************************************************************************)

Open == Range(pendingMarket) \cup Range(pendingLimit) \cup Range(resting)

Order == [id : Nat, type : {"MARKET", "LIMIT"}, side : {"BUY", "SELL"},
          price : Nat, created : 0..MaxTime]

\* The type invariant: what each variable of the exchange, the risk manager and the
\* history holds.
TypeOK ==
    /\ updated \in 0..MaxTime
    /\ {ticker, bookTicker} \subseteq Tickers \cup {NoTicker}
    /\ {pendingMarket, pendingLimit, resting, orders} \subseteq Seq(Order)
    /\ {base, quote, tradingBalance} \subseteq Int
    /\ lastOrderId \in Nat
    /\ \A f \in fills : f.order \in Order /\ f.at \in 0..MaxTime /\ f.ticker \in Tickers
    /\ refused \cup cancelled \subseteq Order
    /\ program \in {"market making", "direct"}

Ids(S) == {o.id : o \in S}
Filled == {f.order : f \in fills}

\* No order is lost, left behind twice or filled twice by the erasing loops of
\* OnBookTicker: each order made is in one list, filled, refused or cancelled, and
\* in only one of these.
EveryOrderOnce ==
    LET lists == pendingMarket \o pendingLimit \o resting
    IN  Len(lists) + Cardinality(fills) + Cardinality(refused) + Cardinality(cancelled)
            = Cardinality(Ids(Range(lists) \cup Filled \cup refused \cup cancelled))
        /\ Ids(Open \cup Filled \cup refused \cup cancelled) = 1..lastOrderId

\* The risk manager's view of the exchange: m_orders is what the exchange still has
\* open, and the orders it refused, which stay there for good; and m_trading_balance
\* is what the exchange's balance of the base asset has changed by.
RiskManagerAgrees ==
    program = "market making" =>
        /\ Ids(Range(orders)) = Ids(Open \cup refused)
        /\ Len(orders) = Cardinality(Open \cup refused)
        /\ tradingBalance = base - InitialBase

\* How many tickers had arrived when an order reached the exchange.
KnownBefore(order) ==
    Cardinality({i \in DOMAIN past : past[i].at <= order.created + Latency})

\* The n-th ticker is t.
IsTicker(n, t) == n \in DOMAIN past /\ past[n].ticker = t

\* The ticker a market order is filled at: the one in force when it reached the
\* exchange.  An order that came before any is filled at the first, when the second
\* arrives: until then there is "No previous ticker".
MarketTicker(order) == IF KnownBefore(order) = 0 THEN 1 ELSE KnownBefore(order)

\* No look-ahead, nothing late: a market order is filled at the prices in force when
\* it reached the exchange; a limit order is filled at a ticker after that, and one
\* that did not rest at the first such ticker.  No order stays pending past such a
\* ticker, but for the market orders the first ticker of all finds.
NoLookahead ==
    /\ \A f \in fills :
          /\ IsDue(f.order, f.at)
          /\ f.how = "market" => IsTicker(MarketTicker(f.order), f.ticker)
          /\ f.how = "due" => IsTicker(KnownBefore(f.order) + 1, f.ticker)
    /\ \A o \in Range(pendingLimit), p \in Range(past) : ~IsDue(o, p.at)
    /\ \A o \in Range(pendingMarket), p \in Range(past) :
          IsDue(o, p.at) => Len(past) = 1

\* How far a limit order may be filled from its price: one that rested never on the
\* wrong side of it, one that crossed the middle at most half of the prices'
\* difference (the bid or ask is paid, not the middle nor the limit).  The test
\* TestSingleLimitOrder (backtest_exchange_client_unittest.cc:95-121) expects a rested
\* BUY at 1.09 to be filled at the ask of 1.095, once the middle is at its price: line
\* 382 of the exchange waits for the ask itself, and the order rests on.
FillPriceBounded ==
    \A f \in fills :
        LET worse == IF f.order.side = "SELL" THEN f.order.price - f.price
                                              ELSE f.price - f.order.price
        IN  /\ f.how = "rested" => worse <= 0
            /\ f.how = "due" => 2 * worse <= f.ticker.ask - f.ticker.bid

\* HandleLimitOrders skips the order behind one it filled: an order may be left
\* resting at a price the last ticker reached, but only when an older order was
\* filled from the same list by that ticker.
MissedOnlyBehindAFill ==
    \A o \in Range(resting) :
        IsReached(o, ticker) =>
            \E f \in fills : /\ f.how = "rested" /\ f.order.id < o.id
                             /\ f.at = Last(past).at /\ f.ticker = ticker
=============================================================================
