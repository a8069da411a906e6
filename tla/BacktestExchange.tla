--------------------------- MODULE BacktestExchange ---------------------------
(***************************************************************************)
(* BacktestExchangeClient (backtest/backtest_exchange_client.hpp): an      *)
(* exchange played from recorded tickers, for one pair.                    *)
(*                                                                         *)
(* An order is pending until a ticker arrives later than the latency after *)
(* its creation.  A market order is then executed at the ticker before     *)
(* that one, a limit order at that one if it crosses the middle of its     *)
(* prices; otherwise it rests until a ticker reaches its price.  All runs  *)
(* on the thread of the ticker producer.                                   *)
(*                                                                         *)
(* Every order has the quantity Qty.  The quote balance counts 1/Unit.     *)
(***************************************************************************)
EXTENDS Integers, SequencesExt

CONSTANTS
    Tickers,      \* [bid, ask] of the exchange
    Qty,          \* quantity of every order
    Fee, Unit,    \* m_settings.fee is Fee / Unit
    Slippage,     \* m_settings.slippage
    Latency,      \* 2 * network_latency_us + execution_delay_us
    InitialBase, InitialQuote

NoTicker == [bid |-> 0, ask |-> 0]

ASSUME BacktestAssumption ==
    /\ Tickers \subseteq [bid : Nat, ask : Nat]
    /\ \A t \in Tickers : 0 < t.bid /\ t.bid <= t.ask
    /\ {Qty, Unit} \subseteq Nat \ {0}
    /\ {Fee, Slippage, Latency, InitialQuote, InitialBase} \subseteq Nat

VARIABLES
    updated,        \* m_update_timestamp_us
    ticker,         \* m_tickers of the pair, or NoTicker
    pendingMarket,  \* m_pending_market_orders
    pendingLimit,   \* m_pending_limit_orders
    resting,        \* m_limit_orders
    base, quote,    \* m_account_balance
    lastOrderId,    \* orders created so far
    fills           \* history: the orders filled, with price, time and ticker

exchangeVars == <<updated, ticker, pendingMarket, pendingLimit, resting, base,
                  quote, lastOrderId, fills>>

\* The orders at the positions of I, in their order: the k-th has k - 1 before it.
OrdersAt(orders, I) ==
    LET At(k) == CHOOSE i \in I : Cardinality({j \in I : j < i}) = k - 1
    IN  [k \in 1..Cardinality(I) |-> orders[At(k)]]

Count(orders, side) == Cardinality({i \in DOMAIN orders : orders[i].side = side})

(***************************************************************************)
(* Orders                                                                  *)
(***************************************************************************)

\* GetFreeBalance is the whole balance: nothing is ever locked.
CanExecuteOrder(order) ==
    IF order.side = "SELL" THEN base >= Qty ELSE quote >= Qty * order.price * Unit

\* Mutant: the latency is counted at the creation too.
NewOrderDelayed(id, type, side, price) ==
    [id |-> id, type |-> type, side |-> side, price |-> price, created |-> updated + Latency]

NewOrder(id, type, side, price) ==
    [id |-> id, type |-> type, side |-> side, price |-> price, created |-> updated]

\* LimitOrder, and SendOrder of a limit order, for one order after the other: the
\* balances do not change in between.  An order there are no funds for is refused.
AddLimitOrders(orders) ==
    /\ LET funded == {i \in DOMAIN orders : CanExecuteOrder(orders[i])}
       IN  pendingLimit' = pendingLimit \o OrdersAt(orders, funded)
    /\ lastOrderId' = lastOrderId + Len(orders)
    /\ UNCHANGED <<updated, ticker, pendingMarket, resting, base, quote, fills>>

\* No balance is looked at.
MarketOrder(side) ==
    /\ pendingMarket' = Append(pendingMarket, NewOrder(lastOrderId + 1, "MARKET", side, 0))
    /\ lastOrderId' = lastOrderId + 1
    /\ UNCHANGED <<updated, ticker, pendingLimit, resting, base, quote, fills>>

\* Only a resting order is found.  For one that is not there the loop runs past the
\* end and throws, or reports "No such order" when nothing rests.
CancelOrder(order) ==
    /\ resting' = OrdersAt(resting, {i \in DOMAIN resting : resting[i].id # order.id})
    /\ UNCHANGED <<updated, ticker, pendingMarket, pendingLimit, base, quote,
                   lastOrderId, fills>>

HasOpenOrders == resting # <<>>

(***************************************************************************)
(* OnBookTicker                                                            *)
(***************************************************************************)

\* Mutant: due at the very end of the latency.
IsDueAtOnce(order, at) == order.created + Latency <= at

IsDue(order, at) == order.created + Latency < at

DueAt(orders, at) == {i \in DOMAIN orders : IsDue(orders[i], at)}

\* HandlePendingMarketOrders: without a ticker before ("No previous ticker") the
\* orders that are due wait for the next.
MarketDueAt(at) == IF ticker = NoTicker THEN {} ELSE DueAt(pendingMarket, at)

DueMarket(at) == OrdersAt(pendingMarket, MarketDueAt(at))

StaysPendingMarket(at) == OrdersAt(pendingMarket, DOMAIN pendingMarket \ MarketDueAt(at))

\* Mutant: the other side's price instead of the middle.
CrossesOtherSide(order, t) ==
    IF order.side = "SELL" THEN order.price <= t.ask ELSE order.price >= t.bid

CrossesMiddle(order, t) ==
    IF order.side = "SELL" THEN 2 * order.price <= t.bid + t.ask
                           ELSE 2 * order.price >= t.bid + t.ask

CrossingAt(orders, t) == {i \in DOMAIN orders : CrossesMiddle(orders[i], t)}

\* HandlePendingLimitOrders: the due orders are executed or put to rest.
ExecutedLimit(t, at) ==
    OrdersAt(pendingLimit, DueAt(pendingLimit, at) \cap CrossingAt(pendingLimit, t))

\* Mutant: the latency does not keep an order from resting.
PutToRestAtOnce(t, at) ==
    resting \o OrdersAt(pendingLimit, DOMAIN pendingLimit \ CrossingAt(pendingLimit, t))

PutToRest(t, at) ==
    resting \o OrdersAt(pendingLimit, DueAt(pendingLimit, at) \ CrossingAt(pendingLimit, t))

StaysPendingLimit(at) ==
    OrdersAt(pendingLimit, DOMAIN pendingLimit \ DueAt(pendingLimit, at))

IsReached(order, t) ==
    IF order.side = "SELL" THEN t.bid >= order.price ELSE t.ask <= order.price

\* Mutant: the loop ends at the first order that is not reached.
FilledAtFront(orders, t) ==
    {i \in 1..Len(orders) : \A j \in 1..i : IsReached(orders[j], t)}

\* HandleLimitOrders: the index moves on after an erase too, so the order behind a
\* filled one is not looked at.
FilledAt(orders, t) ==
    LET filled[i \in 0..Len(orders)] ==
            i > 0 /\ IsReached(orders[i], t) /\ ~filled[i - 1]
    IN  {i \in 1..Len(orders) : filled[i]}

FilledResting(t, at) ==
    LET orders == PutToRest(t, at) IN OrdersAt(orders, FilledAt(orders, t))

StaysResting(t, at) ==
    LET orders == PutToRest(t, at)
    IN  OrdersAt(orders, (1..Len(orders)) \ FilledAt(orders, t))

\* What the fills of some orders at a ticker do to the balances.
BaseDelta(orders) == Qty * (Count(orders, "BUY") - Count(orders, "SELL"))

QuoteDelta(orders, t, slippage) ==
    Qty * (Count(orders, "SELL") * (t.bid - slippage) * (Unit - Fee)
           - Count(orders, "BUY") * (t.ask + slippage) * (Unit + Fee))

FillsOf(orders, t, at, how) ==
    {[order |-> orders[i], how |-> how, at |-> at, ticker |-> t,
      price |-> IF orders[i].side = "SELL" THEN t.bid ELSE t.ask] : i \in DOMAIN orders}

\* The listener is told of every fill.
FillsOn(t, at) ==
    FillsOf(DueMarket(at), ticker, at, "market")
        \cup FillsOf(ExecutedLimit(t, at), t, at, "due")
        \cup FillsOf(FilledResting(t, at), t, at, "rested")

\* Every fill values the account at the last ticker, which is stored after the fills:
\* at the first ticker of all there is none, and the exception ends the program.
ValuesAccount(t, at) == ticker = NoTicker => FillsOn(t, at) = {}

OnBookTicker(t, at) ==
    /\ ValuesAccount(t, at)
    /\ updated' = at
    /\ pendingMarket' = StaysPendingMarket(at)
    /\ pendingLimit' = StaysPendingLimit(at)
    /\ resting' = StaysResting(t, at)
    /\ base' = base + BaseDelta(DueMarket(at)) + BaseDelta(ExecutedLimit(t, at))
                    + BaseDelta(FilledResting(t, at))
    /\ quote' = quote + QuoteDelta(DueMarket(at), ticker, Slippage)
                      + QuoteDelta(ExecutedLimit(t, at), t, Slippage)
                      + QuoteDelta(FilledResting(t, at), t, 0)
    /\ ticker' = t
    /\ fills' = fills \cup FillsOn(t, at)
    /\ UNCHANGED lastOrderId

\* A ticker of another exchange only moves the time.
OnOtherTicker(at) ==
    /\ updated' = at
    /\ UNCHANGED <<ticker, pendingMarket, pendingLimit, resting, base, quote,
                   lastOrderId, fills>>

ExchangeInit ==
    /\ updated = 0
    /\ ticker = NoTicker
    /\ pendingMarket = <<>>
    /\ pendingLimit = <<>>
    /\ resting = <<>>
    /\ base = InitialBase
    /\ quote = InitialQuote * Unit
    /\ lastOrderId = 0
    /\ fills = {}

=============================================================================
