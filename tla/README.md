# crypto_bot: TLA+ specifications

crypto_bot is a C++ trading program: it follows the order books of several
exchanges over websockets, finds arbitrages between them and sends the orders
over REST, keeping a cached balance of every account.  The specifications here
model the part in which threads, requests and events meet.  Source paths below
are relative to `src/src/`.

## 1. Inventory

| component | state | operations | what makes it correct |
|---|---|---|---|
| **Account manager** `exchange/account_manager_impl.*`, `account_refresher.*` | own orders, external orders, cached balance (totals, locked amounts), synced flag; `m_order_mutex` and three spinlocks | `LimitOrder`/`MarketOrder`, `RefreshAccountBalance` (a timer thread), `Initialize` on every connection, `OnOrderUpdate`, `OnAccountBalanceUpdate`, getters | no open order is unknown while the account is synced; an order is registered once; locked amounts equal those of the registered orders; what is locked is freed; totals converge |
| **Arbitrage strategy** `strategy/arbitrage/arbitrage_strategy.hpp` | last ticker per pair and exchange, `m_orders_mutex` | `OnBookTicker` in one thread per ticker stream, two `std::async` orders | one arbitrage at a time, both legs or the end of the process, none over open orders |
| **Matcher, calculator** `arbitrage_strategy_matcher.cc`, `arbitrage_order_calculator.cc` | none | `FindMatch`, `Calculate` | exchanges differ, prices cross the book, zero profit at worst, quantity within balances |
| **REST clients** `http/*.hpp` | a connection, listen key, pair settings | requests; `HttpClient::send` retries once | a request is not executed twice, an error is not taken for success |
| **User data streams** `websocket/binance_user_data_stream.hpp`, `kraken_user_data_stream.hpp` | listen key | frames to the account manager | every frame reaches it in order, none after a reconnection is missing |
| **Websocket client, watcher** `websocket/websocket_client.hpp`, `tickers_watcher.hpp`, `utils/watcher.h` | endpoint, start promise, arrival times | reconnect, watchdog, timers | the stream comes back after every failure |
| **Order book** `model/order_book.h`, `exchange/exchange_listener.h` | two sorted lists of levels | upsert, delete, best levels, ticker | sorted, no duplicates, equal to the exchange's top levels |
| **Book streams** `websocket/binance_order_book_stream.hpp`, `kraken_websocket_client.hpp`, `kraken_order_book_handler.hpp` | book, buffered updates, last update id, snapshot future | snapshot, update, gap, checksum | the book shown equals the exchange's at some update id |
| **Market making** `strategy/market_making/` | orders, trading balance, indicators | predictions to orders, order updates | orders leave the list when they end, the balance follows the fills |
| **Backtest exchange** `backtest/backtest_exchange_client.hpp` | pending and open limit orders, balance | replayed tickers fill orders | each order fills once and balances add up |
| **Indicators** `strategy/indicator/` | sliding windows | SMA, RSI, ATR, imbalance | window sums equal the definition; not modelled |
| **Database, utilities, other streams, programs** | – | I/O, formatting, wiring | not modelled |

How they interact: a ticker stream's thread calls the strategy; the strategy
reads balances and flags of the account managers and starts two threads that
call `LimitOrder`; the account manager calls the REST client while it holds
`m_order_mutex`; the user data stream's thread calls back into the account
manager and competes for that mutex with the refresher.  Errors are handled by
ending the process (`std::terminate` in the refresher, `std::exit` in the
strategy), by an error result, or by an exception that
`WebsocketClient::on_message` catches.

The behaviours that are hard to test are listed in `PROJECT.json` under
`hazards`, each at its line: the order of a REST reply and the frames about
the same order, a refresh that races with both, frames lost with the
connection, a retried request, checks made before a lock, one of two orders
failing, a book built from a snapshot and updates that arrive in any order, the
rounding and bounds of the calculator, and what a backtest lets an order see.

## 2. Modules

    AccountContract                 what an account manager promises
      ^ implemented by     ^ implemented by         ^ used by
    AccountManager       KrakenAccount          ArbitrageStrategy -- ArbitrageOrders
      ^                    ^                        ^                      ^
      |                  KrakenAccountProofs   ArbitrageStrategyProofs  ArbitrageDecision
    AccountManagerRefinement                                               ^
      ^                                                     ArbitrageDecisionProofs
    AccountManagerProofs

    OrderBook <-- KrakenOrderBook        BinanceOrderBookStream
      ^               ^                    ^
    OrderBookProofs <-- KrakenOrderBookProofs
                                         BinanceOrderBookStreamProofs

    BacktestExchange <-- MarketMakingBacktest <-- MarketMakingBacktestProofs

The modules named MC... give constants to TLC.  Definitions marked "Mutant" are
the plausible bugs each property is tried against; no specification uses them.

### The account

**AccountManager** is the detailed model of one account on Binance: the
exchange, the senders, the refreshers, the user data stream and the fields of
`AccountManagerImpl`.  A thread that holds `m_order_mutex` still takes several
steps, because getters and the strategy do not take that mutex: every step
between two stores such a reader could see is an action.

| actions | code |
|---|---|
| `SendBegin`, `SendAccepted`, `SendRefused`, `SendReplyLost`, `SendReplyGarbled`, `SendStore`, `SendLock`, `SendFinish` | `LimitOrder`/`MarketOrder` with `BinanceClient::LimitOrder` and `HttpClient::send` inside |
| `RefreshBegin`, `RefreshReply`, `RefreshFailed`, `RefreshAssign`, `RefreshReplayExternal`, `RefreshReplayOur` | `RefreshAccountBalance` |
| `Connect`, `InitializeBegin`, `InitializeReply`, `InitializeFailed`, `InitializeFinish`, `Disconnect` | websocket handlers, `Initialize` |
| `UpdateOurOrder`, `AddExternalOrder`, `IgnoreExternalOrder`, `CloseBegin`, `CloseFinish`, `OnUnknownOrder`, `OnAccountBalanceUpdate` | the frames |
| `Report`, `Execute`, `PlaceExternal`, `CloseOrder` | the exchange (external) |
| `Crash` | the process ends and is started again |

Amounts are symbolic: `locked[i][p]` counts how often the amount of order `i`
at price `p` is included in the locked map, `total[i]` how many executed units
of `i` are included in the totals.  A double in the code is the sum of those; so
what the counts say holds whatever the prices and quantities are, and an error
of one order cannot be hidden by that of another.

**AccountContract** abstracts it to what the strategy can see:
`IsAccountSynced`, `HasOpenOrders`, and the orders that are open.
**AccountManagerRefinement** gives the mapping; `ImplementsContract` is the
contract's specification under that mapping.

**KrakenAccount** is the same manager on `KrakenClient` and
`KrakenUserDataStream`, which tell it other things: `Initialize` asks for the
open orders before the subscription is sent (`InitializeReply`,
`SubscribeOpenOrders`), the subscription begins with a snapshot
(`ExchangeSubscribes`), a message holds several orders (`ReadMessage`, then
`HandleOrder`, `DropOrder` or `LeaveMessage` for each), a frame without a
status returns from the handler with the rest of the message unread, and a
frame without a pair builds an order whose pair is uninitialised memory
(`HasPair`: it may be taken for a known one or for `UNKNOWN`).  It follows the
registers of orders, not the amounts: Kraken sends no balance frames.
`ImplementsContract` is stated here as well, so the strategy's two accounts,
one of each exchange, keep the one contract it is modelled against.

### The arbitrage

**ArbitrageOrders** has the matcher and the calculator as operators on rational
numbers.  **ArbitrageDecision** applies them to the tickers and balances of one
pair, which change one at a time.

**ArbitrageStrategy** runs the feeds and their legs over the contract of every
account: `OnBookTicker` (store, match), `BelowMinimum`, `AskSynced`,
`AskOpenOrders`, `StartLegs`/`SkipLegs` (`try_lock`), the `Leg*` actions
(`LimitOrder` in a `std::async` thread, each a step of the contract),
`WaitSell`, `WaitBuy`, `Unwind` (the futures).  `Exit` is `std::exit(1)`:
nothing happens after it.

### The order books

**OrderBook** has `model/order_book.h` as operators on the two lists of levels:
`UpsertBid`, `UpsertAsk`, `Delete`, `ChangeBook` (the Kraken handler's loops),
`BestOf`, `TickerFromOrderBook`.  A price is the integer that the conversion from
text made of it; the levels come to these operators converted.

**BinanceOrderBookStream** has the exchange numbering the changes of its book,
the snapshot thread and the stream:

| actions | code |
|---|---|
| `ExchangeChange`, `ExchangeEmit` | the exchange (external): one `U..u` update may hold several changes, and may be lost |
| `SnapshotAnswered`, `SnapshotReady`, `SnapshotFailed` | `GetOrderBookSnapshot` in `std::async`: the reply's content and its arrival are different moments |
| `OnOpen`, `OnClose` | the handlers: book, buffer and update id of the old connection stay |
| `OnMessage` = `BufferUpdate`, `SnapshotThrows`, `ApplySnapshot` or `ApplyUpdate`, the last two with `Follow` | the branches of `OnMessage`: future not ready, `future.get()` throws, snapshot and replay, gap or not |

`m_previous_update_id` is not initialised by the code: `Init` takes it from
`Garbage`.  A book is a function from levels to quantities, which is what the
lists show as long as they are not longer than their depth; a level is named by
the integer its price is stored as (`model/order_book.h:197,207`), and prices that
are stored as one integer are outside this model.  The history
variables `suspect` (levels left over from an earlier connection),
`lostInReply` and `base` say when the book may be relied on.

**KrakenOrderBook** has one pair of `KrakenWebsocketClient`:

| actions | code |
|---|---|
| `ExchangeChange`, `ExchangeAnswer`, `ExchangeSilent`, `ExchangeCloses` | the exchange sends its best levels, answers or refuses a subscription, goes silent, closes |
| `Subscribe`, `OnOpen`, `OnClose` | `SubscribeOrderBook`, `SubscribeBookTicker`, the handlers; the subscriptions are sent again on every open |
| `OnMessage` (`ParsePriceLevels`, `Handled`, `IsValid`) | conversion of the prices, snapshot or update, checksum, resubscription with the depth the book keeps |
| `Elapse`, `WatchImpl` | time without a message, `TickersWatcher` |

The code multiplies a price by a power of ten as a double and cuts the product to
an integer (`kraken_order_book_handler.hpp:103`): with a precision of 8, 1.15 is
stored as 114999999; with one of 2, 1.13 as 112, the same as 1.12.  For DOT_BTC,
whose prices have ten digits (`kraken_websocket_client.hpp:152`), `quick_pow10`
reads past the end of its table.  What comes of it is a function of the price, and
that is all the module assumes: a subscription carries `stored`, any function from
the exchange's prices to naturals.  The properties name what they need of it:
`Apart` (prices stay different and in order) and `CutToUnit` (nothing but the last
unit is lost).  Both hold of the prices Kraken trades at whenever the precision is
in the table: the pairs' own precisions (`model/kraken.h:9-20`) are coarser than
those sent by at least a digit, so two prices are ten units apart.  Volumes are cut
in the checksum's input only (line 122, `ChecksumInput`, `Truncated`).

### The backtest

**BacktestExchange** has `BacktestExchangeClient` with its three lists of
orders: `MarketOrder`, `AddLimitOrders`, `CancelOrder`, and `OnBookTicker`,
which moves due market orders (`DueMarket`), due limit orders
(`ExecutedLimit`, `PutToRest`) and resting ones (`FilledResting`, with the
index that moves on after an erase).  **MarketMakingBacktest** puts it together
with the risk manager (`OnPricePrediction`, `OnOrderUpdates`) as
`market_making_backtest.cc` does, or with a program that calls it directly with
every kind of order, before a first ticker too; `OnPricePrediction` waits for a
ticker, of whatever exchange, because the signal has no confidence before.
`ValuesAccount` is `GetAccountValue` after a fill: when the exchange has no ticker
yet its exception ends the program. `BookTicker` and `OtherTicker` are
`FlushEvents` giving a ticker to the exchange first and to the strategy next.

## 3. Runs

| run | shows |
|---|---|
| `account_one_connection` | one connection, an own and an external order, two senders, one failure: `HasOpenOrdersSound`, `NeverOwnAndExternal`, `LockAccounting`; once all frames are handled `LocksReleasedWhenDrained`; under fairness `ClosedOrdersForgotten`, `LockedAmountFreed`, `SyncRecovers` |
| `account_reconnect` | two connections, an own order that changes its price, an order of an unknown pair, two senders, one failure: `TotalsAgreeWhenDrained`, `RefreshRestoresLocks`, and the refinement `ImplementsContract` |
| `account_reconnect_lock` | violated: an order that closes while the stream is down is never forgotten, its amount is locked for ever |
| `account_lost_reply` | violated: an account is synced although a reply was lost and its order is open |
| `kraken_account` | two connections, an own order, an external one and one of an unknown pair, one failure: `RegistersAgreeWhenDrained` and `ImplementsContract` |
| `arbitrage_two_feeds` | two feeds, two accounts with two orders each, one failure: `OnlyHolderSends`, `OrdersMutexNotLeaked`, `OneArbitragePerFeed`, `EndsPairedOrThrown` |
| `arbitrage_open_orders` | violated: the second feed begins an arbitrage over the open orders of the first |
| `arbitrage_decision` | `DifferentExchanges`, `NoBetterAtSameCost`, `WorstCaseZeroProfit`, `PricesCrossTheBook`, `QuantityBounded` on all tickers of three exchanges |
| `arbitrage_quote_balance` | violated: the buy order takes more than 90% of the quote balance |
| `binance_order_book` | two levels, two connections, one lost update, one failed request: `SettledBookIsExchanges` (caught up with its snapshot, the book is the exchange's at `m_previous_update_id`, but for levels left from an earlier connection), `FirstConnectionExact`, `LateUpdateMixesTwoBooks` (what the book shows when an older update took the id back), `BookNeedsSnapshot` |
| `kraken_order_book` | the two ways the programs subscribe, prices stored exactly, one unit lower or merged, one lost update, two connections: `ShownBookIsExchanges` (with the checksum: the exchange's prices, its volumes but for the unit the checksum cannot see), `BookFollowsFeed` (without losses: the exchange's levels as they are stored), `NeverBetterThanExchange` (without losses: no better price but for one unit on an ask), and under fairness `SilentIsClosed` |
| `market_making_backtest` | either program: `EveryOrderOnce`, `RiskManagerAgrees`, `NoLookahead`, `FillPriceBounded`, `MissedOnlyBehindAFill` |

The four violations are disagreements of the code with its own comments and
messages; `PROJECT.json`, `findings`, quotes both sides.  A fifth finding is on
`FillPriceBounded`, which holds: the test `TestSingleLimitOrder`
(`backtest_exchange_client_unittest.cc:95-121`) expects a resting BUY at 1.09 to be
filled at an ask of 1.095; the code fills a resting order at its limit or better
only (`backtest_exchange_client.hpp:364,382`), and this order rests on.

### Bounds

* `MaxFailures` bounds lost replies, unreadable replies and crashes.  One is
  enough for every path of the error handling; two in a row matter to
  `HttpClient::send` only, whose second loss has the same effect as a first
  one without retry.
* `MaxEvents`, `MaxFrames` bound the frames in flight while the exchange acts
  by itself; four are two order events with their position frames, so an event
  can overtake a reply and another follow it.  Kraken has no position frames:
  two are two order events.  Replies are never bounded.
* `Units = 2`: an order is filled at once or in two parts.
* `Refreshers` bounds the connections a process opens: every `Initialize`
  starts a refresher of its own.
* Orders of an account: one own and one external order (and one of an unknown
  pair) are what the handlers tell apart; two senders and the retry send the
  one own order at different times.  What `account_reconnect` checks is also
  proved for any number of orders, senders and connections (section 4).
* In `arbitrage_two_feeds` the quotes make the two exchanges match in either
  direction, and on one exchange when its book is crossed.  With two orders
  per account each feed can begin an arbitrage twice.
* `arbitrage_decision` has a price grid with bid 0 and normal, locked and
  crossed books, so every branch of `FindMatch` and each bound of
  `CalculateQuantity` decides in some state.
* `binance_order_book`: four changes make an update before, across and after a
  snapshot, and a gap; two levels show that one is updated and the other is
  not.  `Garbage` is an id below and one above all others.  The proofs of its
  properties have no bounds.
* `kraken_order_book`: three prices a side where the feed has two levels, so a
  level can leave the feed and come back; one volume of two is cut to the other
  one by the checksum's input, so a correct book may fail the check and a stale
  volume pass it.  The three conversions (`Exact`, `Cut`, `Merged`) go with the
  subscriptions of `MCSubscriptions`.  The exchange's depth of 10 is 2.  1,513,679
  states, about 130 s.  The proofs cover every depth and every conversion.
* `market_making_backtest`: a latency of one tick, three tickers whose spread
  is 0, 2 and 6, funds for some of the orders only, two predictions (four
  orders) or three direct orders: enough for an order to be pending, due and
  resting while another is filled, and for one to come before any ticker.
  4,571,318 states, about 90 s.

`CHECK_DEADLOCK FALSE` is set where the program may stop or the bounds run out:
the arbitrage ends with `std::exit`, the changes of a book and the tickers of a
backtest are finite.

### Fairness

`AccountManager!FairSpec` assumes strong fairness of the stream's thread and of
every refresher, because both wait for `m_order_mutex`, which others take and
release in between: nobody keeps it for ever (a REST call ends in a reply, an
error or an exception, since the sockets report a broken connection), and a
refresher sleeps 300 s between two refreshes.  A sender gets weak fairness and
only while it holds the mutex: nobody is obliged to send an order.  Nothing is
assumed of the exchange's own moves (fills, closings) nor of failures.

`KrakenOrderBook!FairSpec` assumes that time passes while a connection is
silent, and weak fairness of `WatchImpl`: the watcher's thread looks at its
pairs every 30 seconds.  Nothing is assumed of the exchange or of a reconnection.

### What the code does that the properties make room for

Preconditions of the properties are not conveniences: each names something the
code really does.

* Binance's replay (lines 73-87) does not compare the buffered updates with one
  another, so an update lost while the snapshot's reply is under way goes
  unnoticed (`lostInReply`).  After a reconnection the snapshot is put on the
  old book and deleted levels stay until an update names them (`suspect`).  An
  update older than the snapshot takes `m_previous_update_id` back.  After a
  failed first request the next update is compared with uninitialised memory
  (`failures = 0` in `BookNeedsSnapshot`).
* Kraken's book: `SubscribeBookTicker` keeps one level of ten, and after the
  best one is deleted the side is worse than the exchange's or empty, with
  price 0 and volume 0.  The conversion may store an ask one unit lower, so
  `NeverBetterThanExchange` allows that unit.  A snapshot is shown unchecked, an
  update only when its checksum agrees; the checksum's input cuts volumes, and a
  volume passes for the one below it (`PassesFor`).  A failed check subscribes
  again without unsubscribing: the exchange may refuse, and the updates go on upon
  the wrong book, which is not shown.  The exchange's checksum covers ten levels, the code's input all
  it keeps: a deeper book with more than ten levels a side never passes.
  The watcher looks at pairs that were heard once (`age # "none"` in `SilentIsClosed`).
* The account on Kraken: an order whose closing frame has no pair may be
  dropped, and orders behind a frame without a status are (`missed`).  After a
  reconnection an own order that is open becomes an external one as well, and
  stays one when the own entry is erased.
* The backtest: balances are not locked by orders and may become negative; a
  due limit order is filled at the bid or ask even where that is worse than its
  limit, by at most half the spread (`FillPriceBounded`); the order behind a
  filled one is skipped (`MissedOnlyBehindAFill`); `HasOpenOrders` does not see
  pending orders; cancelling an order that does not rest throws; a market order
  made before any ticker waits for the second one (`MarketTicker`), and a limit
  order filled by the first ends the program (`ValuesAccount`); an order the
  exchange refused stays in the risk manager (`RiskManagerAgrees` has
  `refused`), and so would one that ends in another way than a fill.
* With no fee, margin and slippage at all, locked prices match on one exchange:
  `DifferentExchangesCorrect` needs one of the three to be positive.  A crossed
  book may match with itself whatever they are, so `DifferentExchanges` speaks of
  uncrossed books only, and says nothing of how old a ticker is.
* The quantity is bounded by the quote balance at the price of the ask
  (`QuantityBounded`), the order is sent at a higher price: run
  `arbitrage_quote_balance`.

### What the models leave out

* Formatting, signing, TLS, logging.
* `MARKET` orders and `LIMIT` orders of the account differ in the request only;
  one operation stands for both.
* Ages and delays of tickers: whether a match is too old is left open, which
  includes tickers of a closed connection.
* The float arithmetic of the calculator is exact in the model.
* Kraken's account: amounts and balances, `std::exit` for a pair without a
  precision.  The feed is assumed to describe an order when it opens and in the
  snapshot, with its status; an "open" frame without a pair would replace an own
  order by one of arbitrary pair, and `.at()` on it would throw with
  `m_our_orders_lock` held.
* Kraken's book: the `ticker` channel and `UnsubscribeOrderBook` (no program
  uses them), several pairs on one connection, the exceptions for a price or time
  stamp of another precision than the configured one.  The checksum is taken to
  tell its inputs apart: collisions of CRC32, and of levels whose digits join to
  the same string, are ignored.
* Binance's book: two prices that the conversion makes one level.
* The backtest: the results processor; of `GetAccountValue` the exception for other
  assets of the balance that have no ticker (it is modelled for the pair's own
  first ticker); the file or database the events come from, whose
  last minute is not flushed (`mongo_ticker_producer.hpp:138`); the time of an
  order book update, in whose place the code stores that of the last ticker.
* The market making signal is a choice; its moving averages and RSI, and the
  dice of `OnPricePrediction`, are not modelled.

### Not modelled

* Indicators (`strategy/indicator/`): sliding sums of doubles without
  concurrency or failure, which a unit test reaches.  The sums of the moving
  average and of the true range are not initialised by their constructors,
  which no model is needed to see.
* Other streams of Binance, streams of nine other exchanges: they parse one
  frame into one ticker.  The latter are used by no trading program.
* Threads of websocketpp and their restart inside `reconnect`: library code; the
  stream modules take a reconnection as one step.
* The database, utilities, collectors and the Python scripts: input, output and
  wiring.
* `src/json/json.hpp` (25,447 of the 34,269 lines of the implementation) is a
  vendored library.  Of the 8,800 other lines the map covers about 2,080; most
  of the rest are tables of symbols, request formatting, declarations, tests
  and the parts listed here.

## 4. Proofs

`AccountManagerProofs` proves with TLAPS, for every set of orders, senders and
refreshers and any number of failures, connections and crashes:

* `TypeCorrect`: `Spec => []TypeOK`
* `HasOpenOrdersCorrect`: `Spec => []HasOpenOrdersSound`
* `LockAccountingCorrect`: `Spec => []LockAccounting`
* `RefreshCorrect`: `Spec => RefreshRestoresLocks`

The inductive invariant `Inv` is a conjunction:

* `MutexInv`: each thread that is inside an operation holds the mutex, and
  nobody else does.  Everything else rests on it.
* `SentInv`: a reply on the stack belongs to the sender that holds the mutex
  and names an order that is not registered.  Without it a store could
  overwrite a registered order.
* `CloseInv`, `FramesInv`, `ExecInv`: a frame that closes an order is about an
  order that is closed at the exchange.  Without it the erasure of an open
  order would be possible.
* `SyncedInv`, `OurInv`: when the account is synced, each open own order is
  registered, or is an orphan (its reply was lost).  This is what
  `HasOpenOrdersSound` follows from.
* `LockInv`: the locked counts step by step, inside an operation as well;
  `LockAccounting` is its case with the mutex free.

It proves `ContractImplemented` as well: `Spec => ImplementsContract`, the
refinement TLC checks on `account_reconnect`.  The lemmas `Map*` state each step of the contract in terms of what the account
manager keeps, the lemmas `Mapped*` show which of them each action is.  `Inv`
above is needed twice: a request returns with no reply left on a stack
(`MutexInv`, `SentInv`), and what a frame erases is closed (`CloseInv`,
`FramesInv`).

And it proves what an account shows once every frame is handled:

* `TotalsCorrect`: `Spec => []TotalsAgreeWhenDrained`, for any number of
  connections.  `PositionInv`: the last frame waiting is always a position
  frame with the exchange's balance of now, so what a close or a refresh wrote
  before is overwritten; `TotalInv`: with no frame waiting a refresh in progress
  holds that balance already.
* `OwnOrExternalCorrect`, `LocksReleasedCorrect`: `Spec => []NeverOwnAndExternal`
  and `Spec => []LocksReleasedWhenDrained`, under `OneConnection` (there is one
  refresher, so the process opens one connection; with two, Initialize registers
  an own order as external and both fail).  `OneInv` adds `ConnectionInv`
  (until `Initialize` is done nothing is registered and nobody sends),
  `PlacedInv` (an order that is registered or in a frame was placed), `OwnerInv`
  (an own order, stored or in a reply, is not an external one) and `ClosingInv`
  (a closed order that is still registered has its closing frame waiting).

`KrakenAccountProofs` proves the same of the account on Kraken, for any orders,
known pairs, threads, losses and crashes: `TypeCorrect` (no order of an unknown
pair is ever registered) and `ContractImplemented`, the refinement of run
`kraken_account`.  Its `Inv` has `MutexInv` and `SentInv` as above and `FramesInv`:
a frame that opens an order describes it, so the pair read from unwritten memory
is only ever that of an order which is being erased; and a frame that closes an
order is about one that is closed, wherever it stands in a message, in the
snapshot or behind it.  `RegistersCorrect` is `Spec => []RegistersAgreeWhenDrained`.
What is handled says nothing of itself about what is not, so `AgreeInv` adds the
frames that wait:

* `OpenInv`: an open order is registered or a waiting frame opens it.
* `ClosingInv`: an order that is closed and registered, or in a reply, or opened by
  a waiting frame (`Concerned`), has its closing frame waiting.
* `QueueInv`: no frame opens an order behind one that closes it; without it an order
  could be erased and registered again.
* `OwnInv`, `StartInv`: on its first connection a process has sent nothing before
  `Initialize` is done, so no own order is taken for an external one.
* `FeedInv`, `PlacedInv`: frames come with a subscription, registered orders were
  placed.

`ArbitrageStrategyProofs` begins with the contract alone, `PromiseKept`: an account
that keeps the contract keeps `OpenOrdersKnown`.  Its invariant `ContractInv` adds
that an order to be answered belongs to a request in progress, and that no request
is in progress on a synced account.  On it rests, for any exchanges, accounts, feeds, pairs,
tickers and orders:

* `TypeCorrect`: `Spec => []TypeOK`
* `UsesContract`: `Spec => ContractSpec`, the strategy moves the accounts only as
  the contract allows.  With `ContractImplemented` this joins the two models: the
  strategy relies on nothing the account manager does not keep.
* `OnlyHolderSendsCorrect`, `OrdersMutexNotLeakedCorrect`: the safety of
  `m_orders_mutex`
* `OneArbitragePerFeedCorrect`: `Spec => OneArbitragePerFeed`
* `EndsPairedOrThrownCorrect`: `Spec => EndsPairedOrThrown`

Its inductive invariant has, besides `TypeOK` and `ContractInv`:

* `SendInv`: the feed that sends holds the mutex, and what it waits for tells how
  its first leg ended.
* `BusyInv`, `PendingInv`: an account is busy for a leg only, and an order to be
  answered was sent by the feed that sends now.  Together they show that nothing
  awaits an answer while a feed is still asking, the gap `OneArbitragePerFeed`
  could fall into.
* `CheckedInv`: an account that has answered "no open orders" to a feed still has
  none of that feed's when it tries the mutex.  The answer is stale by then; that
  it stays true of the feed's own orders, and not of others', is the content of
  `OneArbitragePerFeed` and of the violation `arbitrage_open_orders`.

`ArbitrageDecisionProofs` proves the algebra of matcher and calculator for any
exchanges, prices, balances, fees, margins and slippages: `NoBetterCorrect`,
`WorstCaseCorrect`, `PricesCrossCorrect`, `QuantityCorrect` (the bounds of a nested
minimum, no more than that), each `Spec => []` of the run's property, and
`DifferentExchangesCorrect` (for uncrossed books) under the assumption that each
exchange has a fee, a slippage or the common margin.  Rational numbers are
numerators over common denominators; the lemmas are about products of naturals,
because the solver does not do nonlinear arithmetic by itself.

`BinanceOrderBookStreamProofs` proves `TypeCorrect`, `BookIsExchanges`,
`FirstBookExact`, `LateUpdatesMix` and `SnapshotFirst`, `Spec => []` of the five
invariants of `binance_order_book`, for any levels, quantities, garbage and
bounds.  The inductive invariant `IInv`:

* `Untouched`, `Updates`: a depth update tells the quantities after its last
  change, and every level it does not name is unchanged in `U..u`; the updates
  waiting are in the order of their ids.
* `Reply`: after the snapshot's id the buffer leaves nothing out, unless an
  update was lost (`Complete`).  This is what makes the replay right although
  it does not look for gaps.
* `Following`: which of the exchange's moments every level of the book shows.
* `Connection`, `Unfailed`: there is nothing left over on the first connection,
  and nothing without a snapshot when no request failed.

`OrderBookProofs` proves of the operators, for a side of any length, any depth
and any update: `UpsertCorrect`, `DeleteCorrect`, `TickerCorrect` and
`ChangeBookCorrect` (after any sequence of changes both sides are ordered,
without two levels of one price, within the depth).  The induction over the
changes is an argument by the least counterexample, since theorems with an
operator parameter cannot be used.

`KrakenOrderBookProofs` builds on it and proves `TypeCorrect`, `ShownIsExchanges`,
`FollowsFeed` and `NeverBetter`, `Spec => []` of the four invariants of
`kraken_order_book`, for any prices, volumes, depths and conversions of prices and
any number of changes, losses and connections.  The argument:

* The exchange tells of a level that comes into the subscribed depth, not of one
  that leaves it: the book has to drop that one by itself, because it is full.
  `Near` says how close a side then is to the exchange's: it has levels of the
  exchange's only, and misses at most as many as it keeps fewer than it is sent.
  The exchange's side is taken here under the prices it is stored as, which are
  in order because they are `Apart`; two prices that merged would be one level that
  a deletion of either takes away.
  `ChangeTold` shows the three forms a message can have (a level put, a level
  taken, a level taken and another one that comes in), `ToldNear` that each of
  them keeps a side near, `SnapshotTold` that a snapshot makes it so.
* `FeedInv`: every message is a snapshot, or tells of one change of the book the
  message before it told of, unless one was lost in between; and the last one
  tells of the exchange's book of now.
* `BookInv`: both sides are in order and within the depth, whatever is lost, and
  near the exchange's when nothing is.  A book that keeps all it is sent and is
  near misses nothing (`FollowsFeed`); one with fewer levels has no price the
  exchange's side, as stored, has not (`NeverBetter`, with `CutToUnit`).
* `ChecksumDecides`: a book with the exchange's checksum has its very prices,
  whatever the conversion made of them, and its volumes but for the unit that the
  cut takes.  For updates `ShownIsExchanges` needs nothing of `Near` or `Apart`: it
  holds after any loss.

`MarketMakingBacktestProofs` proves `TypeCorrect`, `OrdersCounted`,
`RiskManagerCorrect`, `LooksNotAhead`, `PriceBounded` and `MissedOnlyBehind`,
`Spec => []` of the six invariants of `market_making_backtest`, for any tickers,
latency, fee, slippage and spread and any number of orders and tickers.  The
properties speak of orders, the code moves entries of lists; most of the work is
in between:

* `OrdersAtIs`, `ConcatIs`, `ListSize`: a list in order of creation is its set of
  orders, and stays in order when some entries are taken out or later ones are put
  behind it.  `FilledAtIs`: an order `HandleLimitOrders` skips is behind one it fills.
* `ListInv`: all lists are in that order.  The due limit orders are then the oldest
  pending ones, later than what rests and earlier than what stays pending; that is
  why those that come to rest can be put behind the resting ones.
* `BookSetsAre`: a ticker therefore moves three sets of orders, those executed at
  once, those that come to rest, those filled; the other lemmas about a ticker
  (`Book...`) are about these sets only.
* `OnceInv`: the orders made are the ids up to `lastOrderId`, each in one list,
  filled, refused or cancelled, and filled once.  `EveryOrderOnce` counts them.
* `TimeInv`, `TickerInv`: nothing is of a time to come, what rests has arrived, and
  the exchange keeps the last ticker there was.  With them the ticker before an
  order's arrival (`KnownBefore`, or the first for an order that came before any) is
  the one the exchange holds when the order is found due, which is what
  `NoLookahead` asks.
* `RiskInv`: the risk manager's orders are the open ones and the refused ones, and
  its position what the balance has changed by.

Assumptions are those named in the modules (`ConstantsAssumption`,
`KrakenAccountAssumption`, `KrakenAssumption`, `OrdersAssumption`,
`DecisionAssumption`, `StrategyAssumption`, `StreamAssumption`, `BacktestAssumption`,
`MarketMakingAssumption`): sets are disjoint, the orders of the
Kraken account and the prices of its book finitely many, bounds are natural
numbers, fees plus margin are below one, a ticker of the decision has an ask price
and volumes above zero (an empty side of a book is left out there), a Kraken
subscription keeps one level or as many as it asks for
(`kraken_websocket_client.hpp:46-62`) and asks for at least two, prices and volumes
are above zero and stored as natural numbers, a ticker of a backtest has prices
above zero and its bid not above its ask, the spread of the market making orders is
below every middle price (no order has a price below zero); and
the hypotheses of the theorems mentioned above.

Only model-checked: liveness (`ClosedOrdersForgotten`, `LockedAmountFreed`,
`SyncRecovers`, `SilentIsClosed`; liveness under fairness is out of the
prover's reach).  Every other property a passing run checks is proved.

## 5. Plan

Done: the account manager on both exchanges with its contract and refinement,
matcher, calculator and strategy, order book, both book streams, the market
making backtest; proofs of every safety property of the account on
Binance and on Kraken, of the strategy, of the decision, of the order book, of
both book streams and of the backtest.

Left, in this order:

1. Balances and `min_amount` inside `ArbitrageStrategy`, so that two pairs share
   an asset and the free balances are read before the mutex.
2. Live market making: user data frames of the account, and final statuses
   other than FILLED in the risk manager.
3. `WebsocketClient` with failed connection attempts and the start promise.
