\* Funds for some of the orders only; a fee and a slippage that show in the balances.
SPECIFICATION Spec
CONSTANTS
    Tickers <- MCTickers
    Qty = 1
    Fee = 1
    Unit = 10
    Slippage = 1
    Latency = 1
    InitialBase = 1
    InitialQuote = 12
    Spread = 1
    LimitPrices = {4, 6}
    MaxTime = 3
    MaxTickers = 3
    MaxPredictions = 2
    MaxOrders = 3
CHECK_DEADLOCK FALSE
INVARIANTS TypeOK EveryOrderOnce RiskManagerAgrees NoLookahead FillPriceBounded MissedOnlyBehindAFill
