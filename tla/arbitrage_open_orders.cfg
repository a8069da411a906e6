\* Two feeds, one pair; nothing fails, the orders stay open or close.
SPECIFICATION Spec
CONSTANTS
    binance = binance
    kraken = kraken
    Exchanges <- MCExchanges
    Rank <- MCRank
    Fee <- MCFee
    Slippage <- MCSlippage
    DailyVolume <- MCDailyVolume
    Margin = 1
    Unit = 100
    Accounts <- MCExchanges
    Orders = {o1, o2}
    Pairs = {p1}
    Quotes <- MCQuotes
    NoFeed = NoFeed
    MaxFailures = 0
CHECK_DEADLOCK FALSE
PROPERTIES NoArbitrageWhileOpen
