\* Two feeds, one pair, two orders on each account.
SPECIFICATION Spec
CONSTANTS
    binance = binance
    kraken = kraken
    Exchanges <- MCExchanges
    Rank <- MCRank
    Fee <- MCFee
    Slippage <- MCSlippage
    DailyVolume <- MCDailyVolume
    Margin = 1
    Unit = 100
    Accounts <- MCExchanges
    Orders = {o1, o2}
    Pairs = {p1}
    Quotes <- MCQuotes
    NoFeed = NoFeed
    MaxFailures = 1
CHECK_DEADLOCK FALSE
INVARIANTS TypeOK OnlyHolderSends OrdersMutexNotLeaked
PROPERTIES OneArbitragePerFeed EndsPairedOrThrown
