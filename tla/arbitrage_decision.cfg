\* Every combination of three tickers and two balances.
SPECIFICATION Spec
CONSTANTS
    binance = binance
    ftx = ftx
    kraken = kraken
    Exchanges <- MCExchanges
    Rank <- MCRank
    Fee <- MCFee
    Slippage <- MCSlippage
    DailyVolume <- MCDailyVolume
    Margin = 1
    Unit = 20
    Quotes <- MCQuotes
    Amounts = {0, 1, 3}
INVARIANTS DifferentExchanges NoBetterAtSameCost WorstCaseZeroProfit PricesCrossTheBook QuantityBounded
