\* The price of the buy order against the quote balance; no book is crossed.
SPECIFICATION Spec
CONSTANTS
    binance = binance
    ftx = ftx
    kraken = kraken
    Exchanges <- MCExchanges
    Rank <- MCRank
    Fee <- MCFee
    Slippage <- MCSlippage
    DailyVolume <- MCDailyVolume
    Margin = 1
    Unit = 20
    Quotes <- MCNormalQuotes
    Amounts = {0, 1, 3}
INVARIANTS QuoteBalanceRespected
