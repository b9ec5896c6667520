SPECIFICATION Spec
CONSTANTS
    t1 = t1
    Trades = {t1}
    Tickers = {t1}
    TickerOf <- OwnTicker
    Lot = 2
    MaxPolls = 1
    ProfitTarget = 3
    StopLoss = 2
    Quotes <- FlatQuotes
    Faults = FALSE
CHECK_DEADLOCK FALSE
INVARIANTS
    ClosedTradeIsUnhedged
