SPECIFICATION FairSpec
CONSTANTS
    t1 = t1
    t2 = t2
    k1 = k1
    Trades = {t1, t2}
    Tickers = {k1}
    TickerOf <- SharedTicker
    Lot = 2
    MaxPolls = 2
    ProfitTarget = 3
    StopLoss = 2
    Quotes <- AllQuotes
    Faults = TRUE
CHECK_DEADLOCK FALSE
INVARIANTS
    TypeOK
    ExposureJournaled
    HedgeFollowsFill
    SettledFillIsFlat
    ActiveIsHeld
PROPERTIES
    SettledRowsStay
    ImplementsLifecycle
    EntrySettles
