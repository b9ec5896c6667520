SPECIFICATION Spec
CONSTANTS
    a1 = a1
    a2 = a2
    a3 = a3
    b1 = b1
    b2 = b2
    K1 = K1
    K2 = K2
    Trades = {a1}
    Tickers = {K1, K2}
    Directions = {"buy_yes", "buy_no"}
    TickerOf <- ContractOf
    DirectionOf <- SideOf
    MaxTotal = 2
    MaxPerContract = 2
    MaxHedge = 4
    LossLimit = 1
    Inputs <- OneSize
    PnLs = {0}
    Faults = FALSE
CHECK_DEADLOCK FALSE
INVARIANTS
    ShutdownCancelsOrders
