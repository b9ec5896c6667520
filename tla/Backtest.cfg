SPECIFICATION FairSpec
CONSTANTS
    m1 = m1
    d1 = d1
    NoTicker = NoTicker
    Markets = {m1, d1}
    NoMarket = NoTicker
    Given = {NoTicker, d1}
    Daily = {d1}
    Liquid = {m1}
    Listings <- SomeListings
    Times = {0, 1, 2, 3, 4}
    Edges <- SomeEdges
    MinEdge = 300
    Expiry = 4
    TimeExit = 2
    Buffer = 2
    ProfitTarget = 300
    StopLoss = 150
    Recorded <- SomeRecorded
    Live <- SomeLive
    MaxCandles = 5
CHECK_DEADLOCK FALSE
INVARIANTS
    TypeOK
    NotFoundIsReal
    FirstExit
    OneAtATime
    ExpiredIsFlat
    ReasonIsLive
    FallbackIsFlat
PROPERTIES
    RunEnds
