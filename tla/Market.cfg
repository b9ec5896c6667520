SPECIFICATION FairSpec
CONSTANTS
    Quotes = {0, 100, 105}
    Fallback = 97
    Interval = 1
    Lookback = 2
    Capacity = 3
    Ring = 2
    MaxBooks = 2
    MaxCycles = 3
    MaxRecords = 4
    MaxTime = 4
CHECK_DEADLOCK FALSE
INVARIANTS
    TypeOK
    BreakerSees
    DryRunReports
PROPERTIES
    JumpBlocks
    DryRunEnds
