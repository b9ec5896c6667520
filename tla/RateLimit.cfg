SPECIFICATION FairSpec
CONSTANTS
    c1 = c1
    c2 = c2
    c3 = c3
    Callers = {c1, c2, c3}
    Cap = 5
    MaxCalls = 5
    MaxTime = 6
CHECK_DEADLOCK FALSE
INVARIANTS
    TypeOK
    RateBound
    SleepsOnlyAtRate
PROPERTIES
    EveryCallGoes
