SPECIFICATION Spec
CONSTANTS
    p1 = p1
    p2 = p2
    s1 = s1
    s2 = s2
    s3 = s3
    n1 = n1
    n2 = n2
    n3 = n3
    n4 = n4
    Procs = {p1}
    Old = {s1, s2, s3}
    New = {n1, n2}
    BatchSize = 2
    MaxTries = 2
    MinTrades = 2
    Batch <- SomeBatches
    Scores <- SomeScores
    Claims <- SomeClaims
CHECK_DEADLOCK FALSE
INVARIANTS
    AbortLeavesStore
