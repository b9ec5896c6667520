SPECIFICATION FairSpec
CONSTANTS
    m1 = m1
    Markets = {m1}
    Fields = {"yes_ask", "no_ask", "expiry_dt"}
    Frozen = {"expiry_dt"}
    Values = {1, 2}
    Default = 0
    MaxWait = 3
    MaxInFlight = 2
INVARIANTS
    TypeOK
    CurrentUnlessLost
    StoppedIsQuiet
PROPERTIES
    StreamsAgain
    StopEnds
