CONSTANTS
    n1 = n1
    n2 = n2
    r1 = r1
    None = None
    NoRow = NoRow
    Live = Live
    Node <- OneNode
    Reader <- OneReader
    Workers = 2
    MaxVersion = 2
    MaxFaults = 1
    MaxCrashes = 1
SPECIFICATION FairSpec
PROPERTIES SaveReturns WritesSettle LoadsReturn
CHECK_DEADLOCK FALSE
