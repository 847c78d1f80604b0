CONSTANTS
    n1 = n1
    n2 = n2
    r1 = r1
    None = None
    NoRow = NoRow
    Live = Live
    Node <- OneNode
    Reader <- OneReader
    Workers = 2
    MaxVersion = 2
    MaxFaults = 0
    MaxCrashes = 0
SPECIFICATION Spec
INVARIANT HotReflectsLatest
CHECK_DEADLOCK FALSE
