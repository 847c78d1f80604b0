CONSTANTS
    n1 = n1
    n2 = n2
    r1 = r1
    None = None
    NoRow = NoRow
    Live = Live
    Node <- TwoNodes
    Reader = {}
    Workers = 2
    MaxVersion = 2
    MaxFaults = 1
    MaxCrashes = 1
SYMMETRY NodePerms
SPECIFICATION Spec
INVARIANTS TypeOK AckedIsDurable AckedNeverHidden
PROPERTY ImplementsDurableLog
CHECK_DEADLOCK FALSE
