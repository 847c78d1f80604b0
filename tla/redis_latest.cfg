CONSTANTS
    Node <- TwoNodes
    Saver <- NoSaver
    TTLs <- Never
    MaxVersion = 2
    MaxNow = 2
    MaxTroubles = 0
SPECIFICATION HistorySpec
INVARIANT LatestIsMostRecent
CHECK_DEADLOCK FALSE
