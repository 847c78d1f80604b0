CONSTANTS
    Node <- TwoNodes
    Saver <- OneSaver
    TTLs <- NoneOrOne
    MaxVersion = 2
    MaxNow = 2
    MaxTroubles = 1
SPECIFICATION Spec
INVARIANTS TypeOK AckedReadBack LatestIsLastSeen LatestIsWhole BlobOutlivesData
CHECK_DEADLOCK FALSE
