CONSTANTS
    NoRow = NoRow
    N = 3
    Step <- TwoSteps
    MaxActive = 1
    MaxMisses = 0
    MaxAttempts = 1
SPECIFICATION FairSpec
INVARIANTS NothingForgotten ResumesFromLatestAcked
PROPERTY RecoveryEnds
CHECK_DEADLOCK FALSE
