CONSTANTS
    NoRow = NoRow
    N = 2
    Step <- TwoSteps
    MaxActive = 1
    MaxMisses = 1
    MaxAttempts = 0
SPECIFICATION Spec
INVARIANT ResumesFromLatestAcked
CHECK_DEADLOCK FALSE
