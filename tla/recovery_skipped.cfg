CONSTANTS
    NoRow = NoRow
    N = 2
    Step <- TwoSteps
    MaxActive = 1
    MaxMisses = 0
    MaxAttempts = 1
SPECIFICATION Spec
INVARIANT SkippedHaveRun
CHECK_DEADLOCK FALSE
