CONSTANTS
    NoRow = NoRow
    N = 2
    Step <- AllSteps
    MaxActive = 2
    MaxMisses = 2
    MaxAttempts = 2
SPECIFICATION Spec
INVARIANTS TypeOK NoEffectTwice ResumeNodeStaysOut NeverForgetsCheckpoint
PROPERTY PlanOnlyGrows
CHECK_DEADLOCK FALSE
