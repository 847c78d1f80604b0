CONSTANTS
    NoRow = NoRow
    None = None
    Plans <- OnePlan
    MaxRows = 3
SPECIFICATION Spec
INVARIANT PostgresLatestAlike
CHECK_DEADLOCK FALSE
