CONSTANTS
    NoRow = NoRow
    None = None
    Plans <- ThreePlans
    MaxRows = 3
SPECIFICATION Spec
INVARIANTS TypeOK ClickedIsFound OutputsAreRecorded OneInputChanged CountersMatch PostgresListsAlike
PROPERTIES ListsOnlyGrow ClicksAreServed
CHECK_DEADLOCK FALSE
