SPECIFICATION FairSpec
CONSTANTS
    Block = {b1, b2}
    HOUR = 2
    RollupDelay = 1
    MaxDelay = 1
    MaxTime = 3
    MaxFaults = 1
    MaxRuns = 2
INVARIANTS RowsAreComplete
PROPERTIES HoursRolledUp ImplementsTable
