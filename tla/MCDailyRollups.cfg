\* Three blocks of two accounts over four days of one unit, pages of two rows,
\* one account per Map, one run by an operator or one failure.
CONSTANTS
    Block <- Blocks
    MaxHeight = 2
    Kind <- Kinds
    Balance <- Balances
    Thresholds <- Lower
    DAY = 1
    DistributionHour = 0
    BATCH_SIZE = 2
    PerMapSizeLimit = 0
    first_timestamp = 0
    MaxDelay = 1
    MaxTime = 3
    OperatorOptions <- Asked
    MaxEvents = 1
SPECIFICATION Spec
INVARIANTS
    TypeOK
    ActivityIsExact
    DistributionIsExact
    RowsBecomeWhole
PROPERTIES
    HalvesAreKept
