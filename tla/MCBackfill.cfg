\* One account of two to four blocks, batches of two blocks, two faults, one
\* crash.
CONSTANTS
    a1 = a1
    Account = {a1}
    MaxHeight = 4
    MIN_BATCH_SIZE = 2
    MAX_BACKFILL_ITERATIONS = 3
    MAX_DIGITS = 2
    InitHeight <- HeightTwo
    InitSaved <- FirstBlocks
    QueueLimit = 1
    MaxFaults = 2
    MaxCrashes = 1
SPECIFICATION FairSpec
INVARIANTS
    IInv
    NoGapAboveCursor
    ConfirmedIsCemented
PROPERTIES
    JobsEnd
\* Nothing is left to do once every block is appended, confirmed and saved.
CHECK_DEADLOCK FALSE
