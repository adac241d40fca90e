\* One account of two blocks, two connections of a process, one fault, one crash.
CONSTANTS
    a1 = a1
    Account = {a1}
    MaxHeight = 2
    Hash <- Blocks
    MIN_BATCH_SIZE = 2
    MAX_BACKFILL_ITERATIONS = 3
    MAX_DIGITS = 1
    InitHeight <- NoBlocks
    InitSaved <- EmptyTable
    QueueLimit = 0
    MaxOpens = 2
    MaxFaults = 1
    MaxCrashes = 1
SPECIFICATION FairSpec
PROPERTIES
    ImplementsIntake
    OnlyBackfillUnconfirms
    ElectionKept
    ElectionEventuallySaved
