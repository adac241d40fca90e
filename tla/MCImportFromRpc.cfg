\* Three accounts in pages of two, chains of up to three blocks in batches of
\* two, every way of calling the script, any number of failed calls.
CONSTANTS
    N = 3
    InitHeight <- Heights
    InitCemented <- Cemented
    MaxHeight = 3
    Room <- Grown
    accounts_batch_size = 2
    BLOCKS_BATCH_SIZE = 2
    MAX_INFO_RETRIES = 1
    MAX_FAILED_ATTEMPTS = 3
    Options <- AnyOptions
    InitRows <- Tables
SPECIFICATION FairSpec
INVARIANTS
    IInv
    NoGapAboveCursor
    FinishedMeansComplete
    EveryAccountVisited
PROPERTIES
    ElectionKept
    Ends
\* The script ends.
CHECK_DEADLOCK FALSE
