\* The same instance: an account whose open block alone is confirmed.
CONSTANTS
    N = 3
    InitHeight <- Heights
    InitCemented <- Cemented
    MaxHeight = 3
    Room <- Grown
    accounts_batch_size = 2
    BLOCKS_BATCH_SIZE = 2
    MAX_INFO_RETRIES = 1
    MAX_FAILED_ATTEMPTS = 3
    Options <- AnyOptions
    InitRows <- Tables
SPECIFICATION FairSpec
INVARIANT AllBlocksProcessed
CHECK_DEADLOCK FALSE
