\* A chain of eleven blocks, the eight at the bottom saved: the first job adds
\* two, 10 rows are not more than 8 as strings, and the job stops as stalled;
\* each later one starts at the frontier again.  No fault at all.
CONSTANTS
    a1 = a1
    Account = {a1}
    MaxHeight = 11
    MIN_BATCH_SIZE = 2
    MAX_BACKFILL_ITERATIONS = 3
    MAX_DIGITS = 2
    InitHeight <- HeightEleven
    InitSaved <- EightBlocks
    QueueLimit = 0
    MaxFaults = 0
    MaxCrashes = 0
SPECIFICATION FairSpec
PROPERTIES
    MissingBlocksEventuallySaved
\* Nothing is left to do once every block is appended, confirmed and saved.
CHECK_DEADLOCK FALSE
