\* Two accounts in pages of two; scans as long as the overlap; one failed scan,
\* one death of the process.
CONSTANTS
    NumAccounts = 2
    BelowThreshold = {}
    ACCOUNTS_BATCH_SIZE = 2
    QueueLimit = 1
    Overlap = 2
    Lookback = 4
    MaxScan = 2
    MaxJobDelay = 1
    MaxDown = 1
    MaxHeight = 3
    MaxTime = 12
    MaxFaults = 1
    MaxCrashes = 1
SPECIFICATION FairSpec
INVARIANTS
    IInv
    NoneOutOfSight
PROPERTIES
    AllSaved
