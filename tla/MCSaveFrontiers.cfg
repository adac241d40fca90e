\* Two accounts of three changes, two connections of a process, two faults, one crash.
CONSTANTS
    a1 = a1
    a2 = a2
    Account = {a1, a2}
    MaxVersion = 3
    MaxOpens = 2
    MaxFaults = 2
    MaxCrashes = 1
SPECIFICATION FairSpec
INVARIANTS
    IInv
    StaleIsPending
PROPERTIES
    UpToDate
