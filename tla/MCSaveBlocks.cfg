\* Three blocks, two connections of a process, two faults, one crash.
CONSTANTS
    h1 = h1
    h2 = h2
    h3 = h3
    Hash = {h1, h2, h3}
    MaxOpens = 2
    MaxFaults = 2
    MaxCrashes = 1
SPECIFICATION Spec
INVARIANTS
    SavedWithElection
    NoInfoLeak
    IInv
PROPERTIES
    ImplementsIntake
