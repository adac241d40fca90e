SPECIFICATION FairSpec
CONSTANTS
    Block = {b1, b2}
    HOUR = 3
    MaxDelay = 1
    DAY = 6
    INTERVAL = 2
    TTL = 2
    MaxCalc = 2
    MaxTime = 7
    MaxFaults = 1
INVARIANTS CountedOnce NothingSkipped CacheOrCalculating
PROPERTIES CalculationsEnd
