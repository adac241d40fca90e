\* Two clients, each route in turn, two requests,
\* two writes, any number of restarts and failures.
CONSTANTS
    Client = {c1, c2}
    None = None
    Units <- UnitsOf
    MaxQuery = 1
    MaxVersion = 2
SPECIFICATION FairCacheSpec
INVARIANTS
    AnswersTheRequest
    StalenessIsBounded
PROPERTY
    CatchesUp
