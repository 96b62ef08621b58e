SPECIFICATION Spec
CONSTANTS
    Requests = 3
    Concurrency = 2
    MaxTokens = 1
    MaxTime = 3
CHECK_DEADLOCK FALSE
INVARIANTS
    TypeOK
    PercentilesAreRanks
PROPERTIES
    EveryRequestReported
