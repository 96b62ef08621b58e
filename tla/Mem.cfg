SPECIFICATION Spec
CONSTANTS
    a = a
    b = b
    c = c
    KvIds <- MCKvIds
    TotalMB <- MCTotalMB
    Policies <- MCPolicies
    Sizes <- MCSizes
    Ticks <- StrictTicks
    MaxOps = 5
CHECK_DEADLOCK FALSE
INVARIANTS
    TypeOK
    Accounting
    NoSpuriousOom
PROPERTIES
    FailureSparesOthers
    EvictsLeastRecentlyUsed
    EvictsOldest
    LockReleased
