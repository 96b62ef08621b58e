SPECIFICATION Spec
CONSTANTS
    p = p
    d1 = d1
    d2 = d2
    d3 = d3
    s1 = s1
    q1 = q1
    q2 = q2
    q3 = q3
    Prefills <- OnePrefill
    Decodes <- TwoDecodes
    StaticPrefills <- MadePrefill
    StaticDecodes <- MadeDecode
    NodeOf <- ByName
    Sessions <- OneSession
    Loads <- OneLoad
    Reqs <- OneReq
    SessionOf <- SameSession
    Modes = {"disaggregated", "colocated"}
    MaxTokens = 2
    FaultKinds <- AllFaults
    MaxFaults = 3
CHECK_DEADLOCK FALSE
INVARIANTS
    TypeOK
    OkIsComplete
    ServedWhenFit
    DecisionsAreAttempts
PROPERTIES
    GivesUpOnlyWhenAllTried
    EveryRequestEnds
