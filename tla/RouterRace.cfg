SPECIFICATION Spec
CONSTANTS
    p = p
    d1 = d1
    d2 = d2
    d3 = d3
    s1 = s1
    q1 = q1
    q2 = q2
    q3 = q3
    Prefills <- OnePrefill
    Decodes <- TwoDecodes
    StaticPrefills <- NoStatic
    StaticDecodes <- NoStatic
    NodeOf <- ByName
    Sessions <- OneSession
    Loads <- OneLoad
    Reqs <- ThreeReqs
    SessionOf <- SameSession
    Modes = {"disaggregated"}
    MaxTokens = 1
    FaultKinds <- NoFaults
    MaxFaults = 0
CHECK_DEADLOCK FALSE
INVARIANTS
    ServedTurnsPin
