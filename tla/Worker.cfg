SPECIFICATION Spec
CONSTANTS
    r1 = r1
    d1 = d1
    d2 = d2
    d3 = d3
    c1 = c1
    c2 = c2
    ka = ka
    kc = kc
    kd = kd
    ke = ke
    kf = kf
    kg = kg
    Generates <- MCGenerates
    DecodeCalls <- MCDecodeCalls
    PrefillCalls <- MCPrefillCalls
    Words <- MCWords
    Asked <- MCAsked
    Meta <- MCMeta
    UnitsPerToken = 2
    KvIds <- MCKvIds
    TotalMB <- MCTotalMB
    Policies <- MCPolicies
    KvOf <- MCKvOf
    MaxTok <- MCMaxTok
    DefaultTok = 3
    MaxBatch = 3
    Ticks <- StrictTicks
CHECK_DEADLOCK FALSE
INVARIANTS
    TypeOK
    SharedBooks
    AnnouncedStays
    MetricsFollow
PROPERTIES
    RefusesForOthersOnly
    CallsEnd
    StreamsUndisturbed
