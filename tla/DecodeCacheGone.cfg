SPECIFICATION Spec
CONSTANTS
    r1 = r1
    r2 = r2
    r3 = r3
    r4 = r4
    r5 = r5
    ka = ka
    kb = kb
    kc = kc
    kd = kd
    ke = ke
    Reqs <- MCReqs
    KvIds <- MCKvIds
    TotalMB <- MCTotalMB
    Policies <- MCPolicies
    KvOf <- OwnKv
    SizeOf <- MCSizes
    MaxTok <- MCMaxTok
    DefaultTok = 3
    MaxBatch = 2
    Ticks <- StrictTicks
CHECK_DEADLOCK FALSE
INVARIANTS
    ServedCacheStays
