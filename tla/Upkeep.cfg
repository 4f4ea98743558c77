SPECIFICATION MCSpec
CONSTANTS
    Enrollees = {e1, e2}
    Cycles = {c1, c2}
    LastStep = 1
    MaxAutoActs = 4
    Holders = {h1, h2}
    Visitors = {v1}
    MaxDkim = 2
    MaxDomainActs = 5
    SfLeads = {l1}
    MaxEdits = 2
    MaxSfActs = 6
    BillKeys = {b1, b2}
    Events = {e1, e2}
    EvWorkers = {w1, w2}
    MaxBillActs = 5
    Handlers = {h1, h2}
    Strikes = 3
    MaxEvActs = 5
    Calls = {c1, c2, c3, c4, c5}
    maxConcurrent = 2
    Apis = {a1, a2}
    Requests = {r1, r2}
    Objects = {o1, o2, o3}
    Chargers = {f1, f2}
    Quota = 2
    FinderLimit = 1
    FINDER_OVERFLOW_VERIFICATION_COST = 2
    AlertAt = 1
    MaxMonth = 2
    MaxCalls = 2
    MaxLeads = 2
    e1 = e1
    e2 = e2
    c1 = c1
    c2 = c2
    c3 = c3
    c4 = c4
    c5 = c5
    h1 = h1
    h2 = h2
    v1 = v1
    l1 = l1
    b1 = b1
    b2 = b2
    w1 = w1
    w2 = w2
    a1 = a1
    a2 = a2
    r1 = r1
    r2 = r2
    o1 = o1
    o2 = o2
    o3 = o3
    f1 = f1
    f2 = f2
INVARIANTS
    
    GrantedOnce
    AtMostMax
    WorkConserving
PROPERTIES
    UpkeepEnds
    StopIsHeeded
    
CHECK_DEADLOCK FALSE
