SPECIFICATION FairSpec
CONSTANTS
    Monitors = {m1, m2}
    Registered = {m1}
    Statuses = {valid}
    Workers = {w1, w2}
    Rechecks = {q1}
    Requests = {r1}
    BATCH_SIZE = 2
    MONITOR_CONCURRENCY = 1
    MAX_CONSECUTIVE_FAILURES = 2
    MonitorLimit = 3
    PlanLimit = 3
    RecheckAttempts = 2
    MaxStalledCount = 2
    MaxAsked = 2
    MaxEvents = 2
    m1 = m1
    m2 = m2
    valid = valid
    w1 = w1
    w2 = w2
    q1 = q1
    r1 = r1
INVARIANTS
    OneAtATime
    ChecksHold
PROPERTIES
    ServedOrPaused
CHECK_DEADLOCK FALSE
