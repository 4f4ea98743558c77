SPECIFICATION MCSpec
CONSTANTS
    Design <- MCDesign
    Parents <- MCParents
    Trigger <- MCTrigger
    Leads = {l1}
    SequenceIds = {main, other, sub}
    Existing = {main, sub}
    Boxes = {b1}
    Workers = {w1, w2}
    Pollers = {p1}
    Requests = {r1}
    BATCH = 1
    MaxEvents = 3
    Mailboxes = {m1, m2}
    Connected = {m1}
    Callers = {c1}
    CAP = 1
    LIMIT = 2
    FLOOR = 1
    RAMP = 1
    RAMP_DAYS = 2
    TICKS = 2
    Targets = {4}
    MaxActs = 2
    Runs = {r1}
    AgentWorkers = {w1, w2}
    Calls = {q1, q2}
    Pillars = {"verification", "nurture", "nurture_auto", "outbound", "lead_finding", "warmup"}
    RUN_LIMIT = 1
    MAX_FAILURES = 2
    MaxSearches = 1
    MaxKicks = 1
    MaxTurns = 3
    main = main
    other = other
    sub = sub
    q1 = q1
    q2 = q2
    m1 = m1
    m2 = m2
    c1 = c1
    l1 = l1
    b1 = b1
    w1 = w1
    w2 = w2
    p1 = p1
    r1 = r1
INVARIANTS
    StepOnce
    
    
    RunsHold
PROPERTIES
    EnrollmentsEnd
    RunsAreServed
    MailboxesRecover
CHECK_DEADLOCK FALSE
