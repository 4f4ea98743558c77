SPECIFICATION MCSafety
CONSTANTS
    Audience <- Two
    Campaigns = {a}
    Created = {a}
    Callers = {p1, p2}
    Workers = {w1, w2}
    CHUNK_SIZE = 1
    CampaignAttempts = 2
    MaxStalledCount = 1
    MaxResumes = 1
    MaxEvents = 2
    Messages = {m1, m2}
    Keys = {k1}
    Senders = {c1, c2}
    SendWorkers = {s1, s2}
    SendAttempts = 2
    SendStalls = 1
    MaxRequests = 2
    MaxTrouble = 2
    r1 = r1
    r2 = r2
    r3 = r3
    a = a
    p1 = p1
    p2 = p2
    w1 = w1
    w2 = w2
    m1 = m1
    m2 = m2
    k1 = k1
    c1 = c1
    c2 = c2
    s1 = s1
    s2 = s2
INVARIANTS
    ResumeContinues
CHECK_DEADLOCK FALSE
