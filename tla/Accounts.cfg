SPECIFICATION MCSpec
CONSTANTS
    Apis = {a1, a2}
    Requests = {r1, r2}
    Objects = {o1, o2, o3}
    Chargers = {f1, f2}
    Quota = 2
    FinderLimit = 1
    FINDER_OVERFLOW_VERIFICATION_COST = 2
    AlertAt = 1
    MaxMonth = 2
    MaxCalls = 3
    MaxLeads = 2
    Clients = {c1, c2, c3}
    LimitRpm = 2
    MaxRateActs = 10
    MaxKeys = 3
    Callers = {c1, c2}
    TTL = 2
    MaxKeyActs = 6
    MaxInvites = 2
    Actors = {c1, c2, c3}
    MaxTeamActs = 6
    Verifiers = {v1, v2}
    FlagSets = {{"free", "role"}, {"disposable"}, {"bad_syntax"}, {"no_mx"}}
    MxHosts = 2
    Attempts = 2
    MaxVerActs = 4
    AudKeys = {k1, k2}
    Home = k1
    AudLists = {l1, l2}
    MaxAudActs = 5
    Mails_ = {m1, m2, m3}
    Addresses = {a1}
    Hits = {q1, q2}
    FANOUT = 2
    MaxHits = 4
    MaxPushes = 6
    Polls = {p1, p2}
    Rows_ = {r1, r2}
    MaxFinderActs = 4
    Sweepers = {s1, s2}
    Tests = {t1, t2}
    LIFETIME = 8
    MaxMailActs = 3
    MaxDailyActs = 4
    Written = {"replyEvents", "mailboxes", "trackingEvents", "contacts"}
    MaxDelActs = 4
    Sessions = {s1, s2}
    Letters = {m1, m2}
    Mailees = {r1, r2}
    SendLimit = 2
    MaxRelayActs = 4
    Editors = {e1, e2}
    MaxTemplateActs = 4
    c1 = c1
    c2 = c2
    c3 = c3
    a1 = a1
    a2 = a2
    r1 = r1
    r2 = r2
    o1 = o1
    o2 = o2
    o3 = o3
    f1 = f1
    f2 = f2
    v1 = v1
    v2 = v2
    k1 = k1
    k2 = k2
    l1 = l1
    l2 = l2
    m1 = m1
    m2 = m2
    m3 = m3
    q1 = q1
    q2 = q2
    p1 = p1
    p2 = p2
    s1 = s1
    s2 = s2
    t1 = t1
    t2 = t2
    e1 = e1
    e2 = e2
INVARIANTS
    LimitsHold
    AccountsHold
    MembersHold
    
    VerifiedByOneJob
    
    
CHECK_DEADLOCK FALSE
