SPECIFICATION FairSpec
CONSTANTS
    Hooks = {h1, h2}
    Deliveries = {d1, d2}
    Events = {e1}
    Workers = {w1, w2}
    Callers = {c1}
    WEBHOOK_MAX_ATTEMPTS = 2
    FAILURE_ALERT_THRESHOLD = 2
    MAX_WEBHOOKS_PER_KEY = 2
    MaxStalledCount = 1
    Faults = {}
    MaxCrashes = 0
    MaxDispatches = 2
    MaxRetries = 0
    MaxEdits = 1
    MaxDisturbed = 1
    h1 = h1
    h2 = h2
    d1 = d1
    d2 = d2
    e1 = e1
    w1 = w1
    w2 = w2
    c1 = c1
INVARIANTS
    OneWay
    
PROPERTIES
    Settles
CHECK_DEADLOCK FALSE
