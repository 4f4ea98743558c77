SPECIFICATION Spec
CONSTANTS
    Hooks = {h1}
    Deliveries = {d1}
    Events = {e1}
    Workers = {w1, w2}
    Callers = {c1}
    WEBHOOK_MAX_ATTEMPTS = 2
    FAILURE_ALERT_THRESHOLD = 5
    MAX_WEBHOOKS_PER_KEY = 1
    MaxStalledCount = 1
    Faults = {"worker_crash", "lock_lost", "handler_error", "caller_error"}
    MaxCrashes = 1
    MaxDispatches = 1
    MaxRetries = 1
    MaxEdits = 0
    MaxDisturbed = 1
    h1 = h1
    d1 = d1
    e1 = e1
    w1 = w1
    w2 = w2
    c1 = c1
SYMMETRY Symmetry
INVARIANTS
    OutcomeIsEarned
    RetryBudget
PROPERTIES
    ImplementsLedger
CONSTRAINT FewDisturbed
CHECK_DEADLOCK FALSE
