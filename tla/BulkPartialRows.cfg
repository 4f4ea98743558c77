SPECIFICATION Spec
CONSTANTS
    Jobs = {j1}
    Workers = {w1, w2}
    FileRows = {0, 1, 2}
    DuplicateRows = {1}
    CREATE_BATCH = 2
    EMAIL_CONCURRENCY = 1
    PROGRESS_FLUSH_INTERVAL = 2
    PlanLimit = 3
    MaxStalledCount = 1
    MaxTrouble = 1
    j1 = j1
    w1 = w1
    w2 = w2
SYMMETRY Symmetry
INVARIANTS
    ResumedIsComplete
CHECK_DEADLOCK FALSE
