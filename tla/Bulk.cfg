SPECIFICATION FairSpec
CONSTANTS
    Jobs = {j1}
    Workers = {w1, w2}
    FileRows = {0, 1, 2}
    DuplicateRows = {1}
    CREATE_BATCH = 2
    EMAIL_CONCURRENCY = 1
    PROGRESS_FLUSH_INTERVAL = 2
    PlanLimit = 3
    MaxStalledCount = 1
    MaxTrouble = 2
    j1 = j1
    w1 = w1
    w2 = w2
INVARIANTS
    CompletedIsTrue
    ProgressBacked
    ChargedOnce
PROPERTIES
    Settles
CHECK_DEADLOCK FALSE
