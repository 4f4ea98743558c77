SPECIFICATION EngineSpec
CONSTANTS
    Verifiers = {v1, v2}
    MxHosts = 2
    Attempts = 2
    MaxVerActs = 4
    FlagSets = {{"lookalike"}, {"blacklisted"}, {"toxic"}, {"abuse"}}
    v1 = v1
    v2 = v2
INVARIANTS
    ValidHasNoFlags
CHECK_DEADLOCK FALSE
