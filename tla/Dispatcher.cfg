SPECIFICATION FairSpec
CONSTANTS
    k1 = k1
    k2 = k2
    Keys = {k1, k2}
    MaxBatch = 2
    MaxRounds = 3
    MaxAttempts = 2
    Limit = 3
    MaxTurns = 2
CHECK_DEADLOCK FALSE
INVARIANTS CallsPaired BreakerExact
PROPERTIES TurnEnds
