SPECIFICATION Spec
CONSTANTS
    Sessions = {s1, s2, s3}
    None = None
    HeadCount = 1
    Recent = 2
    ForcedRecent = 1
    MaxTurns = 2
    MaxPresses = 1
    MaxFaults = 1
    MaxStarts = 2
SYMMETRY SessionSymmetry
INVARIANTS ConversationsApart TurnsKept OnePressOneAbort
PROPERTY AbortRollsBack
CHECK_DEADLOCK FALSE
