SPECIFICATION ConvSpec
CONSTANTS
    Inputs = {go_on, other}
    go_on = go_on
    other = other
    MemoryFiles = {"memory_index"}
    Registrations <- MCRegistrations
    HookOutcomes <- MCOutcomes
    Calls <- MCCalls
    HeadCount = 1
    Recent = 2
    ForcedRecent = 1
    Interval = 2
    MaxInputs = 4
    MaxCalls = 1
    MaxManual = 1
INVARIANTS AnswersAreOwn HistoryIsBounded HooksDecide
SYMMETRY InputsAreAlike
CHECK_DEADLOCK FALSE
