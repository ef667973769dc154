SPECIFICATION Spec
CONSTANTS
    s1 = s1
    s2 = s2
    d1 = d1
    d2 = d2
    None = None
    Sessions <- MCSessions
    Dreams <- MCDreams
    Terminal = TRUE
    Trigger = 2
    Retention = 2
    Limit = 1
    MaxLines = 4
    MaxOthers = 1
    MaxEntries = 2
    MaxDay = 2
INVARIANTS
    NotesKept
    TopicsIndexed
PROPERTIES
    PrunedWereRead
CHECK_DEADLOCK FALSE
