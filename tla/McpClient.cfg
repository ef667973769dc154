SPECIFICATION Spec
CONSTANTS
    s1 = s1
    s2 = s2
    t1 = t1
    t2 = t2
    t3 = t3
    c1 = c1
    c2 = c2
    None = None
    Servers <- MCServers
    Tools <- MCTools
    Home <- MCHome
    Excluded <- MCExcluded
    Calls <- MCCalls
    MaxStarts = 2
SYMMETRY MCSymmetry
INVARIANTS
    ExcludedFiltered
    CallsHaveSessions
PROPERTIES
    LostForCause
CHECK_DEADLOCK FALSE
