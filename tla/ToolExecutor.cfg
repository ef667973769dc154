SPECIFICATION FairSpec
CONSTANTS
    s1 = s1
    s2 = s2
    bash = bash
    read = read
    Sessions = {s1, s2}
    Free = {read}
    Categories <- MCCategories
    Asked = {bash}
    MaxCalls = 2
    MaxConcurrent = 1
    MaxRetries = 1
    MaxSubCalls = 1
    MaxMade = 2
INVARIANTS
    SlotsConserved
    Consent
PROPERTIES
    StopStops
    BatchEnds
