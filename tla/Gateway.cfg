SPECIFICATION FairSpec
CONSTANTS
    a = a
    b = b
    p1 = p1
    p2 = p2
    u1 = u1
    u2 = u2
    Sids = {a}
    Pubs = {p1, p2}
    Subs = {u1}
    MaxSize = 1
    MaxHistory = 1
    MaxMsgs = 3
    MaxContexts = 2
    MaxStarts = 1
    Sharing = FALSE
CHECK_DEADLOCK FALSE
INVARIANTS ResultTruthful CountsMatch
PROPERTIES QueueServed SubscribersEnd
