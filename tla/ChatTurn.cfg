\* One connection, whose sends never suspend: the cancellation protocol.
SPECIFICATION FairSpec
CONSTANTS
    Sessions = {s1, s2}
    s1 = s1
    s2 = s2
    MaxTurns = 2
    MaxChunks = 1
    MaxRounds = 1
    MaxAttempts = 1
    KeepHead = 1
    KeepTail = 1
    SlowSend = FALSE
    CompactNow = FALSE
    MaxConns = 1
INVARIANT NothingLeftBehind
INVARIANT OneWorker
INVARIANT OwnEventsOnly
INVARIANT Chronological
INVARIANT SessionsSeparate
INVARIANT AnswerKept
INVARIANT NoHalfTurn
PROPERTY EveryTurnEnds
