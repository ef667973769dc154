\* Suspended sends, compact_now and a second connection: what still holds.
SPECIFICATION FairSpec
CONSTANTS
    Sessions = {s1}
    s1 = s1
    MaxTurns = 2
    MaxChunks = 0
    MaxRounds = 0
    MaxAttempts = 2
    KeepHead = 2
    KeepTail = 1
    SlowSend = TRUE
    CompactNow = TRUE
    MaxConns = 2
INVARIANT DoneIsOwn
PROPERTY GeneratorsClosed
