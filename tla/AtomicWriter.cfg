SPECIFICATION FairSpec
CONSTANTS
    p1 = p1
    p2 = p2
    p3 = p3
    None = None
    Hole = Hole
    Old = Old
    Procs = {p1, p2}
    Inodes = {0, 1, 2, 3}
    MaxWrites = 1
    MaxSize = 2
    MaxBackups = 1
    Retention = 1
    MaxTime = 4
CHECK_DEADLOCK FALSE
INVARIANTS
    BackupKept
PROPERTIES
    AllOrNothing
    WritesReturn
