SPECIFICATION Spec
CONSTANTS
    p1 = p1
    p2 = p2
    p3 = p3
    None = None
    Hole = Hole
    Old = Old
    Procs = {p1, p2, p3}
    Inodes = {0, 1, 2, 3, 4}
    MaxWrites = 1
    MaxSize = 2
    MaxBackups = 2
    Retention = 1
    MaxTime = 2
CHECK_DEADLOCK FALSE
INVARIANTS
    FileWhole
