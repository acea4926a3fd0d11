SPECIFICATION FilesSpec
CONSTANTS
    t1 = t1
    t2 = t2
    t3 = t3
    Tasks = {t1, t2, t3}
    MaxSuffix = 2
    MaxInterruptions = 1
    MaxSaid = 2
    MaxStarts = 2
    MaxSessions = 2
    MaxTorn = 1
INVARIANTS OutputIsOwn VideoKept 
SYMMETRY Symmetry
CHECK_DEADLOCK FALSE
