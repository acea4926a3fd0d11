SPECIFICATION Spec
CONSTANTS
    Tasks = {t1}
    MaxSuffix = 1
    MaxInterruptions = 1
PROPERTIES InterruptedTaskEnds
CHECK_DEADLOCK FALSE
