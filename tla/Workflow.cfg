SPECIFICATION Spec
CONSTANTS
    MaxSubmissions = 2
    MaxCrashes = 1
    MaxRetries = 1
    MaxSuffix = 1
INVARIANTS SnapshotKnowsTask FileKept
PROPERTIES BindingKept WorkerFreed
CHECK_DEADLOCK FALSE
