\* A retry while the failed task's worker is still leaving.
SPECIFICATION Spec
CONSTANTS
    Tasks = {t1}
    Urls = {u1}
    MaxCrashes = 0
    MaxAbandons = 0
    None = None
INVARIANTS ResumedIsAttended
