\* Fair scheduling, two tasks sharing every stage, a crash; no symmetry.
SPECIFICATION FairSpec
CONSTANTS
    Tasks = {t1, t2}
    Urls = {u1}
    Sources = {s1}
    NoSource = NoSource
    NamedBy <- AllNamed
    DownloadWorkers = {w1}
    Renamer = Renamer
    Notifier = Notifier
    RetryLimits = {1}
    HistoryLimit = 1
    MaxVetted = 1
    MaxCrashes = 1
    None = None
PROPERTIES EveryTaskSettles
