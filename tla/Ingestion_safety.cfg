\* Two tasks for one URL, two workers, a crash, cancellations, two retry limits.
SPECIFICATION Spec
CONSTANTS
    Tasks = {t1, t2}
    Urls = {u1}
    Sources = {s1}
    NoSource = NoSource
    NamedBy <- NoneNamed
    DownloadWorkers = {w1, w2}
    Renamer = Renamer
    Notifier = Notifier
    RetryLimits = {0, 1}
    HistoryLimit = 2
    MaxVetted = 1
    MaxCrashes = 1
    None = None
SYMMETRY Symmetry
INVARIANTS EachTaskCarriedOnce StoreFollowsRegistry OneActiveTaskPerUrl
PROPERTIES ImplementsLedger
