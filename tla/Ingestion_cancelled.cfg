\* A cancellation that reaches a task past its download.
SPECIFICATION Spec
CONSTANTS
    Tasks = {t1}
    Urls = {u1}
    Sources = {s1}
    NoSource = NoSource
    NamedBy <- NoneNamed
    DownloadWorkers = {w1}
    Renamer = Renamer
    Notifier = Notifier
    RetryLimits = {0}
    HistoryLimit = 1
    MaxVetted = 1
    MaxCrashes = 0
    None = None
PROPERTIES CancelSticks
