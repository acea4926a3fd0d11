\* Fair scheduling, two crashes and a dropped request.
SPECIFICATION FairSpec
CONSTANTS
    Tasks = {t1}
    Urls = {u1}
    MaxCrashes = 2
    MaxAbandons = 1
    None = None
PROPERTIES EveryDownloadEnds
