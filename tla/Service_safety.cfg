\* Two tasks for one URL, a crash, a client that goes away.
SPECIFICATION Spec
CONSTANTS
    Tasks = {t1, t2}
    Urls = {u1}
    MaxCrashes = 1
    MaxAbandons = 1
    None = None
SYMMETRY Symmetry
INVARIANTS RowsAgree OneDownloadPerUrl EveryDownloadAttended
PROPERTIES ImplementsClaims
