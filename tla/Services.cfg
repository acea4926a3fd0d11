SPECIFICATION Spec
CONSTANTS
    Editors = {h1, h2}
    FeedUrls = {u1, u2}
    LegacyUrls = {u1}
    MaxVersion = 1
    MaxWaiting = 1
    b1 = b1
    b2 = b2
    Bots <- BotOrder
    GoodBots = {b2}
    Titles = {t1, t2}
    MaxAttempts = 2
    EventHandlers = {e1, e2}
    MaxEvents = 3
    HistoryLimit = 2
    Readers = {r1, r2}
    Updaters = {w1, w2}
    MaxChanges = 3
    d1 = d1
    d2 = d2
    d3 = d3
    p1 = p1
    p2 = p2
    Runs = {d1, d2, d3}
    ProcessOf <- RunProcess
    StaleAge = 2
    MaxClock = 3
    Parts = {1, 2}
    DownloadChecks = 3
    TransferChecks = 2
    DetectionLooks = 2
    MaxUpsets = 1
    MaxRestarts = 1
    tg = tg
    wx = wx
    fs = fs
    Frontends <- FrontendOrder
    Telegram = tg
    Detached = {fs}
    Notifying = TRUE
INVARIANTS SubscriptionsKept TitlesKept StoppedIsQuiet StaleOnlyWhenOverlapped OverlapExplained OrderlyEnd
PROPERTIES AddedIsScanned GoodBotServed WaitEnds
CHECK_DEADLOCK FALSE
