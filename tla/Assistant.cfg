SPECIFICATION Spec
CONSTANTS
    c1 = c1
    c2 = c2
    MaxTexts = 2
    ToolCalls = {c1, c2}
    MaxRounds = 3
    MaxCuts = 1
    MaxUpsets = 1
    MaxTyped = 3
    MaxEscapes = 1
    MaxCalls = 3
    MaxConcurrency = 2
    MaxAnswers = 2
    MaxAgentRounds = 2
    k1 = k1
    k2 = k2
    k3 = k3
    Processes = {k1, k2, k3}
    PackageOf <- Versions
    MaxCrashes = 1
    md = md
    fa = fa
    fb = fb
    SkillFiles = {md, fa, fb}
    SkillMd = md
    Opaque = {}
    MaxLinks = 2
    MaxIncludeDepth = 2
    PageSize = 2
    MaxOutput = 5
    MaxSkillCalls = 4
    m1 = m1
    m2 = m2
    FeishuMessages = {m1, m2}
    SeenLimit = 1
    SeenKept = 1
    WechatMessages = 2
    MaxRuns = 2
    q1 = q1
    q2 = q2
    fi = fi
    y1 = y1
    y2 = y2
    MemChats = {q1, q2}
    MemFiles = {fi}
    OldFile = fi
    Facts = {y1, y2}
    MaxOps = 3
INVARIANTS QueueServed HistoryPaired LinesTaken WriteAlone CacheWhole TextWhole HandledOnce SavedStays
SYMMETRY Symmetry
CHECK_DEADLOCK FALSE
