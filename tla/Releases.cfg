SPECIFICATION Spec
CONSTANTS
    f1 = f1
    f2 = f2
    x1 = x1
    x2 = x2
    Feeds = {f1, f2}
    Releases = {x1, x2}
    Listed <- FeedLists
    Unwanted = {x2}
    Every = Every
    MaxEdits = 2
    MaxFullScans = 1
    Variants <- Candidates
    Refused <- Rejected
    FieldOrder <- Order
    Unranked = 3
    NoSeason = 0
    Shows <- TmdbShows
    Schemes = {"tmdb", "absolute", "offset", "relative", "cour_absolute"}
    t1 = t1
    t2 = t2
    ReleaseTitles = {t1, t2}
    MaxItems = 2
    Signatures = {"none", "group", "publisher", "variant", "label", "star", "index"}
    Namings = {"han", "latin", "word", "[han]", "han / latin", "both", "latin / han", "kana / han", "han e / kana",
               "han latin", "han CAPS", "latin -- han", "han variant", "han quote latin", "han paren", "note", "new",
               "han / hanCAPS", "han_latin", "latin_han_han"}
    SeasonForms = {"none", "S", "nki", "nth", "phase", "digit", "ki", "[S]", "[nki]"}
    EpisodeForms = {"SxE", "-", "-SP", "-OVA", "-half", "EP", "hua", "*", "[digits]", "[EP]", "[hua]", "[OVA]",
                    "digits", "trailing", "Part", "range"}
    Seasons = {1, 2}
    Episodes = {3, 12}
    c1 = c1
    c2 = c2
    Clients = {c1, c2}
    Endpoints = {"e1", "e2"}
    Folders = {"p1", "p2"}
    Periods = {60, 90}
    Limits = {0, 3}
    HandWritten <- Files
    Dialogs <- Asked
    MaxDialogs = 3
    MaxStarts = 2
    MaxMishaps = 1
PROPERTIES TakenByTheRules SavedIsRead WellChosen
INVARIANTS MappedRight TitleRead SettingsKept
CHECK_DEADLOCK FALSE
