------------------------------- MODULE Settings --------------------------------
(* The settings of the Python backend: the file they are saved in, the copy *)
(* in ConfigManager that handlers edit, what the running pipeline works     *)
(* with, and what a start makes of the file.  The request of the settings   *)
(* dialog reads the settings, asks OpenList about the new ones, and writes. *)
EXTENDS Naturals

CONSTANTS Clients,         \* requests of the settings dialog that can run at a time
          Endpoints, Folders, Periods, Limits,  \* addresses, directories, intervals, retry limits
          HandWritten,     \* what people may write into the file
          Dialogs,         \* what a request may ask for: values for some of the settings
          MaxDialogs, MaxStarts, MaxMishaps

\* What a start can tell apart of a format, a list of title patterns and a
\* provider.  A "reaching" format names a part of a field, like anime_name[0].
AllSettings ==
    [url : Endpoints, token : BOOLEAN, path : Folders, format : {"plain", "other", "reaching", "broken", "empty"},
     interval : Periods, retries : Limits, patterns : {"good", "broken"},
     feeds : {"none", "placeholder", "some"}, parser : {"unset", "regex", "llm", "unknown"},
     provider : {"known", "unknown"}, key : BOOLEAN, site : Endpoints,
     notifying : BOOLEAN, bots : SUBSET {"complete", "incomplete", "disabled", "unknown"},
     assistant : BOOLEAN, frontends : SUBSET {"complete", "incomplete"}]
Names == {"url", "token", "path", "format", "interval", "retries", "patterns", "feeds", "parser", "provider",
          "key", "site", "notifying", "bots", "assistant", "frontends"}

\* The groups that the handler saves one after the other.  Title patterns come
\* with every request; an omitted list is an empty one.
SavedGroups == <<{"url", "path", "format"}, {"interval", "retries"}, {"patterns"},
                 {"provider", "parser", "key"}, {"site"}>>
Hot == {"url", "path", "format", "interval", "retries", "patterns"}

\* Settings of which some take the values of others.
Put(old, new, names) == [n \in Names |-> IF n \in names THEN new[n] ELSE old[n]]

ASSUME SettingsAssumption ==
    /\ HandWritten \subseteq AllSettings
    /\ \A ask \in Dialogs : /\ "patterns" \in DOMAIN ask /\ DOMAIN ask \subseteq UNION {SavedGroups[i] : i \in 1 .. 5}
                            /\ \A s \in HandWritten : Put(s, ask, DOMAIN ask) \in AllSettings
                            /\ "parser" \in DOMAIN ask => ask["parser"] # "unset"
    /\ MaxDialogs \in Nat /\ MaxStarts \in Nat /\ MaxMishaps \in Nat

VARIABLES
    backend,   \* "down", "refused" (it found the file unfit and left) or "serving"
    file,      \* config.toml: settings, or Torn
    memory,    \* ConfigManager: the settings in memory
    live,      \* the settings among Hot that pipeline and client work with
    request,   \* how far each request of the dialog is, what it asks for, what it has read
    askedFor,  \* history: what was last asked for
    doubtful,  \* history: settings asked for while a request that would write them too was on its way
    unsaved,   \* history: the last save failed
    dialogs, starts, mishaps
setVars == <<backend, file, memory, live, request, askedFor, doubtful, unsaved, dialogs, starts, mishaps>>

Torn == [torn |-> TRUE]
NoRequest == [at |-> "idle"]
NoRequests == [c \in Clients |-> NoRequest]

------------------------------------------------------------------------------
\* A start.
\* A parser that nobody chose is the model if there is a key for it.
Loaded(s) ==
    [s EXCEPT !.parser = IF @ = "unset" THEN (IF s.key THEN "llm" ELSE "regex") ELSE @,
              !.feeds = IF @ = "placeholder" THEN "none" ELSE @]
CoreFit(s) == s.feeds = "some" /\ s.token
ParserFit(s) == s.parser \in {"regex", "llm"} /\ (s.parser = "llm" => s.key /\ s.provider = "known")
FormatFit(s) == s.format \in {"plain", "other", "empty"}
PatternsFit(s) == s.patterns = "good"
\* Bots that are switched off may be incomplete; bots of an unknown kind only earn a warning.
BotsFit(s) == s.notifying => s.bots # {} /\ "incomplete" \notin s.bots
AssistantFit(s) ==
    s.assistant => s.key /\ s.provider = "known" /\ s.frontends # {} /\ "incomplete" \notin s.frontends
Fit(s) == CoreFit(s) /\ ParserFit(s) /\ FormatFit(s) /\ PatternsFit(s) /\ BotsFit(s) /\ AssistantFit(s)

\* Removing the placeholder saves the settings, which makes the parser a choice.
StartBackend ==
    /\ backend # "serving" /\ starts < MaxStarts /\ starts' = starts + 1
    /\ IF file = Torn
       THEN backend' = "refused" /\ UNCHANGED <<file, memory, live, askedFor, unsaved>>
       ELSE /\ memory' = Loaded(file) /\ unsaved' = FALSE
            /\ file' = IF file.feeds = "placeholder" THEN memory' ELSE file
            /\ askedFor' = IF unsaved THEN memory' ELSE askedFor
            /\ backend' = IF Fit(memory') THEN "serving" ELSE "refused"
            /\ live' = IF Fit(memory') THEN [n \in Hot |-> memory'[n]] ELSE live
    /\ UNCHANGED <<request, doubtful, dialogs, mishaps>>
\* Somebody mends the file by hand, and means what it then says.
WriteByHand(s) ==
    /\ backend = "refused" /\ backend' = "down" /\ file' = s
    /\ askedFor' = Loaded(s) /\ doubtful' = {} /\ unsaved' = FALSE
    /\ UNCHANGED <<memory, live, request, dialogs, starts, mishaps>>

------------------------------------------------------------------------------
\* The dialog.  A request to write more than it asks for takes the rest from
\* what it read before it asked OpenList about the address and the directory.
Renders(format) == format \in {"plain", "other", "reaching"}
Written(ask) ==
    DOMAIN ask \union (IF DOMAIN ask \intersect SavedGroups[1] # {} THEN SavedGroups[1] ELSE {})
               \union (IF "interval" \in DOMAIN ask THEN SavedGroups[2] ELSE {})
\* Mutant: every setting is written, asked for or not.
OutcomeOfAll(ask, read) == Put(read, ask, DOMAIN ask)
Outcome(ask, read) == Put(Put(memory, read, Written(ask)), ask, DOMAIN ask)
Saves(ask) == {i \in 1 .. 5 : i \in {3, 4} \/ SavedGroups[i] \intersect Written(ask) # {}}
\* The file after some of these saves.
SavedUpTo(ask, read, k) == Put(memory, Outcome(ask, read), UNION {SavedGroups[i] : i \in 1 .. k})
HalfSaved(ask, read) == {SavedUpTo(ask, read, k) : k \in Saves(ask)}

OnItsWay(c) == request[c].at # "idle"
OverwritesBeside(d, n) ==
    \E c \in Clients \ {d} : OnItsWay(c) /\ n \in Written(request[c].ask) \ DOMAIN request[c].ask

\* A save that fails is logged and forgotten; the last one decides what the file says.
SaveAll(halves) ==
    \/ file' = memory' /\ unsaved' = FALSE /\ UNCHANGED mishaps
    \/ /\ mishaps < MaxMishaps /\ mishaps' = mishaps + 1 /\ unsaved' = TRUE
       /\ file' \in {file, Torn} \union halves
\* Nothing is awaited from the first assignment to the last save.
WriteThrough(c, ask, read) ==
    /\ memory' = Outcome(ask, read)
    /\ live' = [n \in Hot |-> IF n \in Written(ask) THEN memory'[n] ELSE live[n]]
    /\ askedFor' = Put(askedFor, ask, DOMAIN ask)
    /\ doubtful' = (doubtful \ DOMAIN ask) \union {n \in DOMAIN ask : OverwritesBeside(c, n)}
    /\ SaveAll(HalfSaved(ask, read) \ {memory'})
    /\ request' = [request EXCEPT ![c] = NoRequest]
    /\ UNCHANGED <<backend, starts>>

OpenDialog(c, ask) ==
    /\ backend = "serving" /\ ~OnItsWay(c) /\ dialogs < MaxDialogs /\ dialogs' = dialogs + 1
    /\ Renders(Put(memory, ask, DOMAIN ask)["format"])
    /\ IF DOMAIN ask \intersect {"url", "path"} = {} THEN WriteThrough(c, ask, memory)
       ELSE /\ request' = [request EXCEPT ![c] = [at |-> IF "url" \in DOMAIN ask THEN "url" ELSE "path",
                                                  ask |-> ask, read |-> memory]]
            /\ UNCHANGED <<backend, file, memory, live, askedFor, doubtful, unsaved, starts, mishaps>>
\* OpenList answers at the new address; the directory is asked for there.
AddressHolds(c) ==
    /\ request[c].at = "url" /\ request' = [request EXCEPT ![c].at = "path"]
    /\ UNCHANGED <<backend, file, memory, live, askedFor, doubtful, unsaved, dialogs, starts, mishaps>>
DirectoryHolds(c) ==
    /\ request[c].at = "path" /\ WriteThrough(c, request[c].ask, request[c].read) /\ UNCHANGED dialogs
RefuseDialog(c) ==
    /\ OnItsWay(c) /\ request' = [request EXCEPT ![c] = NoRequest]
    /\ UNCHANGED <<backend, file, memory, live, askedFor, doubtful, unsaved, dialogs, starts, mishaps>>

\* Other handlers edit the subscriptions and save what is in memory.
EditFeeds(feeds) ==
    /\ backend = "serving" /\ feeds # memory["feeds"] /\ dialogs < MaxDialogs /\ dialogs' = dialogs + 1
    /\ memory' = [memory EXCEPT !["feeds"] = feeds] /\ askedFor' = [askedFor EXCEPT !["feeds"] = feeds]
    /\ SaveAll({}) /\ UNCHANGED <<backend, live, request, doubtful, starts>>

\* A kill, and what the restart request does: SIGHUP ends the process where it is.
Kill ==
    /\ backend = "serving" /\ backend' = "down" /\ request' = NoRequests
    /\ UNCHANGED <<file, memory, live, askedFor, doubtful, unsaved, dialogs, starts, mishaps>>
\* The same among the saves of a request, or in one of them.
KillWhileSaving(c) ==
    /\ request[c].at = "path" /\ mishaps < MaxMishaps /\ mishaps' = mishaps + 1
    /\ backend' = "down" /\ request' = NoRequests
    /\ LET ask == request[c].ask
       IN /\ file' \in {Torn} \union HalfSaved(ask, request[c].read)
          /\ unsaved' = (file' = Torn)
          /\ doubtful' = doubtful \union DOMAIN ask
    /\ UNCHANGED <<memory, live, askedFor, dialogs, starts>>

SetInit ==
    /\ backend = "down" /\ file \in HandWritten /\ memory = Loaded(file) /\ live = [n \in Hot |-> memory[n]]
    /\ request = NoRequests /\ askedFor = memory /\ doubtful = {} /\ unsaved = FALSE
    /\ dialogs = 0 /\ starts = 0 /\ mishaps = 0
SetNext ==
    \/ StartBackend \/ Kill \/ (\E s \in HandWritten : WriteByHand(s))
    \/ \E feeds \in {"none", "some"} : EditFeeds(feeds)
    \/ \E c \in Clients :
          \/ \E ask \in Dialogs : OpenDialog(c, ask)
          \/ AddressHolds(c) \/ DirectoryHolds(c) \/ RefuseDialog(c) \/ KillWhileSaving(c)
SetSpec == SetInit /\ [][SetNext]_setVars

------------------------------------------------------------------------------
\* What was asked for last is in memory and at work, and the next start reads it,
\* but for a setting that another request was about to write without having been
\* asked to, and for a save that the log calls failed (router.py,
\* ui_update_settings; settings.py, save).
SettingsKept ==
    /\ backend = "serving" => /\ \A n \in Names \ doubtful : memory[n] = askedFor[n]
                              /\ \A n \in Hot : live[n] = memory[n]
    /\ ~unsaved => /\ backend = "serving" => Loaded(file) = memory
                   /\ \A n \in Names \ doubtful : Loaded(file)[n] = askedFor[n]
=============================================================================
