----------------------------- MODULE Subscriptions -----------------------------
(* The RSS subscriptions of the Python backend: the list in ConfigManager,  *)
(* the copy of it that ReleaseFeedReader works with, the handlers that edit *)
(* both, and the scans of RSSStage that read the copy again and again while *)
(* the handlers run.                                                        *)
EXTENDS Naturals, Sequences, SequencesExt, FiniteSets

CONSTANTS Feeds,        \* URLs that can be subscribed to
          Releases,     \* what the feeds list
          Listed,       \* [Feeds -> SUBSET Releases]
          Unwanted,     \* releases that a subscription's rules exclude
          Every,        \* the target of a scan of all feeds
          MaxEdits,     \* edits of the list
          MaxFullScans  \* scans that the timer or the user starts

ASSUME SubscriptionsAssumption ==
    /\ Listed \in [Feeds -> SUBSET Releases] /\ Unwanted \subseteq Releases
    /\ Every \notin Feeds /\ MaxEdits \in Nat /\ MaxFullScans \in Nat

VARIABLES
    subs,     \* ConfigManager: the subscriptions, by URL
    banned,   \* and whether the rules for all of them exclude the unwanted
    reader,   \* ReleaseFeedReader: its URLs, those it has rules for, and the rules for all
    scan,     \* the scan that holds the lock
    waiting,  \* targets of the scans that wait for the lock, in order
    tasks,    \* the download task of each release
    edits, fullScans
subVars == <<subs, banned, reader, scan, waiting, tasks, edits, fullScans>>
list == <<subs, banned>>

NoScan == [at |-> "idle", urls |-> {}, found |-> <<>>]
NoTask == [state |-> "none"]
Subscription(rules) == [enabled |-> TRUE, completed |-> FALSE, rules |-> rules]

ActiveIn(all) == {u \in DOMAIN all : all[u].enabled /\ ~all[u].completed}
ActiveUrls == ActiveIn(subs)

\* Mutant: rules are refreshed only for feeds the reader knows already.
SyncedForKnown(all, everywhere) ==
    [urls |-> ActiveIn(all), everywhere |-> everywhere,
     rules |-> {u \in reader.urls : u \in DOMAIN all /\ all[u].rules}]

\* What the reader is given after an edit: feeds that are paused, completed or
\* gone lose their exclusions and overrides with their place in the list.
Synced(all, everywhere) ==
    [urls |-> ActiveIn(all), everywhere |-> everywhere, rules |-> {u \in ActiveIn(all) : all[u].rules}]

SubInit ==
    /\ \E u \in SUBSET Feeds, rules \in BOOLEAN : subs = [v \in u |-> Subscription(rules)]
    /\ banned \in BOOLEAN /\ scan = NoScan
    /\ reader = [urls |-> ActiveUrls, everywhere |-> banned, rules |-> {u \in ActiveUrls : subs[u].rules}]
    /\ waiting = <<>>
    /\ tasks = [r \in Releases |-> NoTask] /\ edits = 0 /\ fullScans = 0

------------------------------------------------------------------------------
\* Edits.  None of them awaits anything once it has begun to write.
CancelTasks(u) ==
    tasks' = [r \in Releases |-> IF tasks[r].state = "active" /\ tasks[r].source = u
                                 THEN [tasks[r] EXCEPT !.state = "cancelled"] ELSE tasks[r]]
Save(all, everywhere) ==
    /\ edits < MaxEdits /\ edits' = edits + 1
    /\ subs' = all /\ banned' = everywhere /\ reader' = Synced(all, everywhere)
    /\ UNCHANGED <<scan, fullScans>>
Edit(all) == Save(all, banned)
Schedule(u) == waiting' = Append(waiting, u)

\* A feed that is paused or completed can be added again: that resumes it.
Stored(all, u, sub) == [v \in DOMAIN all \union {u} |-> IF v = u THEN sub ELSE all[v]]
Follow(u, rules) ==
    /\ u \notin ActiveUrls
    /\ Edit(Stored(subs, u, Subscription(rules))) /\ Schedule(u) /\ UNCHANGED tasks
\* Pausing stops what is being downloaded.
Toggle(u, enabled) ==
    /\ u \in DOMAIN subs
    /\ Edit([subs EXCEPT ![u].enabled = enabled, ![u].completed = @ /\ ~enabled])
    /\ IF enabled THEN UNCHANGED tasks ELSE CancelTasks(u)
    /\ UNCHANGED waiting
\* Completing does not; taking it back enables the feed as well.
Complete(u, completed) ==
    /\ u \in DOMAIN subs
    /\ Edit([subs EXCEPT ![u].completed = completed, ![u].enabled = @ \/ ~completed])
    /\ UNCHANGED <<tasks, waiting>>
Exclude(u, rules) ==
    /\ u \in DOMAIN subs /\ Edit([subs EXCEPT ![u].rules = rules]) /\ UNCHANGED <<tasks, waiting>>
ExcludeEverywhere(rules) == Save(subs, rules) /\ UNCHANGED <<tasks, waiting>>
\* A new URL takes over the state of the old one, but not its tasks.
Correct(old, new, rules) ==
    /\ old \in DOMAIN subs /\ new \notin DOMAIN subs
    /\ LET kept == [u \in DOMAIN subs \ {old} |-> subs[u]]
       IN Edit(Stored(kept, new, [subs[old] EXCEPT !.rules = rules]))
    /\ IF subs[old].enabled THEN UNCHANGED tasks ELSE CancelTasks(new)
    /\ UNCHANGED waiting
Unfollow(u) ==
    /\ u \in DOMAIN subs
    /\ Edit([v \in DOMAIN subs \ {u} |-> subs[v]]) /\ CancelTasks(u) /\ UNCHANGED waiting

------------------------------------------------------------------------------
\* Scans.
FullScan ==
    /\ fullScans < MaxFullScans /\ fullScans' = fullScans + 1 /\ waiting' = Append(waiting, Every)
    /\ UNCHANGED <<list, reader, scan, tasks, edits>>
\* Mutant: one scan is thought to do for all that wait.
StartScanForAll ==
    /\ scan.at = "idle" /\ waiting # <<>> /\ waiting' = <<>>
    /\ scan' = [NoScan EXCEPT !.at = "fetching",
                    !.urls = reader.urls \intersect (IF Head(waiting) = Every THEN Feeds ELSE {Head(waiting)})]
    /\ UNCHANGED <<list, reader, tasks, edits, fullScans>>
\* The lock is fair.  A feed that is not active by now is not fetched.
StartScan ==
    /\ scan.at = "idle" /\ waiting # <<>> /\ waiting' = Tail(waiting)
    /\ scan' = [NoScan EXCEPT !.at = "fetching",
                    !.urls = reader.urls \intersect (IF Head(waiting) = Every THEN Feeds ELSE {Head(waiting)})]
    /\ UNCHANGED <<list, reader, tasks, edits, fullScans>>
\* The rules are those of the moment the feeds have been read.  Feeds that fail
\* are left out, and a release that several feeds list is taken from one.
Excluded(u, r) == (reader.everywhere \/ u \in reader.rules) /\ r \in Unwanted
FetchEnds ==
    /\ scan.at = "fetching"
    /\ \E read \in SUBSET scan.urls :
         LET sources(r) == {u \in read : r \in Listed[u] /\ ~Excluded(u, r)}
             offered == {r \in Releases : sources(r) # {}}
         IN \E from \in [offered -> Feeds] :
              /\ \A r \in offered : from[r] \in sources(r)
              /\ scan' = [scan EXCEPT !.at = "filtering",
                     !.found = [r \in offered |-> [source |-> from[r], tuned |-> from[r] \in reader.rules]]]
    /\ UNCHANGED <<list, reader, waiting, tasks, edits, fullScans>>
\* What is in the library is dropped, and whatever the parser or a filter refuses.
Filtered ==
    /\ scan.at = "filtering"
    /\ \E kept \in SUBSET {r \in DOMAIN scan.found : tasks[r].state # "done"} :
         scan' = [scan EXCEPT !.at = "reserving", !.found = [r \in kept |-> scan.found[r]]]
    /\ UNCHANGED <<list, reader, waiting, tasks, edits, fullScans>>
Reserve(r) ==
    /\ scan.at = "reserving" /\ r \in DOMAIN scan.found
    /\ scan' = [scan EXCEPT !.found = [s \in DOMAIN @ \ {r} |-> @[s]]]
    /\ tasks' = IF tasks[r].state = "active" THEN tasks
                ELSE [tasks EXCEPT ![r] = [state |-> "active", source |-> scan.found[r].source]]
    /\ UNCHANGED <<list, reader, waiting, edits, fullScans>>
\* A scan ends with its last release, or with an error that gives up the rest.
EndScan ==
    /\ scan.at # "idle" /\ scan' = NoScan
    /\ scan.at # "reserving" \/ scan.found = <<>>
    /\ UNCHANGED <<list, reader, waiting, tasks, edits, fullScans>>
TaskEnds(r) ==
    /\ tasks[r].state = "active" /\ tasks' = [tasks EXCEPT ![r].state = "done"]
    /\ UNCHANGED <<list, reader, scan, waiting, edits, fullScans>>

ScanStep == StartScan \/ FetchEnds \/ Filtered \/ (\E r \in Releases : Reserve(r)) \/ EndScan
EditStep ==
    \/ \E u \in Feeds, b \in BOOLEAN : Follow(u, b) \/ Toggle(u, b) \/ Complete(u, b) \/ Exclude(u, b)
    \/ \E u, v \in Feeds, b \in BOOLEAN : Correct(u, v, b)
    \/ \E u \in Feeds : Unfollow(u)
    \/ \E b \in BOOLEAN : ExcludeEverywhere(b)
SubNext == EditStep \/ FullScan \/ ScanStep \/ (\E r \in Releases : TaskEnds(r))
SubSpec == SubInit /\ [][SubNext]_subVars /\ WF_subVars(ScanStep)

------------------------------------------------------------------------------
\* Whatever edits overtake a scan, a release of a feed that is followed when the
\* feed has been read is taken with the rules the list then has for that feed
\* (subscription_reader.py, _collect_entries).
TakenByTheRules ==
    [][\A r \in DOMAIN scan'.found :
          LET u == scan'.found[r].source
          IN scan.at = "fetching" /\ u \in ActiveUrls
             => /\ scan'.found[r].tuned = subs[u].rules
                /\ banned \/ subs[u].rules => r \notin Unwanted]_subVars

\* A feed that was saved is read by a scan of its own even if another scan is
\* under way, unless it is no longer followed (stages.py, scan_now).
SavedIsRead ==
    \A u \in Feeds : [](u \in ToSet(waiting) => <>(u \in scan.urls \/ u \notin ActiveUrls))
=============================================================================
