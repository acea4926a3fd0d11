-------------------------- MODULE IngestionPipeline --------------------------
(***************************************************************************)
(* The download tasks of op-ani, from the request that reserves one to the *)
(* library entry that ends it: AnimeLibraryIngestionPipeline, its          *)
(* TaskCoordinator, the three pipeline stages that move a task on, and the *)
(* durable memento store a restarted process resumes from.                 *)
(*                                                                         *)
(* One process runs everything on one asyncio loop, so a step of the model *)
(* is what a coroutine does between two awaits.  The awaits kept here are  *)
(* the ones another coroutine can use: the lookups and the metadata        *)
(* service before a reservation, the publication under the reservation     *)
(* lock, the downloader, the renamer, the library database and the         *)
(* notifier.  A memento is one shared object: stages, registry and HTTP    *)
(* handlers all change the same one.                                       *)
(***************************************************************************)
EXTENDS Integers, FiniteSets, SequencesExt

CONSTANTS
    Tasks,            \* task ids (uuid4), each used at most once
    Urls,             \* download URLs; a release title stands for its URL
    Sources,          \* RSS subscriptions
    NoSource,         \* the source of a release submitted by hand
    NamedBy,          \* NamedBy[s]: URLs whose anime bears the name of subscription s
    DownloadWorkers,  \* the download stage's workers (download_concurrency)
    Renamer,          \* the rename stage's only worker
    Notifier,         \* the notification stage's only worker
    RetryLimits,      \* values max_download_retries is configured to
    HistoryLimit,     \* terminal_history_limit
    MaxVetted,        \* bound: releases vetted and not reserved at any moment
    MaxCrashes,       \* bound: number of crashes
    None

ASSUME TasksAssumption == IsFiniteSet(Tasks) /\ None \notin Tasks
ASSUME SourcesAssumption == NoSource \notin Sources
ASSUME WorkersAssumption ==
    /\ Renamer \notin DownloadWorkers
    /\ Notifier \notin DownloadWorkers
    /\ Renamer # Notifier
ASSUME LimitsAssumption ==
    RetryLimits \subseteq Nat /\ RetryLimits # {} /\ HistoryLimit \in Nat
    /\ MaxVetted \in Nat /\ MaxCrashes \in Nat

Workers == DownloadWorkers \cup {Renamer, Notifier}
Releases == [url : Urls, source : Sources \cup {NoSource}]

TerminalStates == {"completed", "failed", "cancelled"}
ActiveStates ==
    {"pending", "downloading", "downloaded", "renaming", "renamed", "notifying"}
States == ActiveStates \cup TerminalStates

(* What the memento's pipeline part knows of the file.                     *)
Paths == {"none", "downloaded", "renamed"}

Mementos ==
    [state : States, release : Releases, retries : Nat, limit : Nat,
     path : Paths, archived : BOOLEAN]

ASSUME NoneAssumption == None \notin Mementos \cup Releases

VARIABLES
    up,                  \* the process runs
    memento,             \* the memento objects of this process
    tasks,               \* TaskCoordinator._tasks
    history,             \* TaskCoordinator._terminal_history, oldest first
    maxRetries,          \* TaskCoordinator._max_retries
    store,               \* the rows of the sqlite memento store
    library,             \* the titles in the library database
    vetted,              \* releases past the library lookup, not reserved yet
    reserving,           \* the task its creator publishes under the reservation lock
    downloadBuffer, renameBuffer, notificationBuffer,
    job,                 \* job[w]: the task worker w holds
    phase,               \* phase[w]: where in process_item worker w waits
    origin,              \* history variable: the release a task was reserved for
    withdrawn,           \* history variable: tasks a cancellation ever reached
    attempts,            \* history variable: downloads begun since the last fresh start
    crashes              \* crashes so far

registry == <<memento, tasks, history, store>>
buffers == <<downloadBuffer, renameBuffer, notificationBuffer>>
workers == <<job, phase>>
intake == <<vetted, reserving>>
ghosts == <<origin, withdrawn, attempts>>
vars == <<up, registry, maxRetries, library, intake, buffers, workers, ghosts, crashes>>

-----------------------------------------------------------------------------
(* The registry.                                                           *)

(* Task ids in use.                                                        *)
Created == {t \in Tasks : origin[t] # None}

(* list_tasks and get_task see the active tasks and the remembered ones.   *)
Known == tasks \cup ToSet(history)

StateOf(t) == memento[t].state

Without(s, t) ==
    IF \E i \in DOMAIN s : s[i] = t
    THEN RemoveAt(s, CHOOSE i \in DOMAIN s : s[i] = t)
    ELSE s

(* The last HistoryLimit elements: the OrderedDict drops its oldest.       *)
Newest(s) ==
    IF Len(s) <= HistoryLimit THEN s ELSE SubSeq(s, Len(s) - HistoryLimit + 1, Len(s))

(* What is left of s without the elements of S, in the same order.         *)
Sparing(s, S) ==
    {q \in SetToSeqs(ToSet(s) \ S) :
        \A i, j \in DOMAIN q : i < j =>
            \E a, b \in DOMAIN s : a < b /\ s[a] = q[i] /\ s[b] = q[j]}

Row(m) == IF m.state \in {"completed", "cancelled"} THEN None ELSE m

(* TaskCoordinator.save(memento) with the object now equal to m.           *)
Save(t, m) ==
    /\ memento' = [memento EXCEPT ![t] = m]
    /\ store' = [store EXCEPT ![t] = Row(m)]
    /\ tasks' = IF m.state \in TerminalStates THEN tasks \ {t} ELSE tasks \cup {t}
    /\ history' = IF m.state \in TerminalStates
                  THEN Newest(Append(Without(history, t), t))
                  ELSE Without(history, t)

(* A release whose task is queued, running, or failed and kept: a failed   *)
(* task blocks the feed that produced it, not a submission by hand.        *)
IsDownloading(r) ==
    \E t \in Known :
        /\ memento[t].release.url = r.url
        /\ ~memento[t].archived
        /\ StateOf(t) \notin {"completed", "cancelled"}
        /\ StateOf(t) = "failed" => r.source # NoSource

(* The tasks cancel_tasks_for_source reaches: those of the subscription,   *)
(* and those without a source whose anime bears its name.                  *)
Associated(s) ==
    {t \in Known :
        /\ StateOf(t) # "completed"
        /\ \/ memento[t].release.source = s
           \/ /\ memento[t].release.source = NoSource
              /\ memento[t].release.url \in NamedBy[s]}

Idle(w) == job[w] = None
Hold(w, t, p) ==
    job' = [job EXCEPT ![w] = t] /\ phase' = [phase EXCEPT ![w] = p]
Release(w) == Hold(w, None, "idle")

-----------------------------------------------------------------------------
(* Reserving a task.                                                       *)

(* The library lookup that opens an RSS scan or an HTTP submission.  The   *)
(* HTTP handler also asks for a running download at once.  Bound: nothing  *)
(* is looked up that no task id is left for.                               *)
Vet(r) ==
    /\ up
    /\ Created # Tasks
    /\ r \notin vetted
    /\ Cardinality(vetted) < MaxVetted
    /\ r.url \notin library
    /\ r.source = NoSource => ~IsDownloading(r)
    /\ vetted' = vetted \cup {r}
    /\ UNCHANGED <<up, registry, maxRetries, library, reserving, buffers, workers, ghosts, crashes>>

(* Metadata or a filter turned it away, or the reservation found its task. *)
Discard(r) ==
    /\ up
    /\ r \in vetted
    /\ vetted' = vetted \ {r}
    /\ UNCHANGED <<up, registry, maxRetries, library, reserving, buffers, workers, ghosts, crashes>>

(* Mutant: the reservation trusts the check made when it was vetted.       *)
ReserveUnchecked(r) ==
    /\ up
    /\ r \in vetted
    /\ reserving = None
    /\ \E t \in Tasks \ Created :
        /\ Save(t, [state |-> "pending", release |-> r, retries |-> 0,
                    limit |-> maxRetries, path |-> "none", archived |-> FALSE])
        /\ reserving' = t
        /\ origin' = [origin EXCEPT ![t] = r]
        /\ vetted' = vetted \ {r}
    /\ UNCHANGED <<up, maxRetries, library, buffers, workers, withdrawn, attempts, crashes>>

ReserveDownloadTask(r) ==
    /\ up
    /\ r \in vetted
    /\ reserving = None
    /\ ~IsDownloading(r)
    /\ \E t \in Tasks \ Created :
        /\ Save(t, [state |-> "pending", release |-> r, retries |-> 0,
                    limit |-> maxRetries, path |-> "none", archived |-> FALSE])
        /\ reserving' = t
        /\ origin' = [origin EXCEPT ![t] = r]
        /\ vetted' = vetted \ {r}
    /\ UNCHANGED <<up, maxRetries, library, buffers, workers, withdrawn, attempts, crashes>>

(* The publication returns: the lock is free and the candidate is queued.  *)
EnqueueReserved ==
    /\ up
    /\ reserving # None
    /\ downloadBuffer' = Append(downloadBuffer, reserving)
    /\ reserving' = None
    /\ UNCHANGED <<up, registry, maxRetries, library, vetted, renameBuffer,
                   notificationBuffer, workers, ghosts, crashes>>

-----------------------------------------------------------------------------
(* The download stage.                                                     *)

(* A candidate whose task is unknown or over is thrown away.               *)
SkipDownload(w) ==
    /\ up
    /\ Idle(w)
    /\ downloadBuffer # <<>>
    /\ LET t == Head(downloadBuffer)
       IN  t \in Known => StateOf(t) \in TerminalStates
    /\ downloadBuffer' = Tail(downloadBuffer)
    /\ UNCHANGED <<up, registry, maxRetries, library, intake, renameBuffer,
                   notificationBuffer, workers, ghosts, crashes>>

StartDownload(w) ==
    /\ up
    /\ Idle(w)
    /\ downloadBuffer # <<>>
    /\ LET t == Head(downloadBuffer)
       IN  /\ t \in Known
           /\ StateOf(t) \notin TerminalStates
           /\ Save(t, [memento[t] EXCEPT !.state = "downloading"])
           /\ Hold(w, t, "downloading")
           /\ attempts' = [attempts EXCEPT ![t] = @ + 1]
    /\ downloadBuffer' = Tail(downloadBuffer)
    /\ UNCHANGED <<up, maxRetries, library, intake, renameBuffer, notificationBuffer,
                   origin, withdrawn, crashes>>

(* The downloader saves the memento at each of its own transitions.  For a *)
(* cancelled task that only makes it the latest of the history.            *)
CheckpointDownload(w) ==
    /\ up
    /\ phase[w] = "downloading"
    /\ Save(job[w], memento[job[w]])
    /\ UNCHANGED <<up, maxRetries, library, intake, buffers, workers, ghosts, crashes>>

(* The downloader returns or raises, but the task was cancelled meanwhile. *)
IgnoreDownload(w) ==
    /\ up
    /\ phase[w] = "downloading"
    /\ StateOf(job[w]) = "cancelled"
    /\ Release(w)
    /\ UNCHANGED <<up, registry, maxRetries, library, intake, buffers, ghosts, crashes>>

FinishDownload(w) ==
    /\ up
    /\ phase[w] = "downloading"
    /\ StateOf(job[w]) # "cancelled"
    /\ Save(job[w], [memento[job[w]] EXCEPT !.state = "downloaded", !.path = "downloaded"])
    /\ Hold(w, job[w], "downloaded")
    /\ UNCHANGED <<up, maxRetries, library, intake, buffers, ghosts, crashes>>

HandToRename(w) ==
    /\ up
    /\ phase[w] = "downloaded"
    /\ renameBuffer' = Append(renameBuffer, job[w])
    /\ Release(w)
    /\ UNCHANGED <<up, registry, maxRetries, library, intake, downloadBuffer,
                   notificationBuffer, ghosts, crashes>>

(* Mutant: the item is saved as pending but not put back.                  *)
RetryNotQueued(w) ==
    /\ up
    /\ phase[w] = "downloading"
    /\ LET t == job[w]
       IN  /\ StateOf(t) # "cancelled"
           /\ memento[t].retries < memento[t].limit
           /\ Save(t, [memento[t] EXCEPT !.state = "pending", !.retries = @ + 1])
    /\ Release(w)
    /\ UNCHANGED <<up, maxRetries, library, intake, buffers, ghosts, crashes>>

RetryDownload(w) ==
    /\ up
    /\ phase[w] = "downloading"
    /\ LET t == job[w]
       IN  /\ StateOf(t) # "cancelled"
           /\ memento[t].retries < memento[t].limit
           /\ Save(t, [memento[t] EXCEPT !.state = "pending", !.retries = @ + 1])
           /\ downloadBuffer' = Append(downloadBuffer, t)
    /\ Release(w)
    /\ UNCHANGED <<up, maxRetries, library, intake, renameBuffer, notificationBuffer,
                   ghosts, crashes>>

FailDownload(w) ==
    /\ up
    /\ phase[w] = "downloading"
    /\ LET t == job[w]
       IN  /\ StateOf(t) # "cancelled"
           /\ memento[t].retries >= memento[t].limit
           /\ Save(t, [memento[t] EXCEPT !.state = "failed"])
    /\ Release(w)
    /\ UNCHANGED <<up, maxRetries, library, intake, buffers, ghosts, crashes>>

-----------------------------------------------------------------------------
(* The rename stage.  It asks the registry for the task and nothing else.  *)

SkipRename ==
    /\ up
    /\ Idle(Renamer)
    /\ renameBuffer # <<>>
    /\ Head(renameBuffer) \notin Known
    /\ renameBuffer' = Tail(renameBuffer)
    /\ UNCHANGED <<up, registry, maxRetries, library, intake, downloadBuffer,
                   notificationBuffer, workers, ghosts, crashes>>

StartRename ==
    /\ up
    /\ Idle(Renamer)
    /\ renameBuffer # <<>>
    /\ LET t == Head(renameBuffer)
       IN  /\ t \in Known
           /\ Save(t, [memento[t] EXCEPT !.state = "renaming"])
           /\ Hold(Renamer, t, "renaming")
    /\ renameBuffer' = Tail(renameBuffer)
    /\ UNCHANGED <<up, maxRetries, library, intake, downloadBuffer, notificationBuffer,
                   ghosts, crashes>>

FinishRename ==
    /\ up
    /\ phase[Renamer] = "renaming"
    /\ LET t == job[Renamer]
       IN  /\ Save(t, [memento[t] EXCEPT !.state = "renamed", !.path = "renamed"])
           /\ Hold(Renamer, t, "renamed")
    /\ UNCHANGED <<up, maxRetries, library, intake, buffers, ghosts, crashes>>

HandToNotification ==
    /\ up
    /\ phase[Renamer] = "renamed"
    /\ notificationBuffer' = Append(notificationBuffer, job[Renamer])
    /\ Release(Renamer)
    /\ UNCHANGED <<up, registry, maxRetries, library, intake, downloadBuffer, renameBuffer,
                   ghosts, crashes>>

(* on_error of the rename and notification stages: a task the registry     *)
(* still finds is marked failed.                                           *)
MarkFailed(w) ==
    /\ LET t == job[w]
       IN  IF t \in Known
           THEN Save(t, [memento[t] EXCEPT !.state = "failed"])
           ELSE UNCHANGED registry
    /\ Release(w)
    /\ UNCHANGED <<up, maxRetries, library, intake, buffers, ghosts, crashes>>

FailRename ==
    /\ up
    /\ phase[Renamer] = "renaming"
    /\ MarkFailed(Renamer)

-----------------------------------------------------------------------------
(* The notification stage: the library entry, the notifier, the end.       *)

SkipNotification ==
    /\ up
    /\ Idle(Notifier)
    /\ notificationBuffer # <<>>
    /\ Head(notificationBuffer) \notin Known
    /\ notificationBuffer' = Tail(notificationBuffer)
    /\ UNCHANGED <<up, registry, maxRetries, library, intake, downloadBuffer, renameBuffer,
                   workers, ghosts, crashes>>

StartNotification ==
    /\ up
    /\ Idle(Notifier)
    /\ notificationBuffer # <<>>
    /\ LET t == Head(notificationBuffer)
       IN  /\ t \in Known
           /\ Save(t, [memento[t] EXCEPT !.state = "notifying"])
           /\ Hold(Notifier, t, "recording")
    /\ notificationBuffer' = Tail(notificationBuffer)
    /\ UNCHANGED <<up, maxRetries, library, intake, downloadBuffer, renameBuffer,
                   ghosts, crashes>>

AddRelease ==
    /\ up
    /\ phase[Notifier] = "recording"
    /\ library' = library \cup {memento[job[Notifier]].release.url}
    /\ Hold(Notifier, job[Notifier], "notifying")
    /\ UNCHANGED <<up, registry, maxRetries, intake, buffers, ghosts, crashes>>

(* save(COMPLETED) files the task in the history; delete(task_id) then     *)
(* finds neither an active task nor a row left to remove.                  *)
CompleteTask ==
    /\ up
    /\ phase[Notifier] = "notifying"
    /\ LET t == job[Notifier]
       IN  Save(t, [memento[t] EXCEPT !.state = "completed"])
    /\ Release(Notifier)
    /\ UNCHANGED <<up, maxRetries, library, intake, buffers, ghosts, crashes>>

FailNotification ==
    /\ up
    /\ phase[Notifier] \in {"recording", "notifying"}
    /\ MarkFailed(Notifier)

-----------------------------------------------------------------------------
(* What the HTTP handlers do to existing tasks.                            *)

(* Pausing or removing a subscription.  Every associated task is saved as  *)
(* cancelled, in the registry's order, which the model leaves open.        *)
CancelTasksForSource(s) ==
    /\ up
    /\ LET cancelled == Associated(s)
       IN  /\ cancelled # {}
           /\ memento' = [t \in Tasks |->
                IF t \in cancelled THEN [memento[t] EXCEPT !.state = "cancelled"]
                ELSE memento[t]]
           /\ store' = [t \in Tasks |-> IF t \in cancelled THEN None ELSE store[t]]
           /\ tasks' = tasks \ cancelled
           /\ \E spared \in Sparing(history, cancelled), order \in SetToSeqs(cancelled) :
                history' = Newest(spared \o order)
           /\ withdrawn' = withdrawn \cup cancelled
    /\ UNCHANGED <<up, maxRetries, library, intake, buffers, workers, origin, attempts,
                   crashes>>

(* Mutant: any task may be retried.                                        *)
RetryByHandInAnyState(t) ==
    /\ up
    /\ reserving = None
    /\ t \in Known
    /\ ~\E other \in Known \ {t} :
        /\ memento[other].release.url = memento[t].release.url
        /\ StateOf(other) \notin TerminalStates
    /\ Save(t, [memento[t] EXCEPT !.state = "pending", !.path = "none", !.retries = 0,
                                  !.archived = FALSE])
    /\ downloadBuffer' = Append(downloadBuffer, t)
    /\ attempts' = [attempts EXCEPT ![t] = 0]
    /\ UNCHANGED <<up, maxRetries, library, intake, renameBuffer, notificationBuffer,
                   workers, origin, withdrawn, crashes>>

(* Mutant: no look for another task of the same release.                   *)
RetryByHandTwice(t) ==
    /\ up
    /\ reserving = None
    /\ t \in Known
    /\ StateOf(t) = "failed"
    /\ Save(t, [memento[t] EXCEPT !.state = "pending", !.path = "none", !.retries = 0,
                                  !.archived = FALSE])
    /\ downloadBuffer' = Append(downloadBuffer, t)
    /\ attempts' = [attempts EXCEPT ![t] = 0]
    /\ UNCHANGED <<up, maxRetries, library, intake, renameBuffer, notificationBuffer,
                   workers, origin, withdrawn, crashes>>

(* prepare_manual_retry and the enqueueing that follows without a pause.   *)
RetryByHand(t) ==
    /\ up
    /\ reserving = None
    /\ t \in Known
    /\ StateOf(t) = "failed"
    /\ ~\E other \in Known \ {t} :
        /\ memento[other].release.url = memento[t].release.url
        /\ StateOf(other) \notin TerminalStates
    /\ Save(t, [memento[t] EXCEPT !.state = "pending", !.path = "none", !.retries = 0,
                                  !.archived = FALSE])
    /\ downloadBuffer' = Append(downloadBuffer, t)
    /\ attempts' = [attempts EXCEPT ![t] = 0]
    /\ UNCHANGED <<up, maxRetries, library, intake, renameBuffer, notificationBuffer,
                   workers, origin, withdrawn, crashes>>

ArchiveFailed(t) ==
    /\ up
    /\ t \in Known
    /\ StateOf(t) = "failed"
    /\ Save(t, [memento[t] EXCEPT !.archived = TRUE])
    /\ UNCHANGED <<up, maxRetries, library, intake, buffers, workers, ghosts, crashes>>

(* Mutant: the new limit is set on the objects only.                       *)
UpdateMaxRetriesUnsaved(n) ==
    /\ up
    /\ maxRetries' = n
    /\ memento' = [t \in Tasks |->
         IF t \in tasks THEN [memento[t] EXCEPT !.limit = n] ELSE memento[t]]
    /\ UNCHANGED <<up, store, tasks, history, library, intake, buffers, workers, ghosts,
                   crashes>>

UpdateMaxRetries(n) ==
    /\ up
    /\ maxRetries' = n
    /\ memento' = [t \in Tasks |->
         IF t \in tasks THEN [memento[t] EXCEPT !.limit = n] ELSE memento[t]]
    /\ store' = [t \in Tasks |-> IF t \in tasks THEN memento'[t] ELSE store[t]]
    /\ UNCHANGED <<up, tasks, history, library, intake, buffers, workers, ghosts, crashes>>

-----------------------------------------------------------------------------
(* Stopping and starting the process.                                      *)

(* A crash, or a stop: neither finishes what the workers hold.             *)
Crash ==
    /\ up
    /\ crashes < MaxCrashes
    /\ crashes' = crashes + 1
    /\ up' = FALSE
    /\ memento' = [t \in Tasks |-> None]
    /\ tasks' = {}
    /\ history' = <<>>
    /\ vetted' = {}
    /\ reserving' = None
    /\ downloadBuffer' = <<>>
    /\ renameBuffer' = <<>>
    /\ notificationBuffer' = <<>>
    /\ job' = [w \in Workers |-> None]
    /\ phase' = [w \in Workers |-> "idle"]
    /\ UNCHANGED <<maxRetries, store, library, ghosts>>

Stored == {t \in Tasks : store[t] # None}
StoredActive == {t \in Stored : store[t].state \in ActiveStates}

(* A row restore marks failed: the attempts are used up, or the checkpoint *)
(* lacks the file the stage it stopped in works on.                        *)
Unrestorable(m) ==
    \/ /\ m.state \in {"pending", "downloading"}
       /\ m.retries > 0
       /\ m.retries >= m.limit
    \/ m.state \in {"downloaded", "renaming"} /\ m.path = "none"
    \/ m.state \in {"renamed", "notifying"} /\ m.path # "renamed"

(* Mutant: a task stopped in the middle of its rename is not resumed.      *)
RestoreWithoutRenaming(n) ==
    LET loaded == [t \in Tasks |->
            IF t \in StoredActive THEN [store[t] EXCEPT !.limit = n] ELSE store[t]]
        lost == {t \in StoredActive : Unrestorable(loaded[t])}
        In(states) == {t \in StoredActive \ lost : store[t].state \in states}
    IN  /\ memento' = [t \in Tasks |->
              IF t \in lost THEN [loaded[t] EXCEPT !.state = "failed"] ELSE loaded[t]]
        /\ store' = memento'
        /\ tasks' = StoredActive \ lost
        /\ \E kept \in SetToSeqs(Stored \ StoredActive), late \in SetToSeqs(lost) :
              history' = Newest(kept \o late)
        /\ downloadBuffer' \in SetToSeqs(In({"pending", "downloading"}))
        /\ renameBuffer' \in SetToSeqs(In({"downloaded"}))
        /\ notificationBuffer' \in SetToSeqs(In({"renamed", "notifying"}))

(* start(): load_all, update_max_retries(configured limit n) and restore,  *)
(* before any stage or request runs.  Rows come in the order of their      *)
(* updated_at, which the model leaves open.                                *)
Restore(n) ==
    LET loaded == [t \in Tasks |->
            IF t \in StoredActive THEN [store[t] EXCEPT !.limit = n] ELSE store[t]]
        lost == {t \in StoredActive : Unrestorable(loaded[t])}
        In(states) == {t \in StoredActive \ lost : store[t].state \in states}
    IN  /\ memento' = [t \in Tasks |->
              IF t \in lost THEN [loaded[t] EXCEPT !.state = "failed"] ELSE loaded[t]]
        /\ store' = memento'
        /\ tasks' = StoredActive \ lost
        /\ \E kept \in SetToSeqs(Stored \ StoredActive), late \in SetToSeqs(lost) :
              history' = Newest(kept \o late)
        /\ downloadBuffer' \in SetToSeqs(In({"pending", "downloading"}))
        /\ renameBuffer' \in SetToSeqs(In({"downloaded", "renaming"}))
        /\ notificationBuffer' \in SetToSeqs(In({"renamed", "notifying"}))

Start ==
    /\ ~up
    /\ up' = TRUE
    /\ \E n \in RetryLimits : maxRetries' = n /\ Restore(n)
    /\ UNCHANGED <<library, intake, workers, ghosts, crashes>>

-----------------------------------------------------------------------------

Init ==
    /\ up = FALSE
    /\ memento = [t \in Tasks |-> None]
    /\ tasks = {}
    /\ history = <<>>
    /\ maxRetries \in RetryLimits
    /\ store = [t \in Tasks |-> None]
    /\ library = {}
    /\ vetted = {}
    /\ reserving = None
    /\ downloadBuffer = <<>>
    /\ renameBuffer = <<>>
    /\ notificationBuffer = <<>>
    /\ job = [w \in Workers |-> None]
    /\ phase = [w \in Workers |-> "idle"]
    /\ origin = [t \in Tasks |-> None]
    /\ withdrawn = {}
    /\ attempts = [t \in Tasks |-> 0]
    /\ crashes = 0

Download(w) ==
    \/ SkipDownload(w) \/ StartDownload(w) \/ CheckpointDownload(w) \/ IgnoreDownload(w)
    \/ FinishDownload(w) \/ HandToRename(w) \/ RetryDownload(w) \/ FailDownload(w)
Rename ==
    SkipRename \/ StartRename \/ FinishRename \/ HandToNotification \/ FailRename
Notify ==
    SkipNotification \/ StartNotification \/ AddRelease \/ CompleteTask \/ FailNotification
Intake ==
    \/ \E r \in Releases : Vet(r) \/ Discard(r) \/ ReserveDownloadTask(r)
    \/ EnqueueReserved
Administer ==
    \/ \E s \in Sources : CancelTasksForSource(s)
    \/ \E t \in Tasks : RetryByHand(t) \/ ArchiveFailed(t)
    \/ \E n \in RetryLimits : UpdateMaxRetries(n)

Next ==
    \/ Intake
    \/ \E w \in DownloadWorkers : Download(w)
    \/ Rename
    \/ Notify
    \/ Administer
    \/ Crash
    \/ Start

Spec == Init /\ [][Next]_vars

(* The event loop runs every coroutine that is ready, each call the        *)
(* rename and notification workers await ends, by returning or by raising, *)
(* and a supervisor starts a dead process.  A call of the downloader need  *)
(* not end: it waits for a download as long as OpenList lists it as        *)
(* running.                                                                *)
Fairness ==
    /\ WF_vars(Start)
    /\ WF_vars(EnqueueReserved)
    /\ \A w \in DownloadWorkers :
        /\ WF_vars(SkipDownload(w) \/ StartDownload(w))
        /\ WF_vars(HandToRename(w))
    /\ WF_vars(Rename)
    /\ WF_vars(Notify)

FairSpec == Spec /\ Fairness

-----------------------------------------------------------------------------
(* Properties.                                                             *)

Phases == {"idle", "downloading", "downloaded", "renaming", "renamed", "recording", "notifying"}

RegistryTypeOK ==
    /\ memento \in [Tasks -> Mementos \cup {None}]
    /\ store \in [Tasks -> Mementos \cup {None}]
    /\ tasks \subseteq Tasks
    /\ history \in Seq(Tasks)

FlowTypeOK ==
    /\ up \in BOOLEAN
    /\ maxRetries \in RetryLimits
    /\ library \subseteq Urls
    /\ vetted \subseteq Releases
    /\ reserving \in Tasks \cup {None}
    /\ downloadBuffer \in Seq(Tasks)
    /\ renameBuffer \in Seq(Tasks)
    /\ notificationBuffer \in Seq(Tasks)
    /\ job \in [Workers -> Tasks \cup {None}]
    /\ phase \in [Workers -> Phases]
    /\ origin \in [Tasks -> Releases \cup {None}]
    /\ withdrawn \subseteq Tasks
    /\ attempts \in [Tasks -> Nat]
    /\ crashes \in 0 .. MaxCrashes

(* Every variable has the values the code can give it.                     *)
TypeOK == RegistryTypeOK /\ FlowTypeOK

(* The tasks somebody will carry on: the coroutine that reserved one, the  *)
(* buffers, the workers.                                                   *)
Queued == ToSet(downloadBuffer) \cup ToSet(renameBuffer) \cup ToSet(notificationBuffer)
Held == {job[w] : w \in Workers} \ {None}
Carried == Queued \cup Held \cup ({reserving} \ {None})

(* No active task is ever stranded: as long as the registry lists it as    *)
(* active, some buffer, worker or submitter will move it on.               *)
NoTaskStranded == tasks \subseteq Carried

(* No task is ever carried twice, so two stages, or two download workers,  *)
(* never run process_item for one task at the same time.                   *)
NoTaskCarriedTwice ==
    /\ IsInjective(downloadBuffer)
    /\ IsInjective(renameBuffer)
    /\ IsInjective(notificationBuffer)
    /\ \A v, w \in Workers : job[v] = job[w] => v = w \/ Idle(v)
    /\ ToSet(downloadBuffer) \cap ToSet(renameBuffer) = {}
    /\ ToSet(downloadBuffer) \cap ToSet(notificationBuffer) = {}
    /\ ToSet(renameBuffer) \cap ToSet(notificationBuffer) = {}
    /\ Queued \cap Held = {}
    /\ reserving \notin Queued \cup Held

(* Each active task is carried by exactly one buffer, worker or submitter. *)
EachTaskCarriedOnce == NoTaskStranded /\ NoTaskCarriedTwice

(* What a crash would leave in the store is exactly what the registry      *)
(* knows: every save reached the disk, no row is left of a finished task,  *)
(* and no active row belongs to a task the process has forgotten.          *)
StoreFollowsRegistry ==
    up => /\ \A t \in Known : store[t] = Row(memento[t])
          /\ StoredActive = tasks

(* Two active tasks never download the same URL, unless a cancellation     *)
(* reached one of them (cancelled tasks are not told to the reservation).  *)
OneActiveTaskPerUrl ==
    \A t, u \in StoredActive \ withdrawn :
        store[t].release.url = store[u].release.url => t = u

(* A worker waits for the downloader with this task, or the task is queued *)
(* for download while every worker does that.                              *)
HeldUp(t) ==
    \/ \E w \in DownloadWorkers : job[w] = t /\ phase[w] = "downloading"
    \/ t \in ToSet(downloadBuffer) /\ \A w \in DownloadWorkers : phase[w] = "downloading"

(* Every accepted task is settled: its row leaves the active states, by    *)
(* completion, failure or cancellation, across crashes and retries.  One   *)
(* that stays active for ever is held up by a call of the downloader that  *)
(* does not end, its own or, for each worker, another task's.              *)
EveryTaskSettles == \A t \in Tasks : <>[](t \in StoredActive) => <>[]HeldUp(t)

(* Seen through its store and library alone the pipeline is a ledger:      *)
(* crashes and restarts change nothing a task was promised.                *)
LedgerStatus == [t \in Tasks |->
    CASE origin[t] = None -> "new"
      [] origin[t] # None /\ store[t] = None -> "over"
      [] origin[t] # None /\ store[t] # None ->
            IF store[t].state = "failed" THEN "failed" ELSE "accepted"]

LedgerUrl == [t \in Tasks |-> IF origin[t] = None THEN None ELSE origin[t].url]

Ledger == INSTANCE DownloadLedger WITH status <- LedgerStatus, urlOf <- LedgerUrl

ImplementsLedger == Ledger!LedgerSpec

(* A cancelled task stays cancelled (message "stopped n associated tasks"). *)
CancelSticks ==
    [][\A t \in Tasks :
        (memento[t] # None /\ StateOf(t) = "cancelled" /\ up')
        => memento'[t].state = "cancelled"]_vars
=============================================================================
