---------------------------- MODULE DownloadService ----------------------------
(***************************************************************************)
(* The Rust backend's downloads: submission, workers, retry, archiving,    *)
(* RSS scans and recovery (rust/src/download_service.rs, storage.rs,       *)
(* task_controls.rs, http.rs, rss_scan.rs).                                *)
(*                                                                         *)
(* A task has two rows in one sqlite file: its memento, which users see,   *)
(* and its operation, the journal of what was asked of OpenList.  Handlers *)
(* and workers run on a multi-threaded runtime, so a step of the model is  *)
(* one database transaction or one answer of OpenList, with the code that  *)
(* follows it up to the next await.  OpenList may carry a call out late,   *)
(* after the caller timed out or the process died.                         *)
(***************************************************************************)
EXTENDS Integers, FiniteSets

CONSTANTS
    Tasks,        \* task ids (Uuid::new_v4), each used at most once
    Urls,         \* download URLs; title and episode stand for the URL
    MaxCrashes,   \* bound: number of crashes
    MaxAbandons,  \* bound: number of HTTP requests whose client goes away
    None

ASSUME TasksAssumption == None \notin Tasks
ASSUME UrlsAssumption == None \notin Urls
ASSUME BoundsAssumption == MaxCrashes \in Nat /\ MaxAbandons \in Nat

(* The workflow checkpoint in the memento's payload, in its order.         *)
StepOrder == <<"init", "submitted", "download_done", "transfer_done",
               "file_detected", "materializing", "moved">>
Steps == {StepOrder[i] : i \in DOMAIN StepOrder}
Rank(s) == CHOOSE i \in DOMAIN StepOrder : StepOrder[i] = s
After(s) == StepOrder[Rank(s) + 1]

Mementos ==
    [state : {"pending", "downloading", "failed"}, step : Steps,
     bound : BOOLEAN,      \* the payload has OpenList's task id
     rejected : BOOLEAN,   \* last_error is an explicit rejection
     archived : BOOLEAN]

Reserving == {"intent", "sending", "uncertain", "submitted"}
Operations ==
    [state : Reserving \cup {"failed", "completed"},
     bound : BOOLEAN,      \* provider_task_id is set
     rejected : BOOLEAN]   \* last_error is an explicit rejection

ASSUME RowsAssumption == None \notin Mementos \cup Operations

VARIABLES
    mode,        \* "down", "recovering" or "serving"
    memento,     \* rows of task_mementos
    operation,   \* rows of rust_download_operations
    library,     \* URLs in the resources table
    worker,      \* worker[t]: the phase of t's worker; "none": not in download_workers
    recovered,   \* tasks recover_submitted_tasks has saved
    submit,      \* submit[t]: how far t's submission is
    by,          \* by[t]: who submits t: "http", "scan", or the task it replaces
    resumed,     \* retry handlers about to start the worker of their task
    resubmits,   \* retry handlers about to submit their task's release anew
    scan,        \* "idle", "looking" or "submitting"
    candidates,  \* entries the running scan has left to submit
    scanned,     \* tasks of the running scan, whose workers it starts at its end
    requests,    \* calls on their way to OpenList
    remote,      \* remote[t]: OpenList's offline download for t; "forgotten": in no
                 \* list; "cleaned": ended long ago, and t's directory is removed
    urlOf,       \* the release of each task ever created
    outcome,     \* history variable: what the process learnt of t's call
    neglected,   \* history variable: tasks a race or a dropped request left alone
    crashes, abandons

rows == <<memento, operation>>
handlers == <<submit, by, resumed, resubmits>>
scanner == <<scan, candidates, scanned>>
provider == <<requests, remote>>
ghosts == <<outcome, neglected>>
counters == <<crashes, abandons>>
vars == <<mode, rows, library, worker, recovered, handlers, scanner, provider, urlOf,
          ghosts, counters>>

-----------------------------------------------------------------------------
Created == {t \in Tasks : urlOf[t] # None}
SameUrl(t) == {u \in Created \ {t} : urlOf[u] = urlOf[t]}

Reserves(t) == operation[t] # None /\ operation[t].state \in Reserving
MementoIn(t, states) == memento[t] # None /\ memento[t].state \in states
OperationIn(t, states) == operation[t] # None /\ operation[t].state \in states

SaveMemento(t, m) == memento' = [memento EXCEPT ![t] = m]
SaveOperation(t, o) == operation' = [operation EXCEPT ![t] = o]

(* start_download_worker: nothing, for a task in the active set.           *)
StartWorkers(S) ==
    worker' = [t \in Tasks |->
                 IF t \in S /\ worker[t] = "none" THEN "working" ELSE worker[t]]

-----------------------------------------------------------------------------
(* Submitting a release.                                                   *)

(* reserve_submission: the memento and the intent in one transaction.      *)
Reserve(t, u, who) ==
    /\ mode = "serving"
    /\ t \notin Created
    /\ ~\E v \in Created : urlOf[v] = u /\ Reserves(v)
    /\ SaveMemento(t, [state |-> "pending", step |-> "init", bound |-> FALSE,
                       rejected |-> FALSE, archived |-> FALSE])
    /\ SaveOperation(t, [state |-> "intent", bound |-> FALSE, rejected |-> FALSE])
    /\ submit' = [submit EXCEPT ![t] = "reserved"]
    /\ by' = [by EXCEPT ![t] = who]
    /\ urlOf' = [urlOf EXCEPT ![t] = u]

CreateDownload(t, u) ==
    /\ Reserve(t, u, "http")
    /\ UNCHANGED <<mode, library, worker, recovered, resumed, resubmits, scanner, provider,
                   ghosts, counters>>

(* begin_submission, and the call that follows it.                         *)
Begin(t) ==
    /\ submit[t] = "reserved"
    /\ SaveOperation(t, [operation[t] EXCEPT !.state = "sending"])
    /\ requests' = requests \cup {t}
    /\ submit' = [submit EXCEPT ![t] = "calling"]
    /\ outcome' = [outcome EXCEPT ![t] = "unknown"]
    /\ UNCHANGED <<mode, memento, library, worker, recovered, by, resumed, resubmits,
                   scanner, remote, urlOf, neglected, counters>>

Answered(t) ==
    /\ submit[t] = "calling"
    /\ remote[t] # "none"
    /\ submit' = [submit EXCEPT ![t] = "answered"]
    /\ outcome' = [outcome EXCEPT ![t] = "accepted"]
    /\ UNCHANGED <<mode, rows, library, worker, recovered, by, resumed, resubmits, scanner,
                   provider, urlOf, neglected, counters>>

Refused(t) ==
    /\ submit[t] = "calling"
    /\ t \in requests
    /\ requests' = requests \ {t}
    /\ submit' = [submit EXCEPT ![t] = "refused"]
    /\ outcome' = [outcome EXCEPT ![t] = "rejected"]
    /\ UNCHANGED <<mode, rows, library, worker, recovered, by, resumed, resubmits, scanner,
                   remote, urlOf, neglected, counters>>

(* A timeout, an unreadable answer, or one without a task id.              *)
Unanswered(t) ==
    /\ submit[t] = "calling"
    /\ submit' = [submit EXCEPT ![t] = "unanswered"]
    /\ UNCHANGED <<mode, rows, library, worker, recovered, by, resumed, resubmits, scanner,
                   provider, urlOf, ghosts, counters>>

(* Mutant: the provider's task id is not stored.                           *)
AcceptUnbound(t) ==
    /\ submit[t] = "answered"
    /\ SaveOperation(t, [operation[t] EXCEPT !.state = "submitted"])
    /\ submit' = [submit EXCEPT ![t] = "accepted"]
    /\ UNCHANGED <<mode, memento, library, worker, recovered, by, resumed, resubmits,
                   scanner, provider, urlOf, ghosts, counters>>

(* mark_submission_accepted.                                               *)
Accept(t) ==
    /\ submit[t] = "answered"
    /\ SaveOperation(t, [operation[t] EXCEPT !.state = "submitted", !.bound = TRUE])
    /\ submit' = [submit EXCEPT ![t] = "accepted"]
    /\ UNCHANGED <<mode, memento, library, worker, recovered, by, resumed, resubmits,
                   scanner, provider, urlOf, ghosts, counters>>

(* The memento follows.  A scan goes on to its next candidate; a retry     *)
(* still has its old task to archive.                                      *)
AcceptSave(t) ==
    /\ submit[t] = "accepted"
    /\ SaveMemento(t, [memento[t] EXCEPT !.state = "downloading", !.step = "submitted",
                                         !.bound = TRUE])
    /\ IF by[t] = "scan"
       THEN /\ scanned' = scanned \cup {t}
            /\ submit' = [submit EXCEPT ![t] = "none"]
       ELSE /\ submit' = [submit EXCEPT ![t] = "saved"]
            /\ UNCHANGED scanned
    /\ UNCHANGED <<mode, operation, library, worker, recovered, by, resumed, resubmits, scan,
                   candidates, provider, urlOf, ghosts, counters>>

ArchiveReplaced(t) ==
    /\ submit[t] = "saved"
    /\ by[t] \in Tasks
    /\ IF MementoIn(by[t], {"failed"})
       THEN SaveMemento(by[t], [memento[by[t]] EXCEPT !.archived = TRUE])
       ELSE UNCHANGED memento
    /\ by' = [by EXCEPT ![t] = "http"]
    /\ UNCHANGED <<mode, operation, library, worker, recovered, submit, resumed, resubmits,
                   scanner, provider, urlOf, ghosts, counters>>

HandOver(t) ==
    /\ submit[t] = "saved"
    /\ by[t] = "http"
    /\ StartWorkers({t})
    /\ submit' = [submit EXCEPT ![t] = "none"]
    /\ UNCHANGED <<mode, rows, library, recovered, by, resumed, resubmits, scanner, provider,
                   urlOf, ghosts, counters>>

(* fail_submission: first the memento, then the operation.                 *)
RefusedSave(t) ==
    /\ submit[t] = "refused"
    /\ SaveMemento(t, [memento[t] EXCEPT !.state = "failed", !.rejected = TRUE])
    /\ submit' = [submit EXCEPT ![t] = "releasing"]
    /\ UNCHANGED <<mode, operation, library, worker, recovered, by, resumed, resubmits,
                   scanner, provider, urlOf, ghosts, counters>>

RefusedRelease(t) ==
    /\ submit[t] = "releasing"
    /\ SaveOperation(t, [operation[t] EXCEPT !.state = "failed", !.rejected = TRUE])
    /\ submit' = [submit EXCEPT ![t] = "none"]
    /\ UNCHANGED <<mode, memento, library, worker, recovered, by, resumed, resubmits,
                   scanner, provider, urlOf, ghosts, counters>>

(* mark_submission_uncertain: first the operation, then the memento.       *)
Doubt(t) ==
    /\ submit[t] = "unanswered"
    /\ SaveOperation(t, [operation[t] EXCEPT !.state = "uncertain"])
    /\ submit' = [submit EXCEPT ![t] = "doubting"]
    /\ UNCHANGED <<mode, memento, library, worker, recovered, by, resumed, resubmits,
                   scanner, provider, urlOf, ghosts, counters>>

DoubtSave(t) ==
    /\ submit[t] = "doubting"
    /\ SaveMemento(t, [memento[t] EXCEPT !.state = "failed"])
    /\ submit' = [submit EXCEPT ![t] = "none"]
    /\ UNCHANGED <<mode, operation, library, worker, recovered, by, resumed, resubmits,
                   scanner, provider, urlOf, ghosts, counters>>

-----------------------------------------------------------------------------
(* The worker of a submitted task.                                         *)

(* The next checkpoint.  Errors the worker retries leave everything as it  *)
(* is: the wait for a download OpenList no longer lists among them, and    *)
(* the listing of a directory that has been removed.                       *)
Advance(t) ==
    /\ worker[t] = "working"
    /\ MementoIn(t, {"downloading"})
    /\ memento[t].step # "moved"
    /\ memento[t].step \in {"init", "submitted"} => remote[t] = "succeeded"
    /\ memento[t].step = "materializing" => remote[t] # "cleaned"
    /\ SaveMemento(t, [memento[t] EXCEPT !.step =
                          IF @ = "init" THEN "download_done" ELSE After(@)])
    /\ UNCHANGED <<mode, operation, library, worker, recovered, handlers, scanner, provider,
                   urlOf, ghosts, counters>>

(* fail_task: first the memento, then the operation.                       *)
Fail(t) ==
    /\ worker[t] = "working"
    /\ MementoIn(t, {"downloading"})
    /\ memento[t].step # "moved"
    /\ memento[t].step \in {"init", "submitted"} => remote[t] = "failed"
    /\ memento[t].step = "materializing" => remote[t] # "cleaned"
    /\ SaveMemento(t, [memento[t] EXCEPT !.state = "failed"])
    /\ worker' = [worker EXCEPT ![t] = "failing"]
    /\ UNCHANGED <<mode, operation, library, recovered, handlers, scanner, provider, urlOf,
                   ghosts, counters>>

(* The file is moved and the task's directory removed, but the checkpoint  *)
(* that says so is not saved: an error of the store, or the crash that may *)
(* follow.                                                                 *)
CleanedUnsaved(t) ==
    /\ worker[t] = "working"
    /\ MementoIn(t, {"downloading"})
    /\ memento[t].step = "materializing"
    /\ remote[t] # "cleaned"
    /\ remote' = [remote EXCEPT ![t] = "cleaned"]
    /\ UNCHANGED <<mode, rows, library, worker, recovered, handlers, scanner, requests,
                   urlOf, ghosts, counters>>

FailRelease(t) ==
    /\ worker[t] = "failing"
    /\ IF OperationIn(t, {"sending", "submitted"})
       THEN SaveOperation(t, [operation[t] EXCEPT !.state = "failed", !.rejected = FALSE])
       ELSE UNCHANGED operation
    /\ worker' = [worker EXCEPT ![t] = "leaving"]
    /\ UNCHANGED <<mode, memento, library, recovered, handlers, scanner, provider, urlOf,
                   ghosts, counters>>

CommitResource(t) ==
    /\ worker[t] = "working"
    /\ MementoIn(t, {"downloading"})
    /\ memento[t].step = "moved"
    /\ library' = library \cup {urlOf[t]}
    /\ worker' = [worker EXCEPT ![t] = "committed"]
    /\ UNCHANGED <<mode, rows, recovered, handlers, scanner, provider, urlOf, ghosts,
                   counters>>

(* mark_submission_completed; without its operation the worker retries.    *)
Complete(t) ==
    /\ worker[t] = "committed"
    /\ IF OperationIn(t, {"submitted", "completed"})
       THEN /\ SaveOperation(t, [operation[t] EXCEPT !.state = "completed"])
            /\ SaveMemento(t, None)
            /\ worker' = [worker EXCEPT ![t] = "leaving"]
       ELSE /\ worker' = [worker EXCEPT ![t] = "working"]
            /\ UNCHANGED rows
    /\ UNCHANGED <<mode, library, recovered, handlers, scanner, provider, urlOf, ghosts,
                   counters>>

(* The spawned task takes its id out of the active set.                    *)
Leave(t) ==
    /\ worker[t] = "leaving"
    /\ worker' = [worker EXCEPT ![t] = "none"]
    /\ UNCHANGED <<mode, rows, library, recovered, handlers, scanner, provider, urlOf,
                   ghosts, counters>>

-----------------------------------------------------------------------------
(* Retrying and archiving failed tasks (task_controls.rs).                 *)

Bound(t) == memento[t].bound \/ (operation[t] # None /\ operation[t].bound)

(* Mutant: only tasks still pending count as duplicates.                   *)
DuplicatePending(t) == \E u \in SameUrl(t) : MementoIn(u, {"pending"})

Duplicate(t) ==
    \E u \in SameUrl(t) : Reserves(u) \/ MementoIn(u, {"pending", "downloading"})

(* retry_failed_task resumes a task OpenList is known to have accepted.    *)
Resume(t) ==
    /\ mode = "serving"
    /\ MementoIn(t, {"failed"})
    /\ ~Duplicate(t)
    /\ Bound(t)
    /\ ~OperationIn(t, {"completed"})
    /\ SaveMemento(t, [memento[t] EXCEPT !.state = "downloading", !.bound = TRUE,
                          !.step = IF @ = "init" THEN "submitted" ELSE @,
                          !.rejected = FALSE, !.archived = FALSE])
    /\ SaveOperation(t, [state |-> "submitted", bound |-> TRUE, rejected |-> FALSE])
    /\ resumed' = resumed \cup {t}
    /\ neglected' = IF worker[t] = "none" THEN neglected ELSE neglected \cup {t}
    /\ UNCHANGED <<mode, library, worker, recovered, submit, by, resubmits, scanner,
                   provider, urlOf, outcome, counters>>

StartResumed(t) ==
    /\ t \in resumed
    /\ StartWorkers({t})
    /\ resumed' = resumed \ {t}
    /\ UNCHANGED <<mode, rows, library, recovered, submit, by, resubmits, scanner, provider,
                   urlOf, ghosts, counters>>

(* ... and releases one that OpenList is known to have refused.            *)
Rejected(t) ==
    IF operation[t] = None THEN memento[t].rejected
    ELSE operation[t].state = "failed" /\ operation[t].rejected

ReleaseRejected(t) ==
    /\ mode = "serving"
    /\ MementoIn(t, {"failed"})
    /\ t \notin resubmits
    /\ ~Duplicate(t)
    /\ ~Bound(t)
    /\ Rejected(t)
    /\ memento[t].step = "init"
    /\ SaveOperation(t, None)
    /\ resubmits' = resubmits \cup {t}
    /\ UNCHANGED <<mode, memento, library, worker, recovered, submit, by, resumed, scanner,
                   provider, urlOf, ghosts, counters>>

(* The handler submits the release again, as a new task.                   *)
Resubmit(old, t) ==
    /\ old \in resubmits
    /\ Reserve(t, urlOf[old], old)
    /\ resubmits' = resubmits \ {old}
    /\ UNCHANGED <<mode, library, worker, recovered, resumed, scanner, provider, ghosts,
                   counters>>

(* ... unless somebody else has reserved the URL meanwhile.                *)
ResubmitRefused(old) ==
    /\ old \in resubmits
    /\ \E u \in Created : urlOf[u] = urlOf[old] /\ Reserves(u)
    /\ resubmits' = resubmits \ {old}
    /\ UNCHANGED <<mode, rows, library, worker, recovered, submit, by, resumed, scanner,
                   provider, urlOf, ghosts, counters>>

Archive(t) ==
    /\ mode = "serving"
    /\ MementoIn(t, {"failed"})
    /\ SaveMemento(t, [memento[t] EXCEPT !.archived = TRUE])
    /\ UNCHANGED <<mode, operation, library, worker, recovered, handlers, scanner, provider,
                   urlOf, ghosts, counters>>

-----------------------------------------------------------------------------
(* RSS scans, one at a time under rss_scan_lock.                           *)

(* Entries that are not in the library, then those without a failed or     *)
(* active task: two reads, made once for the whole scan.                   *)
ScanLibrary ==
    /\ mode = "serving"
    /\ scan = "idle"
    /\ scan' = "looking"
    /\ candidates' = Urls \ library
    /\ UNCHANGED <<mode, rows, library, worker, recovered, handlers, scanned, provider,
                   urlOf, ghosts, counters>>

ScanTasks ==
    /\ scan = "looking"
    /\ scan' = "submitting"
    /\ candidates' = {u \in candidates : ~\E t \in Created : urlOf[t] = u /\ memento[t] # None}
    /\ UNCHANGED <<mode, rows, library, worker, recovered, handlers, scanned, provider,
                   urlOf, ghosts, counters>>

Scanning == \E t \in Created : by[t] = "scan" /\ submit[t] # "none"

ScanSubmit(t, u) ==
    /\ scan = "submitting"
    /\ ~Scanning
    /\ u \in candidates
    /\ candidates' = candidates \ {u}
    /\ Reserve(t, u, "scan")
    /\ UNCHANGED <<mode, library, worker, recovered, resumed, resubmits, scan, scanned,
                   provider, ghosts, counters>>

(* A duplicate, or an entry whose metadata or torrent is unusable.         *)
ScanSkip(u) ==
    /\ scan = "submitting"
    /\ ~Scanning
    /\ u \in candidates
    /\ candidates' = candidates \ {u}
    /\ UNCHANGED <<mode, rows, library, worker, recovered, handlers, scan, scanned, provider,
                   urlOf, ghosts, counters>>

(* Mutant: the report is returned and no worker started.                   *)
ScanEndIdly ==
    /\ scan = "submitting"
    /\ ~Scanning
    /\ candidates = {}
    /\ scan' = "idle"
    /\ scanned' = {}
    /\ UNCHANGED <<mode, rows, library, worker, recovered, handlers, candidates, provider,
                   urlOf, ghosts, counters>>

ScanEnd ==
    /\ scan = "submitting"
    /\ ~Scanning
    /\ candidates = {}
    /\ scan' = "idle"
    /\ StartWorkers(scanned)
    /\ scanned' = {}
    /\ UNCHANGED <<mode, rows, library, recovered, handlers, candidates, provider, urlOf,
                   ghosts, counters>>

-----------------------------------------------------------------------------
(* OpenList.                                                               *)

RemoteCreate(t) ==
    /\ t \in requests
    /\ requests' = requests \ {t}
    /\ remote' = [remote EXCEPT ![t] = "running"]
    /\ UNCHANGED <<mode, rows, library, worker, recovered, handlers, scanner, urlOf, ghosts,
                   counters>>

RequestLost(t) ==
    /\ t \in requests
    /\ requests' = requests \ {t}
    /\ UNCHANGED <<mode, rows, library, worker, recovered, handlers, scanner, remote, urlOf,
                   ghosts, counters>>

RemoteEnd(t) ==
    /\ remote[t] = "running"
    /\ \E end \in {"succeeded", "failed"} : remote' = [remote EXCEPT ![t] = end]
    /\ UNCHANGED <<mode, rows, library, worker, recovered, handlers, scanner, requests,
                   urlOf, ghosts, counters>>

(* OpenList was restarted, or its list of tasks cleared.                   *)
Forget(t) ==
    /\ remote[t] \in {"running", "succeeded", "failed"}
    /\ remote' = [remote EXCEPT ![t] = "forgotten"]
    /\ UNCHANGED <<mode, rows, library, worker, recovered, handlers, scanner, requests,
                   urlOf, ghosts, counters>>

-----------------------------------------------------------------------------
(* The process.                                                            *)

Crash ==
    /\ mode # "down"
    /\ crashes < MaxCrashes
    /\ crashes' = crashes + 1
    /\ mode' = "down"
    /\ worker' = [t \in Tasks |-> "none"]
    /\ submit' = [t \in Tasks |-> "none"]
    /\ by' = [t \in Tasks |-> "http"]
    /\ resumed' = {}
    /\ resubmits' = {}
    /\ scan' = "idle"
    /\ candidates' = {}
    /\ scanned' = {}
    /\ UNCHANGED <<rows, library, recovered, provider, urlOf, ghosts, abandons>>

(* Mutant: an interrupted call counts as failed and frees its URL.         *)
BootReleasing ==
    /\ mode = "down"
    /\ mode' = "recovering"
    /\ operation' = [t \in Tasks |->
         IF OperationIn(t, {"sending"}) THEN [operation[t] EXCEPT !.state = "failed"]
         ELSE operation[t]]
    /\ recovered' = {}
    /\ UNCHANGED <<memento, library, worker, handlers, scanner, provider, urlOf, ghosts,
                   counters>>

(* recover_interrupted_submissions.                                        *)
Boot ==
    /\ mode = "down"
    /\ mode' = "recovering"
    /\ operation' = [t \in Tasks |->
         IF OperationIn(t, {"sending"}) THEN [operation[t] EXCEPT !.state = "uncertain"]
         ELSE operation[t]]
    /\ recovered' = {}
    /\ UNCHANGED <<memento, library, worker, handlers, scanner, provider, urlOf, ghosts,
                   counters>>

Resumable ==
    {t \in Created : OperationIn(t, {"submitted"}) /\ MementoIn(t, {"pending", "downloading"})}

(* recover_submitted_tasks saves them one by one.                          *)
Recover(t) ==
    /\ mode = "recovering"
    /\ t \in Resumable \ recovered
    /\ SaveMemento(t, [memento[t] EXCEPT !.state = "downloading", !.bound = TRUE,
                          !.step = IF @ = "init" THEN "submitted" ELSE @])
    /\ recovered' = recovered \cup {t}
    /\ UNCHANGED <<mode, operation, library, worker, handlers, scanner, provider, urlOf,
                   ghosts, counters>>

(* Mutant: the recovered ids are dropped.                                  *)
ServeIdly ==
    /\ mode = "recovering"
    /\ Resumable \subseteq recovered
    /\ mode' = "serving"
    /\ neglected' = neglected \ recovered
    /\ recovered' = {}
    /\ UNCHANGED <<rows, library, worker, handlers, scanner, provider, urlOf,
                   outcome, counters>>

Serve ==
    /\ mode = "recovering"
    /\ Resumable \subseteq recovered
    /\ mode' = "serving"
    /\ StartWorkers(recovered)
    /\ neglected' = neglected \ recovered
    /\ recovered' = {}
    /\ UNCHANGED <<rows, library, handlers, scanner, provider, urlOf, outcome, counters>>

(* The client closes its connection and the server drops the handler at    *)
(* the await it is in.                                                     *)
Abandon(t) ==
    /\ abandons < MaxAbandons
    /\ abandons' = abandons + 1
    /\ \/ /\ submit[t] # "none"
          /\ by[t] # "scan"
          /\ submit' = [submit EXCEPT ![t] = "none"]
          /\ neglected' = neglected \cup {t}
          /\ UNCHANGED <<resumed, resubmits>>
       \/ /\ t \in resumed
          /\ resumed' = resumed \ {t}
          /\ neglected' = neglected \cup {t}
          /\ UNCHANGED <<submit, resubmits>>
       \/ /\ t \in resubmits
          /\ resubmits' = resubmits \ {t}
          /\ UNCHANGED <<submit, resumed, neglected>>
    /\ UNCHANGED <<mode, rows, library, worker, recovered, by, scanner, provider, urlOf,
                   outcome, crashes>>

(* The same of a scan that the UI asked for.                               *)
AbandonScan ==
    /\ abandons < MaxAbandons
    /\ scan # "idle"
    /\ LET dropped == {t \in Created : by[t] = "scan" /\ submit[t] # "none"} IN
       /\ abandons' = abandons + 1
       /\ scan' = "idle"
       /\ candidates' = {}
       /\ scanned' = {}
       /\ submit' = [t \in Tasks |-> IF t \in dropped THEN "none" ELSE submit[t]]
       /\ neglected' = neglected \cup scanned \cup dropped
    /\ UNCHANGED <<mode, rows, library, worker, recovered, by, resumed, resubmits, provider,
                   urlOf, outcome, crashes>>

-----------------------------------------------------------------------------

Init ==
    /\ mode = "down"
    /\ memento = [t \in Tasks |-> None]
    /\ operation = [t \in Tasks |-> None]
    /\ library = {}
    /\ worker = [t \in Tasks |-> "none"]
    /\ recovered = {}
    /\ submit = [t \in Tasks |-> "none"]
    /\ by = [t \in Tasks |-> "http"]
    /\ resumed = {}
    /\ resubmits = {}
    /\ scan = "idle"
    /\ candidates = {}
    /\ scanned = {}
    /\ requests = {}
    /\ remote = [t \in Tasks |-> "none"]
    /\ urlOf = [t \in Tasks |-> None]
    /\ outcome = [t \in Tasks |-> "none"]
    /\ neglected = {}
    /\ crashes = 0
    /\ abandons = 0

Submission(t) ==
    \/ Begin(t) \/ Answered(t) \/ Refused(t) \/ Unanswered(t)
    \/ Accept(t) \/ AcceptSave(t) \/ ArchiveReplaced(t) \/ HandOver(t)
    \/ RefusedSave(t) \/ RefusedRelease(t) \/ Doubt(t) \/ DoubtSave(t)
Work(t) ==
    \/ Advance(t) \/ Fail(t) \/ FailRelease(t)
    \/ CommitResource(t) \/ Complete(t) \/ Leave(t)
Control(t) ==
    \/ Resume(t) \/ StartResumed(t) \/ ReleaseRejected(t) \/ ResubmitRefused(t)
    \/ Archive(t) \/ Abandon(t)
    \/ \E new \in Tasks : Resubmit(t, new)
Scan ==
    \/ ScanLibrary \/ ScanTasks \/ ScanEnd
    \/ \E u \in Urls : ScanSkip(u) \/ \E t \in Tasks : ScanSubmit(t, u)
OpenList(t) ==
    RemoteCreate(t) \/ RequestLost(t) \/ RemoteEnd(t) \/ Forget(t) \/ CleanedUnsaved(t)
Process == Crash \/ AbandonScan \/ Boot \/ Serve \/ \E t \in Tasks : Recover(t)

Next ==
    \/ \E t \in Tasks, u \in Urls : CreateDownload(t, u)
    \/ \E t \in Tasks : Submission(t) \/ Work(t) \/ Control(t) \/ OpenList(t)
    \/ Scan
    \/ Process

Spec == Init /\ [][Next]_vars

(* At "download_done" the worker waits for the transfer.                   *)
AwaitsTransfer(t) ==
    worker[t] = "working" /\ MementoIn(t, {"downloading"}) /\ memento[t].step = "download_done"

(* The runtime polls every task that is ready, sqlite answers, requests to *)
(* OpenList time out and are answered sometime, and a supervisor starts a  *)
(* dead process.  Nothing says that OpenList ends a download or a transfer *)
(* it has begun: the worker waits for both without a watchdog.             *)
Fairness ==
    /\ WF_vars(Boot) /\ WF_vars(Serve)
    /\ WF_vars(Scan)
    /\ \A t \in Tasks :
        /\ WF_vars(Recover(t))
        /\ WF_vars(Submission(t))
        /\ WF_vars(Work(t) /\ ~AwaitsTransfer(t))
        /\ WF_vars(StartResumed(t))

FairSpec == Spec /\ Fairness

-----------------------------------------------------------------------------
(* Properties.                                                             *)

TypeOK ==
    /\ mode \in {"down", "recovering", "serving"}
    /\ memento \in [Tasks -> Mementos \cup {None}]
    /\ operation \in [Tasks -> Operations \cup {None}]
    /\ library \subseteq Urls
    /\ worker \in [Tasks -> {"none", "working", "failing", "committed", "leaving"}]
    /\ recovered \subseteq Tasks
    /\ submit \in [Tasks -> {"none", "reserved", "calling", "answered", "refused",
                             "unanswered", "accepted", "saved", "releasing", "doubting"}]
    /\ by \in [Tasks -> {"http", "scan"} \cup Tasks]
    /\ resumed \subseteq Tasks
    /\ resubmits \subseteq Tasks
    /\ scan \in {"idle", "looking", "submitting"}
    /\ candidates \subseteq Urls
    /\ scanned \subseteq Tasks
    /\ requests \subseteq Tasks
    /\ remote \in [Tasks -> {"none", "running", "succeeded", "failed", "forgotten",
                             "cleaned"}]
    /\ urlOf \in [Tasks -> Urls \cup {None}]
    /\ outcome \in [Tasks -> {"none", "unknown", "accepted", "rejected"}]
    /\ neglected \subseteq Tasks
    /\ crashes \in 0 .. MaxCrashes
    /\ abandons \in 0 .. MaxAbandons

(* The two rows of a task agree, whatever transaction the process stops    *)
(* after: an active memento has its reservation, a claimed download is     *)
(* shown as running or failed, and a finished one is in the library.       *)
RowsAgree ==
    \A t \in Created \ neglected :
        /\ MementoIn(t, {"pending"}) =>
              OperationIn(t, Reserving) /\ ~memento[t].bound
        /\ MementoIn(t, {"downloading"}) =>
              OperationIn(t, {"submitted"}) /\ memento[t].bound /\ operation[t].bound
        /\ memento[t] = None =>
              OperationIn(t, {"completed"}) /\ urlOf[t] \in library

(* Two tasks never download the same URL at the same time.                 *)
OneDownloadPerUrl ==
    \A t \in Created \ neglected : \A u \in SameUrl(t) \ neglected :
        ~(MementoIn(t, {"downloading"}) /\ MementoIn(u, {"downloading"}))

(* While the service serves, a task OpenList has accepted is on somebody's *)
(* hands: a worker, or the handler or scan that will start one.            *)
Attended(t) ==
    \/ worker[t] \in {"working", "committed"}
    \/ submit[t] # "none"
    \/ t \in resumed \cup scanned

EveryDownloadAttended ==
    mode = "serving" => \A t \in Resumable \ neglected : Attended(t)

(* "Uncertain submissions require reconciliation rather than automatic     *)
(* resubmission": the journal implements UrlClaims.                        *)
Holder == [u \in Urls |->
    IF \E t \in Created : urlOf[t] = u /\ Reserves(t)
    THEN CHOOSE t \in Created : urlOf[t] = u /\ Reserves(t)
    ELSE None]

Claims == INSTANCE UrlClaims WITH holder <- Holder

ImplementsClaims == Claims!ClaimSpec

(* A task shown as downloading comes to an end, in the library or as a     *)
(* failed task, through crashes, retries and dropped requests.  It stays   *)
(* so for ever only if it was left alone, if OpenList runs its download or *)
(* its transfer for ever or has forgotten the download before it was seen  *)
(* to end, or if its directory was removed and that was not saved.         *)
StuckAtOpenList(t) ==
    /\ worker[t] = "working"
    /\ MementoIn(t, {"downloading"})
    /\ \/ /\ memento[t].step \in {"init", "submitted"}
          /\ remote[t] \in {"running", "forgotten"}
       \/ AwaitsTransfer(t)
       \/ memento[t].step = "materializing" /\ remote[t] = "cleaned"

EveryDownloadEnds ==
    \A t \in Tasks : <>[]MementoIn(t, {"downloading"}) =>
        <>[](t \in neglected \/ StuckAtOpenList(t))

(* "Start the existing task's worker": a resumed task is worked on.        *)
ResumedIsAttended ==
    mode = "serving" => \A t \in Resumable : Attended(t)

===============================================================================
