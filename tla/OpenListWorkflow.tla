---------------------------- MODULE OpenListWorkflow ----------------------------
(***************************************************************************)
(* One download of the Python program against OpenList: the checkpointed   *)
(* workflow (adapters/outbound/downloaders/openlist), the retry loop of    *)
(* the download stage around it, the rename that follows, and the list     *)
(* snapshots all workflows share.  The other tasks are part of the         *)
(* environment: they take and leave names in the target directory and fill *)
(* the snapshot cache.                                                     *)
(*                                                                         *)
(* A step is what happens between two requests to OpenList.  A request     *)
(* that changes something is carried out in one step and answered in the   *)
(* next; a failure or a crash in between loses the answer.                 *)
(***************************************************************************)
EXTENDS Integers, FiniteSets, FiniteSetsExt

CONSTANTS
    MaxSubmissions,   \* bound: offline downloads OpenList creates for the task
    MaxCrashes,       \* bound: crashes of the process
    MaxRetries,       \* RetryMemento.max_retries
    MaxSuffix         \* names are the file's own, 0, and "name (i)" up to here

ASSUME WorkflowAssumption ==
    /\ MaxSubmissions \in Nat \ {0} /\ MaxCrashes \in Nat
    /\ MaxRetries \in Nat /\ MaxSuffix \in Nat

NoName == -1
Final == -2      \* the name the release gets from the rename stage
Suffixes == 0 .. MaxSuffix
Remotes == 1 .. MaxSubmissions

(* A task that has not asked OpenList for anything.                        *)
Fresh == [step |-> "init", id |-> 0, downloaded |-> NoName, resolved |-> NoName]

VARIABLES
    status,      \* of the memento
    saved,       \* the payload of the last checkpoint
    path,        \* output_path: the name the memento records
    retries,     \* retry_count
    task,        \* the payload the running attempt works on
    phase,       \* "idle", "step", or the request that awaits its answer
    misses,      \* not_found_count of the running wait
    download,    \* OpenList's offline downloads for the task, by id
    transfer,    \* their transfers; names contain the task's id, not OpenList's
    temp,        \* files in the task's temporary directory
    mine,        \* its files in the target directory
    keeps,       \* the final name, decided with the record, is the file's own
    cached,      \* snapshot of the done list, while the task has a use for it
    fetching,    \* another workflow's request for that list
    generation,  \* of the cache
    givenUp,     \* history variable: a download or transfer was given up
    crashes

memento == <<status, saved, path, retries>>
attempt == <<task, phase, misses>>
lists == <<download, transfer>>
files == <<temp, mine, keeps>>
cache == <<cached, fetching, generation>>

vars == <<memento, attempt, lists, files, cache, givenUp, crashes>>

Created == {n \in Remotes : download[n] # "none"}
At(step) == phase = "step" /\ task.step = step

-----------------------------------------------------------------------------
(* The loop of the workflow and of the stage around it.                    *)

(* (An attempt that would exceed MaxSubmissions is not begun.)             *)
Begin ==
    /\ status = "queued"
    /\ saved.id # 0 \/ Created # Remotes
    /\ status' = "active"
    /\ task' = saved
    /\ phase' = "step"
    /\ misses' = 0
    /\ UNCHANGED <<saved, path, retries, lists, files, cache, givenUp, crashes>>

(* _checkpoint: the payload reaches the memento and the store.             *)
Checkpoint(payload) ==
    /\ task' = payload
    /\ saved' = payload
    /\ phase' = "step"
    /\ misses' = 0
    /\ UNCHANGED <<status, path, retries>>

Advance(step) == Checkpoint([task EXCEPT !.step = step])

(* _retry_or_mark_failed, with the payload the next attempt starts from.   *)
RetryOrFail(payload) ==
    /\ IF retries < MaxRetries
       THEN status' = "queued" /\ retries' = retries + 1
       ELSE status' = "failed" /\ UNCHANGED retries
    /\ saved' = payload
    /\ task' = payload
    /\ phase' = "idle"
    /\ misses' = 0
    /\ UNCHANGED path

(* Mutant: a failed attempt starts over.                                   *)
EndAttemptAfresh == RetryOrFail(Fresh) /\ UNCHANGED <<lists, files, cache, givenUp, crashes>>

(* Mutant: the temporary directory goes with every failed attempt.         *)
EndAttemptCleaning ==
    /\ RetryOrFail(saved)
    /\ temp' = {}
    /\ UNCHANGED <<lists, mine, keeps, cache, givenUp, crashes>>

(* An error ends the attempt; what it did since the last checkpoint is     *)
(* forgotten.                                                              *)
EndAttempt == RetryOrFail(saved) /\ UNCHANGED <<lists, files, cache, givenUp, crashes>>

(* A request that fails for good, or one whose answer is lost.             *)
RequestFails ==
    /\ phase \in {"step", "submitting", "renaming_temp", "moving"}
    /\ task.step \notin {"moved", "done"}
    /\ EndAttempt

(* Mutant: a stalled transfer is waited for.                               *)
RemoteTaskFailedUnlessRunning ==
    /\ \A n \in Remotes : transfer[n] # "running"
    /\ phase' = "cleaning"
    /\ givenUp' = TRUE
    /\ UNCHANGED <<memento, task, misses, lists, files, crashes>>

(* OpenListRemoteTaskFailed: the temporary directory goes, then the        *)
(* binding, then the stage retries.                                        *)
RemoteTaskFailed ==
    /\ phase' = "cleaning"
    /\ givenUp' = TRUE
    /\ UNCHANGED <<memento, task, misses, lists, files, crashes>>

CleanUp ==
    /\ phase = "cleaning"
    /\ temp' \in {temp, {}}
    /\ phase' = "unbinding"
    /\ UNCHANGED <<memento, task, misses, lists, mine, keeps, cache, givenUp, crashes>>

Unbind ==
    /\ phase = "unbinding"
    /\ RetryOrFail(Fresh)
    /\ UNCHANGED <<lists, files, cache, givenUp, crashes>>

-----------------------------------------------------------------------------
(* _submit_download.  The client repeats a request whose answer is lost,   *)
(* so one call may create several downloads.                               *)
Submit ==
    /\ At("init") \/ phase = "submitting"
    /\ Created # Remotes
    /\ download' = [download EXCEPT ![Cardinality(Created) + 1] = "running"]
    /\ phase' = "submitting"
    /\ UNCHANGED <<memento, task, misses, transfer, files, cache, givenUp, crashes>>

SubmitRefused == At("init") /\ EndAttempt

(* Mutant: requests in flight may still fill the cache.                    *)
SubmittedQuietly ==
    /\ phase = "submitting"
    /\ Checkpoint([task EXCEPT !.step = "submitted", !.id = Cardinality(Created)])
    /\ cached' = {}
    /\ UNCHANGED <<fetching, generation, lists, files, givenUp, crashes>>

Submitted ==
    /\ phase = "submitting"
    /\ Checkpoint([task EXCEPT !.step = "submitted", !.id = Cardinality(Created)])
    /\ cached' = {}
    /\ generation' = generation + 1
    /\ UNCHANGED <<fetching, lists, files, givenUp, crashes>>

-----------------------------------------------------------------------------
(* The snapshot cache.  Of the four lists only a stale list of ended       *)
(* downloads changes what a workflow concludes; the others are read fresh. *)

Snapshot == [done |-> {n \in Remotes : download[n] \in {"succeeded", "failed"}},
             of |-> generation, asked |-> Cardinality(Created)]

(* Another workflow asks for the list; OpenList reads it at once.  (This   *)
(* task looks at the list until its download has ended.)                   *)
Fetch ==
    /\ status = "active" /\ saved.step \in {"init", "submitted"}
    /\ fetching = {}
    /\ cached = {}
    /\ fetching' = {Snapshot}
    /\ UNCHANGED <<memento, attempt, lists, files, cached, generation, givenUp, crashes>>

(* The answer is kept unless somebody invalidated the cache meanwhile.     *)
FetchAnswered ==
    /\ \E s \in fetching : cached' = IF s.of = generation THEN {s} ELSE cached
    /\ fetching' = {}
    /\ UNCHANGED <<memento, attempt, lists, files, generation, givenUp, crashes>>

(* ttl_seconds pass.                                                       *)
Expire ==
    /\ cached # {}
    /\ cached' = {}
    /\ UNCHANGED <<memento, attempt, lists, files, fetching, generation, givenUp, crashes>>

(* The task looks at the list no more, and what becomes of it is left out: *)
(* the next submission of the task would invalidate it anyway.             *)
LookedEnough == cached' = {} /\ fetching' = {} /\ UNCHANGED generation

-----------------------------------------------------------------------------
(* _wait_download_complete.                                                *)

(* Listed as running, but at 100% and with a transfer.                     *)
DownloadTransferring ==
    /\ At("submitted")
    /\ download[task.id] = "running"
    /\ \E n \in Remotes : transfer[n] \in {"running", "succeeded", "failed"}
    /\ Advance("download_done")
    /\ LookedEnough
    /\ UNCHANGED <<lists, files, givenUp, crashes>>

(* No longer listed as running: the list of ended downloads decides.       *)
DownloadEnded ==
    /\ At("submitted")
    /\ download[task.id] # "running"
    /\ \E s \in IF cached = {} THEN {Snapshot} ELSE cached :
        \/ /\ task.id \in s.done
           /\ download[task.id] = "succeeded"
           /\ Advance("download_done")
           /\ LookedEnough
           /\ UNCHANGED <<lists, files, givenUp, crashes>>
        \/ /\ task.id \in s.done
           /\ download[task.id] # "succeeded"
           /\ RemoteTaskFailed
           /\ LookedEnough
        \/ /\ task.id \notin s.done
           /\ RetryOrFail(saved)
           /\ cached' = {s}
           /\ UNCHANGED <<fetching, generation, lists, files, givenUp, crashes>>

-----------------------------------------------------------------------------
(* _wait_transfer_complete.  Transfers are told by the task's id, so those *)
(* of an earlier download of the same task are found as well.              *)

Transfers(states) == {n \in Remotes : transfer[n] \in states}

(* _TRANSFER_STALL_TIMEOUT_SECONDS without progress.                       *)
TransferStalled ==
    /\ At("download_done")
    /\ Transfers({"running"}) # {}
    /\ RemoteTaskFailed
    /\ UNCHANGED cache

TransferRunning ==
    /\ At("download_done")
    /\ Transfers({"running"}) # {}
    /\ misses # 0
    /\ misses' = 0
    /\ UNCHANGED <<memento, task, phase, lists, files, cache, givenUp, crashes>>

TransferEnded ==
    /\ At("download_done")
    /\ Transfers({"running"}) = {}
    /\ \E n \in Transfers({"succeeded", "failed"}) :
        \/ /\ transfer[n] = "succeeded"
           /\ Advance("transfer_done")
           /\ UNCHANGED <<lists, files, givenUp, crashes>>
        \/ /\ transfer[n] = "failed"
           /\ RemoteTaskFailed
    /\ UNCHANGED cache

(* _TRANSFER_CHECK_MAX_RETRIES looks that find no transfer at all.         *)
TransferMissed ==
    /\ At("download_done")
    /\ Transfers({"running", "succeeded", "failed"}) = {}
    /\ IF misses < 2
       THEN misses' = misses + 1 /\ UNCHANGED <<memento, task, phase>>
       ELSE Advance("transfer_done")
    /\ UNCHANGED <<lists, files, cache, givenUp, crashes>>

-----------------------------------------------------------------------------
(* _detect_file, _resolve_file_to_move, _move_to_target_directory.         *)

Detect ==
    /\ At("transfer_done")
    /\ \E f \in temp : Checkpoint([task EXCEPT !.step = "file_detected", !.downloaded = f])
    /\ UNCHANGED <<lists, files, cache, givenUp, crashes>>

DetectTimeout == At("transfer_done") /\ temp = {} /\ EndAttempt

(* The names in the target directory: those of this task, and whatever the *)
(* other tasks have put there by now.                                      *)
Listings == {o \cup (mine \ {Final}) : o \in SUBSET Suffixes}
Free(taken) == {s \in Suffixes \ {0} : s \notin taken}

(* The name is free, or the target directory could not be listed.          *)
ResolveAsIs ==
    /\ At("file_detected")
    /\ Checkpoint([task EXCEPT !.step = "file_resolved", !.resolved = task.downloaded])
    /\ UNCHANGED <<lists, files, cache, givenUp, crashes>>

(* The name is taken: the file is renamed where it is, if it is there.     *)
RenameTemp ==
    /\ At("file_detected")
    /\ \E taken \in Listings :
        /\ task.downloaded \in taken /\ Free(taken) # {}
        /\ task.downloaded \in temp /\ Min(Free(taken)) \notin temp
        /\ temp' = (temp \ {task.downloaded}) \cup {Min(Free(taken))}
        /\ task' = [task EXCEPT !.resolved = Min(Free(taken))]
    /\ phase' = "renaming_temp"
    /\ UNCHANGED <<memento, misses, lists, mine, keeps, cache, givenUp, crashes>>

TempRenamed ==
    /\ phase = "renaming_temp"
    /\ Advance("file_resolved")
    /\ UNCHANGED <<lists, files, cache, givenUp, crashes>>

(* OpenList refuses; an earlier attempt may have renamed the file.         *)
RenameTempRefused ==
    /\ At("file_detected")
    /\ \E taken \in Listings :
        /\ task.downloaded \in taken
        /\ \/ /\ Free(taken) # {} /\ Min(Free(taken)) \in temp
              /\ Checkpoint([task EXCEPT !.step = "file_resolved", !.resolved = Min(Free(taken))])
              /\ UNCHANGED <<lists, files, cache, givenUp, crashes>>
           \/ /\ Free(taken) = {} \/ task.downloaded \notin temp
              /\ EndAttempt

(* OpenList moves no file onto another.                                    *)
Movable(taken) == task.resolved \in temp /\ task.resolved \notin taken

Move ==
    /\ At("file_resolved")
    /\ \E taken \in Listings : Movable(taken)
    /\ temp' = temp \ {task.resolved}
    /\ mine' = mine \cup {task.resolved}
    /\ phase' = "moving"
    /\ UNCHANGED <<memento, task, misses, lists, keeps, cache, givenUp, crashes>>

MoveRefused ==
    /\ At("file_resolved")
    /\ \E taken \in Listings : ~Movable(taken)
    /\ EndAttempt

Moved ==
    /\ phase = "moving"
    /\ Advance("moved")
    /\ UNCHANGED <<lists, files, cache, givenUp, crashes>>

Done ==
    /\ At("moved")
    /\ Advance("done")
    /\ UNCHANGED <<lists, files, cache, givenUp, crashes>>

(* The finally clause of run, and the stage records what it got.           *)
Finish ==
    /\ At("done")
    /\ temp' \in {temp, {}}
    /\ phase' = "recording"
    /\ UNCHANGED <<memento, task, misses, lists, mine, keeps, cache, givenUp, crashes>>

Record ==
    /\ phase = "recording"
    /\ status' = "downloaded"
    /\ path' = task.resolved
    /\ keeps' \in BOOLEAN
    /\ phase' = "idle"
    /\ UNCHANGED <<saved, retries, task, misses, lists, temp, mine, cache, givenUp,
                   crashes>>

-----------------------------------------------------------------------------
(* The rename stage.                                                       *)

Rename ==
    /\ status = "downloaded"
    /\ phase = "idle"
    /\ ~(keeps /\ path = 0)
    /\ path \in mine
    /\ mine' = (mine \ {path}) \cup {Final}
    /\ phase' = "renaming"
    /\ UNCHANGED <<memento, task, misses, lists, temp, keeps, cache, givenUp, crashes>>

Renamed ==
    /\ phase = "renaming"
    /\ status' = "renamed"
    /\ path' = Final
    /\ phase' = "idle"
    /\ UNCHANGED <<saved, retries, task, misses, lists, files, cache, givenUp, crashes>>

(* The file has its name already.                                          *)
RenameSkipped ==
    /\ status = "downloaded"
    /\ phase = "idle"
    /\ keeps /\ path = 0
    /\ status' = "renamed"
    /\ UNCHANGED <<saved, path, retries, attempt, lists, files, cache, givenUp, crashes>>

RenameFails ==
    /\ status = "downloaded"
    /\ phase \in {"idle", "renaming"}
    /\ status' = "failed"
    /\ phase' = "idle"
    /\ UNCHANGED <<saved, path, retries, task, misses, lists, files, cache, givenUp, crashes>>

(* prepare_manual_retry clears every provider checkpoint.                  *)
ManualRetry ==
    /\ status = "failed"
    /\ status' = "queued"
    /\ saved' = Fresh
    /\ task' = Fresh
    /\ path' = NoName
    /\ retries' = 0
    /\ UNCHANGED <<phase, misses, lists, files, cache, givenUp, crashes>>

-----------------------------------------------------------------------------
(* OpenList, the other tasks, the process.                                 *)

(* The file comes through a transfer, or directly with the download.       *)
(* (Nothing is looked at any more once the file has its name.)             *)
StartTransfer(n) ==
    /\ status # "renamed"
    /\ download[n] \in {"running", "succeeded"}
    /\ transfer[n] = "none"
    /\ transfer' = [transfer EXCEPT ![n] = "running"]
    /\ UNCHANGED <<memento, attempt, download, files, cache, givenUp, crashes>>

EndDownload(n) ==
    /\ download[n] = "running"
    /\ \/ /\ download' = [download EXCEPT ![n] = "succeeded"]
          /\ UNCHANGED <<transfer, temp>>
       \/ /\ transfer[n] = "none"
          /\ download' = [download EXCEPT ![n] = "succeeded"]
          /\ transfer' = [transfer EXCEPT ![n] = "direct"]
          /\ temp' = temp \cup {0}
       \/ /\ transfer[n] = "none"
          /\ download' = [download EXCEPT ![n] = "failed"]
          /\ UNCHANGED <<transfer, temp>>
    /\ UNCHANGED <<memento, attempt, mine, keeps, cache, givenUp, crashes>>

EndTransfer(n) ==
    /\ status # "renamed"
    /\ transfer[n] = "running"
    /\ \/ /\ transfer' = [transfer EXCEPT ![n] = "succeeded"]
          /\ temp' = temp \cup {0}
       \/ /\ transfer' = [transfer EXCEPT ![n] = "failed"]
          /\ UNCHANGED <<temp>>
    /\ UNCHANGED <<memento, attempt, download, mine, keeps, cache, givenUp, crashes>>

(* A crash, and the restore of the next process.                           *)
Crash ==
    /\ crashes < MaxCrashes
    /\ status # "renamed"
    /\ crashes' = crashes + 1
    /\ status' = IF status # "active" THEN status
                 ELSE IF retries > 0 /\ retries >= MaxRetries THEN "failed" ELSE "queued"
    /\ task' = saved
    /\ phase' = "idle"
    /\ misses' = 0
    /\ cached' = {}
    /\ fetching' = {}
    /\ generation' = 0
    /\ UNCHANGED <<saved, path, retries, lists, files, givenUp>>

-----------------------------------------------------------------------------
Init ==
    /\ status = "queued" /\ saved = Fresh /\ path = NoName /\ retries = 0
    /\ task = Fresh /\ phase = "idle" /\ misses = 0
    /\ download = [n \in Remotes |-> "none"] /\ transfer = [n \in Remotes |-> "none"]
    /\ temp = {} /\ mine = {} /\ keeps = FALSE
    /\ cached = {} /\ fetching = {} /\ generation = 0
    /\ givenUp = FALSE /\ crashes = 0

(* What the worker does by itself.                                         *)
Work ==
    \/ Begin \/ Submit \/ SubmitRefused \/ Submitted
    \/ DownloadTransferring \/ DownloadEnded
    \/ TransferStalled \/ TransferRunning \/ TransferEnded \/ TransferMissed
    \/ Detect \/ DetectTimeout \/ ResolveAsIs \/ RenameTemp \/ TempRenamed
    \/ RenameTempRefused \/ Move \/ MoveRefused \/ Moved \/ Done \/ Finish \/ Record
    \/ CleanUp \/ Unbind

Next ==
    \/ Work \/ RequestFails
    \/ Rename \/ Renamed \/ RenameSkipped \/ RenameFails \/ ManualRetry
    \/ Fetch \/ FetchAnswered \/ Expire
    \/ \E n \in Remotes : StartTransfer(n) \/ EndDownload(n) \/ EndTransfer(n)
    \/ Crash

(* OpenList lists the task's download as running: look again in 5 seconds. *)
AwaitsDownload == At("submitted") /\ download[task.id] = "running"

(* Requests time out, and a transfer that hangs is ended by the watchdog.  *)
(* The wait for a download that OpenList lists as running has no end of    *)
(* its own, and nothing says that OpenList ends it.                        *)
Fairness == WF_vars(Work /\ ~AwaitsDownload)

Spec == Init /\ [][Next]_vars /\ Fairness

-----------------------------------------------------------------------------
(* Properties.                                                             *)

(* A task that knows its offline download keeps it through failed          *)
(* attempts, crashes and restarts: only a remote failure that was cleaned  *)
(* up, or a retry by hand, lets it submit its URL again.                   *)
BindingKept ==
    [][saved.id # 0 /\ saved'.id # saved.id
        => phase = "unbinding" \/ (status = "failed" /\ status' = "queued")]_vars

(* A list of ended downloads that can decide about a task was read after   *)
(* OpenList created the task's download, however the requests for the list *)
(* and the submissions overlapped.                                         *)
SnapshotKnowsTask == \A s \in cached : saved.id <= s.asked

(* A file that arrived stays in the temporary or the target directory      *)
(* unless the program gave up the download that brought it; the file a     *)
(* memento records is in the target directory, under the recorded name or, *)
(* after a rename whose answer was lost, the final one.                    *)
FileKept ==
    /\ (\E n \in Remotes : transfer[n] \in {"succeeded", "direct"}) /\ ~givenUp
       => temp \cup mine # {}
    /\ path # NoName => \/ path \in mine
                       \/ (status \in {"downloaded", "failed"} /\ Final \in mine)

(* An attempt that holds its worker for ever waits for a download OpenList *)
(* lists as running, and nothing else: the transfer, the detection, the    *)
(* requests and what a failure cleans up all come to an end, whatever      *)
(* OpenList does.                                                          *)
WorkerFreed == <>[](status = "active") => <>[]AwaitsDownload
=============================================================================
