------------------------------ MODULE RemoteWaits ------------------------------
(* The first stages of a Rust download worker: it waits for the offline     *)
(* download, then for the transfer of its files, then for a video to show   *)
(* up, by polling two lists of OpenList that are read one after the other,  *)
(* while OpenList goes on, forgets tasks or starts them over.               *)
EXTENDS Integers, FiniteSets, FiniteSetsExt

CONSTANTS Parts,            \* transfers of a download, numbered by the size of their video
          DownloadChecks,   \* MAX_MISSING_REMOTE_CHECKS
          TransferChecks,   \* TRANSFER_MISSING_CHECKS
          DetectionLooks,   \* looks that fit into FILE_DETECTION_TIMEOUT
          MaxUpsets,        \* crashes and calls that fail
          MaxRestarts       \* downloads that the user starts over in OpenList

ASSUME RemoteWaitsAssumption ==
    /\ Parts \subseteq Nat \ {0}
    /\ {DownloadChecks, TransferChecks, DetectionLooks} \subseteq Nat \ {0}
    /\ {MaxUpsets, MaxRestarts} \subseteq Nat

VARIABLES
    stage,       \* the workflow state of the last checkpoint
    poller,      \* what the worker does next
    misses,      \* polls of this attempt that found nothing
    lastError,   \* what ended the last attempt
    download,    \* OpenList: the offline download
    forgotten,   \* OpenList: its tasks are in no list any more
    transfers,   \* OpenList: the transfer of each part
    detected,    \* the part whose video was found
    upsets, restarts
wtsVars == <<stage, poller, misses, lastError, download, forgotten, transfers, detected, upsets, restarts>>
openlist == <<download, forgotten, transfers, restarts>>

WtsInit ==
    /\ stage = "submitted" /\ poller = "undone" /\ misses = 0 /\ lastError = "none"
    /\ download = "running" /\ forgotten = FALSE
    /\ transfers = [p \in Parts |-> "none"] /\ detected = 0
    /\ upsets = 0 /\ restarts = 0

------------------------------------------------------------------------------
\* What an attempt can come to.
Checkpoint(next) ==
    /\ stage' = next /\ misses' = 0 /\ lastError' = "none"
    /\ poller' = IF next = "transfer_done" THEN "looking" ELSE "undone"
\* An error that is retryable: the next attempt begins at the checkpoint.
GiveUp(error) == poller' = "resting" /\ lastError' = error /\ UNCHANGED <<stage, misses>>
FailForGood(error) == poller' = "failed" /\ lastError' = error /\ UNCHANGED <<stage, misses>>
PollAgain(count) == poller' = "undone" /\ misses' = count /\ UNCHANGED <<stage, lastError>>
ReadDoneNext == poller' = "done" /\ UNCHANGED <<stage, misses, lastError>>

Reads(state, list) == stage = state /\ poller = list

\* A list that cannot be read leaves the count and is asked for again: no step.
DownloadUndone ==
    /\ Reads("submitted", "undone")
    /\ IF ~forgotten /\ download = "running" THEN PollAgain(0) ELSE ReadDoneNext
    /\ UNCHANGED <<openlist, detected, upsets>>
DownloadDone ==
    /\ Reads("submitted", "done")
    /\ IF ~forgotten /\ download = "succeeded" THEN Checkpoint("download_done")
       ELSE IF ~forgotten /\ download = "failed" THEN FailForGood("remote")
       ELSE IF misses + 1 >= DownloadChecks THEN GiveUp("uncertain")
       ELSE PollAgain(misses + 1)
    /\ UNCHANGED <<openlist, detected, upsets>>

Transferring(state) == {p \in Parts : transfers[p] = state /\ ~forgotten}
TransferUndone ==
    /\ Reads("download_done", "undone")
    /\ IF Transferring("running") # {} THEN PollAgain(0) ELSE ReadDoneNext
    /\ UNCHANGED <<openlist, detected, upsets>>
\* Mutant: only a transfer that was listed can be over.
TransferDoneWhenListed ==
    /\ Reads("download_done", "done")
    /\ \/ Transferring("succeeded") # {} /\ Checkpoint("transfer_done")
       \/ Transferring("failed") # {} /\ FailForGood("remote")
       \/ Transferring("succeeded") \union Transferring("failed") = {} /\ PollAgain(misses)
    /\ UNCHANGED <<openlist, detected, upsets>>
\* The first transfer of the list decides for all of them.  A download whose
\* transfer never shows up counts as transferred.
TransferDone ==
    /\ Reads("download_done", "done")
    /\ \/ Transferring("succeeded") # {} /\ Checkpoint("transfer_done")
       \/ Transferring("failed") # {} /\ FailForGood("remote")
       \/ /\ Transferring("succeeded") \union Transferring("failed") = {}
          /\ IF misses + 1 >= TransferChecks THEN Checkpoint("transfer_done") ELSE PollAgain(misses + 1)
    /\ UNCHANGED <<openlist, detected, upsets>>

\* collect_videos, in the task's directory and below it
Videos == {p \in Parts : transfers[p] = "succeeded"}
\* The largest video that is there; without one the task fails at the deadline.
LookForVideo ==
    /\ Reads("transfer_done", "looking")
    /\ IF Videos # {} THEN detected' = Max(Videos) /\ stage' = "file_detected" /\ poller' = "ended"
                           /\ UNCHANGED <<misses, lastError>>
       ELSE /\ UNCHANGED detected
            /\ IF misses + 1 >= DetectionLooks THEN FailForGood("no video")
               ELSE misses' = misses + 1 /\ UNCHANGED <<stage, poller, lastError>>
    /\ UNCHANGED <<openlist, upsets>>

\* A list of transfers or a directory cannot be read, or the process is restarted.
Upset ==
    /\ poller \in {"undone", "done", "looking"} /\ upsets < MaxUpsets /\ upsets' = upsets + 1
    /\ GiveUp("openlist") /\ UNCHANGED <<openlist, detected>>
\* Five seconds later the worker starts over from the checkpoint.
NextAttempt ==
    /\ poller = "resting" /\ misses' = 0
    /\ poller' = IF stage = "transfer_done" THEN "looking" ELSE "undone"
    /\ UNCHANGED <<stage, lastError, openlist, detected, upsets>>

PollerStep ==
    DownloadUndone \/ DownloadDone \/ TransferUndone \/ TransferDone \/ LookForVideo \/ NextAttempt

------------------------------------------------------------------------------
\* OpenList.
poll == <<stage, poller, misses, lastError, detected, upsets>>
DownloadEnds ==
    /\ download = "running" /\ download' \in {"succeeded", "failed"}
    /\ UNCHANGED <<poll, forgotten, transfers, restarts>>
StartedOver ==
    /\ download = "failed" /\ restarts < MaxRestarts /\ restarts' = restarts + 1 /\ download' = "running"
    /\ UNCHANGED <<poll, forgotten, transfers>>
TransferGoesOn ==
    /\ download = "succeeded"
    /\ \E p \in Parts :
        /\ transfers[p] \in {"none", "running"}
        /\ transfers' \in {[transfers EXCEPT ![p] = s] :
                            s \in IF transfers[p] = "none" THEN {"running"} ELSE {"succeeded", "failed"}}
    /\ UNCHANGED <<poll, download, forgotten, restarts>>
\* OpenList was restarted, or its list of tasks cleared.
Forget == ~forgotten /\ forgotten' = TRUE /\ UNCHANGED <<poll, download, transfers, restarts>>

WtsNext == PollerStep \/ Upset \/ DownloadEnds \/ StartedOver \/ TransferGoesOn \/ Forget
\* The worker goes on polling, and what OpenList has begun comes to an end, unless
\* it has forgotten it.
WtsFairness == WF_wtsVars(PollerStep) /\ WF_wtsVars(DownloadEnds) /\ WF_wtsVars(~forgotten /\ TransferGoesOn)
WtsSpec == WtsInit /\ [][WtsNext]_wtsVars /\ WtsFairness

------------------------------------------------------------------------------
\* A worker that polls comes to an end, whatever moved between its two reads,
\* whichever transfer never showed up and wherever it was interrupted, unless
\* OpenList has forgotten the download before it was seen to end.
WaitEnds == (poller \notin {"ended", "failed"})
               ~> (poller \in {"ended", "failed"} \/ (forgotten /\ stage = "submitted"))
=============================================================================
