------------------------- MODULE OpenListWorkflowProofs -------------------------
(***************************************************************************)
(* What a download against OpenList keeps through failures, crashes and    *)
(* overlapping requests, for any number of submissions, crashes, retries   *)
(* and names: its binding, its file, and lists that know it.               *)
(***************************************************************************)
EXTENDS OpenListWorkflow, FiniteSetTheorems, WellFoundedInduction, TLAPS

WorkflowSteps == {"init", "submitted", "download_done", "transfer_done", "file_detected",
                  "file_resolved", "moved", "done"}
Payloads == [step : WorkflowSteps, id : Nat, downloaded : Int, resolved : Int]
Snapshots == [done : SUBSET Remotes, of : Nat, asked : Nat]
Requests == {"submitting", "renaming_temp", "moving"}

Types ==
    /\ status \in {"queued", "active", "downloaded", "renamed", "failed"}
    /\ saved \in Payloads /\ task \in Payloads
    /\ path \in Int /\ retries \in Nat /\ misses \in Nat
    /\ phase \in {"idle", "step", "cleaning", "unbinding", "recording", "renaming"} \cup Requests
    /\ download \in [Remotes -> {"none", "running", "succeeded", "failed"}]
    /\ transfer \in [Remotes -> {"none", "running", "succeeded", "failed", "direct"}]
    /\ temp \subseteq Int /\ mine \subseteq Int /\ keeps \in BOOLEAN
    /\ cached \subseteq Snapshots /\ fetching \subseteq Snapshots /\ generation \in Nat
    /\ givenUp \in BOOLEAN /\ crashes \in Nat

(* The worker and its memento.                                             *)
Attempts ==
    /\ status = "active" <=> phase \notin {"idle", "renaming"}
    /\ phase = "renaming" => status = "downloaded"
    /\ status \in {"queued", "active"} => path = NoName
    /\ phase \in {"cleaning", "unbinding"} => givenUp

(* What the attempt works on is what was saved, but for a name that        *)
(* OpenList has not confirmed; there is no id before the submission.       *)
Bound ==
    /\ task.id = saved.id /\ task.step = saved.step
    /\ phase # "renaming_temp" => task = saved
    /\ phase = "renaming_temp" => task.step = "file_detected"
    /\ phase = "submitting" => task.step = "init"
    /\ phase = "recording" => task.step = "done"
    /\ saved.step = "init" => saved.id = 0
    /\ saved.id <= Cardinality(Created)

(* A list that was asked for before a submission is of an older            *)
(* generation.                                                             *)
Lists ==
    /\ \A s \in cached : saved.id <= s.asked
    /\ \A s \in fetching : s.of <= generation /\ (s.of = generation => saved.id <= s.asked)

(* A file in the target directory stays there, under its last name.        *)
Placed ==
    /\ phase = "moving" => task.step = "file_resolved" /\ task.resolved \in mine
    /\ status \in {"queued", "active"} /\ saved.step \in {"moved", "done"} => saved.resolved \in mine
    /\ phase = "renaming" => Final \in mine
    /\ keeps /\ path = 0 /\ status = "downloaded" => path \in mine

FlowInv == Types /\ Attempts /\ Bound /\ Lists /\ Placed /\ FileKept

-----------------------------------------------------------------------------
(* OpenList's downloads.                                                   *)

LEMMA CreatedCount ==
    /\ IsFiniteSet(Remotes) /\ IsFiniteSet(Created)
    /\ Cardinality(Created) \in Nat
PROOF
  <1>1. IsFiniteSet(Remotes)
    BY WorkflowAssumption, FS_Interval DEF Remotes
  <1>2. Created \subseteq Remotes
    BY DEF Created
  <1> QED
    BY <1>1, <1>2, FS_Subset, FS_CardinalityType

(* Downloads are never forgotten.                                          *)
LEMMA CreatedGrows ==
    ASSUME Created \subseteq Created'
    PROVE  Cardinality(Created) <= Cardinality(Created') /\ Cardinality(Created') \in Nat
PROOF
  <1>1. IsFiniteSet(Created')
    BY CreatedCount, FS_Subset DEF Created
  <1> QED
    BY <1>1, FS_Subset, FS_CardinalityType

(* A checkpoint is a payload.                                              *)
LEMMA Stepped ==
    ASSUME NEW p \in Payloads, NEW step \in WorkflowSteps, NEW i \in Nat, NEW name \in Int
    PROVE  /\ [p EXCEPT !.step = step] \in Payloads
           /\ [p EXCEPT !.step = step, !.id = i] \in Payloads
           /\ [p EXCEPT !.step = step, !.downloaded = name] \in Payloads
           /\ [p EXCEPT !.step = step, !.resolved = name] \in Payloads
           /\ [p EXCEPT !.resolved = name] \in Payloads
  BY DEF Payloads

LEMMA FreshIsPayload == Fresh \in Payloads
  BY DEF Fresh, Payloads, WorkflowSteps, NoName

(* The file itself is a name.                                              *)
LEMMA NamesStay ==
    /\ {} \subseteq Int
    /\ \A names : names \subseteq Int => names \cup {0} \subseteq Int
PROOF
  <1>1. 0 \in Int
    OBVIOUS
  <1> QED
    BY <1>1, Zenon

LEMMA BeginKeeps ==
    ASSUME FlowInv, Begin
    PROVE  FlowInv'
PROOF
  <1>1. Types'
    BY WorkflowAssumption, CreatedCount DEF FlowInv, Types, Bound, Payloads,
       WorkflowSteps, Snapshots, Requests, Begin, At, memento, attempt, lists,
       files, cache
  <1>2. Attempts' /\ Placed' /\ FileKept'
    BY DEF FlowInv, Types, Attempts, Bound, Placed, FileKept, Payloads, Snapshots,
       Requests, Begin, At, memento, attempt, lists, files, cache
  <1>3. Bound' /\ Lists'
    BY CreatedCount DEF FlowInv, Types, Bound, Lists, Payloads, Snapshots, Requests,
       Begin, At, Created, memento, attempt, lists, files, cache
  <1> QED
    BY <1>1, <1>2, <1>3 DEF FlowInv

LEMMA SubmitRefusedKeeps ==
    ASSUME FlowInv, SubmitRefused
    PROVE  FlowInv'
PROOF
  <1>1. Types'
    BY WorkflowAssumption, CreatedCount DEF FlowInv, Types, Bound, Payloads,
       WorkflowSteps, Snapshots, Requests, SubmitRefused, At, memento, attempt,
       lists, files, cache, RetryOrFail, Fresh, NoName, EndAttempt
  <1>2. Attempts' /\ Placed' /\ FileKept'
    BY DEF FlowInv, Types, Attempts, Bound, Placed, FileKept, Payloads, Snapshots,
       Requests, SubmitRefused, At, memento, attempt, lists, files, cache,
       RetryOrFail, Fresh, NoName, EndAttempt
  <1>3. Bound' /\ Lists'
    BY CreatedCount DEF FlowInv, Types, Bound, Lists, Payloads, Snapshots, Requests,
       SubmitRefused, At, Created, memento, attempt, lists, files, cache,
       RetryOrFail, Fresh, NoName, EndAttempt
  <1> QED
    BY <1>1, <1>2, <1>3 DEF FlowInv

LEMMA SubmittedKeeps ==
    ASSUME FlowInv, Submitted
    PROVE  FlowInv'
PROOF
  <1>1. Types'
    <2>1. task' \in Payloads /\ saved' = task'
      BY Stepped, CreatedCount DEF FlowInv, Types, Submitted, Checkpoint,
         WorkflowSteps
    <2> QED
      BY <2>1 DEF FlowInv, Types, Submitted, Checkpoint, lists, files
  <1>2. Attempts' /\ Placed' /\ FileKept'
    BY DEF FlowInv, Types, Attempts, Bound, Placed, FileKept, Payloads, Snapshots,
       Requests, Submitted, At, memento, attempt, lists, files, cache, Checkpoint,
       Advance
  <1>3. Bound' /\ Lists'
    BY CreatedCount DEF FlowInv, Types, Bound, Lists, Payloads, Snapshots, Requests,
       Submitted, At, Created, memento, attempt, lists, files, cache, Checkpoint,
       Advance
  <1> QED
    BY <1>1, <1>2, <1>3 DEF FlowInv

LEMMA FetchKeeps ==
    ASSUME FlowInv, Fetch
    PROVE  FlowInv'
PROOF
  <1>1. Types'
    BY WorkflowAssumption, CreatedCount DEF FlowInv, Types, Bound, Payloads,
       WorkflowSteps, Snapshots, Requests, Fetch, At, memento, attempt, lists,
       files, cache, Snapshot
  <1>2. Attempts' /\ Placed' /\ FileKept'
    BY DEF FlowInv, Types, Attempts, Bound, Placed, FileKept, Payloads, Snapshots,
       Requests, Fetch, At, memento, attempt, lists, files, cache, Snapshot
  <1>3. Bound' /\ Lists'
    BY CreatedCount DEF FlowInv, Types, Bound, Lists, Payloads, Snapshots, Requests,
       Fetch, At, Created, memento, attempt, lists, files, cache, Snapshot
  <1> QED
    BY <1>1, <1>2, <1>3 DEF FlowInv

LEMMA FetchAnsweredKeeps ==
    ASSUME FlowInv, FetchAnswered
    PROVE  FlowInv'
PROOF
  <1>1. Types'
    BY WorkflowAssumption, CreatedCount DEF FlowInv, Types, Bound, Payloads,
       WorkflowSteps, Snapshots, Requests, FetchAnswered, At, memento, attempt,
       lists, files, cache
  <1>2. Attempts' /\ Placed' /\ FileKept'
    BY DEF FlowInv, Types, Attempts, Bound, Placed, FileKept, Payloads, Snapshots,
       Requests, FetchAnswered, At, memento, attempt, lists, files, cache
  <1>3. Bound' /\ Lists'
    BY CreatedCount DEF FlowInv, Types, Bound, Lists, Payloads, Snapshots, Requests,
       FetchAnswered, At, Created, memento, attempt, lists, files, cache
  <1> QED
    BY <1>1, <1>2, <1>3 DEF FlowInv

LEMMA ExpireKeeps ==
    ASSUME FlowInv, Expire
    PROVE  FlowInv'
PROOF
  <1>1. Types'
    BY WorkflowAssumption, CreatedCount DEF FlowInv, Types, Bound, Payloads,
       WorkflowSteps, Snapshots, Requests, Expire, At, memento, attempt, lists,
       files, cache
  <1>2. Attempts' /\ Placed' /\ FileKept'
    BY DEF FlowInv, Types, Attempts, Bound, Placed, FileKept, Payloads, Snapshots,
       Requests, Expire, At, memento, attempt, lists, files, cache
  <1>3. Bound' /\ Lists'
    BY CreatedCount DEF FlowInv, Types, Bound, Lists, Payloads, Snapshots, Requests,
       Expire, At, Created, memento, attempt, lists, files, cache
  <1> QED
    BY <1>1, <1>2, <1>3 DEF FlowInv

LEMMA DownloadTransferringKeeps ==
    ASSUME FlowInv, DownloadTransferring
    PROVE  FlowInv'
PROOF
  <1>1. Types'
    BY WorkflowAssumption, CreatedCount DEF FlowInv, Types, Bound, Payloads,
       WorkflowSteps, Snapshots, Requests, DownloadTransferring, At, memento,
       attempt, lists, files, cache, Checkpoint, Advance, LookedEnough
  <1>2. Attempts' /\ Placed' /\ FileKept'
    BY DEF FlowInv, Types, Attempts, Bound, Placed, FileKept, Payloads, Snapshots,
       Requests, DownloadTransferring, At, memento, attempt, lists, files, cache,
       Checkpoint, Advance, LookedEnough
  <1>3. Bound' /\ Lists'
    BY CreatedCount DEF FlowInv, Types, Bound, Lists, Payloads, Snapshots, Requests,
       DownloadTransferring, At, Created, memento, attempt, lists, files, cache,
       Checkpoint, Advance, LookedEnough
  <1> QED
    BY <1>1, <1>2, <1>3 DEF FlowInv

LEMMA DownloadEndedKeeps ==
    ASSUME FlowInv, DownloadEnded
    PROVE  FlowInv'
PROOF
  <1>1. Types'
    <2>1. CASE Advance("download_done") /\ LookedEnough /\ UNCHANGED <<lists, files, givenUp, crashes>>
      <3>1. task' \in Payloads /\ saved' = task'
        BY <2>1, Stepped DEF FlowInv, Types, Advance, Checkpoint, WorkflowSteps
      <3> QED
        BY <2>1, <3>1 DEF FlowInv, Types, Advance, Checkpoint, LookedEnough, lists,
           files
    <2>2. CASE RemoteTaskFailed /\ LookedEnough
      BY <2>2 DEF FlowInv, Types, RemoteTaskFailed, LookedEnough, memento, lists,
         files
    <2>3. ASSUME NEW s \in IF cached = {} THEN {Snapshot} ELSE cached,
                 RetryOrFail(saved), cached' = {s},
                 UNCHANGED <<fetching, generation, lists, files, givenUp, crashes>>
          PROVE  Types'
      <3>1. s \in Snapshots
        BY CreatedCount DEF FlowInv, Types, Snapshot, Snapshots
      <3> QED
        BY <2>3, <3>1 DEF FlowInv, Types, RetryOrFail, lists, files
    <2> QED
      BY <2>1, <2>2, <2>3 DEF DownloadEnded
  <1>2. Attempts' /\ Placed' /\ FileKept'
    BY DEF FlowInv, Types, Attempts, Bound, Placed, FileKept, Payloads, Requests,
       DownloadEnded, At, memento, lists, files, Checkpoint, Advance, RetryOrFail,
       LookedEnough, RemoteTaskFailed
  <1>3. Bound' /\ Lists'
    <2>1. CASE Advance("download_done") /\ LookedEnough /\ UNCHANGED <<lists, files, givenUp, crashes>>
      BY <2>1 DEF FlowInv, Types, Bound, Lists, Payloads, Requests, DownloadEnded,
         At, Advance, Checkpoint, LookedEnough, lists, Created
    <2>2. CASE RemoteTaskFailed /\ LookedEnough
      BY <2>2 DEF FlowInv, Types, Bound, Lists, Payloads, Requests, DownloadEnded,
         At, RemoteTaskFailed, LookedEnough, memento, lists, Created
    <2>3. ASSUME NEW s \in IF cached = {} THEN {Snapshot} ELSE cached,
                 RetryOrFail(saved), cached' = {s},
                 UNCHANGED <<fetching, generation, lists, files, givenUp, crashes>>
          PROVE  Bound' /\ Lists'
      <3>1. saved.id <= s.asked
        BY DEF FlowInv, Bound, Lists, Snapshot
      <3> QED
        BY <2>3, <3>1 DEF FlowInv, Types, Bound, Lists, Payloads, Requests,
           DownloadEnded, At, RetryOrFail, lists, Created
    <2> QED
      BY <2>1, <2>2, <2>3 DEF DownloadEnded
  <1> QED
    BY <1>1, <1>2, <1>3 DEF FlowInv

LEMMA TransferStalledKeeps ==
    ASSUME FlowInv, TransferStalled
    PROVE  FlowInv'
PROOF
  <1>1. Types'
    BY WorkflowAssumption, CreatedCount DEF FlowInv, Types, Bound, Payloads,
       WorkflowSteps, Snapshots, Requests, TransferStalled, At, memento, attempt,
       lists, files, cache, RemoteTaskFailed
  <1>2. Attempts' /\ Placed' /\ FileKept'
    BY DEF FlowInv, Types, Attempts, Bound, Placed, FileKept, Payloads, Snapshots,
       Requests, TransferStalled, At, memento, attempt, lists, files, cache,
       RemoteTaskFailed
  <1>3. Bound' /\ Lists'
    BY CreatedCount DEF FlowInv, Types, Bound, Lists, Payloads, Snapshots, Requests,
       TransferStalled, At, Created, memento, attempt, lists, files, cache,
       RemoteTaskFailed
  <1> QED
    BY <1>1, <1>2, <1>3 DEF FlowInv

LEMMA TransferRunningKeeps ==
    ASSUME FlowInv, TransferRunning
    PROVE  FlowInv'
PROOF
  <1>1. Types'
    BY WorkflowAssumption, CreatedCount DEF FlowInv, Types, Bound, Payloads,
       WorkflowSteps, Snapshots, Requests, TransferRunning, At, memento, attempt,
       lists, files, cache
  <1>2. Attempts' /\ Placed' /\ FileKept'
    BY DEF FlowInv, Types, Attempts, Bound, Placed, FileKept, Payloads, Snapshots,
       Requests, TransferRunning, At, memento, attempt, lists, files, cache
  <1>3. Bound' /\ Lists'
    BY CreatedCount DEF FlowInv, Types, Bound, Lists, Payloads, Snapshots, Requests,
       TransferRunning, At, Created, memento, attempt, lists, files, cache
  <1> QED
    BY <1>1, <1>2, <1>3 DEF FlowInv

LEMMA TransferEndedKeeps ==
    ASSUME FlowInv, TransferEnded
    PROVE  FlowInv'
PROOF
  <1>1. Types'
    <2>1. CASE Advance("transfer_done") /\ UNCHANGED <<lists, files, cache, givenUp, crashes>>
      <3>1. task' \in Payloads /\ saved' = task'
        BY <2>1, Stepped DEF FlowInv, Types, Advance, Checkpoint, WorkflowSteps
      <3> QED
        BY <2>1, <3>1 DEF FlowInv, Types, Advance, Checkpoint, lists, files, cache
    <2>2. CASE RemoteTaskFailed /\ UNCHANGED cache
      BY <2>2 DEF FlowInv, Types, RemoteTaskFailed, memento, lists, files, cache
    <2> QED
      BY <2>1, <2>2 DEF TransferEnded
  <1>2. Attempts' /\ Placed' /\ FileKept'
    BY DEF FlowInv, Types, Attempts, Bound, Placed, FileKept, Payloads, Snapshots,
       Requests, TransferEnded, At, memento, attempt, lists, files, cache,
       Checkpoint, Advance, RemoteTaskFailed
  <1>3. Bound' /\ Lists'
    BY CreatedCount DEF FlowInv, Types, Bound, Lists, Payloads, Snapshots, Requests,
       TransferEnded, At, Created, memento, attempt, lists, files, cache,
       Checkpoint, Advance, RemoteTaskFailed
  <1> QED
    BY <1>1, <1>2, <1>3 DEF FlowInv

LEMMA TransferMissedKeeps ==
    ASSUME FlowInv, TransferMissed
    PROVE  FlowInv'
PROOF
  <1>1. Types'
    BY WorkflowAssumption, CreatedCount DEF FlowInv, Types, Bound, Payloads,
       WorkflowSteps, Snapshots, Requests, TransferMissed, At, memento, attempt,
       lists, files, cache, Checkpoint, Advance
  <1>2. Attempts' /\ Placed' /\ FileKept'
    BY DEF FlowInv, Types, Attempts, Bound, Placed, FileKept, Payloads, Snapshots,
       Requests, TransferMissed, At, memento, attempt, lists, files, cache,
       Checkpoint, Advance
  <1>3. Bound' /\ Lists'
    BY CreatedCount DEF FlowInv, Types, Bound, Lists, Payloads, Snapshots, Requests,
       TransferMissed, At, Created, memento, attempt, lists, files, cache,
       Checkpoint, Advance
  <1> QED
    BY <1>1, <1>2, <1>3 DEF FlowInv

LEMMA DetectKeeps ==
    ASSUME FlowInv, Detect
    PROVE  FlowInv'
PROOF
  <1>1. Types'
    <2>1. PICK f \in temp : Checkpoint([task EXCEPT !.step = "file_detected", !.downloaded = f])
      BY DEF Detect
    <2>2. task' \in Payloads /\ saved' = task'
      BY <2>1, Stepped DEF FlowInv, Types, Checkpoint, WorkflowSteps
    <2> QED
      BY <2>1, <2>2 DEF FlowInv, Types, Detect, Checkpoint, lists, files, cache
  <1>2. Attempts' /\ Placed' /\ FileKept'
    BY DEF FlowInv, Types, Attempts, Bound, Placed, FileKept, Payloads, Snapshots,
       Requests, Detect, At, memento, attempt, lists, files, cache, Checkpoint,
       Advance
  <1>3. Bound' /\ Lists'
    BY CreatedCount DEF FlowInv, Types, Bound, Lists, Payloads, Snapshots, Requests,
       Detect, At, Created, memento, attempt, lists, files, cache, Checkpoint,
       Advance
  <1> QED
    BY <1>1, <1>2, <1>3 DEF FlowInv

LEMMA DetectTimeoutKeeps ==
    ASSUME FlowInv, DetectTimeout
    PROVE  FlowInv'
PROOF
  <1>1. Types'
    BY WorkflowAssumption, CreatedCount DEF FlowInv, Types, Bound, Payloads,
       WorkflowSteps, Snapshots, Requests, DetectTimeout, At, memento, attempt,
       lists, files, cache, RetryOrFail, Fresh, NoName, EndAttempt
  <1>2. Attempts' /\ Placed' /\ FileKept'
    BY DEF FlowInv, Types, Attempts, Bound, Placed, FileKept, Payloads, Snapshots,
       Requests, DetectTimeout, At, memento, attempt, lists, files, cache,
       RetryOrFail, Fresh, NoName, EndAttempt
  <1>3. Bound' /\ Lists'
    BY CreatedCount DEF FlowInv, Types, Bound, Lists, Payloads, Snapshots, Requests,
       DetectTimeout, At, Created, memento, attempt, lists, files, cache,
       RetryOrFail, Fresh, NoName, EndAttempt
  <1> QED
    BY <1>1, <1>2, <1>3 DEF FlowInv

LEMMA ResolveAsIsKeeps ==
    ASSUME FlowInv, ResolveAsIs
    PROVE  FlowInv'
PROOF
  <1>1. Types'
    BY WorkflowAssumption, CreatedCount DEF FlowInv, Types, Bound, Payloads,
       WorkflowSteps, Snapshots, Requests, ResolveAsIs, At, memento, attempt, lists,
       files, cache, Checkpoint, Advance
  <1>2. Attempts' /\ Placed' /\ FileKept'
    BY DEF FlowInv, Types, Attempts, Bound, Placed, FileKept, Payloads, Snapshots,
       Requests, ResolveAsIs, At, memento, attempt, lists, files, cache, Checkpoint,
       Advance
  <1>3. Bound' /\ Lists'
    BY CreatedCount DEF FlowInv, Types, Bound, Lists, Payloads, Snapshots, Requests,
       ResolveAsIs, At, Created, memento, attempt, lists, files, cache, Checkpoint,
       Advance
  <1> QED
    BY <1>1, <1>2, <1>3 DEF FlowInv

LEMMA TempRenamedKeeps ==
    ASSUME FlowInv, TempRenamed
    PROVE  FlowInv'
PROOF
  <1>1. Types'
    BY WorkflowAssumption, CreatedCount DEF FlowInv, Types, Bound, Payloads,
       WorkflowSteps, Snapshots, Requests, TempRenamed, At, memento, attempt, lists,
       files, cache, Checkpoint, Advance
  <1>2. Attempts' /\ Placed' /\ FileKept'
    BY DEF FlowInv, Types, Attempts, Bound, Placed, FileKept, Payloads, Snapshots,
       Requests, TempRenamed, At, memento, attempt, lists, files, cache, Checkpoint,
       Advance
  <1>3. Bound' /\ Lists'
    BY CreatedCount DEF FlowInv, Types, Bound, Lists, Payloads, Snapshots, Requests,
       TempRenamed, At, Created, memento, attempt, lists, files, cache, Checkpoint,
       Advance
  <1> QED
    BY <1>1, <1>2, <1>3 DEF FlowInv

LEMMA MoveKeeps ==
    ASSUME FlowInv, Move
    PROVE  FlowInv'
PROOF
  <1>1. Types'
    BY WorkflowAssumption, CreatedCount DEF FlowInv, Types, Bound, Payloads,
       WorkflowSteps, Snapshots, Requests, Move, At, memento, attempt, lists, files,
       cache
  <1>2. Attempts' /\ Placed' /\ FileKept'
    BY DEF FlowInv, Types, Attempts, Bound, Placed, FileKept, Payloads, Snapshots,
       Requests, Move, At, memento, attempt, lists, files, cache
  <1>3. Bound' /\ Lists'
    BY CreatedCount DEF FlowInv, Types, Bound, Lists, Payloads, Snapshots, Requests,
       Move, At, Created, memento, attempt, lists, files, cache
  <1> QED
    BY <1>1, <1>2, <1>3 DEF FlowInv

LEMMA MoveRefusedKeeps ==
    ASSUME FlowInv, MoveRefused
    PROVE  FlowInv'
PROOF
  <1>1. Types'
    BY WorkflowAssumption, CreatedCount DEF FlowInv, Types, Bound, Payloads,
       WorkflowSteps, Snapshots, Requests, MoveRefused, At, memento, attempt, lists,
       files, cache, RetryOrFail, Fresh, NoName, EndAttempt
  <1>2. Attempts' /\ Placed' /\ FileKept'
    BY DEF FlowInv, Types, Attempts, Bound, Placed, FileKept, Payloads, Snapshots,
       Requests, MoveRefused, At, memento, attempt, lists, files, cache,
       RetryOrFail, Fresh, NoName, EndAttempt
  <1>3. Bound' /\ Lists'
    BY CreatedCount DEF FlowInv, Types, Bound, Lists, Payloads, Snapshots, Requests,
       MoveRefused, At, Created, memento, attempt, lists, files, cache, RetryOrFail,
       Fresh, NoName, EndAttempt
  <1> QED
    BY <1>1, <1>2, <1>3 DEF FlowInv

LEMMA MovedKeeps ==
    ASSUME FlowInv, Moved
    PROVE  FlowInv'
PROOF
  <1>1. Types'
    BY WorkflowAssumption, CreatedCount DEF FlowInv, Types, Bound, Payloads,
       WorkflowSteps, Snapshots, Requests, Moved, At, memento, attempt, lists,
       files, cache, Checkpoint, Advance
  <1>2. Attempts' /\ Placed' /\ FileKept'
    BY DEF FlowInv, Types, Attempts, Bound, Placed, FileKept, Payloads, Snapshots,
       Requests, Moved, At, memento, attempt, lists, files, cache, Checkpoint,
       Advance
  <1>3. Bound' /\ Lists'
    BY CreatedCount DEF FlowInv, Types, Bound, Lists, Payloads, Snapshots, Requests,
       Moved, At, Created, memento, attempt, lists, files, cache, Checkpoint,
       Advance
  <1> QED
    BY <1>1, <1>2, <1>3 DEF FlowInv

LEMMA DoneKeeps ==
    ASSUME FlowInv, Done
    PROVE  FlowInv'
PROOF
  <1>1. Types'
    BY WorkflowAssumption, CreatedCount DEF FlowInv, Types, Bound, Payloads,
       WorkflowSteps, Snapshots, Requests, Done, At, memento, attempt, lists, files,
       cache, Checkpoint, Advance
  <1>2. Attempts' /\ Placed' /\ FileKept'
    BY DEF FlowInv, Types, Attempts, Bound, Placed, FileKept, Payloads, Snapshots,
       Requests, Done, At, memento, attempt, lists, files, cache, Checkpoint,
       Advance
  <1>3. Bound' /\ Lists'
    BY CreatedCount DEF FlowInv, Types, Bound, Lists, Payloads, Snapshots, Requests,
       Done, At, Created, memento, attempt, lists, files, cache, Checkpoint, Advance
  <1> QED
    BY <1>1, <1>2, <1>3 DEF FlowInv

LEMMA FinishKeeps ==
    ASSUME FlowInv, Finish
    PROVE  FlowInv'
PROOF
  <1>1. Types'
    BY WorkflowAssumption, CreatedCount DEF FlowInv, Types, Bound, Payloads,
       WorkflowSteps, Snapshots, Requests, Finish, At, memento, attempt, lists,
       files, cache
  <1>2. Attempts' /\ Placed' /\ FileKept'
    BY DEF FlowInv, Types, Attempts, Bound, Placed, FileKept, Payloads, Snapshots,
       Requests, Finish, At, memento, attempt, lists, files, cache
  <1>3. Bound' /\ Lists'
    BY CreatedCount DEF FlowInv, Types, Bound, Lists, Payloads, Snapshots, Requests,
       Finish, At, Created, memento, attempt, lists, files, cache
  <1> QED
    BY <1>1, <1>2, <1>3 DEF FlowInv

LEMMA RecordKeeps ==
    ASSUME FlowInv, Record
    PROVE  FlowInv'
PROOF
  <1>1. Types'
    BY WorkflowAssumption, CreatedCount DEF FlowInv, Types, Bound, Payloads,
       WorkflowSteps, Snapshots, Requests, Record, At, memento, attempt, lists,
       files, cache
  <1>2. Attempts' /\ Placed' /\ FileKept'
    BY DEF FlowInv, Types, Attempts, Bound, Placed, FileKept, Payloads, Snapshots,
       Requests, Record, At, memento, attempt, lists, files, cache
  <1>3. Bound' /\ Lists'
    BY CreatedCount DEF FlowInv, Types, Bound, Lists, Payloads, Snapshots, Requests,
       Record, At, Created, memento, attempt, lists, files, cache
  <1> QED
    BY <1>1, <1>2, <1>3 DEF FlowInv

LEMMA CleanUpKeeps ==
    ASSUME FlowInv, CleanUp
    PROVE  FlowInv'
PROOF
  <1>1. Types'
    BY WorkflowAssumption, CreatedCount DEF FlowInv, Types, Bound, Payloads,
       WorkflowSteps, Snapshots, Requests, CleanUp, At, memento, attempt, lists,
       files, cache
  <1>2. Attempts' /\ Placed' /\ FileKept'
    BY DEF FlowInv, Types, Attempts, Bound, Placed, FileKept, Payloads, Snapshots,
       Requests, CleanUp, At, memento, attempt, lists, files, cache
  <1>3. Bound' /\ Lists'
    BY CreatedCount DEF FlowInv, Types, Bound, Lists, Payloads, Snapshots, Requests,
       CleanUp, At, Created, memento, attempt, lists, files, cache
  <1> QED
    BY <1>1, <1>2, <1>3 DEF FlowInv

LEMMA UnbindKeeps ==
    ASSUME FlowInv, Unbind
    PROVE  FlowInv'
PROOF
  <1>1. Types'
    BY WorkflowAssumption, CreatedCount DEF FlowInv, Types, Bound, Payloads,
       WorkflowSteps, Snapshots, Requests, Unbind, At, memento, attempt, lists,
       files, cache, RetryOrFail, Fresh, NoName
  <1>2. Attempts' /\ Placed' /\ FileKept'
    BY DEF FlowInv, Types, Attempts, Bound, Placed, FileKept, Payloads, Snapshots,
       Requests, Unbind, At, memento, attempt, lists, files, cache, RetryOrFail,
       Fresh, NoName
  <1>3. Bound' /\ Lists'
    BY CreatedCount DEF FlowInv, Types, Bound, Lists, Payloads, Snapshots, Requests,
       Unbind, At, Created, memento, attempt, lists, files, cache, RetryOrFail,
       Fresh, NoName
  <1> QED
    BY <1>1, <1>2, <1>3 DEF FlowInv

LEMMA RequestFailsKeeps ==
    ASSUME FlowInv, RequestFails
    PROVE  FlowInv'
PROOF
  <1>1. Types'
    BY WorkflowAssumption, CreatedCount DEF FlowInv, Types, Bound, Payloads,
       WorkflowSteps, Snapshots, Requests, RequestFails, At, memento, attempt,
       lists, files, cache, RetryOrFail, Fresh, NoName, EndAttempt
  <1>2. Attempts' /\ Placed' /\ FileKept'
    BY DEF FlowInv, Types, Attempts, Bound, Placed, FileKept, Payloads, Snapshots,
       Requests, RequestFails, At, memento, attempt, lists, files, cache,
       RetryOrFail, Fresh, NoName, EndAttempt
  <1>3. Bound' /\ Lists'
    BY CreatedCount DEF FlowInv, Types, Bound, Lists, Payloads, Snapshots, Requests,
       RequestFails, At, Created, memento, attempt, lists, files, cache,
       RetryOrFail, Fresh, NoName, EndAttempt
  <1> QED
    BY <1>1, <1>2, <1>3 DEF FlowInv

LEMMA RenameKeeps ==
    ASSUME FlowInv, Rename
    PROVE  FlowInv'
PROOF
  <1>1. Types'
    BY WorkflowAssumption, CreatedCount DEF FlowInv, Types, Bound, Payloads,
       WorkflowSteps, Snapshots, Requests, Rename, At, memento, attempt, lists,
       files, cache, Final
  <1>2. Attempts' /\ Placed' /\ FileKept'
    BY DEF FlowInv, Types, Attempts, Bound, Placed, FileKept, Payloads, Snapshots,
       Requests, Rename, At, memento, attempt, lists, files, cache, Final
  <1>3. Bound' /\ Lists'
    BY CreatedCount DEF FlowInv, Types, Bound, Lists, Payloads, Snapshots, Requests,
       Rename, At, Created, memento, attempt, lists, files, cache, Final
  <1> QED
    BY <1>1, <1>2, <1>3 DEF FlowInv

LEMMA RenamedKeeps ==
    ASSUME FlowInv, Renamed
    PROVE  FlowInv'
PROOF
  <1>1. Types'
    BY WorkflowAssumption, CreatedCount DEF FlowInv, Types, Bound, Payloads,
       WorkflowSteps, Snapshots, Requests, Renamed, At, memento, attempt, lists,
       files, cache, Final
  <1>2. Attempts' /\ Placed' /\ FileKept'
    BY DEF FlowInv, Types, Attempts, Bound, Placed, FileKept, Payloads, Snapshots,
       Requests, Renamed, At, memento, attempt, lists, files, cache, Final
  <1>3. Bound' /\ Lists'
    BY CreatedCount DEF FlowInv, Types, Bound, Lists, Payloads, Snapshots, Requests,
       Renamed, At, Created, memento, attempt, lists, files, cache, Final
  <1> QED
    BY <1>1, <1>2, <1>3 DEF FlowInv

LEMMA RenameSkippedKeeps ==
    ASSUME FlowInv, RenameSkipped
    PROVE  FlowInv'
PROOF
  <1>1. Types'
    BY WorkflowAssumption, CreatedCount DEF FlowInv, Types, Bound, Payloads,
       WorkflowSteps, Snapshots, Requests, RenameSkipped, At, memento, attempt,
       lists, files, cache
  <1>2. Attempts' /\ Placed' /\ FileKept'
    BY DEF FlowInv, Types, Attempts, Bound, Placed, FileKept, Payloads, Snapshots,
       Requests, RenameSkipped, At, memento, attempt, lists, files, cache
  <1>3. Bound' /\ Lists'
    BY CreatedCount DEF FlowInv, Types, Bound, Lists, Payloads, Snapshots, Requests,
       RenameSkipped, At, Created, memento, attempt, lists, files, cache
  <1> QED
    BY <1>1, <1>2, <1>3 DEF FlowInv

LEMMA RenameFailsKeeps ==
    ASSUME FlowInv, RenameFails
    PROVE  FlowInv'
PROOF
  <1>1. Types'
    BY WorkflowAssumption, CreatedCount DEF FlowInv, Types, Bound, Payloads,
       WorkflowSteps, Snapshots, Requests, RenameFails, At, memento, attempt, lists,
       files, cache
  <1>2. Attempts' /\ Placed' /\ FileKept'
    BY DEF FlowInv, Types, Attempts, Bound, Placed, FileKept, Payloads, Snapshots,
       Requests, RenameFails, At, memento, attempt, lists, files, cache
  <1>3. Bound' /\ Lists'
    BY CreatedCount DEF FlowInv, Types, Bound, Lists, Payloads, Snapshots, Requests,
       RenameFails, At, Created, memento, attempt, lists, files, cache
  <1> QED
    BY <1>1, <1>2, <1>3 DEF FlowInv

LEMMA ManualRetryKeeps ==
    ASSUME FlowInv, ManualRetry
    PROVE  FlowInv'
PROOF
  <1>1. Types'
    BY WorkflowAssumption, CreatedCount DEF FlowInv, Types, Bound, Payloads,
       WorkflowSteps, Snapshots, Requests, ManualRetry, At, memento, attempt, lists,
       files, cache, Fresh, NoName
  <1>2. Attempts' /\ Placed' /\ FileKept'
    BY DEF FlowInv, Types, Attempts, Bound, Placed, FileKept, Payloads, Snapshots,
       Requests, ManualRetry, At, memento, attempt, lists, files, cache, Fresh,
       NoName
  <1>3. Bound' /\ Lists'
    <2>1. Created' = Created
      BY DEF ManualRetry, lists, Created
    <2>2. phase # "renaming_temp" /\ phase # "submitting" /\ phase # "recording"
      BY DEF FlowInv, Attempts, ManualRetry
    <2>3. Bound'
      BY <2>1, <2>2, CreatedCount DEF ManualRetry, Bound, Fresh
    <2>4. Lists'
      BY DEF FlowInv, Types, Lists, Snapshots, ManualRetry, cache, Fresh
    <2> QED
      BY <2>3, <2>4
  <1> QED
    BY <1>1, <1>2, <1>3 DEF FlowInv

LEMMA CrashKeeps ==
    ASSUME FlowInv, Crash
    PROVE  FlowInv'
PROOF
  <1>1. Types'
    BY WorkflowAssumption, CreatedCount DEF FlowInv, Types, Bound, Payloads,
       WorkflowSteps, Snapshots, Requests, Crash, At, memento, attempt, lists,
       files, cache
  <1>2. Attempts' /\ Placed' /\ FileKept'
    BY DEF FlowInv, Types, Attempts, Bound, Placed, FileKept, Payloads, Snapshots,
       Requests, Crash, At, memento, attempt, lists, files, cache
  <1>3. Bound' /\ Lists'
    BY CreatedCount DEF FlowInv, Types, Bound, Lists, Payloads, Snapshots, Requests,
       Crash, At, Created, memento, attempt, lists, files, cache
  <1> QED
    BY <1>1, <1>2, <1>3 DEF FlowInv

LEMMA StartTransferKeeps ==
    ASSUME FlowInv, NEW n \in Remotes, StartTransfer(n)
    PROVE  FlowInv'
PROOF
  <1>1. Types'
    BY WorkflowAssumption, CreatedCount DEF FlowInv, Types, Bound, Payloads,
       WorkflowSteps, Snapshots, Requests, StartTransfer, At, memento, attempt,
       lists, files, cache
  <1>2. Attempts' /\ Placed' /\ FileKept'
    BY DEF FlowInv, Types, Attempts, Bound, Placed, FileKept, Payloads, Snapshots,
       Requests, StartTransfer, At, memento, attempt, lists, files, cache
  <1>3. Bound' /\ Lists'
    BY CreatedCount DEF FlowInv, Types, Bound, Lists, Payloads, Snapshots, Requests,
       StartTransfer, At, Created, memento, attempt, lists, files, cache
  <1> QED
    BY <1>1, <1>2, <1>3 DEF FlowInv

LEMMA EndTransferKeeps ==
    ASSUME FlowInv, NEW n \in Remotes, EndTransfer(n)
    PROVE  FlowInv'
PROOF
  <1>1. Types'
    <2>1. transfer' \in [Remotes -> {"none", "running", "succeeded", "failed", "direct"}]
      BY DEF FlowInv, Types, EndTransfer
    <2>2. temp' = temp \/ temp' = temp \cup {0}
      BY DEF EndTransfer
    <2>3. temp' \subseteq Int
      BY <2>2, NamesStay DEF FlowInv, Types
    <2> QED
      BY <2>1, <2>3 DEF FlowInv, Types, EndTransfer, memento, attempt, cache
  <1>2. Attempts' /\ Placed' /\ FileKept'
    BY DEF FlowInv, Types, Attempts, Bound, Placed, FileKept, Payloads, Snapshots,
       Requests, EndTransfer, At, memento, attempt, lists, files, cache
  <1>3. Bound' /\ Lists'
    BY CreatedCount DEF FlowInv, Types, Bound, Lists, Payloads, Snapshots, Requests,
       EndTransfer, At, Created, memento, attempt, lists, files, cache
  <1> QED
    BY <1>1, <1>2, <1>3 DEF FlowInv

LEMMA SubmitKeeps ==
    ASSUME FlowInv, Submit
    PROVE  FlowInv'
PROOF
  <1> DEFINE next == Cardinality(Created) + 1
  <1>1. download' \in [Remotes -> {"none", "running", "succeeded", "failed"}]
    BY CreatedCount DEF FlowInv, Types, Submit
  <1>2. Types'
    BY <1>1 DEF FlowInv, Types, Submit, Requests, memento, files, cache
  <1>3. Created \subseteq Created'
    BY CreatedCount DEF FlowInv, Types, Submit, Created
  <1>4. Bound' /\ Lists'
    BY <1>3, CreatedCount, CreatedGrows DEF FlowInv, Types, Bound, Lists, Payloads,
       Requests, Submit, At, memento, cache
  <1>5. Attempts' /\ Placed' /\ FileKept'
    BY DEF FlowInv, Types, Attempts, Bound, Placed, FileKept, Requests, Submit, At,
       memento, files
  <1> QED
    BY <1>2, <1>4, <1>5 DEF FlowInv

LEMMA EndDownloadKeeps ==
    ASSUME FlowInv, NEW n \in Remotes, EndDownload(n)
    PROVE  FlowInv'
PROOF
  <1>1. /\ download' \in [Remotes -> {"none", "running", "succeeded", "failed"}]
        /\ transfer' \in [Remotes -> {"none", "running", "succeeded", "failed", "direct"}]
        /\ temp' = temp \/ temp' = temp \cup {0}
    BY DEF FlowInv, Types, EndDownload
  <1>2. Types'
    <2>1. temp' \subseteq Int
      BY <1>1, NamesStay DEF FlowInv, Types
    <2> QED
      BY <1>1, <2>1 DEF FlowInv, Types, EndDownload, memento, attempt, cache
  <1>3. Created \subseteq Created'
    BY DEF FlowInv, Types, EndDownload, Created
  <1>4. Bound' /\ Lists'
    BY <1>3, CreatedCount, CreatedGrows DEF FlowInv, Types, Bound, Lists, Payloads,
       EndDownload, memento, attempt, cache
  <1>5. Attempts' /\ Placed'
    BY DEF FlowInv, Types, Attempts, Placed, EndDownload, memento, attempt
  <1>6. FileKept'
    BY DEF FlowInv, Types, FileKept, EndDownload, memento, attempt
  <1> QED
    BY <1>2, <1>4, <1>5, <1>6 DEF FlowInv

(* The least of the free names is one of them.                             *)
LEMMA MinOfFree ==
    ASSUME NEW taken, Free(taken) # {}
    PROVE  Min(Free(taken)) \in Free(taken) /\ Min(Free(taken)) \in Int
PROOF
  <1>0. Free(taken) \subseteq Nat
    BY WorkflowAssumption DEF Free, Suffixes
  <1>1. PICK m \in Free(taken) : \A k \in Free(taken) : ~ (<<k, m>> \in OpToRel(<, Nat))
    BY <1>0, NatLessThanWellFounded, WFMin, Zenon
  <1>2. \A k \in Free(taken) : ~ (k < m)
    <2> TAKE k \in Free(taken)
    <2>1. <<k, m>> \in Nat \X Nat /\ <<k, m>>[1] = k /\ <<k, m>>[2] = m
      BY <1>0
    <2> QED
      BY <1>1, <2>1, Zenon DEF OpToRel
  <1>3. \A k \in Free(taken) : m <= k
    BY <1>0, <1>2
  <1>4. Min(Free(taken)) \in Free(taken)
    BY <1>3, Zenon DEF Min
  <1> QED
    BY <1>0, <1>4

LEMMA RenameTempKeeps ==
    ASSUME FlowInv, RenameTemp
    PROVE  FlowInv'
PROOF
  <1>1. PICK name \in Int :
            /\ temp' = (temp \ {task.downloaded}) \cup {name}
            /\ task' = [task EXCEPT !.resolved = name]
    BY MinOfFree DEF RenameTemp
  <1>2. Types'
    <2>1. task' \in Payloads
      BY <1>1, Stepped DEF FlowInv, Types, WorkflowSteps
    <2> QED
      BY <1>1, <2>1 DEF FlowInv, Types, RenameTemp, Requests, memento, lists, cache
  <1>3. Attempts' /\ Placed' /\ FileKept'
    BY <1>1 DEF FlowInv, Types, Attempts, Bound, Placed, FileKept, Payloads,
       RenameTemp, Requests, At, memento, lists
  <1>4. Bound' /\ Lists'
    BY <1>1, CreatedCount DEF FlowInv, Types, Bound, Lists, Payloads, RenameTemp,
       Requests, At, memento, lists, cache, Created
  <1> QED
    BY <1>2, <1>3, <1>4 DEF FlowInv

LEMMA RenameTempRefusedKeeps ==
    ASSUME FlowInv, RenameTempRefused
    PROVE  FlowInv'
PROOF
  <1>1. ASSUME NEW name \in Int, At("file_detected"),
               Checkpoint([task EXCEPT !.step = "file_resolved", !.resolved = name]),
               UNCHANGED <<lists, files, cache, givenUp, crashes>>
        PROVE  FlowInv'
    <2>1. Types'
      <3>1. task' \in Payloads /\ saved' = task'
        BY <1>1, Stepped DEF FlowInv, Types, Checkpoint, WorkflowSteps
      <3> QED
        BY <1>1, <3>1 DEF FlowInv, Types, Checkpoint, lists, files, cache
    <2>2. Attempts' /\ Placed' /\ FileKept'
      BY <1>1 DEF FlowInv, Types, Attempts, Bound, Placed, FileKept, Payloads,
         Checkpoint, Requests, At, lists, files
    <2>3. Bound' /\ Lists'
      BY <1>1, CreatedCount DEF FlowInv, Types, Bound, Lists, Payloads, Checkpoint,
         Requests, At, lists, files, cache, Created
    <2> QED
      BY <2>1, <2>2, <2>3 DEF FlowInv
  <1>2. ASSUME At("file_detected"), EndAttempt
        PROVE  FlowInv'
    <2>1. RequestFails
      BY <1>2 DEF At, RequestFails
    <2> QED
      BY <2>1, RequestFailsKeeps
  <1> QED
    BY <1>1, <1>2, MinOfFree DEF RenameTempRefused
-----------------------------------------------------------------------------
LEMMA InitFlow == Init => FlowInv
PROOF
  <1> SUFFICES ASSUME Init
               PROVE  FlowInv
    OBVIOUS
  <1>1. Types
    <2>1. /\ download \in [Remotes -> {"none", "running", "succeeded", "failed"}]
          /\ transfer \in [Remotes -> {"none", "running", "succeeded", "failed", "direct"}]
      BY DEF Init
    <2> QED
      <3>1. saved \in Payloads /\ task \in Payloads
        BY FreshIsPayload DEF Init
      <3>2. temp \subseteq Int /\ mine \subseteq Int
        BY NamesStay, Zenon DEF Init
      <3>3. cached \subseteq Snapshots /\ fetching \subseteq Snapshots
        BY DEF Init
      <3>4. /\ path \in Int /\ retries \in Nat /\ misses \in Nat /\ generation \in Nat /\ crashes \in Nat
        BY DEF Init, NoName
      <3>5. keeps \in BOOLEAN /\ givenUp \in BOOLEAN
        BY Zenon DEF Init
      <3> QED
        BY <2>1, <3>1, <3>2, <3>3, <3>4, <3>5 DEF Init, Types, Requests
  <1>2. Attempts /\ Placed /\ FileKept
    BY DEF Init, Attempts, Placed, FileKept, NoName, Fresh, Requests
  <1>3. Bound /\ Lists
    BY CreatedCount DEF Init, Bound, Lists, Fresh
  <1> QED
    BY <1>1, <1>2, <1>3 DEF FlowInv

LEMMA FlowStep == FlowInv /\ [Next]_vars => FlowInv'
PROOF
  <1> SUFFICES ASSUME FlowInv, [Next]_vars
               PROVE  FlowInv'
    OBVIOUS
  <1>1. CASE Work
    BY <1>1, BeginKeeps, SubmitKeeps, SubmitRefusedKeeps, SubmittedKeeps,
       DownloadTransferringKeeps, DownloadEndedKeeps, TransferStalledKeeps,
       TransferRunningKeeps, TransferEndedKeeps, TransferMissedKeeps, DetectKeeps,
       DetectTimeoutKeeps, ResolveAsIsKeeps, RenameTempKeeps, TempRenamedKeeps,
       RenameTempRefusedKeeps, MoveKeeps, MoveRefusedKeeps, MovedKeeps, DoneKeeps,
       FinishKeeps, RecordKeeps, CleanUpKeeps, UnbindKeeps DEF Work
  <1>2. CASE \/ RequestFails \/ Rename \/ Renamed \/ RenameSkipped \/ RenameFails \/ ManualRetry
             \/ Fetch \/ FetchAnswered \/ Expire \/ Crash
    BY <1>2, RequestFailsKeeps, RenameKeeps, RenamedKeeps, RenameSkippedKeeps,
       RenameFailsKeeps,
       ManualRetryKeeps, FetchKeeps, FetchAnsweredKeeps, ExpireKeeps, CrashKeeps
  <1>3. CASE \E n \in Remotes : StartTransfer(n) \/ EndDownload(n) \/ EndTransfer(n)
    BY <1>3, StartTransferKeeps, EndDownloadKeeps, EndTransferKeeps
  <1>4. CASE UNCHANGED vars
    BY <1>4 DEF vars, memento, attempt, lists, files, cache, FlowInv, Types,
       Attempts, Bound, Lists, Placed, FileKept, Created
  <1> QED
    BY <1>1, <1>2, <1>3, <1>4 DEF Next

(* Whatever OpenList, the other tasks and the crashes do, the memento, the *)
(* running attempt, the shared lists and the files stay in step.           *)
THEOREM FlowAlwaysHolds == Spec => []FlowInv
  BY InitFlow, FlowStep, PTL DEF Spec

(* A list of ended downloads that can decide about a task was read after   *)
(* the task's own submission, however requests and submissions overlap.    *)
THEOREM SnapshotAlwaysKnowsTask == Spec => []SnapshotKnowsTask
PROOF
  <1>1. FlowInv => SnapshotKnowsTask
    BY DEF FlowInv, Lists, SnapshotKnowsTask
  <1> QED
    BY <1>1, FlowAlwaysHolds, PTL

(* Failed attempts, refused requests and crashes lose no file that         *)
(* arrived, and the memento names a file that is there.                    *)
THEOREM FileAlwaysKept == Spec => []FileKept
PROOF
  <1>1. FlowInv => FileKept
    BY DEF FlowInv
  <1> QED
    BY <1>1, FlowAlwaysHolds, PTL

(* A task submits its URL again only after a remote failure that was       *)
(* cleaned up or a retry by hand.                                          *)
THEOREM BindingAlwaysKept == Spec => BindingKept
PROOF
  <1> DEFINE Kept == saved.id # 0 /\ saved'.id # saved.id
                        => phase = "unbinding" \/ (status = "failed" /\ status' = "queued")
  <1>1. FlowInv /\ [Next]_vars => [Kept]_vars
    <2> SUFFICES ASSUME FlowInv, Next
                 PROVE  Kept
      OBVIOUS
    <2>1. CASE Submitted
      BY <2>1 DEF FlowInv, Bound, Submitted
    <2>2. CASE Unbind
      BY <2>2 DEF Unbind
    <2>3. CASE ManualRetry
      BY <2>3 DEF ManualRetry
    <2>4. CASE ~ (Submitted \/ Unbind \/ ManualRetry)
      <3>1. saved' = saved \/ saved'.id = saved.id
        <4>1. CASE Work
          BY <2>4, <4>1 DEF FlowInv, Types, Payloads, Bound, Work, memento,
             Checkpoint, Advance, RetryOrFail, EndAttempt,
             RemoteTaskFailed, Begin, Submit, SubmitRefused, DownloadTransferring, DownloadEnded, TransferStalled,
             TransferRunning, TransferEnded, TransferMissed, Detect, DetectTimeout, ResolveAsIs, RenameTemp, TempRenamed,
             RenameTempRefused, Move, MoveRefused, Moved, Done, Finish, Record, CleanUp
        <4>2. CASE ~Work
          BY <2>4, <4>2 DEF Next, memento, RequestFails, EndAttempt, RetryOrFail,
             Rename, Renamed, RenameSkipped,
             RenameFails, Fetch, FetchAnswered, Expire, StartTransfer, EndDownload, EndTransfer, Crash
        <4> QED
          BY <4>1, <4>2
      <3> QED
        BY <3>1
    <2> QED
      BY <2>1, <2>2, <2>3, <2>4
  <1> QED
    BY <1>1, FlowAlwaysHolds, PTL DEF Spec, BindingKept
=================================================================================
