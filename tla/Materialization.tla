--------------------------- MODULE Materialization ---------------------------
(* The last stage of a Rust download worker: the video detected in the     *)
(* task's temporary directory gets a free name of the target directory, is *)
(* renamed, moved and its directory removed, each by a call to OpenList    *)
(* whose answer may be lost and whose effect a listing may show late.  The *)
(* chosen name is checkpointed before the first of those calls, the result *)
(* after the last; a worker that is interrupted starts over from there.    *)
EXTENDS Integers, FiniteSets, FiniteSetsExt

CONSTANTS Tasks,             \* tasks whose episodes get the same name in the same directory
          MaxSuffix,         \* last suffix tried for that name (MAX_CONFLICT_SUFFIX)
          MaxInterruptions   \* crashes and failed calls in a behaviour

ASSUME MaterializationAssumption ==
    MaxSuffix \in Nat /\ MaxInterruptions \in Nat /\ "free" \notin Tasks

\* Names of a video: 0 is the desired one, n is "desired (n)", Raw is that of the release.
Names == 0 .. MaxSuffix
Raw == MaxSuffix + 1
Places == 0 .. MaxSuffix + 3
\* The video has left the task's directory; the directory has been removed with it.
Moved == MaxSuffix + 2
Removed == MaxSuffix + 3

VARIABLES
    target,         \* target[n]: whose video has this name in the target directory
    listed,         \* the names a listing of the target directory shows
    original,       \* original[t]: the name of the detected video
    source,         \* source[t]: the video's name in the task's directory, or Moved or Removed
    shown,          \* shown[t]: what a listing of that directory shows
    row,            \* row[t]: the checkpoint, a workflow state and the planned name
    worker,         \* worker[t]: the next step of the task's worker
    interruptions
vars == <<target, listed, original, source, shown, row, worker, interruptions>>
remote == <<target, listed, source, shown>>

Steps == {"none", "start", "rename", "wait_renamed", "move", "check_moved", "wait_moved", "clean", "record"}

TypeOK ==
    /\ target \in [Names -> Tasks \union {"free", "older"}]
    /\ listed \subseteq Names
    /\ original \in [Tasks -> {0, Raw}]
    /\ source \in [Tasks -> Places]
    /\ shown \in [Tasks -> Places]
    /\ row \in [Tasks -> [state : {"file_detected", "materializing", "moved"}, plan : Names]]
    /\ worker \in [Tasks -> Steps]
    /\ interruptions \in 0 .. MaxInterruptions

Taken == {n \in Names : target[n] # "free"}

Init ==
    /\ \E t0 \in {"free", "older"} : target = [n \in Names |-> IF n = 0 THEN t0 ELSE "free"]
    /\ listed = Taken
    /\ original \in [Tasks -> {0, Raw}]
    /\ source = original /\ shown = original
    /\ row = [t \in Tasks |-> [state |-> "file_detected", plan |-> 0]]
    /\ worker = [t \in Tasks |-> "start"]
    /\ interruptions = 0

Go(t, step) == worker' = [worker EXCEPT ![t] = step]
\* fail_task: the worker ends; a manual retry starts another one from the same checkpoint.
Fail(t) == Go(t, "none") /\ UNCHANGED <<remote, row>>

------------------------------------------------------------------------------
\* prepare_materialization: the name is free in the listing, the plan is saved.
Prepare(t) ==
    /\ worker[t] = "start" /\ row[t].state = "file_detected" /\ shown[t] # Removed
    /\ LET free == Names \ listed IN
       IF shown[t] # original[t] \/ free = {} THEN Fail(t)
       ELSE row' = [row EXCEPT ![t] = [state |-> "materializing", plan |-> Min(free)]]
            /\ UNCHANGED <<remote, worker>>
    /\ UNCHANGED <<original, interruptions>>

\* Mutant: a name found in the target directory counts as the task's own.
LookAtTargetOnly(t) ==
    IF row[t].plan \in listed THEN "clean" ELSE IF shown[t] = original[t] THEN "rename" ELSE "move"

\* execute_materialization decides from two listings what is still to be done.
\* The listing of a removed directory is refused: the worker tries again, for ever.
NextStep(t) ==
    IF shown[t] = row[t].plan THEN "move"
    ELSE IF shown[t] = original[t] THEN "rename"
    ELSE IF row[t].plan \in listed THEN "clean"
    ELSE "none"
Look(t) ==
    /\ worker[t] = "start" /\ row[t].state = "materializing" /\ shown[t] # Removed
    /\ Go(t, NextStep(t))
    /\ UNCHANGED <<remote, row, original, interruptions>>

\* The answer to the rename is not looked at, only the listing that follows.
Rename(t) ==
    /\ worker[t] = "rename"
    /\ source' \in {source, [source EXCEPT ![t] = IF @ = original[t] THEN row[t].plan ELSE @]}
    /\ Go(t, "wait_renamed")
    /\ UNCHANGED <<target, listed, shown, row, original, interruptions>>

\* wait_for_file: thirty listings, then the file has not appeared.
WaitForFile(t, waiting, appeared, after) ==
    /\ worker[t] = waiting
    /\ IF appeared THEN Go(t, after) /\ UNCHANGED <<remote, row>> ELSE Fail(t)
    /\ UNCHANGED <<original, interruptions>>
WaitRenamed(t) == WaitForFile(t, "wait_renamed", shown[t] = row[t].plan, "move")
WaitMoved(t) == WaitForFile(t, "wait_moved", row[t].plan \in listed, "clean")

\* OpenList refuses to move onto a name that is taken.  A refusal, a call that
\* never arrived and an answer that was lost look the same.
Move(t) ==
    LET n == row[t].plan IN
    /\ worker[t] = "move"
    /\ \/ /\ source[t] = n /\ target[n] = "free"
          /\ target' = [target EXCEPT ![n] = t]
          /\ source' = [source EXCEPT ![t] = Moved]
          /\ \E step \in {"wait_moved", "check_moved"} : Go(t, step)
       \/ Go(t, "check_moved") /\ UNCHANGED <<target, source>>
    /\ UNCHANGED <<listed, shown, row, original, interruptions>>

\* Mutant: after a refused move only the target directory is looked at.
CheckOnlyTarget(t) ==
    /\ worker[t] = "check_moved"
    /\ IF row[t].plan \in listed THEN Go(t, "wait_moved") /\ UNCHANGED <<remote, row>> ELSE Fail(t)
    /\ UNCHANGED <<original, interruptions>>

CheckMoved(t) ==
    /\ worker[t] = "check_moved"
    /\ IF shown[t] # row[t].plan /\ row[t].plan \in listed
       THEN Go(t, "wait_moved") /\ UNCHANGED <<remote, row>>
       ELSE Fail(t)
    /\ UNCHANGED <<original, interruptions>>

\* cleanup_task_directory; whether it succeeded is only reported.
Clean(t) ==
    /\ worker[t] = "clean"
    /\ source' \in {source, [source EXCEPT ![t] = Removed]}
    /\ Go(t, "record")
    /\ UNCHANGED <<target, listed, shown, row, original, interruptions>>

Record(t) ==
    /\ worker[t] = "record"
    /\ row' = [row EXCEPT ![t].state = "moved"]
    /\ Go(t, "none")
    /\ UNCHANGED <<remote, original, interruptions>>

\* The process is restarted, or a call to OpenList or the store failed: after
\* five seconds the worker goes on from its checkpoint.
Interrupt(t) ==
    /\ worker[t] \notin {"none", "start"} /\ interruptions < MaxInterruptions
    /\ interruptions' = interruptions + 1
    /\ Go(t, "start")
    /\ UNCHANGED <<remote, row, original>>

\* Somebody retries a failed task.
Retry(t) ==
    /\ worker[t] = "none" /\ row[t].state # "moved"
    /\ Go(t, "start")
    /\ UNCHANGED <<remote, row, original, interruptions>>

\* A listing catches up with the directory.
SourceCatchesUp(t) ==
    /\ shown[t] # source[t] /\ shown' = [shown EXCEPT ![t] = source[t]]
    /\ UNCHANGED <<target, listed, source, row, worker, original, interruptions>>
TargetCatchesUp ==
    /\ listed # Taken /\ listed' = Taken
    /\ UNCHANGED <<target, source, shown, row, worker, original, interruptions>>

WorkerStep(t) ==
    \/ Prepare(t) \/ Look(t) \/ Rename(t) \/ WaitRenamed(t) \/ Move(t)
    \/ CheckMoved(t) \/ WaitMoved(t) \/ Clean(t) \/ Record(t)

Next ==
    \/ \E t \in Tasks : WorkerStep(t) \/ Interrupt(t) \/ Retry(t) \/ SourceCatchesUp(t)
    \/ TargetCatchesUp

Fairness == \A t \in Tasks : WF_vars(WorkerStep(t)) /\ WF_vars(SourceCatchesUp(t))
Spec == Init /\ [][Next]_vars /\ Fairness

------------------------------------------------------------------------------
\* A task that reached "moved" reports a path under which its own video is
\* found: another task that planned the same name, or an older file of that
\* name, is never taken for it (download_workflow.rs, execute_materialization).
OutputIsOwn == \A t \in Tasks : row[t].state = "moved" => target[row[t].plan] = t

\* Whatever answer is lost and whenever the worker starts over, the video is
\* in the task's directory or in the target directory: the directory is only
\* removed once the move is known to have happened.
VideoKept == \A t \in Tasks : source[t] \in {Moved, Removed} => \E n \in Names : target[n] = t

\* A worker comes to an end, wherever it was interrupted (DEVELOPMENT_SPEC.md:
\* every checkpoint survives a restart).
InterruptedTaskEnds == \A t \in Tasks : (worker[t] = "start") ~> (worker[t] = "none")

=============================================================================
