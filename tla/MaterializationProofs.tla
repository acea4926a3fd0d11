------------------------- MODULE MaterializationProofs -------------------------
(***************************************************************************)
(* That a Rust worker reports its own video and loses none, for any number *)
(* of tasks, suffixes and interruptions.                                   *)
(***************************************************************************)
EXTENDS Materialization, WellFoundedInduction, TLAPS

Gone == {Moved, Removed}

(* Nothing is done before the plan is saved.                               *)
Untouched(t) ==
    row[t].state = "file_detected" =>
        source[t] = original[t] /\ worker[t] \in {"none", "start"}

(* The places a video goes through, and a listing that lags behind.        *)
Tracked(t) ==
    /\ {source[t], shown[t]} \subseteq {original[t], row[t].plan} \union Gone
    /\ shown[t] # original[t] => source[t] # original[t]
    /\ shown[t] \in Gone => source[t] \in Gone

(* Before the move a listing has shown the planned name.                   *)
SeenRenamed(t) ==
    worker[t] \in {"move", "check_moved", "wait_moved"} =>
        shown[t] # original[t] \/ original[t] = row[t].plan

(* The video is where the plan says.                                       *)
Arrived(t) ==
    \/ source[t] \in Gone
    \/ worker[t] \in {"wait_moved", "clean", "record"}
    \/ row[t].state = "moved"
    => target[row[t].plan] = t

TaskInv(t) == Untouched(t) /\ Tracked(t) /\ SeenRenamed(t) /\ Arrived(t)
IInv == TypeOK /\ \A t \in Tasks : TaskInv(t)
-----------------------------------------------------------------------------
LEMMA PlacesApart ==
    /\ Names \subseteq Nat /\ Names \subseteq Places /\ {0, Raw} \subseteq Places /\ Gone \subseteq Places
    /\ Names \intersect Gone = {} /\ 0 \notin Gone /\ Raw \notin Gone
BY MaterializationAssumption DEF Names, Raw, Places, Gone, Moved, Removed

LEMMA MinOfNames ==
    ASSUME NEW S \in SUBSET Names, S # {}
    PROVE  Min(S) \in S
  <1>1. PICK m \in S : \A n \in S : ~ (<<n, m>> \in OpToRel(<, Nat))
      BY NatLessThanWellFounded, PlacesApart, WFMin, Zenon
  <1>2. \A n \in S : ~ (n < m)
    <2> TAKE n \in S
    <2>1. /\ <<n, m>> \in Nat \X Nat /\ <<n, m>>[1] = n /\ <<n, m>>[2] = m
        BY PlacesApart
    <2> QED BY <1>1, <2>1, Zenon DEF OpToRel
  <1>3. \A n \in S : m <= n
      BY <1>2, PlacesApart
  <1> QED BY <1>3, Zenon DEF Min

(* A step that leaves a task's own state alone keeps what holds of it: a   *)
(* name of the target directory that is taken stays taken.                 *)
LEMMA Bystander ==
    ASSUME IInv, NEW t \in Tasks, original' = original,
           row'[t] = row[t], worker'[t] = worker[t], source'[t] = source[t], shown'[t] = shown[t],
           \A n \in Names : target[n] # "free" => target'[n] = target[n]
    PROVE  TaskInv(t)'
  <1>1. TaskInv(t) /\ row[t].plan \in Names /\ t # "free"
      BY MaterializationAssumption DEF IInv, TypeOK
  <1>2. Arrived(t)'
      BY <1>1 DEF TaskInv, Arrived, Gone, Moved, Removed
  <1> QED BY <1>1, <1>2 DEF TaskInv, Untouched, Tracked, SeenRenamed, Gone, Moved, Removed

(* The worker gives up or starts over: what is known of the video stays.   *)
LEMMA StartsOver ==
    ASSUME IInv, NEW t \in Tasks, NEW step \in {"none", "start"}, Go(t, step), UNCHANGED <<remote, row, original, interruptions>>
    PROVE  IInv'
  <1>1. TypeOK'
      BY DEF IInv, TypeOK, Go, remote, Steps
  <1>2. \A u \in Tasks : u # t => TaskInv(u)'
      BY Bystander DEF Go, remote, IInv, TypeOK
  <1>3. TaskInv(t)'
      BY DEF IInv, TypeOK, TaskInv, Untouched, Tracked, SeenRenamed, Arrived, Go,
         remote, Gone, Moved, Removed
  <1> QED BY <1>1, <1>2, <1>3 DEF IInv
(* A step of one worker whose type is right and that keeps the names taken *)
(* only has to be checked for its own task.                                *)
LEMMA OwnTaskSuffices ==
    ASSUME IInv, NEW t \in Tasks, original' = original, TypeOK', TaskInv(t)',
           \A u \in Tasks \ {t} : /\ row'[u] = row[u] /\ worker'[u] = worker[u]
                                  /\ source'[u] = source[u] /\ shown'[u] = shown[u],
           \A n \in Names : target[n] # "free" => target'[n] = target[n]
    PROVE  IInv'
BY Bystander DEF IInv

LEMMA InitInv == Init => IInv
  <1> SUFFICES ASSUME Init PROVE IInv
      OBVIOUS
  <1>1. TypeOK
      BY PlacesApart, MaterializationAssumption DEF Init, TypeOK, Taken, Steps,
         Names
  <1>2. \A t \in Tasks : TaskInv(t)
      BY PlacesApart DEF Init, TaskInv, Untouched, Tracked, SeenRenamed, Arrived
  <1> QED BY <1>1, <1>2 DEF IInv

LEMMA PrepareKeeps == ASSUME IInv, NEW t \in Tasks, Prepare(t) PROVE IInv'
  <1>1. CASE shown[t] # original[t] \/ Names \ listed = {}
      BY <1>1, StartsOver DEF Prepare, Fail
  <1>2. CASE ~ (shown[t] # original[t] \/ Names \ listed = {})
    <2> DEFINE plan == Min(Names \ listed)
    <2>1. /\ plan \in Names
          /\ row' = [row EXCEPT ![t] = [state |-> "materializing", plan |-> plan]]
          /\ UNCHANGED <<target, listed, original, source, shown, worker, interruptions>>
          /\ row[t].state = "file_detected"
        BY <1>2, MinOfNames DEF Prepare, remote
    <2> HIDE DEF plan
    <2>2. TypeOK'
        BY <2>1 DEF IInv, TypeOK
    <2>3. row'[t] = [state |-> "materializing", plan |-> plan] /\ TaskInv(t) /\ original[t] \in {0, Raw}
        BY <2>1 DEF IInv, TypeOK
    <2>4. TaskInv(t)'
        BY <1>2, <2>1, <2>3, PlacesApart DEF TaskInv, Untouched, Tracked,
           SeenRenamed, Arrived, Gone, Moved, Removed
    <2> QED BY <2>1, <2>2, <2>4, OwnTaskSuffices DEF IInv, TypeOK
  <1> QED BY <1>1, <1>2

(* A worker that only looks: what it concludes has to hold.                *)
LEMMA MovesOn ==
    ASSUME IInv, NEW t \in Tasks, NEW step \in Steps, Go(t, step),
           UNCHANGED <<remote, row, original, interruptions>>,
           row[t].state # "file_detected",
           step \in {"move", "check_moved", "wait_moved"} => shown[t] # original[t] \/ original[t] = row[t].plan,
           step \in {"wait_moved", "clean", "record"} => target[row[t].plan] = t
    PROVE  IInv'
  <1>1. TypeOK' /\ worker'[t] = step
      BY DEF IInv, TypeOK, Go, remote
  <1>2. TaskInv(t)'
      BY <1>1 DEF IInv, TypeOK, TaskInv, Untouched, Tracked, SeenRenamed, Arrived,
         remote, Gone, Moved, Removed
  <1> QED BY <1>1, <1>2, OwnTaskSuffices DEF IInv, TypeOK, Go, remote

LEMMA LookKeeps == ASSUME IInv, NEW t \in Tasks, Look(t) PROVE IInv'
  <1>1. TaskInv(t) /\ row[t].plan \in Names /\ original[t] \in {0, Raw}
      BY DEF IInv, TypeOK
  <1>2. /\ Go(t, NextStep(t)) /\ UNCHANGED <<remote, row, original, interruptions>>
        /\ row[t].state = "materializing" /\ shown[t] # Removed
      BY DEF Look
  <1>3. NextStep(t) \in {"move", "rename", "clean", "none"}
      BY DEF NextStep
  <1>4. NextStep(t) = "move" => shown[t] = row[t].plan
      BY DEF NextStep
  <1>5. NextStep(t) = "clean" => shown[t] \in Gone
      BY <1>1 DEF NextStep, TaskInv, Tracked
  <1>6. NextStep(t) = "clean" => target[row[t].plan] = t
      BY <1>1, <1>5 DEF TaskInv, Tracked, Arrived
  <1> HIDE DEF NextStep
  <1> QED BY <1>1, <1>2, <1>3, <1>4, <1>6, MovesOn DEF Steps

LEMMA RenameKeeps == ASSUME IInv, NEW t \in Tasks, Rename(t) PROVE IInv'
  <1>1. /\ worker' = [worker EXCEPT ![t] = "wait_renamed"]
        /\ UNCHANGED <<target, listed, shown, row, original, interruptions>>
        /\ source' \in [Tasks -> Places]
        /\ \A u \in Tasks \ {t} : source'[u] = source[u]
        /\ source'[t] = source[t] \/ (source[t] = original[t] /\ source'[t] = row[t].plan)
      BY PlacesApart DEF IInv, TypeOK, Rename, Go
  <1>2. TypeOK'
      BY <1>1 DEF IInv, TypeOK, Steps
  <1>3. /\ TaskInv(t) /\ row[t].plan \in Names /\ original[t] \in {0, Raw} /\ worker'[t] = "wait_renamed"
        /\ row[t].state # "file_detected"
      BY <1>1 DEF IInv, TypeOK, TaskInv, Untouched, Rename
  <1>4. TaskInv(t)'
      BY <1>1, <1>3, PlacesApart DEF TaskInv, Untouched, Tracked, SeenRenamed,
         Arrived, Gone, Moved, Removed
  <1> QED BY <1>1, <1>2, <1>4, OwnTaskSuffices DEF IInv, TypeOK
LEMMA WaitRenamedKeeps == ASSUME IInv, NEW t \in Tasks, WaitRenamed(t) PROVE IInv'
  <1>1. row[t].state # "file_detected"
      BY DEF IInv, TaskInv, Untouched, WaitRenamed, WaitForFile
  <1>2. CASE shown[t] = row[t].plan
      BY <1>1, <1>2, MovesOn DEF WaitRenamed, WaitForFile, Steps
  <1>3. CASE shown[t] # row[t].plan
      BY <1>3, StartsOver DEF WaitRenamed, WaitForFile, Fail
  <1> QED BY <1>2, <1>3

LEMMA WaitMovedKeeps == ASSUME IInv, NEW t \in Tasks, WaitMoved(t) PROVE IInv'
  <1>1. row[t].state # "file_detected" /\ target[row[t].plan] = t
      BY DEF IInv, TaskInv, Untouched, Arrived, WaitMoved, WaitForFile
  <1>2. CASE row[t].plan \in listed
      BY <1>1, <1>2, MovesOn DEF WaitMoved, WaitForFile, Steps
  <1>3. CASE row[t].plan \notin listed
      BY <1>3, StartsOver DEF WaitMoved, WaitForFile, Fail
  <1> QED BY <1>2, <1>3

(* A listing shows the name of the move as gone, and the original one was  *)
(* gone before: the video has been moved.                                  *)
LEMMA CheckMovedKeeps == ASSUME IInv, NEW t \in Tasks, CheckMoved(t) PROVE IInv'
  <1>1. TaskInv(t) /\ worker[t] = "check_moved"
      BY DEF IInv, CheckMoved
  <1>2. row[t].state # "file_detected"
      BY <1>1 DEF TaskInv, Untouched
  <1>3. CASE shown[t] # row[t].plan /\ row[t].plan \in listed
    <2>1. shown[t] # original[t] /\ shown[t] \in Gone
        BY <1>1, <1>3 DEF TaskInv, SeenRenamed, Tracked
    <2>2. target[row[t].plan] = t
        BY <1>1, <2>1 DEF TaskInv, Tracked, Arrived
    <2> QED BY <1>2, <1>3, <2>1, <2>2, MovesOn DEF CheckMoved, Steps
  <1>4. CASE ~ (shown[t] # row[t].plan /\ row[t].plan \in listed)
      BY <1>4, StartsOver DEF CheckMoved, Fail
  <1> QED BY <1>3, <1>4

LEMMA MoveKeeps == ASSUME IInv, NEW t \in Tasks, Move(t) PROVE IInv'
  <1>1. /\ TaskInv(t) /\ worker[t] = "move" /\ row[t].plan \in Names /\ original[t] \in {0, Raw}
        /\ UNCHANGED <<listed, shown, row, original, interruptions>>
      BY DEF IInv, TypeOK, Move
  <1>2. row[t].state # "file_detected" /\ (shown[t] # original[t] \/ original[t] = row[t].plan)
      BY <1>1 DEF TaskInv, Untouched, SeenRenamed
  <1>3. CASE Go(t, "check_moved") /\ UNCHANGED <<target, source>>
      BY <1>1, <1>2, <1>3, MovesOn DEF Steps, remote
  <1>4. ASSUME NEW step \in {"wait_moved", "check_moved"}, Go(t, step),
               source[t] = row[t].plan, target[row[t].plan] = "free",
               target' = [target EXCEPT ![row[t].plan] = t],
               source' = [source EXCEPT ![t] = Moved]
        PROVE  IInv'
    <2>1. TypeOK'
        BY <1>1, <1>4, PlacesApart DEF IInv, TypeOK, Go, Steps, Gone
    <2>2. worker'[t] = step /\ source'[t] = Moved /\ target'[row[t].plan] = t
        BY <1>1, <1>4 DEF IInv, TypeOK, Go
    <2>3. TaskInv(t)'
        BY <1>1, <1>2, <2>2, PlacesApart DEF TaskInv, Untouched, Tracked,
           SeenRenamed, Arrived, Gone, Moved, Removed
    <2> QED BY <1>1, <1>4, <2>1, <2>3, OwnTaskSuffices DEF IInv, TypeOK, Go
  <1> QED BY <1>3, <1>4 DEF Move

LEMMA CleanKeeps == ASSUME IInv, NEW t \in Tasks, Clean(t) PROVE IInv'
  <1>1. /\ TaskInv(t) /\ row[t].plan \in Names /\ original[t] \in {0, Raw}
        /\ worker' = [worker EXCEPT ![t] = "record"]
        /\ UNCHANGED <<target, listed, shown, row, original, interruptions>>
        /\ source' \in [Tasks -> Places]
        /\ \A u \in Tasks \ {t} : source'[u] = source[u]
        /\ source'[t] \in {source[t], Removed}
      BY PlacesApart DEF IInv, TypeOK, Clean, Go, Gone
  <1>2. row[t].state # "file_detected" /\ target[row[t].plan] = t
      BY <1>1 DEF TaskInv, Untouched, Arrived, Clean
  <1>3. TypeOK' /\ worker'[t] = "record"
      BY <1>1 DEF IInv, TypeOK, Steps
  <1>4. TaskInv(t)'
      BY <1>1, <1>2, <1>3, PlacesApart DEF TaskInv, Untouched, Tracked, SeenRenamed,
         Arrived, Gone, Moved, Removed
  <1> QED BY <1>1, <1>3, <1>4, OwnTaskSuffices DEF IInv, TypeOK

LEMMA RecordKeeps == ASSUME IInv, NEW t \in Tasks, Record(t) PROVE IInv'
  <1>1. /\ TaskInv(t) /\ worker[t] = "record"
        /\ worker' = [worker EXCEPT ![t] = "none"] /\ row' = [row EXCEPT ![t].state = "moved"]
        /\ UNCHANGED <<remote, original, interruptions>>
      BY DEF IInv, Record, Go
  <1>2. row[t].state # "file_detected" /\ target[row[t].plan] = t
      BY <1>1 DEF TaskInv, Untouched, Arrived
  <1>3. /\ TypeOK' /\ worker'[t] = "none"
        /\ row'[t].state = "moved" /\ row'[t].plan = row[t].plan
      BY <1>1 DEF IInv, TypeOK, Steps, remote
  <1>4. TaskInv(t)'
      BY <1>1, <1>2, <1>3 DEF TaskInv, Untouched, Tracked, SeenRenamed, Arrived,
         remote, Gone, Moved, Removed
  <1> QED BY <1>1, <1>3, <1>4, OwnTaskSuffices DEF IInv, TypeOK, remote

LEMMA InterruptKeeps == ASSUME IInv, NEW t \in Tasks, Interrupt(t) PROVE IInv'
  <1>1. TypeOK'
      BY MaterializationAssumption DEF IInv, TypeOK, Interrupt, Go, remote, Steps
  <1>2. worker'[t] = "start" /\ TaskInv(t)
      BY DEF IInv, TypeOK, Interrupt, Go
  <1>3. TaskInv(t)'
      BY <1>2 DEF TaskInv, Untouched, Tracked, SeenRenamed, Arrived, Interrupt,
         remote, Gone, Moved, Removed
  <1> QED BY <1>1, <1>3, OwnTaskSuffices DEF IInv, TypeOK, Interrupt, Go, remote

LEMMA SourceCatchesUpKeeps == ASSUME IInv, NEW t \in Tasks, SourceCatchesUp(t) PROVE IInv'
  <1>1. /\ TypeOK' /\ shown'[t] = source[t] /\ TaskInv(t)
        /\ UNCHANGED <<target, listed, source, row, worker, original, interruptions>>
      BY DEF IInv, TypeOK, SourceCatchesUp
  <1>2. TaskInv(t)'
      BY <1>1 DEF TaskInv, Untouched, Tracked, SeenRenamed, Arrived, Gone, Moved,
         Removed
  <1> QED BY <1>1, <1>2, OwnTaskSuffices DEF IInv, TypeOK, SourceCatchesUp

LEMMA TargetCatchesUpKeeps == ASSUME IInv, TargetCatchesUp PROVE IInv'
  <1>1. TypeOK'
      BY DEF IInv, TypeOK, TargetCatchesUp, Taken
  <1>2. \A t \in Tasks : TaskInv(t)'
      BY Bystander DEF TargetCatchesUp
  <1> QED BY <1>1, <1>2 DEF IInv

LEMMA StepKeeps == IInv /\ [Next]_vars => IInv'
  <1> SUFFICES ASSUME IInv, [Next]_vars PROVE IInv'
      OBVIOUS
  <1>1. ASSUME NEW t \in Tasks, WorkerStep(t) PROVE IInv'
      BY <1>1, PrepareKeeps, LookKeeps, RenameKeeps, WaitRenamedKeeps, MoveKeeps,
         CheckMovedKeeps,
         WaitMovedKeeps, CleanKeeps, RecordKeeps DEF WorkerStep
  <1>2. ASSUME NEW t \in Tasks, Retry(t) PROVE IInv'
      BY <1>2, StartsOver DEF Retry
  <1>3. CASE UNCHANGED vars
    <2>1. TypeOK'
        BY <1>3 DEF IInv, TypeOK, vars
    <2>2. \A t \in Tasks : TaskInv(t)'
        BY <1>3, Bystander DEF vars
    <2> QED BY <2>1, <2>2 DEF IInv
  <1> QED BY <1>1, <1>2, <1>3, InterruptKeeps, SourceCatchesUpKeeps, TargetCatchesUpKeeps DEF Next

-----------------------------------------------------------------------------
(* Whatever is interrupted and however late listings are, every video is   *)
(* where its task's checkpoint and plan say it is or is yet to be.         *)
THEOREM InvariantHolds == Spec => []IInv
BY InitInv, StepKeeps, PTL DEF Spec

(* However many tasks want the same name, whatever answers are lost and    *)
(* however late the listings are, a finished task reports its own video    *)
(* (download_workflow.rs, execute_materialization).                        *)
THEOREM OutputAlwaysOwn == Spec => []OutputIsOwn
  <1>1. IInv => OutputIsOwn
      BY DEF IInv, TaskInv, Arrived, OutputIsOwn
  <1> QED BY <1>1, InvariantHolds, PTL

(* Wherever a worker is interrupted and starts over, no video is lost: the *)
(* directory is removed only after the move (execute_materialization).     *)
THEOREM VideoAlwaysKept == Spec => []VideoKept
  <1>1. IInv => VideoKept
      BY DEF IInv, TypeOK, TaskInv, Arrived, VideoKept, Gone
  <1> QED BY <1>1, InvariantHolds, PTL
================================================================================
