------------------------------- MODULE DreamLock -------------------------------
(***************************************************************************)
(* The file that keeps two memory consolidations of the assistant apart.   *)
(* It holds a process id, and its modification time is when memory was     *)
(* last consolidated.  Taking it is a check, a write and a read back in a  *)
(* thread, so that runs of one process interleave like those of several.   *)
(* It is not released: a failed run sets the time back.                    *)
(*                                                                         *)
(* Only manual runs (/dream) are modelled; the gates an automatic run      *)
(* passes before make it do less.                                          *)
(***************************************************************************)
EXTENDS Naturals

CONSTANTS
    Runs,           \* runs that may be under way together
    ProcessOf,      \* the process of each run
    StaleAge,       \* DREAM_LOCK_STALE_SECONDS
    MaxClock        \* bound on time

ASSUME DreamAssumption == StaleAge \in Nat \ {0} /\ MaxClock \in Nat

VARIABLES
    dreamClock,
    lockFile,    \* {} or {[mtime, pid]}
    dream,       \* [phase, prior, began] of each run
    alive,       \* processes that are running
    raced,       \* history variable: runs that took the lock while another took it
    trampled     \* history variable: a run that ended changed the lock of another
dreamVars == <<dreamClock, lockFile, dream, alive, raced, trampled>>

Processes == {ProcessOf[r] : r \in Runs}
NoDream == [phase |-> "idle", prior |-> 0, began |-> 0]
Taking == {"checked", "written"}
Running(r) == dream[r].phase = "running"
Stamp(r) == [mtime |-> dreamClock, pid |-> ProcessOf[r]]

-----------------------------------------------------------------------------
(* Mutant: the lock of a live process is taken over too early.             *)
HeldTooShortly == \E f \in lockFile : dreamClock - f.mtime + 1 < StaleAge /\ f.pid \in alive

(* A fresh lock of a live process.                                         *)
Held == \E f \in lockFile : dreamClock - f.mtime < StaleAge /\ f.pid \in alive

(* force_run and the first half of try_acquire: the prior time is kept.    *)
CheckLock(r) ==
    /\ dream[r].phase = "idle" /\ ProcessOf[r] \in alive
    /\ ~Held
    /\ \E prior \in IF lockFile = {} THEN {0} ELSE {f.mtime : f \in lockFile} :
        dream' = [dream EXCEPT ![r] = [phase |-> "checked", prior |-> prior, began |-> 0]]
    /\ LET others == {s \in Runs \ {r} : dream[s].phase \in Taking}
       IN  raced' = IF others = {} THEN raced \ {r} ELSE raced \cup {r} \cup others
    /\ UNCHANGED <<dreamClock, lockFile, alive, trampled>>

WriteLock(r) ==
    /\ dream[r].phase = "checked"
    /\ lockFile' = {Stamp(r)}
    /\ dream' = [dream EXCEPT ![r].phase = "written", ![r].began = dreamClock]
    /\ UNCHANGED <<dreamClock, alive, raced, trampled>>

(* The read back: the run begins if the file holds its process; a run that *)
(* was cancelled in the meantime leaves what its thread wrote.             *)
VerifyLock(r) ==
    /\ dream[r].phase = "written"
    /\ \/ /\ \E f \in lockFile : f.pid = ProcessOf[r]
          /\ dream' = [dream EXCEPT ![r].phase = "running"]
       \/ dream' = [dream EXCEPT ![r] = NoDream]
    /\ UNCHANGED <<dreamClock, lockFile, alive, raced, trampled>>

(* Does the end of run r change the lock while another run relies on it?   *)
Trample(r) ==
    trampled' = (trampled \/ \E s \in Runs \ {r} : dream[s].phase \in Taking \cup {"running"})

(* record_consolidation.                                                   *)
Consolidated(r) ==
    /\ Running(r)
    /\ lockFile' = {Stamp(r)}
    /\ dream' = [dream EXCEPT ![r] = NoDream]
    /\ Trample(r)
    /\ UNCHANGED <<dreamClock, alive, raced>>

(* rollback, whoever holds the lock by now.                                *)
ConsolidationFails(r) ==
    /\ Running(r)
    /\ lockFile' = IF dream[r].prior = 0 THEN {}
                   ELSE {[f EXCEPT !.mtime = dream[r].prior] : f \in lockFile}
    /\ dream' = [dream EXCEPT ![r] = NoDream]
    /\ Trample(r)
    /\ UNCHANGED <<dreamClock, alive, raced>>

(* The loop cancels the task on shutdown: no handler catches that.         *)
CancelDream(r) ==
    /\ Running(r)
    /\ dream' = [dream EXCEPT ![r] = NoDream]
    /\ UNCHANGED <<dreamClock, lockFile, alive, raced, trampled>>

ProcessDies(p) ==
    /\ p \in alive
    /\ alive' = alive \ {p}
    /\ dream' = [r \in Runs |-> IF ProcessOf[r] = p THEN NoDream ELSE dream[r]]
    /\ UNCHANGED <<dreamClock, lockFile, raced, trampled>>

DreamTick ==
    /\ dreamClock < MaxClock
    /\ dreamClock' = dreamClock + 1
    /\ UNCHANGED <<lockFile, dream, alive, raced, trampled>>

-----------------------------------------------------------------------------
DreamInit ==
    /\ dreamClock = 1 /\ lockFile = {} /\ dream = [r \in Runs |-> NoDream]
    /\ alive = Processes /\ raced = {} /\ trampled = FALSE

DreamNext ==
    \/ \E r \in Runs : \/ CheckLock(r) \/ WriteLock(r) \/ VerifyLock(r)
                       \/ Consolidated(r) \/ ConsolidationFails(r) \/ CancelDream(r)
    \/ \E p \in Processes : ProcessDies(p)
    \/ DreamTick

-----------------------------------------------------------------------------
(* Two consolidations write the memory at once only after they took the    *)
(* lock at the same moment, when one has run longer than the stale age, or *)
(* after a run that had lost the lock changed it as it ended.              *)
OverlapExplained ==
    \A r, s \in Runs :
        r # s /\ Running(r) /\ Running(s)
            => \/ {r, s} \cap raced # {}
               \/ \E o \in {r, s} : dreamClock - dream[o].began >= StaleAge
               \/ trampled
=============================================================================
