------------------------------- MODULE SkillCache -------------------------------
(* The bundled skills of the assistant (skill/installer.py): every start    *)
(* copies the skills of its package into a cache of the data directory,     *)
(* removes the caches of every other version and the old copies among the   *)
(* user's skills, and then finds its skills in the two directories.         *)
(* Processes of several versions may share a data directory, and a crash    *)
(* leaves a directory that was being removed or copied half done.           *)
EXTENDS Integers, FiniteSets

CONSTANTS Processes,    \* processes of the assistant
          PackageOf,    \* the package version each of them runs
          MaxCrashes    \* crashes of a process

ASSUME SkillCacheAssumption == MaxCrashes \in Nat

Packages == {PackageOf[p] : p \in Processes}

VARIABLES
    cached,     \* cache directory of each version: none, part or full
    temp,       \* the hidden copy that is to replace it: none, part or full
    copied,     \* the user's directory of one bundled skill: none, a copy made
                \* by an old version, the user's own, or the remnant of a removal
    stage,      \* where each process is in its start
    found,      \* the directory the process takes that skill from
    crossed,  \* processes whose start overlapped another one's, or that ran
                \* when a process of another version started
    crashes
skcVars == <<cached, temp, copied, stage, found, crossed, crashes>>

Preparing(p) == stage[p] \notin {"down", "ready"}
Goes(p, here, there) == stage[p] = here /\ stage' = [stage EXCEPT ![p] = there]

SkcInit ==
    /\ cached \in [Packages -> {"none", "full"}] /\ temp = [v \in Packages |-> "none"]
    /\ copied \in {"none", "copy", "own"}
    /\ stage = [p \in Processes |-> "down"] /\ found = [p \in Processes |-> "none"]
    /\ crossed = {} /\ crashes = 0

------------------------------------------------------------------------------
Boot(p) ==
    /\ Goes(p, "down", "check")
    /\ crossed' =
        LET up == {q \in Processes \ {p} : stage[q] # "down"}
            harmed == {q \in up : Preparing(q) \/ PackageOf[q] # PackageOf[p]}
        IN (crossed \ {p}) \union harmed \union IF \E q \in up : Preparing(q) THEN {p} ELSE {}
    /\ UNCHANGED <<cached, temp, copied, found, crashes>>

\* Mutant: a cache that is there is taken as it is.
CheckExists(p) ==
    /\ stage[p] = "check"
    /\ stage' = [stage EXCEPT ![p] = IF cached[PackageOf[p]] # "none" THEN "others" ELSE "clear"]
    /\ UNCHANGED <<cached, temp, copied, found, crossed, crashes>>

\* The cache is compared with the package, file by file.
Check(p) ==
    /\ stage[p] = "check"
    /\ stage' = [stage EXCEPT ![p] = IF cached[PackageOf[p]] = "full" THEN "others" ELSE "clear"]
    /\ UNCHANGED <<cached, temp, copied, found, crossed, crashes>>

ClearTemp(p) ==
    /\ Goes(p, "clear", "copy") /\ temp' = [temp EXCEPT ![PackageOf[p]] = "none"]
    /\ UNCHANGED <<cached, copied, found, crossed, crashes>>

\* The start fails where another process made or took the copy away; the copy is
\* removed in any case.
StartFails(p) ==
    /\ \/ stage[p] = "copy" /\ temp[PackageOf[p]] # "none"
       \/ stage[p] = "copying" /\ temp[PackageOf[p]] # "part"
       \/ stage[p] = "swap" /\ (temp[PackageOf[p]] = "none" \/ cached[PackageOf[p]] # "none")
    /\ stage' = [stage EXCEPT ![p] = "down"] /\ temp' = [temp EXCEPT ![PackageOf[p]] = "none"]
    /\ UNCHANGED <<cached, copied, found, crossed, crashes>>
BeginCopy(p) ==
    /\ temp[PackageOf[p]] = "none" /\ Goes(p, "copy", "copying")
    /\ temp' = [temp EXCEPT ![PackageOf[p]] = "part"]
    /\ UNCHANGED <<cached, copied, found, crossed, crashes>>
EndCopy(p) ==
    /\ temp[PackageOf[p]] = "part" /\ Goes(p, "copying", "drop")
    /\ temp' = [temp EXCEPT ![PackageOf[p]] = "full"]
    /\ UNCHANGED <<cached, copied, found, crossed, crashes>>
Drop(p) ==
    /\ Goes(p, "drop", "swap") /\ cached' = [cached EXCEPT ![PackageOf[p]] = "none"]
    /\ UNCHANGED <<temp, copied, found, crossed, crashes>>
Swap(p) ==
    LET v == PackageOf[p]
    IN /\ temp[v] # "none" /\ cached[v] = "none" /\ Goes(p, "swap", "others")
       /\ cached' = [cached EXCEPT ![v] = temp[v]] /\ temp' = [temp EXCEPT ![v] = "none"]
       /\ UNCHANGED <<copied, found, crossed, crashes>>

\* Every other entry of the cache root goes, the copies in progress too.
RemoveOthers(p) ==
    /\ Goes(p, "others", "migrate")
    /\ cached' = [v \in Packages |-> IF v = PackageOf[p] THEN cached[v] ELSE "none"]
    /\ temp' = [v \in Packages |-> "none"]
    /\ UNCHANGED <<copied, found, crossed, crashes>>

\* A copy an old version made among the user's skills is removed; anything else
\* there is the user's, and overrides the bundled skill.
Migrate(p) ==
    /\ Goes(p, "migrate", IF copied = "copy" THEN "remove" ELSE "discover")
    /\ UNCHANGED <<cached, temp, copied, found, crossed, crashes>>
RemoveCopy(p) ==
    /\ Goes(p, "remove", "discover") /\ copied' = "none"
    /\ UNCHANGED <<cached, temp, found, crossed, crashes>>

\* The user's directory is read last.  A remnant hides the bundled skill when
\* its SKILL.md is still there.
Discover(p) ==
    /\ Goes(p, "discover", "ready")
    /\ LET bundled == IF cached[PackageOf[p]] = "none" THEN "none" ELSE "bundled"
       IN \E from \in CASE copied = "none" -> {bundled}
                        [] copied = "remnant" -> {bundled, "user"}
                        [] OTHER -> {"user"} :
            found' = [found EXCEPT ![p] = from]
    /\ UNCHANGED <<cached, temp, copied, crossed, crashes>>

Exit(p) ==
    /\ Goes(p, "ready", "down") /\ found' = [found EXCEPT ![p] = "none"]
    /\ crossed' = crossed \ {p} /\ UNCHANGED <<cached, temp, copied, crashes>>
\* A directory that is being removed is left in part.
CrashStart(p) ==
    /\ Preparing(p) /\ crashes < MaxCrashes /\ crashes' = crashes + 1
    /\ stage' = [stage EXCEPT ![p] = "down"] /\ crossed' = crossed \ {p}
    /\ LET torn(of, vs) == [v \in Packages |-> IF v \in vs /\ of[v] # "none" THEN "part" ELSE of[v]]
       IN /\ cached' = CASE stage[p] = "drop" -> torn(cached, {PackageOf[p]})
                         [] stage[p] = "others" -> torn(cached, Packages \ {PackageOf[p]})
                         [] OTHER -> cached
          /\ copied' = IF stage[p] = "remove" /\ copied = "copy" THEN "remnant" ELSE copied
    /\ UNCHANGED <<temp, found>>

SkcNext ==
    \E p \in Processes :
        \/ Boot(p) \/ Check(p) \/ ClearTemp(p) \/ StartFails(p) \/ BeginCopy(p) \/ EndCopy(p)
        \/ Drop(p) \/ Swap(p) \/ RemoveOthers(p) \/ Migrate(p) \/ RemoveCopy(p) \/ Discover(p)
        \/ Exit(p) \/ CrashStart(p)
SkcSpec == SkcInit /\ [][SkcNext]_skcVars

------------------------------------------------------------------------------
\* Whatever crashes came before, a process that runs has a whole cache of its
\* version, and a skill nobody copied comes from there; starting another process
\* of the same version later does no harm (installer.py,
\* prepare_builtin_skills_cache).
CacheWhole ==
    \A p \in Processes :
        stage[p] = "ready" /\ p \notin crossed =>
            /\ cached[PackageOf[p]] = "full"
            /\ found[p] # "none"
=============================================================================
