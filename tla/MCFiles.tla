-------------------------------- MODULE MCFiles --------------------------------
(* Files that must outlive the process that works on them, videos and       *)
(* transcripts: each behaviour is about one kind, the other is as it was.   *)
EXTENDS Materialization, Sessions, TLC
CONSTANTS t1, t2, t3

(* Tasks are interchangeable, and the checked properties are invariants.   *)
Symmetry == Permutations(Tasks)

VARIABLE part
filesVars == <<part, vars, sesVars>>

FilesInit ==
    /\ part \in {"videos", "transcripts"}
    /\ Init /\ (part # "videos" => target[0] = "free" /\ original = [t \in Tasks |-> 0])
    /\ SesInit /\ (part # "transcripts" => surface = "chat")

FilesNext ==
    \/ part = "videos" /\ Next /\ UNCHANGED <<part, sesVars>>
    \/ part = "transcripts" /\ SesNext /\ UNCHANGED <<part, vars>>

FilesSpec == FilesInit /\ [][FilesNext]_filesVars
================================================================================
