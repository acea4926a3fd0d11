------------------------------- MODULE AssistantMemory -------------------------------
(* The memory files of the assistant (memory/memory_dir.py) under the memory *)
(* tools of its chats (tool/builtin/memory_tool.py): every chat reads,       *)
(* writes, updates and deletes the same files, reading on the event loop and *)
(* writing in a thread that empties the file before it fills it.  The start  *)
(* of the program moves the files of the old layout into the directory.      *)
EXTENDS Integers, FiniteSets

CONSTANTS MemChats,     \* chats with a memory tool
          MemFiles,     \* topic files
          OldFile,      \* the one that the old layout's USER.md becomes
          Facts,        \* what is remembered
          MaxOps        \* operations that change a file

ASSUME AssistantMemoryAssumption == OldFile \in MemFiles /\ MaxOps \in Nat

VARIABLES
    there,      \* the files there are
    store,      \* the facts in each file
    oldUser,    \* the facts in USER.md, which stays where it is
    doing,      \* the operation of each chat, or {}
    viewed,     \* what each chat last read of each file
    noted,      \* facts each file is to hold by what its operations were told
    hurt,       \* files on which operations overlapped or one was cut short
    program,    \* down, moving the old file, or up
    memOps
memVars == <<there, store, oldUser, doing, viewed, noted, hurt, program, memOps>>

At(c, phases) == \E op \in doing[c] : op.phase \in phases
Op(c) == CHOOSE op \in doing[c] : TRUE
On(file) == {c \in MemChats : \E op \in doing[c] : op.file = file}

MemInit ==
    /\ there = {} /\ store = [f \in MemFiles |-> {}] /\ oldUser \in SUBSET Facts
    /\ doing = [c \in MemChats |-> {}] /\ viewed = [c \in MemChats |-> store]
    /\ noted = store /\ hurt = {} /\ program = "down" /\ memOps = 0

------------------------------------------------------------------------------
\* The start of the program: USER.md is taken over unless its file is there.
LaunchMemory ==
    /\ program = "down"
    /\ IF oldUser # {} /\ OldFile \notin there
       THEN program' = "moving" /\ there' = there \union {OldFile}
       ELSE program' = "up" /\ UNCHANGED there
    /\ UNCHANGED <<store, oldUser, doing, viewed, noted, hurt, memOps>>
MoveOld ==
    /\ program = "moving" /\ program' = "up"
    /\ store' = [store EXCEPT ![OldFile] = oldUser] /\ noted' = [noted EXCEPT ![OldFile] = oldUser]
    /\ UNCHANGED <<there, oldUser, doing, viewed, hurt, memOps>>

\* What the chat reads of a file goes into its conversation.
ReadMemory(c, file) ==
    /\ program = "up" /\ doing[c] = {} /\ viewed[c][file] # store[file]
    /\ viewed' = [viewed EXCEPT ![c][file] = store[file]]
    /\ UNCHANGED <<there, store, oldUser, doing, noted, hurt, program, memOps>>

\* The operations of one chat come one after the other.
BeginOp(c, op) ==
    /\ program = "up" /\ doing[c] = {} /\ memOps < MaxOps /\ memOps' = memOps + 1
    /\ doing' = [doing EXCEPT ![c] = {op}]
    /\ hurt' = hurt \union IF On(op.file) # {} THEN {op.file} ELSE {}
    /\ UNCHANGED <<there, store, oldUser, viewed, noted, program>>
\* write: the whole file is replaced.
BeginWrite(c, file, fact) ==
    BeginOp(c, [phase |-> "write", file |-> file, text |-> {fact}, told |-> {fact}])

\* Mutant: the new text is made from what the chat has read before.
NewTextFromView(c, file, gone, in) == (viewed[c][file] \ gone) \union {in}
\* update: one passage is replaced, in the text as it is at that moment, by a new
\* one that may repeat it.
NewText(c, file, gone, in) == (store[file] \ gone) \union {in}
BeginUpdate(c, file, gone, in) ==
    /\ store[file] # {} /\ gone \subseteq store[file] /\ in \notin gone
    /\ BeginOp(c, [phase |-> "write", file |-> file, text |-> NewText(c, file, gone, in),
                 told |-> (noted[file] \ gone) \union {in}])
BeginDelete(c, file) ==
    /\ file \in there /\ BeginOp(c, [phase |-> "delete", file |-> file, text |-> {}, told |-> {}])

\* The thread: the file is emptied, then filled.
Truncate(c) ==
    /\ At(c, {"write"}) /\ doing' = [doing EXCEPT ![c] = {[Op(c) EXCEPT !.phase = "fill"]}]
    /\ there' = there \union {Op(c).file} /\ store' = [store EXCEPT ![Op(c).file] = {}]
    /\ UNCHANGED <<oldUser, viewed, noted, hurt, program, memOps>>
Fill(c) ==
    /\ At(c, {"fill"}) /\ doing' = [doing EXCEPT ![c] = {}]
    /\ store' = [store EXCEPT ![Op(c).file] = Op(c).text]
    /\ noted' = [noted EXCEPT ![Op(c).file] = Op(c).told]
    /\ UNCHANGED <<there, oldUser, viewed, hurt, program, memOps>>
Unlink(c) ==
    /\ At(c, {"delete"}) /\ doing' = [doing EXCEPT ![c] = {}]
    /\ there' = there \ {Op(c).file} /\ store' = [store EXCEPT ![Op(c).file] = {}]
    /\ noted' = [noted EXCEPT ![Op(c).file] = {}]
    /\ UNCHANGED <<oldUser, viewed, hurt, program, memOps>>
\* The disk refuses; the failure is logged, and the chat is told that it worked.
Refused(c) ==
    /\ doing[c] # {} /\ doing' = [doing EXCEPT ![c] = {}]
    /\ hurt' = hurt \union IF At(c, {"fill"}) THEN {Op(c).file} ELSE {}
    /\ UNCHANGED <<there, store, oldUser, viewed, noted, program, memOps>>
\* The program ends between emptying a file and filling it, or at any time.
StopMemory ==
    /\ program # "down" /\ program' = "down"
    /\ hurt' = hurt \union {Op(c).file : c \in {x \in MemChats : At(x, {"fill"})}}
                    \union IF program = "moving" THEN {OldFile} ELSE {}
    /\ doing' = [c \in MemChats |-> {}] /\ viewed' = [c \in MemChats |-> [f \in MemFiles |-> {}]]
    /\ UNCHANGED <<there, store, oldUser, noted, memOps>>

MemNext ==
    \/ LaunchMemory \/ MoveOld \/ StopMemory
    \/ \E c \in MemChats :
        \/ Truncate(c) \/ Fill(c) \/ Unlink(c) \/ Refused(c)
        \/ \E file \in MemFiles :
            \/ ReadMemory(c, file) \/ BeginDelete(c, file)
            \/ \E in \in Facts :
                \/ BeginWrite(c, file, in)
                \/ \E gone \in {{}} \union {{x} : x \in Facts} : BeginUpdate(c, file, gone, in)
MemSpec == MemInit /\ [][MemNext]_memVars

------------------------------------------------------------------------------
\* Every file holds what the operations of all chats were told to save in it and
\* nothing else, whatever chat read it when: only operations that overlap on one
\* file, or that the end of the program cuts short, can lose a fact; and the old
\* layout's file never overwrites what is there (memory_tool.py, _action_update).
SavedStays ==
    \A file \in MemFiles \ hurt : On(file) = {} /\ program # "moving" => store[file] = noted[file]
=============================================================================
