------------------------------- MODULE MCAssistant -------------------------------
(* The parts of the assistant side by side: each behaviour is one of them   *)
(* at work, and the others as they were born; a skill's includes and the    *)
(* calls of its tool, which do not look at them, are two parts.             *)
EXTENDS Conversation, Terminal, ToolBatches, SkillCache, SkillCatalog, Messengers,
        AssistantMemory, TLC
CONSTANTS k1, k2, k3, m1, m2, q1, q2, c1, c2, md, fa, fb, fi, y1, y2
Versions == (k1 :> "v1") @@ (k2 :> "v1") @@ (k3 :> "v2")

(* Tool calls are interchangeable.                                          *)
Symmetry == Permutations(ToolCalls)

VARIABLE part
vars == <<part, chatVars, tuiVars, tbVars, skcVars, sklVars, msgVars, memVars>>

Init ==
    /\ part \in {"chat", "terminal", "tools", "cache", "includes", "skill", "messengers", "memory"}
    /\ ConversationInit /\ (part # "chat" => resumable)
    /\ TerminalInit
    /\ TbInit
    /\ SkcInit /\ (part # "cache" => (copied = "none" /\ \A v \in Packages : cached[v] = "none"))
    /\ SklInit /\ (part # "includes" => \A f \in SkillFiles : links[f] = <<>>)
    /\ MsgInit /\ (part # "messengers" => webhook)
    /\ MemInit /\ (part # "memory" => oldUser = {})

Next ==
    \/ part = "chat" /\ ConversationNext
       /\ UNCHANGED <<part, tuiVars, tbVars, skcVars, sklVars, msgVars, memVars>>
    \/ part = "terminal" /\ TerminalNext
       /\ UNCHANGED <<part, chatVars, tbVars, skcVars, sklVars, msgVars, memVars>>
    \/ part = "tools" /\ TbNext
       /\ UNCHANGED <<part, chatVars, tuiVars, skcVars, sklVars, msgVars, memVars>>
    \/ part = "cache" /\ SkcNext
       /\ UNCHANGED <<part, chatVars, tuiVars, tbVars, sklVars, msgVars, memVars>>
    \/ part = "skill" /\ SklNext
       /\ UNCHANGED <<part, chatVars, tuiVars, tbVars, skcVars, msgVars, memVars>>
    \/ part = "includes" /\ ResolveIncludes
       /\ UNCHANGED <<part, chatVars, tuiVars, tbVars, skcVars, msgVars, memVars>>
    \/ part = "messengers" /\ MsgNext
       /\ UNCHANGED <<part, chatVars, tuiVars, tbVars, skcVars, sklVars, memVars>>
    \/ part = "memory" /\ MemNext
       /\ UNCHANGED <<part, chatVars, tuiVars, tbVars, skcVars, sklVars, msgVars>>

Spec == Init /\ [][Next]_vars
==============================================================================
