------------------------------- MODULE ToolBatches -------------------------------
(* The tool calls of one answer of the model (tool/orchestrator.py): calls   *)
(* that only read run concurrently, up to a limit, each of the others runs   *)
(* alone, and the results reach the loop one by one as they come.  The loop  *)
(* may stop listening after any of them.  One call may be a sub-agent        *)
(* (core/subagent.py), a loop of its own whose answers have calls too, which *)
(* an orchestrator of its own runs.                                          *)
EXTENDS Integers, Sequences, SequencesExt, FiniteSets

CONSTANTS MaxCalls,         \* calls in an answer
          MaxConcurrency,   \* MAX_TOOL_USE_CONCURRENCY
          MaxAnswers,       \* answers with calls
          MaxAgentRounds    \* max_rounds of a sub-agent

ASSUME ToolBatchesAssumption ==
    /\ MaxConcurrency \in Nat \ {0} /\ {MaxCalls, MaxAnswers, MaxAgentRounds} \subseteq Nat

VARIABLES
    \* Of the loop and of its sub-agent:
    calls,      \* the calls of the answer, in order: "read" ones are concurrency safe
    from, upto, \* the batch at work, from its first call to its last
    running,    \* calls at work
    results,    \* results not taken yet
    told,       \* calls whose result is known, in order
    rounds,     \* answers the sub-agent has had
    stray,      \* calls given up whose thread still runs
    answers
tbVars == <<calls, from, upto, running, results, told, rounds, stray, answers>>

Levels == {"loop", "agent"}
\* A sub-agent has no tool for another one.
Available(l) == IF l = "loop" THEN {"read", "write", "agent"} ELSE {"read", "write"}

\* Mutant: a call joins the batch before it when that one is safe.
PartitionByPrevious(kinds, first, last) ==
    /\ first < last => kinds[first] = "read"
    /\ last < Len(kinds) => kinds[first] # "read"
\* Consecutive safe calls form one batch, every other call its own.
Partition(kinds, first, last) ==
    /\ \A i \in first + 1 .. last : kinds[i - 1] = "read" /\ kinds[i] = "read"
    /\ last < Len(kinds) => ~(kinds[last] = "read" /\ kinds[last + 1] = "read")
\* The batch that starts at first becomes the one at work.
BeginBatch(l, kinds, first) ==
    /\ from' = [from EXCEPT ![l] = first]
    /\ \E last \in 0 .. Len(kinds) :
        /\ IF first > Len(kinds) THEN last = Len(kinds)
           ELSE first <= last /\ Partition(kinds, first, last)
        /\ upto' = [upto EXCEPT ![l] = last]

TbInit ==
    /\ calls = [l \in Levels |-> <<>>] /\ from = [l \in Levels |-> 1] /\ upto = [l \in Levels |-> 0]
    /\ running = [l \in Levels |-> {}] /\ results = [l \in Levels |-> <<>>] /\ told = [l \in Levels |-> <<>>]
    /\ rounds = 0 /\ stray = 0 /\ answers = 0

Idle(l) == from[l] > Len(calls[l])
Batch(l) == from[l] .. upto[l]
Safe(l) == calls[l][from[l]] = "read"
Known(l) == ToSet(results[l]) \union ToSet(told[l])
AgentWorks == \E call \in running["loop"] : calls["loop"][call] = "agent"

Requests(l) ==
    /\ Idle(l)
    /\ \E kinds \in SeqOf(Available(l), MaxCalls) \ {<<>>} :
        calls' = [calls EXCEPT ![l] = kinds] /\ BeginBatch(l, kinds, 1)
    /\ told' = [told EXCEPT ![l] = <<>>]
    /\ UNCHANGED <<running, results, stray>>
\* The model asks for calls.
AnswerArrives == answers < MaxAnswers /\ answers' = answers + 1 /\ Requests("loop") /\ UNCHANGED rounds
\* The model asks for calls in a round of the sub-agent.
AgentAsks ==
    /\ AgentWorks /\ rounds < MaxAgentRounds /\ rounds' = rounds + 1 /\ Requests("agent")
    /\ UNCHANGED answers

\* Safe calls wait for a place among the running ones, first come, first served.
BeginCall(l) ==
    /\ ~Idle(l) /\ (Safe(l) => Cardinality(running[l]) < MaxConcurrency)
    /\ \E call \in Batch(l) :
        /\ call \notin running[l] \union Known(l)
        /\ from[l] .. call - 1 \subseteq running[l] \union Known(l)
        /\ running' = [running EXCEPT ![l] = @ \union {call}]
        /\ rounds' = IF calls[l][call] = "agent" THEN 0 ELSE rounds
    /\ UNCHANGED <<calls, from, upto, results, told, stray, answers>>
\* A call returns, or fails: that is a result too.
EndCall(l) ==
    /\ \E call \in running[l] :
        /\ calls[l][call] # "agent" /\ running' = [running EXCEPT ![l] = @ \ {call}]
        /\ results' = [results EXCEPT ![l] = Append(@, call)]
    /\ UNCHANGED <<calls, from, upto, told, rounds, stray, answers>>
\* The sub-agent has its answer or its last round, or its provider fails, or its
\* time is up: its calls are cancelled then, but a thread of theirs runs on.
AgentEnds ==
    /\ \E call \in running["loop"] :
        /\ calls["loop"][call] = "agent"
        /\ running' = [running EXCEPT !["loop"] = @ \ {call}, !["agent"] = {}]
        /\ results' = [results EXCEPT !["loop"] = Append(@, call), !["agent"] = <<>>]
    /\ \E on \in 0 .. Cardinality(running["agent"]) : stray' = stray + on
    /\ calls' = [calls EXCEPT !["agent"] = <<>>]
    /\ from' = [from EXCEPT !["agent"] = 1] /\ upto' = [upto EXCEPT !["agent"] = 0]
    /\ told' = [told EXCEPT !["agent"] = <<>>]
    /\ UNCHANGED <<rounds, answers>>
\* A result is taken; after the last of a batch the next one begins.
TakeResult(l) ==
    /\ results[l] # <<>> /\ results' = [results EXCEPT ![l] = Tail(@)]
    /\ told' = [told EXCEPT ![l] = Append(@, Head(results[l]))]
    /\ IF Batch(l) \subseteq ToSet(told'[l]) THEN BeginBatch(l, calls[l], upto[l] + 1)
       ELSE UNCHANGED <<from, upto>>
    /\ UNCHANGED <<calls, running, rounds, stray, answers>>
\* After a result the loop sees a message that waits, or that the turn was
\* cancelled: the calls that wait never begin, and those that run are cancelled.
StopListening ==
    /\ ~Idle("loop") /\ told["loop"] # <<>>
    /\ \/ running["loop"] = {} /\ results["loop"] = <<>>
       \/ Batch("loop") \cap ToSet(told["loop"]) # {}
    /\ \E on \in 0 .. Cardinality(running["loop"]) : stray' = stray + on
    /\ from' = [from EXCEPT !["loop"] = Len(calls["loop"]) + 1]
    /\ upto' = [upto EXCEPT !["loop"] = Len(calls["loop"])]
    /\ running' = [running EXCEPT !["loop"] = {}] /\ results' = [results EXCEPT !["loop"] = <<>>]
    /\ UNCHANGED <<calls, told, rounds, answers>>
StrayEnds ==
    /\ stray > 0 /\ stray' = stray - 1
    /\ UNCHANGED <<calls, from, upto, running, results, told, rounds, answers>>

TbNext ==
    \/ AnswerArrives \/ AgentAsks \/ AgentEnds \/ StopListening \/ StrayEnds
    \/ \E l \in Levels : BeginCall(l) \/ EndCall(l) \/ TakeResult(l)
TbSpec == TbInit /\ [][TbNext]_tbVars

------------------------------------------------------------------------------
\* A call that changes something runs after every call before it has told its
\* result and before any call after it begins, whatever ran concurrently and in
\* whatever order the results came; and while a sub-agent has calls of its own,
\* the loop has no other call at work (orchestrator.py, partition_tool_calls).
WriteAlone ==
    /\ \A l \in Levels : \A call \in running[l] \union ToSet(results[l]) : calls[l][call] # "read" =>
        /\ running[l] \subseteq {call}
        /\ 1 .. call - 1 \subseteq ToSet(told[l]) /\ ToSet(told[l]) \subseteq 1 .. call - 1
    /\ running["agent"] \union ToSet(results["agent"]) # {} =>
        \E call \in running["loop"] : running["loop"] = {call} /\ calls["loop"][call] = "agent"
=============================================================================
