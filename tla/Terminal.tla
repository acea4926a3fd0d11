------------------------------- MODULE Terminal -------------------------------
(* The terminal frontend of the assistant (TextualFrontend): one message    *)
(* pump that handles what is typed, the keys, the timers and the events of  *)
(* the turns one after the other, while each turn runs in a task of its own *)
(* and the tasks take turns with the loop's lock.                           *)
EXTENDS Integers, Sequences, SequencesExt, FiniteSets

CONSTANTS MaxTyped,     \* lines the user types
          MaxEscapes    \* times the user presses ESC

ASSUME TerminalAssumption == MaxTyped \in Nat /\ MaxEscapes \in Nat

None == 0

VARIABLES
    mailbox,    \* messages of the app, in order of arrival
    pump,       \* what the handler at work awaits
    tasks,      \* the turns' tasks, in order of creation
    current,    \* _processing_task, as an index into tasks
    token,      \* _cancel_token, by the task it was created for
    cancelled,  \* the tokens that were cancelled
    timers,     \* the force-cancel timers that run, by the task they were set for
    pending,      \* the loop's message queue
    talk,       \* whether the history's tool calls have their results
    typed, escapes,
    taken       \* lines that started a turn or were injected into one
tuiVars == <<mailbox, pump, tasks, current, token, cancelled, timers, pending, talk, typed, escapes, taken>>

Message(kind, line) == [kind |-> kind, line |-> line]
NewTask(line) == [at |-> "new", token |-> None, forced |-> FALSE, line |-> line]
Over(i) == tasks[i].at \in {"done", "never"}
Active == current # None /\ ~Over(current)
InLoop == {i \in DOMAIN tasks : tasks[i].at \in {"calling", "tools"}}
Cancelled(i) == tasks[i].token \in cancelled

TerminalInit ==
    /\ mailbox = <<>> /\ pump = "idle" /\ tasks = <<>> /\ current = None /\ token = None
    /\ cancelled = {} /\ timers = <<>> /\ pending = <<>> /\ talk = "paired"
    /\ typed = 0 /\ escapes = 0 /\ taken = {}

------------------------------------------------------------------------------
\* What reaches the app.
Type(kind) ==
    /\ typed < MaxTyped /\ typed' = typed + 1
    /\ mailbox' = Append(mailbox, Message(kind, typed'))
    /\ UNCHANGED <<pump, tasks, current, token, cancelled, timers, pending, talk, escapes, taken>>
PressEscape ==
    /\ escapes < MaxEscapes /\ escapes' = escapes + 1
    /\ mailbox' = Append(mailbox, Message("escape", None))
    /\ UNCHANGED <<pump, tasks, current, token, cancelled, timers, pending, talk, typed, taken>>
\* A task that was created three seconds ago runs.
TimerFires ==
    /\ timers # <<>> /\ tasks[Head(timers)].at # "new"
    /\ timers' = Tail(timers) /\ mailbox' = Append(mailbox, Message("force", Head(timers)))
    /\ UNCHANGED <<pump, tasks, current, token, cancelled, pending, talk, typed, escapes, taken>>

------------------------------------------------------------------------------
\* The handlers.
Got(kind) == pump = "idle" /\ mailbox # <<>> /\ Head(mailbox).kind = kind /\ mailbox' = Tail(mailbox)

RunTurn(line) ==
    /\ tasks' = Append(tasks, NewTask(line)) /\ current' = Len(tasks) + 1 /\ token' = Len(tasks) + 1
    /\ taken' = taken \union {line}
Enqueue(line) == pending' = Append(pending, line) /\ UNCHANGED <<tasks, current, token, taken>>

OnText ==
    /\ Got("text")
    /\ IF Active THEN Enqueue(Head(mailbox).line) ELSE RunTurn(Head(mailbox).line) /\ UNCHANGED pending
    /\ UNCHANGED <<pump, cancelled, timers, talk, typed, escapes>>

\* A command is a message like any other while a turn runs.
OnClear ==
    /\ Got("clear")
    /\ IF Active THEN Enqueue(Head(mailbox).line) /\ UNCHANGED talk
       ELSE /\ talk' = IF talk = "pending" THEN "dropped" ELSE "paired"
            /\ taken' = taken \union {Head(mailbox).line} /\ UNCHANGED <<pending, tasks, current, token>>
    /\ UNCHANGED <<pump, cancelled, timers, typed, escapes>>
OnCompact ==
    /\ Got("compact")
    /\ IF Active THEN Enqueue(Head(mailbox).line) /\ UNCHANGED pump
       ELSE /\ pump' = "compacting"
            /\ taken' = taken \union {Head(mailbox).line} /\ UNCHANGED <<pending, tasks, current, token>>
    /\ UNCHANGED <<cancelled, timers, talk, typed, escapes>>
\* Compaction replaces the whole history, or fails and leaves it alone.
CompactEnds ==
    /\ pump = "compacting" /\ pump' = "idle"
    /\ talk' \in {talk, IF talk = "pending" THEN "dropped" ELSE "paired"}
    /\ UNCHANGED <<mailbox, tasks, current, token, cancelled, timers, pending, typed, escapes, taken>>

\* Mutant: the sentinel starts the next message and forgets the others.
OnTurnCompleteFirstOnly ==
    /\ Got("complete")
    /\ IF pending = <<>> THEN current' = None /\ UNCHANGED <<tasks, token, taken, pending>>
       ELSE pending' = <<>> /\ RunTurn(Head(pending))
    /\ UNCHANGED <<pump, cancelled, timers, talk, typed, escapes>>

\* The sentinel of a turn, not necessarily of the current one.
OnTurnComplete ==
    /\ Got("complete")
    /\ IF pending = <<>> THEN current' = None /\ UNCHANGED <<tasks, token, taken, pending>>
       ELSE pending' = Tail(pending) /\ RunTurn(Head(pending))
    /\ UNCHANGED <<pump, cancelled, timers, talk, typed, escapes>>

OnEscape ==
    /\ Got("escape")
    /\ IF Active THEN /\ timers' = Append(timers, current)
                      /\ cancelled' = cancelled \union ({token} \ {None})
       ELSE UNCHANGED <<timers, cancelled>>
    /\ UNCHANGED <<pump, tasks, current, token, pending, talk, typed, escapes, taken>>
\* The timer is not stopped when the turn it was set for ends.
OnForce ==
    /\ Got("force")
    /\ tasks' = IF Active THEN [tasks EXCEPT ![current].forced = TRUE] ELSE tasks
    /\ UNCHANGED <<pump, current, token, cancelled, timers, pending, talk, typed, escapes, taken>>

------------------------------------------------------------------------------
\* The turns.
Advance(i, at) == tasks' = [tasks EXCEPT ![i].at = at] /\ UNCHANGED <<mailbox, token>>
\* However a turn ends, its finally clears the token and posts the sentinel.
Finish(i) ==
    /\ tasks' = [tasks EXCEPT ![i].at = "done"] /\ token' = None
    /\ mailbox' = Append(mailbox, Message("complete", None))

\* The task takes its token when it starts to run.
Begin(i) ==
    /\ tasks[i].at = "new" /\ ~tasks[i].forced
    /\ tasks' = [tasks EXCEPT ![i].at = "lock", ![i].token = token]
    /\ UNCHANGED <<mailbox, pump, current, token, cancelled, timers, pending, talk, typed, escapes, taken>>
\* The lock is fair: first come, first served.
Acquire(i) ==
    /\ tasks[i].at = "lock" /\ InLoop = {} /\ \A j \in 1 .. i - 1 : tasks[j].at # "lock"
    /\ Advance(i, "calling")
    /\ UNCHANGED <<pump, current, cancelled, timers, pending, talk, typed, escapes, taken>>

\* The model answers, fails or is interrupted; or it asks for tools.
Answered(i) ==
    /\ tasks[i].at = "calling" /\ Finish(i)
    /\ UNCHANGED <<pump, current, cancelled, timers, pending, talk, typed, escapes, taken>>
AsksForTools(i) ==
    /\ tasks[i].at = "calling" /\ ~Cancelled(i) /\ talk # "broken"
    /\ talk' = "pending" /\ Advance(i, "tools")
    /\ UNCHANGED <<pump, current, cancelled, timers, pending, typed, escapes, taken>>
\* All tools have ended, or the rest was skipped for a message or for ESC: every
\* call has its result, and what was queued follows.
ToolsEnd(i) ==
    /\ tasks[i].at = "tools"
    /\ talk' = IF talk = "pending" THEN "paired" ELSE "broken"
    /\ pending' = <<>> /\ taken' = taken \union ToSet(pending)
    /\ IF Cancelled(i) THEN Finish(i) ELSE Advance(i, "calling")
    /\ UNCHANGED <<pump, current, cancelled, timers, typed, escapes>>
\* A task that was force-cancelled ends where it waits.  One that never ran
\* does not even reach its finally.
ForcedToEnd(i) ==
    /\ tasks[i].forced /\ ~Over(i)
    /\ IF tasks[i].at = "new" THEN Advance(i, "never") ELSE Finish(i)
    /\ talk' = IF tasks[i].at # "tools" THEN talk ELSE IF talk = "pending" THEN "broken" ELSE "paired"
    /\ UNCHANGED <<pump, current, cancelled, timers, pending, typed, escapes, taken>>

TaskStep ==
    \E i \in DOMAIN tasks :
        Begin(i) \/ Acquire(i) \/ Answered(i) \/ AsksForTools(i) \/ ToolsEnd(i) \/ ForcedToEnd(i)
TerminalNext ==
    \/ (\E kind \in {"text", "clear", "compact"} : Type(kind)) \/ PressEscape \/ TimerFires
    \/ OnText \/ OnClear \/ OnCompact \/ CompactEnds \/ OnTurnComplete \/ OnEscape \/ OnForce
    \/ TaskStep
TerminalSpec == TerminalInit /\ [][TerminalNext]_tuiVars

------------------------------------------------------------------------------
\* The lines in the pump's mailbox, and whether a turn's sentinel is there.
LinesIn(box) == {box[k].line : k \in {j \in DOMAIN box : box[j].kind \in {"text", "clear", "compact"}}}
SentinelIn(box) == \E k \in DOMAIN box : box[k].kind = "complete"

\* Whatever the order in which lines, keys, timers and ends of turns reach the
\* pump, every line it has handled has been taken or waits in the queue of a turn
\* that will take it, or whose sentinel will; only a turn that was force-cancelled
\* before it ran has none.
LinesTaken ==
    /\ 1 .. typed \subseteq taken \union LinesIn(mailbox) \union ToSet(pending)
    /\ pending # <<>> => (\E i \in DOMAIN tasks : tasks[i].at # "done") \/ SentinelIn(mailbox)
=============================================================================
