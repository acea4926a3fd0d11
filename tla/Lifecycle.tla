------------------------------- MODULE Lifecycle -------------------------------
(* How the two Python processes come up and go down.  Each opens its parts   *)
(* one after the other, serves, and closes them in an order of its own; any  *)
(* of these steps can raise, and what is at work when a part is closed goes  *)
(* on with it.                                                               *)
EXTENDS Naturals, Sequences, SequencesExt, FiniteSets

CONSTANTS Frontends,   \* chat frontends, in the order in which they are created
          Telegram,    \* the one that has no shutdown of its own
          Detached,    \* those whose turns are tasks of their own (Feishu over a WebSocket)
          Notifying    \* notifications are configured

Shared == {"client", "events", "notifier", "parser", "validator", "pipeline", "server", "provider", "loop"}

ASSUME LifecycleAssumption ==
    /\ Frontends \in Seq(Range(Frontends)) /\ IsInjective(Frontends) /\ Notifying \in BOOLEAN
    /\ Range(Frontends) \cap Shared = {} /\ Detached \subseteq Range(Frontends)

VARIABLES
    host,       \* the process, "backend" or "assistant"
    phase,      \* "opening", "serving", "closing", "over"
    todo,       \* the parts still to be opened, or to be closed
    opened,     \* the parts that are open
    loops,      \* frontends whose chats have loops that are not shut down
    turns,      \* frontends with a turn at work
    quit,       \* why serving ended
    raised      \* a closing step raised, and the others were skipped
lifVars == <<host, phase, todo, opened, loops, turns, quit, raised>>

Chats == Range(Frontends)

Opens == IF host = "backend"
         THEN IF Notifying
              THEN <<"client", "events", "notifier", "parser", "validator", "pipeline", "server">>
              ELSE <<"client", "events", "parser", "validator", "pipeline", "server">>
         ELSE <<"provider", "loop">> \o Frontends

\* Mutant: shared parts are closed before those that work with them.
ClosesSharedFirst(asked) ==
    IF asked = "backend" THEN <<"events", "client", "pipeline", "parser", "validator", "notifier">>
    ELSE <<"provider", "loop">>
\* A frontend's shutdown closes the loops of its chats.
Closes(asked) ==
    IF asked = "backend" THEN <<"pipeline", "events", "client", "parser", "validator", "notifier">>
    ELSE Frontends \o <<"loop", "provider">>
Guarded == {"parser", "validator"}

\* What a part that is at work works with.
Uses(p) ==
    CASE p = "pipeline" -> {"client", "events", "parser", "validator"} \union (IF Notifying THEN {"notifier"} ELSE {})
      [] p = "server" -> {"pipeline", "client", "parser", "validator"}
      [] p \in Chats -> {"provider"}
      [] OTHER -> {}

LifInit ==
    /\ host \in {"backend", "assistant"} /\ phase = "opening" /\ todo = Opens
    /\ opened = {} /\ loops = {} /\ turns = {} /\ quit = "none" /\ raised = FALSE

------------------------------------------------------------------------------
Open ==
    /\ phase = "opening" /\ todo # <<>>
    /\ opened' = opened \union {Head(todo)} /\ todo' = Tail(todo)
    /\ phase' = IF todo' = <<>> THEN "serving" ELSE "opening"
    /\ UNCHANGED <<host, loops, turns, quit, raised>>
\* Nothing that was opened is closed when a later part cannot be, but the
\* client of an OpenList that does not answer as it should.
OpenFails ==
    /\ phase = "opening" /\ phase' = "over" /\ quit' = "refused" /\ todo' = <<>>
    /\ opened' = IF opened = {"client"} THEN {} ELSE opened
    /\ UNCHANGED <<host, loops, turns, raised>>

\* A message begins a turn; the first of a chat makes its loop.
TurnBegins(f) ==
    /\ f \in opened /\ f \notin turns /\ phase \in {"serving", "closing"}
    /\ turns' = turns \union {f} /\ loops' = loops \union {f}
    /\ UNCHANGED <<host, phase, todo, opened, quit, raised>>
TurnOver(f) ==
    /\ f \in turns /\ turns' = turns \ {f}
    /\ UNCHANGED <<host, phase, todo, opened, loops, quit, raised>>

\* The server stops listening and its requests are answered, or the frontends
\* are cancelled; a turn that is nobody's child goes on.
Asked ==
    /\ phase = "serving" /\ phase' = "closing" /\ quit' = "asked" /\ todo' = Closes(host)
    /\ opened' = opened \ ({"server"} \union Chats) /\ turns' = turns \intersect Detached
    /\ UNCHANGED <<host, loops, raised>>
\* gather hands on the first failure; the other frontends go on.
FrontendFails(f) ==
    /\ phase = "serving" /\ f \in opened
    /\ phase' = "closing" /\ quit' = "failure" /\ todo' = Closes(host)
    /\ opened' = opened \ {f} /\ turns' = turns \ ({f} \ Detached)
    /\ UNCHANGED <<host, loops, raised>>

\* shutdown of a frontend shuts the loops of its chats down.
Shutdown(p) ==
    IF p \in Chats THEN loops' = loops \ ({p} \ {Telegram}) /\ UNCHANGED opened
    ELSE opened' = opened \ {p} /\ UNCHANGED loops
Close ==
    /\ phase = "closing" /\ todo # <<>> /\ todo' = Tail(todo)
    /\ Shutdown(Head(todo))
    /\ phase' = IF todo' = <<>> THEN "over" ELSE "closing"
    /\ UNCHANGED <<host, turns, quit, raised>>
CloseRaises ==
    /\ phase = "closing" /\ todo # <<>> /\ Head(todo) \in opened \union loops /\ raised' = TRUE
    /\ IF Head(todo) \in Guarded
       THEN todo' = Tail(todo) /\ phase' = IF todo' = <<>> THEN "over" ELSE "closing"
       ELSE todo' = <<>> /\ phase' = "over"
    /\ UNCHANGED <<host, opened, loops, turns, quit>>

LifNext ==
    \/ Open \/ OpenFails \/ Asked \/ Close \/ CloseRaises
    \/ \E f \in Chats : TurnBegins(f) \/ TurnOver(f) \/ FrontendFails(f)
LifSpec == LifInit /\ [][LifNext]_lifVars

------------------------------------------------------------------------------
\* While the process comes up and goes down nothing is at work on a part that is
\* not open: not the pipeline, not a request, not a turn.  Only turns that no
\* frontend waits for, or that a failed frontend left behind, outlive the provider.
UsedWhileOpen ==
    phase # "over" =>
        /\ \A p \in opened \ Chats : Uses(p) \subseteq opened
        /\ \A f \in turns : Uses(f) \subseteq opened \/ f \in Detached \/ quit = "failure"

\* Once it is down without an error nothing is left open but loops that have no
\* owner any more: those of Telegram's chats, and of turns that went on.
NothingLeftOpen ==
    phase = "over" /\ quit = "asked" /\ ~raised =>
        opened = {} /\ loops \subseteq Detached \union {Telegram}

OrderlyEnd == UsedWhileOpen /\ NothingLeftOpen
=============================================================================
