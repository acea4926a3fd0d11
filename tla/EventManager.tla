------------------------------ MODULE EventManager ------------------------------
(***************************************************************************)
(* The event manager of the Python backend: publishing records an event    *)
(* and starts one task per subscriber; stopping cancels the tasks.         *)
(***************************************************************************)
EXTENDS Naturals, Sequences

CONSTANTS
    EventHandlers, \* handlers that subscribe to the one type of event
    MaxEvents,     \* bound: events that are published
    HistoryLimit

ASSUME EventAssumption == MaxEvents \in Nat /\ HistoryLimit \in Nat \ {0}

VARIABLES
    events,      \* "running"; "stopping": stop waits for what it cancelled; "stopped"
    subscribed,
    history,     \* the last events, by number
    published,   \* how many there were
    handling,    \* tasks <<handler, event>> that have not ended
    cancelled    \* those that stop cancelled and waits for
evtVars == <<events, subscribed, history, published, handling, cancelled>>

Subscribe(h) ==
    /\ h \notin subscribed
    /\ subscribed' = subscribed \cup {h}
    /\ UNCHANGED <<events, history, published, handling, cancelled>>

Unsubscribe(h) ==
    /\ h \in subscribed
    /\ subscribed' = subscribed \ {h}
    /\ UNCHANGED <<events, history, published, handling, cancelled>>

(* Mutant: events are dispatched until stop is through.                    *)
DispatchesUntilStopped == events # "stopped"

Dispatches == events = "running"

(* publish: the lock is never held across a wait, so this is one step.     *)
Publish ==
    /\ published < MaxEvents
    /\ published' = published + 1
    /\ history' = LET all == Append(history, published')
                  IN  IF Len(all) > HistoryLimit THEN Tail(all) ELSE all
    /\ handling' = IF Dispatches THEN handling \cup (subscribed \X {published'}) ELSE handling
    /\ UNCHANGED <<events, subscribed, cancelled>>

(* A handler returns, or raises: its publisher never hears of it.          *)
HandlerEnds(task) ==
    /\ task \in handling
    /\ handling' = handling \ {task}
    /\ UNCHANGED <<events, subscribed, history, published, cancelled>>

StopEvents ==
    /\ events = "running"
    /\ events' = "stopping"
    /\ cancelled' = handling
    /\ UNCHANGED <<subscribed, history, published, handling>>

(* The tasks stop has cancelled are over.                                  *)
EventsStopped ==
    /\ events = "stopping"
    /\ cancelled \cap handling = {}
    /\ events' = "stopped"
    /\ UNCHANGED <<subscribed, history, published, handling, cancelled>>

EvtInit ==
    /\ events = "running" /\ subscribed = {} /\ history = << >> /\ published = 0
    /\ handling = {} /\ cancelled = {}

EvtNext ==
    \/ \E h \in EventHandlers : Subscribe(h) \/ Unsubscribe(h)
    \/ Publish \/ StopEvents \/ EventsStopped
    \/ \E task \in handling : HandlerEnds(task)

-----------------------------------------------------------------------------
(* Once stop has returned no handler runs any more, whatever was published *)
(* while it waited for those it had cancelled.                             *)
StoppedIsQuiet == events = "stopped" => handling = {}
=============================================================================
