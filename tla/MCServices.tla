------------------------------- MODULE MCServices -------------------------------
(* Seven small components side by side: each behaviour is one of them at  *)
(* work, and the others as they were born.                                 *)
EXTENDS ConfigStore, Notifications, EventManager, TtlCache, DreamLock, RemoteWaits, Lifecycle
CONSTANTS b1, b2, d1, d2, d3, p1, p2, tg, wx, fs
BotOrder == <<b1, b2>>
RunProcess == [r \in {d1, d2, d3} |-> IF r = d3 THEN p2 ELSE p1]
FrontendOrder == <<tg, wx, fs>>

VARIABLE part
vars == <<part, cfgVars, ntfVars, evtVars, ttlVars, dreamVars, wtsVars, lifVars>>

(* A manager that is down and a poller that is at its end take no step     *)
(* that fairness asks for.                                                 *)
NtfDown ==
    /\ manager = "down" /\ announcing = {} /\ queued = {} /\ sending = NoPass
    /\ batch = [b \in BotSet |-> {}] /\ arrived = batch /\ repeated = batch /\ doubted = batch
WtsDown ==
    /\ stage = "submitted" /\ poller = "failed" /\ misses = 0 /\ lastError = "none"
    /\ download = "failed" /\ forgotten = FALSE
    /\ transfers = [p \in Parts |-> "none"] /\ detected = 0 /\ upsets = 0 /\ restarts = 0

Init ==
    /\ part \in {"config", "notifications", "events", "cache", "dream", "waits", "lifecycle"}
    /\ CfgInit /\ EvtInit /\ TtlInit /\ DreamInit
    /\ IF part = "notifications" THEN NtfInit ELSE NtfDown
    /\ IF part = "waits" THEN WtsInit ELSE WtsDown
    /\ LifInit /\ (part # "lifecycle" => host = "backend")

Next ==
    \/ part = "config" /\ CfgNext /\ UNCHANGED <<part, ntfVars, evtVars, ttlVars, dreamVars, wtsVars, lifVars>>
    \/ part = "notifications" /\ NtfNext /\ UNCHANGED <<part, cfgVars, evtVars, ttlVars, dreamVars, wtsVars, lifVars>>
    \/ part = "events" /\ EvtNext /\ UNCHANGED <<part, cfgVars, ntfVars, ttlVars, dreamVars, wtsVars, lifVars>>
    \/ part = "cache" /\ TtlNext /\ UNCHANGED <<part, cfgVars, ntfVars, evtVars, dreamVars, wtsVars, lifVars>>
    \/ part = "dream" /\ DreamNext /\ UNCHANGED <<part, cfgVars, ntfVars, evtVars, ttlVars, wtsVars, lifVars>>
    \/ part = "waits" /\ WtsNext /\ UNCHANGED <<part, cfgVars, ntfVars, evtVars, ttlVars, dreamVars, lifVars>>
    \/ part = "lifecycle" /\ LifNext /\ UNCHANGED <<part, cfgVars, ntfVars, evtVars, ttlVars, dreamVars, wtsVars>>

Spec == Init /\ [][Next]_vars /\ WF_cfgVars(ScanStep) /\ NtfFairness /\ WtsFairness
=============================================================================
