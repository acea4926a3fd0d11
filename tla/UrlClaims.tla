------------------------------- MODULE UrlClaims -------------------------------
(***************************************************************************)
(* What the journal of the Rust download service is for: OpenList is asked *)
(* for a URL only by the task that holds the claim on it, once per task,   *)
(* and a claim is given up only when it is known what became of the call.  *)
(* DownloadService implements it across crashes, lost answers and retries. *)
(***************************************************************************)
CONSTANTS Tasks, Urls, None

VARIABLES
    holder,   \* holder[u]: the task that claims u
    outcome   \* outcome[t]: "none" before the call, then "unknown" until an answer

claimVars == <<holder, outcome>>

(* A new task claims a free URL, or one that OpenList accepted resumes.    *)
Take(t, u) ==
    /\ holder[u] = None
    /\ \A v \in Urls : holder[v] # t
    /\ outcome[t] \in {"none", "accepted"}
    /\ holder' = [holder EXCEPT ![u] = t]
    /\ UNCHANGED outcome

Call(t, u) ==
    /\ holder[u] = t
    /\ outcome[t] = "none"
    /\ outcome' = [outcome EXCEPT ![t] = "unknown"]
    /\ UNCHANGED holder

Learn(t) ==
    /\ outcome[t] = "unknown"
    /\ \E o \in {"accepted", "rejected"} : outcome' = [outcome EXCEPT ![t] = o]
    /\ UNCHANGED holder

GiveUp(u) ==
    /\ holder[u] # None
    /\ outcome[holder[u]] \in {"accepted", "rejected"}
    /\ holder' = [holder EXCEPT ![u] = None]
    /\ UNCHANGED outcome

ClaimInit ==
    /\ holder = [u \in Urls |-> None]
    /\ outcome = [t \in Tasks |-> "none"]

ClaimNext ==
    \/ \E t \in Tasks, u \in Urls : Take(t, u) \/ Call(t, u)
    \/ \E t \in Tasks : Learn(t)
    \/ \E u \in Urls : GiveUp(u)

ClaimSpec == ClaimInit /\ [][ClaimNext]_claimVars
===============================================================================
