---------------------------- MODULE DownloadLedger ----------------------------
(***************************************************************************)
(* What a user of op-ani may rely on across crashes: every accepted task   *)
(* is on the ledger until it failed, was withdrawn with its subscription,  *)
(* or its release is in the library.  There is no process, no queue and no *)
(* restart at this level; IngestionPipeline implements it.                 *)
(***************************************************************************)
CONSTANTS Tasks, Urls, None

VARIABLES
    status,     \* status[t]: "new", "accepted", "failed" or "over"
    urlOf,      \* urlOf[t]: what task t downloads
    withdrawn,  \* tasks a cancellation ever reached
    library     \* recorded downloads

ledgerVars == <<status, urlOf, withdrawn, library>>

(* Nobody else is downloading it, cancelled tasks aside.                   *)
Unclaimed(t, url) ==
    ~\E u \in Tasks \ withdrawn :
        u # t /\ status[u] = "accepted" /\ urlOf[u] = url

Accept(t, url) ==
    /\ status[t] = "new"
    /\ Unclaimed(t, url)
    /\ status' = [status EXCEPT ![t] = "accepted"]
    /\ urlOf' = [urlOf EXCEPT ![t] = url]
    /\ UNCHANGED <<withdrawn, library>>

Fail(S) ==
    /\ S # {}
    /\ \A t \in S : status[t] = "accepted"
    /\ status' = [t \in Tasks |-> IF t \in S THEN "failed" ELSE status[t]]
    /\ UNCHANGED <<urlOf, withdrawn, library>>

Retry(t) ==
    /\ status[t] = "failed"
    /\ Unclaimed(t, urlOf[t])
    /\ status' = [status EXCEPT ![t] = "accepted"]
    /\ UNCHANGED <<urlOf, withdrawn, library>>

Record(t) ==
    /\ status[t] = "accepted" \/ t \in withdrawn
    /\ library' = library \cup {urlOf[t]}
    /\ UNCHANGED <<status, urlOf, withdrawn>>

Finish(t) ==
    /\ status[t] = "accepted"
    /\ urlOf[t] \in library
    /\ status' = [status EXCEPT ![t] = "over"]
    /\ UNCHANGED <<urlOf, withdrawn, library>>

Withdraw(S) ==
    /\ S # {}
    /\ \A t \in S : status[t] \in {"accepted", "failed"} \/ t \in withdrawn
    /\ status' = [t \in Tasks |-> IF t \in S THEN "over" ELSE status[t]]
    /\ withdrawn' = withdrawn \cup S
    /\ UNCHANGED <<urlOf, library>>

(* The rename and notification stages do not notice a cancellation.        *)
Revive(t) ==
    /\ t \in withdrawn
    /\ status[t] = "over"
    /\ \E outcome \in {"accepted", "failed"} : status' = [status EXCEPT ![t] = outcome]
    /\ UNCHANGED <<urlOf, withdrawn, library>>

LedgerInit ==
    /\ status = [t \in Tasks |-> "new"]
    /\ urlOf = [t \in Tasks |-> None]
    /\ withdrawn = {}
    /\ library = {}

LedgerNext ==
    \/ \E t \in Tasks, url \in Urls : Accept(t, url)
    \/ \E S \in SUBSET Tasks : Fail(S) \/ Withdraw(S)
    \/ \E t \in Tasks : Retry(t) \/ Record(t) \/ Finish(t) \/ Revive(t)

LedgerSpec == LedgerInit /\ [][LedgerNext]_ledgerVars

===============================================================================
