------------------------------- MODULE Messengers -------------------------------
(* How messages reach the assistant from the two platforms it listens to.    *)
(* Feishu delivers an event until it is acknowledged, over a webhook that    *)
(* answers when the whole turn is over or over a websocket that answers at   *)
(* once, and the messenger drops the ids it has seen; WeChat hands out what  *)
(* came after a cursor, and the messenger takes one message after the other. *)
(* Whatever listens, one failure ends the whole program, which starts anew   *)
(* with empty memory.                                                        *)
EXTENDS Integers, Sequences, SequencesExt, FiniteSets, FiniteSetsExt

CONSTANTS FeishuMessages,   \* messages on Feishu
          SeenLimit,        \* ids kept before half of them are dropped: 2048
          SeenKept,         \* and how many of them stay: 1024
          WechatMessages,   \* number of messages on WeChat
          MaxRuns           \* starts of the program

ASSUME MessengersAssumption ==
    /\ SeenKept \in 1 .. SeenLimit
    /\ {SeenLimit, WechatMessages, MaxRuns} \subseteq Nat

VARIABLES
    webhook,    \* connection_mode: a webhook, or else a websocket
    due,        \* Feishu messages not acknowledged yet
    seenIds,    \* _seen_message_ids
    atWork,     \* Feishu messages whose handler runs
    begun,      \* how often each was given to its handler
    forgot,     \* how often its id was forgotten since: dropped, or lost with the program
    arrived,    \* WeChat messages sent so far
    cursor,     \* sync_buf, as the number of messages before it
    polled,     \* the batch that is left to handle
    busy,       \* the WeChat message whose handler runs, or 0
    handled,    \* WeChat messages handled in this run, in order
    run         \* starts so far; the program is up
msgVars == <<webhook, due, seenIds, atWork, begun, forgot, arrived, cursor, polled, busy, handled, run>>
feishuVars == <<webhook, due, seenIds, atWork, begun, forgot>>
wechatVars == <<arrived, cursor, polled, busy, handled>>

MsgInit ==
    /\ webhook \in BOOLEAN /\ due = FeishuMessages /\ seenIds = {} /\ atWork = {}
    /\ begun = [m \in FeishuMessages |-> 0] /\ forgot = begun
    /\ arrived = 0 /\ cursor = 0 /\ polled = <<>> /\ busy = 0 /\ handled = <<>> /\ run = 1

------------------------------------------------------------------------------
\* Feishu.
\* Mutant: the id is recorded, but never found again.
IsDuplicateNever(m) == FALSE
IsDuplicate(m) == m \in seenIds

\* Above the limit an arbitrary part of the set is kept: sets have no order.
Remembered(ids) == IF Cardinality(ids) > SeenLimit THEN kSubset(SeenKept, ids) ELSE {ids}
\* The event comes, for the first time or again; its id is recorded before it is
\* handled.  A duplicate is acknowledged though the first may still be at work.
Deliver(m) ==
    /\ m \in due
    /\ IF IsDuplicate(m) THEN due' = due \ {m} /\ UNCHANGED <<seenIds, atWork, begun, forgot>>
       ELSE /\ \E kept \in Remembered(seenIds \union {m}) :
                 /\ seenIds' = kept
                 /\ forgot' = [x \in FeishuMessages |->
                        IF x \in (seenIds \union {m}) \ kept THEN forgot[x] + 1 ELSE forgot[x]]
            /\ begun' = [begun EXCEPT ![m] = @ + 1] /\ atWork' = atWork \union {m}
            /\ due' = IF webhook THEN due ELSE due \ {m}
    /\ begun'[m] <= 1 + MaxRuns
    /\ UNCHANGED <<webhook, wechatVars, run>>
\* The turn is over, and with it the webhook's request.
TurnOver(m) ==
    /\ m \in atWork /\ atWork' = atWork \ {m} /\ due' = due \ {m}
    /\ UNCHANGED <<webhook, seenIds, begun, forgot, wechatVars, run>>
\* The handler raises: the webhook answers with an error, and the platform tries again.
TurnFails(m) ==
    /\ m \in atWork /\ atWork' = atWork \ {m}
    /\ UNCHANGED <<webhook, due, seenIds, begun, forgot, wechatVars, run>>

------------------------------------------------------------------------------
\* WeChat.
Send ==
    /\ arrived < WechatMessages /\ arrived' = arrived + 1
    /\ UNCHANGED <<feishuVars, cursor, polled, busy, handled, run>>
\* The cursor moves to the end of the batch before any of it is handled.
Poll ==
    /\ polled = <<>> /\ busy = 0
    /\ \E upto \in cursor .. arrived :
        /\ upto > cursor /\ polled' = [i \in 1 .. upto - cursor |-> cursor + i] /\ cursor' = upto
    /\ UNCHANGED <<feishuVars, arrived, busy, handled, run>>
Handle ==
    /\ polled # <<>> /\ busy = 0 /\ busy' = Head(polled) /\ polled' = Tail(polled)
    /\ UNCHANGED <<feishuVars, arrived, cursor, handled, run>>
Handled ==
    /\ busy # 0 /\ busy' = 0 /\ handled' = Append(handled, busy)
    /\ UNCHANGED <<feishuVars, arrived, cursor, polled, run>>

\* A poll that times out, a handler that raises, or the program killed: every
\* frontend ends.  The service may hand out again what an earlier cursor covered.
Restart ==
    /\ run < MaxRuns /\ run' = run + 1
    /\ forgot' = [m \in FeishuMessages |-> IF m \in seenIds THEN forgot[m] + 1 ELSE forgot[m]]
    /\ seenIds' = {} /\ atWork' = {}
    /\ cursor' \in {0, cursor} /\ polled' = <<>> /\ busy' = 0 /\ handled' = <<>>
    /\ UNCHANGED <<webhook, due, begun, arrived>>

MsgNext ==
    \/ \E m \in FeishuMessages : Deliver(m) \/ TurnOver(m) \/ TurnFails(m)
    \/ Send \/ Poll \/ Handle \/ Handled \/ Restart
MsgSpec == MsgInit /\ [][MsgNext]_msgVars

------------------------------------------------------------------------------
\* However often an event comes, while its turn runs, after it failed or next to
\* others, its turn runs again only when its id was forgotten in between; and what
\* WeChat hands out in one run is handled in the order it was sent, without a gap
\* (feishu.py, _is_duplicate; wechat_ilink.py, listen).
HandledOnce ==
    /\ \A m \in FeishuMessages : begun[m] <= 1 + forgot[m]
    /\ \A i \in 2 .. Len(handled) : handled[i] = handled[i - 1] + 1
    /\ busy # 0 /\ handled # <<>> => busy = Last(handled) + 1
=============================================================================
