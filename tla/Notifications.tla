----------------------------- MODULE Notifications -----------------------------
(***************************************************************************)
(* The notification manager in batch mode: every completed download joins  *)
(* a queue per bot, and a worker sends each queue as one message, with     *)
(* retries, holding the manager's lock all the while.                      *)
(***************************************************************************)
EXTENDS Naturals, Sequences, SequencesExt

CONSTANTS
    Bots,           \* a sequence: the order in which the bots are served
    GoodBots,       \* those that answer again and again
    Titles,         \* the downloads that complete
    MaxAttempts     \* RetryingNotificationSink.max_retries

ASSUME NotificationAssumption ==
    Bots \in Seq(Range(Bots)) /\ IsInjective(Bots) /\ GoodBots \subseteq Range(Bots) /\ MaxAttempts \in Nat \ {0}

VARIABLES
    manager,     \* "up"; "draining": the pipeline is stopped; "stopping"; "down"
    announcing,  \* titles whose NotificationStage waits for the lock
    queued,      \* history variable: titles whose stage went on
    batch,       \* for each bot, the titles of its queue
    sending,     \* [bots, message, attempt] of the pass that holds the lock
    arrived,     \* history variable: for each bot, the titles that reached it
    repeated,    \* history variable: those that reached it twice
    doubted      \* history variable: those sent in a message whose answer was lost
ntfVars == <<manager, announcing, queued, batch, sending, arrived, repeated, doubted>>

BotSet == Range(Bots)
NoPass == [bots |-> << >>, message |-> {}, attempt |-> 0]
LockFree == sending = NoPass

(* The pass goes on with the next bot, whose queue makes the message of    *)
(* all attempts, or ends and frees the lock.                               *)
NextBot(bots) ==
    IF bots = << >> THEN NoPass
    ELSE [bots |-> bots, message |-> batch[Head(bots)], attempt |-> 1]

(* What the message leaves behind when it arrives.                         *)
Arrive(b) ==
    /\ repeated' = [repeated EXCEPT ![b] = @ \cup (arrived[b] \cap sending.message)]
    /\ arrived' = [arrived EXCEPT ![b] = @ \cup sending.message]
Doubt(b) == doubted' = [doubted EXCEPT ![b] = @ \cup sending.message]
Sending(b) == ~LockFree /\ b = Head(sending.bots) /\ sending.message # {}

-----------------------------------------------------------------------------
(* The notification stage has a finished download.                         *)
Announce(t) ==
    /\ manager = "up"
    /\ t \notin queued \cup announcing
    /\ announcing' = announcing \cup {t}
    /\ UNCHANGED <<manager, queued, batch, sending, arrived, repeated, doubted>>

(* Mutant: the queues are filled without the lock.                         *)
EnqueueUnlocked(t) ==
    /\ t \in announcing
    /\ announcing' = announcing \ {t}
    /\ queued' = queued \cup {t}
    /\ batch' = [b \in BotSet |-> batch[b] \cup {t}]
    /\ UNCHANGED <<manager, sending, arrived, repeated, doubted>>

(* send_download_complete_notification gets the lock.                      *)
Enqueue(t) ==
    /\ t \in announcing
    /\ LockFree
    /\ announcing' = announcing \ {t}
    /\ queued' = queued \cup {t}
    /\ batch' = [b \in BotSet |-> batch[b] \cup {t}]
    /\ UNCHANGED <<manager, sending, arrived, repeated, doubted>>

(* The worker has slept for the interval and gets the lock.                *)
StartPass ==
    /\ manager \in {"up", "draining"}
    /\ LockFree
    /\ sending' = NextBot(Bots)
    /\ UNCHANGED <<manager, announcing, queued, batch, arrived, repeated, doubted>>

(* A bot without a queue is passed over.                                   *)
SkipBot ==
    /\ ~LockFree
    /\ sending.message = {}
    /\ sending' = NextBot(Tail(sending.bots))
    /\ UNCHANGED <<manager, announcing, queued, batch, arrived, repeated, doubted>>

(* The bot answers that it has the message: its queue is cleared.          *)
Deliver(b) ==
    /\ Sending(b)
    /\ Arrive(b)
    /\ batch' = [batch EXCEPT ![b] = {}]
    /\ sending' = NextBot(Tail(sending.bots))
    /\ UNCHANGED <<manager, announcing, queued, doubted>>

(* Mutant: a bot that fails ends the pass.                                 *)
RetryOrEndPass ==
    sending' = IF sending.attempt < MaxAttempts THEN [sending EXCEPT !.attempt = @ + 1]
               ELSE NoPass

(* After the last attempt the queue is kept for the next pass.             *)
RetryOrNext ==
    sending' = IF sending.attempt < MaxAttempts THEN [sending EXCEPT !.attempt = @ + 1]
               ELSE NextBot(Tail(sending.bots))

(* An attempt fails: nothing arrives, or it arrives and the answer is lost.*)
Attempt(b) ==
    /\ Sending(b)
    /\ \/ UNCHANGED <<arrived, repeated, doubted>>
       \/ Arrive(b) /\ Doubt(b)
    /\ RetryOrNext
    /\ UNCHANGED <<manager, announcing, queued, batch>>

-----------------------------------------------------------------------------
(* The backend stops the pipeline first: a stage that waits for the lock   *)
(* is cancelled and its task resumes after a restart.                      *)
StopPipeline ==
    /\ manager = "up"
    /\ manager' = "draining"
    /\ announcing' = {}
    /\ UNCHANGED <<queued, batch, sending, arrived, repeated, doubted>>

(* stop cancels the worker, in the middle of a message or not, and sends   *)
(* the queues once more.                                                   *)
StopManager ==
    /\ manager = "draining"
    /\ manager' = "stopping"
    /\ sending' = NextBot(Bots)
    /\ \/ UNCHANGED <<arrived, repeated, doubted>>
       \/ \E b \in BotSet : Sending(b) /\ Arrive(b) /\ Doubt(b)
    /\ UNCHANGED <<announcing, queued, batch>>

Down ==
    /\ manager = "stopping" /\ LockFree
    /\ manager' = "down"
    /\ UNCHANGED <<announcing, queued, batch, sending, arrived, repeated, doubted>>

-----------------------------------------------------------------------------
NtfInit ==
    /\ manager = "up" /\ announcing = {} /\ queued = {} /\ sending = NoPass
    /\ batch = [b \in BotSet |-> {}] /\ arrived = batch /\ repeated = batch /\ doubted = batch

NtfNext ==
    \/ \E t \in Titles : Announce(t) \/ Enqueue(t)
    \/ StartPass \/ SkipBot \/ \E b \in BotSet : Deliver(b) \/ Attempt(b)
    \/ StopPipeline \/ StopManager \/ Down

(* The event loop goes on, and an attempt ends: each bot has a timeout.    *)
(* asyncio's lock is fair to who waits.  A good bot answers now and then.  *)
NtfFairness ==
    /\ WF_ntfVars(StartPass) /\ WF_ntfVars(SkipBot) /\ WF_ntfVars(Down)
    /\ \A t \in Titles : SF_ntfVars(Enqueue(t))
    /\ \A b \in BotSet : WF_ntfVars(Deliver(b) \/ Attempt(b))
    /\ \A b \in GoodBots : SF_ntfVars(Deliver(b))
NtfSpec == NtfInit /\ [][NtfNext]_ntfVars /\ NtfFairness

-----------------------------------------------------------------------------
(* A download whose stage went on is, for every bot, in its queue or has   *)
(* reached it: no message swallows what was added while it was sent.  The  *)
(* bot hears of it twice only after an answer was lost or the manager was  *)
(* stopped in the middle of a message.                                     *)
TitlesKept ==
    \A b \in BotSet : queued \subseteq batch[b] \cup arrived[b] /\ repeated[b] \subseteq doubted[b]

(* A bot that answers now and then gets every title, whatever the others   *)
(* do, unless the manager stops.                                           *)
GoodBotServed ==
    \A b \in GoodBots, t \in Titles :
        t \in queued ~> t \in arrived[b] \/ manager \in {"stopping", "down"}
=============================================================================
