----------------------------- MODULE Conversation -----------------------------
(* One chat of the assistant: the messaging and Telegram frontends, the     *)
(* queue of messages that arrive during a turn, and the agentic loop with   *)
(* its history, its tool calls, its compaction and its error recovery.      *)
(* Every await is a point where another message or a /clear comes in.       *)
EXTENDS Integers, Sequences, SequencesExt

CONSTANTS MaxTexts,      \* messages the user sends
          ToolCalls,     \* ids of the tool calls a reply can hold
          MaxRounds,     \* rounds of a turn
          MaxCuts,       \* MAX_OUTPUT_TOKENS_RECOVERY_LIMIT
          MaxUpsets      \* /clears, failed turns and truncations of a behaviour

ASSUME ConversationAssumption == MaxTexts \in Nat /\ MaxRounds \in Nat \ {0} /\ MaxUpsets \in Nat

NoText == 0
Texts == 1 .. MaxTexts   \* in the order in which they are sent

VARIABLES
    known,        \* the chat has a loop
    opener,       \* the message whose handler still resumes the chat's session
    resumable,    \* an earlier session of the chat is on disk
    active,       \* the chat is in _active_turns
    queue,        \* messages that arrived during a turn
    waiting,      \* pending_texts of the running handler
    sent,         \* the last message sent
    history,      \* the loop's messages
    initialized,  \* the system prompt has been built
    turn,         \* the turn under the loop's lock
    disturbed,    \* a turn was disturbed between a reply's tool calls and their results
    broken,       \* a turn has broken
    upsets        \* /clears, turns that broke and truncations so far
chatVars == <<known, opener, resumable, active, queue, waiting, sent, history, initialized,
              turn, disturbed, broken, upsets>>
frontend == <<known, opener, resumable, active, waiting, sent>>
counters == <<broken, upsets>>
Calm == upsets < MaxUpsets

SystemRoles == {"system", "note"}
Entry(r) == [role |-> r, text |-> NoText, ids |-> {}]
Said(t) == [Entry("user") EXCEPT !.text = t]
Calls(ids) == [Entry("calls") EXCEPT !.ids = ids]
Results(ids) == [Entry("results") EXCEPT !.ids = ids]

NoTurn == [at |-> "none", round |-> 0, calls |-> {}, done |-> {}, compacted |-> FALSE,
           reactive |-> FALSE, summary |-> <<>>, cuts |-> 0, escalated |-> FALSE]

ConversationInit ==
    /\ known = FALSE /\ opener = NoText /\ resumable \in BOOLEAN /\ active = FALSE
    /\ queue = <<>> /\ waiting = <<>> /\ sent = NoText
    /\ history = <<>> /\ initialized = FALSE /\ turn = NoTurn
    /\ disturbed = FALSE
    /\ broken = FALSE /\ upsets = 0

\* What the provider accepts: every reply with tool calls is followed at once by
\* a message with a result for each of them, and there are no other results.
Paired(h) ==
    /\ \A i \in DOMAIN h : h[i].role = "calls" => i < Len(h) /\ h[i + 1] = Results(h[i].ids)
    /\ \A i \in DOMAIN h : h[i].role = "results" => i > 1 /\ h[i - 1].role = "calls"

------------------------------------------------------------------------------
\* The frontends.
Initialized(h) == IF initialized THEN h ELSE Append(h, Entry("system"))

\* _prepare_turn
StartTurn(t, h) ==
    /\ history' = Append(Initialized(h), Said(t)) /\ initialized' = TRUE
    /\ turn' = [NoTurn EXCEPT !.at = "round"]

\* _process_user_turn, once the loop is at hand
Take(t, h) ==
    IF active THEN /\ queue' = Append(queue, t) /\ history' = h
                   /\ UNCHANGED <<active, waiting, initialized, turn>>
    ELSE active' = TRUE /\ waiting' = <<>> /\ StartTurn(t, h) /\ UNCHANGED queue

Receive(t) ==
    /\ t = sent + 1 /\ sent' = t
    /\ IF known THEN Take(t, history) /\ UNCHANGED <<known, opener>>
       ELSE /\ known' = TRUE /\ opener' = t
            /\ history' = IF resumable THEN Initialized(history) ELSE history
            /\ initialized' = resumable
            /\ UNCHANGED <<active, queue, waiting, turn>>
    /\ UNCHANGED <<resumable, disturbed, counters>>

\* The loop was put into _chat_loops before its session is resumed: a message
\* that arrives meanwhile starts its turn in a history still without the session.
Opened ==
    /\ opener # NoText /\ opener' = NoText
    /\ Take(opener, IF resumable THEN history \o <<Entry("old"), Entry("note")>> ELSE history)
    /\ disturbed' = (disturbed \/ (resumable /\ turn.at = "tools"))
    /\ UNCHANGED <<known, resumable, sent, counters>>

\* /clear does not ask whether a turn is running; it creates the loop if there is none.
Clear ==
    /\ Calm /\ upsets' = upsets + 1
    /\ known' = TRUE /\ history' = <<>> /\ initialized' = FALSE
    /\ disturbed' = (disturbed \/ turn.at = "tools")
    /\ UNCHANGED <<opener, resumable, active, waiting, sent, queue, turn, broken>>

\* Mutant: the messages that arrived are taken out before the answer is sent,
\* and those that arrive while it is being sent stay in the queue.
EndTurnUndrained ==
    /\ turn.at = "ended"
    /\ IF waiting = <<>> THEN active' = FALSE /\ turn' = NoTurn /\ UNCHANGED <<waiting, history, initialized>>
       ELSE waiting' = Tail(waiting) /\ StartTurn(Head(waiting), history) /\ UNCHANGED active
    /\ UNCHANGED <<known, opener, resumable, sent, queue, disturbed, counters>>

\* The answer has been sent; what arrived meanwhile follows, one turn each.
EndTurn ==
    LET rest == waiting \o queue IN
    /\ turn.at = "ended"
    /\ queue' = <<>>
    /\ IF rest = <<>> THEN active' = FALSE /\ turn' = NoTurn /\ UNCHANGED <<waiting, history, initialized>>
       ELSE waiting' = Tail(rest) /\ StartTurn(Head(rest), history) /\ UNCHANGED active
    /\ UNCHANGED <<known, opener, resumable, sent, disturbed, counters>>

\* A message cannot be sent or saved: the handler reports the error, the
\* messages it had taken are forgotten and the loop's task is cancelled.
Break ==
    /\ turn.at # "none" /\ Calm /\ upsets' = upsets + 1 /\ broken' = TRUE
    /\ active' = FALSE /\ waiting' = <<>> /\ turn' = NoTurn
    /\ disturbed' = (disturbed \/ turn.at = "tools")
    /\ UNCHANGED <<known, opener, resumable, sent, queue, history, initialized>>

------------------------------------------------------------------------------
\* The loop.
\* The round is over with history h: the next one begins, or the last was reached.
NextRound(h, t) ==
    IF t.round + 1 < MaxRounds
    THEN history' = h /\ turn' = [t EXCEPT !.at = "round", !.round = @ + 1, !.calls = {}, !.done = {}]
    ELSE history' = Append(h, Entry("reply")) /\ turn' = [NoTurn EXCEPT !.at = "ended"]
Answer(h) == history' = h /\ turn' = [NoTurn EXCEPT !.at = "ended"]

\* _perform_compaction keeps the first system message and a summary of all the
\* rest, with the files that were read last.
Compacted(h) ==
    LET systems == {i \in DOMAIN h : h[i].role \in SystemRoles}
        first == {i \in systems : \A j \in systems : i <= j}
    IN (IF first = {} THEN <<>> ELSE <<h[CHOOSE i \in first : TRUE]>>) \o <<Entry("summary")>>

\* _truncate_if_needed keeps the system prompt and as many of the last messages as fit.
Truncated(h) ==
    IF h = <<>> \/ Head(h).role \notin SystemRoles THEN {}
    ELSE {<<Head(h), Entry("user")>> \o SubSeq(h, k, Len(h)) : k \in 3 .. Len(h) + 1}

\* The provider is called with h, or with what truncation leaves of it.
CallProvider(h, t) ==
    /\ turn' = [t EXCEPT !.at = "calling", !.reactive = FALSE, !.summary = <<>>]
    /\ \/ history' = h /\ UNCHANGED <<disturbed, upsets>>
       \/ /\ Calm /\ upsets' = upsets + 1
          /\ history' \in Truncated(h)
          /\ disturbed' = (disturbed \/ ~Paired(history'))

\* maybe_compact below the threshold or with its breaker open
BeginRound ==
    /\ turn.at = "round"
    /\ CallProvider(history, turn)
    /\ UNCHANGED <<frontend, queue, initialized, broken>>

\* The summary is asked for; what is summarised is read before the await.
BeginCompaction(reactive) ==
    /\ IF reactive THEN turn.at = "calling" /\ ~turn.compacted ELSE turn.at = "round"
    /\ turn' = [turn EXCEPT !.at = "compacting", !.reactive = reactive, !.summary = Compacted(history)]
    /\ UNCHANGED <<frontend, queue, history, initialized, disturbed, counters>>

CompactionSucceeds ==
    /\ turn.at = "compacting"
    /\ IF turn.reactive
       THEN NextRound(turn.summary, [turn EXCEPT !.compacted = TRUE, !.reactive = FALSE, !.summary = <<>>,
                                                 !.escalated = FALSE])
            /\ UNCHANGED <<disturbed, upsets>>
       ELSE CallProvider(turn.summary, turn)
    /\ UNCHANGED <<frontend, queue, initialized, broken>>
CompactionFails ==
    /\ turn.at = "compacting"
    /\ CallProvider(history, turn)
    /\ UNCHANGED <<frontend, queue, initialized, broken>>

ReplyWithCalls(h) ==
    /\ Paired(h)
    /\ \E ids \in SUBSET ToolCalls \ {{}} :
        history' = Append(h, Calls(ids)) /\ turn' = [turn EXCEPT !.at = "tools", !.calls = ids, !.done = {}]
\* A reply without text is not kept.
ReplyWithText(h) == Paired(h) /\ \E end \in {<<>>, <<Entry("reply")>>} : Answer(h \o end)
\* The token limit: a higher limit at first, then MaxCuts messages asking to go on.
ReplyCut(h) ==
    LET escalate == ~turn.escalated /\ turn.cuts = 0 IN
    /\ Paired(h) /\ (escalate \/ turn.cuts < MaxCuts)
    /\ \E end \in {<<>>, <<Entry("reply")>>} :
         NextRound(h \o end \o (IF escalate THEN <<>> ELSE <<Entry("user")>>),
                   [turn EXCEPT !.escalated = escalate, !.cuts = IF escalate THEN @ ELSE @ + 1])
\* Three attempts failed, or an error that is not transient.
Exhausted(h) == Answer(Append(h, Entry("reply")))

\* chat_completion: a history that is not paired is rejected every time.
Reply ==
    /\ turn.at = "calling"
    /\ ReplyWithCalls(history) \/ ReplyWithText(history) \/ ReplyCut(history) \/ Exhausted(history)
    /\ UNCHANGED <<frontend, queue, initialized, disturbed, counters>>

\* Mutant: only the calls that were executed get a result.
TombstonesForgotten(ids, done) == done
\* Every call of the reply has a result in the end, a tombstone if it was not executed.
WithTombstones(ids, done) == done \union ids

\* A tool has ended.  The remaining ones are skipped once a message is pending,
\* which then follows the results.
ToolEnds(c) ==
    LET done == turn.done \union {c}
        answered == Append(history, Results(WithTombstones(turn.calls, done)))
        calm == [turn EXCEPT !.escalated = FALSE]
    IN
    /\ turn.at = "tools" /\ c \in turn.calls \ turn.done
    /\ IF queue # <<>>
       THEN /\ NextRound(answered \o [i \in DOMAIN queue |-> Said(queue[i])], calm)
            /\ queue' = <<>>
       ELSE /\ UNCHANGED queue
            /\ IF done = turn.calls THEN NextRound(answered, calm)
               ELSE turn' = [turn EXCEPT !.done = done] /\ UNCHANGED history
    /\ UNCHANGED <<frontend, initialized, disturbed, counters>>

TurnStep ==
    \/ EndTurn \/ BeginRound \/ (\E r \in BOOLEAN : BeginCompaction(r))
    \/ CompactionSucceeds \/ CompactionFails \/ Reply \/ (\E c \in ToolCalls : ToolEnds(c))

ConversationNext == (\E t \in Texts : Receive(t)) \/ Opened \/ Clear \/ Break \/ TurnStep
ConversationSpec == ConversationInit /\ [][ConversationNext]_chatVars

------------------------------------------------------------------------------
\* When a chat has come to rest nothing is left in its queue: whatever arrived
\* while the last answer was being sent got a turn of its own.  Only a turn that
\* broke leaves messages behind, for the next one.
QueueServed == (~active /\ ~broken) => queue = <<>> /\ waiting = <<>>

\* However tool calls are interrupted, compacted or followed by new messages,
\* the provider is called with a history it accepts, unless the turn was
\* disturbed while tools were running or truncation cut a reply from its results.
HistoryPaired == turn.at = "calling" => disturbed \/ Paired(history)
=============================================================================
