------------------------------ MODULE AssistantProofs ------------------------------
(* What the parts of the assistant promise, for every value of their       *)
(* constants.  Each section has the invariant of one part, what its steps  *)
(* do to the invariant, and the theorem that follows.                      *)
EXTENDS Conversation, Terminal, Sessions, Messengers, AssistantMemory, SkillCache, SkillCatalog,
        ToolBatches, DataLemmas, FiniteSetTheorems

------------------------------------------------------------------------------
(* A chat: the queue of its messages and its history (Conversation).       *)

Roles == {"system", "note", "old", "user", "reply", "summary", "calls", "results"}
Entries == [role : Roles, text : Nat, ids : SUBSET ToolCalls]
TurnFields == {"at", "round", "calls", "done", "compacted", "reactive", "summary", "cuts", "escalated"}

ChatTypes ==
    /\ queue \in Seq(Nat) /\ waiting \in Seq(Nat) /\ opener \in Nat /\ sent \in Nat
    /\ history \in Seq(Entries)
    /\ DOMAIN turn = TurnFields
    /\ turn.calls \subseteq ToolCalls /\ turn.done \subseteq turn.calls
    /\ turn.at = "compacting" => turn.summary \in Seq(Entries)

(* A chat is active while it has a turn, and has none before its loop.     *)
TurnKnown ==
    /\ active <=> turn.at # "none"
    /\ ~known => turn.at = "none" /\ opener = NoText

(* A history ends with calls only while their tools run.                   *)
Sound(h, t) ==
    /\ IF t.at = "tools" THEN \E front \in Seq(Entries) : Paired(front) /\ h = Append(front, Calls(t.calls))
       ELSE Paired(h)
    /\ t.at = "compacting" => Paired(t.summary)

ChatInv == ChatTypes /\ TurnKnown /\ QueueServed /\ (disturbed \/ Sound(history, turn))

-----------------------------------------------------------------------------
(* Entries that are neither calls nor results leave a history paired.      *)
Neutral(g) == \A i \in DOMAIN g : g[i].role \notin {"calls", "results"}

LEMMA EntryIs ==
    ASSUME NEW r \in Roles
    PROVE  Entry(r) \in Entries /\ Entry(r).role = r
  BY DEF Entry, Entries, NoText

LEMMA SaidIs ==
    ASSUME NEW t \in Nat
    PROVE  Said(t) \in Entries /\ Said(t).role = "user"
  BY DEF Said, Entry, Entries, NoText, Roles

LEMMA CallsIs ==
    ASSUME NEW ids \in SUBSET ToolCalls
    PROVE  /\ Calls(ids) \in Entries /\ Calls(ids).role = "calls" /\ Calls(ids).ids = ids
           /\ Results(ids) \in Entries /\ Results(ids).role = "results" /\ Results(ids).ids = ids
  BY DEF Calls, Results, Entry, Entries, NoText, Roles

LEMMA PairedConcat ==
    ASSUME NEW h \in Seq(Entries), NEW g \in Seq(Entries), Paired(h), Neutral(g)
    PROVE  h \o g \in Seq(Entries) /\ Paired(h \o g)
PROOF
  <1> DEFINE all == h \o g
  <1>1. /\ all \in Seq(Entries) /\ Len(all) = Len(h) + Len(g) /\ Len(h) \in Nat /\ Len(g) \in Nat
        /\ \A i \in 1 .. Len(h) : all[i] = h[i]
        /\ \A i \in Len(h) + 1 .. Len(all) : all[i] = g[i - Len(h)]
    OBVIOUS
  <1>2. DOMAIN all = 1 .. Len(all) /\ DOMAIN h = 1 .. Len(h) /\ DOMAIN g = 1 .. Len(g)
    OBVIOUS
  <1> HIDE DEF all
  <1>3. \A i \in Len(h) + 1 .. Len(all) : all[i].role \notin {"calls", "results"}
    <2> SUFFICES ASSUME NEW i \in Len(h) + 1 .. Len(all)
                 PROVE  all[i].role \notin {"calls", "results"}
      OBVIOUS
    <2>1. i - Len(h) \in DOMAIN g
      BY <1>1, <1>2
    <2> QED
      BY <1>1, <2>1 DEF Neutral
  <1>4. ASSUME NEW i \in DOMAIN all, all[i].role = "calls"
        PROVE  i < Len(all) /\ all[i + 1] = Results(all[i].ids)
    <2>1. i \in 1 .. Len(h) /\ all[i] = h[i]
      BY <1>1, <1>2, <1>3, <1>4
    <2>2. i < Len(h) /\ h[i + 1] = Results(h[i].ids)
      BY <1>2, <1>4, <2>1 DEF Paired
    <2> QED
      BY <1>1, <2>1, <2>2
  <1>5. ASSUME NEW i \in DOMAIN all, all[i].role = "results"
        PROVE  i > 1 /\ all[i - 1].role = "calls"
    <2>1. i \in 1 .. Len(h) /\ all[i] = h[i]
      BY <1>1, <1>2, <1>3, <1>5
    <2>2. i > 1 /\ h[i - 1].role = "calls"
      BY <1>2, <1>5, <2>1 DEF Paired
    <2>3. i - 1 \in 1 .. Len(h)
      BY <1>1, <2>1, <2>2
    <2> QED
      BY <1>1, <2>1, <2>2, <2>3
  <1>6. Paired(all)
    BY <1>4, <1>5 DEF Paired
  <1> QED
    BY <1>1, <1>6 DEF all

LEMMA PairedAppend ==
    ASSUME NEW h \in Seq(Entries), NEW e \in Entries, Paired(h), e.role \notin {"calls", "results"}
    PROVE  Append(h, e) \in Seq(Entries) /\ Paired(Append(h, e))
PROOF
  <1>1. Neutral(<<e>>) /\ <<e>> \in Seq(Entries) /\ Append(h, e) = h \o <<e>>
    BY DEF Neutral
  <1> QED
    BY <1>1, PairedConcat

(* Calls and then their results are paired.                                *)
LEMMA PairedTools ==
    ASSUME NEW h \in Seq(Entries), NEW ids \in SUBSET ToolCalls, Paired(h)
    PROVE  /\ Append(Append(h, Calls(ids)), Results(ids)) \in Seq(Entries)
           /\ Paired(Append(Append(h, Calls(ids)), Results(ids)))
PROOF
  <1> DEFINE all == Append(Append(h, Calls(ids)), Results(ids))
             n == Len(h)
  <1>1. n \in Nat /\ Append(h, Calls(ids)) \in Seq(Entries) /\ Len(Append(h, Calls(ids))) = n + 1
        /\ (\A i \in 1 .. n : Append(h, Calls(ids))[i] = h[i]) /\ Append(h, Calls(ids))[n + 1] = Calls(ids)
    BY CallsIs
  <1>2. /\ all \in Seq(Entries) /\ Len(all) = n + 2 /\ DOMAIN all = 1 .. n + 2 /\ DOMAIN h = 1 .. n
        /\ \A i \in 1 .. n : all[i] = h[i]
        /\ all[n + 1] = Calls(ids) /\ all[n + 2] = Results(ids)
    BY <1>1, CallsIs
  <1> HIDE DEF all, n
  <1>3. ASSUME NEW i \in DOMAIN all, all[i].role = "calls"
        PROVE  i < Len(all) /\ all[i + 1] = Results(all[i].ids)
    <2>1. CASE i \in 1 .. n
      <3>1. i < Len(h) /\ h[i + 1] = Results(h[i].ids) /\ all[i] = h[i]
        BY <1>2, <1>3, <2>1 DEF Paired
      <3> QED
        BY <1>1, <1>2, <2>1, <3>1 DEF n
    <2>2. CASE i = n + 1
      BY <1>1, <1>2, <2>2, CallsIs
    <2>3. CASE i = n + 2
      BY <1>2, <1>3, <2>3, CallsIs
    <2> QED
      BY <1>1, <1>2, <2>1, <2>2, <2>3
  <1>4. ASSUME NEW i \in DOMAIN all, all[i].role = "results"
        PROVE  i > 1 /\ all[i - 1].role = "calls"
    <2>1. CASE i \in 1 .. n
      <3>1. i > 1 /\ h[i - 1].role = "calls" /\ i - 1 \in 1 .. n
        BY <1>1, <1>2, <1>4, <2>1 DEF Paired
      <3> QED
        BY <1>2, <3>1
    <2>2. CASE i = n + 1
      BY <1>2, <1>4, <2>2, CallsIs
    <2>3. CASE i = n + 2
      BY <1>1, <1>2, <2>3, CallsIs
    <2> QED
      BY <1>1, <1>2, <2>1, <2>2, <2>3
  <1>5. Paired(all)
    BY <1>3, <1>4 DEF Paired
  <1> QED
    BY <1>2, <1>5 DEF all

(* What compaction leaves is a system message at most, and the summary.    *)
LEMMA CompactedIs ==
    ASSUME NEW h \in Seq(Entries)
    PROVE  Compacted(h) \in Seq(Entries) /\ Paired(Compacted(h))
PROOF
  <1> DEFINE systems == {i \in DOMAIN h : h[i].role \in SystemRoles}
             first == {i \in systems : \A j \in systems : i <= j}
             kept == IF first = {} THEN <<>> ELSE <<h[CHOOSE i \in first : TRUE]>>
  <1>1. kept \in Seq(Entries) /\ Neutral(kept)
    <2>1. CASE first = {}
      BY <2>1 DEF Neutral
    <2>2. CASE first # {}
      <3> DEFINE k == CHOOSE i \in first : TRUE
      <3>1. k \in DOMAIN h /\ h[k].role \in SystemRoles
        BY <2>2
      <3>2. h[k] \in Entries /\ h[k].role \notin {"calls", "results"} /\ kept = <<h[k]>>
        BY <2>2, <3>1 DEF SystemRoles
      <3> HIDE DEF k
      <3> QED
        BY <3>2 DEF Neutral
    <2> QED
      BY <2>1, <2>2
  <1>2. Compacted(h) = kept \o <<Entry("summary")>>
    BY DEF Compacted
  <1> HIDE DEF kept
  <1>3. << >> \in Seq(Entries) /\ Paired(<< >>)
    BY DEF Paired
  <1>4. kept = << >> \o kept
    BY <1>1
  <1>5. Paired(kept)
    BY <1>1, <1>3, <1>4, PairedConcat
  <1>6. Entry("summary") \in Entries /\ Entry("summary").role = "summary"
    BY EntryIs DEF Roles
  <1>7. kept \o <<Entry("summary")>> = Append(kept, Entry("summary"))
    BY <1>1
  <1> QED
    BY <1>1, <1>2, <1>5, <1>6, <1>7, PairedAppend

-----------------------------------------------------------------------------
LEMMA NoTurnIs ==
    DOMAIN NoTurn = TurnFields /\ NoTurn.at = "none" /\ NoTurn.calls = {} /\ NoTurn.done = {}
  BY DEF NoTurn, TurnFields

LEMMA InitChat == ConversationInit => ChatInv
PROOF
  <1> SUFFICES ASSUME ConversationInit
               PROVE  ChatInv
    OBVIOUS
  <1>1. history = << >> /\ queue = << >> /\ waiting = << >> /\ turn = NoTurn /\ ~active /\ opener = 0 /\ sent = 0
    BY DEF ConversationInit, NoText
  <1>2. ChatTypes
    BY <1>1, NoTurnIs DEF ChatTypes
  <1>3. TurnKnown /\ QueueServed
    BY <1>1, NoTurnIs DEF TurnKnown, QueueServed, NoText
  <1>4. Sound(history, turn)
    BY <1>1, NoTurnIs DEF Sound, Paired
  <1> QED
    BY <1>2, <1>3, <1>4 DEF ChatInv

LEMMA SubSeqOfHistory ==
    ASSUME NEW h \in Seq(Entries), NEW k \in Nat \ {0}
    PROVE  SubSeq(h, k, Len(h)) \in Seq(Entries)
  OBVIOUS

LEMMA InitializedIs ==
    ASSUME NEW h \in Seq(Entries)
    PROVE  Initialized(h) \in Seq(Entries) /\ (Paired(h) => Paired(Initialized(h)))
PROOF
  <1>1. Entry("system") \in Entries /\ Entry("system").role = "system"
    BY EntryIs DEF Roles
  <1> QED
    BY <1>1, PairedAppend DEF Initialized

(* A turn starts with the message after the history.                       *)
LEMMA StartTurnIs ==
    ASSUME NEW t \in Nat, NEW h \in Seq(Entries), StartTurn(t, h)
    PROVE  /\ history' \in Seq(Entries) /\ (Paired(h) => Paired(history'))
           /\ DOMAIN turn' = TurnFields /\ turn'.at = "round" /\ turn'.calls = {} /\ turn'.done = {}
PROOF
  <1>1. turn' = [NoTurn EXCEPT !.at = "round"] /\ history' = Append(Initialized(h), Said(t))
    BY DEF StartTurn
  <1>2. DOMAIN turn' = TurnFields /\ turn'.at = "round" /\ turn'.calls = {} /\ turn'.done = {}
    BY <1>1 DEF NoTurn, TurnFields
  <1>3. Initialized(h) \in Seq(Entries) /\ Said(t) \in Entries
    BY InitializedIs, SaidIs
  <1>4. history' \in Seq(Entries)
    BY <1>1, <1>3
  <1>5. Paired(h) => Paired(history')
    BY <1>1, <1>3, InitializedIs, SaidIs, PairedAppend
  <1> QED
    BY <1>2, <1>4, <1>5

(* The next round begins, or the turn ends, with a reply.                  *)
LEMMA NextRoundIs ==
    ASSUME NEW t, DOMAIN t = TurnFields, NEW h \in Seq(Entries), NextRound(h, t)
    PROVE  /\ history' \in Seq(Entries) /\ (Paired(h) => Paired(history'))
           /\ DOMAIN turn' = TurnFields /\ turn'.at \in {"round", "ended"}
           /\ turn'.calls = {} /\ turn'.done = {}
PROOF
  <1>1. CASE t.round + 1 < MaxRounds
    <2>1. history' = h /\ turn' = [t EXCEPT !.at = "round", !.round = @ + 1, !.calls = {}, !.done = {}]
      BY <1>1 DEF NextRound
    <2>2. DOMAIN turn' = TurnFields /\ turn'.at = "round" /\ turn'.calls = {} /\ turn'.done = {}
      BY <2>1 DEF TurnFields
    <2> QED
      BY <2>1, <2>2
  <1>2. CASE ~(t.round + 1 < MaxRounds)
    <2>1. history' = Append(h, Entry("reply")) /\ turn' = [NoTurn EXCEPT !.at = "ended"]
      BY <1>2 DEF NextRound
    <2>2. DOMAIN turn' = TurnFields /\ turn'.at = "ended" /\ turn'.calls = {} /\ turn'.done = {}
      BY <2>1 DEF NoTurn, TurnFields
    <2>3. Entry("reply") \in Entries /\ Entry("reply").role = "reply"
      BY EntryIs DEF Roles
    <2> QED
      BY <2>1, <2>2, <2>3, PairedAppend
  <1> QED
    BY <1>1, <1>2

LEMMA AnswerIs ==
    ASSUME NEW h \in Seq(Entries), Answer(h)
    PROVE  /\ history' = h /\ DOMAIN turn' = TurnFields /\ turn'.at = "ended"
           /\ turn'.calls = {} /\ turn'.done = {}
  BY DEF Answer, NoTurn, TurnFields

(* The provider is called with the history as it is, or with what          *)
(* truncation leaves of it: unpaired only if that is remembered.           *)
LEMMA CallProviderIs ==
    ASSUME NEW t, DOMAIN t = TurnFields, NEW h \in Seq(Entries), CallProvider(h, t)
    PROVE  /\ history' \in Seq(Entries) /\ (disturbed' \/ (Paired(h) => Paired(history')))
           /\ disturbed => disturbed'
           /\ DOMAIN turn' = TurnFields /\ turn'.at = "calling" /\ turn'.calls = t.calls /\ turn'.done = t.done
PROOF
  <1>1. turn' = [t EXCEPT !.at = "calling", !.reactive = FALSE, !.summary = <<>>]
    BY DEF CallProvider
  <1>2. DOMAIN turn' = TurnFields /\ turn'.at = "calling" /\ turn'.calls = t.calls /\ turn'.done = t.done
    BY <1>1 DEF TurnFields
  <1>3. CASE history' = h /\ UNCHANGED disturbed
    BY <1>2, <1>3
  <1>4. CASE history' \in Truncated(h) /\ disturbed' = (disturbed \/ ~Paired(history'))
    <2>1. h # << >>
      BY <1>4 DEF Truncated
    <2>2. PICK k \in 3 .. Len(h) + 1 : history' = <<Head(h), Entry("user")>> \o SubSeq(h, k, Len(h))
      BY <1>4 DEF Truncated
    <2>3. Head(h) \in Entries /\ Entry("user") \in Entries
      BY <2>1, EntryIs DEF Roles
    <2>4. <<Head(h), Entry("user")>> \in Seq(Entries)
      BY <2>3
    <2>5. SubSeq(h, k, Len(h)) \in Seq(Entries)
      BY SubSeqOfHistory
    <2>6. history' \in Seq(Entries)
      BY <2>2, <2>4, <2>5
    <2>7. disturbed' \/ Paired(history')
      BY <1>4
    <2>8. disturbed => disturbed'
      BY <1>4
    <2> QED
      BY <1>2, <2>6, <2>7, <2>8
  <1> QED
    BY <1>3, <1>4 DEF CallProvider
-----------------------------------------------------------------------------
(* The steps of the frontends.                                             *)
LEMMA TakeKeeps ==
    ASSUME ChatTypes, TurnKnown, QueueServed, NEW t \in Nat, NEW h \in Seq(Entries), Take(t, h)
    PROVE  /\ queue' \in Seq(Nat) /\ waiting' \in Seq(Nat) /\ history' \in Seq(Entries)
           /\ DOMAIN turn' = TurnFields /\ turn'.calls \subseteq ToolCalls /\ turn'.done \subseteq turn'.calls
           /\ turn'.at = "compacting" => turn'.summary \in Seq(Entries)
           /\ active' /\ turn'.at # "none"
           /\ active => turn' = turn /\ history' = h
           /\ ~active => turn'.at = "round" /\ (Paired(h) => Paired(history'))
PROOF
  <1>1. CASE active
    <2>1. queue' = Append(queue, t) /\ history' = h /\ UNCHANGED <<active, waiting, turn>>
      BY <1>1 DEF Take
    <2>2. queue' \in Seq(Nat)
      BY <2>1 DEF ChatTypes
    <2> QED
      BY <1>1, <2>1, <2>2 DEF ChatTypes, TurnKnown
  <1>2. CASE ~active
    BY <1>2, StartTurnIs DEF Take, ChatTypes
  <1> QED
    BY <1>1, <1>2

LEMMA ReceiveKeeps ==
    ASSUME ChatInv, NEW t \in Texts, Receive(t)
    PROVE  ChatInv'
PROOF
  <1>1. t \in Nat /\ sent' = t /\ UNCHANGED <<resumable, disturbed, broken, upsets>>
    BY DEF Receive, Texts, counters
  <1>2. CASE known
    <2>1. Take(t, history) /\ UNCHANGED <<known, opener>>
      BY <1>2 DEF Receive
    <2>2. history \in Seq(Entries)
      BY DEF ChatInv, ChatTypes
    <2>3. ChatTypes'
      BY <1>1, <2>1, <2>2, TakeKeeps DEF ChatInv, ChatTypes
    <2>4. TurnKnown' /\ QueueServed'
      BY <1>2, <2>1, <2>2, <1>1, TakeKeeps DEF ChatInv, TurnKnown, QueueServed
    <2>5. (disturbed \/ Sound(history, turn))'
      <3> SUFFICES ASSUME ~disturbed
                   PROVE  Sound(history', turn')
        BY <1>1 DEF Sound, Paired
      <3>1. Sound(history, turn)
        BY DEF ChatInv
      <3>2. CASE active
        <4>1. turn' = turn /\ history' = history
          BY <3>2, <1>1, <2>1, <2>2, TakeKeeps DEF ChatInv
        <4> QED
          BY <3>1, <4>1
      <3>3. CASE ~active
        <4>1. Paired(history)
          BY <3>1, <3>3 DEF Sound, ChatInv, TurnKnown
        <4>2. turn'.at = "round" /\ Paired(history')
          BY <3>3, <4>1, <1>1, <2>1, <2>2, TakeKeeps DEF ChatInv
        <4> QED
          BY <4>2 DEF Sound
      <3> QED
        BY <3>2, <3>3
    <2> QED
      BY <2>3, <2>4, <2>5 DEF ChatInv
  <1>3. CASE ~known
    <2>1. /\ known' = TRUE /\ opener' = t /\ UNCHANGED <<active, queue, waiting, turn>>
          /\ history' = IF resumable THEN Initialized(history) ELSE history
      BY <1>3 DEF Receive
    <2>2. history \in Seq(Entries) /\ turn.at = "none"
      BY <1>3 DEF ChatInv, ChatTypes, TurnKnown
    <2>3. history' \in Seq(Entries) /\ (Paired(history) => Paired(history'))
      BY <2>1, <2>2, InitializedIs
    <2>4. ChatTypes' /\ TurnKnown' /\ QueueServed'
      BY <1>1, <2>1, <2>2, <2>3 DEF ChatInv, ChatTypes, TurnKnown, QueueServed
    <2>5. (disturbed \/ Sound(history, turn))'
      <3>1. Sound(history, turn) => Sound(history', turn')
        BY <2>1, <2>2, <2>3 DEF Sound
      <3> QED
        BY <1>1, <3>1 DEF ChatInv
    <2> QED
      BY <2>4, <2>5 DEF ChatInv
  <1> QED
    BY <1>2, <1>3

LEMMA OpenedKeeps ==
    ASSUME ChatInv, Opened
    PROVE  ChatInv'
PROOF
  <1> DEFINE h == IF resumable THEN history \o <<Entry("old"), Entry("note")>> ELSE history
  <1>1. /\ opener # NoText /\ opener' = NoText /\ Take(opener, h) /\ UNCHANGED <<known, resumable, sent, broken, upsets>>
        /\ disturbed' = (disturbed \/ (resumable /\ turn.at = "tools"))
    BY DEF Opened, counters
  <1>2. history \in Seq(Entries) /\ opener \in Nat /\ known
    BY <1>1 DEF ChatInv, ChatTypes, TurnKnown
  <1>3. h \in Seq(Entries) /\ (Paired(history) => Paired(h))
    <2>1. Entry("old") \in Entries /\ Entry("old").role = "old" /\ Entry("note") \in Entries /\ Entry("note").role = "note"
      BY EntryIs DEF Roles
    <2>2. <<Entry("old"), Entry("note")>> \in Seq(Entries) /\ Neutral(<<Entry("old"), Entry("note")>>)
      BY <2>1 DEF Neutral
    <2>3. history \o <<Entry("old"), Entry("note")>> \in Seq(Entries)
      BY <1>2, <2>2
    <2>4. Paired(history) => Paired(history \o <<Entry("old"), Entry("note")>>)
      BY <1>2, <2>2, PairedConcat
    <2> QED
      BY <1>2, <2>3, <2>4
  <1>4. ~resumable => h = history
    OBVIOUS
  <1> HIDE DEF h
  <1>5. ChatTypes'
    BY <1>1, <1>2, <1>3, TakeKeeps DEF ChatInv, ChatTypes, NoText
  <1>6. TurnKnown' /\ QueueServed'
    BY <1>1, <1>2, <1>3, TakeKeeps DEF ChatInv, TurnKnown, QueueServed
  <1>7. (disturbed \/ Sound(history, turn))'
    <2> SUFFICES ASSUME ~disturbed'
                 PROVE  Sound(history', turn')
      BY DEF Sound, Paired
    <2>1. ~disturbed /\ ~(resumable /\ turn.at = "tools")
      BY <1>1
    <2>2. Sound(history, turn)
      BY <2>1 DEF ChatInv
    <2>3. CASE active
      <3>1. turn' = turn /\ history' = h
        BY <2>3, <1>1, <1>2, <1>3, TakeKeeps DEF ChatInv
      <3>2. CASE turn.at = "tools"
        BY <1>4, <2>1, <2>2, <3>1, <3>2
      <3>3. CASE turn.at # "tools"
        BY <1>3, <2>2, <3>1, <3>3 DEF Sound
      <3> QED
        BY <3>2, <3>3
    <2>4. CASE ~active
      <3>1. Paired(h)
        BY <2>2, <2>4, <1>3 DEF Sound, ChatInv, TurnKnown
      <3>2. turn'.at = "round" /\ Paired(history')
        BY <2>4, <3>1, <1>1, <1>2, <1>3, TakeKeeps DEF ChatInv
      <3> QED
        BY <3>2 DEF Sound
    <2> QED
      BY <2>3, <2>4
  <1> QED
    BY <1>5, <1>6, <1>7 DEF ChatInv

LEMMA ClearKeeps ==
    ASSUME ChatInv, Clear
    PROVE  ChatInv'
PROOF
  <1>1. /\ known' = TRUE /\ history' = << >> /\ UNCHANGED <<opener, active, waiting, sent, queue, turn, broken>>
        /\ disturbed' = (disturbed \/ turn.at = "tools")
    BY DEF Clear
  <1>2. ChatTypes' /\ TurnKnown' /\ QueueServed'
    BY <1>1 DEF ChatInv, ChatTypes, TurnKnown, QueueServed
  <1>3. (disturbed \/ Sound(history, turn))'
    <2> SUFFICES ASSUME ~disturbed'
                 PROVE  Sound(history', turn')
      BY DEF Sound, Paired
    <2>1. ~disturbed /\ turn.at # "tools"
      BY <1>1
    <2>2. Sound(history, turn)
      BY <2>1 DEF ChatInv
    <2> QED
      BY <1>1, <2>1, <2>2 DEF Sound, Paired
  <1> QED
    BY <1>2, <1>3 DEF ChatInv

LEMMA BreakKeeps ==
    ASSUME ChatInv, Break
    PROVE  ChatInv'
PROOF
  <1>1. /\ broken' = TRUE /\ active' = FALSE /\ waiting' = << >> /\ turn' = NoTurn /\ turn.at # "none"
        /\ UNCHANGED <<known, opener, resumable, sent, queue, history, initialized>>
        /\ disturbed' = (disturbed \/ turn.at = "tools")
    BY DEF Break
  <1>2. ChatTypes' /\ TurnKnown' /\ QueueServed'
    BY <1>1, NoTurnIs DEF ChatInv, ChatTypes, TurnKnown, QueueServed
  <1>3. (disturbed \/ Sound(history, turn))'
    <2> SUFFICES ASSUME ~disturbed'
                 PROVE  Sound(history', turn')
      BY DEF Sound, Paired
    <2>1. ~disturbed /\ turn.at # "tools"
      BY <1>1
    <2>2. Sound(history, turn)
      BY <2>1 DEF ChatInv
    <2> QED
      BY <1>1, <2>1, <2>2, NoTurnIs DEF Sound
  <1> QED
    BY <1>2, <1>3 DEF ChatInv

LEMMA EndTurnKeeps ==
    ASSUME ChatInv, EndTurn
    PROVE  ChatInv'
PROOF
  <1> DEFINE rest == waiting \o queue
  <1>1. /\ turn.at = "ended" /\ queue' = << >> /\ UNCHANGED <<known, opener, resumable, sent, disturbed, broken, upsets>>
        /\ IF rest = << >> THEN active' = FALSE /\ turn' = NoTurn /\ UNCHANGED <<waiting, history, initialized>>
           ELSE waiting' = Tail(rest) /\ StartTurn(Head(rest), history) /\ UNCHANGED active
    BY DEF EndTurn, counters
  <1>2. /\ waiting \in Seq(Nat) /\ queue \in Seq(Nat) /\ rest \in Seq(Nat) /\ (rest = << >> => waiting = << >>)
        /\ history \in Seq(Entries)
    BY DEF ChatInv, ChatTypes
  <1> HIDE DEF rest
  <1>3. CASE rest = << >>
    <2>1. ChatTypes' /\ TurnKnown' /\ QueueServed'
      BY <1>1, <1>2, <1>3, NoTurnIs DEF ChatInv, ChatTypes, TurnKnown, QueueServed
    <2>2. Sound(history, turn) => Sound(history', turn')
      BY <1>1, <1>3, NoTurnIs DEF Sound
    <2>3. (disturbed \/ Sound(history, turn))'
      BY <1>1, <2>2 DEF ChatInv
    <2> QED
      BY <2>1, <2>3 DEF ChatInv
  <1>4. CASE rest # << >>
    <2>1. Head(rest) \in Nat /\ Tail(rest) \in Seq(Nat) /\ StartTurn(Head(rest), history)
      BY <1>1, <1>2, <1>4
    <2>2. /\ history' \in Seq(Entries) /\ (Paired(history) => Paired(history'))
          /\ DOMAIN turn' = TurnFields /\ turn'.at = "round" /\ turn'.calls = {} /\ turn'.done = {}
      BY <1>2, <2>1, StartTurnIs
    <2>3. active /\ active' /\ waiting' \in Seq(Nat)
      BY <1>1, <1>4, <2>1 DEF ChatInv, TurnKnown
    <2>4. ChatTypes' /\ TurnKnown' /\ QueueServed'
      BY <1>1, <2>2, <2>3 DEF ChatInv, ChatTypes, TurnKnown, QueueServed
    <2>5. Sound(history, turn) => Sound(history', turn')
      BY <1>1, <2>2 DEF Sound
    <2>6. (disturbed \/ Sound(history, turn))'
      BY <1>1, <2>5 DEF ChatInv
    <2> QED
      BY <2>4, <2>6 DEF ChatInv
  <1> QED
    BY <1>3, <1>4
-----------------------------------------------------------------------------
(* A step of the loop changes the history and the turn, and the queue only *)
(* when its messages go into the history.                                  *)
LEMMA LoopKeeps ==
    ASSUME ChatInv, turn.at # "none", turn'.at # "none", UNCHANGED <<known, opener, resumable, active, waiting, sent, broken>>,
           queue' = queue \/ queue' = << >>, history' \in Seq(Entries), DOMAIN turn' = TurnFields,
           turn'.calls \subseteq ToolCalls, turn'.done \subseteq turn'.calls,
           turn'.at = "compacting" => turn'.summary \in Seq(Entries),
           disturbed => disturbed', disturbed' \/ (Sound(history, turn) => Sound(history', turn'))
    PROVE  ChatInv'
PROOF
  <1>1. queue' \in Seq(Nat)
    <2>1. queue \in Seq(Nat) /\ << >> \in Seq(Nat)
      BY DEF ChatInv, ChatTypes
    <2> QED
      BY <2>1
  <1>2. ChatTypes' /\ TurnKnown' /\ QueueServed'
    BY <1>1 DEF ChatInv, ChatTypes, TurnKnown, QueueServed
  <1>3. (disturbed \/ Sound(history, turn))'
    BY DEF ChatInv
  <1> QED
    BY <1>2, <1>3 DEF ChatInv

LEMMA BeginRoundKeeps ==
    ASSUME ChatInv, BeginRound
    PROVE  ChatInv'
PROOF
  <1>1. turn.at = "round" /\ CallProvider(history, turn) /\ UNCHANGED <<known, opener, resumable, active, waiting, sent, broken, queue>>
    BY DEF BeginRound, frontend
  <1>2. history \in Seq(Entries) /\ DOMAIN turn = TurnFields /\ turn.calls \subseteq ToolCalls /\ turn.done \subseteq turn.calls
    BY DEF ChatInv, ChatTypes
  <1>3. /\ history' \in Seq(Entries) /\ (disturbed' \/ (Paired(history) => Paired(history')))
        /\ disturbed => disturbed'
        /\ DOMAIN turn' = TurnFields /\ turn'.at = "calling" /\ turn'.calls = turn.calls /\ turn'.done = turn.done
    BY <1>1, <1>2, CallProviderIs
  <1>4. disturbed' \/ (Sound(history, turn) => Sound(history', turn'))
    BY <1>1, <1>3 DEF Sound
  <1>5. /\ turn.at # "none" /\ turn'.at # "none" /\ turn'.at # "compacting"
        /\ turn'.calls \subseteq ToolCalls /\ turn'.done \subseteq turn'.calls
        /\ UNCHANGED <<known, opener, resumable, active, waiting, sent, broken>> /\ queue' = queue
    BY <1>1, <1>2, <1>3
  <1> QED
    BY <1>3, <1>4, <1>5, LoopKeeps, Zenon

LEMMA BeginCompactionKeeps ==
    ASSUME ChatInv, NEW r \in BOOLEAN, BeginCompaction(r)
    PROVE  ChatInv'
PROOF
  <1>1. /\ turn.at \in {"calling", "round"}
        /\ turn' = [turn EXCEPT !.at = "compacting", !.reactive = r, !.summary = Compacted(history)]
        /\ UNCHANGED <<known, opener, resumable, active, waiting, sent, broken, queue, history, disturbed>>
    BY DEF BeginCompaction, frontend, counters
  <1>2. history \in Seq(Entries) /\ DOMAIN turn = TurnFields /\ turn.calls \subseteq ToolCalls /\ turn.done \subseteq turn.calls
    BY DEF ChatInv, ChatTypes
  <1>3. /\ DOMAIN turn' = TurnFields /\ turn'.at = "compacting" /\ turn'.summary = Compacted(history)
        /\ turn'.calls = turn.calls /\ turn'.done = turn.done
    BY <1>1, <1>2 DEF TurnFields
  <1>4. Compacted(history) \in Seq(Entries) /\ Paired(Compacted(history))
    BY <1>2, CompactedIs
  <1>5. Sound(history, turn) => Sound(history', turn')
    BY <1>1, <1>3, <1>4 DEF Sound
  <1> QED
    BY <1>1, <1>2, <1>3, <1>4, <1>5, LoopKeeps

LEMMA CompactionSucceedsKeeps ==
    ASSUME ChatInv, CompactionSucceeds
    PROVE  ChatInv'
PROOF
  <1>1. turn.at = "compacting" /\ UNCHANGED <<known, opener, resumable, active, waiting, sent, broken, queue>>
    BY DEF CompactionSucceeds, frontend
  <1>2. /\ turn.summary \in Seq(Entries) /\ DOMAIN turn = TurnFields
        /\ turn.calls \subseteq ToolCalls /\ turn.done \subseteq turn.calls
    BY <1>1 DEF ChatInv, ChatTypes
  <1>3. CASE turn.reactive
    <2> DEFINE t == [turn EXCEPT !.compacted = TRUE, !.reactive = FALSE, !.summary = <<>>, !.escalated = FALSE]
    <2>1. NextRound(turn.summary, t) /\ UNCHANGED disturbed
      BY <1>3 DEF CompactionSucceeds
    <2>2. DOMAIN t = TurnFields
      BY <1>2 DEF TurnFields
    <2> HIDE DEF t
    <2>3. /\ history' \in Seq(Entries) /\ (Paired(turn.summary) => Paired(history'))
          /\ DOMAIN turn' = TurnFields /\ turn'.at \in {"round", "ended"} /\ turn'.calls = {} /\ turn'.done = {}
      BY <1>2, <2>1, <2>2, NextRoundIs
    <2>4. Sound(history, turn) => Sound(history', turn')
      BY <1>1, <2>3 DEF Sound
    <2> QED
      BY <1>1, <2>1, <2>3, <2>4, LoopKeeps
  <1>4. CASE ~turn.reactive
    <2>1. CallProvider(turn.summary, turn)
      BY <1>4 DEF CompactionSucceeds
    <2>2. /\ history' \in Seq(Entries) /\ (disturbed' \/ (Paired(turn.summary) => Paired(history')))
          /\ disturbed => disturbed'
          /\ DOMAIN turn' = TurnFields /\ turn'.at = "calling" /\ turn'.calls = turn.calls /\ turn'.done = turn.done
      BY <1>2, <2>1, CallProviderIs
    <2>3. disturbed' \/ (Sound(history, turn) => Sound(history', turn'))
      BY <1>1, <2>2 DEF Sound
    <2>4. /\ turn.at # "none" /\ turn'.at # "none" /\ turn'.at # "compacting"
          /\ turn'.calls \subseteq ToolCalls /\ turn'.done \subseteq turn'.calls
          /\ UNCHANGED <<known, opener, resumable, active, waiting, sent, broken>> /\ queue' = queue
      BY <1>1, <1>2, <2>2
    <2> QED
      BY <2>2, <2>3, <2>4, LoopKeeps, Zenon
  <1> QED
    BY <1>3, <1>4

LEMMA CompactionFailsKeeps ==
    ASSUME ChatInv, CompactionFails
    PROVE  ChatInv'
PROOF
  <1>1. turn.at = "compacting" /\ CallProvider(history, turn) /\ UNCHANGED <<known, opener, resumable, active, waiting, sent, broken, queue>>
    BY DEF CompactionFails, frontend
  <1>2. history \in Seq(Entries) /\ DOMAIN turn = TurnFields /\ turn.calls \subseteq ToolCalls /\ turn.done \subseteq turn.calls
    BY DEF ChatInv, ChatTypes
  <1>3. /\ history' \in Seq(Entries) /\ (disturbed' \/ (Paired(history) => Paired(history')))
        /\ disturbed => disturbed'
        /\ DOMAIN turn' = TurnFields /\ turn'.at = "calling" /\ turn'.calls = turn.calls /\ turn'.done = turn.done
    BY <1>1, <1>2, CallProviderIs
  <1>4. disturbed' \/ (Sound(history, turn) => Sound(history', turn'))
    BY <1>1, <1>3 DEF Sound
  <1>5. /\ turn.at # "none" /\ turn'.at # "none" /\ turn'.at # "compacting"
        /\ turn'.calls \subseteq ToolCalls /\ turn'.done \subseteq turn'.calls
        /\ UNCHANGED <<known, opener, resumable, active, waiting, sent, broken>> /\ queue' = queue
    BY <1>1, <1>2, <1>3
  <1> QED
    BY <1>3, <1>4, <1>5, LoopKeeps, Zenon

LEMMA ReplyKeeps ==
    ASSUME ChatInv, Reply
    PROVE  ChatInv'
PROOF
  <1>1. /\ turn.at = "calling" /\ UNCHANGED <<known, opener, resumable, active, waiting, sent, broken, queue, disturbed>>
        /\ ReplyWithCalls(history) \/ ReplyWithText(history) \/ ReplyCut(history) \/ Exhausted(history)
    BY DEF Reply, frontend, counters
  <1>2. history \in Seq(Entries) /\ DOMAIN turn = TurnFields
    BY DEF ChatInv, ChatTypes
  <1>3. Entry("reply") \in Entries /\ Entry("reply").role = "reply" /\ Entry("user") \in Entries /\ Entry("user").role = "user"
    BY EntryIs DEF Roles
  <1>4. \A end \in {<<>>, <<Entry("reply")>>} : end \in Seq(Entries) /\ Neutral(end)
    <2>1. <<Entry("reply")>> \in Seq(Entries) /\ Neutral(<<Entry("reply")>>)
      BY <1>3 DEF Neutral
    <2>2. << >> \in Seq(Entries) /\ Neutral(<< >>)
      BY DEF Neutral
    <2> QED
      BY <2>1, <2>2
  <1>5. CASE ReplyWithCalls(history)
    <2>1. PICK ids \in SUBSET ToolCalls \ {{}} :
            history' = Append(history, Calls(ids)) /\ turn' = [turn EXCEPT !.at = "tools", !.calls = ids, !.done = {}]
      BY <1>5 DEF ReplyWithCalls
    <2>2. Paired(history)
      BY <1>5 DEF ReplyWithCalls
    <2>3. DOMAIN turn' = TurnFields /\ turn'.at = "tools" /\ turn'.calls = ids /\ turn'.done = {}
      BY <1>2, <2>1 DEF TurnFields
    <2>4. history' \in Seq(Entries)
      BY <1>2, <2>1, CallsIs
    <2>5. Sound(history', turn')
      BY <1>2, <2>1, <2>2, <2>3 DEF Sound
    <2> QED
      BY <1>1, <2>3, <2>4, <2>5, LoopKeeps
  <1>6. CASE ReplyWithText(history)
    <2>1. PICK end \in {<<>>, <<Entry("reply")>>} : Answer(history \o end)
      BY <1>6 DEF ReplyWithText
    <2>2. history \o end \in Seq(Entries) /\ Paired(history \o end)
      BY <1>2, <1>4, <1>6, PairedConcat DEF ReplyWithText
    <2>3. /\ history' = history \o end /\ DOMAIN turn' = TurnFields /\ turn'.at = "ended"
          /\ turn'.calls = {} /\ turn'.done = {}
      BY <2>1, <2>2, AnswerIs
    <2>4. Sound(history', turn')
      BY <2>2, <2>3 DEF Sound
    <2> QED
      BY <1>1, <2>2, <2>3, <2>4, LoopKeeps
  <1>7. CASE ReplyCut(history)
    <2> DEFINE escalate == ~turn.escalated /\ turn.cuts = 0
               t == [turn EXCEPT !.escalated = escalate, !.cuts = IF escalate THEN @ ELSE @ + 1]
               more == IF escalate THEN <<>> ELSE <<Entry("user")>>
    <2>1. PICK end \in {<<>>, <<Entry("reply")>>} : NextRound(history \o end \o more, t)
      BY <1>7 DEF ReplyCut
    <2>2. more \in Seq(Entries) /\ Neutral(more)
      BY <1>3 DEF Neutral
    <2>3. history \o end \in Seq(Entries) /\ Paired(history \o end)
      BY <1>2, <1>4, <1>7, PairedConcat DEF ReplyCut
    <2>4. history \o end \o more \in Seq(Entries) /\ Paired(history \o end \o more)
      BY <2>2, <2>3, PairedConcat
    <2>5. DOMAIN t = TurnFields
      BY <1>2
    <2> HIDE DEF t, more
    <2>6. /\ history' \in Seq(Entries) /\ Paired(history') /\ DOMAIN turn' = TurnFields
          /\ turn'.at \in {"round", "ended"} /\ turn'.calls = {} /\ turn'.done = {}
      BY <2>1, <2>4, <2>5, NextRoundIs
    <2>7. Sound(history', turn')
      BY <2>6 DEF Sound
    <2> QED
      BY <1>1, <2>6, <2>7, LoopKeeps
  <1>8. CASE Exhausted(history)
    <2>1. Answer(Append(history, Entry("reply"))) /\ Append(history, Entry("reply")) \in Seq(Entries)
      BY <1>2, <1>3, <1>8 DEF Exhausted
    <2>2. /\ history' = Append(history, Entry("reply")) /\ DOMAIN turn' = TurnFields /\ turn'.at = "ended"
          /\ turn'.calls = {} /\ turn'.done = {}
      BY <2>1, AnswerIs
    <2>3. Sound(history, turn) => Sound(history', turn')
      BY <1>1, <1>2, <1>3, <2>2, PairedAppend DEF Sound
    <2> QED
      BY <1>1, <2>1, <2>2, <2>3, LoopKeeps
  <1> QED
    BY <1>1, <1>5, <1>6, <1>7, <1>8

LEMMA ToolEndsKeeps ==
    ASSUME ChatInv, NEW c \in ToolCalls, ToolEnds(c)
    PROVE  ChatInv'
PROOF
  <1> DEFINE done == turn.done \cup {c}
             answered == Append(history, Results(WithTombstones(turn.calls, done)))
             calm == [turn EXCEPT !.escalated = FALSE]
             sayings == [i \in DOMAIN queue |-> Said(queue[i])]
  <1>1. /\ turn.at = "tools" /\ c \in turn.calls \ turn.done
        /\ IF queue # <<>> THEN NextRound(answered \o sayings, calm) /\ queue' = << >>
           ELSE /\ UNCHANGED queue
                /\ IF done = turn.calls THEN NextRound(answered, calm)
                   ELSE turn' = [turn EXCEPT !.done = done] /\ UNCHANGED history
        /\ UNCHANGED <<known, opener, resumable, active, waiting, sent, broken, disturbed>>
    BY DEF ToolEnds, frontend, counters
  <1>2. /\ history \in Seq(Entries) /\ DOMAIN turn = TurnFields /\ queue \in Seq(Nat)
        /\ turn.calls \subseteq ToolCalls /\ turn.done \subseteq turn.calls
    BY DEF ChatInv, ChatTypes
  <1>3. done \subseteq turn.calls /\ WithTombstones(turn.calls, done) = turn.calls
    BY <1>1, <1>2 DEF WithTombstones
  <1>4. answered = Append(history, Results(turn.calls)) /\ answered \in Seq(Entries)
    BY <1>2, <1>3, CallsIs
  <1>5. Sound(history, turn) => Paired(answered)
    <2> SUFFICES ASSUME Sound(history, turn)
                 PROVE  Paired(answered)
      OBVIOUS
    <2>1. PICK front \in Seq(Entries) : Paired(front) /\ history = Append(front, Calls(turn.calls))
      BY <1>1 DEF Sound
    <2> HIDE DEF answered
    <2> QED
      BY <1>2, <1>4, <2>1, PairedTools
  <1>6. DOMAIN calm = TurnFields
    BY <1>2
  <1>7. sayings \in Seq(Entries) /\ Neutral(sayings)
    <2>1. \A i \in 1 .. Len(queue) : sayings[i] \in Entries /\ sayings[i].role = "user"
      <3> SUFFICES ASSUME NEW i \in 1 .. Len(queue)
                   PROVE  sayings[i] \in Entries /\ sayings[i].role = "user"
        OBVIOUS
      <3>1. queue[i] \in Nat /\ sayings[i] = Said(queue[i])
        BY <1>2
      <3> QED
        BY <3>1, SaidIs
    <2>2. DOMAIN queue = 1 .. Len(queue) /\ Len(queue) \in Nat
      BY <1>2
    <2> QED
      BY <2>1, <2>2 DEF Neutral
  <1> HIDE DEF answered, calm, sayings, done
  <1>8. CASE queue # << >>
    <2>1. answered \o sayings \in Seq(Entries) /\ (Paired(answered) => Paired(answered \o sayings))
      <3>1. answered \o sayings \in Seq(Entries)
        BY <1>4, <1>7
      <3> QED
        BY <1>4, <1>7, <3>1, PairedConcat
    <2>2. /\ history' \in Seq(Entries) /\ (Paired(answered \o sayings) => Paired(history'))
          /\ DOMAIN turn' = TurnFields /\ turn'.at \in {"round", "ended"} /\ turn'.calls = {} /\ turn'.done = {}
      BY <1>1, <1>6, <1>8, <2>1, NextRoundIs
    <2>3. Sound(history, turn) => Sound(history', turn')
      BY <1>5, <2>1, <2>2 DEF Sound
    <2> QED
      BY <1>1, <1>8, <2>2, <2>3, LoopKeeps
  <1>9. CASE queue = << >> /\ done = turn.calls
    <2>1. /\ history' \in Seq(Entries) /\ (Paired(answered) => Paired(history'))
          /\ DOMAIN turn' = TurnFields /\ turn'.at \in {"round", "ended"} /\ turn'.calls = {} /\ turn'.done = {}
      BY <1>1, <1>4, <1>6, <1>9, NextRoundIs
    <2>2. Sound(history, turn) => Sound(history', turn')
      BY <1>5, <2>1 DEF Sound
    <2> QED
      BY <1>1, <1>9, <2>1, <2>2, LoopKeeps
  <1>10. CASE queue = << >> /\ done # turn.calls
    <2>1. turn' = [turn EXCEPT !.done = done] /\ UNCHANGED <<history, queue>>
      BY <1>1, <1>10
    <2>2. DOMAIN turn' = TurnFields /\ turn'.at = "tools" /\ turn'.calls = turn.calls /\ turn'.done = done
      BY <1>1, <1>2, <2>1 DEF TurnFields
    <2>3. Sound(history, turn) => Sound(history', turn')
      BY <1>1, <2>1, <2>2 DEF Sound
    <2> QED
      BY <1>1, <1>2, <1>3, <2>1, <2>2, <2>3, LoopKeeps
  <1> QED
    BY <1>8, <1>9, <1>10
-----------------------------------------------------------------------------
LEMMA ChatStep == ChatInv /\ [ConversationNext]_chatVars => ChatInv'
PROOF
  <1> SUFFICES ASSUME ChatInv, [ConversationNext]_chatVars
               PROVE  ChatInv'
    OBVIOUS
  <1>1. CASE UNCHANGED chatVars
    <2>1. /\ UNCHANGED <<known, opener, active, queue, waiting, sent, history, turn, broken>>
          /\ UNCHANGED disturbed
      BY <1>1 DEF chatVars
    <2> QED
      BY <2>1 DEF ChatInv, ChatTypes, TurnKnown, QueueServed, Sound
  <1> QED
    BY <1>1, ReceiveKeeps, OpenedKeeps, ClearKeeps, BreakKeeps, EndTurnKeeps,
       BeginRoundKeeps,
       BeginCompactionKeeps, CompactionSucceedsKeeps, CompactionFailsKeeps, ReplyKeeps, ToolEndsKeeps
       DEF ConversationNext, TurnStep

(* No message is left in the queue of a chat at rest, for any number of    *)
(* messages, rounds and calls.                                             *)
THEOREM QueueAlwaysServed == ConversationSpec => []QueueServed
PROOF
  <1>1. ChatInv => QueueServed
    BY DEF ChatInv
  <1> QED
    BY <1>1, InitChat, ChatStep, PTL DEF ConversationSpec

(* The provider is called with calls and results in pairs, for any number  *)
(* of messages, rounds and calls.                                          *)
THEOREM HistoryStaysPaired == ConversationSpec => []HistoryPaired
PROOF
  <1>1. ChatInv => HistoryPaired
    BY DEF ChatInv, Sound, HistoryPaired
  <1> QED
    BY <1>1, InitChat, ChatStep, PTL DEF ConversationSpec

------------------------------------------------------------------------------
(* The terminal's message pump (Terminal).                                 *)

AppMessages == [kind : {"text", "clear", "compact", "escape", "force", "complete"}, line : Nat]
TurnTasks ==
    [at : {"new", "lock", "calling", "tools", "done", "never"}, token : Nat, forced : BOOLEAN, line : Nat]

TuiTypes ==
    /\ mailbox \in Seq(AppMessages) /\ tasks \in Seq(TurnTasks) /\ pending \in Seq(Nat)
    /\ current \in 0 .. Len(tasks) /\ token \in Nat /\ timers \in Seq(Nat) /\ typed \in Nat

TuiInv == TuiTypes /\ LinesTaken

AtWork(ts) == \E i \in DOMAIN ts : ts[i].at # "done"

LEMMA InitTui == TerminalInit => TuiInv
  BY DEF TerminalInit, TuiInv, TuiTypes, LinesTaken, None

LEMMA AppendLines ==
    ASSUME NEW box \in Seq(AppMessages), NEW e \in AppMessages
    PROVE  /\ Append(box, e) \in Seq(AppMessages) /\ LinesIn(box) \subseteq LinesIn(Append(box, e))
           /\ e.kind \in {"text", "clear", "compact"} => e.line \in LinesIn(Append(box, e))
           /\ SentinelIn(box) \/ e.kind = "complete" => SentinelIn(Append(box, e))
PROOF
  <1> DEFINE all == Append(box, e)
  <1>1. /\ all \in Seq(AppMessages) /\ DOMAIN all = 1 .. Len(box) + 1 /\ DOMAIN box = 1 .. Len(box) /\ Len(box) \in Nat
        /\ \A k \in 1 .. Len(box) : all[k] = box[k]
        /\ all[Len(box) + 1] = e
    OBVIOUS
  <1> HIDE DEF all
  <1>2. LinesIn(box) \subseteq LinesIn(all) /\ (SentinelIn(box) => SentinelIn(all))
    BY <1>1 DEF LinesIn, SentinelIn
  <1>3. e.kind \in {"text", "clear", "compact"} => e.line \in LinesIn(all)
    BY <1>1 DEF LinesIn
  <1>4. e.kind = "complete" => SentinelIn(all)
    BY <1>1 DEF SentinelIn
  <1> QED
    BY <1>1, <1>2, <1>3, <1>4 DEF all

LEMMA TailLines ==
    ASSUME NEW box \in Seq(AppMessages), box # << >>
    PROVE  /\ Tail(box) \in Seq(AppMessages) /\ Head(box) \in AppMessages
           /\ LinesIn(box) \subseteq LinesIn(Tail(box)) \cup {Head(box).line}
           /\ Head(box).kind \notin {"text", "clear", "compact"} => LinesIn(box) \subseteq LinesIn(Tail(box))
           /\ Head(box).kind # "complete" /\ SentinelIn(box) => SentinelIn(Tail(box))
PROOF
  <1> DEFINE rest == Tail(box)
  <1>1. /\ rest \in Seq(AppMessages) /\ Head(box) \in AppMessages /\ Head(box) = box[1] /\ DOMAIN box = 1 .. Len(box)
        /\ Len(box) \in Nat /\ DOMAIN rest = 1 .. Len(box) - 1
        /\ \A k \in 1 .. Len(box) - 1 : rest[k] = box[k + 1]
    OBVIOUS
  <1> HIDE DEF rest
  <1>2. \A k \in DOMAIN box : k = 1 \/ (k - 1 \in DOMAIN rest /\ rest[k - 1] = box[k])
    BY <1>1
  <1>3. /\ LinesIn(box) \subseteq LinesIn(rest) \cup {Head(box).line}
        /\ Head(box).kind \notin {"text", "clear", "compact"} => LinesIn(box) \subseteq LinesIn(rest)
    BY <1>1, <1>2 DEF LinesIn
  <1>4. Head(box).kind # "complete" /\ SentinelIn(box) => SentinelIn(rest)
    BY <1>1, <1>2 DEF SentinelIn
  <1> QED
    BY <1>1, <1>3, <1>4 DEF rest

LEMMA PendingLines ==
    ASSUME NEW p \in Seq(Nat)
    PROVE  /\ \A line \in Nat : Append(p, line) \in Seq(Nat) /\ ToSet(Append(p, line)) = ToSet(p) \cup {line}
           /\ p # << >> => Head(p) \in Nat /\ Tail(p) \in Seq(Nat) /\ ToSet(p) \subseteq {Head(p)} \cup ToSet(Tail(p))
PROOF
  <1>1. ASSUME NEW line \in Nat
        PROVE  Append(p, line) \in Seq(Nat) /\ ToSet(Append(p, line)) = ToSet(p) \cup {line}
    <2>1. /\ Append(p, line) \in Seq(Nat) /\ DOMAIN Append(p, line) = 1 .. Len(p) + 1 /\ DOMAIN p = 1 .. Len(p) /\ Len(p) \in Nat
          /\ \A k \in 1 .. Len(p) : Append(p, line)[k] = p[k]
          /\ Append(p, line)[Len(p) + 1] = line
      OBVIOUS
    <2>2. DOMAIN Append(p, line) = DOMAIN p \cup {Len(p) + 1}
      BY <2>1
    <2> QED
      BY <2>1, <2>2 DEF ToSet
  <1>2. ASSUME p # << >>
        PROVE  Head(p) \in Nat /\ Tail(p) \in Seq(Nat) /\ ToSet(p) \subseteq {Head(p)} \cup ToSet(Tail(p))
    <2>1. /\ Head(p) \in Nat /\ Tail(p) \in Seq(Nat) /\ Head(p) = p[1]
          /\ \A k \in DOMAIN p : k = 1 \/ (k - 1 \in DOMAIN Tail(p) /\ Tail(p)[k - 1] = p[k])
      BY <1>2
    <2> QED
      BY <2>1 DEF ToSet
  <1> QED
    BY <1>1, <1>2

(* A step that takes no line out of the mailbox and none from the queue.   *)
LEMMA NothingTaken ==
    ASSUME TuiInv, mailbox' \in Seq(AppMessages), tasks' \in Seq(TurnTasks), UNCHANGED <<pending, typed, current>>,
           Len(tasks') = Len(tasks), token' \in Nat, timers' \in Seq(Nat),
           taken \subseteq taken', LinesIn(mailbox) \subseteq LinesIn(mailbox') \cup taken',
           AtWork(tasks) \/ SentinelIn(mailbox) => AtWork(tasks') \/ SentinelIn(mailbox')
    PROVE  TuiInv'
PROOF
  <1>1. TuiTypes'
    BY DEF TuiInv, TuiTypes
  <1>2. LinesTaken'
    BY DEF TuiInv, LinesTaken, AtWork
  <1> QED
    BY <1>1, <1>2 DEF TuiInv

(* What reaches the app.                                                   *)
LEMMA ArrivalKeeps ==
    ASSUME TuiInv, (\E kind \in {"text", "clear", "compact"} : Type(kind)) \/ PressEscape \/ TimerFires
    PROVE  TuiInv'
PROOF
  <1>1. ASSUME NEW kind \in {"text", "clear", "compact"}, Type(kind)
        PROVE  TuiInv'
    <2>1. /\ typed' = typed + 1 /\ typed \in Nat /\ mailbox' = Append(mailbox, Message(kind, typed'))
          /\ UNCHANGED <<tasks, current, token, timers, pending, taken>>
      BY <1>1 DEF Type, TuiInv, TuiTypes
    <2>2. Message(kind, typed') \in AppMessages /\ Message(kind, typed').kind = kind /\ Message(kind, typed').line = typed'
      BY <2>1 DEF Message, AppMessages
    <2>3. mailbox \in Seq(AppMessages)
      BY DEF TuiInv, TuiTypes
    <2>4. /\ mailbox' \in Seq(AppMessages) /\ LinesIn(mailbox) \subseteq LinesIn(mailbox')
          /\ typed' \in LinesIn(mailbox') /\ (SentinelIn(mailbox) => SentinelIn(mailbox'))
      BY <2>1, <2>2, <2>3, AppendLines
    <2>5. 1 .. typed' = (1 .. typed) \cup {typed'}
      BY <2>1
    <2>6. LinesTaken'
      BY <2>1, <2>4, <2>5 DEF TuiInv, LinesTaken
    <2> QED
      BY <2>1, <2>4, <2>6 DEF TuiInv, TuiTypes
  <1>2. CASE PressEscape
    <2>1. mailbox' = Append(mailbox, Message("escape", None)) /\ UNCHANGED <<tasks, current, token, timers, pending, typed, taken>>
      BY <1>2 DEF PressEscape
    <2>2. Message("escape", None) \in AppMessages /\ mailbox \in Seq(AppMessages)
      BY DEF Message, AppMessages, None, TuiInv, TuiTypes
    <2> QED
      BY <2>1, <2>2, AppendLines, NothingTaken DEF TuiInv, TuiTypes
  <1>3. CASE TimerFires
    <2>1. /\ timers # << >> /\ timers' = Tail(timers) /\ mailbox' = Append(mailbox, Message("force", Head(timers)))
          /\ UNCHANGED <<tasks, current, token, pending, typed, taken>>
      BY <1>3 DEF TimerFires
    <2>2. Message("force", Head(timers)) \in AppMessages /\ mailbox \in Seq(AppMessages) /\ timers' \in Seq(Nat)
      BY <2>1 DEF Message, AppMessages, TuiInv, TuiTypes
    <2> QED
      BY <2>1, <2>2, AppendLines, NothingTaken DEF TuiInv, TuiTypes
  <1> QED
    BY <1>1, <1>2, <1>3

LEMMA NewTaskIs ==
    ASSUME TuiTypes, NEW line \in Nat
    PROVE  /\ Append(tasks, NewTask(line)) \in Seq(TurnTasks) /\ Len(Append(tasks, NewTask(line))) = Len(tasks) + 1
           /\ Len(tasks) + 1 \in Nat /\ AtWork(Append(tasks, NewTask(line)))
PROOF
  <1>1. NewTask(line) \in TurnTasks /\ NewTask(line).at = "new"
    BY DEF NewTask, TurnTasks, None
  <1>2. tasks \in Seq(TurnTasks)
    BY DEF TuiTypes
  <1>3. /\ Append(tasks, NewTask(line)) \in Seq(TurnTasks) /\ Len(Append(tasks, NewTask(line))) = Len(tasks) + 1
        /\ Len(tasks) + 1 \in Nat /\ Len(tasks) + 1 \in DOMAIN Append(tasks, NewTask(line))
        /\ Append(tasks, NewTask(line))[Len(tasks) + 1] = NewTask(line)
    BY <1>1, <1>2
  <1> QED
    BY <1>1, <1>3 DEF AtWork

(* A line is handled: it waits behind the turn at work, or it is taken.    *)
LEMMA LineHandled ==
    ASSUME TuiInv, mailbox # << >>, mailbox' = Tail(mailbox), Head(mailbox).kind # "complete",
           UNCHANGED <<timers, typed>>,
           \/ Active /\ Enqueue(Head(mailbox).line)
           \/ RunTurn(Head(mailbox).line) /\ UNCHANGED pending
           \/ taken' = taken \cup {Head(mailbox).line} /\ UNCHANGED <<pending, tasks, current, token>>
    PROVE  TuiInv'
PROOF
  <1> DEFINE line == Head(mailbox).line
  <1>1. /\ mailbox' \in Seq(AppMessages) /\ Head(mailbox) \in AppMessages
        /\ LinesIn(mailbox) \subseteq LinesIn(mailbox') \cup {line}
        /\ SentinelIn(mailbox) => SentinelIn(mailbox')
    BY TailLines DEF TuiInv, TuiTypes
  <1>2. line \in Nat /\ pending \in Seq(Nat)
    BY <1>1 DEF AppMessages, TuiInv, TuiTypes
  <1> HIDE DEF line
  <1>3. CASE Active /\ Enqueue(line)
    <2>1. pending' = Append(pending, line) /\ UNCHANGED <<tasks, current, token, taken>>
      BY <1>3 DEF Enqueue
    <2>2. pending' \in Seq(Nat) /\ ToSet(pending') = ToSet(pending) \cup {line}
      BY <1>2, <2>1, PendingLines
    <2>3. AtWork(tasks)
      BY <1>3 DEF Active, Over, AtWork, None, TuiInv, TuiTypes
    <2>4. LinesTaken'
      BY <1>1, <2>1, <2>2, <2>3 DEF TuiInv, LinesTaken, AtWork
    <2> QED
      BY <1>1, <2>1, <2>2, <2>4 DEF TuiInv, TuiTypes
  <1>4. CASE RunTurn(line) /\ UNCHANGED pending
    <2>1. /\ tasks' = Append(tasks, NewTask(line)) /\ current' = Len(tasks) + 1 /\ token' = Len(tasks) + 1
          /\ taken' = taken \cup {line}
      BY <1>4 DEF RunTurn
    <2>2. tasks' \in Seq(TurnTasks) /\ Len(tasks') = Len(tasks) + 1 /\ Len(tasks) + 1 \in Nat /\ AtWork(tasks')
      BY <1>2, <2>1, NewTaskIs DEF TuiInv
    <2>3. LinesTaken'
      BY <1>1, <1>4, <2>1, <2>2 DEF TuiInv, LinesTaken, AtWork
    <2> QED
      BY <1>1, <1>4, <2>1, <2>2, <2>3 DEF TuiInv, TuiTypes
  <1>5. CASE taken' = taken \cup {line} /\ UNCHANGED <<pending, tasks, current, token>>
    <2>1. token' \in Nat /\ timers' \in Seq(Nat) /\ tasks' \in Seq(TurnTasks)
      BY <1>5 DEF TuiInv, TuiTypes
    <2> QED
      BY <1>1, <1>5, <2>1, NothingTaken
  <1> QED
    BY <1>3, <1>4, <1>5 DEF line

LEMMA OnLineKeeps ==
    ASSUME TuiInv, OnText \/ OnClear \/ OnCompact
    PROVE  TuiInv'
  BY LineHandled DEF OnText, OnClear, OnCompact, Got

LEMMA OnTurnCompleteKeeps ==
    ASSUME TuiInv, OnTurnComplete
    PROVE  TuiInv'
PROOF
  <1>1. /\ mailbox # << >> /\ Head(mailbox).kind = "complete" /\ mailbox' = Tail(mailbox) /\ UNCHANGED <<timers, typed>>
        /\ IF pending = << >> THEN current' = None /\ UNCHANGED <<tasks, token, taken, pending>>
           ELSE pending' = Tail(pending) /\ RunTurn(Head(pending))
    BY DEF OnTurnComplete, Got
  <1>2. mailbox' \in Seq(AppMessages) /\ LinesIn(mailbox) \subseteq LinesIn(mailbox')
    BY <1>1, TailLines DEF TuiInv, TuiTypes
  <1>3. CASE pending = << >>
    <2>1. TuiTypes'
      BY <1>1, <1>2, <1>3 DEF TuiInv, TuiTypes, None
    <2>2. LinesTaken'
      BY <1>1, <1>2, <1>3 DEF TuiInv, LinesTaken
    <2> QED
      BY <2>1, <2>2 DEF TuiInv
  <1>4. CASE pending # << >>
    <2>1. /\ pending \in Seq(Nat) /\ Head(pending) \in Nat /\ pending' \in Seq(Nat)
          /\ ToSet(pending) \subseteq {Head(pending)} \cup ToSet(pending')
      BY <1>1, <1>4, PendingLines DEF TuiInv, TuiTypes
    <2>2. /\ tasks' = Append(tasks, NewTask(Head(pending))) /\ current' = Len(tasks) + 1 /\ token' = Len(tasks) + 1
          /\ taken' = taken \cup {Head(pending)}
      BY <1>1, <1>4 DEF RunTurn
    <2>3. tasks' \in Seq(TurnTasks) /\ Len(tasks') = Len(tasks) + 1 /\ Len(tasks) + 1 \in Nat /\ AtWork(tasks')
      BY <2>1, <2>2, NewTaskIs DEF TuiInv
    <2>4. LinesTaken'
      BY <1>1, <1>2, <2>1, <2>2, <2>3 DEF TuiInv, LinesTaken, AtWork
    <2> QED
      BY <1>1, <1>2, <2>1, <2>2, <2>3, <2>4 DEF TuiInv, TuiTypes
  <1> QED
    BY <1>3, <1>4

LEMMA TaskChanged ==
    ASSUME NEW ts \in Seq(TurnTasks), NEW i \in DOMAIN ts, NEW task \in TurnTasks
    PROVE  /\ [ts EXCEPT ![i] = task] \in Seq(TurnTasks) /\ Len([ts EXCEPT ![i] = task]) = Len(ts)
           /\ task.at # "done" => AtWork([ts EXCEPT ![i] = task])
           /\ task.at = ts[i].at => (AtWork(ts) => AtWork([ts EXCEPT ![i] = task]))
PROOF
  <1>1. [ts EXCEPT ![i] = task] \in Seq(TurnTasks) /\ Len([ts EXCEPT ![i] = task]) = Len(ts)
    OBVIOUS
  <1>2. /\ DOMAIN [ts EXCEPT ![i] = task] = DOMAIN ts /\ [ts EXCEPT ![i] = task][i] = task
        /\ \A j \in DOMAIN ts \ {i} : [ts EXCEPT ![i] = task][j] = ts[j]
    OBVIOUS
  <1> QED
    BY <1>1, <1>2 DEF AtWork

(* A key or a timer.                                                       *)
LEMMA OnKeyKeeps ==
    ASSUME TuiInv, OnEscape \/ OnForce
    PROVE  TuiInv'
PROOF
  <1>1. /\ mailbox # << >> /\ Head(mailbox).kind \in {"escape", "force"} /\ mailbox' = Tail(mailbox)
        /\ UNCHANGED <<current, token, pending, typed, taken>>
    BY DEF OnEscape, OnForce, Got
  <1>2. /\ mailbox' \in Seq(AppMessages) /\ LinesIn(mailbox) \subseteq LinesIn(mailbox')
        /\ SentinelIn(mailbox) => SentinelIn(mailbox')
    BY <1>1, TailLines DEF TuiInv, TuiTypes
  <1>3. timers \in Seq(Nat) /\ current \in Nat /\ token \in Nat /\ tasks \in Seq(TurnTasks)
    BY DEF TuiInv, TuiTypes
  <1>4. CASE OnEscape
    <2>1. timers' \in Seq(Nat) /\ UNCHANGED tasks
      BY <1>3, <1>4 DEF OnEscape
    <2> QED
      BY <1>1, <1>2, <1>3, <2>1, NothingTaken
  <1>5. CASE OnForce
    <2>1. UNCHANGED timers /\ tasks' = IF Active THEN [tasks EXCEPT ![current].forced = TRUE] ELSE tasks
      BY <1>5 DEF OnForce
    <2>2. tasks' \in Seq(TurnTasks) /\ Len(tasks') = Len(tasks) /\ (AtWork(tasks) => AtWork(tasks'))
      <3>1. CASE Active
        <4>1. current \in DOMAIN tasks /\ tasks[current] \in TurnTasks
          BY <3>1, <1>3 DEF Active, None, TuiInv, TuiTypes
        <4>2. [tasks[current] EXCEPT !.forced = TRUE] \in TurnTasks
              /\ [tasks[current] EXCEPT !.forced = TRUE].at = tasks[current].at
          BY <4>1 DEF TurnTasks
        <4> QED
          BY <1>3, <2>1, <3>1, <4>1, <4>2, TaskChanged
      <3>2. CASE ~Active
        BY <1>3, <2>1, <3>2
      <3> QED
        BY <3>1, <3>2
    <2> QED
      BY <1>1, <1>2, <1>3, <2>1, <2>2, NothingTaken
  <1> QED
    BY <1>4, <1>5

-----------------------------------------------------------------------------
(* The turns.                                                              *)
LEMMA CompactEndsKeeps ==
    ASSUME TuiInv, CompactEnds
    PROVE  TuiInv'
  BY NothingTaken DEF CompactEnds, TuiInv, TuiTypes

LEMMA AdvanceIs ==
    ASSUME TuiInv, NEW i \in DOMAIN tasks, NEW at \in {"new", "lock", "calling", "tools", "never"}, Advance(i, at)
    PROVE  /\ tasks' \in Seq(TurnTasks) /\ Len(tasks') = Len(tasks) /\ AtWork(tasks')
           /\ UNCHANGED <<mailbox, token>>
PROOF
  <1>1. tasks' = [tasks EXCEPT ![i].at = at] /\ UNCHANGED <<mailbox, token>>
    BY DEF Advance
  <1>2. tasks \in Seq(TurnTasks) /\ tasks[i] \in TurnTasks
    BY DEF TuiInv, TuiTypes
  <1>3. [tasks[i] EXCEPT !.at = at] \in TurnTasks /\ [tasks[i] EXCEPT !.at = at].at = at
    BY <1>2 DEF TurnTasks
  <1> QED
    BY <1>1, <1>2, <1>3, TaskChanged

LEMMA FinishIs ==
    ASSUME TuiInv, NEW i \in DOMAIN tasks, Finish(i)
    PROVE  /\ tasks' \in Seq(TurnTasks) /\ Len(tasks') = Len(tasks) /\ token' \in Nat
           /\ mailbox' \in Seq(AppMessages) /\ LinesIn(mailbox) \subseteq LinesIn(mailbox') /\ SentinelIn(mailbox')
PROOF
  <1>1. /\ tasks' = [tasks EXCEPT ![i].at = "done"] /\ token' = None
        /\ mailbox' = Append(mailbox, Message("complete", None))
    BY DEF Finish
  <1>2. tasks \in Seq(TurnTasks) /\ tasks[i] \in TurnTasks /\ mailbox \in Seq(AppMessages)
    BY DEF TuiInv, TuiTypes
  <1>3. [tasks[i] EXCEPT !.at = "done"] \in TurnTasks
    BY <1>2 DEF TurnTasks
  <1>4. Message("complete", None) \in AppMessages /\ Message("complete", None).kind = "complete"
    BY DEF Message, AppMessages, None
  <1> QED
    BY <1>1, <1>2, <1>3, <1>4, TaskChanged, AppendLines DEF None

(* A task goes on, or ends and posts its sentinel.                         *)
LEMMA TaskStepKeeps ==
    ASSUME TuiInv, TaskStep
    PROVE  TuiInv'
PROOF
  <1>1. PICK i \in DOMAIN tasks :
            Begin(i) \/ Acquire(i) \/ Answered(i) \/ AsksForTools(i) \/ ToolsEnd(i) \/ ForcedToEnd(i)
    BY DEF TaskStep
  <1>2. /\ tasks \in Seq(TurnTasks) /\ mailbox \in Seq(AppMessages) /\ token \in Nat /\ timers \in Seq(Nat)
        /\ tasks[i] \in TurnTasks
    BY DEF TuiInv, TuiTypes
  <1>3. CASE Begin(i)
    <2>1. /\ tasks' = [tasks EXCEPT ![i].at = "lock", ![i].token = token]
          /\ UNCHANGED <<mailbox, current, token, timers, pending, typed, taken>>
      BY <1>3 DEF Begin
    <2>2. tasks' = [tasks EXCEPT ![i] = [[tasks[i] EXCEPT !.at = "lock"] EXCEPT !.token = token]]
      BY <1>2, <2>1
    <2>3. /\ [[tasks[i] EXCEPT !.at = "lock"] EXCEPT !.token = token] \in TurnTasks
          /\ [[tasks[i] EXCEPT !.at = "lock"] EXCEPT !.token = token].at = "lock"
      BY <1>2 DEF TurnTasks
    <2>4. tasks' \in Seq(TurnTasks) /\ Len(tasks') = Len(tasks) /\ AtWork(tasks')
      BY <1>2, <2>2, <2>3, TaskChanged
    <2> QED
      BY <1>2, <2>1, <2>4, NothingTaken
  <1>4. CASE Acquire(i)
    <2>1. Advance(i, "calling") /\ UNCHANGED <<current, timers, pending, typed, taken>>
      BY <1>4 DEF Acquire
    <2> QED
      BY <1>2, <2>1, AdvanceIs, NothingTaken
  <1>5. CASE Answered(i)
    <2>1. Finish(i) /\ UNCHANGED <<current, timers, pending, typed, taken>>
      BY <1>5 DEF Answered
    <2> QED
      BY <1>2, <2>1, FinishIs, NothingTaken
  <1>6. CASE AsksForTools(i)
    <2>1. Advance(i, "tools") /\ UNCHANGED <<current, timers, pending, typed, taken>>
      BY <1>6 DEF AsksForTools
    <2> QED
      BY <1>2, <2>1, AdvanceIs, NothingTaken
  <1>7. CASE ToolsEnd(i)
    <2>1. /\ pending' = << >> /\ taken' = taken \cup ToSet(pending) /\ UNCHANGED <<current, timers, typed>>
          /\ Finish(i) \/ Advance(i, "calling")
      BY <1>7 DEF ToolsEnd
    <2>2. /\ tasks' \in Seq(TurnTasks) /\ Len(tasks') = Len(tasks) /\ token' \in Nat
          /\ mailbox' \in Seq(AppMessages) /\ LinesIn(mailbox) \subseteq LinesIn(mailbox')
      BY <1>2, <2>1, FinishIs, AdvanceIs
    <2>3. TuiTypes'
      BY <1>2, <2>1, <2>2 DEF TuiInv, TuiTypes
    <2>4. LinesTaken'
      BY <2>1, <2>2 DEF TuiInv, LinesTaken
    <2> QED
      BY <2>3, <2>4 DEF TuiInv
  <1>8. CASE ForcedToEnd(i)
    <2>1. /\ Advance(i, "never") \/ Finish(i)
          /\ UNCHANGED <<current, timers, pending, typed, taken>>
      BY <1>8 DEF ForcedToEnd
    <2>2. /\ tasks' \in Seq(TurnTasks) /\ Len(tasks') = Len(tasks) /\ token' \in Nat
          /\ mailbox' \in Seq(AppMessages) /\ LinesIn(mailbox) \subseteq LinesIn(mailbox')
          /\ AtWork(tasks') \/ SentinelIn(mailbox')
      BY <1>2, <2>1, FinishIs, AdvanceIs
    <2> QED
      BY <1>2, <2>1, <2>2, NothingTaken
  <1> QED
    BY <1>1, <1>3, <1>4, <1>5, <1>6, <1>7, <1>8

LEMMA TuiStep == TuiInv /\ [TerminalNext]_tuiVars => TuiInv'
PROOF
  <1> SUFFICES ASSUME TuiInv, [TerminalNext]_tuiVars
               PROVE  TuiInv'
    OBVIOUS
  <1>1. CASE UNCHANGED tuiVars
    BY <1>1 DEF tuiVars, TuiInv, TuiTypes, LinesTaken
  <1> QED
    BY <1>1, ArrivalKeeps, OnLineKeeps, CompactEndsKeeps, OnTurnCompleteKeeps,
       OnKeyKeeps, TaskStepKeeps
       DEF TerminalNext

(* No line is lost, however many are typed and however often a turn is     *)
(* interrupted.                                                            *)
THEOREM NoLineLost == TerminalSpec => []LinesTaken
PROOF
  <1>1. TuiInv => LinesTaken
    BY DEF TuiInv
  <1> QED
    BY <1>1, InitTui, TuiStep, PTL DEF TerminalSpec

------------------------------------------------------------------------------
(* Messages that Feishu and WeChat hand over (Messengers).                 *)

MsgTypes ==
    /\ seenIds \subseteq FeishuMessages /\ due \subseteq FeishuMessages
    /\ begun \in [FeishuMessages -> Nat] /\ forgot \in [FeishuMessages -> Nat]
    /\ arrived \in Nat /\ cursor \in Nat /\ busy \in Nat
    /\ polled \in Seq(Nat) /\ handled \in Seq(Nat)

(* A message whose id is not known was begun no more often than it was     *)
(* forgotten.                                                              *)
Once ==
    \A m \in FeishuMessages : begun[m] <= (IF m \in seenIds THEN 1 + forgot[m] ELSE forgot[m])

(* What was polled ends at the cursor, the message at work is the one      *)
(* before it, and those that are handled end where that one begins.        *)
Reached == cursor - Len(polled)
InOrder ==
    /\ Len(polled) <= cursor
    /\ \A i \in DOMAIN polled : polled[i] = Reached + i
    /\ busy # 0 => busy = Reached
    /\ handled # << >> => Last(handled) = (IF busy = 0 THEN Reached ELSE Reached - 1)
    /\ \A i \in 2 .. Len(handled) : handled[i] = handled[i - 1] + 1

MsgInv == MsgTypes /\ Once /\ InOrder

LEMMA InitMsg == MsgInit => MsgInv
  BY DEF MsgInit, MsgInv, MsgTypes, Once, InOrder, Reached

(* An event that comes again is begun again only if its id was dropped.    *)
LEMMA DeliverKeeps ==
    ASSUME MsgInv, NEW m \in FeishuMessages, Deliver(m)
    PROVE  MsgInv'
PROOF
  <1>1. UNCHANGED <<arrived, cursor, polled, busy, handled>> /\ due' \subseteq FeishuMessages
    BY DEF Deliver, wechatVars, MsgInv, MsgTypes
  <1>2. InOrder'
    BY <1>1 DEF MsgInv, InOrder, Reached
  <1>3. CASE IsDuplicate(m)
    BY <1>1, <1>2, <1>3 DEF Deliver, MsgInv, MsgTypes, Once
  <1>4. CASE ~IsDuplicate(m)
    <2>1. PICK kept \in Remembered(seenIds \cup {m}) :
            /\ seenIds' = kept
            /\ forgot' = [x \in FeishuMessages |->
                    IF x \in (seenIds \cup {m}) \ kept THEN forgot[x] + 1 ELSE forgot[x]]
      BY <1>4 DEF Deliver
    <2>2. kept \subseteq seenIds \cup {m}
      BY DEF Remembered, kSubset
    <2>3. begun' = [begun EXCEPT ![m] = @ + 1]
      BY <1>4 DEF Deliver
    <2>4. MsgTypes'
      BY <1>1, <2>1, <2>2, <2>3 DEF MsgInv, MsgTypes
    <2>5. Once'
      BY <1>4, <2>1, <2>2, <2>3 DEF MsgInv, MsgTypes, Once, IsDuplicate
    <2> QED
      BY <1>2, <2>4, <2>5 DEF MsgInv
  <1> QED
    BY <1>3, <1>4

LEMMA PollKeeps ==
    ASSUME MsgInv, Poll
    PROVE  MsgInv'
PROOF
  <1>1. PICK newest \in cursor .. arrived :
          newest > cursor /\ polled' = [i \in 1 .. newest - cursor |-> cursor + i] /\ cursor' = newest
    BY DEF Poll
  <1>2. cursor \in Nat /\ newest \in Nat /\ polled = << >> /\ busy = 0
    BY <1>1 DEF Poll, MsgInv, MsgTypes
  <1>3. polled' \in Seq(Nat) /\ Len(polled') = newest - cursor
    BY <1>1, <1>2
  <1>4. Reached = cursor /\ Reached' = cursor
    BY <1>1, <1>2, <1>3 DEF Reached
  <1>5. UNCHANGED <<webhook, due, seenIds, atWork, begun, forgot, arrived, busy, handled>>
    BY DEF Poll, feishuVars
  <1>6. MsgTypes' /\ Once'
    BY <1>1, <1>2, <1>3, <1>5 DEF MsgInv, MsgTypes, Once
  <1>7. InOrder'
    BY <1>1, <1>2, <1>3, <1>4, <1>5 DEF MsgInv, InOrder
  <1> QED
    BY <1>6, <1>7 DEF MsgInv

LEMMA HandleKeeps ==
    ASSUME MsgInv, Handle
    PROVE  MsgInv'
PROOF
  <1>1. /\ polled # << >> /\ busy = 0 /\ busy' = Head(polled) /\ polled' = Tail(polled)
        /\ UNCHANGED <<due, seenIds, begun, forgot, arrived, cursor, handled>>
    BY DEF Handle, feishuVars
  <1>2. /\ polled \in Seq(Nat) /\ cursor \in Nat /\ Len(polled) <= cursor
        /\ \A i \in DOMAIN polled : polled[i] = Reached + i
    BY DEF MsgInv, MsgTypes, InOrder
  <1>3. /\ polled' \in Seq(Nat) /\ Len(polled') = Len(polled) - 1 /\ Len(polled) \in Nat
        /\ \A i \in DOMAIN polled' : i \in Nat /\ i + 1 \in DOMAIN polled /\ polled'[i] = polled[i + 1]
        /\ 1 \in DOMAIN polled /\ busy' = polled[1]
    BY <1>1, <1>2
  <1>4. Reached \in Nat /\ Reached' = Reached + 1 /\ busy' = Reached + 1
    BY <1>1, <1>2, <1>3 DEF Reached
  <1>5. MsgTypes' /\ Once'
    BY <1>1, <1>3, <1>4 DEF MsgInv, MsgTypes, Once
  <1>6. \A i \in DOMAIN polled' : polled'[i] = Reached' + i
    <2> SUFFICES ASSUME NEW i \in DOMAIN polled'
                 PROVE  polled'[i] = Reached' + i
      OBVIOUS
    <2>1. i \in Nat /\ polled'[i] = Reached + (i + 1)
      BY <1>2, <1>3
    <2> HIDE DEF Reached
    <2> QED
      BY <1>4, <2>1
  <1>7. InOrder'
    BY <1>1, <1>2, <1>3, <1>4, <1>6 DEF MsgInv, InOrder
  <1> QED
    BY <1>5, <1>7 DEF MsgInv

LEMMA HandledKeeps ==
    ASSUME MsgInv, Handled
    PROVE  MsgInv'
PROOF
  <1>1. /\ busy # 0 /\ busy' = 0 /\ handled' = Append(handled, busy)
        /\ UNCHANGED <<due, seenIds, begun, forgot, arrived, cursor, polled>>
    BY DEF Handled, feishuVars
  <1>2. handled \in Seq(Nat) /\ busy \in Nat /\ busy = Reached
    BY <1>1 DEF MsgInv, MsgTypes, InOrder
  <1>3. /\ handled' \in Seq(Nat) /\ handled' # << >> /\ Len(handled') = Len(handled) + 1
        /\ Last(handled') = busy /\ Len(handled) \in Nat
        /\ \A i \in 1 .. Len(handled) : handled'[i] = handled[i]
        /\ handled'[Len(handled) + 1] = busy
    BY <1>1, <1>2 DEF Last
  <1>4. \A i \in 2 .. Len(handled') : handled'[i] = handled'[i - 1] + 1
    <2> SUFFICES ASSUME NEW i \in 2 .. Len(handled')
                 PROVE  handled'[i] = handled'[i - 1] + 1
      OBVIOUS
    <2>1. CASE i <= Len(handled)
      BY <1>3, <2>1 DEF MsgInv, InOrder
    <2>2. CASE i = Len(handled) + 1
      <3>1. handled # << >> /\ Last(handled) = handled[Len(handled)]
        BY <1>2, <1>3, <2>2 DEF Last
      <3>2. busy = Last(handled) + 1
        BY <1>1, <1>2, <3>1 DEF MsgInv, MsgTypes, InOrder
      <3>3. i - 1 = Len(handled) /\ handled'[i - 1] = handled[Len(handled)]
        BY <1>3, <2>2
      <3> QED
        BY <1>3, <2>2, <3>1, <3>2, <3>3
    <2> QED
      BY <1>3, <2>1, <2>2
  <1>5. MsgTypes' /\ Once'
    BY <1>1, <1>3 DEF MsgInv, MsgTypes, Once
  <1>6. InOrder'
    BY <1>1, <1>2, <1>3, <1>4 DEF MsgInv, InOrder, Reached
  <1> QED
    BY <1>5, <1>6 DEF MsgInv

LEMMA RestartForgets ==
    ASSUME MsgInv, Restart
    PROVE  MsgInv'
PROOF
  <1>1. /\ \A m \in FeishuMessages : forgot'[m] = (IF m \in seenIds THEN forgot[m] + 1 ELSE forgot[m])
        /\ forgot' \in [FeishuMessages -> Nat] /\ seenIds' = {} /\ cursor' \in {0, cursor}
        /\ polled' = << >> /\ busy' = 0 /\ handled' = << >> /\ UNCHANGED <<due, begun, arrived>>
    BY DEF Restart, MsgInv, MsgTypes
  <1>2. MsgTypes'
    BY <1>1 DEF MsgInv, MsgTypes
  <1>3. Once'
    <2> SUFFICES ASSUME NEW m \in FeishuMessages
                 PROVE  begun'[m] <= forgot'[m]
      BY <1>1 DEF Once
    <2>1. begun[m] \in Nat /\ forgot[m] \in Nat /\ begun'[m] = begun[m]
      BY <1>1 DEF MsgInv, MsgTypes
    <2>2. begun[m] <= (IF m \in seenIds THEN 1 + forgot[m] ELSE forgot[m])
      BY DEF MsgInv, Once
    <2> QED
      BY <1>1, <2>1, <2>2
  <1>4. InOrder'
    BY <1>1 DEF MsgInv, MsgTypes, InOrder
  <1> QED
    BY <1>2, <1>3, <1>4 DEF MsgInv

LEMMA MsgStep == MsgInv /\ [MsgNext]_msgVars => MsgInv'
PROOF
  <1> SUFFICES ASSUME MsgInv, [MsgNext]_msgVars
               PROVE  MsgInv'
    OBVIOUS
  <1>1. ASSUME NEW m \in FeishuMessages, TurnOver(m) \/ TurnFails(m)
        PROVE  MsgInv'
    BY <1>1 DEF TurnOver, TurnFails, wechatVars, MsgInv, MsgTypes, Once, InOrder,
       Reached
  <1>2. CASE Send
    BY <1>2 DEF Send, feishuVars, MsgInv, MsgTypes, Once, InOrder, Reached
  <1>3. CASE UNCHANGED msgVars
    BY <1>3 DEF msgVars, MsgInv, MsgTypes, Once, InOrder, Reached
  <1> QED
    BY <1>1, <1>2, <1>3, DeliverKeeps, PollKeeps, HandleKeeps, HandledKeeps,
       RestartForgets DEF MsgNext

(* Turns run again only for a reason and WeChat's come in order, for any   *)
(* number of messages, limit of remembered ids and restarts.               *)
THEOREM TurnsRunOnce == MsgSpec => []HandledOnce
PROOF
  <1>1. MsgInv => HandledOnce
    <2> SUFFICES ASSUME MsgInv
                 PROVE  HandledOnce
      OBVIOUS
    <2>1. \A m \in FeishuMessages : begun[m] <= 1 + forgot[m]
      BY DEF MsgInv, MsgTypes, Once
    <2>2. busy # 0 /\ handled # << >> => busy = Last(handled) + 1
      BY DEF MsgInv, MsgTypes, InOrder, Reached
    <2> QED
      BY <2>1, <2>2 DEF HandledOnce, MsgInv, InOrder
  <1> QED
    BY <1>1, InitMsg, MsgStep, PTL DEF MsgSpec

------------------------------------------------------------------------------
(* Files of the assistant's memory (AssistantMemory).                      *)

MemOperations ==
    [phase : {"write", "fill", "delete"}, file : MemFiles, text : SUBSET Facts, told : SUBSET Facts]

MemTypes ==
    /\ oldUser \subseteq Facts /\ hurt \subseteq MemFiles
    /\ store \in [MemFiles -> SUBSET Facts] /\ noted \in [MemFiles -> SUBSET Facts]
    /\ doing \in [MemChats -> {{}} \cup {{op} : op \in MemOperations}]
    /\ program \in {"down", "moving", "up"}
    /\ program # "up" => \A c \in MemChats : doing[c] = {}

(* An operation that is alone on its file and has not emptied it yet finds *)
(* there what is to be there, and brings what it was told.                  *)
Saved(file) ==
    /\ \A c, d \in MemChats : c \in On(file) /\ d \in On(file) => c = d
    /\ \A c \in On(file) : \A op \in doing[c] : op.text = op.told
    /\ (program = "moving" => file # OldFile) /\ (\A c \in On(file) : ~At(c, {"fill"}))
         => store[file] = noted[file]

MemInv == MemTypes /\ \A file \in MemFiles \ hurt : Saved(file)

LEMMA InitMem == MemInit => MemInv
  BY DEF MemInit, MemInv, MemTypes, Saved, On

LEMMA OpIs ==
    ASSUME MemTypes, NEW c \in MemChats, doing[c] # {}
    PROVE  Op(c) \in MemOperations /\ doing[c] = {Op(c)} /\ program = "up"
PROOF
  <1>1. PICK op \in MemOperations : doing[c] = {op}
    BY DEF MemTypes
  <1>2. Op(c) = op
    BY <1>1 DEF Op
  <1> QED
    BY <1>1, <1>2 DEF MemTypes

(* An operation begins: it is alone on its file, or the file is hurt.      *)
LEMMA BeginOpKeeps ==
    ASSUME MemInv, NEW c \in MemChats, NEW op \in MemOperations, BeginOp(c, op),
           op.phase # "fill", On(op.file) = {} /\ store[op.file] = noted[op.file] => op.text = op.told
    PROVE  MemInv'
PROOF
  <1>1. /\ program = "up" /\ doing[c] = {} /\ doing' = [doing EXCEPT ![c] = {op}]
        /\ UNCHANGED <<there, store, oldUser, viewed, noted, program>>
        /\ hurt \subseteq hurt' /\ hurt' \subseteq MemFiles /\ (On(op.file) # {} => op.file \in hurt')
    BY DEF BeginOp, MemInv, MemTypes, MemOperations
  <1>2. doing'[c] = {op} /\ \A d \in MemChats \ {c} : doing'[d] = doing[d]
    BY <1>1 DEF MemInv, MemTypes
  <1>3. MemTypes'
    BY <1>1, <1>2 DEF MemInv, MemTypes
  <1>4. ASSUME NEW file \in MemFiles \ hurt'
        PROVE  Saved(file)'
    <2>1. Saved(file) /\ (file = op.file => On(file) = {})
      BY <1>1, <1>4 DEF MemInv
    <2>2. CASE file # op.file
      <3>1. On(file)' = On(file) /\ c \notin On(file)
        BY <1>1, <1>2, <2>2 DEF On
      <3>2. \A d \in On(file) : doing'[d] = doing[d]
        BY <1>2, <3>1 DEF On
      <3> QED
        BY <1>1, <2>1, <3>1, <3>2 DEF Saved, At
    <2>3. CASE file = op.file
      <3>1. On(file)' = {c}
        BY <1>2, <2>1, <2>3 DEF On
      <3>2. store[file] = noted[file]
        BY <1>1, <2>1, <2>3 DEF Saved
      <3> QED
        BY <1>1, <1>2, <2>1, <2>3, <3>1, <3>2 DEF Saved, At
    <2> QED
      BY <2>2, <2>3
  <1> QED
    BY <1>3, <1>4 DEF MemInv

(* An operation ends with what is to be there, before it touched its file, *)
(* or with a file that is hurt; the others' files stay as they are.        *)
LEMMA EndOpKeeps ==
    ASSUME MemInv, NEW c \in MemChats, doing[c] # {}, doing' = [doing EXCEPT ![c] = {}],
           UNCHANGED <<oldUser, program>>, hurt \subseteq hurt', hurt' \subseteq MemFiles,
           store' \in [MemFiles -> SUBSET Facts], noted' \in [MemFiles -> SUBSET Facts],
           \A file \in MemFiles \ {Op(c).file} : store'[file] = store[file] /\ noted'[file] = noted[file],
           Op(c).file \in hurt' \/ store'[Op(c).file] = noted'[Op(c).file]
    PROVE  MemInv'
PROOF
  <1>1. Op(c) \in MemOperations /\ doing[c] = {Op(c)} /\ program = "up"
    BY OpIs DEF MemInv
  <1>2. doing'[c] = {} /\ \A d \in MemChats \ {c} : doing'[d] = doing[d]
    BY DEF MemInv, MemTypes
  <1>3. MemTypes'
    BY <1>2 DEF MemInv, MemTypes
  <1>4. ASSUME NEW file \in MemFiles \ hurt'
        PROVE  Saved(file)'
    <2>1. Saved(file)
      BY <1>4 DEF MemInv
    <2>2. On(file)' = On(file) \ {c} /\ \A d \in On(file)' : doing'[d] = doing[d]
      BY <1>2 DEF On
    <2>3. CASE file # Op(c).file
      <3>1. On(file)' = On(file)
        BY <1>1, <2>2, <2>3 DEF On
      <3> QED
        BY <1>1, <2>1, <2>2, <2>3, <3>1 DEF Saved, At
    <2>4. CASE file = Op(c).file
      <3>1. On(file)' = {}
        BY <1>1, <2>1, <2>2, <2>4 DEF On, Saved
      <3> QED
        BY <1>4, <2>4, <3>1 DEF Saved
    <2> QED
      BY <2>3, <2>4
  <1> QED
    BY <1>3, <1>4 DEF MemInv

LEMMA TruncateKeeps ==
    ASSUME MemInv, NEW c \in MemChats, Truncate(c)
    PROVE  MemInv'
PROOF
  <1> DEFINE new == [Op(c) EXCEPT !.phase = "fill"]
  <1>1. Op(c) \in MemOperations /\ doing[c] = {Op(c)} /\ program = "up"
    BY OpIs DEF MemInv, Truncate, At
  <1>2. new \in MemOperations /\ new.phase = "fill" /\ new.file = Op(c).file
        /\ new.text = Op(c).text /\ new.told = Op(c).told
    BY <1>1 DEF MemOperations
  <1> HIDE DEF new
  <1>3. /\ doing' = [doing EXCEPT ![c] = {new}] /\ store' = [store EXCEPT ![Op(c).file] = {}]
        /\ UNCHANGED <<oldUser, viewed, noted, hurt, program>>
    BY DEF Truncate, new
  <1>4. doing'[c] = {new} /\ \A d \in MemChats \ {c} : doing'[d] = doing[d]
    BY <1>3 DEF MemInv, MemTypes
  <1>5. MemTypes'
    BY <1>1, <1>2, <1>3, <1>4 DEF MemInv, MemTypes
  <1>6. ASSUME NEW file \in MemFiles \ hurt'
        PROVE  Saved(file)'
    <2>1. Saved(file)
      BY <1>3, <1>6 DEF MemInv
    <2>2. On(file)' = On(file)
      BY <1>1, <1>2, <1>4 DEF On
    <2>3. CASE file # Op(c).file
      <3>1. c \notin On(file) /\ store'[file] = store[file]
        BY <1>1, <1>3, <2>3 DEF On, MemInv, MemTypes
      <3>2. \A d \in On(file) : doing'[d] = doing[d]
        BY <1>4, <3>1 DEF On
      <3> QED
        BY <1>3, <2>1, <2>2, <3>1, <3>2 DEF Saved, At
    <2>4. CASE file = Op(c).file
      <3>1. c \in On(file) /\ At(c, {"fill"})'
        BY <1>1, <1>2, <1>4, <2>4 DEF On, At
      <3>2. On(file) = {c}
        BY <2>1, <3>1 DEF Saved, On
      <3> QED
        BY <1>1, <1>2, <1>3, <1>4, <2>1, <2>2, <3>1, <3>2 DEF Saved
    <2> QED
      BY <2>3, <2>4
  <1> QED
    BY <1>5, <1>6 DEF MemInv

LEMMA FillKeeps ==
    ASSUME MemInv, NEW c \in MemChats, Fill(c)
    PROVE  MemInv'
PROOF
  <1>1. Op(c) \in MemOperations /\ doing[c] = {Op(c)} /\ program = "up"
    BY OpIs DEF MemInv, Fill, At
  <1>2. Op(c).file \in MemFiles /\ Op(c).text \subseteq Facts /\ Op(c).told \subseteq Facts
    BY <1>1 DEF MemOperations
  <1>3. /\ store' = [store EXCEPT ![Op(c).file] = Op(c).text]
        /\ noted' = [noted EXCEPT ![Op(c).file] = Op(c).told]
        /\ doing' = [doing EXCEPT ![c] = {}] /\ UNCHANGED <<oldUser, hurt, program>>
    BY DEF Fill
  <1>4. Op(c).file \in hurt \/ Op(c).text = Op(c).told
    <2>1. c \in On(Op(c).file)
      BY <1>1 DEF On
    <2> QED
      BY <1>1, <1>2, <2>1 DEF MemInv, Saved
  <1>5. store' \in [MemFiles -> SUBSET Facts] /\ noted' \in [MemFiles -> SUBSET Facts]
    BY <1>2, <1>3 DEF MemInv, MemTypes
  <1>6. \A file \in MemFiles \ {Op(c).file} : store'[file] = store[file] /\ noted'[file] = noted[file]
    BY <1>3 DEF MemInv, MemTypes
  <1>7. Op(c).file \in hurt' \/ store'[Op(c).file] = noted'[Op(c).file]
    BY <1>2, <1>3, <1>4 DEF MemInv, MemTypes
  <1>8. doing[c] # {} /\ hurt' \subseteq MemFiles
    BY <1>1, <1>3 DEF MemInv, MemTypes
  <1> QED
    BY <1>3, <1>5, <1>6, <1>7, <1>8, EndOpKeeps

LEMMA UnlinkKeeps ==
    ASSUME MemInv, NEW c \in MemChats, Unlink(c)
    PROVE  MemInv'
PROOF
  <1>1. Op(c) \in MemOperations /\ doing[c] = {Op(c)} /\ program = "up"
    BY OpIs DEF MemInv, Unlink, At
  <1>2. Op(c).file \in MemFiles
    BY <1>1 DEF MemOperations
  <1>3. /\ store' = [store EXCEPT ![Op(c).file] = {}] /\ noted' = [noted EXCEPT ![Op(c).file] = {}]
        /\ doing' = [doing EXCEPT ![c] = {}] /\ UNCHANGED <<oldUser, hurt, program>>
    BY DEF Unlink
  <1>4. store' \in [MemFiles -> SUBSET Facts] /\ noted' \in [MemFiles -> SUBSET Facts]
    BY <1>2, <1>3 DEF MemInv, MemTypes
  <1>5. \A file \in MemFiles \ {Op(c).file} : store'[file] = store[file] /\ noted'[file] = noted[file]
    BY <1>3 DEF MemInv, MemTypes
  <1>6. store'[Op(c).file] = noted'[Op(c).file] /\ doing[c] # {} /\ hurt' \subseteq MemFiles
    BY <1>1, <1>2, <1>3 DEF MemInv, MemTypes
  <1> QED
    BY <1>3, <1>4, <1>5, <1>6, EndOpKeeps

(* The disk refuses: what was emptied is hurt, the rest is as it was.      *)
LEMMA RefusedKeeps ==
    ASSUME MemInv, NEW c \in MemChats, Refused(c)
    PROVE  MemInv'
PROOF
  <1>1. Op(c) \in MemOperations /\ doing[c] = {Op(c)} /\ program = "up"
    BY OpIs DEF MemInv, Refused
  <1>2. Op(c).file \in MemFiles
    BY <1>1 DEF MemOperations
  <1>3. /\ UNCHANGED <<there, store, oldUser, viewed, noted, program>>
        /\ doing' = [doing EXCEPT ![c] = {}]
        /\ hurt \subseteq hurt' /\ hurt' \subseteq MemFiles /\ (At(c, {"fill"}) => Op(c).file \in hurt')
    BY <1>2 DEF Refused, MemInv, MemTypes
  <1>4. Op(c).file \in hurt' \/ store[Op(c).file] = noted[Op(c).file]
    <2> SUFFICES ASSUME Op(c).file \notin hurt'
                 PROVE  store[Op(c).file] = noted[Op(c).file]
      OBVIOUS
    <2>1. Saved(Op(c).file) /\ c \in On(Op(c).file) /\ ~At(c, {"fill"})
      BY <1>1, <1>2, <1>3 DEF MemInv, On
    <2>2. \A d \in On(Op(c).file) : ~At(d, {"fill"})
      BY <2>1 DEF Saved, On
    <2> QED
      BY <1>1, <2>1, <2>2 DEF Saved
  <1> QED
    BY <1>1, <1>3, <1>4, EndOpKeeps DEF MemInv, MemTypes

LEMMA StopMemoryKeeps ==
    ASSUME MemInv, StopMemory
    PROVE  MemInv'
PROOF
  <1>1. /\ program' = "down" /\ UNCHANGED <<there, store, oldUser, noted>>
        /\ doing' = [c \in MemChats |-> {}]
        /\ hurt' = hurt \cup {Op(c).file : c \in {x \in MemChats : At(x, {"fill"})}}
                        \cup IF program = "moving" THEN {OldFile} ELSE {}
    BY DEF StopMemory
  <1>2. \A c \in MemChats : At(c, {"fill"}) => Op(c).file \in MemFiles /\ doing[c] = {Op(c)}
    BY OpIs DEF MemInv, At, MemOperations
  <1>3. hurt' \subseteq MemFiles /\ hurt \subseteq hurt'
    BY <1>1, <1>2, AssistantMemoryAssumption DEF MemInv, MemTypes
  <1>4. MemTypes'
    BY <1>1, <1>3 DEF MemInv, MemTypes
  <1>5. ASSUME NEW file \in MemFiles \ hurt'
        PROVE  Saved(file)'
    <2>1. Saved(file) /\ (program = "moving" => file # OldFile)
      BY <1>1, <1>3, <1>5 DEF MemInv
    <2>2. \A c \in On(file) : ~At(c, {"fill"})
      BY <1>1, <1>2, <1>5 DEF On
    <2>3. store[file] = noted[file] /\ On(file)' = {}
      BY <1>1, <2>1, <2>2 DEF Saved, On
    <2> QED
      BY <1>1, <2>3 DEF Saved
  <1> QED
    BY <1>4, <1>5 DEF MemInv

LEMMA MoveOldKeeps ==
    ASSUME MemInv, MoveOld
    PROVE  MemInv'
PROOF
  <1>1. /\ program = "moving" /\ program' = "up" /\ UNCHANGED <<there, oldUser, doing, viewed, hurt>>
        /\ store' = [store EXCEPT ![OldFile] = oldUser] /\ noted' = [noted EXCEPT ![OldFile] = oldUser]
    BY DEF MoveOld
  <1>2. MemTypes'
    BY <1>1 DEF MemInv, MemTypes
  <1>3. \A file \in MemFiles : On(file) = {} /\ On(file)' = {}
    BY <1>1 DEF MemInv, MemTypes, On
  <1>4. \A file \in MemFiles \ hurt : store'[file] = noted'[file]
    BY <1>1, <1>3, AssistantMemoryAssumption DEF MemInv, MemTypes, Saved
  <1> QED
    BY <1>1, <1>2, <1>3, <1>4 DEF MemInv, Saved

LEMMA LaunchKeeps ==
    ASSUME MemInv, LaunchMemory
    PROVE  MemInv'
PROOF
  <1>1. /\ program = "down" /\ program' \in {"moving", "up"}
        /\ UNCHANGED <<store, oldUser, doing, viewed, noted, hurt>>
    BY DEF LaunchMemory
  <1>2. MemTypes'
    BY <1>1 DEF MemInv, MemTypes
  <1>3. \A file \in MemFiles : On(file) = {} /\ On(file)' = {}
    BY <1>1 DEF MemInv, MemTypes, On
  <1> QED
    BY <1>1, <1>2, <1>3 DEF MemInv, Saved

(* What an operation brings.                                               *)
LEMMA BeginKeeps ==
    ASSUME MemInv, NEW c \in MemChats, NEW file \in MemFiles,
           \/ BeginDelete(c, file)
           \/ \E in \in Facts :
                \/ BeginWrite(c, file, in)
                \/ \E gone \in {{}} \cup {{x} : x \in Facts} : BeginUpdate(c, file, gone, in)
    PROVE  MemInv'
PROOF
  <1>1. CASE BeginDelete(c, file)
    <2> DEFINE op == [phase |-> "delete", file |-> file, text |-> {}, told |-> {}]
    <2>1. op \in MemOperations /\ op.phase # "fill" /\ op.text = op.told
      BY DEF MemOperations
    <2>2. BeginOp(c, op)
      BY <1>1 DEF BeginDelete
    <2> QED
      BY <2>1, <2>2, BeginOpKeeps
  <1>2. ASSUME NEW in \in Facts, BeginWrite(c, file, in)
        PROVE  MemInv'
    <2> DEFINE op == [phase |-> "write", file |-> file, text |-> {in}, told |-> {in}]
    <2>1. op \in MemOperations /\ op.phase # "fill" /\ op.text = op.told
      BY DEF MemOperations
    <2>2. BeginOp(c, op)
      BY <1>2 DEF BeginWrite
    <2> QED
      BY <2>1, <2>2, BeginOpKeeps
  <1>3. ASSUME NEW in \in Facts, NEW gone \in {{}} \cup {{x} : x \in Facts}, BeginUpdate(c, file, gone, in)
        PROVE  MemInv'
    <2> DEFINE text == NewText(c, file, gone, in)
               noting == (noted[file] \ gone) \cup {in}
               op == [phase |-> "write", file |-> file, text |-> text, told |-> noting]
    <2>1. text \subseteq Facts /\ noting \subseteq Facts
      BY DEF MemInv, MemTypes, NewText
    <2>2. store[file] = noted[file] => text = noting
      BY DEF NewText
    <2>3. BeginOp(c, op)
      BY <1>3 DEF BeginUpdate
    <2> HIDE DEF text, noting
    <2>4. op \in MemOperations /\ op.phase # "fill" /\ op.file = file /\ op.text = text /\ op.told = noting
      BY <2>1 DEF MemOperations
    <2> HIDE DEF op
    <2> QED
      BY <2>2, <2>3, <2>4, BeginOpKeeps
  <1> QED
    BY <1>1, <1>2, <1>3

LEMMA MemStep == MemInv /\ [MemNext]_memVars => MemInv'
PROOF
  <1> SUFFICES ASSUME MemInv, [MemNext]_memVars
               PROVE  MemInv'
    OBVIOUS
  <1>1. ASSUME NEW c \in MemChats, NEW file \in MemFiles, ReadMemory(c, file)
        PROVE  MemInv'
    BY <1>1 DEF ReadMemory, MemInv, MemTypes, Saved, On, At
  <1>2. CASE UNCHANGED memVars
    BY <1>2 DEF memVars, MemInv, MemTypes, Saved, On, At
  <1> QED
    BY <1>1, <1>2, LaunchKeeps, MoveOldKeeps, StopMemoryKeeps, TruncateKeeps,
       FillKeeps,
       UnlinkKeeps, RefusedKeeps, BeginKeeps DEF MemNext

(* Only operations that overlap or are cut short lose what was told, for    *)
(* any number of chats, files and facts.                                   *)
THEOREM NothingUntold == MemSpec => []SavedStays
PROOF
  <1>1. MemInv => SavedStays
    BY DEF MemInv, Saved, SavedStays
  <1> QED
    BY <1>1, InitMem, MemStep, PTL DEF MemSpec

------------------------------------------------------------------------------
(* Cached copies of the skills (SkillCache).                               *)

\* What a directory of the cache may hold.
Holdings == {"none", "part", "full"}
StartStages == {"check", "clear", "copy", "copying", "drop", "swap", "others", "migrate", "remove", "discover"}
\* The steps a start of the version that is there already goes through.
HarmlessStages == {"check", "others", "migrate", "remove", "discover"}

SkcTypeOK ==
    /\ cached \in [Packages -> Holdings] /\ temp \in [Packages -> Holdings]
    /\ copied \in {"none", "copy", "own", "remnant"}
    /\ stage \in [Processes -> StartStages \union {"down", "ready"}]
    /\ found \in [Processes -> {"none", "bundled", "user"}]

\* A start that nothing overlapped is the only one, and has done what it went through.
StartSound(p) ==
    Preparing(p) /\ p \notin crossed =>
        /\ \A q \in Processes \ {p} : ~Preparing(q)
        /\ stage[p] \in {"drop", "swap"} => temp[PackageOf[p]] = "full"
        /\ stage[p] = "swap" => cached[PackageOf[p]] = "none"
        /\ stage[p] \in {"others", "migrate", "remove", "discover"} => cached[PackageOf[p]] = "full"
\* While an unharmed process runs, only its own version starts, and finds the cache whole.
RunSound(p) ==
    stage[p] = "ready" /\ p \notin crossed =>
        /\ cached[PackageOf[p]] = "full" /\ found[p] # "none"
        /\ \A q \in Processes \ {p} : Preparing(q) =>
            PackageOf[q] = PackageOf[p] /\ stage[q] \in HarmlessStages
SkcInv == SkcTypeOK /\ \A p \in Processes : StartSound(p) /\ RunSound(p)

LEMMA PackageIn == \A p \in Processes : PackageOf[p] \in Packages
BY DEF Packages

LEMMA SkcInitially == SkcInit => SkcInv
  <1> SUFFICES ASSUME SkcInit PROVE SkcInv
      OBVIOUS
  <1>1. SkcTypeOK
      BY DEF SkcInit, SkcTypeOK, Holdings
  <1>2. ASSUME NEW p \in Processes PROVE StartSound(p) /\ RunSound(p)
      BY DEF SkcInit, StartSound, RunSound, Preparing
  <1> QED
      BY <1>1, <1>2 DEF SkcInv

LEMMA SkcTypeKept == ASSUME SkcTypeOK, [SkcNext]_skcVars PROVE SkcTypeOK'
  <1>1. CASE UNCHANGED skcVars
      BY <1>1 DEF skcVars, SkcTypeOK
  <1>2. ASSUME NEW p \in Processes, 
               \/ Boot(p) \/ Check(p) \/ ClearTemp(p) \/ StartFails(p) \/ BeginCopy(p) \/ EndCopy(p)
               \/ Drop(p) \/ Swap(p) \/ RemoveOthers(p) \/ Migrate(p) \/ RemoveCopy(p) \/ Discover(p)
               \/ Exit(p) \/ CrashStart(p)
        PROVE SkcTypeOK'
    <2> PackageOf[p] \in Packages
        BY PackageIn
    <2>1. CASE Boot(p)
        BY <2>1 DEF Boot, Goes, SkcTypeOK, StartStages
    <2>2. CASE Check(p)
        BY <2>2 DEF Check, SkcTypeOK, StartStages
    <2>3. CASE ClearTemp(p)
        BY <2>3 DEF ClearTemp, Goes, SkcTypeOK, StartStages, Holdings
    <2>4. CASE StartFails(p)
        BY <2>4 DEF StartFails, SkcTypeOK, StartStages, Holdings
    <2>5. CASE BeginCopy(p)
        BY <2>5 DEF BeginCopy, Goes, SkcTypeOK, StartStages, Holdings
    <2>6. CASE EndCopy(p)
        BY <2>6 DEF EndCopy, Goes, SkcTypeOK, StartStages, Holdings
    <2>7. CASE Drop(p)
        BY <2>7 DEF Drop, Goes, SkcTypeOK, StartStages, Holdings
    <2>8. CASE Swap(p)
        BY <2>8 DEF Swap, Goes, SkcTypeOK, StartStages, Holdings
    <2>9. CASE RemoveOthers(p)
        BY <2>9 DEF RemoveOthers, Goes, SkcTypeOK, StartStages, Holdings
    <2>10. CASE Migrate(p)
        BY <2>10 DEF Migrate, Goes, SkcTypeOK, StartStages
    <2>11. CASE RemoveCopy(p)
        BY <2>11 DEF RemoveCopy, Goes, SkcTypeOK, StartStages
    <2>12. CASE Discover(p)
        BY <2>12 DEF Discover, Goes, SkcTypeOK, StartStages
    <2>13. CASE Exit(p)
        BY <2>13 DEF Exit, Goes, SkcTypeOK, StartStages
    <2>14. CASE CrashStart(p)
      <3>1. cached' \in [Packages -> Holdings]
          BY <2>14 DEF CrashStart, SkcTypeOK, Holdings
      <3>2. copied' \in {"none", "copy", "own", "remnant"}
          BY <2>14 DEF CrashStart, SkcTypeOK
      <3> QED
          BY <2>14, <3>1, <3>2 DEF CrashStart, SkcTypeOK
    <2> QED
        BY <1>2, <2>1, <2>2, <2>3, <2>4, <2>5, <2>6, <2>7, <2>8, <2>9, <2>10, <2>11,
           <2>12, <2>13, <2>14
  <1> QED
      BY <1>1, <1>2 DEF SkcNext

\* What a step of p itself leaves to p.
LEMMA OwnStepKeeps ==
    ASSUME SkcInv, SkcTypeOK', NEW p \in Processes,
           \/ Boot(p) \/ Check(p) \/ ClearTemp(p) \/ StartFails(p) \/ BeginCopy(p) \/ EndCopy(p)
           \/ Drop(p) \/ Swap(p) \/ RemoveOthers(p) \/ Migrate(p) \/ RemoveCopy(p) \/ Discover(p)
           \/ Exit(p) \/ CrashStart(p)
    PROVE  StartSound(p)' /\ RunSound(p)'
  <1> USE DEF Preparing, StartStages
  <1> PackageOf[p] \in Packages
      BY PackageIn
  <1> SkcTypeOK /\ StartSound(p) /\ RunSound(p)
      BY DEF SkcInv
  <1>1. CASE Boot(p)
      BY <1>1 DEF Boot, Goes, SkcTypeOK, StartSound, RunSound
  <1>2. CASE Check(p)
      BY <1>2 DEF Check, SkcTypeOK, StartSound, RunSound
  <1>3. CASE ClearTemp(p)
      BY <1>3 DEF ClearTemp, Goes, SkcTypeOK, StartSound, RunSound
  <1>4. CASE StartFails(p)
      BY <1>4 DEF StartFails, SkcTypeOK, StartSound, RunSound
  <1>5. CASE BeginCopy(p)
      BY <1>5 DEF BeginCopy, Goes, SkcTypeOK, StartSound, RunSound
  <1>6. CASE EndCopy(p)
      BY <1>6 DEF EndCopy, Goes, SkcTypeOK, StartSound, RunSound
  <1>7. CASE Drop(p)
      BY <1>7 DEF Drop, Goes, SkcTypeOK, StartSound, RunSound
  <1>8. CASE Swap(p)
      BY <1>8 DEF Swap, Goes, SkcTypeOK, StartSound, RunSound
  <1>9. CASE RemoveOthers(p)
      BY <1>9 DEF RemoveOthers, Goes, SkcTypeOK, StartSound, RunSound
  <1>10. CASE Migrate(p)
      BY <1>10 DEF Migrate, Goes, SkcTypeOK, StartSound, RunSound
  <1>11. CASE RemoveCopy(p)
      BY <1>11 DEF RemoveCopy, Goes, SkcTypeOK, StartSound, RunSound
  <1>12. CASE Discover(p)
      BY <1>12 DEF Discover, Goes, SkcTypeOK, StartSound, RunSound
  <1>13. CASE Exit(p)
      BY <1>13 DEF Exit, Goes, SkcTypeOK, StartSound, RunSound
  <1>14. CASE CrashStart(p)
      BY <1>14 DEF CrashStart, SkcTypeOK, StartSound, RunSound
  <1> QED
      BY <1>1, <1>2, <1>3, <1>4, <1>5, <1>6, <1>7, <1>8, <1>9, <1>10, <1>11, <1>12,
         <1>13, <1>14

\* What it leaves to another process o: the step is a start's, which an unharmed
\* start rules out, and one an unharmed process only allows to its own version.
LEMMA OthersStepKeeps ==
    ASSUME SkcInv, SkcTypeOK', NEW p \in Processes, NEW o \in Processes \ {p},
           \/ Boot(p) \/ Check(p) \/ ClearTemp(p) \/ StartFails(p) \/ BeginCopy(p) \/ EndCopy(p)
           \/ Drop(p) \/ Swap(p) \/ RemoveOthers(p) \/ Migrate(p) \/ RemoveCopy(p) \/ Discover(p)
           \/ Exit(p) \/ CrashStart(p)
    PROVE  StartSound(o)' /\ RunSound(o)'
  <1> USE DEF Preparing, StartStages, HarmlessStages
  <1> PackageOf[p] \in Packages /\ PackageOf[o] \in Packages
      BY PackageIn
  <1> SkcTypeOK /\ StartSound(o) /\ RunSound(o)
      BY DEF SkcInv
  <1>1. CASE Boot(p)
      BY <1>1 DEF Boot, Goes, SkcTypeOK, StartSound, RunSound
  <1>2. CASE Check(p)
      BY <1>2 DEF Check, SkcTypeOK, StartSound, RunSound
  <1>3. CASE ClearTemp(p)
      BY <1>3 DEF ClearTemp, Goes, SkcTypeOK, StartSound, RunSound
  <1>4. CASE StartFails(p)
      BY <1>4 DEF StartFails, SkcTypeOK, StartSound, RunSound
  <1>5. CASE BeginCopy(p)
      BY <1>5 DEF BeginCopy, Goes, SkcTypeOK, StartSound, RunSound
  <1>6. CASE EndCopy(p)
      BY <1>6 DEF EndCopy, Goes, SkcTypeOK, StartSound, RunSound
  <1>7. CASE Drop(p)
      BY <1>7 DEF Drop, Goes, SkcTypeOK, StartSound, RunSound
  <1>8. CASE Swap(p)
      BY <1>8 DEF Swap, Goes, SkcTypeOK, StartSound, RunSound
  <1>9. CASE RemoveOthers(p)
      BY <1>9 DEF RemoveOthers, Goes, SkcTypeOK, StartSound, RunSound
  <1>10. CASE Migrate(p)
      BY <1>10 DEF Migrate, Goes, SkcTypeOK, StartSound, RunSound
  <1>11. CASE RemoveCopy(p)
      BY <1>11 DEF RemoveCopy, Goes, SkcTypeOK, StartSound, RunSound
  <1>12. CASE Discover(p)
      BY <1>12 DEF Discover, Goes, SkcTypeOK, StartSound, RunSound
  <1>13. CASE Exit(p)
      BY <1>13 DEF Exit, Goes, SkcTypeOK, StartSound, RunSound
  <1>14. CASE CrashStart(p)
      BY <1>14 DEF CrashStart, SkcTypeOK, StartSound, RunSound
  <1> QED
      BY <1>1, <1>2, <1>3, <1>4, <1>5, <1>6, <1>7, <1>8, <1>9, <1>10, <1>11, <1>12,
         <1>13, <1>14

\* Whatever crashes came before, a process that runs undisturbed has a whole
\* cache of its version and finds its skill (installer.py,
\* prepare_builtin_skills_cache).
THEOREM RunningCacheWhole == SkcSpec => []CacheWhole
  <1>1. SkcInv /\ [SkcNext]_skcVars => SkcInv'
    <2> SUFFICES ASSUME SkcInv, [SkcNext]_skcVars PROVE SkcInv'
        OBVIOUS
    <2>1. SkcTypeOK'
        BY SkcTypeKept DEF SkcInv
    <2>2. CASE UNCHANGED skcVars
        BY <2>2 DEF skcVars, SkcInv, SkcTypeOK, StartSound, RunSound, Preparing
    <2>3. CASE SkcNext
      <3>1. PICK p \in Processes :
               \/ Boot(p) \/ Check(p) \/ ClearTemp(p) \/ StartFails(p) \/ BeginCopy(p) \/ EndCopy(p)
               \/ Drop(p) \/ Swap(p) \/ RemoveOthers(p) \/ Migrate(p) \/ RemoveCopy(p) \/ Discover(p)
               \/ Exit(p) \/ CrashStart(p)
          BY <2>3 DEF SkcNext
      <3>2. StartSound(p)' /\ RunSound(p)'
          BY <2>1, <3>1, OwnStepKeeps
      <3>3. ASSUME NEW o \in Processes \ {p} PROVE StartSound(o)' /\ RunSound(o)'
          BY <2>1, <3>1, OthersStepKeeps
      <3> QED
          BY <2>1, <3>2, <3>3 DEF SkcInv
    <2> QED
        BY <2>2, <2>3
  <1>2. SkcInv => CacheWhole
      BY DEF SkcInv, RunSound, CacheWhole
  <1> QED
      BY SkcInitially, <1>1, <1>2, PTL DEF SkcSpec

------------------------------------------------------------------------------
(* Batches of tool calls (ToolBatches).                                    *)

Kinds == {"read", "write", "agent"}
TbTypeOK ==
    /\ calls \in [Levels -> Seq(Kinds)]
    /\ from \in [Levels -> Nat \ {0}] /\ upto \in [Levels -> Nat]
    /\ running \in [Levels -> SUBSET Nat] /\ results \in [Levels -> Seq(Nat)] /\ told \in [Levels -> Seq(Nat)]

\* The batch at work: where it lies, and that only reads share one.
BatchSound(l) ==
    /\ from[l] <= Len(calls[l]) + 1 /\ upto[l] <= Len(calls[l])
    /\ from[l] <= Len(calls[l]) => from[l] <= upto[l]
    /\ \A i \in Batch(l), j \in Batch(l) : i # j => calls[l][i] = "read"
\* A call of the batch is at work, or has a result to take, or has told it, and
\* the batches before it are told.
CallsSound(l) ==
    /\ running[l] \subseteq Batch(l) /\ ToSet(results[l]) \subseteq Batch(l)
    /\ running[l] \cap Known(l) = {} /\ ToSet(results[l]) \cap ToSet(told[l]) = {}
    /\ \A i, j \in DOMAIN results[l] : results[l][i] = results[l][j] => i = j
    /\ ToSet(told[l]) \subseteq 1 .. upto[l]
    /\ ~Idle(l) => 1 .. from[l] - 1 \subseteq ToSet(told[l])
TbInv ==
    /\ TbTypeOK /\ \A l \in Levels : BatchSound(l) /\ CallsSound(l)
    /\ \A i \in DOMAIN calls["agent"] : calls["agent"][i] # "agent"
    /\ ~AgentWorks => Idle("agent")

LEMMA PartitionUniform ==
    ASSUME NEW kinds \in Seq(Kinds), NEW first \in Nat \ {0}, NEW end \in 0 .. Len(kinds),
           Partition(kinds, first, end),
           NEW i \in first .. end, NEW j \in first .. end, i # j
    PROVE  kinds[i] = "read"
  <1>1. CASE i > first
      BY <1>1 DEF Partition
  <1>2. CASE i = first
    <2> first + 1 \in first + 1 .. end /\ (first + 1) - 1 = first
        BY <1>2
    <2> QED
        BY <1>2 DEF Partition
  <1> QED
      BY <1>1, <1>2

LEMMA AppendedSet ==
    ASSUME NEW S, NEW s \in Seq(S), NEW e \in S
    PROVE  ToSet(Append(s, e)) = ToSet(s) \union {e}
  <1>1. /\ Len(s) \in Nat /\ DOMAIN s = 1 .. Len(s) /\ DOMAIN Append(s, e) = 1 .. Len(s) + 1
        /\ \A i \in 1 .. Len(s) : Append(s, e)[i] = s[i]
        /\ Append(s, e)[Len(s) + 1] = e
      OBVIOUS
  <1>2. 1 .. Len(s) + 1 = (1 .. Len(s)) \union {Len(s) + 1}
      BY <1>1
  <1>3. ASSUME NEW x \in ToSet(Append(s, e)) PROVE x \in ToSet(s) \union {e}
    <2>1. PICK i \in 1 .. Len(s) + 1 : Append(s, e)[i] = x
        BY <1>1 DEF ToSet
    <2> QED
        BY <1>1, <1>2, <2>1 DEF ToSet
  <1>4. ASSUME NEW x \in ToSet(s) \union {e} PROVE x \in ToSet(Append(s, e))
    <2>1. CASE x \in ToSet(s)
      <3>1. PICK i \in 1 .. Len(s) : s[i] = x
          BY <1>1, <2>1 DEF ToSet
      <3>2. i \in 1 .. Len(s) + 1 /\ Append(s, e)[i] = x
          BY <1>1, <3>1
      <3> QED
          BY <1>1, <3>2 DEF ToSet
    <2>2. CASE x = e
        BY <1>1, <1>2, <2>2 DEF ToSet
    <2> QED
        BY <1>4, <2>1, <2>2
  <1> QED
      BY <1>3, <1>4

LEMMA HeadAndTail ==
    ASSUME NEW S, NEW s \in Seq(S), s # <<>>
    PROVE  /\ ToSet(s) = ToSet(Tail(s)) \union {Head(s)} /\ Head(s) \in S /\ Tail(s) \in Seq(S)
           /\ (\A i, j \in DOMAIN s : s[i] = s[j] => i = j) =>
                /\ Head(s) \notin ToSet(Tail(s))
                /\ \A i, j \in DOMAIN Tail(s) : Tail(s)[i] = Tail(s)[j] => i = j
  <1>1. /\ Head(s) \in S /\ Tail(s) \in Seq(S) /\ Len(s) \in Nat \ {0} /\ Len(Tail(s)) = Len(s) - 1
        /\ Head(s) = s[1] /\ \A i \in 1 .. Len(s) - 1 : Tail(s)[i] = s[i + 1]
      OBVIOUS
  <1>2. ToSet(s) = ToSet(Tail(s)) \union {Head(s)}
    <2>1. ASSUME NEW x \in ToSet(s) PROVE x \in ToSet(Tail(s)) \union {Head(s)}
      <3>1. PICK i \in 1 .. Len(s) : s[i] = x
          BY <2>1 DEF ToSet
      <3>2. CASE i = 1
          BY <1>1, <3>1, <3>2
      <3>3. CASE i # 1
        <4> i - 1 \in 1 .. Len(s) - 1 /\ Tail(s)[i - 1] = x
            BY <1>1, <3>1, <3>3
        <4> i - 1 \in DOMAIN Tail(s)
            BY <1>1
        <4> QED
            BY DEF ToSet
      <3> QED
          BY <3>2, <3>3
    <2>2. ASSUME NEW x \in ToSet(Tail(s)) PROVE x \in ToSet(s)
        BY <1>1, <2>2 DEF ToSet
    <2>3. Head(s) \in ToSet(s)
        BY <1>1 DEF ToSet
    <2> QED
        BY <2>1, <2>2, <2>3
  <1>3. ASSUME \A i, j \in DOMAIN s : s[i] = s[j] => i = j
        PROVE  /\ Head(s) \notin ToSet(Tail(s))
               /\ \A i, j \in DOMAIN Tail(s) : Tail(s)[i] = Tail(s)[j] => i = j
      BY <1>1, <1>3 DEF ToSet
  <1> QED
      BY <1>1, <1>2, <1>3

LEMMA TbInitially == TbInit => TbInv
  <1> SUFFICES ASSUME TbInit PROVE TbInv
      OBVIOUS
  <1> TbTypeOK
      BY DEF TbInit, TbTypeOK
  <1> \A l \in Levels : BatchSound(l) /\ CallsSound(l) /\ Idle(l)
      BY DEF TbInit, BatchSound, CallsSound, Batch, Known, ToSet, Idle
  <1> \A i \in DOMAIN calls["agent"] : calls["agent"][i] # "agent"
      BY DEF TbInit, Levels
  <1> QED
      BY DEF TbInv, Levels

\* A batch begins: what it is made of.
LEMMA BatchBegun ==
    ASSUME TbTypeOK, NEW l \in Levels, NEW kinds \in Seq(Kinds), NEW first \in Nat \ {0},
           first <= Len(kinds) + 1, BeginBatch(l, kinds, first)
    PROVE  \E end \in 0 .. Len(kinds) :
                /\ upto' = [upto EXCEPT ![l] = end]
                /\ first <= Len(kinds) => first <= end
                /\ first > Len(kinds) => end = Len(kinds)
                /\ \A i \in first .. end, j \in first .. end : i # j => kinds[i] = "read"
  <1>1. PICK end \in 0 .. Len(kinds) :
          /\ IF first > Len(kinds) THEN end = Len(kinds)
             ELSE first <= end /\ Partition(kinds, first, end)
          /\ upto' = [upto EXCEPT ![l] = end]
      BY DEF BeginBatch
  <1>2. \A i \in first .. end, j \in first .. end : i # j => kinds[i] = "read"
    <2>1. CASE first > Len(kinds)
        BY <1>1, <2>1
    <2>2. CASE first <= Len(kinds)
        BY <1>1, <2>2, PartitionUniform
    <2> QED
        BY <2>1, <2>2
  <1>3. Len(kinds) \in Nat
      OBVIOUS
  <1> QED
      BY <1>1, <1>2, <1>3 DEF BeginBatch

\* An answer with calls comes to a level that had none left.
LEMMA AnswerKeeps ==
    ASSUME TbInv, NEW l \in Levels, Requests(l)
    PROVE  /\ TbTypeOK' /\ \A m \in Levels : (BatchSound(m) /\ CallsSound(m))'
           /\ \A i \in DOMAIN calls'[l] : calls'[l][i] \in Available(l)
           /\ running' = running /\ \A m \in Levels \ {l} : calls'[m] = calls[m] /\ from'[m] = from[m]
  <1> TbTypeOK /\ \A m \in Levels : BatchSound(m) /\ CallsSound(m)
      BY DEF TbInv
  <1>1. PICK kinds \in SeqOf(Available(l), MaxCalls) :
          calls' = [calls EXCEPT ![l] = kinds] /\ BeginBatch(l, kinds, 1)
      BY DEF Requests
  <1>2. kinds \in Seq(Available(l)) /\ kinds \in Seq(Kinds) /\ Len(kinds) \in Nat
    <2>1. PICK n \in Nat : kinds \in [1 .. n -> Available(l)]
        BY <1>1, ToolBatchesAssumption DEF SeqOf
    <2>2. Available(l) \subseteq Kinds
        BY DEF Available, Kinds
    <2> QED
        BY <2>1, <2>2
  <1>3. PICK end \in 0 .. Len(kinds) :
          /\ from' = [from EXCEPT ![l] = 1] /\ upto' = [upto EXCEPT ![l] = end]
          /\ 1 <= Len(kinds) => 1 <= end
          /\ \A i \in 1 .. end, j \in 1 .. end : i # j => kinds[i] = "read"
    <2>1. 1 \in Nat \ {0} /\ 1 <= Len(kinds) + 1 /\ BeginBatch(l, kinds, 1)
        BY <1>1, <1>2
    <2>2. \E end \in 0 .. Len(kinds) :
            /\ upto' = [upto EXCEPT ![l] = end]
            /\ 1 <= Len(kinds) => 1 <= end
            /\ 1 > Len(kinds) => end = Len(kinds)
            /\ \A i \in 1 .. end, j \in 1 .. end : i # j => kinds[i] = "read"
        BY <1>2, <2>1, BatchBegun
    <2> QED
        BY <2>1, <2>2 DEF BeginBatch
  <1>4. /\ told' = [told EXCEPT ![l] = <<>>] /\ running' = running /\ results' = results
        /\ Idle(l)
      BY DEF Requests
  <1>5. TbTypeOK'
      BY <1>1, <1>2, <1>3, <1>4 DEF TbTypeOK
  <1>6. ASSUME NEW m \in Levels PROVE (BatchSound(m) /\ CallsSound(m))'
    <2>1. CASE m = l
      <3>1. running[l] = {} /\ ToSet(results[l]) = {} /\ results[l] \in Seq(Nat)
          BY <1>4 DEF TbTypeOK, BatchSound, CallsSound, Batch, Idle
      <3>2. DOMAIN results[l] = {}
          BY <3>1 DEF ToSet
      <3>3. /\ calls'[l] = kinds /\ from'[l] = 1 /\ upto'[l] = end /\ told'[l] = <<>>
            /\ running'[l] = {} /\ results'[l] = results[l] /\ ToSet(told'[l]) = {}
          BY <1>1, <1>3, <1>4, <3>1 DEF TbTypeOK, ToSet
      <3>4. BatchSound(l)'
        <4>1. 1 <= Len(kinds) + 1 /\ end <= Len(kinds)
            BY <1>2
        <4> QED
            BY <1>3, <3>3, <4>1 DEF BatchSound, Batch
      <3>5. CallsSound(l)'
          BY <1>2, <3>1, <3>2, <3>3 DEF CallsSound, Known
      <3> QED
          BY <2>1, <3>4, <3>5
    <2>2. CASE m # l
      <3> /\ calls'[m] = calls[m] /\ from'[m] = from[m] /\ upto'[m] = upto[m] /\ told'[m] = told[m]
          /\ running'[m] = running[m] /\ results'[m] = results[m]
          BY <1>1, <1>3, <1>4, <2>2 DEF TbTypeOK
      <3> QED
          BY DEF BatchSound, CallsSound, Batch, Known, Idle
    <2> QED
        BY <2>1, <2>2
  <1>7. \A i \in DOMAIN calls'[l] : calls'[l][i] \in Available(l)
      BY <1>1, <1>2 DEF TbTypeOK
  <1> QED
      BY <1>1, <1>3, <1>4, <1>5, <1>6, <1>7 DEF TbTypeOK

LEMMA AnswerArrivesKeeps == ASSUME TbInv, AnswerArrives PROVE TbInv'
  <1>1. Requests("loop") /\ "loop" \in Levels /\ "agent" \in Levels \ {"loop"} /\ Idle("loop")
      BY DEF AnswerArrives, Levels, Requests
  <1>2. /\ TbTypeOK' /\ \A m \in Levels : (BatchSound(m) /\ CallsSound(m))'
        /\ running' = running /\ calls'["agent"] = calls["agent"] /\ from'["agent"] = from["agent"]
      BY <1>1, AnswerKeeps
  <1>3. running["loop"] = {}
      BY <1>1 DEF TbInv, TbTypeOK, BatchSound, CallsSound, Batch, Idle
  <1>4. ~AgentWorks
      BY <1>3 DEF AgentWorks
  <1> QED
      BY <1>2, <1>3, <1>4 DEF TbInv, AgentWorks, Idle

LEMMA AgentAsksKeeps == ASSUME TbInv, AgentAsks PROVE TbInv'
  <1>1. Requests("agent") /\ "agent" \in Levels /\ "loop" \in Levels \ {"agent"} /\ AgentWorks
      BY DEF AgentAsks, Levels
  <1>2. /\ TbTypeOK' /\ \A m \in Levels : (BatchSound(m) /\ CallsSound(m))'
        /\ \A i \in DOMAIN calls'["agent"] : calls'["agent"][i] \in Available("agent")
        /\ running' = running /\ calls'["loop"] = calls["loop"]
      BY <1>1, AnswerKeeps
  <1>3. AgentWorks'
      BY <1>1, <1>2 DEF AgentWorks
  <1> QED
      BY <1>2, <1>3 DEF TbInv, Available

\* One level moves within its batch: the other one is as it was.
LEMMA OtherLevel ==
    ASSUME TbInv, NEW l \in Levels, NEW m \in Levels \ {l},
           calls'[m] = calls[m], from'[m] = from[m], upto'[m] = upto[m],
           running'[m] = running[m], results'[m] = results[m], told'[m] = told[m]
    PROVE  (BatchSound(m) /\ CallsSound(m))'
  <1>1. BatchSound(m) /\ CallsSound(m)
      BY DEF TbInv
  <1>2. BatchSound(m)'
      BY <1>1 DEF BatchSound, Batch
  <1>3. CallsSound(m)'
      BY <1>1 DEF CallsSound, Batch, Known, Idle
  <1> QED
      BY <1>2, <1>3

LEMMA BeginCallKeeps == ASSUME TbInv, NEW l \in Levels, BeginCall(l) PROVE TbInv'
  <1>1. PICK call \in Batch(l) :
          /\ call \notin running[l] \union Known(l)
          /\ running' = [running EXCEPT ![l] = @ \union {call}]
      BY DEF BeginCall
  <1>2. calls' = calls /\ from' = from /\ upto' = upto /\ results' = results /\ told' = told
      BY DEF BeginCall
  <1> TbTypeOK
      BY DEF TbInv
  <1>3. TbTypeOK' /\ running'[l] = running[l] \union {call}
    <2>1. call \in Nat
        BY <1>1 DEF Batch, TbTypeOK
    <2> QED
        BY <1>1, <1>2, <2>1 DEF TbTypeOK
  <1>4. (BatchSound(l) /\ CallsSound(l))'
      BY <1>1, <1>2, <1>3 DEF TbInv, BatchSound, CallsSound, Batch, Known, Idle
  <1>5. ASSUME NEW m \in Levels \ {l} PROVE (BatchSound(m) /\ CallsSound(m))'
    <2> running'[m] = running[m]
        BY <1>1 DEF TbTypeOK
    <2> QED
        BY <1>2, OtherLevel
  <1>6. AgentWorks => AgentWorks'
      BY <1>1, <1>2 DEF AgentWorks, TbTypeOK
  <1> QED
      BY <1>2, <1>3, <1>4, <1>5, <1>6 DEF TbInv, Idle

LEMMA EndCallKeeps == ASSUME TbInv, NEW l \in Levels, EndCall(l) PROVE TbInv'
  <1>1. PICK call \in running[l] :
          /\ calls[l][call] # "agent" /\ running' = [running EXCEPT ![l] = @ \ {call}]
          /\ results' = [results EXCEPT ![l] = Append(@, call)]
      BY DEF EndCall
  <1>2. calls' = calls /\ from' = from /\ upto' = upto /\ told' = told
      BY DEF EndCall
  <1> TbTypeOK /\ BatchSound(l) /\ CallsSound(l)
      BY DEF TbInv
  <1>3. call \in Nat /\ call \in Batch(l) /\ call \notin Known(l) /\ results[l] \in Seq(Nat)
      BY <1>1 DEF TbTypeOK, CallsSound
  <1>4. /\ running'[l] = running[l] \ {call} /\ results'[l] = Append(results[l], call)
        /\ ToSet(results'[l]) = ToSet(results[l]) \union {call} /\ TbTypeOK'
    <2>1. Append(results[l], call) \in Seq(Nat)
        BY <1>3
    <2>2. ToSet(Append(results[l], call)) = ToSet(results[l]) \union {call}
        BY <1>3, AppendedSet
    <2>3. results'[l] = Append(results[l], call)
        BY <1>1 DEF TbTypeOK
    <2>4. results' \in [Levels -> Seq(Nat)]
        BY <1>1, <2>1 DEF TbTypeOK
    <2> QED
        BY <1>1, <1>2, <2>2, <2>3, <2>4 DEF TbTypeOK
  <1>5. \A i, j \in DOMAIN results'[l] : results'[l][i] = results'[l][j] => i = j
    <2>1. \A i \in DOMAIN results[l] : results[l][i] # call
        BY <1>3 DEF Known, ToSet
    <2> QED
        BY <1>3, <1>4, <2>1 DEF CallsSound
  <1>6. (BatchSound(l) /\ CallsSound(l))'
      BY <1>2, <1>3, <1>4, <1>5 DEF BatchSound, CallsSound, Batch, Known, Idle
  <1>7. ASSUME NEW m \in Levels \ {l} PROVE (BatchSound(m) /\ CallsSound(m))'
    <2> running'[m] = running[m] /\ results'[m] = results[m]
        BY <1>1 DEF TbTypeOK
    <2> QED
        BY <1>2, OtherLevel
  <1>8. AgentWorks => AgentWorks'
      BY <1>1, <1>2 DEF AgentWorks, TbTypeOK
  <1> QED
      BY <1>2, <1>4, <1>6, <1>7, <1>8 DEF TbInv, Idle

LEMMA AgentEndsKeeps == ASSUME TbInv, AgentEnds PROVE TbInv'
  <1>1. PICK call \in running["loop"] :
          /\ calls["loop"][call] = "agent"
          /\ running' = [running EXCEPT !["loop"] = @ \ {call}, !["agent"] = {}]
          /\ results' = [results EXCEPT !["loop"] = Append(@, call), !["agent"] = <<>>]
      BY DEF AgentEnds
  <1>2. /\ calls' = [calls EXCEPT !["agent"] = <<>>]
        /\ from' = [from EXCEPT !["agent"] = 1] /\ upto' = [upto EXCEPT !["agent"] = 0]
        /\ told' = [told EXCEPT !["agent"] = <<>>]
      BY DEF AgentEnds
  <1>3. TbTypeOK /\ "loop" \in Levels /\ "agent" \in Levels /\ BatchSound("loop") /\ CallsSound("loop")
      BY DEF TbInv, Levels
  <1>4. call \in Nat /\ call \in Batch("loop") /\ call \notin Known("loop") /\ results["loop"] \in Seq(Nat)
      BY <1>1, <1>3 DEF TbTypeOK, CallsSound
  <1>5. /\ running'["loop"] = running["loop"] \ {call} /\ results'["loop"] = Append(results["loop"], call)
        /\ ToSet(results'["loop"]) = ToSet(results["loop"]) \union {call}
        /\ calls'["loop"] = calls["loop"] /\ from'["loop"] = from["loop"]
        /\ upto'["loop"] = upto["loop"] /\ told'["loop"] = told["loop"]
    <2>1. ToSet(Append(results["loop"], call)) = ToSet(results["loop"]) \union {call}
        BY <1>4, AppendedSet
    <2>2. results'["loop"] = Append(results["loop"], call) /\ running'["loop"] = running["loop"] \ {call}
        BY <1>1, <1>3 DEF TbTypeOK
    <2> QED
        BY <1>2, <1>3, <2>1, <2>2 DEF TbTypeOK
  <1>6. TbTypeOK'
    <2>1. running' \in [Levels -> SUBSET Nat] /\ results' \in [Levels -> Seq(Nat)]
      <3> Append(results["loop"], call) \in Seq(Nat) /\ <<>> \in Seq(Nat)
          BY <1>4
      <3> QED
          BY <1>1, <1>3 DEF TbTypeOK
    <2>2. /\ calls' \in [Levels -> Seq(Kinds)] /\ from' \in [Levels -> Nat \ {0}]
          /\ upto' \in [Levels -> Nat] /\ told' \in [Levels -> Seq(Nat)]
        BY <1>2, <1>3 DEF TbTypeOK
    <2> QED
        BY <2>1, <2>2 DEF TbTypeOK
  <1>7. \A i, j \in DOMAIN results'["loop"] : results'["loop"][i] = results'["loop"][j] => i = j
    <2>1. \A i \in DOMAIN results["loop"] : results["loop"][i] # call
        BY <1>4 DEF Known, ToSet
    <2> QED
        BY <1>3, <1>4, <1>5, <2>1 DEF CallsSound
  <1>8. (BatchSound("loop") /\ CallsSound("loop"))'
      BY <1>3, <1>4, <1>5, <1>7 DEF BatchSound, CallsSound, Batch, Known, Idle
  <1>9. /\ calls'["agent"] = <<>> /\ from'["agent"] = 1 /\ upto'["agent"] = 0 /\ told'["agent"] = <<>>
        /\ running'["agent"] = {} /\ results'["agent"] = <<>>
      BY <1>1, <1>2, <1>3 DEF TbTypeOK
  <1>10. (BatchSound("agent") /\ CallsSound("agent") /\ Idle("agent"))'
      BY <1>9 DEF BatchSound, CallsSound, Batch, Known, Idle, ToSet
  <1> QED
      BY <1>6, <1>8, <1>9, <1>10 DEF TbInv, Levels

LEMMA TakeResultKeeps == ASSUME TbInv, NEW l \in Levels, TakeResult(l) PROVE TbInv'
  <1> DEFINE call == Head(results[l])
  <1> TbTypeOK /\ BatchSound(l) /\ CallsSound(l)
      BY DEF TbInv
  <1>1. /\ results[l] # <<>> /\ results' = [results EXCEPT ![l] = Tail(@)]
        /\ told' = [told EXCEPT ![l] = Append(@, call)]
        /\ calls' = calls /\ running' = running
      BY DEF TakeResult
  <1>2. results[l] \in Seq(Nat) /\ told[l] \in Seq(Nat) /\ calls[l] \in Seq(Kinds)
      BY DEF TbTypeOK
  <1>3. /\ ToSet(results[l]) = ToSet(Tail(results[l])) \union {call} /\ call \in Nat
        /\ Tail(results[l]) \in Seq(Nat) /\ call \notin ToSet(Tail(results[l]))
        /\ \A i, j \in DOMAIN Tail(results[l]) : Tail(results[l])[i] = Tail(results[l])[j] => i = j
      BY <1>1, <1>2, HeadAndTail DEF CallsSound
  <1> HIDE DEF call
  <1>4. /\ results'[l] = Tail(results[l]) /\ told'[l] = Append(told[l], call)
        /\ ToSet(told'[l]) = ToSet(told[l]) \union {call} /\ calls'[l] = calls[l] /\ running'[l] = running[l]
    <2>1. ToSet(Append(told[l], call)) = ToSet(told[l]) \union {call}
        BY <1>2, <1>3, AppendedSet
    <2>2. results'[l] = Tail(results[l]) /\ told'[l] = Append(told[l], call)
        BY <1>1 DEF TbTypeOK
    <2> QED
        BY <1>1, <2>1, <2>2
  <1>5. results' \in [Levels -> Seq(Nat)] /\ told' \in [Levels -> Seq(Nat)]
      BY <1>1, <1>2, <1>3 DEF TbTypeOK
  <1>6. call \in Batch(l)
      BY <1>3 DEF CallsSound
  <1>7. /\ from' \in [Levels -> Nat \ {0}] /\ upto' \in [Levels -> Nat]
        /\ \A m \in Levels \ {l} : from'[m] = from[m] /\ upto'[m] = upto[m]
        /\ (BatchSound(l) /\ CallsSound(l))'
    <2>1. CASE Batch(l) \subseteq ToSet(told'[l])
      <3>1. BeginBatch(l, calls[l], upto[l] + 1)
          BY <2>1 DEF TakeResult
      <3>2. upto[l] + 1 \in Nat \ {0} /\ upto[l] + 1 <= Len(calls[l]) + 1 /\ Len(calls[l]) \in Nat
          BY <1>2 DEF TbTypeOK, BatchSound
      <3>3. PICK end \in 0 .. Len(calls[l]) :
              /\ from' = [from EXCEPT ![l] = upto[l] + 1] /\ upto' = [upto EXCEPT ![l] = end]
              /\ upto[l] + 1 <= Len(calls[l]) => upto[l] + 1 <= end
              /\ upto[l] + 1 > Len(calls[l]) => end = Len(calls[l])
              /\ \A i \in upto[l] + 1 .. end, j \in upto[l] + 1 .. end : i # j => calls[l][i] = "read"
        <4>1. \E end \in 0 .. Len(calls[l]) :
                /\ upto' = [upto EXCEPT ![l] = end]
                /\ upto[l] + 1 <= Len(calls[l]) => upto[l] + 1 <= end
                /\ upto[l] + 1 > Len(calls[l]) => end = Len(calls[l])
                /\ \A i \in upto[l] + 1 .. end, j \in upto[l] + 1 .. end : i # j => calls[l][i] = "read"
            BY <1>2, <3>1, <3>2, BatchBegun
        <4> QED
            BY <3>1, <4>1 DEF BeginBatch
      <3>4. from'[l] = upto[l] + 1 /\ upto'[l] = end /\ end \in Nat
          BY <3>2, <3>3 DEF TbTypeOK
      <3>5. BatchSound(l)'
          BY <1>4, <3>2, <3>3, <3>4 DEF BatchSound, Batch
      <3>6. running[l] = {} /\ ToSet(Tail(results[l])) = {}
          \* Of a batch that has told its last result nothing is left.
          BY <1>3, <1>4, <2>1 DEF CallsSound, Known
      <3>7. 1 .. upto[l] \subseteq ToSet(told'[l])
        <4>1. ~Idle(l)
            BY <1>2, <1>6 DEF Idle, Batch, BatchSound, TbTypeOK
        <4>2. 1 .. upto[l] \subseteq 1 .. from[l] - 1 \union Batch(l)
            BY DEF Batch, TbTypeOK
        <4> QED
            BY <1>4, <2>1, <4>1, <4>2 DEF CallsSound
      <3>8. ToSet(told'[l]) \subseteq 1 .. end
        <4>1. upto[l] <= end
          <5>1. CASE upto[l] + 1 <= Len(calls[l])
              BY <3>2, <3>3, <3>4, <5>1 DEF TbTypeOK
          <5>2. CASE upto[l] + 1 > Len(calls[l])
              BY <3>2, <3>3, <3>4, <5>2 DEF TbTypeOK
          <5> QED
              BY <3>2, <5>1, <5>2
        <4>2. call \in 1 .. upto[l]
            BY <1>6 DEF Batch, TbTypeOK
        <4>3. 1 .. upto[l] \subseteq 1 .. end
            BY <3>4, <4>1 DEF TbTypeOK
        <4> QED
            BY <1>4, <4>2, <4>3 DEF CallsSound
      <3>9. CallsSound(l)'
        <4>1. (running[l] \cap Known(l) = {})' /\ (ToSet(results[l]) \cap ToSet(told[l]) = {})'
              /\ (running[l] \subseteq Batch(l))' /\ (ToSet(results[l]) \subseteq Batch(l))'
            BY <1>4, <3>6
        <4>2. (~Idle(l) => 1 .. from[l] - 1 \subseteq ToSet(told[l]))'
          <5> from'[l] - 1 = upto[l]
              BY <3>4 DEF TbTypeOK
          <5> QED
              BY <3>7
        <4> QED
            BY <1>3, <1>4, <3>4, <3>8, <4>1, <4>2 DEF CallsSound
      <3> QED
          BY <3>2, <3>3, <3>4, <3>5, <3>9 DEF TbTypeOK
    <2>2. CASE ~(Batch(l) \subseteq ToSet(told'[l]))
      <3>1. from' = from /\ upto' = upto
          BY <2>2 DEF TakeResult
      <3>2. BatchSound(l)'
          BY <1>4, <3>1 DEF BatchSound, Batch
      <3>3. CallsSound(l)'
        <4>1. call \in 1 .. upto[l]
            BY <1>6 DEF Batch, TbTypeOK
        <4> QED
            BY <1>3, <1>4, <3>1, <4>1 DEF CallsSound, Batch, Known, Idle
      <3> QED
          BY <3>1, <3>2, <3>3 DEF TbTypeOK
    <2> QED
        BY <2>1, <2>2
  <1>8. TbTypeOK'
      BY <1>1, <1>5, <1>7 DEF TbTypeOK
  <1>9. ASSUME NEW m \in Levels \ {l} PROVE (BatchSound(m) /\ CallsSound(m))'
    <2> results'[m] = results[m] /\ told'[m] = told[m] /\ calls'[m] = calls[m] /\ running'[m] = running[m]
        BY <1>1 DEF TbTypeOK
    <2> QED
        BY <1>7, OtherLevel
  <1>10. ~AgentWorks' => Idle("agent")'
    <2>1. SUFFICES ASSUME ~AgentWorks' PROVE Idle("agent")'
        OBVIOUS
    <2>2. Idle("agent")
        BY <1>1, <2>1 DEF AgentWorks, TbInv
    <2>3. l # "agent"
        \* A level without calls has no result to take.
        BY <1>2, <1>6, <2>2 DEF Idle, Batch, BatchSound, TbTypeOK
    <2> QED
        BY <1>1, <1>7, <2>2, <2>3 DEF Idle, Levels
  <1> QED
      BY <1>1, <1>7, <1>8, <1>9, <1>10 DEF TbInv

LEMMA StopListeningKeeps == ASSUME TbInv, StopListening PROVE TbInv'
  <1>1. /\ from' = [from EXCEPT !["loop"] = Len(calls["loop"]) + 1]
        /\ upto' = [upto EXCEPT !["loop"] = Len(calls["loop"])]
        /\ running' = [running EXCEPT !["loop"] = {}] /\ results' = [results EXCEPT !["loop"] = <<>>]
        /\ calls' = calls /\ told' = told
      BY DEF StopListening
  <1>2. TbTypeOK /\ "loop" \in Levels /\ "agent" \in Levels \ {"loop"} /\ BatchSound("loop") /\ CallsSound("loop")
      BY DEF TbInv, Levels
  <1>3. Len(calls["loop"]) \in Nat /\ upto["loop"] \in Nat /\ from["loop"] \in Nat
      BY <1>2 DEF TbTypeOK
  <1>4. /\ from'["loop"] = Len(calls["loop"]) + 1 /\ upto'["loop"] = Len(calls["loop"])
        /\ running'["loop"] = {} /\ results'["loop"] = <<>>
      BY <1>1, <1>2 DEF TbTypeOK
  <1>5. TbTypeOK'
      BY <1>1, <1>2, <1>3 DEF TbTypeOK
  <1>6. BatchSound("loop")'
      BY <1>1, <1>3, <1>4 DEF BatchSound, Batch
  <1>7. CallsSound("loop")'
    <2>1. 1 .. upto["loop"] \subseteq 1 .. Len(calls["loop"])
        BY <1>2, <1>3 DEF BatchSound
    <2> QED
        BY <1>1, <1>2, <1>3, <1>4, <2>1 DEF CallsSound, Known, Idle, ToSet
  <1>8. (BatchSound("agent") /\ CallsSound("agent"))'
    <2> /\ from'["agent"] = from["agent"] /\ upto'["agent"] = upto["agent"]
        /\ running'["agent"] = running["agent"] /\ results'["agent"] = results["agent"]
        BY <1>1, <1>2 DEF TbTypeOK
    <2> QED
        BY <1>1, <1>2, OtherLevel
  <1>9. Idle("agent")'
    <2>1. ~AgentWorks
        \* A sub-agent runs alone, and the loop waits for it.
      <3> SUFFICES ASSUME NEW call \in running["loop"], calls["loop"][call] = "agent" PROVE FALSE
          BY DEF AgentWorks
      <3>1. call \in Batch("loop") /\ call \notin ToSet(told["loop"])
          BY <1>2 DEF CallsSound, Known
      <3>2. \A i \in Batch("loop") : i = call
          BY <1>2, <3>1 DEF BatchSound
      <3> QED
          BY <3>1, <3>2 DEF StopListening
    <2> QED
        BY <1>1, <1>2, <2>1 DEF TbInv, Idle, TbTypeOK
  <1> QED
      BY <1>1, <1>5, <1>6, <1>7, <1>8, <1>9 DEF TbInv, Levels

\* A call that changes something runs alone, after every call before it has told
\* its result, at either level; and a sub-agent's calls run while the loop has
\* no other call at work (orchestrator.py, partition_tool_calls).
THEOREM WritesRunAlone == TbSpec => []WriteAlone
  <1>1. TbInv /\ [TbNext]_tbVars => TbInv'
    <2> SUFFICES ASSUME TbInv, [TbNext]_tbVars PROVE TbInv'
        OBVIOUS
    <2>1. CASE AnswerArrives \/ AgentAsks
        BY <2>1, AnswerArrivesKeeps, AgentAsksKeeps
    <2>2. CASE AgentEnds \/ StopListening
        BY <2>2, AgentEndsKeeps, StopListeningKeeps
    <2>3. ASSUME NEW l \in Levels, BeginCall(l) \/ EndCall(l) \/ TakeResult(l) PROVE TbInv'
        BY <2>3, BeginCallKeeps, EndCallKeeps, TakeResultKeeps
    <2>4. CASE StrayEnds \/ UNCHANGED tbVars
      <3> UNCHANGED <<calls, from, upto, running, results, told>>
          BY <2>4 DEF StrayEnds, tbVars
      <3> QED
          BY DEF TbInv, TbTypeOK, BatchSound, CallsSound, Batch, Known, Idle,
             AgentWorks
    <2> QED
        BY <2>1, <2>2, <2>3, <2>4 DEF TbNext
  <1>2. TbInv => WriteAlone
    <2> SUFFICES ASSUME TbInv PROVE WriteAlone
        OBVIOUS
    <2>1. ASSUME NEW l \in Levels, NEW call \in running[l] \union ToSet(results[l]), calls[l][call] # "read"
          PROVE  /\ running[l] \subseteq {call}
                 /\ 1 .. call - 1 \subseteq ToSet(told[l]) /\ ToSet(told[l]) \subseteq 1 .. call - 1
      <3> TbTypeOK /\ BatchSound(l) /\ CallsSound(l)
          BY DEF TbInv
      <3>1. call \in Batch(l) /\ call \notin ToSet(told[l])
          BY DEF CallsSound, Known
      <3>2. \A i \in Batch(l) : i = call
          BY <2>1, <3>1 DEF BatchSound
      <3>3. from[l] = call /\ upto[l] = call /\ call \in Nat
        <4>1. call \in Nat /\ from[l] <= call /\ call <= upto[l] /\ from[l] \in Nat /\ upto[l] \in Nat
            BY <3>1 DEF Batch, TbTypeOK
        <4>2. from[l] \in Batch(l) /\ upto[l] \in Batch(l)
            BY <4>1 DEF Batch
        <4> QED
            BY <3>2, <4>1, <4>2
      <3>4. ~Idle(l)
          BY <3>3 DEF BatchSound, Idle, TbTypeOK
      <3> QED
        <4>1. running[l] \subseteq {call}
            BY <3>2 DEF CallsSound
        <4>2. 1 .. call - 1 \subseteq ToSet(told[l])
            BY <3>3, <3>4 DEF CallsSound
        <4>3. ToSet(told[l]) \subseteq 1 .. call - 1
            BY <3>1, <3>3 DEF CallsSound
        <4> QED
            BY <4>1, <4>2, <4>3
    <2>2. ASSUME running["agent"] \union ToSet(results["agent"]) # {}
          PROVE  \E call \in running["loop"] : running["loop"] = {call} /\ calls["loop"][call] = "agent"
      <3>0. "agent" \in Levels /\ "loop" \in Levels
          BY DEF Levels
      <3>1. ~Idle("agent")
          BY <2>2, <3>0 DEF TbInv, TbTypeOK, BatchSound, CallsSound, Batch, Idle
      <3>2. PICK call \in running["loop"] : calls["loop"][call] = "agent"
          BY <3>1 DEF TbInv, AgentWorks
      <3>3. running["loop"] \subseteq {call}
          BY <2>1, <3>0, <3>2
      <3> QED
          BY <3>2, <3>3
    <2> QED
        BY <2>1, <2>2 DEF WriteAlone
  <1> QED
      BY TbInitially, <1>1, <1>2, PTL DEF TbSpec

------------------------------------------------------------------------------
(* Includes and pages of a skill (SkillCatalog).                           *)

\* ---- skills
Frames == [file : SkillFiles, rest : Seq(SkillFiles)]
SklTypeOK ==
    /\ links \in [SkillFiles -> Seq(SkillFiles)] /\ stack \in Seq(Frames)
    /\ processed \in SUBSET SkillFiles /\ included \in Seq(SkillFiles)
    /\ output \in Nat /\ offset \in Nat \union {NotReading} /\ pages \in Seq(Nat)
    /\ partial \in BOOLEAN /\ drifted \in BOOLEAN

\* Every file being resolved is a named one, with some of its directives left.
StackNamed ==
    \A i \in DOMAIN stack :
        stack[i].file \in Named /\ ToSet(stack[i].rest) \subseteq ToSet(links[stack[i].file])
\* Each file is included once, and is one that the skill names.
BodySound ==
    /\ \A i, j \in DOMAIN included : included[i] = included[j] => i = j
    /\ ToSet(included) \subseteq Named \ {SkillMd}
    /\ {SkillMd} \union ToSet(included) \subseteq processed
    /\ ~partial => processed = {SkillMd} \union ToSet(included)
\* What a processed file includes is processed or still to come.
Coming(f, g) == \E i \in DOMAIN stack : stack[i].file = f /\ g \in ToSet(stack[i].rest)
NothingSkipped ==
    ~partial => \A f \in processed : \A g \in ToSet(links[f]) \ Opaque : g \in processed \/ Coming(f, g)
\* The next page starts where the pages read end, within the output.
PagesSound ==
    /\ \A i \in DOMAIN pages : pages[i] = i
    /\ offset # NotReading => offset = Len(pages) /\ (~drifted => offset <= output)
    /\ ~drifted /\ offset = NotReading /\ pages # <<>> => Len(pages) = output
SklInv == SklTypeOK /\ StackNamed /\ BodySound /\ NothingSkipped /\ PagesSound

LEMMA NamedInclude ==
    ASSUME SklTypeOK, NEW f \in Named, NEW g \in ToSet(links[f]) \ Opaque
    PROVE  g \in Named
  <1>1. f \in SkillFiles /\ links[f] \in Seq(SkillFiles)
      BY DEF Named, SklTypeOK
  <1>2. g \in SkillFiles
      BY <1>1 DEF ToSet
  <1>3. ASSUME NEW S \in SUBSET SkillFiles, Closed(S) PROVE g \in S
      BY <1>3 DEF Named, Closed
  <1> QED
      BY <1>2, <1>3 DEF Named

LEMMA SklInitially == SklInit => SklInv
  <1> SUFFICES ASSUME SklInit PROVE SklInv
      OBVIOUS
  <1>1. links \in [SkillFiles -> Seq(SkillFiles)]
    <2>1. SeqOf(SkillFiles, MaxLinks) \subseteq Seq(SkillFiles)
        BY SkillCatalogAssumption DEF SeqOf
    <2> QED
        BY <2>1 DEF SklInit
  <1>2. SkillMd \in SkillFiles /\ SkillMd \in Named
      BY SkillCatalogAssumption DEF Named, Closed
  <1>3. stack = <<Frame(SkillMd, links[SkillMd])>> /\ Frame(SkillMd, links[SkillMd]) \in Frames
      BY <1>1, <1>2 DEF SklInit, Frame, Frames
  <1>4. SklTypeOK
    <2>1. stack \in Seq(Frames)
        BY <1>3
    <2>2. processed \in SUBSET SkillFiles /\ included \in Seq(SkillFiles) /\ pages \in Seq(Nat)
        BY <1>2 DEF SklInit
    <2> QED
        BY <1>1, <2>1, <2>2 DEF SklInit, SklTypeOK
  <1>5. StackNamed
      BY <1>2, <1>3 DEF StackNamed, Frame
  <1>6. ToSet(included) = {} /\ BodySound
      BY DEF SklInit, BodySound, ToSet
  <1>7. NothingSkipped
    <2>1. stack[1].file = SkillMd /\ stack[1].rest = links[SkillMd] /\ 1 \in DOMAIN stack
        BY <1>3 DEF Frame
    <2>2. \A g \in ToSet(links[SkillMd]) : Coming(SkillMd, g)
        BY <2>1 DEF Coming
    <2> QED
        BY <2>2 DEF NothingSkipped, SklInit
  <1>8. PagesSound
      BY DEF SklInit, PagesSound
  <1> QED
      BY <1>4, <1>5, <1>6, <1>7, <1>8 DEF SklInv

\* Taking the top frame's next directive.
LEMMA AdvancedStack ==
    ASSUME SklTypeOK, ~Resolved, Top.rest # <<>>
    PROVE  /\ Advanced \in Seq(Frames) /\ DOMAIN Advanced = DOMAIN stack /\ Len(Advanced) = Len(stack)
           /\ Len(stack) \in DOMAIN stack
           /\ \A i \in DOMAIN stack : Advanced[i].file = stack[i].file
           /\ \A i \in DOMAIN stack : i # Len(stack) => Advanced[i] = stack[i]
           /\ ToSet(Top.rest) = ToSet(Advanced[Len(stack)].rest) \union {Head(Top.rest)}
           /\ Head(Top.rest) \in SkillFiles
  <1>1. Len(stack) \in Nat \ {0} /\ stack \in Seq(Frames) /\ DOMAIN stack = 1 .. Len(stack)
      BY DEF SklTypeOK, Resolved
  <1>2. Top \in Frames /\ Top.rest \in Seq(SkillFiles)
    <2>1. stack[Len(stack)] \in Frames
        BY <1>1
    <2> QED
        BY <2>1 DEF Top, Frames
  <1>3. ToSet(Top.rest) = ToSet(Tail(Top.rest)) \union {Head(Top.rest)} /\ Head(Top.rest) \in SkillFiles
        /\ Tail(Top.rest) \in Seq(SkillFiles)
      BY <1>2, HeadAndTail
  <1>4. Advanced = [stack EXCEPT ![Len(stack)] = [Top EXCEPT !.rest = Tail(Top.rest)]]
      BY <1>1 DEF Advanced, Top
  <1>5. [Top EXCEPT !.rest = Tail(Top.rest)] \in Frames
      BY <1>2, <1>3 DEF Frames
  <1>6. /\ [Top EXCEPT !.rest = Tail(Top.rest)].rest = Tail(Top.rest)
        /\ [Top EXCEPT !.rest = Tail(Top.rest)].file = Top.file
      BY <1>2 DEF Frames
  <1>7. Advanced \in Seq(Frames) /\ Len(Advanced) = Len(stack) /\ DOMAIN Advanced = DOMAIN stack
      BY <1>1, <1>4, <1>5
  <1>8. /\ Advanced[Len(stack)].rest = Tail(Top.rest) /\ Advanced[Len(stack)].file = Top.file
        /\ \A i \in DOMAIN stack : i # Len(stack) => Advanced[i] = stack[i]
      BY <1>1, <1>4, <1>6
  <1> QED
      BY <1>1, <1>3, <1>7, <1>8 DEF Top

LEMMA SkipFileKeeps == ASSUME SklInv, SkipFile PROVE SklInv'
  <1>1. /\ stack' = Advanced /\ ~Resolved /\ Top.rest # <<>> /\ Skips(Head(Top.rest))
        /\ UNCHANGED <<links, processed, included, partial, output, offset, pages, drifted>>
      BY DEF SkipFile
  <1> SklTypeOK /\ StackNamed /\ BodySound /\ NothingSkipped /\ PagesSound
      BY DEF SklInv
  <1>2. /\ Advanced \in Seq(Frames) /\ DOMAIN Advanced = DOMAIN stack /\ Len(stack) \in DOMAIN stack
        /\ \A i \in DOMAIN stack : Advanced[i].file = stack[i].file
        /\ \A i \in DOMAIN stack : i # Len(stack) => Advanced[i] = stack[i]
        /\ ToSet(Top.rest) = ToSet(Advanced[Len(stack)].rest) \union {Head(Top.rest)}
      BY <1>1, AdvancedStack
  <1>3. SklTypeOK'
      BY <1>1, <1>2 DEF SklTypeOK
  <1>4. \A i \in DOMAIN stack : ToSet(Advanced[i].rest) \subseteq ToSet(stack[i].rest)
      BY <1>2 DEF Top
  <1>5. Named' = Named
      BY <1>1 DEF Named, Closed
  <1>6. StackNamed'
      BY <1>1, <1>2, <1>4, <1>5 DEF StackNamed
  <1>7. NothingSkipped'
    <2> SUFFICES ASSUME ~partial, NEW f \in processed, NEW g \in ToSet(links[f]) \ Opaque, g \notin processed
                 PROVE  Coming(f, g)'
        BY <1>1 DEF NothingSkipped
    <2>1. PICK i \in DOMAIN stack : stack[i].file = f /\ g \in ToSet(stack[i].rest)
        BY DEF NothingSkipped, Coming
    <2>2. g # Head(Top.rest)
        BY <1>1 DEF Skips
    <2>3. g \in ToSet(Advanced[i].rest)
        BY <1>2, <2>1, <2>2 DEF Top
    <2> QED
        BY <1>1, <1>2, <2>1, <2>3 DEF Coming
  <1>8. BodySound' /\ PagesSound'
      BY <1>1, <1>5 DEF BodySound, PagesSound
  <1> QED
      BY <1>3, <1>6, <1>7, <1>8 DEF SklInv

LEMMA LoseFileKeeps == ASSUME SklInv, LoseFile PROVE SklInv'
  <1>1. /\ stack' = Advanced /\ ~Resolved /\ Top.rest # <<>> /\ partial' = TRUE
        /\ processed' = processed \union {Head(Top.rest)}
        /\ UNCHANGED <<links, included, output, offset, pages, drifted>>
      BY DEF LoseFile
  <1> SklTypeOK /\ StackNamed /\ BodySound /\ PagesSound
      BY DEF SklInv
  <1>2. /\ Advanced \in Seq(Frames) /\ DOMAIN Advanced = DOMAIN stack
        /\ \A i \in DOMAIN stack : Advanced[i].file = stack[i].file
        /\ \A i \in DOMAIN stack : i # Len(stack) => Advanced[i] = stack[i]
        /\ ToSet(Top.rest) = ToSet(Advanced[Len(stack)].rest) \union {Head(Top.rest)}
        /\ Head(Top.rest) \in SkillFiles
      BY <1>1, AdvancedStack
  <1>3. SklTypeOK'
      BY <1>1, <1>2 DEF SklTypeOK
  <1>4. \A i \in DOMAIN stack : ToSet(Advanced[i].rest) \subseteq ToSet(stack[i].rest)
      BY <1>2 DEF Top
  <1>5. Named' = Named
      BY <1>1 DEF Named, Closed
  <1>6. StackNamed'
      BY <1>1, <1>2, <1>4, <1>5 DEF StackNamed
  <1>7. BodySound' /\ PagesSound' /\ NothingSkipped'
      BY <1>1, <1>5 DEF BodySound, PagesSound, NothingSkipped
  <1> QED
      BY <1>3, <1>6, <1>7 DEF SklInv

LEMMA IncludeFileKeeps == ASSUME SklInv, IncludeFile PROVE SklInv'
  <1> DEFINE file == Head(Top.rest)
             end == Len(stack) >= MaxIncludeDepth
             rest == IF end THEN <<>> ELSE links[file]
  <1>1. /\ ~Resolved /\ Top.rest # <<>> /\ ~Skips(file)
        /\ processed' = processed \union {file} /\ included' = Append(included, file)
        /\ stack' = Append(Advanced, Frame(file, rest))
        /\ partial' = (partial \/ (end /\ links[file] # <<>>))
        /\ UNCHANGED <<links, output, offset, pages, drifted>>
      BY DEF IncludeFile
  <1> SklTypeOK /\ StackNamed /\ BodySound /\ NothingSkipped /\ PagesSound
      BY DEF SklInv
  <1>2. /\ Advanced \in Seq(Frames) /\ DOMAIN Advanced = DOMAIN stack /\ Len(Advanced) = Len(stack)
        /\ Len(stack) \in DOMAIN stack
        /\ \A i \in DOMAIN stack : Advanced[i].file = stack[i].file
        /\ \A i \in DOMAIN stack : i # Len(stack) => Advanced[i] = stack[i]
        /\ ToSet(Top.rest) = ToSet(Advanced[Len(stack)].rest) \union {file}
        /\ file \in SkillFiles
      BY <1>1, AdvancedStack
  <1> HIDE DEF file
  <1>3. file \notin Opaque /\ file \notin processed
      BY <1>1 DEF Skips
  <1>4. rest \in Seq(SkillFiles) /\ ToSet(rest) \subseteq ToSet(links[file]) /\ Frame(file, rest) \in Frames
        /\ Frame(file, rest).file = file /\ Frame(file, rest).rest = rest
    <2>1. links[file] \in Seq(SkillFiles) /\ ToSet(<<>>) = {}
        BY <1>2 DEF SklTypeOK, ToSet
    <2>2. rest \in Seq(SkillFiles) /\ ToSet(rest) \subseteq ToSet(links[file])
        BY <2>1
    <2> HIDE DEF rest
    <2> QED
        BY <1>2, <2>2 DEF Frame, Frames
  <1> HIDE DEF rest
  <1>5. /\ stack' \in Seq(Frames) /\ DOMAIN stack' = DOMAIN stack \union {Len(stack) + 1}
        /\ stack'[Len(stack) + 1] = Frame(file, rest)
        /\ \A i \in DOMAIN stack : stack'[i] = Advanced[i] /\ i # Len(stack) + 1
    <2>1. DOMAIN stack = 1 .. Len(stack) /\ Len(stack) \in Nat
        BY DEF SklTypeOK
    <2> QED
        BY <1>1, <1>2, <1>4, <2>1
  <1>6. included' \in Seq(SkillFiles) /\ ToSet(included') = ToSet(included) \union {file}
      BY <1>1, <1>2, AppendedSet DEF SklTypeOK
  <1>7. SklTypeOK'
      BY <1>1, <1>2, <1>5, <1>6 DEF SklTypeOK
  <1>8. Named' = Named
      BY <1>1 DEF Named, Closed
  <1>9. file \in Named
    <2>1. file \in ToSet(links[Top.file]) /\ Top.file \in Named
        BY <1>2 DEF StackNamed, Top
    <2> QED
        BY <1>3, <2>1, NamedInclude
  <1>10. StackNamed'
    <2> SUFFICES ASSUME NEW i \in DOMAIN stack'
                 PROVE  stack'[i].file \in Named /\ ToSet(stack'[i].rest) \subseteq ToSet(links[stack'[i].file])
        BY <1>1, <1>8 DEF StackNamed
    <2>1. CASE i = Len(stack) + 1
        BY <1>4, <1>5, <1>9, <2>1
    <2>2. CASE i = Len(stack)
        BY <1>2, <1>5, <2>2 DEF StackNamed, Top
    <2>3. CASE i \in DOMAIN stack /\ i # Len(stack)
        BY <1>2, <1>5, <2>3 DEF StackNamed
    <2> QED
        BY <1>5, <2>1, <2>2, <2>3
  <1>11. BodySound'
    <2>1. file \notin ToSet(included) /\ file # SkillMd
        BY <1>3 DEF BodySound
    <2>2. \A i, j \in DOMAIN included' : included'[i] = included'[j] => i = j
      <3>1. \A i \in DOMAIN included : included[i] # file
          BY <2>1 DEF ToSet
      <3>2. included \in Seq(SkillFiles)
          BY DEF SklTypeOK
      <3> QED
          BY <1>1, <3>1, <3>2 DEF BodySound
    <2> QED
        BY <1>1, <1>6, <1>8, <1>9, <2>1, <2>2 DEF BodySound
  <1>12. NothingSkipped'
    <2> SUFFICES ASSUME ~partial', NEW f \in processed', NEW g \in ToSet(links[f]) \ Opaque, g \notin processed'
                 PROVE  Coming(f, g)'
        BY <1>1 DEF NothingSkipped
    <2>1. CASE f \in processed
      <3>1. PICK i \in DOMAIN stack : stack[i].file = f /\ g \in ToSet(stack[i].rest)
          BY <1>1, <2>1 DEF NothingSkipped, Coming
      <3>2. g # file
          BY <1>1
      <3>3. g \in ToSet(Advanced[i].rest)
          BY <1>2, <3>1, <3>2 DEF Top
      <3>4. i \in DOMAIN stack' /\ stack'[i].file = f /\ g \in ToSet(stack'[i].rest)
          BY <1>2, <1>5, <3>1, <3>3
      <3> QED
          BY <3>4 DEF Coming
    <2>2. CASE f = file
      <3>1. g \in ToSet(rest)
        <4>1. CASE end
          <5> links[file] = <<>> /\ ToSet(<<>>) = {}
            <6>1. ~(partial \/ (end /\ links[file] # <<>>))
                BY <1>1, Zenon
            <6> QED
                BY <4>1, <6>1 DEF ToSet
          <5> QED
              BY <2>2
        <4>2. CASE ~end
            BY <2>2, <4>2 DEF rest
        <4> QED
            BY <4>1, <4>2
      <3>2. Len(stack) + 1 \in DOMAIN stack'
          BY <1>5
      <3> QED
          BY <1>4, <1>5, <2>2, <3>1, <3>2 DEF Coming
    <2> QED
        BY <1>1, <2>1, <2>2
  <1>13. PagesSound'
      BY <1>1 DEF PagesSound
  <1> QED
      BY <1>7, <1>10, <1>11, <1>12, <1>13 DEF SklInv

LEMMA LeaveFileKeeps == ASSUME SklInv, LeaveFile PROVE SklInv'
  <1>1. /\ stack' = Front(stack) /\ ~Resolved /\ Top.rest = <<>>
        /\ UNCHANGED <<links, processed, included, partial, output, offset, pages, drifted>>
      BY DEF LeaveFile
  <1> SklTypeOK /\ StackNamed /\ BodySound /\ NothingSkipped /\ PagesSound
      BY DEF SklInv
  <1>2. Len(stack) \in Nat \ {0} /\ stack \in Seq(Frames)
      BY <1>1 DEF SklTypeOK, Resolved
  <1>3. /\ stack' \in Seq(Frames) /\ Len(stack') = Len(stack) - 1
        /\ DOMAIN stack = 1 .. Len(stack) /\ DOMAIN stack' = 1 .. Len(stack) - 1
        /\ \A i \in 1 .. Len(stack) - 1 : stack'[i] = stack[i]
    <2>1. stack' = SubSeq(stack, 1, Len(stack) - 1)
        BY <1>1 DEF Front
    <2>2. /\ SubSeq(stack, 1, Len(stack) - 1) \in Seq(Frames)
          /\ Len(SubSeq(stack, 1, Len(stack) - 1)) = Len(stack) - 1
          /\ \A i \in 1 .. Len(stack) - 1 : SubSeq(stack, 1, Len(stack) - 1)[i] = stack[i]
      <3>1. \A i \in 1 .. Len(stack) - 1 : stack[i] \in Frames
          BY <1>2
      <3>2. 1 \in Int /\ Len(stack) - 1 \in Int
          BY <1>2
      <3>3. /\ SubSeq(stack, 1, Len(stack) - 1) \in Seq(Frames)
            /\ Len(SubSeq(stack, 1, Len(stack) - 1)) =
                 IF 1 <= Len(stack) - 1 THEN Len(stack) - 1 - 1 + 1 ELSE 0
            /\ \A i \in 1 .. Len(stack) - 1 - 1 + 1 :
                  SubSeq(stack, 1, Len(stack) - 1)[i] = stack[1 + i - 1]
          BY <3>1, <3>2, SubSeqProperties
      <3>4. Len(stack) - 1 - 1 + 1 = Len(stack) - 1 /\ \A i \in Int : 1 + i - 1 = i
          BY <1>2
      <3> QED
          BY <1>2, <3>3, <3>4
    <2> QED
        BY <1>2, <2>1, <2>2
  <1>4. SklTypeOK'
      BY <1>1, <1>3 DEF SklTypeOK
  <1>5. Named' = Named
      BY <1>1 DEF Named, Closed
  <1>6. StackNamed'
    <2> \A i \in DOMAIN stack' : i \in DOMAIN stack /\ stack'[i] = stack[i]
        BY <1>2, <1>3
    <2> QED
        BY <1>1, <1>5 DEF StackNamed
  <1>7. NothingSkipped'
    <2> SUFFICES ASSUME ~partial, NEW f \in processed, NEW g \in ToSet(links[f]) \ Opaque, g \notin processed
                 PROVE  Coming(f, g)'
        BY <1>1 DEF NothingSkipped
    <2>1. PICK i \in DOMAIN stack : stack[i].file = f /\ g \in ToSet(stack[i].rest)
        BY DEF NothingSkipped, Coming
    <2>2. i # Len(stack)
        BY <1>1, <2>1 DEF Top, ToSet
    <2> QED
        BY <1>2, <1>3, <2>1, <2>2 DEF Coming
  <1>8. BodySound' /\ PagesSound'
      BY <1>1, <1>5 DEF BodySound, PagesSound
  <1> QED
      BY <1>4, <1>6, <1>7, <1>8 DEF SklInv

\* What the resolution of the includes says is kept by every call.
LEMMA BodyStays ==
    ASSUME SklInv, UNCHANGED <<links, stack, processed, included, partial>>
    PROVE  StackNamed' /\ BodySound' /\ NothingSkipped'
BY DEF SklInv, StackNamed, BodySound, NothingSkipped, Named, Closed, Coming

LEMMA ReadKeeps ==
    ASSUME SklTypeOK, NEW start \in Nat, NEW before \in Seq(Nat), ReadFrom(start, before),
           Len(before) = start, \A i \in DOMAIN before : before[i] = i, output' = output
    PROVE  /\ offset' \in Nat \union {NotReading} /\ pages' \in Seq(Nat)
           /\ \A i \in DOMAIN pages' : pages'[i] = i
           /\ offset' # NotReading => offset' = Len(pages') /\ offset' <= output
           /\ offset' = NotReading /\ start <= output => Len(pages') = output
  <1> DEFINE end == Page(start).upto
             added == [i \in 1 .. end - start |-> start + i]
  <1>1. PageSize \in Nat \ {0} /\ output \in Nat
      BY SkillCatalogAssumption DEF SklTypeOK
  <1>2. /\ end \in Nat /\ end >= start
        /\ Page(start).next # NotReading => Page(start).next = end /\ end <= output /\ end \in Nat
        /\ Page(start).next = NotReading /\ start <= output => end = output
      BY <1>1 DEF Page, NotReading
  <1>3. offset' = Page(start).next /\ pages' = before \o added
      BY DEF ReadFrom
  <1> HIDE DEF end
  <1>4. added \in Seq(Nat) /\ Len(added) = end - start /\ \A i \in 1 .. end - start : added[i] = start + i
    <2>1. end - start \in Nat
        BY <1>2
    <2>2. added \in [1 .. end - start -> Nat]
        BY <2>1
    <2> QED
        BY <2>1, <2>2
  <1> HIDE DEF added
  <1>5. /\ before \o added \in Seq(Nat) /\ Len(before \o added) = end
        /\ \A i \in 1 .. end : (before \o added)[i] = i
    <2>1. /\ before \o added \in Seq(Nat) /\ Len(before \o added) = Len(before) + Len(added)
          /\ \A i \in 1 .. Len(before) + Len(added) :
                (before \o added)[i] = IF i <= Len(before) THEN before[i] ELSE added[i - Len(before)]
        BY <1>4, ConcatProperties
    <2>2. Len(before) + Len(added) = end
        BY <1>2, <1>4
    <2>3. ASSUME NEW i \in 1 .. end PROVE (before \o added)[i] = i
      <3>1. CASE i <= start
          BY <1>2, <2>1, <2>2, <3>1
      <3>2. CASE i > start
        <4>1. (before \o added)[i] = added[i - start]
            BY <1>2, <2>1, <2>2, <3>2
        <4>2. i - start \in 1 .. end - start
            BY <1>2, <3>2
        <4> QED
            BY <1>4, <4>1, <4>2
      <3>3. i \in Nat
          BY <1>2
      <3>4. i <= start \/ i > start
          BY <3>3
      <3> QED
          BY <3>1, <3>2, <3>4
    <2> QED
        BY <2>1, <2>2, <2>3
  <1> QED
      BY <1>2, <1>3, <1>5

LEMMA CallsKeep ==
    ASSUME SklInv, RunAction \/ NextPage \/ ActionFails \/ OutputChanges \/ ForgetGuide PROVE SklInv'
  <1> SklTypeOK /\ PagesSound
      BY DEF SklInv
  <1>0. UNCHANGED <<links, stack, processed, included, partial>>
      BY DEF RunAction, NextPage, ActionFails, OutputChanges, ForgetGuide
  <1>1. StackNamed' /\ BodySound' /\ NothingSkipped'
      BY <1>0, BodyStays
  <1>2. CASE RunAction
    <2>1. ReadFrom(0, <<>>) /\ drifted' = FALSE /\ output' = output
        BY <1>2 DEF RunAction
    <2>2. /\ offset' \in Nat \union {NotReading} /\ pages' \in Seq(Nat)
          /\ \A i \in DOMAIN pages' : pages'[i] = i
          /\ offset' # NotReading => offset' = Len(pages') /\ offset' <= output
          /\ offset' = NotReading /\ 0 <= output => Len(pages') = output
      <3>1. /\ 0 \in Nat /\ <<>> \in Seq(Nat) /\ Len(<<>>) = 0
            /\ \A i \in DOMAIN <<>> : <<>>[i] = i
          OBVIOUS
      <3> QED
          BY <2>1, <3>1, ReadKeeps
    <2>3. output \in Nat /\ (NotReading \in Int) /\ 0 <= output
        BY DEF SklTypeOK, NotReading
    <2>4. PagesSound'
        BY <2>1, <2>2, <2>3 DEF PagesSound
    <2> QED
        BY <1>0, <1>1, <2>1, <2>2, <2>4 DEF SklInv, SklTypeOK
  <1>3. CASE NextPage
    <2>1. ReadFrom(offset, pages) /\ drifted' = drifted /\ output' = output /\ offset # NotReading
        BY <1>3 DEF NextPage
    <2>2. offset \in Nat /\ pages \in Seq(Nat) /\ Len(pages) = offset /\ \A i \in DOMAIN pages : pages[i] = i
        BY <2>1 DEF SklTypeOK, PagesSound
    <2>3. /\ offset' \in Nat \union {NotReading} /\ pages' \in Seq(Nat)
          /\ \A i \in DOMAIN pages' : pages'[i] = i
          /\ offset' # NotReading => offset' = Len(pages') /\ offset' <= output
          /\ offset' = NotReading /\ offset <= output => Len(pages') = output
        BY <2>1, <2>2, ReadKeeps
    <2> QED
        BY <1>0, <1>1, <2>1, <2>3 DEF SklInv, SklTypeOK, PagesSound
  <1>4. CASE ActionFails
      BY <1>0, <1>1, <1>4 DEF ActionFails, SklInv, SklTypeOK, PagesSound
  <1>5. CASE OutputChanges
    <2> output' \in Nat
        BY <1>5, SkillCatalogAssumption DEF OutputChanges
    <2> QED
        BY <1>0, <1>1, <1>5 DEF OutputChanges, SklInv, SklTypeOK, PagesSound
  <1>6. CASE ForgetGuide
      BY <1>0, <1>1, <1>6 DEF ForgetGuide, SklInv, SklTypeOK, PagesSound
  <1> QED
      BY <1>2, <1>3, <1>4, <1>5, <1>6

\* However the files of a skill include each other, its text holds each of them
\* once, and all of them when nothing was cut off; and the pages of its output
\* join to the whole of it (catalog.py, resolve_includes and run_action).
THEOREM SkillTextWhole == SklSpec => []TextWhole
  <1>1. SklInv /\ [SklNext]_sklVars => SklInv'
    <2> SUFFICES ASSUME SklInv, [SklNext]_sklVars PROVE SklInv'
        OBVIOUS
    <2>1. CASE ResolveIncludes
        BY <2>1, SkipFileKeeps, IncludeFileKeeps, LoseFileKeeps, LeaveFileKeeps DEF
           ResolveIncludes
    <2>2. CASE RunAction \/ NextPage \/ ActionFails \/ OutputChanges \/ ForgetGuide
        BY <2>2, CallsKeep
    <2>3. CASE UNCHANGED sklVars
      <3>1. StackNamed' /\ BodySound' /\ NothingSkipped'
          BY <2>3, BodyStays DEF sklVars
      <3> QED
          BY <2>3, <3>1 DEF sklVars, SklInv, SklTypeOK, PagesSound
    <2> QED
        BY <2>1, <2>2, <2>3 DEF SklNext
  <1>2. SklInv => TextWhole
    <2> SUFFICES ASSUME SklInv PROVE TextWhole
        OBVIOUS
    <2>1. ASSUME Resolved, ~partial PROVE Named \ {SkillMd} \subseteq ToSet(included)
      <3>1. processed \in SUBSET SkillFiles /\ SkillMd \in processed
          BY DEF SklInv, SklTypeOK, BodySound
      <3>2. \A f \in processed : ToSet(links[f]) \ Opaque \subseteq processed
          BY <2>1 DEF SklInv, NothingSkipped, Coming, Resolved
      <3>3. Named \subseteq processed
          BY <3>1, <3>2 DEF Named, Closed
      <3> QED
          BY <2>1, <3>3 DEF SklInv, BodySound
    <2>2. IncludedOnce
        BY <2>1 DEF SklInv, BodySound, IncludedOnce
    <2>3. PagesJoin
        BY DEF SklInv, PagesSound, PagesJoin
    <2> QED
        BY <2>2, <2>3 DEF TextWhole
  <1> QED
      BY SklInitially, <1>1, <1>2, PTL DEF SklSpec

------------------------------------------------------------------------------
(* The transcripts of a chat (Sessions).                                   *)

Node(entries, id) == CHOOSE e \in entries : e.id = id
Ids(entries) == {e.id : e \in entries}
\* What the recursion of Chain makes of what is found for smaller numbers.
Follow(f, entries, id) ==
    IF id \notin Ids(entries) THEN <<>>
    ELSE (IF Node(entries, id).parent < id THEN f[Node(entries, id).parent] ELSE <<>>) \o Spoken(Node(entries, id))

\* The recursion of Chain has a solution when parents are numbers, and so computes it.
LEMMA ChainFollows ==
    ASSUME NEW entries, stamp \in Nat, \A id \in Ids(entries) : Node(entries, id).parent \in Nat
    PROVE  \A id \in 0 .. stamp : Chain(entries)[id] = Follow(Chain(entries), entries, id)
  <1> DEFINE Solves(f, top) == f = [id \in 0 .. top |-> Follow(f, entries, id)]
             Solved == {top \in 0 .. stamp : \E f : Solves(f, top)}
  <1>1. ASSUME NEW f, NEW g, NEW id \in Nat, \A k \in 0 .. id - 1 : g[k] = f[k]
        PROVE  Follow(g, entries, id) = Follow(f, entries, id)
    <2>1. ASSUME id \in Ids(entries), Node(entries, id).parent < id
          PROVE  g[Node(entries, id).parent] = f[Node(entries, id).parent]
      <3>1. Node(entries, id).parent \in 0 .. id - 1
        BY <2>1
      <3> QED
        BY <1>1, <3>1
    <2> QED
      BY <2>1, Zenon DEF Follow
  <1>2. 0 \in Solved
    <2> DEFINE f == [id \in 0 .. 0 |-> Follow(<<>>, entries, 0)]
    <2>1. Follow(f, entries, 0) = Follow(<<>>, entries, 0)
      BY <1>1
    <2>2. f = [id \in 0 .. 0 |-> Follow(f, entries, id)]
      <3> DEFINE x == Follow(<<>>, entries, 0)
      <3> HIDE DEF x
      <3>1. \A id \in 0 .. 0 : Follow(f, entries, id) = x
        BY <2>1 DEF x
      <3> QED
        BY <3>1 DEF x
    <2>3. Solves(f, 0)
      BY <2>2
    <2> HIDE DEF Solves, f
    <2> QED
      BY <2>3
  <1>3. ASSUME NEW top \in 0 .. stamp, top \in Solved, top < stamp
        PROVE  top + 1 \in Solved
    <2>1. PICK f : Solves(f, top)
      BY <1>3
    <2> DEFINE g == [id \in 0 .. top + 1 |-> IF id = top + 1 THEN Follow(f, entries, top + 1) ELSE f[id]]
    <2>2. \A k \in 0 .. top : g[k] = f[k]
      BY <1>3
    <2>3. ASSUME NEW id \in 0 .. top + 1
          PROVE  g[id] = Follow(g, entries, id)
      <3>1. \A k \in 0 .. id - 1 : g[k] = f[k]
        BY <2>2
      <3>2. Follow(g, entries, id) = Follow(f, entries, id)
        <4> HIDE DEF g
        <4>1. id \in Nat
          BY <1>3
        <4> QED
          BY <1>1, <3>1, <4>1
      <3>3. CASE id = top + 1
        BY <3>2, <3>3
      <3>4. CASE id # top + 1
        <4>1. id \in 0 .. top
          BY <1>3, <3>4
        <4>2. f[id] = Follow(f, entries, id)
          BY <2>1, <4>1
        <4> QED
          BY <2>2, <3>2, <4>1, <4>2
      <3> QED
        BY <3>3, <3>4
    <2>4. Solves(g, top + 1)
      <3>1. g = [id \in 0 .. top + 1 |-> g[id]]
        OBVIOUS
      <3> HIDE DEF g
      <3> QED
        BY <2>3, <3>1
    <2>5. top + 1 \in 0 .. stamp
      BY <1>3
    <2> HIDE DEF Solves, g
    <2> QED
      BY <2>4, <2>5
  <1>4. stamp \in Solved
    <2> HIDE DEF Solved
    <2>1. \A n \in 0 .. stamp : n \in Solved /\ n < stamp => n + 1 \in Solved
      BY <1>3
    <2>2. 0 .. stamp \subseteq Solved
      BY <1>2, <2>1, AllNumbers
    <2> QED
      BY <2>2
  <1>5. PICK f : Solves(f, stamp)
    BY <1>4
  <1> DEFINE Solution(g) == Solves(g, stamp)
  <1>6. Chain(entries) = CHOOSE g : Solution(g)
    BY DEF Chain, Follow, Node, Ids
  <1>7. Solution(Chain(entries))
    <2>1. Solution(f)
      BY <1>5
    <2> HIDE DEF Solution
    <2> QED
      BY <2>1, <1>6, Zenon
  <1> QED
    BY <1>7

------------------------------------------------------------------------------
\* What is at the end of a sequence, is appended to, or is at the end of such an end.
LEMMA SuffixFacts ==
    ASSUME NEW s \in Seq(Nat)
    PROVE  /\ s \in Suffixes(s)
           /\ \A p \in Suffixes(s) : p \in Seq(Nat)
           /\ \A p \in Suffixes(s), x \in Nat : Append(p, x) \in Suffixes(Append(s, x))
           /\ \A p \in Suffixes(s) : Suffixes(p) \subseteq Suffixes(s)
  <1>0. Len(s) \in Nat
    OBVIOUS
  <1>1. s \in Suffixes(s)
    <2>1. CASE s = <<>>
      BY <2>1 DEF Suffixes
    <2>2. CASE s # <<>>
      <3>1. 1 \in 1 .. Len(s) /\ SubSeq(s, 1, Len(s)) = s
        BY <2>2
      <3> QED
        BY <3>1 DEF Suffixes
    <2> QED
      BY <2>1, <2>2
  <1>2. ASSUME NEW p \in Suffixes(s)
        PROVE  p = <<>> \/ \E l \in 1 .. Len(s) : p = SubSeq(s, l, Len(s))
    BY <1>2 DEF Suffixes
  <1>3. ASSUME NEW p \in Suffixes(s) PROVE p \in Seq(Nat)
    <2>1. \A l \in 1 .. Len(s) : SubSeq(s, l, Len(s)) \in Seq(Nat)
      BY <1>0
    <2>2. p = <<>> \/ \E l \in 1 .. Len(s) : p = SubSeq(s, l, Len(s))
      BY <1>2
    <2>3. <<>> \in Seq(Nat)
      OBVIOUS
    <2> QED
      BY <2>1, <2>2, <2>3
  <1>4. ASSUME NEW p \in Suffixes(s), NEW x \in Nat PROVE Append(p, x) \in Suffixes(Append(s, x))
    <2> DEFINE t == Append(s, x)
    <2>1. /\ Append(<<>>, x) = SubSeq(t, Len(s) + 1, Len(s) + 1)
          /\ \A l \in 1 .. Len(s) : Append(SubSeq(s, l, Len(s)), x) = SubSeq(t, l, Len(s) + 1)
      BY EndGrows
    <2>2. Len(t) = Len(s) + 1
      OBVIOUS
    <2> HIDE DEF t
    <2>3. \E l \in 1 .. Len(t) : Append(p, x) = SubSeq(t, l, Len(t))
      <3>1. CASE p = <<>>
        BY <1>0, <2>1, <2>2, <3>1
      <3>2. ASSUME NEW l \in 1 .. Len(s), p = SubSeq(s, l, Len(s))
            PROVE  \E k \in 1 .. Len(t) : Append(p, x) = SubSeq(t, k, Len(t))
        <4>1. l \in 1 .. Len(t)
          BY <1>0, <2>2
        <4>2. Append(SubSeq(s, l, Len(s)), x) = SubSeq(t, l, Len(s) + 1)
          BY <2>1, Zenon
        <4> QED
          BY <2>2, <3>2, <4>1, <4>2, Zenon
      <3> QED
        BY <1>2, <3>1, <3>2
    <2>4. Append(p, x) \in Suffixes(t)
      BY <2>3 DEF Suffixes
    <2> QED
      BY <2>4 DEF t
  <1>5. ASSUME NEW p \in Suffixes(s), NEW q \in Suffixes(p) PROVE q \in Suffixes(s)
    <2>1. CASE q = <<>>
      BY <2>1 DEF Suffixes
    <2>2. ASSUME NEW k \in 1 .. Len(p), q = SubSeq(p, k, Len(p)) PROVE q \in Suffixes(s)
      <3>1. p # <<>>
        BY <2>2
      <3>2. PICK l \in 1 .. Len(s) : p = SubSeq(s, l, Len(s))
        BY <1>2, <3>1
      <3>3. Len(p) = Len(s) - l + 1 /\ \A i \in 1 .. Len(p) : p[i] = s[i + l - 1]
        BY <1>0, <3>2
      <3>4. k + l - 1 \in 1 .. Len(s)
        BY <1>0, <3>3
      <3>5. q = SubSeq(s, k + l - 1, Len(s))
        <4>1. q = SubSeq(p, k, Len(p)) /\ p = SubSeq(s, l, Len(s)) /\ l \in 1 .. Len(s)
          BY <2>2, <3>2
        <4> QED
          BY <1>0, <3>3, <3>4, <4>1
      <3> QED
        BY <3>4, <3>5 DEF Suffixes
    <2> QED
      BY <1>5, <2>1, <2>2 DEF Suffixes
  <1> QED
    BY <1>1, <1>3, <1>4, <1>5

\* A file that was written by one turn after the other: the start of the session,
\* and what was said in it, each naming the one before.
Straight(q, m, top) ==
    /\ Len(q) = Len(m) + 1
    /\ q[1].kind = "start" /\ q[1].parent = NoEntry
    /\ \A i \in 2 .. Len(q) : q[i].kind = "message" /\ q[i].id = m[i - 1] /\ q[i].parent = q[i - 1].id
    /\ \A i \in 1 .. Len(q) : q[i].id \in 1 .. top
    /\ \A i, j \in 1 .. Len(q) : i < j => q[i].id < q[j].id

LEMMA StraightNode ==
    ASSUME NEW q, IsSequence(q), NEW m \in Seq(Nat), stamp \in Nat, Straight(q, m, stamp), NEW entries,
           entries = {q[i] : i \in 1 .. Len(q)}, NEW i \in 1 .. Len(q)
    PROVE  q[i].id \in Ids(entries) /\ Node(entries, q[i].id) = q[i]
  <1>0. Len(q) \in Nat
    BY DEF IsSequence
  <1>1. q[i] \in entries
    OBVIOUS
  <1>2. \A e \in entries : e.id = q[i].id => e = q[i]
    <2> SUFFICES ASSUME NEW j \in 1 .. Len(q), q[j].id = q[i].id PROVE q[j] = q[i]
      OBVIOUS
    <2>1. q[j].id \in Nat /\ q[i].id \in Nat
      BY DEF Straight
    <2>2. ~(i < j) /\ ~(j < i)
      BY <2>1 DEF Straight
    <2> QED
      BY <1>0, <2>2
  <1> QED
    BY <1>1, <1>2 DEF Node, Ids

\* What is read back of such a file is what was said.
LEMMA StraightSpoken ==
    ASSUME NEW q, IsSequence(q), NEW m \in Seq(Nat), stamp \in Nat, Straight(q, m, stamp), NEW entries,
           entries = {q[i] : i \in 1 .. Len(q)}
    PROVE  Chain(entries)[Leaf(entries)] = m
  <1>0. /\ Len(q) \in Nat \ {0} /\ Len(m) \in Nat /\ Len(q) = Len(m) + 1
        /\ \A i \in 1 .. Len(q) : q[i].id \in 1 .. stamp /\ q[i].id \in Nat /\ q[i].id \in 0 .. stamp /\ q[i].id # 0
    BY DEF IsSequence, Straight
  <1>1. \A i \in 1 .. Len(q) : q[i].id \in Ids(entries) /\ Node(entries, q[i].id) = q[i]
    BY StraightNode
  <1>2. Ids(entries) = {q[i].id : i \in 1 .. Len(q)}
    BY DEF Ids
  <1>3. q[1].parent = 0 /\ q[1].kind = "start"
        /\ \A i \in 2 .. Len(q) : q[i].kind = "message" /\ q[i].id = m[i - 1] /\ q[i].parent = q[i - 1].id
    BY DEF Straight, NoEntry
  <1>4. \A i \in 1 .. Len(q) : q[i].parent \in Nat
    <2> TAKE i \in 1 .. Len(q)
    <2>1. CASE i = 1
      BY <1>3, <2>1
    <2>2. CASE i # 1
      <3>1. i \in 2 .. Len(q) /\ i - 1 \in 1 .. Len(q)
        BY <1>0, <2>2
      <3> QED
        BY <1>0, <1>3, <3>1
    <2> QED
      BY <2>1, <2>2
  <1>5. \A id \in 0 .. stamp : Chain(entries)[id] = Follow(Chain(entries), entries, id)
    <2>1. \A id \in Ids(entries) : Node(entries, id).parent \in Nat
      BY <1>1, <1>2, <1>4
    <2> QED
      BY <2>1, ChainFollows
  <1> DEFINE T == {n \in 0 .. Len(m) : Chain(entries)[q[n + 1].id] = SubSeq(m, 1, n)}
  <1>6. 0 \in T
    <2>1. 1 \in 1 .. Len(q)
      BY <1>0
    <2>2. Chain(entries)[0] = <<>>
      <3>1. 0 \notin Ids(entries) /\ 0 \in 0 .. stamp
        BY <1>0, <1>2
      <3> QED
        BY <1>5, <3>1, Zenon DEF Follow
    <2>3. Spoken(q[1]) = <<>>
      BY <1>3 DEF Spoken
    <2>4. Follow(Chain(entries), entries, q[1].id) = <<>> \o <<>>
      <3>1. Node(entries, q[1].id) = q[1] /\ q[1].id \in Ids(entries) /\ q[1].parent < q[1].id
        <4>1. Node(entries, q[1].id) = q[1] /\ q[1].id \in Ids(entries)
          BY <1>1, <2>1, Zenon
        <4>2. q[1].id \in Nat /\ q[1].id # 0
          BY <1>0, <2>1
        <4>3. q[1].parent < q[1].id
          BY <1>3, <4>2
        <4> QED
          BY <4>1, <4>3
      <3>2. Follow(Chain(entries), entries, q[1].id) = Chain(entries)[q[1].parent] \o Spoken(q[1])
        BY <3>1, Zenon DEF Follow
      <3> QED
        BY <1>3, <2>2, <2>3, <3>2
    <2>5. Chain(entries)[q[1].id] = <<>>
      <3>1. q[1].id \in 0 .. stamp
        BY <1>0, <2>1
      <3>2. Chain(entries)[q[1].id] = <<>> \o <<>>
        BY <1>5, <2>4, <3>1, Zenon
      <3> QED
        BY <3>2
    <2>6. SubSeq(m, 1, 0) = <<>>
      BY SubSeqEmpty
    <2>7. 0 + 1 = 1 /\ 0 \in 0 .. Len(m)
      BY <1>0
    <2>8. Chain(entries)[q[0 + 1].id] = SubSeq(m, 1, 0)
      BY <2>5, <2>6, <2>7
    <2> QED
      BY <2>7, <2>8
  <1>7. ASSUME NEW n \in 0 .. Len(m), n \in T, n < Len(m)
        PROVE  n + 1 \in T
    <2> DEFINE i == n + 2
    <2>1. i \in 2 .. Len(q) /\ i \in 1 .. Len(q) /\ i - 1 = n + 1 /\ i - 1 \in 1 .. Len(q) /\ n + 1 \in 1 .. Len(m)
      BY <1>0, <1>7
    <2>2. q[i].kind = "message" /\ q[i].id = m[n + 1] /\ q[i].parent = q[n + 1].id
      BY <1>3, <2>1
    <2>3. q[i].parent < q[i].id
      BY <2>1, <2>2 DEF Straight
    <2>4. Node(entries, q[i].id) = q[i] /\ q[i].id \in Ids(entries)
      BY <1>1, <2>1
    <2>5. Chain(entries)[q[i].parent] = SubSeq(m, 1, n)
      BY <1>7, <2>2
    <2>6. Spoken(q[i]) = <<m[n + 1]>>
      BY <2>2 DEF Spoken
    <2> HIDE DEF i
    <2>7. Chain(entries)[q[i].id] = SubSeq(m, 1, n) \o <<m[n + 1]>>
      BY <1>0, <1>5, <2>1, <2>3, <2>4, <2>5, <2>6 DEF Follow
    <2>8. SubSeq(m, 1, n + 1 - 1) \o <<m[n + 1]>> = SubSeq(m, 1, n + 1)
      BY <2>1, PrefixGrows
    <2>9. n + 1 - 1 = n /\ n + 1 + 1 = i
      BY <1>7 DEF i
    <2>10. n + 1 \in 0 .. Len(m)
      BY <1>0, <1>7
    <2>11. Chain(entries)[q[n + 1 + 1].id] = SubSeq(m, 1, n + 1)
      BY <2>7, <2>8, <2>9
    <2> QED
      BY <2>10, <2>11
  <1>8. Chain(entries)[q[Len(q)].id] = m
    <2>1. 0 .. Len(m) \subseteq T
      <3> HIDE DEF T
      <3>1. \A n \in 0 .. Len(m) : n \in T /\ n < Len(m) => n + 1 \in T
        BY <1>7
      <3> QED
        BY <1>0, <1>6, <3>1, AllNumbers
    <2>2. Chain(entries)[q[Len(m) + 1].id] = SubSeq(m, 1, Len(m))
      <3>1. Len(m) \in 0 .. Len(m)
        BY <1>0
      <3>2. Len(m) \in T
        BY <2>1, <3>1
      <3> QED
        BY <3>2
    <2>3. SubSeq(m, 1, Len(m)) = m
      OBVIOUS
    <2> QED
      BY <1>0, <2>2, <2>3
  <1>9. Leaf(entries) = q[Len(q)].id
    <2> DEFINE ids == {e.id : e \in entries} \ {e.parent : e \in entries}
               x == q[Len(q)].id
    <2>1. \A i \in 1 .. Len(q) : q[i].id < x \/ i = Len(q)
      BY <1>0 DEF Straight
    <2>2. x \in ids
      <3>1. Len(q) \in 1 .. Len(q)
        BY <1>0
      <3>2. ASSUME NEW i \in 1 .. Len(q), q[i].parent = x PROVE FALSE
        <4>1. CASE i = 1
          BY <1>0, <1>3, <3>1, <3>2, <4>1
        <4>2. CASE i # 1
          <5>1. i \in 2 .. Len(q) /\ i - 1 \in 1 .. Len(q) /\ i - 1 # Len(q)
            BY <1>0, <4>2
          <5>2. q[i - 1].id = x /\ q[i - 1].id < x
            BY <1>3, <2>1, <3>2, <5>1
          <5> QED
            BY <1>0, <3>1, <5>2
        <4> QED
          BY <4>1, <4>2
      <3> QED
        BY <3>1, <3>2
    <2>3. ASSUME NEW y \in ids PROVE y = x
      <3>1. PICK i \in 1 .. Len(q) : y = q[i].id
        OBVIOUS
      <3>2. ASSUME i # Len(q) PROVE FALSE
        <4>1. i + 1 \in 2 .. Len(q) /\ i + 1 \in 1 .. Len(q) /\ i + 1 - 1 = i
          BY <1>0, <3>2
        <4>2. q[i + 1].parent = y /\ q[i + 1] \in entries
          BY <1>3, <3>1, <4>1
        <4> QED
          BY <4>2
      <3> QED
        BY <3>1, <3>2
    <2>4. x \in Nat
      BY <1>0
    <2>5. Leaf(entries) = CHOOSE id \in ids : \A other \in ids : other <= id
      BY DEF Leaf
    <2> HIDE DEF ids, x
    <2>6. Leaf(entries) = x
      <3>1. \A other \in ids : other <= x
        BY <2>3, <2>4
      <3>2. \A y : (y \in ids /\ \A other \in ids : other <= y) => y = x
        BY <2>3, Zenon
      <3> QED
        BY <2>2, <2>5, <3>1, <3>2, Zenon
    <2> QED
      BY <2>6 DEF x
  <1> QED
    BY <1>8, <1>9
\* The parts of the invariant that only say what things are.
SesTypes ==
    /\ stamp \in Nat
    /\ files = [s \in Sids |-> files[s]] /\ \A s \in Sids : IsSequence(files[s])
    /\ said \in [Sids -> Seq(Nat)]
    /\ session \in Sids
    /\ writing = Line(writing.kind, writing.id, writing.parent, writing.of)
    /\ writing.kind \in {"none", "message", "written", "late"}
    /\ writing.kind = "none" => writing = Quiet
    /\ writing # Quiet => writing.id \in 1 .. stamp /\ writing.of \in Sids

\* A line that is appended ends the file of the session; the others stay as they are.
LEMMA AppendedLine ==
    ASSUME SesTypes, NEW entry
    PROVE  /\ Appended(entry) = [s \in Sids |-> Appended(entry)[s]]
           /\ \A s \in Sids : IsSequence(Appended(entry)[s])
           /\ \A s \in Sids \ {session} : Appended(entry)[s] = files[s]
           /\ Appended(entry)[session] # <<>>
           /\ files[session] = <<>> \/ files[session][Len(files[session])].kind # "torn"
              => Appended(entry)[session] = Append(files[session], entry)
  <1> DEFINE q == files[session]
             cut == Append(Front(q), Garbage)
             more == Append(q, entry)
             put == IF q # <<>> /\ Last(q) = Torn THEN cut ELSE more
  <1>1. session \in Sids /\ IsSequence(q) /\ files = [s \in Sids |-> files[s]]
    BY DEF SesTypes
  <1>2. Appended(entry) = [files EXCEPT ![session] = put]
    BY DEF Appended
  <1>3. q \in Seq(Range(q))
    BY <1>1 DEF IsSequence
  <1>4. IsSequence(more) /\ more # <<>>
    <2>1. more # <<>>
      <3> DEFINE S == Range(q) \union {entry}
      <3>1. q \in Seq(S) /\ entry \in S
        <4>1. Range(q) \subseteq S
          OBVIOUS
        <4>2. entry \in S
          OBVIOUS
        <4> HIDE DEF S
        <4> QED
          BY <1>3, <4>1, <4>2
      <3> HIDE DEF S
      <3> QED
        BY <3>1
    <2> QED
      BY <1>1, <2>1, AppendedTo
  <1>5. q # <<>> => IsSequence(cut) /\ cut # <<>>
    <2> SUFFICES ASSUME q # <<>> PROVE IsSequence(cut) /\ cut # <<>>
      OBVIOUS
    <2> DEFINE S == Range(q) \union {Garbage}
    <2>1. q \in Seq(S) /\ Garbage \in S
      <3>1. Range(q) \subseteq S
        OBVIOUS
      <3>2. Garbage \in S
        OBVIOUS
      <3> HIDE DEF S
      <3> QED
        BY <1>3, <3>1, <3>2
    <2> HIDE DEF S
    <2>2. Front(q) \in Seq(S)
      BY <2>1 DEF Front
    <2>3. cut \in Seq(S) /\ cut # <<>>
      BY <2>1, <2>2
    <2> QED
      BY <2>3, SequenceOf
  <1>6. IsSequence(put) /\ put # <<>>
    BY <1>4, <1>5
  <1>7. q = <<>> \/ q[Len(q)].kind # "torn" => put = more
    BY DEF Last, Torn, Line
  <1> HIDE DEF put, more, cut
  <1>8. /\ Appended(entry)[session] = put
        /\ \A s \in Sids \ {session} : Appended(entry)[s] = files[s]
        /\ Appended(entry) = [s \in Sids |-> Appended(entry)[s]]
    BY <1>1, <1>2
  <1>9. \A s \in Sids : IsSequence(Appended(entry)[s])
    BY <1>6, <1>8 DEF SesTypes
  <1> QED
    BY <1>6, <1>7, <1>8, <1>9 DEF more
    
\* All of a file written by one turn after the other can be read, its last line last.
LEMMA StraightReadable ==
    ASSUME NEW q, IsSequence(q), NEW m \in Seq(Nat), NEW top, Straight(q, m, top)
    PROVE  /\ {i \in DOMAIN q : q[i].kind \notin {"bad", "torn"}} = 1 .. Len(q)
           /\ Max(1 .. Len(q)) = Len(q)
           /\ Len(q) \in Nat \ {0} /\ q # <<>>
           /\ q[Len(q)].kind # "torn"
  <1>1. Len(m) \in Nat /\ Len(q) = Len(m) + 1
    BY DEF Straight
  <1>2. Len(q) \in Nat \ {0} /\ DOMAIN q = 1 .. Len(q) /\ q # <<>>
    <2>1. q \in Seq(Range(q))
      BY DEF IsSequence
    <2>2. Len(q) # 0
      BY <1>1
    <2> QED
      BY <2>1, <2>2
  <1>3. \A i \in 1 .. Len(q) : q[i].kind \notin {"bad", "torn"}
    <2> TAKE i \in 1 .. Len(q)
    <2>1. CASE i = 1
      BY <2>1 DEF Straight
    <2>2. CASE i # 1
      <3>1. i \in 2 .. Len(q)
        BY <1>2, <2>2
      <3> QED
        BY <3>1 DEF Straight
    <2> QED
      BY <2>1, <2>2
  <1>4. {i \in DOMAIN q : q[i].kind \notin {"bad", "torn"}} = 1 .. Len(q)
    BY <1>2, <1>3
  <1>5. Max(1 .. Len(q)) = Len(q)
    <2>1. Len(q) \in 1 .. Len(q) /\ \A y \in 1 .. Len(q) : Len(q) >= y
      BY <1>2
    <2>2. ASSUME NEW x \in 1 .. Len(q), \A y \in 1 .. Len(q) : x >= y PROVE x = Len(q)
      <3>1. x >= Len(q)
        BY <2>1, <2>2, Zenon
      <3>2. Len(q) \in Nat
        BY <1>2
      <3> QED
        BY <3>1, <3>2
    <2> QED
      BY <2>1, <2>2, Zenon DEF Max
  <1> QED
    BY <1>2, <1>3, <1>4, <1>5

LEMMA StraightRead ==
    ASSUME SesTypes, NEW s \in Sids, NEW m \in Seq(Nat), Straight(files[s], m, stamp)
    PROVE  /\ EntriesOf(s) = {files[s][i] : i \in 1 .. Len(files[s])}
           /\ Readable(s) = 1 .. Len(files[s])
           /\ Newest(s) = files[s][Len(files[s])]
           /\ Len(files[s]) \in Nat \ {0} /\ files[s] # <<>>
           /\ files[s][Len(files[s])].kind # "torn"
  <1>1. IsSequence(files[s])
    BY DEF SesTypes
  <1> QED
    BY <1>1, StraightReadable DEF Readable, EntriesOf, Newest

LEMMA StraightMessages ==
    ASSUME SesTypes, NEW s \in Sids, Straight(files[s], said[s], stamp)
    PROVE  Messages(s) = said[s]
  <1>1. IsSequence(files[s]) /\ said[s] \in Seq(Nat) /\ stamp \in Nat
    BY DEF SesTypes
  <1>2. /\ EntriesOf(s) = {files[s][i] : i \in 1 .. Len(files[s])}
        /\ Readable(s) = 1 .. Len(files[s]) /\ Len(files[s]) \in Nat \ {0}
    BY <1>1, StraightRead
  <1>3. Chain(EntriesOf(s))[Leaf(EntriesOf(s))] = said[s]
    BY <1>1, <1>2, StraightSpoken
  <1>4. Readable(s) # {}
    BY <1>2
  <1> QED
    BY <1>3, <1>4 DEF Messages

\* A message more at the end of such a file keeps it one.
LEMMA StraightLonger ==
    ASSUME NEW q, IsSequence(q), NEW m \in Seq(Nat), NEW top \in Nat, Straight(q, m, top), NEW e,
           e.kind = "message", e.id \in 1 .. top, e.parent = q[Len(q)].id, \A i \in 1 .. Len(q) : q[i].id < e.id
    PROVE  Straight(Append(q, e), Append(m, e.id), top)
  <1> DEFINE S == Range(q) \union {e}
             r == Append(q, e)
             o == Append(m, e.id)
  <1>1. q \in Seq(S) /\ e \in S
    <2>1. Range(q) \subseteq S /\ e \in S
      OBVIOUS
    <2> HIDE DEF S
    <2> QED
      BY <2>1 DEF IsSequence
  <1> HIDE DEF S
  <1>2. e.id \in Nat /\ Len(q) \in Nat \ {0} /\ Len(m) \in Nat /\ Len(q) = Len(m) + 1
    <2>1. Len(q) = Len(m) + 1
      BY DEF Straight
    <2> QED
      BY <1>1, <2>1
  <1>3. /\ Len(r) = Len(q) + 1 /\ r[Len(q) + 1] = e /\ \A i \in 1 .. Len(q) : r[i] = q[i]
        /\ Len(o) = Len(m) + 1 /\ o[Len(m) + 1] = e.id /\ \A i \in 1 .. Len(m) : o[i] = m[i]
    BY <1>1, <1>2
  <1> HIDE DEF r, o
  <1>4. r[1].kind = "start" /\ r[1].parent = NoEntry
    <2>1. r[1] = q[1]
      BY <1>2, <1>3
    <2> QED
      BY <2>1 DEF Straight
  <1>5. ASSUME NEW i \in 2 .. Len(r)
        PROVE  r[i].kind = "message" /\ r[i].id = o[i - 1] /\ r[i].parent = r[i - 1].id
    <2>1. CASE i = Len(q) + 1
      <3>1. r[i] = e /\ i - 1 = Len(q) /\ i - 1 = Len(m) + 1 /\ r[i - 1] = q[Len(q)]
        BY <1>2, <1>3, <2>1
      <3> QED
        BY <1>3, <3>1
    <2>2. CASE i # Len(q) + 1
      <3>1. i \in 2 .. Len(q) /\ i \in 1 .. Len(q) /\ i - 1 \in 1 .. Len(q) /\ i - 1 \in 1 .. Len(m)
        BY <1>2, <1>3, <2>2
      <3>2. r[i] = q[i] /\ r[i - 1] = q[i - 1] /\ o[i - 1] = m[i - 1]
        BY <1>3, <3>1
      <3> QED
        BY <3>1, <3>2 DEF Straight
    <2> QED
      BY <2>1, <2>2
  <1>6. ASSUME NEW i \in 1 .. Len(r) PROVE r[i].id \in 1 .. top /\ (i = Len(q) + 1 \/ i \in 1 .. Len(q))
    <2>1. i = Len(q) + 1 \/ i \in 1 .. Len(q)
      BY <1>2, <1>3
    <2> QED
      BY <1>3, <2>1 DEF Straight
  <1>7. ASSUME NEW i \in 1 .. Len(r), NEW j \in 1 .. Len(r), i < j PROVE r[i].id < r[j].id
    <2>1. i \in 1 .. Len(q)
      BY <1>2, <1>3, <1>7
    <2>2. CASE j = Len(q) + 1
      BY <1>3, <2>1, <2>2
    <2>3. CASE j # Len(q) + 1
      <3>1. j \in 1 .. Len(q)
        BY <1>6, <2>3
      <3> QED
        BY <1>3, <1>7, <2>1, <3>1 DEF Straight
    <2> QED
      BY <2>2, <2>3
  <1>8. Len(r) = Len(o) + 1
    BY <1>2, <1>3
  <1> QED
    BY <1>4, <1>5, <1>6, <1>7, <1>8 DEF Straight, r, o

LEMMA StraightLater ==
    ASSUME NEW q, NEW m, NEW low \in Nat, NEW top \in Nat, low <= top, Straight(q, m, low)
    PROVE  Straight(q, m, top)
  <1>1. \A i \in 1 .. Len(q) : q[i].id \in 1 .. top
    BY DEF Straight
  <1> QED
    BY <1>1 DEF Straight

------------------------------------------------------------------------------
Clean(s) == s \in 1 .. MaxSessions /\ s \notin muddled \union torn

\* Sessions are numbered as they are started, and the current one is the last or the next.
SessionsInPlace ==
    /\ \E n \in 0 .. MaxSessions : Started = 1 .. n /\ session <= n + 1
    /\ starting \in {"down", "listing"} => session = NoSession
    /\ starting \in {"switching", "opening", "opened", "up"} => session # NoSession

\* The file of a clean session holds what was said in it, one after the other.
FilesStraight ==
    \A s \in 1 .. MaxSessions : Clean(s) =>
        IF files[s] = <<>> THEN said[s] = <<>> ELSE Straight(files[s], said[s], stamp)

\* A message of a clean session is recorded at the end of the current file, which is set up.
WritingOwn ==
    writing # Quiet /\ Clean(writing.of) =>
        /\ session = writing.of /\ starting = "up" /\ writing.kind # "late"
        /\ writing.kind = "message" =>
              /\ \A i \in 1 .. Len(files[session]) : files[session][i].id < writing.id
              /\ writing.parent = Newest(session).id

\* Of these messages the memory has all, or after some were dropped the last ones.
Held(messages) == recalled \in Suffixes(messages) /\ ("dropped" \in unrecorded \/ recalled = messages)

\* What the loop remembers of a clean session, and which entry is to be the next one's
\* parent, at each stage of its set-up.
RecalledSound ==
    Clean(session) =>
        /\ starting = "opening" => files[session] = <<>> /\ writing = Quiet /\ recalled = <<>>
        /\ starting = "opened" => files[session] # <<>> /\ said[session] = <<>> /\ writing = Quiet /\ recalled = <<>>
        /\ starting = "switching" => files[session] # <<>> /\ Held(said[session])
        /\ starting = "up" =>
             /\ files[session] # <<>>
             /\ Held(IF writing.kind = "message" /\ writing.of = session
                     THEN Append(said[session], writing.id) ELSE said[session])
             /\ Newest(session).id = IF writing.kind = "written" /\ writing.of = session THEN writing.id ELSE last

SesInv == SesTypes /\ SessionsInPlace /\ FilesStraight /\ WritingOwn /\ RecalledSound

\* At the beginning nothing is said, and nothing written.
LEMMA SesInitially == SesInit => SesInv
  <1> SUFFICES ASSUME SesInit PROVE SesInv
    OBVIOUS
  <1>0. MaxSessions \in Nat
    BY SessionsAssumption
  <1>1. \A s \in Sids : files[s] = <<>> /\ said[s] = <<>>
    BY DEF SesInit
  <1>2. SesTypes
    <2>1. \A s \in Sids : IsSequence(files[s])
      BY <1>1, EmptyIsSequence
    <2>2. <<>> \in Seq(Nat)
      OBVIOUS
    <2>3. said \in [Sids -> Seq(Nat)]
      BY <2>2 DEF SesInit
    <2>4. NoSession \in Sids
      BY <1>0 DEF Sids, NoSession
    <2>5. files = [s \in Sids |-> files[s]]
      BY <1>1 DEF SesInit
    <2> QED
      BY <2>1, <2>3, <2>4, <2>5 DEF SesInit, SesTypes, Quiet, Line
  <1>3. SessionsInPlace
    <2>1. Started = {}
      BY <1>0, <1>1 DEF Started, Sids, NoSession
    <2>2. 1 .. 0 = {} /\ 0 \in 0 .. MaxSessions /\ session <= 0 + 1
      BY <1>0 DEF SesInit, NoSession
    <2>3. \E n \in 0 .. MaxSessions : Started = 1 .. n /\ session <= n + 1
      BY <2>1, <2>2
    <2> QED
      BY <2>3 DEF SesInit, SessionsInPlace
  <1>4. FilesStraight
    <2>1. \A s \in 1 .. MaxSessions : s \in Sids
      BY <1>0 DEF Sids, NoSession
    <2> QED
      BY <1>1, <2>1 DEF FilesStraight
  <1>5. WritingOwn /\ RecalledSound
    BY DEF SesInit, WritingOwn, RecalledSound
  <1> QED
    BY <1>2, <1>3, <1>4, <1>5 DEF SesInv

\* Files that no step touches stay straight, and the sessions started the same.
LEMMA FilesStay ==
    ASSUME SesInv, files' = files, said' = said, stamp' \in Nat, stamp <= stamp',
           muddled \subseteq muddled', torn \subseteq torn'
    PROVE  /\ FilesStraight'
           /\ Started' = Started
           /\ \A s : Clean(s)' => Clean(s)
           /\ \A s : Newest(s)' = Newest(s)
  <1>1. \A s : Clean(s)' => Clean(s)
    BY DEF Clean
  <1>2. ASSUME NEW s \in 1 .. MaxSessions, Clean(s)'
        PROVE  IF files'[s] = <<>> THEN said'[s] = <<>> ELSE Straight(files'[s], said'[s], stamp')
    <2>1. IF files[s] = <<>> THEN said[s] = <<>> ELSE Straight(files[s], said[s], stamp)
      BY <1>1, <1>2 DEF SesInv, FilesStraight
    <2>2. stamp \in Nat
      BY DEF SesInv, SesTypes
    <2> QED
      BY <2>1, <2>2, StraightLater
  <1> QED
    BY <1>1, <1>2 DEF FilesStraight, Started, Newest, Readable

LEMMA StartKeeps == ASSUME SesInv, Start PROVE SesInv'
  <1> USE DEF Start, memory
  <1>1. SesTypes'
    BY DEF SesInv, SesTypes
  <1>2. FilesStraight' /\ Started' = Started /\ (\A s : Clean(s)' => Clean(s)) /\ \A s : Newest(s)' = Newest(s)
    BY <1>1, FilesStay DEF SesTypes
  <1>3. SessionsInPlace'
    BY <1>2 DEF SesInv, SessionsInPlace
  <1>4. WritingOwn' /\ RecalledSound'
    BY <1>2 DEF SesInv, WritingOwn, RecalledSound, Held
  <1> QED
    BY <1>1, <1>2, <1>3, <1>4 DEF SesInv

\* A session that is opened is the next one, and its file is still empty.
LEMMA OpenFresh ==
    ASSUME SesInv, Open
    PROVE  /\ session' \in 1 .. MaxSessions /\ session' \in Sids /\ files[session'] = <<>>
           /\ \E n \in 0 .. MaxSessions : Started = 1 .. n /\ session' <= n + 1
  <1>0. MaxSessions \in Nat
    BY SessionsAssumption
  <1>1. PICK n \in 0 .. MaxSessions : Started = 1 .. n /\ session <= n + 1
    BY DEF SesInv, SessionsInPlace
  <1>2. Cardinality(Started) = n
    <2>1. Cardinality(1 .. n) = IF 1 > n THEN 0 ELSE n - 1 + 1
      BY FS_Interval
    <2> QED
      BY <1>0, <1>1, <2>1
  <1>3. session' = n + 1 /\ n < MaxSessions
    BY <1>2 DEF Open
  <1>4. session' \in 1 .. MaxSessions /\ session' \notin Started /\ session' \in Sids
    BY <1>0, <1>1, <1>3 DEF Sids, NoSession
  <1>5. files[session'] = <<>>
    BY <1>4 DEF Started
  <1> QED
    BY <1>1, <1>3, <1>4, <1>5

\* A session is opened by the start of the program and by /clear.
LEMMA OpenKeeps ==
    ASSUME SesInv, Open, starting \in {"listing", "up"}, starting = "up" => recalled' = <<>>,
           starting = "listing" => recalled' = recalled,
           UNCHANGED <<files, writing, stamp, said, torn, starts>>
    PROVE  SesInv'
  <1>1. /\ session' \in 1 .. MaxSessions /\ session' \in Sids /\ files[session'] = <<>>
        /\ \E n \in 0 .. MaxSessions : Started = 1 .. n /\ session' <= n + 1
    BY OpenFresh
  <1>2. starting' = "opening" /\ muddled \subseteq muddled' /\ 0 \notin 1 .. MaxSessions
    BY DEF Open
  <1>3. writing # Quiet => session \in muddled' /\ session' \in muddled'
    BY DEF Open
  <1>4. session = NoSession /\ recalled # <<>> => session' \in muddled'
    BY DEF Open
  <1>5. SesTypes'
    BY <1>1 DEF SesInv, SesTypes
  <1>6. FilesStraight' /\ Started' = Started /\ (\A s : Clean(s)' => Clean(s)) /\ \A s : Newest(s)' = Newest(s)
    BY <1>2, <1>5, FilesStay DEF SesTypes
  <1>7. SessionsInPlace'
    BY <1>1, <1>2, <1>6 DEF SessionsInPlace, NoSession
  <1>8. WritingOwn'
    <2> SUFFICES ASSUME writing # Quiet, Clean(writing.of)' PROVE FALSE
      BY DEF WritingOwn
    <2>1. session = writing.of
      BY <1>6 DEF SesInv, WritingOwn
    <2> QED
      BY <1>3, <2>1 DEF Clean
  <1>9. RecalledSound'
    <2> SUFFICES ASSUME Clean(session)' PROVE writing = Quiet /\ recalled' = <<>>
      BY <1>1, <1>2 DEF RecalledSound
    <2>1. session' \notin muddled'
      BY DEF Clean
    <2>2. starting = "listing" => session = NoSession
      BY DEF SesInv, SessionsInPlace
    <2> QED
      BY <1>3, <1>4, <2>1, <2>2
  <1> QED
    BY <1>5, <1>6, <1>7, <1>8, <1>9 DEF SesInv

LEMMA ListKeeps == ASSUME SesInv, List PROVE SesInv'
  <1>1. CASE Open
    BY <1>1, OpenKeeps DEF List, memory
  <1>2. CASE starting' = "loading" /\ UNCHANGED <<session, last, muddled>>
    <2> USE <1>2 DEF List, memory
    <2>1. SesTypes'
      BY DEF SesInv, SesTypes
    <2>2. FilesStraight' /\ Started' = Started /\ (\A s : Clean(s)' => Clean(s)) /\ \A s : Newest(s)' = Newest(s)
      BY <2>1, FilesStay DEF SesTypes
    <2>3. SessionsInPlace'
      BY <2>2 DEF SesInv, SessionsInPlace
    <2>4. WritingOwn' /\ RecalledSound'
      BY <2>2 DEF SesInv, WritingOwn, RecalledSound, Held
    <2> QED
      BY <2>1, <2>2, <2>3, <2>4 DEF SesInv
  <1> QED
    BY <1>1, <1>2 DEF List

LEMMA LoadKeeps == ASSUME SesInv, Load PROVE SesInv'
  <1>0. MaxSessions \in Nat
    BY SessionsAssumption
  <1>1. PICK s \in Listed :
            /\ recalled' = recalled \o Messages(s) /\ session' = s
            /\ muddled' = muddled \union IF recalled # <<>> THEN {s} ELSE {}
    BY DEF Load
  <1>2. s \in 1 .. MaxSessions /\ s \in Sids /\ files[s] # <<>> /\ s \in Started
    BY <1>0, <1>1 DEF Listed, Started, Sids, NoSession
  <1>3. SesTypes'
    BY <1>1, <1>2 DEF SesInv, SesTypes, Load
  <1>4. FilesStraight' /\ Started' = Started /\ (\A x : Clean(x)' => Clean(x)) /\ \A x : Newest(x)' = Newest(x)
    BY <1>1, <1>3, FilesStay DEF SesTypes, Load
  <1>5. SessionsInPlace'
    <2>1. PICK n \in 0 .. MaxSessions : Started = 1 .. n
      BY DEF SesInv, SessionsInPlace
    <2>2. session' <= n + 1 /\ session' # 0
      BY <1>1, <1>2, <2>1
    <2>3. Started' = 1 .. n /\ session' <= n + 1
      BY <1>4, <2>1, <2>2
    <2>4. \E k \in 0 .. MaxSessions : Started' = 1 .. k /\ session' <= k + 1
      BY <2>3
    <2> QED
      BY <2>2, <2>4 DEF SessionsInPlace, Load, NoSession
  <1>6. WritingOwn'
    <2>1. writing = Quiet \/ ~ Clean(writing.of)
      BY DEF SesInv, WritingOwn, Load
    <2> QED
      BY <1>4, <2>1 DEF WritingOwn, Load
  <1>7. RecalledSound'
    <2> SUFFICES ASSUME Clean(s)' PROVE recalled' = said[s] /\ said[s] \in Suffixes(said[s])
      BY <1>1, <1>2 DEF RecalledSound, Load, Held
    <2>1. Clean(s) /\ recalled = <<>>
      BY <1>1, <1>4 DEF Clean
    <2>2. Straight(files[s], said[s], stamp)
      BY <1>2, <2>1 DEF SesInv, FilesStraight
    <2>3. Messages(s) = said[s] /\ said[s] \in Seq(Nat)
      BY <1>2, <2>2, StraightMessages DEF SesInv, SesTypes
    <2> QED
      BY <1>1, <2>1, <2>3, SuffixFacts
  <1> QED
    BY <1>3, <1>4, <1>5, <1>6, <1>7 DEF SesInv

LEMMA SwitchKeeps == ASSUME SesInv, Switch PROVE SesInv'
  <1> USE DEF Switch, memory
  <1>1. SesTypes'
    BY DEF SesInv, SesTypes
  <1>2. FilesStraight' /\ Started' = Started /\ (\A s : Clean(s)' => Clean(s)) /\ \A s : Newest(s)' = Newest(s)
    BY <1>1, FilesStay DEF SesTypes
  <1>3. SessionsInPlace'
    BY <1>2 DEF SesInv, SessionsInPlace
  <1>4. writing = Quiet \/ ~ Clean(writing.of)
    BY DEF SesInv, WritingOwn
  <1>5. WritingOwn'
    BY <1>2, <1>4 DEF WritingOwn
  <1>6. RecalledSound'
    <2> SUFFICES ASSUME Clean(session)' PROVE RecalledSound'
      BY DEF RecalledSound
    <2>1. Clean(session)
      BY <1>2
    <2>2. writing.kind \in {"message", "written"} => writing.of # session
      BY <1>4, <2>1 DEF Quiet, Line
    <2>3. files[session] # <<>> /\ Held(said[session])
      BY <2>1 DEF SesInv, RecalledSound
    <2>4. Held(said[session])'
      BY <2>3 DEF Held
    <2> QED
      BY <1>2, <2>2, <2>3, <2>4 DEF RecalledSound
  <1> QED
    BY <1>1, <1>2, <1>3, <1>5, <1>6 DEF SesInv

\* Lines are appended to the file of the current session only, which is one of
\* those started or the next.
LEMMA FilesAppended ==
    ASSUME SesInv, NEW entry, files' = Appended(entry), muddled \subseteq muddled', torn \subseteq torn',
           stamp' \in Nat, stamp <= stamp'
    PROVE  /\ \A s : Clean(s)' => Clean(s)
           /\ files' = [s \in Sids |-> files'[s]] /\ \A s \in Sids : IsSequence(files'[s])
           /\ files'[session] # <<>>
           /\ \A s \in Sids \ {session} : files'[s] = files[s]
           /\ \E n \in 0 .. MaxSessions : Started' = 1 .. n /\ session <= n + 1
           /\ \A s \in 1 .. MaxSessions : s # session /\ Clean(s)' /\ said'[s] = said[s] =>
                IF files'[s] = <<>> THEN said'[s] = <<>> ELSE Straight(files'[s], said'[s], stamp')
  <1>0. MaxSessions \in Nat /\ SesTypes /\ session \in Sids
    BY SessionsAssumption DEF SesInv, SesTypes
  <1>1. /\ files' = [s \in Sids |-> files'[s]] /\ \A s \in Sids : IsSequence(files'[s])
        /\ files'[session] # <<>>
        /\ \A s \in Sids \ {session} : files'[s] = files[s]
    BY <1>0, AppendedLine
  <1>2. \A s : Clean(s)' => Clean(s)
    BY DEF Clean
  <1>3. \E n \in 0 .. MaxSessions : Started' = 1 .. n /\ session <= n + 1
    <2>1. PICK n \in 0 .. MaxSessions : Started = 1 .. n /\ session <= n + 1
      BY DEF SesInv, SessionsInPlace
    <2>2. Started' = Started \union ({session} \ {NoSession})
      <3>1. \A s \in 1 .. MaxSessions : s \in Sids /\ s # NoSession
        BY <1>0 DEF Sids, NoSession
      <3>2. session \in 1 .. MaxSessions \/ session = NoSession
        BY <1>0 DEF Sids, NoSession
      <3> QED
        BY <1>1, <3>1, <3>2 DEF Started
    <2>3. CASE session \in {NoSession} \union 1 .. n
      <3>1. Started' = 1 .. n
        BY <2>1, <2>2, <2>3
      <3> QED
        BY <2>1, <3>1
    <2>4. CASE session \notin {NoSession} \union 1 .. n
      <3>1. session = n + 1 /\ n + 1 \in 0 .. MaxSessions /\ session # NoSession
        BY <1>0, <2>1, <2>4 DEF Sids, NoSession
      <3>2. 1 .. n + 1 = 1 .. n \union {n + 1}
        BY <1>0
      <3>3. Started' = 1 .. n + 1 /\ session <= n + 1 + 1
        BY <2>1, <2>2, <3>1, <3>2
      <3> QED
        BY <3>1, <3>3
    <2> QED
      BY <2>3, <2>4
  <1>4. ASSUME NEW s \in 1 .. MaxSessions, s # session, Clean(s)', said'[s] = said[s]
        PROVE  IF files'[s] = <<>> THEN said'[s] = <<>> ELSE Straight(files'[s], said'[s], stamp')
    <2>1. files'[s] = files[s]
      BY <1>0, <1>1, <1>4 DEF Sids, NoSession
    <2>2. IF files[s] = <<>> THEN said[s] = <<>> ELSE Straight(files[s], said[s], stamp)
      BY <1>2, <1>4 DEF SesInv, FilesStraight
    <2>3. stamp \in Nat
      BY <1>0 DEF SesTypes
    <2> QED
      BY <1>4, <2>1, <2>2, <2>3, StraightLater
  <1> QED
    BY <1>1, <1>2, <1>3, <1>4

LEMMA WriteStartKeeps == ASSUME SesInv, WriteStart PROVE SesInv'
  <1> DEFINE e == Line("start", stamp', NoEntry, session)
  <1> USE DEF WriteStart, memory
  <1>0. MaxSessions \in Nat /\ SesTypes /\ session \in Sids /\ stamp \in Nat /\ stamp' \in Nat /\ stamp <= stamp'
    BY SessionsAssumption DEF SesInv, SesTypes
  <1>1. /\ \A s : Clean(s)' => Clean(s)
        /\ files' = [s \in Sids |-> files'[s]] /\ \A s \in Sids : IsSequence(files'[s])
        /\ files'[session] # <<>>
        /\ \A s \in Sids \ {session} : files'[s] = files[s]
        /\ \E n \in 0 .. MaxSessions : Started' = 1 .. n /\ session <= n + 1
        /\ \A s \in 1 .. MaxSessions : s # session /\ Clean(s)' /\ said'[s] = said[s] =>
             IF files'[s] = <<>> THEN said'[s] = <<>> ELSE Straight(files'[s], said'[s], stamp')
    BY <1>0, FilesAppended
  <1>2. ASSUME Clean(session)
        PROVE  files[session] = <<>> /\ said[session] = <<>> /\ writing = Quiet /\ recalled = <<>>
    <2>1. files[session] = <<>> /\ writing = Quiet /\ recalled = <<>>
      BY <1>2 DEF SesInv, RecalledSound
    <2> QED
      BY <1>2, <2>1 DEF SesInv, FilesStraight, Clean
  <1>3. SesTypes'
    BY <1>0, <1>1 DEF SesTypes
  <1>4. SessionsInPlace'
    <2>1. session # NoSession
      BY DEF SesInv, SessionsInPlace
    <2> QED
      BY <1>1, <2>1 DEF SessionsInPlace
  <1>5. FilesStraight'
    <2>1. ASSUME Clean(session)' PROVE Straight(files'[session], said'[session], stamp')
      <3>1. files[session] = <<>> /\ said[session] = <<>>
        BY <1>1, <1>2, <2>1
      <3>2. files'[session] = <<e>>
        BY <1>0, <3>1, AppendedLine
      <3>3. Len(<<e>>) = 1 /\ Len(<<>>) = 0 /\ <<e>>[1] = e
        OBVIOUS
      <3>4. e.kind = "start" /\ e.parent = NoEntry /\ e.id \in 1 .. stamp'
        BY <1>0 DEF Line
      <3> HIDE DEF e
      <3>5. Straight(<<e>>, <<>>, stamp')
        BY <3>3, <3>4 DEF Straight
      <3> QED
        BY <3>1, <3>2, <3>5
    <2> QED
      BY <1>1, <2>1 DEF FilesStraight
  <1>6. writing = Quiet \/ ~ Clean(writing.of)
    BY DEF SesInv, WritingOwn
  <1>7. WritingOwn'
    BY <1>1, <1>6 DEF WritingOwn
  <1>8. RecalledSound'
    BY <1>1, <1>2 DEF RecalledSound
  <1> QED
    BY <1>3, <1>4, <1>5, <1>7, <1>8 DEF SesInv

LEMMA StartWrittenKeeps == ASSUME SesInv, StartWritten PROVE SesInv'
  <1> USE DEF StartWritten, memory
  <1>0. SesTypes /\ session \in Sids /\ stamp \in Nat /\ said[session] \in Seq(Nat) /\ IsSequence(files[session])
    BY DEF SesInv, SesTypes
  <1>1. SesTypes'
    BY DEF SesInv, SesTypes
  <1>2. FilesStraight' /\ Started' = Started /\ (\A s : Clean(s)' => Clean(s)) /\ \A s : Newest(s)' = Newest(s)
    BY <1>1, FilesStay DEF SesTypes
  <1>3. SessionsInPlace'
    BY <1>2 DEF SesInv, SessionsInPlace
  <1>4. writing = Quiet \/ ~ Clean(writing.of)
    BY DEF SesInv, WritingOwn
  <1>5. WritingOwn'
    BY <1>2, <1>4 DEF WritingOwn
  <1>6. RecalledSound'
    <2> SUFFICES ASSUME Clean(session)' PROVE RecalledSound'
      BY DEF RecalledSound
    <2>1. Clean(session)
      BY <1>2
    <2>2. files[session] # <<>> /\ said[session] = <<>> /\ writing = Quiet /\ recalled = <<>>
      BY <2>1 DEF SesInv, RecalledSound
    <2>3. Straight(files[session], said[session], stamp)
      BY <2>1, <2>2 DEF SesInv, FilesStraight, Clean
    <2>4. Len(files[session]) = 1
      <3>1. Len(files[session]) = Len(said[session]) + 1
        BY <2>3 DEF Straight
      <3> QED
        BY <2>2, <3>1
    <2>5. EntriesOf(session) = {files[session][1]} /\ Newest(session) = files[session][1]
      <3>1. /\ EntriesOf(session) = {files[session][i] : i \in 1 .. Len(files[session])}
            /\ Newest(session) = files[session][Len(files[session])]
        BY <1>0, <2>3, StraightRead
      <3>2. EntriesOf(session) = {files[session][i] : i \in 1 .. 1}
        BY <2>4, <3>1
      <3>3. \A i : i \in 1 .. 1 <=> i = 1
        OBVIOUS
      <3> QED
        BY <2>4, <3>1, <3>2, <3>3
    <2>6. files[session][1].kind = "start"
      BY <2>3 DEF Straight
    <2>7. (CHOOSE e \in EntriesOf(session) : e.kind = "start") = Newest(session)
      BY <2>5, <2>6
    <2>8. last' = Newest(session).id
      BY <2>7
    <2>9. Held(said[session])'
      BY <1>0, <2>2, SuffixFacts DEF Held
    <2> QED
      BY <1>2, <2>2, <2>8, <2>9 DEF RecalledSound, Quiet, Line
  <1> QED
    BY <1>1, <1>2, <1>3, <1>5, <1>6 DEF SesInv

LEMMA ClearSessionKeeps == ASSUME SesInv, ClearSession PROVE SesInv'
  BY OpenKeeps DEF ClearSession

LEMMA CmdResumeKeeps == ASSUME SesInv, CmdResume PROVE SesInv'
  <1> USE DEF CmdResume, memory
  <1>1. SesTypes'
    BY DEF SesInv, SesTypes
  <1>2. FilesStraight' /\ Started' = Started /\ (\A s : Clean(s)' => Clean(s)) /\ \A s : Newest(s)' = Newest(s)
    BY <1>1, FilesStay DEF SesTypes
  <1>3. SessionsInPlace'
    BY <1>2 DEF SesInv, SessionsInPlace
  <1>4. WritingOwn'
    <2> SUFFICES ASSUME writing # Quiet, Clean(writing.of)' PROVE FALSE
      BY DEF WritingOwn
    <2>1. session = writing.of /\ session \in muddled'
      BY <1>2 DEF SesInv, WritingOwn
    <2> QED
      BY <2>1 DEF Clean
  <1>5. RecalledSound'
    BY DEF RecalledSound
  <1> QED
    BY <1>1, <1>2, <1>3, <1>4, <1>5 DEF SesInv

LEMMA RecordKeeps == ASSUME SesInv, RecordMessage PROVE SesInv'
  <1> DEFINE m == Line("message", stamp', last, session)
  <1> USE DEF RecordMessage, memory
  <1>0. /\ SesTypes /\ session \in Sids /\ stamp \in Nat /\ stamp' = stamp + 1
        /\ stamp' \in 1 .. stamp' /\ stamp' \in Nat /\ stamp <= stamp'
    BY DEF SesInv, SesTypes
  <1>1. m.kind = "message" /\ m.id = stamp' /\ m.parent = last /\ m.of = session
    BY DEF Line
  <1>2. writing' = m /\ m = Line(m.kind, m.id, m.parent, m.of) /\ m # Quiet /\ writing = Quiet
    BY DEF Line, Quiet
  <1> HIDE DEF m
  <1>3. SesTypes'
    BY <1>0, <1>1, <1>2 DEF SesTypes
  <1>4. FilesStraight' /\ Started' = Started /\ (\A s : Clean(s)' => Clean(s)) /\ \A s : Newest(s)' = Newest(s)
    BY <1>0, FilesStay
  <1>5. SessionsInPlace'
    BY <1>4 DEF SesInv, SessionsInPlace
  <1>6. ASSUME Clean(session)'
        PROVE  /\ starting = "up" /\ files[session] # <<>> /\ Held(said[session]) /\ last = Newest(session).id
               /\ \A i \in 1 .. Len(files[session]) : files[session][i].id \in 1 .. stamp
    <2>1. Clean(session) /\ session \notin muddled'
      BY <1>4, <1>6 DEF Clean
    <2>2. starting = "up"
      BY <2>1
    <2>3. files[session] # <<>> /\ Held(said[session]) /\ last = Newest(session).id
      BY <1>2, <2>1, <2>2 DEF SesInv, RecalledSound, Quiet, Line
    <2>4. Straight(files[session], said[session], stamp)
      BY <2>1, <2>3 DEF SesInv, FilesStraight, Clean
    <2> QED
      BY <2>2, <2>3, <2>4 DEF Straight
  <1>7. WritingOwn'
    <2> SUFFICES ASSUME Clean(session)'
                 PROVE  /\ starting = "up" /\ m.parent = Newest(session)'.id
                        /\ \A i \in 1 .. Len(files[session]) : files[session][i].id < m.id
      BY <1>1, <1>2 DEF WritingOwn
    <2> QED
      BY <1>0, <1>1, <1>4, <1>6
  <1>8. RecalledSound'
    <2> SUFFICES ASSUME Clean(session)' PROVE RecalledSound'
      BY DEF RecalledSound
    <2>1. /\ recalled' \in Suffixes(Append(said[session], stamp'))
          /\ "dropped" \in unrecorded' \/ recalled' = Append(said[session], stamp')
      <3>1. recalled \in Suffixes(said[session]) /\ ("dropped" \in unrecorded \/ recalled = said[session])
        BY <1>6 DEF Held
      <3>2. Append(recalled, stamp') \in Suffixes(Append(said[session], stamp'))
        BY <1>0, <3>1, SuffixFacts DEF SesTypes
      <3> QED
        BY <3>1, <3>2 DEF Held
    <2> QED
      BY <1>1, <1>2, <1>4, <1>6, <2>1 DEF RecalledSound, Held
  <1> QED
    BY <1>3, <1>4, <1>5, <1>7, <1>8 DEF SesInv

LEMMA WriteKeeps == ASSUME SesInv, Write PROVE SesInv'
  <1> USE DEF Write, memory
  <1> DEFINE of == writing.of
             w == [writing EXCEPT !.kind = "written"]
  <1>0. /\ MaxSessions \in Nat /\ SesTypes /\ session \in Sids /\ stamp \in Nat /\ writing # Quiet
        /\ of \in Sids /\ writing.id \in 1 .. stamp /\ said[of] \in Seq(Nat) /\ said \in [Sids -> Seq(Nat)]
    BY SessionsAssumption DEF SesInv, SesTypes, Quiet, Line
  <1>1. writing' = w /\ w.kind = "written" /\ w.id = writing.id /\ w.of = of /\ w = Line(w.kind, w.id, w.parent, w.of)
        /\ w # Quiet
    <2>1. writing = Line(writing.kind, writing.id, writing.parent, writing.of)
      BY <1>0 DEF SesTypes
    <2> QED
      BY <2>1 DEF Line, Quiet
  <1> HIDE DEF w
  <1>2. /\ said' = [said EXCEPT ![of] = Append(said[of], writing.id)]
        /\ Append(said[of], writing.id) \in Seq(Nat)
        /\ \A s \in Sids : s # of => said'[s] = said[s]
        /\ said'[of] = Append(said[of], writing.id)
    BY <1>0
  <1>3. /\ \A s : Clean(s)' => Clean(s)
        /\ files' = [s \in Sids |-> files'[s]] /\ \A s \in Sids : IsSequence(files'[s])
        /\ files'[session] # <<>>
        /\ \A s \in Sids \ {session} : files'[s] = files[s]
        /\ \E n \in 0 .. MaxSessions : Started' = 1 .. n /\ session <= n + 1
        /\ \A s \in 1 .. MaxSessions : s # session /\ Clean(s)' /\ said'[s] = said[s] =>
             IF files'[s] = <<>> THEN said'[s] = <<>> ELSE Straight(files'[s], said'[s], stamp')
    BY <1>0, FilesAppended
  <1>4. SesTypes'
    <2>1. said' \in [Sids -> Seq(Nat)]
      BY <1>0, <1>2
    <2> QED
      BY <1>0, <1>1, <1>3, <2>1 DEF SesTypes
  <1>5. SessionsInPlace'
    BY <1>3 DEF SesInv, SessionsInPlace
  <1>6. session # of => ~ Clean(session)' /\ ~ Clean(of)'
    BY DEF Clean
  <1>7. ASSUME Clean(of)'
        PROVE  /\ session = of /\ starting = "up" /\ Straight(files'[session], said'[session], stamp')
               /\ Held(said'[session]) /\ Newest(session)'.id = writing.id
    <2>1. session = of /\ Clean(of) /\ session \in 1 .. MaxSessions
      BY <1>3, <1>6, <1>7 DEF Clean
    <2>2. /\ starting = "up" /\ \A i \in 1 .. Len(files[session]) : files[session][i].id < writing.id
          /\ writing.parent = Newest(session).id
      BY <1>0, <2>1 DEF SesInv, WritingOwn
    <2>3. files[session] # <<>> /\ Held(Append(said[session], writing.id))
      BY <2>1, <2>2 DEF SesInv, RecalledSound
    <2>4. Straight(files[session], said[session], stamp)
      BY <2>1, <2>3 DEF SesInv, FilesStraight
    <2>5. /\ Newest(session) = files[session][Len(files[session])]
          /\ files[session][Len(files[session])].kind # "torn"
      BY <1>0, <2>1, <2>4, StraightRead
    <2>6. files'[session] = Append(files[session], writing)
      BY <1>0, <2>5, AppendedLine
    <2>7. IsSequence(files[session])
      BY <1>0 DEF SesTypes
    <2>8. Straight(Append(files[session], writing), Append(said[session], writing.id), stamp)
      BY <1>0, <2>1, <2>2, <2>4, <2>5, <2>7, StraightLonger
    <2>9. Straight(files'[session], said'[session], stamp')
      BY <1>2, <2>1, <2>6, <2>8
    <2>10. Newest(session)' = writing
      <3>1. Newest(session)' = files'[session][Len(files'[session])]
        <4>1. IsSequence(files'[session]) /\ said'[session] \in Seq(Nat)
          BY <1>0, <1>2, <1>3, <2>1
        <4> QED
          BY <2>9, <4>1, StraightReadable DEF Newest, Readable
      <3>2. Len(files[session]) \in Nat /\ files'[session][Len(files'[session])] = writing
        <4> DEFINE S == Range(files[session]) \union {writing}
        <4>1. files[session] \in Seq(S) /\ writing \in S
          <5>1. Range(files[session]) \subseteq S /\ writing \in S
            OBVIOUS
          <5> HIDE DEF S
          <5> QED
            BY <2>7, <5>1 DEF IsSequence
        <4> HIDE DEF S
        <4> QED
          BY <2>6, <4>1
      <3> QED
        BY <3>1, <3>2
    <2> QED
      BY <1>2, <2>1, <2>2, <2>3, <2>9, <2>10
  <1>8. FilesStraight'
    <2> SUFFICES ASSUME NEW s \in 1 .. MaxSessions, Clean(s)'
                 PROVE  IF files'[s] = <<>> THEN said'[s] = <<>> ELSE Straight(files'[s], said'[s], stamp')
      BY DEF FilesStraight
    <2>1. CASE s = session
      <3>1. session = of
        BY <1>6, <2>1
      <3> QED
        BY <1>3, <1>7, <2>1, <3>1
    <2>2. CASE s # session
      <3>1. s # of /\ s \in Sids
        BY <1>0, <1>6, <2>2 DEF Sids, NoSession
      <3> QED
        BY <1>2, <1>3, <2>2, <3>1
    <2> QED
      BY <2>1, <2>2
  <1>9. WritingOwn'
    BY <1>1, <1>7 DEF WritingOwn
  <1>10. RecalledSound'
    <2> SUFFICES ASSUME Clean(session)' PROVE RecalledSound'
      BY DEF RecalledSound
    <2>1. session = of
      BY <1>6
    <2> QED
      BY <1>1, <1>3, <1>7, <2>1 DEF RecalledSound, Held
  <1> QED
    BY <1>4, <1>5, <1>8, <1>9, <1>10 DEF SesInv

LEMMA WrittenKeeps == ASSUME SesInv, Written PROVE SesInv'
  <1> USE DEF Written, memory
  <1>0. writing # Quiet /\ writing.kind # "message"
    BY DEF Quiet, Line
  <1>1. SesTypes'
    BY DEF SesInv, SesTypes, Quiet, Line
  <1>2. FilesStraight' /\ Started' = Started /\ (\A s : Clean(s)' => Clean(s)) /\ \A s : Newest(s)' = Newest(s)
    BY <1>1, FilesStay DEF SesTypes
  <1>3. SessionsInPlace'
    BY <1>2 DEF SesInv, SessionsInPlace
  <1>4. WritingOwn'
    BY DEF WritingOwn
  <1>5. RecalledSound'
    <2> SUFFICES ASSUME Clean(session)' PROVE RecalledSound'
      BY DEF RecalledSound
    <2>1. Clean(session) /\ session = writing.of
      BY <1>2 DEF Clean
    <2>2. starting = "up"
      BY <1>0, <2>1 DEF SesInv, WritingOwn
    <2>3. files[session] # <<>> /\ Held(said[session]) /\ Newest(session).id = writing.id
      BY <1>0, <2>1, <2>2 DEF SesInv, RecalledSound
    <2> QED
      BY <1>2, <2>2, <2>3 DEF RecalledSound, Held, Quiet, Line
  <1> QED
    BY <1>1, <1>2, <1>3, <1>4, <1>5 DEF SesInv

\* What a turn remembers or drops is no message of a transcript, or the oldest ones.
LEMMA MemoryKeeps ==
    ASSUME SesInv, writing = Quiet, UNCHANGED onDisk,
           \/ recalled' = recalled /\ unrecorded \subseteq unrecorded'
           \/ recalled' \in Suffixes(recalled) /\ "dropped" \in unrecorded'
    PROVE  SesInv'
  <1> USE DEF onDisk
  <1>1. SesTypes' /\ stamp \in Nat
    BY DEF SesInv, SesTypes
  <1>2. FilesStraight' /\ Started' = Started /\ (\A s : Clean(s)' => Clean(s)) /\ \A s : Newest(s)' = Newest(s)
    BY <1>1, FilesStay
  <1>3. SessionsInPlace' /\ WritingOwn'
    BY <1>2 DEF SesInv, SessionsInPlace, WritingOwn
  <1>4. RecalledSound'
    <2> SUFFICES ASSUME Clean(session)' PROVE RecalledSound'
      BY DEF RecalledSound
    <2>1. Clean(session) /\ said[session] \in Seq(Nat)
      BY <1>2 DEF SesInv, SesTypes
    <2>2. recalled = <<>> => recalled' = <<>>
      <3>1. Suffixes(<<>>) = {<<>>}
        BY DEF Suffixes
      <3> QED
        BY <3>1
    <2>3. ASSUME Held(said[session]) PROVE Held(said[session])'
      <3>1. CASE recalled' = recalled /\ unrecorded \subseteq unrecorded'
        BY <2>3, <3>1 DEF Held
      <3>2. CASE recalled' \in Suffixes(recalled) /\ "dropped" \in unrecorded'
        <4>1. recalled' \in Suffixes(said[session])
          BY <2>1, <2>3, <3>2, SuffixFacts DEF Held
        <4> QED
          BY <3>2, <4>1 DEF Held
      <3> QED
        BY <3>1, <3>2
    <2> QED
      BY <1>2, <2>1, <2>2, <2>3 DEF SesInv, RecalledSound, Quiet, Line
  <1> QED
    BY <1>1, <1>2, <1>3, <1>4 DEF SesInv

LEMMA RunningKeeps ==
    ASSUME SesInv, Remember \/ Compact \/ DropOldest \/ EndUnanswered
    PROVE  SesInv'
  <1>1. writing = Quiet /\ UNCHANGED onDisk
    BY DEF Remember, Compact, DropOldest, EndUnanswered, Running
  <1>2. CASE Remember \/ EndUnanswered
    BY <1>1, <1>2, MemoryKeeps DEF Remember, EndUnanswered
  <1>3. CASE Compact \/ DropOldest
    <2>1. recalled' \in Suffixes(recalled) /\ "dropped" \in unrecorded'
      BY <1>3 DEF Compact, DropOldest, Suffixes
    <2> QED
      BY <1>1, <2>1, MemoryKeeps
  <1> QED
    BY <1>2, <1>3

LEMMA CutTurnKeeps == ASSUME SesInv, CutTurn PROVE SesInv'
  <1> USE DEF CutTurn
  <1>1. /\ writing'.kind \in {"none", "message", "written", "late"}
        /\ writing' = Line(writing'.kind, writing'.id, writing'.parent, writing'.of)
        /\ writing' # Quiet => writing # Quiet /\ writing'.id = writing.id /\ writing'.of = writing.of
        /\ writing'.kind = "none" => writing' = Quiet
    BY DEF SesInv, SesTypes, Quiet, Line
  <1>2. SesTypes'
    BY <1>1 DEF SesInv, SesTypes
  <1>3. FilesStraight' /\ Started' = Started /\ (\A s : Clean(s)' => Clean(s)) /\ \A s : Newest(s)' = Newest(s)
    BY <1>2, FilesStay DEF SesTypes
  <1>4. SessionsInPlace'
    BY <1>3 DEF SesInv, SessionsInPlace
  <1>5. WritingOwn'
    BY <1>1 DEF WritingOwn, Clean
  <1>6. RecalledSound'
    <2> SUFFICES ASSUME Clean(session)' PROVE RecalledSound'
      BY DEF RecalledSound
    <2>1. writing = Quiet /\ writing' = Quiet /\ Clean(session)
      BY <1>3 DEF Clean, Quiet, Line
    <2> QED
      BY <1>3, <2>1 DEF SesInv, RecalledSound, Held
  <1> QED
    BY <1>2, <1>3, <1>4, <1>5, <1>6 DEF SesInv

LEMMA WriteLateKeeps == ASSUME SesInv, WriteLate PROVE SesInv'
  <1> USE DEF WriteLate, memory
  <1>0. /\ MaxSessions \in Nat /\ SesTypes /\ session \in Sids /\ stamp \in Nat /\ writing # Quiet
        /\ writing.of \in Sids /\ writing.id \in Nat /\ said \in [Sids -> Seq(Nat)]
    BY SessionsAssumption DEF SesInv, SesTypes, Quiet, Line
  <1> DEFINE e == [writing EXCEPT !.kind = "message"]
  <1>a. /\ files' = Appended(e) /\ muddled \subseteq muddled' /\ torn \subseteq torn'
        /\ stamp' \in Nat /\ stamp <= stamp'
    BY <1>0
  <1> HIDE DEF e
  <1>1. /\ said' \in [Sids -> Seq(Nat)]
        /\ \A s \in Sids : s # writing.of => said'[s] = said[s]
    <2>1. Append(said[writing.of], writing.id) \in Seq(Nat)
      BY <1>0
    <2> QED
      BY <1>0, <2>1
  <1>2. /\ \A s : Clean(s)' => Clean(s)
        /\ files' = [s \in Sids |-> files'[s]] /\ \A s \in Sids : IsSequence(files'[s])
        /\ \E n \in 0 .. MaxSessions : Started' = 1 .. n /\ session <= n + 1
        /\ \A s \in 1 .. MaxSessions : s # session /\ Clean(s)' /\ said'[s] = said[s] =>
             IF files'[s] = <<>> THEN said'[s] = <<>> ELSE Straight(files'[s], said'[s], stamp')
    BY <1>a, FilesAppended
  <1>3. SesTypes'
    BY <1>0, <1>1, <1>2 DEF SesTypes, Quiet, Line
  <1>4. SessionsInPlace'
    BY <1>2 DEF SesInv, SessionsInPlace
  <1>5. ASSUME NEW s, Clean(s)' PROVE s # writing.of /\ s # session
    <2>1. ~ Clean(writing.of)
      BY <1>0 DEF SesInv, WritingOwn
    <2>2. Clean(s) /\ s # session
      BY <1>2, <1>5 DEF Clean
    <2> QED
      BY <2>1, <2>2
  <1>6. FilesStraight'
    <2> SUFFICES ASSUME NEW s \in 1 .. MaxSessions, Clean(s)'
                 PROVE  IF files'[s] = <<>> THEN said'[s] = <<>> ELSE Straight(files'[s], said'[s], stamp')
      BY DEF FilesStraight
    <2>1. s # session /\ s # writing.of /\ s \in Sids
      BY <1>0, <1>5 DEF Sids, NoSession
    <2> QED
      BY <1>1, <1>2, <2>1
  <1>7. WritingOwn' /\ RecalledSound'
    BY <1>5 DEF WritingOwn, RecalledSound
  <1> QED
    BY <1>3, <1>4, <1>6, <1>7 DEF SesInv

LEMMA StopKeeps == ASSUME SesInv, Stop PROVE SesInv'
  <1> USE DEF Stop, memory
  <1>0. MaxSessions \in Nat /\ NoSession \in Sids /\ SesTypes /\ stamp \in Nat /\ session \in Sids
    BY SessionsAssumption DEF Sids, NoSession, SesInv, SesTypes
  <1>1. WritingOwn' /\ RecalledSound'
    <2>1. NoSession \notin 1 .. MaxSessions
      BY DEF NoSession
    <2> QED
      BY <2>1 DEF WritingOwn, RecalledSound, Clean
  <1>2. CASE UNCHANGED <<files, torn>>
    <2>1. SesTypes'
      BY <1>0, <1>2 DEF SesTypes, Quiet, Line
    <2>2. FilesStraight' /\ Started' = Started
      BY <1>0, <1>2, FilesStay
    <2>3. SessionsInPlace'
      <3>1. PICK n \in 0 .. MaxSessions : Started' = 1 .. n
        BY <2>2 DEF SesInv, SessionsInPlace
      <3>2. session' <= n + 1
        BY DEF NoSession
      <3> QED
        BY <3>1, <3>2 DEF SessionsInPlace
    <2> QED
      BY <1>1, <2>1, <2>2, <2>3 DEF SesInv
  <1>3. CASE torn' = torn \union {session} /\ files' = Appended(Torn)
    <2>1. /\ files' = [s \in Sids |-> files'[s]] /\ \A s \in Sids : IsSequence(files'[s])
          /\ \E n \in 0 .. MaxSessions : Started' = 1 .. n /\ session <= n + 1
          /\ \A s \in 1 .. MaxSessions : s # session /\ Clean(s)' /\ said'[s] = said[s] =>
               IF files'[s] = <<>> THEN said'[s] = <<>> ELSE Straight(files'[s], said'[s], stamp')
      BY <1>0, <1>3, FilesAppended
    <2>2. SesTypes'
      BY <1>0, <2>1 DEF SesTypes, Quiet, Line
    <2>3. \A s \in 1 .. MaxSessions : Clean(s)' => s # session
      BY <1>3 DEF Clean
    <2>4. FilesStraight'
      BY <2>1, <2>3 DEF FilesStraight
    <2>5. SessionsInPlace'
      <3>1. PICK n \in 0 .. MaxSessions : Started' = 1 .. n
        BY <2>1
      <3>2. session' <= n + 1
        BY DEF NoSession
      <3> QED
        BY <3>1, <3>2 DEF SessionsInPlace
    <2> QED
      BY <1>1, <2>2, <2>4, <2>5 DEF SesInv
  <1> QED
    BY <1>2, <1>3

\* What is read back of a clean session is what was recorded in it, and of this the loop
\* remembers all, or the end after a compaction or truncation: for any number of messages,
\* sessions, starts, turns that are cut off and lines that are.
THEOREM TranscriptAlwaysKept == SesSpec => []TranscriptKept
  <1>1. ASSUME SesInv, [SesNext]_sesVars PROVE SesInv'
    <2>1. CASE SesNext
      BY <1>1, <2>1, StartKeeps, ListKeeps, LoadKeeps, SwitchKeeps, WriteStartKeeps, StartWrittenKeeps,
         ClearSessionKeeps, CmdResumeKeeps, RecordKeeps, WriteKeeps, WrittenKeeps, RunningKeeps, CutTurnKeeps,
         WriteLateKeeps, StopKeeps DEF SesNext, RecordQuestion, RecordAnswer
    <2>2. CASE UNCHANGED sesVars
      <3> USE <2>2 DEF sesVars
      <3>1. SesTypes' /\ stamp \in Nat /\ SessionsInPlace'
        BY <1>1 DEF SesInv, SesTypes, SessionsInPlace, Started
      <3>2. FilesStraight' /\ (\A s : Clean(s)' => Clean(s)) /\ \A s : Newest(s)' = Newest(s)
        BY <1>1, <3>1, FilesStay
      <3>3. WritingOwn' /\ RecalledSound'
        BY <1>1, <3>2 DEF SesInv, WritingOwn, RecalledSound, Held
      <3> QED
        BY <3>1, <3>2, <3>3 DEF SesInv
    <2> QED
      BY <1>1, <2>1, <2>2
  <1>2. ASSUME SesInv PROVE TranscriptKept
    <2>0. MaxSessions \in Nat /\ SesTypes /\ session \in Sids
      BY <1>2, SessionsAssumption DEF SesInv, SesTypes
    <2>1. ASSUME NEW s \in Started \ (muddled \union torn) PROVE Messages(s) = said[s]
      <3>1. s \in 1 .. MaxSessions /\ s \in Sids /\ Clean(s) /\ files[s] # <<>>
        BY <2>0 DEF Started, Clean, Sids, NoSession
      <3>2. Straight(files[s], said[s], stamp)
        BY <1>2, <3>1 DEF SesInv, FilesStraight
      <3> QED
        BY <2>0, <3>1, <3>2, StraightMessages
    <2>2. ASSUME starting = "up", writing = Quiet, session \notin muddled \union torn
          PROVE  Held(said[session])
      <3>1. session # NoSession
        BY <1>2, <2>2 DEF SesInv, SessionsInPlace
      <3>2. Clean(session)
        BY <2>0, <2>2, <3>1 DEF Clean, Sids, NoSession
      <3> QED
        BY <1>2, <2>2, <3>2 DEF SesInv, RecalledSound, Quiet, Line
    <2> QED
      BY <2>1, <2>2 DEF TranscriptKept, Held
  <1> QED
    BY SesInitially, <1>1, <1>2, PTL DEF SesSpec
==============================================================================
