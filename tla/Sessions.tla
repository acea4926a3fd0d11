------------------------------- MODULE Sessions -------------------------------
(* The transcripts of one chat (session/storage.py): a session is a file of  *)
(* lines, each entry naming its parent, and resuming a session walks from    *)
(* the newest leaf back to the start.  The chat's frontend resumes its       *)
(* latest session on the first message after a start of the program, takes   *)
(* further messages meanwhile, and starts a new session on /clear without    *)
(* waiting for the turn that runs.  The terminal starts with a new session,  *)
(* or one the user picks, and resumes another one on /resume.  A turn        *)
(* records the message it was started for and its reply; whatever else it    *)
(* puts into the loop's memory (core/loop.py) is not recorded, and           *)
(* compaction and truncation take messages out of the memory only.           *)
EXTENDS Integers, Sequences, SequencesExt, FiniteSets

CONSTANTS MaxSaid,      \* messages recorded
          MaxStarts,    \* starts of the program
          MaxSessions,  \* sessions
          MaxTorn       \* lines cut off by a crash

ASSUME SessionsAssumption == {MaxSaid, MaxStarts, MaxSessions, MaxTorn} \subseteq Nat

NoSession == 0
NoEntry == 0

VARIABLES
    surface,   \* "chat" or "terminal"
    files,      \* the lines of each session, by number; NoSession is the file ".jsonl"
    session,    \* _session_id
    last,       \* _last_uuid
    writing,       \* the entry a turn is writing, or Quiet
    starting,   \* what the frontend does to set up or renew the session
    stamp,      \* entries made so far: uuid and timestamp in one
    talking,    \* the turn: none, one that runs, or one that records its reply
    recalled,    \* the messages in the loop's memory that were recorded
    unrecorded,  \* whether there is more in it, and whether recorded ones were dropped
    said,       \* the messages of each session whose line was written whole
    muddled,    \* sessions that changed while a turn recorded a message, or a record was cut off
    torn,       \* sessions with a line that a crash cut off
    starts
sesVars == <<surface, files, session, last, writing, starting, stamp, talking, recalled, unrecorded,
             said, muddled, torn, starts>>
\* The loop's memory and the turn that works on it.
memory == <<talking, recalled, unrecorded>>

Line(kind, id, parent, of) == [kind |-> kind, id |-> id, parent |-> parent, of |-> of]
Garbage == Line("bad", NoEntry, NoEntry, NoSession)
Torn == Line("torn", NoEntry, NoEntry, NoSession)
Quiet == Line("none", NoEntry, NoEntry, NoSession)
Sids == NoSession .. MaxSessions
Started == {s \in 1 .. MaxSessions : files[s] # <<>>}

SesInit ==
    /\ surface \in {"chat", "terminal"}
    /\ files = [s \in Sids |-> <<>>] /\ session = NoSession /\ last = NoEntry /\ writing = Quiet
    /\ starting = "down" /\ stamp = 0 /\ talking = "none" /\ recalled = <<>> /\ unrecorded = {}
    /\ said = [s \in Sids |-> <<>>] /\ muddled = {} /\ starts = 0 /\ torn = {}

------------------------------------------------------------------------------
\* A line is appended to the file of the session that is current by then; on a
\* line that was cut off, both become one that cannot be read.
Appended(entry) ==
    LET lines == files[session]
    IN [files EXCEPT ![session] =
            IF lines # <<>> /\ Last(lines) = Torn THEN Append(Front(lines), Garbage) ELSE Append(lines, entry)]

\* The lines of a file that can be read, and the entries on them.
Readable(s) == {i \in DOMAIN files[s] : files[s][i].kind \notin {"bad", "torn"}}
EntriesOf(s) == {files[s][i] : i \in Readable(s)}
Newest(s) == files[s][Max(Readable(s))]
\* The newest entry that no other names as its parent.
Leaf(entries) ==
    LET ids == {e.id : e \in entries} \ {e.parent : e \in entries}
    IN CHOOSE id \in ids : \A other \in ids : other <= id
\* A message is what it said; the start of a session says nothing.
Spoken(e) == IF e.kind = "message" THEN <<e.id>> ELSE <<>>
\* What was said from the start to each entry, as long as the parents are there.
Chain(entries) ==
    LET Of(id) == CHOOSE e \in entries : e.id = id
        from[id \in 0 .. stamp] ==
            IF id \notin {e.id : e \in entries} THEN <<>>
            ELSE (IF Of(id).parent < id THEN from[Of(id).parent] ELSE <<>>) \o Spoken(Of(id))
    IN from
Messages(s) == IF Readable(s) = {} THEN <<>> ELSE Chain(EntriesOf(s))[Leaf(EntriesOf(s))]

------------------------------------------------------------------------------
\* A start of the program, and its first message: the loop is stored before its
\* session is set up.
Start ==
    /\ starting = "down" /\ starts < MaxStarts /\ starts' = starts + 1 /\ starting' = "listing"
    /\ UNCHANGED <<files, session, last, writing, stamp, memory, said, muddled, torn>>
\* A session with a start line only is not listed; the latest one that is is resumed.
Listed == {s \in Started : Cardinality(Readable(s)) > 1}
Latest(s) == s \in Listed /\ \A other \in Listed : Newest(other).id <= Newest(s).id
\* The user of the terminal picks any of them.
Chosen(s) == IF surface = "terminal" THEN s \in Listed ELSE Latest(s)
\* start_new_session: the file is left at once, the start line written in a
\* thread.  A turn that is recording, or one from before there was a session, is
\* on neither side.
Open ==
    /\ Cardinality(Started) < MaxSessions
    /\ session' = Cardinality(Started) + 1 /\ last' = NoEntry /\ starting' = "opening"
    /\ muddled' = muddled \union (IF writing # Quiet THEN {session, session'} ELSE {})
                          \union (IF session = NoSession /\ recalled # <<>> THEN {session'} ELSE {})
List ==
    /\ starting = "listing"
    /\ \/ (surface = "terminal" \/ Listed = {}) /\ Open
       \/ Listed # {} /\ starting' = "loading" /\ UNCHANGED <<session, last, muddled>>
    /\ UNCHANGED <<files, writing, stamp, memory, said, torn, starts>>
\* AgenticLoop.resume: the messages are read and the storage turns to the file.
Load ==
    /\ starting = "loading" /\ starting' = "switching"
    /\ \E s \in Listed :
        /\ Chosen(s) /\ recalled' = recalled \o Messages(s) /\ session' = s
        /\ muddled' = muddled \union IF recalled # <<>> THEN {s} ELSE {}
    /\ UNCHANGED <<files, last, writing, stamp, talking, unrecorded, said, torn, starts>>
\* Mutant: the entries to come start a chain of their own.
SwitchForgetsLeaf ==
    /\ starting = "switching" /\ starting' = "up" /\ last' = NoEntry
    /\ UNCHANGED <<files, session, writing, stamp, memory, said, muddled, torn, starts>>
\* switch_session: entries to come follow the last one of the file; the loop
\* then notes for the model that the session is resumed.
Switch ==
    /\ starting = "switching" /\ starting' = "up" /\ last' = Newest(session).id
    /\ unrecorded' = unrecorded \union {"more"}
    /\ UNCHANGED <<files, session, writing, stamp, talking, recalled, said, muddled, torn, starts>>

WriteStart ==
    /\ starting = "opening" /\ starting' = "opened" /\ stamp' = stamp + 1
    /\ files' = Appended(Line("start", stamp', NoEntry, session))
    /\ UNCHANGED <<session, last, writing, memory, said, muddled, torn, starts>>
StartWritten ==
    /\ starting = "opened" /\ starting' = "up"
    /\ last' = (CHOOSE e \in EntriesOf(session) : e.kind = "start").id
    /\ UNCHANGED <<files, session, writing, stamp, memory, said, muddled, torn, starts>>
\* /clear, at any moment.
ClearSession ==
    /\ starting = "up" /\ recalled' = <<>> /\ unrecorded' = {} /\ Open
    /\ UNCHANGED <<files, writing, stamp, talking, said, torn, starts>>

\* /resume: the loop is reset before the session that was picked is read.
CmdResume ==
    /\ surface = "terminal" /\ starting = "up" /\ Listed # {}
    /\ starting' = "loading" /\ recalled' = <<>> /\ unrecorded' = {}
    /\ muddled' = muddled \union IF writing # Quiet THEN {session} ELSE {}
    /\ UNCHANGED <<files, session, last, writing, stamp, talking, said, torn, starts>>

------------------------------------------------------------------------------
\* A message goes into the loop's memory, and from there into the transcript.
RecordMessage ==
    /\ starting # "down" /\ writing = Quiet
    /\ stamp < MaxSaid + MaxSessions /\ stamp' = stamp + 1
    /\ writing' = Line("message", stamp', last, session) /\ recalled' = Append(recalled, stamp')
    /\ muddled' = muddled \union IF starting # "up" THEN {session} ELSE {}
    /\ UNCHANGED <<files, session, last, starting, unrecorded, said, starts, torn>>
\* A turn records the message of the user that it is started for, and in the end
\* the text it answers with.
RecordQuestion == talking = "none" /\ talking' = "turn" /\ RecordMessage
RecordAnswer == talking = "turn" /\ talking' = "over" /\ RecordMessage
Write ==
    /\ writing.kind = "message" /\ writing' = [writing EXCEPT !.kind = "written"]
    /\ files' = Appended(writing) /\ said' = [said EXCEPT ![writing.of] = Append(@, writing.id)]
    /\ muddled' = muddled \union IF session # writing.of THEN {session, writing.of} ELSE {}
    /\ UNCHANGED <<session, last, starting, stamp, memory, starts, torn>>
Written ==
    /\ writing.kind = "written" /\ writing' = Quiet /\ last' = writing.id
    /\ talking' = IF talking = "over" THEN "none" ELSE talking
    /\ muddled' = muddled \union IF session # writing.of THEN {session, writing.of} ELSE {}
    /\ UNCHANGED <<files, session, starting, stamp, recalled, unrecorded, said, starts, torn>>

\* Between the two a turn remembers more than it records: messages that arrived
\* meanwhile, replies that were cut off and what asks for the rest, tool calls
\* and their results.
Running == talking = "turn" /\ writing = Quiet
onDisk == <<files, session, last, writing, starting, stamp, said, muddled, torn, starts>>
Remember ==
    /\ Running /\ unrecorded' = unrecorded \union {"more"}
    /\ UNCHANGED <<talking, recalled, onDisk>>
\* A summary replaces all of the memory, ...
Compact ==
    /\ Running /\ recalled' = <<>> /\ unrecorded' = {"more", "dropped"}
    /\ UNCHANGED <<talking, onDisk>>
\* ... or a notice the older messages of it.
DropOldest ==
    /\ Running /\ recalled' \in Suffixes(recalled)
    /\ unrecorded' = {"more", "dropped"}
    /\ UNCHANGED <<talking, onDisk>>
\* A turn that is interrupted, or fails and says so, records no answer.
EndUnanswered ==
    /\ Running /\ talking' = "none" /\ unrecorded' \in {unrecorded, unrecorded \union {"more"}}
    /\ UNCHANGED <<recalled, onDisk>>
\* A turn's task is cancelled: by the terminal's timer, or as the frontend that
\* follows it fails.  The thread that writes its line is not: it gets to it
\* later, or never if it was not started.
CutTurn ==
    /\ talking # "none" /\ talking' = "none"
    /\ writing' \in IF writing.kind = "message" THEN {Quiet, [writing EXCEPT !.kind = "late"]} ELSE {Quiet}
    /\ muddled' = muddled \union IF writing # Quiet THEN {session, writing.of} ELSE {}
    /\ UNCHANGED <<files, session, last, starting, stamp, recalled, unrecorded, said, torn, starts>>
WriteLate ==
    /\ writing.kind = "late" /\ writing' = Quiet
    /\ files' = Appended([writing EXCEPT !.kind = "message"])
    /\ said' = [said EXCEPT ![writing.of] = Append(@, writing.id)] /\ muddled' = muddled \union {session}
    /\ UNCHANGED <<session, last, starting, stamp, memory, torn, starts>>

\* The program ends; a write in progress may leave part of its line.
Stop ==
    /\ starting # "down" /\ starting' = "down"
    /\ session' = NoSession /\ last' = NoEntry /\ writing' = Quiet
    /\ talking' = "none" /\ recalled' = <<>> /\ unrecorded' = {}
    /\ \/ UNCHANGED <<files, torn>>
       \/ /\ writing.kind \in {"message", "late"} /\ Cardinality(torn) < MaxTorn
          /\ torn' = torn \union {session} /\ files' = Appended(Torn)
    /\ UNCHANGED <<stamp, said, muddled, starts>>

SesNext ==
    /\ UNCHANGED surface
    /\ \/ Start \/ List \/ Load \/ Switch \/ WriteStart \/ StartWritten \/ ClearSession \/ CmdResume
       \/ RecordQuestion \/ RecordAnswer \/ Write \/ Written \/ Remember \/ Compact \/ DropOldest
       \/ EndUnanswered \/ CutTurn \/ WriteLate \/ Stop
SesSpec == SesInit /\ [][SesNext]_sesVars

------------------------------------------------------------------------------
\* Over any number of restarts, what is read back of a session is what was
\* recorded in it, in order; and of these messages the loop's memory has all, or
\* after a compaction or truncation the last ones.  Only a session that changed
\* while a message was recorded, whose turn was cut off in a record, or with a
\* line that a crash cut off is excepted (storage.py, load_session; loop.py, resume).
TranscriptKept ==
    /\ \A s \in Started \ (muddled \union torn) : Messages(s) = said[s]
    /\ starting = "up" /\ writing = Quiet /\ session \notin muddled \union torn =>
         /\ recalled \in Suffixes(said[session])
         /\ "dropped" \in unrecorded \/ recalled = said[session]
=============================================================================
