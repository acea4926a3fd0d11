------------------------- MODULE DownloadServiceProofs -------------------------
(***************************************************************************)
(* The types of DownloadService, and that its journal implements           *)
(* UrlClaims, that its rows agree, and that its downloads are attended, for *)
(* any tasks, URLs and bounds.                                             *)
(***************************************************************************)
EXTENDS DownloadService, TLAPS

(* A task somebody works on, or soon will.                                 *)
Engaged(t) ==
    \/ worker[t] # "none"
    \/ t \in resumed \cup scanned
    \/ submit[t] \in {"accepted", "saved"}

(* The unique index over the reserving states of one URL.                  *)
OneReservation ==
    \A t, u \in Tasks :
        Reserves(t) /\ Reserves(u) /\ urlOf[t] = urlOf[u] => t = u

(* Rows belong to tasks that were created.                                 *)
Fresh ==
    \A t \in Tasks :
        urlOf[t] = None =>
            /\ memento[t] = None
            /\ operation[t] = None
            /\ outcome[t] = "none"
            /\ t \notin resubmits

(* What it takes to know OpenList's task id.                               *)
Bindings ==
    \A t \in Tasks :
        /\ (memento[t] # None /\ memento[t].bound) \/ Engaged(t) =>
              operation[t] # None /\ operation[t].bound
        /\ operation[t] # None /\ operation[t].bound =>
              outcome[t] = "accepted" /\ OperationIn(t, {"submitted", "failed", "completed"})
        /\ OperationIn(t, {"submitted", "completed"}) => operation[t].bound

(* What the journal says at each point of a submission, and what is known  *)
(* of the call by then.                                                    *)
Journal ==
    \A t \in Tasks :
        /\ submit[t] = "reserved" =>
              OperationIn(t, {"intent"}) /\ outcome[t] = "none"
        /\ submit[t] \in {"calling", "unanswered"} =>
              OperationIn(t, {"sending"}) /\ outcome[t] = "unknown"
        /\ submit[t] = "answered" =>
              OperationIn(t, {"sending"}) /\ outcome[t] = "accepted"
        /\ submit[t] \in {"refused", "releasing"} =>
              OperationIn(t, {"sending"}) /\ outcome[t] = "rejected"
        /\ submit[t] = "doubting" => OperationIn(t, {"uncertain"})

(* Until it is accepted or refused a submission has its memento to itself. *)
Submitting ==
    \A t \in Tasks :
        submit[t] \in {"reserved", "calling", "answered", "refused", "unanswered",
                       "accepted", "doubting"} =>
            /\ MementoIn(t, {"pending"})
            /\ worker[t] = "none"
            /\ t \notin resumed \cup scanned

(* Handlers, workers and scans begin once the process serves.              *)
Quiet ==
    mode # "serving" =>
        /\ \A t \in Tasks : submit[t] = "none" /\ worker[t] = "none"
        /\ resumed = {} /\ scanned = {} /\ scan = "idle"

(* The tasks recovery has saved are those it will start workers for.       *)
Recovering == mode = "recovering" => \A t \in recovered : OperationIn(t, {"submitted"})

JournalInv ==
    /\ TypeOK
    /\ OneReservation
    /\ Fresh
    /\ Bindings
    /\ Journal
    /\ Submitting
    /\ Quiet
    /\ Recovering

-----------------------------------------------------------------------------
(* Rows.                                                                   *)

LEMMA RowEdits ==
    ASSUME NEW m \in Mementos, NEW o \in Operations
    PROVE  /\ m # None /\ o # None
           /\ m.state \in {"pending", "downloading", "failed"} /\ m.step \in Steps
           /\ m.bound \in BOOLEAN /\ m.rejected \in BOOLEAN /\ m.archived \in BOOLEAN
           /\ o.state \in Reserving \cup {"failed", "completed"}
           /\ o.bound \in BOOLEAN /\ o.rejected \in BOOLEAN
  BY RowsAssumption DEF Mementos, Operations

LEMMA StepFacts ==
    /\ Steps = {"init", "submitted", "download_done", "transfer_done", "file_detected",
                "materializing", "moved"}
    /\ \A s \in Steps \ {"moved"} : After(s) \in Steps
PROOF
  <1>1. Steps = {"init", "submitted", "download_done", "transfer_done", "file_detected",
                 "materializing", "moved"}
    BY DEF Steps, StepOrder
  <1>2. ASSUME NEW s \in Steps \ {"moved"} PROVE After(s) \in Steps
    <2>1. PICK i \in 1 .. 7 : StepOrder[i] = s
      BY DEF Steps, StepOrder
    <2>2. Rank(s) \in 1 .. 7 /\ StepOrder[Rank(s)] = s
      BY <2>1 DEF Rank, StepOrder
    <2>3. Rank(s) # 7
      BY <2>2 DEF StepOrder
    <2> QED
      BY <2>2, <2>3 DEF After, Steps, StepOrder
  <1> QED
    BY <1>1, <1>2

(* The rows of a new submission.                                           *)
LEMMA NewRows ==
    /\ [state |-> "pending", step |-> "init", bound |-> FALSE,
        rejected |-> FALSE, archived |-> FALSE] \in Mementos
    /\ [state |-> "intent", bound |-> FALSE, rejected |-> FALSE] \in Operations
    /\ [state |-> "submitted", bound |-> TRUE, rejected |-> FALSE] \in Operations
  BY StepFacts DEF Mementos, Operations, Reserving

(* What reserving a URL for t finds and leaves.                            *)
LEMMA Reserved ==
    ASSUME JournalInv, NEW t \in Tasks, NEW u \in Urls, NEW who, Reserve(t, u, who)
    PROVE  /\ mode = "serving"
           /\ urlOf[t] = None /\ urlOf'[t] = u /\ u # None
           /\ memento[t] = None /\ memento'[t] # None
           /\ memento'[t].state = "pending" /\ ~memento'[t].bound
           /\ operation[t] = None /\ operation'[t] # None
           /\ operation'[t].state = "intent" /\ ~operation'[t].bound
           /\ outcome[t] = "none" /\ worker[t] = "none"
           /\ t \notin resubmits \cup resumed \cup scanned
           /\ submit' = [submit EXCEPT ![t] = "reserved"]
           /\ \A v \in Tasks \ {t} : /\ memento'[v] = memento[v]
                                     /\ operation'[v] = operation[v]
                                     /\ urlOf'[v] = urlOf[v]
PROOF
  <1>1. urlOf[t] = None
    BY DEF Reserve, Created
  <1>2. /\ memento[t] = None /\ operation[t] = None /\ outcome[t] = "none"
        /\ t \notin resubmits
    BY <1>1 DEF JournalInv, Fresh
  <1>3. worker[t] = "none" /\ t \notin resumed \cup scanned
    BY <1>2 DEF JournalInv, Bindings, Engaged
  <1>4. memento'[t] # None /\ operation'[t] # None
    BY NewRows, RowsAssumption
    DEF JournalInv, TypeOK, Reserve, SaveMemento, SaveOperation
  <1> QED
    BY <1>1, <1>2, <1>3, <1>4, UrlsAssumption
    DEF JournalInv, TypeOK, Reserve, SaveMemento, SaveOperation

-----------------------------------------------------------------------------
(* Every action keeps the invariant.                                       *)

LEMMA CreateDownloadKeeps ==
    ASSUME JournalInv, NEW t \in Tasks, NEW u \in Urls, CreateDownload(t, u)
    PROVE  JournalInv'
PROOF
  <1>1. Reserve(t, u, "http")
    BY DEF CreateDownload
  <1>2. /\ mode = "serving"
        /\ urlOf[t] = None /\ urlOf'[t] = u /\ u # None
        /\ memento[t] = None /\ memento'[t] # None
        /\ memento'[t].state = "pending" /\ ~memento'[t].bound
        /\ operation[t] = None /\ operation'[t] # None
        /\ operation'[t].state = "intent" /\ ~operation'[t].bound
        /\ outcome[t] = "none" /\ worker[t] = "none"
        /\ t \notin resubmits \cup resumed \cup scanned
        /\ submit' = [submit EXCEPT ![t] = "reserved"]
        /\ \A v \in Tasks \ {t} : /\ memento'[v] = memento[v]
                                  /\ operation'[v] = operation[v]
                                  /\ urlOf'[v] = urlOf[v]
    BY <1>1, Reserved
  <1>3. TypeOK'
    BY NewRows
    DEF JournalInv, TypeOK, CreateDownload, Reserve, SaveMemento,
        SaveOperation, Mementos, Operations, Reserving, scanner, provider,
        ghosts, counters
  <1>4. OneReservation'
    <2>1. \A v \in Tasks : urlOf[v] = u => ~Reserves(v)
      BY <1>1, <1>2, UrlsAssumption DEF Reserve, Created
    <2> QED
      BY <1>2, <2>1 DEF JournalInv, OneReservation, Reserves
  <1>5. Fresh'
    BY <1>2
    DEF JournalInv, TypeOK, Fresh, Bindings, Journal, CreateDownload,
        Reserves, Engaged, OperationIn, scanner, provider, ghosts, counters
  <1>6. Bindings'
    BY <1>2
    DEF JournalInv, TypeOK, Bindings, Journal, CreateDownload, Reserves,
        Engaged, OperationIn, scanner, provider, ghosts, counters
  <1>7. Journal'
    BY <1>2
    DEF JournalInv, TypeOK, Bindings, Journal, CreateDownload, Reserves,
        Engaged, OperationIn, scanner, provider, ghosts, counters
  <1>8. Submitting'
    BY <1>2
    DEF JournalInv, TypeOK, Bindings, Journal, Submitting, CreateDownload,
        Reserves, Engaged, MementoIn, OperationIn, scanner, provider, ghosts,
        counters
  <1>9. Quiet' /\ Recovering'
    BY DEF JournalInv, TypeOK, CreateDownload, Quiet, Recovering, OperationIn,
           Reserve, SaveMemento, SaveOperation, Created, Reserves, scanner,
           provider, ghosts, counters
  <1> QED
    BY <1>3, <1>4, <1>5, <1>6, <1>7, <1>8, <1>9 DEF JournalInv

LEMMA BeginKeeps ==
    ASSUME JournalInv, NEW t \in Tasks, Begin(t)
    PROVE  JournalInv'
PROOF
  <1> DEFINE o == [operation[t] EXCEPT !.state = "sending"]
  <1>1. /\ operation[t] \in Operations
        /\ operation[t] # None
    BY RowsAssumption
    DEF JournalInv, TypeOK, Begin, Journal, OperationIn
  <1>2. /\ o \in Operations /\ o # None
        /\ o.state = "sending" /\ o.bound = operation[t].bound
    BY <1>1, RowsAssumption DEF Operations, Reserving
  <1>3. /\ operation' \in [Tasks -> Operations \cup {None}]
        /\ operation'[t] = o
        /\ \A u \in Tasks \ {t} : operation'[u] = operation[u]
    BY <1>1, <1>2
    DEF JournalInv, TypeOK, Begin, SaveOperation
  <1> HIDE DEF o
  <1>4. TypeOK'
    BY <1>1, <1>2, <1>3
    DEF JournalInv, TypeOK, Begin, scanner, counters
  <1>5. OneReservation'
    <2>1. \A u \in Tasks : Reserves(u)' => Reserves(u)
      BY <1>1, <1>2, <1>3
      DEF JournalInv, Begin, Journal, Bindings, OperationIn, Engaged,
          Reserves, Reserving
    <2> QED
      BY <2>1 DEF JournalInv, OneReservation, Begin
  <1>6. Fresh'
    BY <1>1, <1>2, <1>3
    DEF JournalInv, TypeOK, Begin, Fresh, Bindings, Journal, Engaged,
        OperationIn, scanner, counters
  <1>7. Bindings'
    BY <1>1, <1>2, <1>3
    DEF JournalInv, TypeOK, Begin, Bindings, Journal, Engaged, OperationIn,
        scanner, counters
  <1>8. Journal'
    BY <1>1, <1>2, <1>3
    DEF JournalInv, TypeOK, Begin, Bindings, Journal, Engaged, OperationIn,
        scanner, counters
  <1>9. Recovering'
    BY <1>1, <1>2, <1>3
    DEF JournalInv, TypeOK, Begin, Bindings, Journal, Recovering, Engaged,
        OperationIn, scanner, counters
  <1>10. Submitting' /\ Quiet'
    BY DEF JournalInv, TypeOK, Begin, Submitting, Quiet, MementoIn,
           SaveOperation, scanner, counters
  <1> QED
    BY <1>4, <1>5, <1>6, <1>7, <1>8, <1>9, <1>10 DEF JournalInv

LEMMA AnsweredKeeps ==
    ASSUME JournalInv, NEW t \in Tasks, Answered(t)
    PROVE  JournalInv'
PROOF
  <1>1. TypeOK'
    BY DEF JournalInv, TypeOK, Answered, rows, scanner, provider, counters
  <1>2. Fresh'
    BY DEF JournalInv, TypeOK, Fresh, Bindings, Journal, Answered, Engaged,
           OperationIn, rows, scanner, provider, counters
  <1>3. /\ OneReservation'
        /\ Bindings'
        /\ Journal'
        /\ Submitting'
        /\ Quiet'
        /\ Recovering'
    BY DEF JournalInv, TypeOK, Answered, OneReservation, Bindings, Journal,
           Submitting, Quiet, Recovering, Engaged, MementoIn, OperationIn,
           Reserves, rows, scanner, provider, counters
  <1> QED
    BY <1>1, <1>2, <1>3 DEF JournalInv

LEMMA RefusedKeeps ==
    ASSUME JournalInv, NEW t \in Tasks, Refused(t)
    PROVE  JournalInv'
PROOF
  <1>1. TypeOK'
    BY DEF JournalInv, TypeOK, Refused, rows, scanner, counters
  <1>2. Fresh'
    BY DEF JournalInv, TypeOK, Fresh, Bindings, Journal, Refused, Engaged,
           OperationIn, rows, scanner, counters
  <1>3. Bindings'
    BY DEF JournalInv, TypeOK, Bindings, Journal, Refused, Engaged,
           OperationIn, rows, scanner, counters
  <1>4. /\ OneReservation'
        /\ Journal'
        /\ Submitting'
        /\ Quiet'
        /\ Recovering'
    BY DEF JournalInv, TypeOK, Refused, OneReservation, Journal, Submitting,
           Quiet, Recovering, MementoIn, OperationIn, Reserves, rows, scanner,
           counters
  <1> QED
    BY <1>1, <1>2, <1>3, <1>4 DEF JournalInv

LEMMA UnansweredKeeps ==
    ASSUME JournalInv, NEW t \in Tasks, Unanswered(t)
    PROVE  JournalInv'
PROOF
  <1>1. TypeOK'
    BY DEF JournalInv, TypeOK, Unanswered, rows, scanner, provider, ghosts,
           counters
  <1>2. /\ OneReservation'
        /\ Fresh'
        /\ Bindings'
        /\ Journal'
        /\ Submitting'
        /\ Quiet'
        /\ Recovering'
    BY DEF JournalInv, TypeOK, Unanswered, OneReservation, Fresh, Bindings,
           Journal, Submitting, Quiet, Recovering, Engaged, MementoIn,
           OperationIn, Reserves, rows, scanner, provider, ghosts, counters
  <1> QED
    BY <1>1, <1>2 DEF JournalInv

LEMMA AcceptKeeps ==
    ASSUME JournalInv, NEW t \in Tasks, Accept(t)
    PROVE  JournalInv'
PROOF
  <1> DEFINE o == [operation[t] EXCEPT !.state = "submitted", !.bound = TRUE]
  <1>1. /\ operation[t] \in Operations
        /\ operation[t] # None
    BY RowsAssumption
    DEF JournalInv, TypeOK, Accept, Journal, OperationIn
  <1>2. /\ o \in Operations /\ o # None
        /\ o.state = "submitted" /\ o.bound = TRUE
    BY <1>1, RowsAssumption DEF Operations, Reserving
  <1>3. /\ operation' \in [Tasks -> Operations \cup {None}]
        /\ operation'[t] = o
        /\ \A u \in Tasks \ {t} : operation'[u] = operation[u]
    BY <1>1, <1>2
    DEF JournalInv, TypeOK, Accept, SaveOperation
  <1> HIDE DEF o
  <1>4. TypeOK'
    BY <1>1, <1>2, <1>3
    DEF JournalInv, TypeOK, Accept, scanner, provider, ghosts, counters
  <1>5. OneReservation'
    <2>1. \A u \in Tasks : Reserves(u)' => Reserves(u)
      BY <1>1, <1>2, <1>3
      DEF JournalInv, Accept, Journal, Bindings, OperationIn, Engaged,
          Reserves, Reserving
    <2> QED
      BY <2>1 DEF JournalInv, OneReservation, Accept
  <1>6. Fresh'
    BY <1>1, <1>2, <1>3
    DEF JournalInv, TypeOK, Accept, Fresh, Bindings, Journal, Engaged,
        OperationIn, scanner, provider, ghosts, counters
  <1>7. Bindings'
    BY <1>1, <1>2, <1>3
    DEF JournalInv, TypeOK, Accept, Bindings, Journal, Engaged, OperationIn,
        scanner, provider, ghosts, counters
  <1>8. Recovering'
    BY <1>1, <1>2, <1>3
    DEF JournalInv, TypeOK, Accept, Bindings, Journal, Recovering, Engaged,
        OperationIn, scanner, provider, ghosts, counters
  <1>9. Journal' /\ Submitting' /\ Quiet'
    BY DEF JournalInv, TypeOK, Accept, Journal, Submitting, Quiet, MementoIn,
           OperationIn, SaveOperation, scanner, provider, ghosts, counters
  <1> QED
    BY <1>4, <1>5, <1>6, <1>7, <1>8, <1>9 DEF JournalInv

LEMMA AcceptSaveKeeps ==
    ASSUME JournalInv, NEW t \in Tasks, AcceptSave(t)
    PROVE  JournalInv'
PROOF
  <1> DEFINE m == [memento[t] EXCEPT !.state = "downloading", !.step = "submitted",
                                     !.bound = TRUE]
  <1>1. /\ memento[t] \in Mementos
        /\ memento[t] # None
    BY RowsAssumption
    DEF JournalInv, TypeOK, AcceptSave, Submitting, MementoIn
  <1>2. /\ m \in Mementos /\ m # None
        /\ m.state = "downloading" /\ m.bound = TRUE
    BY <1>1, RowsAssumption, StepFacts DEF Mementos
  <1>3. /\ memento' \in [Tasks -> Mementos \cup {None}]
        /\ memento'[t] = m
        /\ \A u \in Tasks \ {t} : memento'[u] = memento[u]
    BY <1>1, <1>2
    DEF JournalInv, TypeOK, AcceptSave, SaveMemento
  <1> HIDE DEF m
  <1>4. TypeOK'
    BY <1>1, <1>2, <1>3
    DEF JournalInv, TypeOK, AcceptSave, provider, ghosts, counters
  <1>5. Fresh'
    BY <1>1, <1>2, <1>3
    DEF JournalInv, TypeOK, AcceptSave, Fresh, Bindings, Journal, Engaged,
        OperationIn, provider, ghosts, counters
  <1>6. /\ OneReservation'
        /\ Bindings'
        /\ Journal'
        /\ Submitting'
        /\ Quiet'
        /\ Recovering'
    BY DEF JournalInv, TypeOK, AcceptSave, OneReservation, Bindings, Journal,
           Submitting, Quiet, Recovering, Engaged, MementoIn, OperationIn,
           Reserves, SaveMemento, provider, ghosts, counters
  <1> QED
    BY <1>4, <1>5, <1>6 DEF JournalInv

LEMMA ArchiveReplacedKeeps ==
    ASSUME JournalInv, NEW t \in Tasks, ArchiveReplaced(t)
    PROVE  JournalInv'
PROOF
  <1>1. /\ memento' \in [Tasks -> Mementos \cup {None}]
        /\ \A u \in Tasks : memento'[u] = None <=> memento[u] = None
        /\ \A u \in Tasks : memento[u] # None =>
           /\ memento'[u].state = memento[u].state
           /\ memento'[u].bound = memento[u].bound
    <2>1. CASE UNCHANGED memento
      BY <2>1 DEF JournalInv, TypeOK
    <2>2. CASE MementoIn(by[t], {"failed"})
      <3> DEFINE r == by[t]
                 m == [memento[r] EXCEPT !.archived = TRUE]
      <3>1. r \in Tasks /\ memento[r] \in Mementos /\ memento[r] # None
        BY <2>2 DEF JournalInv, TypeOK, ArchiveReplaced, MementoIn
      <3>2. /\ m \in Mementos /\ m # None
            /\ m.state = memento[r].state /\ m.bound = memento[r].bound
        BY <3>1, RowsAssumption DEF Mementos
      <3>3. memento' = [memento EXCEPT ![r] = m]
        BY <2>2 DEF ArchiveReplaced, SaveMemento
      <3> HIDE DEF r, m
      <3> QED
        BY <3>1, <3>2, <3>3 DEF JournalInv, TypeOK
    <2> QED
      BY <2>1, <2>2 DEF ArchiveReplaced
  <1>2. TypeOK'
    BY <1>1
    DEF JournalInv, TypeOK, ArchiveReplaced, scanner, provider, ghosts,
        counters
  <1>3. Bindings'
    BY <1>1
    DEF JournalInv, TypeOK, ArchiveReplaced, Bindings, Journal, MementoIn,
        Engaged, OperationIn, scanner, provider, ghosts, counters
  <1>4. /\ OneReservation'
        /\ Fresh'
        /\ Journal'
        /\ Submitting'
        /\ Quiet'
        /\ Recovering'
    BY DEF JournalInv, TypeOK, ArchiveReplaced, OneReservation, Fresh,
           Journal, Submitting, Quiet, Recovering, MementoIn, OperationIn,
           Reserves, SaveMemento, scanner, provider, ghosts, counters
  <1> QED
    BY <1>2, <1>3, <1>4 DEF JournalInv

LEMMA HandOverKeeps ==
    ASSUME JournalInv, NEW t \in Tasks, HandOver(t)
    PROVE  JournalInv'
PROOF
  <1>1. TypeOK'
    BY DEF JournalInv, TypeOK, HandOver, StartWorkers, rows, scanner,
           provider, ghosts, counters
  <1>2. /\ OneReservation'
        /\ Fresh'
        /\ Bindings'
        /\ Journal'
        /\ Submitting'
        /\ Quiet'
        /\ Recovering'
    BY DEF JournalInv, TypeOK, HandOver, OneReservation, Fresh, Bindings,
           Journal, Submitting, Quiet, Recovering, Engaged, MementoIn,
           OperationIn, Reserves, StartWorkers, rows, scanner, provider,
           ghosts, counters
  <1> QED
    BY <1>1, <1>2 DEF JournalInv

LEMMA RefusedSaveKeeps ==
    ASSUME JournalInv, NEW t \in Tasks, RefusedSave(t)
    PROVE  JournalInv'
PROOF
  <1> DEFINE m == [memento[t] EXCEPT !.state = "failed", !.rejected = TRUE]
  <1>1. /\ memento[t] \in Mementos
        /\ memento[t] # None
    BY RowsAssumption
    DEF JournalInv, TypeOK, RefusedSave, Submitting, MementoIn
  <1>2. /\ m \in Mementos /\ m # None
        /\ m.state = "failed" /\ m.bound = memento[t].bound
    BY <1>1, RowsAssumption, StepFacts DEF Mementos
  <1>3. /\ memento' \in [Tasks -> Mementos \cup {None}]
        /\ memento'[t] = m
        /\ \A u \in Tasks \ {t} : memento'[u] = memento[u]
    BY <1>1, <1>2
    DEF JournalInv, TypeOK, RefusedSave, SaveMemento
  <1> HIDE DEF m
  <1>4. TypeOK'
    BY <1>1, <1>2, <1>3
    DEF JournalInv, TypeOK, RefusedSave, scanner, provider, ghosts, counters
  <1>5. Fresh'
    BY <1>1, <1>2, <1>3
    DEF JournalInv, TypeOK, RefusedSave, Fresh, Bindings, Journal, Engaged,
        OperationIn, scanner, provider, ghosts, counters
  <1>6. Bindings'
    BY <1>1, <1>2, <1>3
    DEF JournalInv, TypeOK, RefusedSave, Bindings, Journal, Engaged,
        OperationIn, scanner, provider, ghosts, counters
  <1>7. /\ OneReservation'
        /\ Journal'
        /\ Submitting'
        /\ Quiet'
        /\ Recovering'
    BY DEF JournalInv, TypeOK, RefusedSave, OneReservation, Journal,
           Submitting, Quiet, Recovering, MementoIn, OperationIn, Reserves,
           SaveMemento, scanner, provider, ghosts, counters
  <1> QED
    BY <1>4, <1>5, <1>6, <1>7 DEF JournalInv

LEMMA RefusedReleaseKeeps ==
    ASSUME JournalInv, NEW t \in Tasks, RefusedRelease(t)
    PROVE  JournalInv'
PROOF
  <1> DEFINE o == [operation[t] EXCEPT !.state = "failed", !.rejected = TRUE]
  <1>1. /\ operation[t] \in Operations
        /\ operation[t] # None
    BY RowsAssumption
    DEF JournalInv, TypeOK, RefusedRelease, Journal, OperationIn
  <1>2. /\ o \in Operations /\ o # None
        /\ o.state = "failed" /\ o.bound = operation[t].bound
    BY <1>1, RowsAssumption DEF Operations, Reserving
  <1>3. /\ operation' \in [Tasks -> Operations \cup {None}]
        /\ operation'[t] = o
        /\ \A u \in Tasks \ {t} : operation'[u] = operation[u]
    BY <1>1, <1>2
    DEF JournalInv, TypeOK, RefusedRelease, SaveOperation
  <1> HIDE DEF o
  <1>4. TypeOK'
    BY <1>1, <1>2, <1>3
    DEF JournalInv, TypeOK, RefusedRelease, scanner, provider, ghosts,
        counters
  <1>5. OneReservation'
    <2>1. \A u \in Tasks : Reserves(u)' => Reserves(u)
      BY <1>1, <1>2, <1>3
      DEF JournalInv, RefusedRelease, Journal, Bindings, OperationIn, Engaged,
          Reserves, Reserving
    <2> QED
      BY <2>1 DEF JournalInv, OneReservation, RefusedRelease
  <1>6. Fresh'
    BY <1>1, <1>2, <1>3
    DEF JournalInv, TypeOK, RefusedRelease, Fresh, Bindings, Journal, Engaged,
        OperationIn, scanner, provider, ghosts, counters
  <1>7. Bindings'
    BY <1>1, <1>2, <1>3
    DEF JournalInv, TypeOK, RefusedRelease, Bindings, Journal, Engaged,
        OperationIn, scanner, provider, ghosts, counters
  <1>8. Recovering'
    BY <1>1, <1>2, <1>3
    DEF JournalInv, TypeOK, RefusedRelease, Bindings, Journal, Recovering,
        Engaged, OperationIn, scanner, provider, ghosts, counters
  <1>9. Journal' /\ Submitting' /\ Quiet'
    BY DEF JournalInv, TypeOK, RefusedRelease, Journal, Submitting, Quiet,
           MementoIn, OperationIn, SaveOperation, scanner, provider, ghosts,
           counters
  <1> QED
    BY <1>4, <1>5, <1>6, <1>7, <1>8, <1>9 DEF JournalInv

LEMMA DoubtKeeps ==
    ASSUME JournalInv, NEW t \in Tasks, Doubt(t)
    PROVE  JournalInv'
PROOF
  <1> DEFINE o == [operation[t] EXCEPT !.state = "uncertain"]
  <1>1. /\ operation[t] \in Operations
        /\ operation[t] # None
    BY RowsAssumption
    DEF JournalInv, TypeOK, Doubt, Journal, OperationIn
  <1>2. /\ o \in Operations /\ o # None
        /\ o.state = "uncertain" /\ o.bound = operation[t].bound
    BY <1>1, RowsAssumption DEF Operations, Reserving
  <1>3. /\ operation' \in [Tasks -> Operations \cup {None}]
        /\ operation'[t] = o
        /\ \A u \in Tasks \ {t} : operation'[u] = operation[u]
    BY <1>1, <1>2
    DEF JournalInv, TypeOK, Doubt, SaveOperation
  <1> HIDE DEF o
  <1>4. TypeOK'
    BY <1>1, <1>2, <1>3
    DEF JournalInv, TypeOK, Doubt, scanner, provider, ghosts, counters
  <1>5. OneReservation'
    <2>1. \A u \in Tasks : Reserves(u)' => Reserves(u)
      BY <1>1, <1>2, <1>3
      DEF JournalInv, Doubt, Journal, Bindings, OperationIn, Engaged,
          Reserves, Reserving
    <2> QED
      BY <2>1 DEF JournalInv, OneReservation, Doubt
  <1>6. Fresh'
    BY <1>1, <1>2, <1>3
    DEF JournalInv, TypeOK, Doubt, Fresh, Bindings, Journal, Engaged,
        OperationIn, scanner, provider, ghosts, counters
  <1>7. Bindings'
    BY <1>1, <1>2, <1>3
    DEF JournalInv, TypeOK, Doubt, Bindings, Journal, Engaged, OperationIn,
        scanner, provider, ghosts, counters
  <1>8. Journal'
    BY <1>1, <1>2, <1>3
    DEF JournalInv, TypeOK, Doubt, Bindings, Journal, Engaged, OperationIn,
        scanner, provider, ghosts, counters
  <1>9. Recovering'
    BY <1>1, <1>2, <1>3
    DEF JournalInv, TypeOK, Doubt, Bindings, Journal, Recovering, Engaged,
        OperationIn, scanner, provider, ghosts, counters
  <1>10. Submitting' /\ Quiet'
    BY DEF JournalInv, TypeOK, Doubt, Submitting, Quiet, MementoIn,
           SaveOperation, scanner, provider, ghosts, counters
  <1> QED
    BY <1>4, <1>5, <1>6, <1>7, <1>8, <1>9, <1>10 DEF JournalInv

LEMMA DoubtSaveKeeps ==
    ASSUME JournalInv, NEW t \in Tasks, DoubtSave(t)
    PROVE  JournalInv'
PROOF
  <1> DEFINE m == [memento[t] EXCEPT !.state = "failed"]
  <1>1. /\ memento[t] \in Mementos
        /\ memento[t] # None
    BY RowsAssumption
    DEF JournalInv, TypeOK, DoubtSave, Submitting, MementoIn
  <1>2. /\ m \in Mementos /\ m # None
        /\ m.state = "failed" /\ m.bound = memento[t].bound
    BY <1>1, RowsAssumption, StepFacts DEF Mementos
  <1>3. /\ memento' \in [Tasks -> Mementos \cup {None}]
        /\ memento'[t] = m
        /\ \A u \in Tasks \ {t} : memento'[u] = memento[u]
    BY <1>1, <1>2
    DEF JournalInv, TypeOK, DoubtSave, SaveMemento
  <1> HIDE DEF m
  <1>4. TypeOK'
    BY <1>1, <1>2, <1>3
    DEF JournalInv, TypeOK, DoubtSave, scanner, provider, ghosts, counters
  <1>5. Fresh'
    BY <1>1, <1>2, <1>3
    DEF JournalInv, TypeOK, DoubtSave, Fresh, Bindings, Journal, Engaged,
        OperationIn, scanner, provider, ghosts, counters
  <1>6. Bindings'
    BY <1>1, <1>2, <1>3
    DEF JournalInv, TypeOK, DoubtSave, Bindings, Journal, Engaged,
        OperationIn, scanner, provider, ghosts, counters
  <1>7. /\ OneReservation'
        /\ Journal'
        /\ Submitting'
        /\ Quiet'
        /\ Recovering'
    BY DEF JournalInv, TypeOK, DoubtSave, OneReservation, Journal, Submitting,
           Quiet, Recovering, MementoIn, OperationIn, Reserves, SaveMemento,
           scanner, provider, ghosts, counters
  <1> QED
    BY <1>4, <1>5, <1>6, <1>7 DEF JournalInv

LEMMA AdvanceKeeps ==
    ASSUME JournalInv, NEW t \in Tasks, Advance(t)
    PROVE  JournalInv'
PROOF
  <1> DEFINE m == [memento[t] EXCEPT !.step =
                        IF @ = "init" THEN "download_done" ELSE After(@)]
  <1>1. /\ memento[t] \in Mementos
        /\ memento[t] # None
        /\ memento[t].step # "moved"
    BY RowsAssumption
    DEF JournalInv, TypeOK, Advance, MementoIn
  <1>2. /\ m \in Mementos /\ m # None
        /\ m.state = memento[t].state /\ m.bound = memento[t].bound
    BY <1>1, RowsAssumption, StepFacts DEF Mementos
  <1>3. /\ memento' \in [Tasks -> Mementos \cup {None}]
        /\ memento'[t] = m
        /\ \A u \in Tasks \ {t} : memento'[u] = memento[u]
    BY <1>1, <1>2
    DEF JournalInv, TypeOK, Advance, SaveMemento
  <1> HIDE DEF m
  <1>4. TypeOK'
    BY <1>1, <1>2, <1>3
    DEF JournalInv, TypeOK, Advance, handlers, scanner, provider, ghosts,
        counters
  <1>5. /\ OneReservation'
        /\ Fresh'
        /\ Bindings'
        /\ Journal'
        /\ Submitting'
        /\ Quiet'
        /\ Recovering'
    BY DEF JournalInv, TypeOK, Advance, OneReservation, Fresh, Bindings,
           Journal, Submitting, Quiet, Recovering, Engaged, MementoIn,
           OperationIn, Reserves, SaveMemento, handlers, scanner, provider,
           ghosts, counters
  <1> QED
    BY <1>4, <1>5 DEF JournalInv

LEMMA FailKeeps ==
    ASSUME JournalInv, NEW t \in Tasks, Fail(t)
    PROVE  JournalInv'
PROOF
  <1> DEFINE m == [memento[t] EXCEPT !.state = "failed"]
  <1>1. /\ memento[t] \in Mementos
        /\ memento[t] # None
    BY RowsAssumption
    DEF JournalInv, TypeOK, Fail, MementoIn
  <1>2. /\ m \in Mementos /\ m # None
        /\ m.state = "failed" /\ m.bound = memento[t].bound
    BY <1>1, RowsAssumption, StepFacts DEF Mementos
  <1>3. /\ memento' \in [Tasks -> Mementos \cup {None}]
        /\ memento'[t] = m
        /\ \A u \in Tasks \ {t} : memento'[u] = memento[u]
    BY <1>1, <1>2
    DEF JournalInv, TypeOK, Fail, SaveMemento
  <1> HIDE DEF m
  <1>4. TypeOK'
    BY <1>1, <1>2, <1>3
    DEF JournalInv, TypeOK, Fail, handlers, scanner, provider, ghosts,
        counters
  <1>5. /\ OneReservation'
        /\ Fresh'
        /\ Bindings'
        /\ Journal'
        /\ Submitting'
        /\ Quiet'
        /\ Recovering'
    BY DEF JournalInv, TypeOK, Fail, OneReservation, Fresh, Bindings, Journal,
           Submitting, Quiet, Recovering, Engaged, MementoIn, OperationIn,
           Reserves, SaveMemento, handlers, scanner, provider, ghosts,
           counters
  <1> QED
    BY <1>4, <1>5 DEF JournalInv

LEMMA FailReleaseKeeps ==
    ASSUME JournalInv, NEW t \in Tasks, FailRelease(t)
    PROVE  JournalInv'
PROOF
  <1> DEFINE o == [operation[t] EXCEPT !.state = "failed", !.rejected = FALSE]
  <1>1. /\ operation[t] \in Operations
        /\ operation[t] # None
    BY RowsAssumption
    DEF JournalInv, TypeOK, FailRelease, Bindings, Engaged
  <1>2. /\ o \in Operations /\ o # None
        /\ o.state = "failed" /\ o.bound = operation[t].bound
    BY <1>1, RowsAssumption DEF Operations, Reserving
  <1>3. /\ operation' \in [Tasks -> Operations \cup {None}]
        /\ operation'[t] \in {operation[t], o}
        /\ \A u \in Tasks \ {t} : operation'[u] = operation[u]
    BY <1>1, <1>2
    DEF JournalInv, TypeOK, FailRelease, SaveOperation
  <1> HIDE DEF o
  <1>4. TypeOK'
    BY <1>1, <1>2, <1>3
    DEF JournalInv, TypeOK, FailRelease, handlers, scanner, provider, ghosts,
        counters
  <1>5. OneReservation'
    <2>1. \A u \in Tasks : Reserves(u)' => Reserves(u)
      BY <1>1, <1>2, <1>3
      DEF JournalInv, FailRelease, Journal, Bindings, OperationIn, Engaged,
          Reserves, Reserving
    <2> QED
      BY <2>1 DEF JournalInv, OneReservation, FailRelease
  <1>6. Bindings'
    BY <1>1, <1>2, <1>3
    DEF JournalInv, TypeOK, FailRelease, Bindings, Journal, OperationIn,
        Engaged, handlers, scanner, provider, ghosts, counters
  <1>7. Journal'
    BY <1>1, <1>2, <1>3
    DEF JournalInv, TypeOK, FailRelease, Bindings, Journal, OperationIn,
        Engaged, handlers, scanner, provider, ghosts, counters
  <1>8. Recovering'
    BY <1>1, <1>2, <1>3
    DEF JournalInv, TypeOK, FailRelease, Recovering, Quiet, OperationIn,
        handlers, scanner, provider, ghosts, counters
  <1>9. Fresh' /\ Submitting' /\ Quiet'
    BY DEF JournalInv, TypeOK, FailRelease, Fresh, Submitting, Quiet,
           MementoIn, SaveOperation, OperationIn, handlers, scanner, provider,
           ghosts, counters
  <1> QED
    BY <1>4, <1>5, <1>6, <1>7, <1>8, <1>9 DEF JournalInv

LEMMA CommitResourceKeeps ==
    ASSUME JournalInv, NEW t \in Tasks, CommitResource(t)
    PROVE  JournalInv'
PROOF
  <1>1. TypeOK'
    BY DEF JournalInv, TypeOK, CommitResource, MementoIn, Fresh, rows,
           handlers, scanner, provider, ghosts, counters
  <1>2. /\ OneReservation'
        /\ Fresh'
        /\ Bindings'
        /\ Journal'
        /\ Submitting'
        /\ Quiet'
        /\ Recovering'
    BY DEF JournalInv, TypeOK, CommitResource, OneReservation, Fresh,
           Bindings, Journal, Submitting, Quiet, Recovering, Engaged,
           MementoIn, OperationIn, Reserves, rows, handlers, scanner,
           provider, ghosts, counters
  <1> QED
    BY <1>1, <1>2 DEF JournalInv

LEMMA CompleteKeeps ==
    ASSUME JournalInv, NEW t \in Tasks, Complete(t)
    PROVE  JournalInv'
PROOF
  <1> DEFINE o == [operation[t] EXCEPT !.state = "completed"]
  <1>1. /\ operation[t] \in Operations
        /\ operation[t] # None
    BY RowsAssumption
    DEF JournalInv, TypeOK, Complete, Bindings, Engaged
  <1>2. /\ o \in Operations /\ o # None
        /\ o.state = "completed" /\ o.bound = operation[t].bound
    BY <1>1, RowsAssumption DEF Operations, Reserving
  <1>3. /\ operation' \in [Tasks -> Operations \cup {None}]
        /\ \A u \in Tasks \ {t} : operation'[u] = operation[u]
    BY <1>1, <1>2 DEF JournalInv, TypeOK, Complete, SaveOperation, rows
  <1>4. \/ operation'[t] = operation[t]
        \/ operation'[t] = o /\ OperationIn(t, {"submitted", "completed"})
    BY DEF JournalInv, TypeOK, Complete, SaveOperation, rows
  <1>5. /\ memento' \in [Tasks -> Mementos \cup {None}]
        /\ memento'[t] \in {memento[t], None}
        /\ \A u \in Tasks \ {t} : memento'[u] = memento[u]
    BY DEF JournalInv, TypeOK, Complete, SaveMemento, rows
  <1> HIDE DEF o
  <1>6. TypeOK'
    BY <1>1, <1>2, <1>3, <1>4, <1>5
    DEF JournalInv, TypeOK, Complete, rows, handlers, scanner, provider,
        ghosts, counters
  <1>7. OneReservation'
    <2>1. \A u \in Tasks : Reserves(u)' => Reserves(u)
      BY <1>1, <1>2, <1>3, <1>4, <1>5
      DEF JournalInv, Complete, Journal, Bindings, OperationIn, Engaged,
          Reserves, Reserving
    <2> QED
      BY <2>1 DEF JournalInv, OneReservation, Complete
  <1>8. Bindings'
    BY <1>1, <1>2, <1>3, <1>4, <1>5
    DEF JournalInv, TypeOK, Complete, Bindings, Journal, OperationIn, Engaged,
        rows, handlers, scanner, provider, ghosts, counters
  <1>9. Recovering'
    BY <1>1, <1>2, <1>3, <1>4, <1>5
    DEF JournalInv, TypeOK, Complete, Recovering, Quiet, OperationIn, rows,
        handlers, scanner, provider, ghosts, counters
  <1>10. Fresh' /\ Journal' /\ Submitting' /\ Quiet'
    BY DEF JournalInv, TypeOK, Complete, Fresh, Journal, Submitting, Quiet,
           MementoIn, OperationIn, SaveMemento, SaveOperation, rows, handlers,
           scanner, provider, ghosts, counters
  <1> QED
    BY <1>6, <1>7, <1>8, <1>9, <1>10 DEF JournalInv

LEMMA LeaveKeeps ==
    ASSUME JournalInv, NEW t \in Tasks, Leave(t)
    PROVE  JournalInv'
PROOF
  <1>1. TypeOK'
    BY DEF JournalInv, TypeOK, Leave, rows, handlers, scanner, provider,
           ghosts, counters
  <1>2. /\ OneReservation'
        /\ Fresh'
        /\ Bindings'
        /\ Journal'
        /\ Submitting'
        /\ Quiet'
        /\ Recovering'
    BY DEF JournalInv, TypeOK, Leave, OneReservation, Fresh, Bindings,
           Journal, Submitting, Quiet, Recovering, Engaged, MementoIn,
           OperationIn, Reserves, rows, handlers, scanner, provider, ghosts,
           counters
  <1> QED
    BY <1>1, <1>2 DEF JournalInv

LEMMA ResumeKeeps ==
    ASSUME JournalInv, NEW t \in Tasks, Resume(t)
    PROVE  JournalInv'
PROOF
  <1> DEFINE m == [memento[t] EXCEPT !.state = "downloading", !.bound = TRUE,
                        !.step = IF @ = "init" THEN "submitted" ELSE @,
                        !.rejected = FALSE, !.archived = FALSE]
  <1> DEFINE o == [state |-> "submitted", bound |-> TRUE, rejected |-> FALSE]
  <1>1. /\ memento[t] \in Mementos
        /\ memento[t] # None
        /\ operation[t] # None /\ operation[t].bound
    BY RowsAssumption
    DEF JournalInv, TypeOK, Resume, MementoIn, Bound, Bindings
  <1>2. /\ m \in Mementos /\ m # None
        /\ m.state = "downloading" /\ m.bound = TRUE
    BY <1>1, RowsAssumption, StepFacts DEF Mementos
  <1>3. /\ o \in Operations /\ o # None
        /\ o.state = "submitted" /\ o.bound = TRUE
    BY <1>1, RowsAssumption, NewRows DEF Operations, Reserving
  <1>4. /\ operation' \in [Tasks -> Operations \cup {None}]
        /\ operation'[t] = o
        /\ \A u \in Tasks \ {t} : operation'[u] = operation[u]
        /\ memento' \in [Tasks -> Mementos \cup {None}]
        /\ memento'[t] = m
        /\ \A u \in Tasks \ {t} : memento'[u] = memento[u]
    BY <1>1, <1>2, <1>3
    DEF JournalInv, TypeOK, Resume, SaveMemento, SaveOperation
  <1> HIDE DEF m, o
  <1>5. TypeOK'
    BY <1>1, <1>2, <1>3, <1>4
    DEF JournalInv, TypeOK, Resume, scanner, provider, counters
  <1>6. OneReservation'
    BY <1>1, <1>2, <1>3, <1>4
    DEF JournalInv, TypeOK, Resume, OneReservation, Fresh, Bindings,
        MementoIn, OperationIn, Bound, Duplicate, Created, Reserves, SameUrl,
        Engaged, scanner, provider, counters
  <1>7. Bindings'
    BY <1>1, <1>2, <1>3, <1>4
    DEF JournalInv, TypeOK, Resume, Bindings, Journal, MementoIn, OperationIn,
        Bound, Duplicate, Created, Reserves, SameUrl, Engaged, scanner,
        provider, counters
  <1>8. Journal'
    BY <1>1, <1>2, <1>3, <1>4
    DEF JournalInv, TypeOK, Resume, Bindings, Journal, MementoIn, OperationIn,
        Bound, Duplicate, Created, Reserves, SameUrl, Engaged, scanner,
        provider, counters
  <1>9. Fresh' /\ Submitting' /\ Quiet' /\ Recovering'
    BY DEF JournalInv, TypeOK, Resume, Fresh, Submitting, Quiet, Recovering,
           MementoIn, OperationIn, SaveMemento, SaveOperation, Bound,
           Duplicate, Created, Reserves, SameUrl, scanner, provider, counters
  <1> QED
    BY <1>5, <1>6, <1>7, <1>8, <1>9 DEF JournalInv

LEMMA StartResumedKeeps ==
    ASSUME JournalInv, NEW t \in Tasks, StartResumed(t)
    PROVE  JournalInv'
PROOF
  <1>1. TypeOK'
    BY DEF JournalInv, TypeOK, StartResumed, StartWorkers, rows, scanner,
           provider, ghosts, counters
  <1>2. /\ OneReservation'
        /\ Fresh'
        /\ Bindings'
        /\ Journal'
        /\ Submitting'
        /\ Quiet'
        /\ Recovering'
    BY DEF JournalInv, TypeOK, StartResumed, OneReservation, Fresh, Bindings,
           Journal, Submitting, Quiet, Recovering, Engaged, MementoIn,
           OperationIn, Reserves, StartWorkers, rows, scanner, provider,
           ghosts, counters
  <1> QED
    BY <1>1, <1>2 DEF JournalInv

LEMMA ReleaseRejectedKeeps ==
    ASSUME JournalInv, NEW t \in Tasks, ReleaseRejected(t)
    PROVE  JournalInv'
PROOF
  <1>1. TypeOK'
    BY RowEdits
    DEF JournalInv, TypeOK, ReleaseRejected, SaveOperation, MementoIn,
        Operations, Reserving, scanner, provider, ghosts, counters
  <1>2. /\ OneReservation'
        /\ Fresh'
        /\ Bindings'
        /\ Journal'
        /\ Submitting'
        /\ Quiet'
        /\ Recovering'
    BY DEF JournalInv, TypeOK, ReleaseRejected, OneReservation, Fresh,
           Bindings, Journal, Submitting, Quiet, Recovering, Engaged,
           MementoIn, OperationIn, Reserves, SaveOperation, Bound, Rejected,
           Duplicate, Created, SameUrl, scanner, provider, ghosts, counters
  <1> QED
    BY <1>1, <1>2 DEF JournalInv

LEMMA ResubmitKeeps ==
    ASSUME JournalInv, NEW old \in Tasks, NEW t \in Tasks, Resubmit(old, t)
    PROVE  JournalInv'
PROOF
  <1>1. Reserve(t, urlOf[old], old)
    BY DEF Resubmit
  <1>2. urlOf[old] \in Urls
    BY DEF JournalInv, TypeOK, Fresh, Resubmit
  <1>3. /\ mode = "serving"
        /\ urlOf[t] = None /\ urlOf'[t] = urlOf[old] /\ urlOf[old] # None
        /\ memento[t] = None /\ memento'[t] # None
        /\ memento'[t].state = "pending" /\ ~memento'[t].bound
        /\ operation[t] = None /\ operation'[t] # None
        /\ operation'[t].state = "intent" /\ ~operation'[t].bound
        /\ outcome[t] = "none" /\ worker[t] = "none"
        /\ t \notin resubmits \cup resumed \cup scanned
        /\ submit' = [submit EXCEPT ![t] = "reserved"]
        /\ \A v \in Tasks \ {t} : /\ memento'[v] = memento[v]
                                  /\ operation'[v] = operation[v]
                                  /\ urlOf'[v] = urlOf[v]
    BY <1>1, <1>2, Reserved
  <1>4. TypeOK'
    BY NewRows, <1>2
    DEF JournalInv, TypeOK, Resubmit, Reserve, SaveMemento, SaveOperation,
        Mementos, Operations, Reserving, scanner, provider, ghosts, counters
  <1>5. OneReservation'
    <2>1. \A v \in Tasks : urlOf[v] = urlOf[old] => ~Reserves(v)
      BY <1>1, <1>3, UrlsAssumption DEF Reserve, Created
    <2> QED
      BY <1>3, <2>1 DEF JournalInv, OneReservation, Reserves
  <1>6. Bindings'
    BY <1>3
    DEF JournalInv, TypeOK, Bindings, Journal, Resubmit, Reserves, Engaged,
        OperationIn, scanner, provider, ghosts, counters
  <1>7. Journal'
    BY <1>3
    DEF JournalInv, TypeOK, Bindings, Journal, Resubmit, Reserves, Engaged,
        OperationIn, scanner, provider, ghosts, counters
  <1>8. Submitting'
    BY <1>3
    DEF JournalInv, TypeOK, Bindings, Journal, Submitting, Resubmit, Reserves,
        Engaged, MementoIn, OperationIn, scanner, provider, ghosts, counters
  <1>9. Fresh' /\ Quiet' /\ Recovering'
    BY DEF JournalInv, TypeOK, Resubmit, Fresh, Quiet, Recovering,
           OperationIn, Reserve, SaveMemento, SaveOperation, Created,
           Reserves, scanner, provider, ghosts, counters
  <1> QED
    BY <1>4, <1>5, <1>6, <1>7, <1>8, <1>9 DEF JournalInv

LEMMA ResubmitRefusedKeeps ==
    ASSUME JournalInv, NEW t \in Tasks, ResubmitRefused(t)
    PROVE  JournalInv'
PROOF
  <1>1. TypeOK'
    BY DEF JournalInv, TypeOK, ResubmitRefused, rows, scanner, provider,
           ghosts, counters
  <1>2. /\ OneReservation'
        /\ Fresh'
        /\ Bindings'
        /\ Journal'
        /\ Submitting'
        /\ Quiet'
        /\ Recovering'
    BY DEF JournalInv, TypeOK, ResubmitRefused, OneReservation, Fresh,
           Bindings, Journal, Submitting, Quiet, Recovering, Engaged,
           MementoIn, OperationIn, Reserves, Created, rows, scanner, provider,
           ghosts, counters
  <1> QED
    BY <1>1, <1>2 DEF JournalInv

LEMMA ArchiveKeeps ==
    ASSUME JournalInv, NEW t \in Tasks, Archive(t)
    PROVE  JournalInv'
PROOF
  <1> DEFINE m == [memento[t] EXCEPT !.archived = TRUE]
  <1>1. /\ memento[t] \in Mementos
        /\ memento[t] # None
    BY RowsAssumption
    DEF JournalInv, TypeOK, Archive, MementoIn
  <1>2. /\ m \in Mementos /\ m # None
        /\ m.state = memento[t].state /\ m.bound = memento[t].bound
    BY <1>1, RowsAssumption, StepFacts DEF Mementos
  <1>3. /\ memento' \in [Tasks -> Mementos \cup {None}]
        /\ memento'[t] = m
        /\ \A u \in Tasks \ {t} : memento'[u] = memento[u]
    BY <1>1, <1>2
    DEF JournalInv, TypeOK, Archive, SaveMemento
  <1> HIDE DEF m
  <1>4. TypeOK'
    BY <1>1, <1>2, <1>3
    DEF JournalInv, TypeOK, Archive, handlers, scanner, provider, ghosts,
        counters
  <1>5. /\ OneReservation'
        /\ Fresh'
        /\ Bindings'
        /\ Journal'
        /\ Submitting'
        /\ Quiet'
        /\ Recovering'
    BY DEF JournalInv, TypeOK, Archive, OneReservation, Fresh, Bindings,
           Journal, Submitting, Quiet, Recovering, Engaged, MementoIn,
           OperationIn, Reserves, SaveMemento, handlers, scanner, provider,
           ghosts, counters
  <1> QED
    BY <1>4, <1>5 DEF JournalInv

LEMMA ScanLibraryKeeps ==
    ASSUME JournalInv, ScanLibrary
    PROVE  JournalInv'
PROOF
  <1>1. TypeOK'
    BY DEF JournalInv, TypeOK, ScanLibrary, rows, handlers, provider, ghosts,
           counters
  <1>2. /\ OneReservation'
        /\ Fresh'
        /\ Bindings'
        /\ Journal'
        /\ Submitting'
        /\ Quiet'
        /\ Recovering'
    BY DEF JournalInv, TypeOK, ScanLibrary, OneReservation, Fresh, Bindings,
           Journal, Submitting, Quiet, Recovering, Engaged, MementoIn,
           OperationIn, Reserves, rows, handlers, provider, ghosts, counters
  <1> QED
    BY <1>1, <1>2 DEF JournalInv

LEMMA ScanTasksKeeps ==
    ASSUME JournalInv, ScanTasks
    PROVE  JournalInv'
PROOF
  <1>1. TypeOK'
    BY DEF JournalInv, TypeOK, ScanTasks, rows, handlers, provider, ghosts,
           counters
  <1>2. /\ OneReservation'
        /\ Fresh'
        /\ Bindings'
        /\ Journal'
        /\ Submitting'
        /\ Quiet'
        /\ Recovering'
    BY DEF JournalInv, TypeOK, ScanTasks, OneReservation, Fresh, Bindings,
           Journal, Submitting, Quiet, Recovering, Engaged, MementoIn,
           OperationIn, Reserves, Created, rows, handlers, provider, ghosts,
           counters
  <1> QED
    BY <1>1, <1>2 DEF JournalInv

LEMMA ScanSubmitKeeps ==
    ASSUME JournalInv, NEW t \in Tasks, NEW u \in Urls, ScanSubmit(t, u)
    PROVE  JournalInv'
PROOF
  <1>1. Reserve(t, u, "scan")
    BY DEF ScanSubmit
  <1>2. /\ mode = "serving"
        /\ urlOf[t] = None /\ urlOf'[t] = u /\ u # None
        /\ memento[t] = None /\ memento'[t] # None
        /\ memento'[t].state = "pending" /\ ~memento'[t].bound
        /\ operation[t] = None /\ operation'[t] # None
        /\ operation'[t].state = "intent" /\ ~operation'[t].bound
        /\ outcome[t] = "none" /\ worker[t] = "none"
        /\ t \notin resubmits \cup resumed \cup scanned
        /\ submit' = [submit EXCEPT ![t] = "reserved"]
        /\ \A v \in Tasks \ {t} : /\ memento'[v] = memento[v]
                                  /\ operation'[v] = operation[v]
                                  /\ urlOf'[v] = urlOf[v]
    BY <1>1, Reserved
  <1>3. TypeOK'
    BY NewRows
    DEF JournalInv, TypeOK, ScanSubmit, Reserve, SaveMemento, SaveOperation,
        Mementos, Operations, Reserving, provider, ghosts, counters
  <1>4. OneReservation'
    <2>1. \A v \in Tasks : urlOf[v] = u => ~Reserves(v)
      BY <1>1, <1>2, UrlsAssumption DEF Reserve, Created
    <2> QED
      BY <1>2, <2>1 DEF JournalInv, OneReservation, Reserves
  <1>5. Fresh'
    BY <1>2
    DEF JournalInv, TypeOK, Fresh, Bindings, Journal, ScanSubmit, Reserves,
        Scanning, Engaged, OperationIn, provider, ghosts, counters
  <1>6. Bindings'
    BY <1>2
    DEF JournalInv, TypeOK, Bindings, Journal, ScanSubmit, Reserves, Scanning,
        Engaged, OperationIn, provider, ghosts, counters
  <1>7. Journal'
    BY <1>2
    DEF JournalInv, TypeOK, Bindings, Journal, ScanSubmit, Reserves, Scanning,
        Engaged, OperationIn, provider, ghosts, counters
  <1>8. Submitting'
    BY <1>2
    DEF JournalInv, TypeOK, Bindings, Journal, Submitting, ScanSubmit,
        Reserves, Scanning, Engaged, MementoIn, OperationIn, provider, ghosts,
        counters
  <1>9. Quiet' /\ Recovering'
    BY DEF JournalInv, TypeOK, ScanSubmit, Quiet, Recovering, OperationIn,
           Reserve, SaveMemento, SaveOperation, Created, Reserves, Scanning,
           provider, ghosts, counters
  <1> QED
    BY <1>3, <1>4, <1>5, <1>6, <1>7, <1>8, <1>9 DEF JournalInv

LEMMA ScanSkipKeeps ==
    ASSUME JournalInv, NEW u \in Urls, ScanSkip(u)
    PROVE  JournalInv'
PROOF
  <1>1. TypeOK'
    BY DEF JournalInv, TypeOK, ScanSkip, rows, handlers, provider, ghosts,
           counters
  <1>2. /\ OneReservation'
        /\ Fresh'
        /\ Bindings'
        /\ Journal'
        /\ Submitting'
        /\ Quiet'
        /\ Recovering'
    BY DEF JournalInv, TypeOK, ScanSkip, OneReservation, Fresh, Bindings,
           Journal, Submitting, Quiet, Recovering, Engaged, MementoIn,
           OperationIn, Reserves, Created, Scanning, rows, handlers, provider,
           ghosts, counters
  <1> QED
    BY <1>1, <1>2 DEF JournalInv

LEMMA ScanEndKeeps ==
    ASSUME JournalInv, ScanEnd
    PROVE  JournalInv'
PROOF
  <1>1. TypeOK'
    BY DEF JournalInv, TypeOK, ScanEnd, StartWorkers, rows, handlers,
           provider, ghosts, counters
  <1>2. /\ OneReservation'
        /\ Fresh'
        /\ Bindings'
        /\ Journal'
        /\ Submitting'
        /\ Quiet'
        /\ Recovering'
    BY DEF JournalInv, TypeOK, ScanEnd, OneReservation, Fresh, Bindings,
           Journal, Submitting, Quiet, Recovering, Engaged, MementoIn,
           OperationIn, Reserves, StartWorkers, Created, Scanning, rows,
           handlers, provider, ghosts, counters
  <1> QED
    BY <1>1, <1>2 DEF JournalInv

LEMMA RemoteCreateKeeps ==
    ASSUME JournalInv, NEW t \in Tasks, RemoteCreate(t)
    PROVE  JournalInv'
PROOF
  <1>1. TypeOK'
    BY DEF JournalInv, TypeOK, RemoteCreate, rows, handlers, scanner, ghosts,
           counters
  <1>2. /\ OneReservation'
        /\ Fresh'
        /\ Bindings'
        /\ Journal'
        /\ Submitting'
        /\ Quiet'
        /\ Recovering'
    BY DEF JournalInv, TypeOK, RemoteCreate, OneReservation, Fresh, Bindings,
           Journal, Submitting, Quiet, Recovering, Engaged, MementoIn,
           OperationIn, Reserves, rows, handlers, scanner, ghosts, counters
  <1> QED
    BY <1>1, <1>2 DEF JournalInv

LEMMA RequestLostKeeps ==
    ASSUME JournalInv, NEW t \in Tasks, RequestLost(t)
    PROVE  JournalInv'
PROOF
  <1>1. TypeOK'
    BY DEF JournalInv, TypeOK, RequestLost, rows, handlers, scanner, ghosts,
           counters
  <1>2. /\ OneReservation'
        /\ Fresh'
        /\ Bindings'
        /\ Journal'
        /\ Submitting'
        /\ Quiet'
        /\ Recovering'
    BY DEF JournalInv, TypeOK, RequestLost, OneReservation, Fresh, Bindings,
           Journal, Submitting, Quiet, Recovering, Engaged, MementoIn,
           OperationIn, Reserves, rows, handlers, scanner, ghosts, counters
  <1> QED
    BY <1>1, <1>2 DEF JournalInv

LEMMA RemoteEndKeeps ==
    ASSUME JournalInv, NEW t \in Tasks, RemoteEnd(t) \/ Forget(t) \/ CleanedUnsaved(t)
    PROVE  JournalInv'
PROOF
  <1>1. TypeOK'
    BY DEF JournalInv, TypeOK, RemoteEnd, Forget, CleanedUnsaved, rows, handlers, scanner, ghosts,
           counters
  <1>2. /\ OneReservation'
        /\ Fresh'
        /\ Bindings'
        /\ Journal'
        /\ Submitting'
        /\ Quiet'
        /\ Recovering'
    BY DEF JournalInv, TypeOK, RemoteEnd, Forget, CleanedUnsaved, OneReservation, Fresh, Bindings,
           Journal, Submitting, Quiet, Recovering, Engaged, MementoIn,
           OperationIn, Reserves, rows, handlers, scanner, ghosts, counters
  <1> QED
    BY <1>1, <1>2 DEF JournalInv

LEMMA CrashKeeps ==
    ASSUME JournalInv, Crash
    PROVE  JournalInv'
PROOF
  <1>1. TypeOK'
    BY BoundsAssumption
    DEF JournalInv, TypeOK, Crash, rows, provider, ghosts
  <1>2. /\ OneReservation'
        /\ Fresh'
        /\ Bindings'
        /\ Journal'
        /\ Submitting'
        /\ Quiet'
        /\ Recovering'
    BY DEF JournalInv, TypeOK, Crash, OneReservation, Fresh, Bindings,
           Journal, Submitting, Quiet, Recovering, Engaged, MementoIn,
           OperationIn, Reserves, rows, provider, ghosts
  <1> QED
    BY <1>1, <1>2 DEF JournalInv

LEMMA BootKeeps ==
    ASSUME JournalInv, Boot
    PROVE  JournalInv'
PROOF
  <1>1. TypeOK'
    BY RowEdits
    DEF JournalInv, TypeOK, Boot, OperationIn, Operations, Reserving,
        handlers, scanner, provider, ghosts, counters
  <1>2. OneReservation'
    <2>1. \A t \in Tasks : Reserves(t)' => Reserves(t)
      BY RowEdits DEF JournalInv, TypeOK, Boot, OperationIn, Reserves, Reserving
    <2> QED
      BY <2>1 DEF JournalInv, OneReservation, Boot
  <1>3. Journal'
    BY RowEdits
    DEF JournalInv, TypeOK, Journal, Quiet, Boot, OperationIn, handlers,
        scanner, provider, ghosts, counters
  <1>4. Fresh' /\ Bindings' /\ Submitting' /\ Quiet' /\ Recovering'
    BY DEF JournalInv, TypeOK, Boot, Fresh, Bindings, Submitting, Quiet,
           Recovering, Engaged, MementoIn, OperationIn, handlers, scanner,
           provider, ghosts, counters
  <1> QED
    BY <1>1, <1>2, <1>3, <1>4 DEF JournalInv

LEMMA RecoverKeeps ==
    ASSUME JournalInv, NEW t \in Tasks, Recover(t)
    PROVE  JournalInv'
PROOF
  <1> DEFINE m == [memento[t] EXCEPT !.state = "downloading", !.bound = TRUE,
                        !.step = IF @ = "init" THEN "submitted" ELSE @]
  <1>1. /\ memento[t] \in Mementos
        /\ memento[t] # None
    BY RowsAssumption
    DEF JournalInv, TypeOK, Recover, Resumable, MementoIn
  <1>2. /\ m \in Mementos /\ m # None
        /\ m.state = "downloading" /\ m.bound = TRUE
    BY <1>1, RowsAssumption, StepFacts DEF Mementos
  <1>3. /\ memento' \in [Tasks -> Mementos \cup {None}]
        /\ memento'[t] = m
        /\ \A u \in Tasks \ {t} : memento'[u] = memento[u]
    BY <1>1, <1>2
    DEF JournalInv, TypeOK, Recover, SaveMemento
  <1> HIDE DEF m
  <1>4. TypeOK'
    BY <1>1, <1>2, <1>3
    DEF JournalInv, TypeOK, Recover, handlers, scanner, provider, ghosts,
        counters
  <1>5. Submitting'
    BY <1>1, <1>2, <1>3
    DEF JournalInv, TypeOK, Recover, Submitting, Quiet, MementoIn,
        OperationIn, Resumable, Created, handlers, scanner, provider, ghosts,
        counters
  <1>6. /\ OneReservation'
        /\ Fresh'
        /\ Bindings'
        /\ Journal'
        /\ Quiet'
        /\ Recovering'
    BY DEF JournalInv, TypeOK, Recover, OneReservation, Fresh, Bindings,
           Journal, Quiet, Recovering, Engaged, OperationIn, Reserves,
           SaveMemento, MementoIn, Resumable, Created, handlers, scanner,
           provider, ghosts, counters
  <1> QED
    BY <1>4, <1>5, <1>6 DEF JournalInv

LEMMA ServeKeeps ==
    ASSUME JournalInv, Serve
    PROVE  JournalInv'
PROOF
  <1>1. TypeOK'
    BY DEF JournalInv, TypeOK, Serve, StartWorkers, rows, handlers, scanner,
           provider, counters
  <1>2. Bindings'
    BY DEF JournalInv, TypeOK, Bindings, Recovering, Serve, StartWorkers,
           MementoIn, OperationIn, Resumable, Created, Engaged, rows,
           handlers, scanner, provider, counters
  <1>3. Submitting'
    BY DEF JournalInv, TypeOK, Submitting, Quiet, Serve, StartWorkers,
           MementoIn, OperationIn, Resumable, Created, rows, handlers,
           scanner, provider, counters
  <1>4. OneReservation' /\ Fresh' /\ Journal' /\ Quiet' /\ Recovering'
    BY DEF JournalInv, TypeOK, Serve, OneReservation, Fresh, Journal, Quiet,
           Recovering, OperationIn, Reserves, StartWorkers, MementoIn,
           Resumable, Created, rows, handlers, scanner, provider, counters
  <1> QED
    BY <1>1, <1>2, <1>3, <1>4 DEF JournalInv

LEMMA AbandonKeeps ==
    ASSUME JournalInv, NEW t \in Tasks, Abandon(t)
    PROVE  JournalInv'
PROOF
  <1>1. TypeOK'
    BY BoundsAssumption
    DEF JournalInv, TypeOK, Abandon, rows, scanner, provider
  <1>2. /\ OneReservation'
        /\ Fresh'
        /\ Bindings'
        /\ Journal'
        /\ Submitting'
        /\ Quiet'
        /\ Recovering'
    BY DEF JournalInv, TypeOK, Abandon, OneReservation, Fresh, Bindings,
           Journal, Submitting, Quiet, Recovering, Engaged, MementoIn,
           OperationIn, Reserves, rows, scanner, provider
  <1> QED
    BY <1>1, <1>2 DEF JournalInv

LEMMA AbandonScanKeeps ==
    ASSUME JournalInv, AbandonScan
    PROVE  JournalInv'
PROOF
  <1>1. TypeOK'
    BY BoundsAssumption
    DEF JournalInv, TypeOK, AbandonScan, Created, rows, provider
  <1>2. /\ OneReservation'
        /\ Fresh'
        /\ Bindings'
        /\ Journal'
        /\ Submitting'
        /\ Quiet'
        /\ Recovering'
    BY DEF JournalInv, TypeOK, AbandonScan, OneReservation, Fresh, Bindings,
           Journal, Submitting, Quiet, Recovering, Engaged, MementoIn,
           OperationIn, Reserves, Created, rows, provider
  <1> QED
    BY <1>1, <1>2 DEF JournalInv

-----------------------------------------------------------------------------
(* The invariant.                                                          *)

LEMMA InitKeeps == Init => JournalInv
PROOF
  <1> SUFFICES ASSUME Init PROVE JournalInv
    OBVIOUS
  <1>1. TypeOK
    BY BoundsAssumption DEF Init, TypeOK
  <1>2. OneReservation /\ Fresh /\ Bindings
    BY DEF Init, OneReservation, Fresh, Bindings, Engaged, Reserves, OperationIn
  <1>3. Journal /\ Submitting /\ Quiet /\ Recovering
    BY DEF Init, Journal, Submitting, Quiet, Recovering
  <1> QED
    BY <1>1, <1>2, <1>3 DEF JournalInv

LEMMA JournalStep == JournalInv /\ [Next]_vars => JournalInv'
PROOF
  <1> SUFFICES ASSUME JournalInv, [Next]_vars PROVE JournalInv'
    OBVIOUS
  <1>1. ASSUME NEW t \in Tasks, NEW u \in Urls, CreateDownload(t, u) PROVE JournalInv'
    BY <1>1, CreateDownloadKeeps
  <1>2. ASSUME NEW t \in Tasks, Submission(t) PROVE JournalInv'
    BY <1>2, BeginKeeps, AnsweredKeeps, RefusedKeeps, UnansweredKeeps, AcceptKeeps,
       AcceptSaveKeeps, ArchiveReplacedKeeps, HandOverKeeps, RefusedSaveKeeps,
       RefusedReleaseKeeps, DoubtKeeps, DoubtSaveKeeps
    DEF Submission
  <1>3. ASSUME NEW t \in Tasks, Work(t) PROVE JournalInv'
    BY <1>3, AdvanceKeeps, FailKeeps, FailReleaseKeeps, CommitResourceKeeps,
       CompleteKeeps, LeaveKeeps
    DEF Work
  <1>4. ASSUME NEW t \in Tasks, Control(t) PROVE JournalInv'
    BY <1>4, ResumeKeeps, StartResumedKeeps, ReleaseRejectedKeeps,
       ResubmitRefusedKeeps, ArchiveKeeps, AbandonKeeps, ResubmitKeeps
    DEF Control
  <1>5. ASSUME NEW t \in Tasks, OpenList(t) PROVE JournalInv'
    BY <1>5, RemoteCreateKeeps, RequestLostKeeps, RemoteEndKeeps DEF OpenList
  <1>6. CASE Scan
    BY <1>6, ScanLibraryKeeps, ScanTasksKeeps, ScanEndKeeps, ScanSkipKeeps,
       ScanSubmitKeeps
    DEF Scan
  <1>7. CASE Process
    BY <1>7, CrashKeeps, AbandonScanKeeps, BootKeeps, ServeKeeps, RecoverKeeps
    DEF Process
  <1>8. CASE UNCHANGED vars
    <2> USE <1>8 DEF vars, rows, handlers, scanner, provider, ghosts, counters
    <2>1. TypeOK'
      BY DEF JournalInv, TypeOK
    <2>2. OneReservation' /\ Fresh' /\ Bindings'
      BY DEF JournalInv, OneReservation, Fresh, Bindings, Engaged, Reserves, OperationIn
    <2>3. Journal' /\ Submitting' /\ Quiet' /\ Recovering'
      BY DEF JournalInv, Journal, Submitting, Quiet, Recovering, OperationIn, MementoIn
    <2> QED
      BY <2>1, <2>2, <2>3 DEF JournalInv
  <1> QED
    BY <1>1, <1>2, <1>3, <1>4, <1>5, <1>6, <1>7, <1>8 DEF Next

LEMMA JournalCorrect == Spec => []JournalInv
  BY InitKeeps, JournalStep, PTL DEF Spec

(* TypeOK holds of every behaviour, whatever the tasks, URLs and bounds.   *)
THEOREM TypeCorrect == Spec => []TypeOK
PROOF
  <1>1. JournalInv => TypeOK
    BY DEF JournalInv
  <1> QED
    BY <1>1, JournalCorrect, PTL

-----------------------------------------------------------------------------
(* The refinement.                                                         *)

Claimed(t, u) == urlOf[t] = u /\ Reserves(t)

(* The holder of a URL is the one task that reserves it.                   *)
HolderFacts ==
    /\ Holder \in [Urls -> Tasks \cup {None}]
    /\ \A u \in Urls, t \in Tasks : Holder[u] = t <=> Claimed(t, u)

LEMMA HolderIsClaimant == JournalInv => HolderFacts
PROOF
  <1> SUFFICES ASSUME JournalInv PROVE HolderFacts
    OBVIOUS
  <1>1. ASSUME NEW u \in Urls
        PROVE  /\ Holder[u] \in Tasks \cup {None}
               /\ \A t \in Tasks : Holder[u] = t <=> Claimed(t, u)
    <2>1. CASE \E t \in Created : Claimed(t, u)
      <3>1. Holder[u] = CHOOSE t \in Created : Claimed(t, u)
        BY <2>1 DEF Holder, Claimed
      <3>2. Holder[u] \in Created /\ Claimed(Holder[u], u)
        BY <2>1, <3>1
      <3>3. \A t \in Tasks : Claimed(t, u) => t = Holder[u]
        BY <3>2 DEF JournalInv, OneReservation, Claimed, Created
      <3> QED
        BY <3>2, <3>3 DEF Created
    <2>2. CASE ~\E t \in Created : Claimed(t, u)
      <3>1. Holder[u] = None
        BY <2>2 DEF Holder, Claimed
      <3>2. \A t \in Tasks : ~Claimed(t, u)
        BY <2>2, UrlsAssumption DEF Claimed, Created
      <3> QED
        BY <3>1, <3>2, TasksAssumption
    <2> QED
      BY <2>1, <2>2
  <1>2. Holder \in [Urls -> Tasks \cup {None}]
    BY <1>1 DEF Holder
  <1> QED
    BY <1>1, <1>2 DEF HolderFacts

(* What a step does to the claims decides what it does to the holders.     *)
LEMMA SameHolders ==
    ASSUME HolderFacts, HolderFacts',
           \A t \in Tasks, u \in Urls : Claimed(t, u)' <=> Claimed(t, u)
    PROVE  Holder' = Holder
PROOF
  <1>1. ASSUME NEW u \in Urls PROVE Holder'[u] = Holder[u]
    BY TasksAssumption DEF HolderFacts
  <1> QED
    BY <1>1 DEF HolderFacts

LEMMA NewHolder ==
    ASSUME HolderFacts, HolderFacts', NEW t \in Tasks, NEW u \in Urls,
           Claimed(t, u)',
           \A v \in Tasks, w \in Urls : w # u => (Claimed(v, w)' <=> Claimed(v, w))
    PROVE  Holder' = [Holder EXCEPT ![u] = t]
PROOF
  <1>1. ASSUME NEW w \in Urls PROVE Holder'[w] = IF w = u THEN t ELSE Holder[w]
    BY TasksAssumption DEF HolderFacts
  <1> QED
    BY <1>1 DEF HolderFacts

LEMMA NoHolder ==
    ASSUME HolderFacts, HolderFacts', NEW u \in Urls,
           \A v \in Tasks : ~Claimed(v, u)',
           \A v \in Tasks, w \in Urls : w # u => (Claimed(v, w)' <=> Claimed(v, w))
    PROVE  Holder' = [Holder EXCEPT ![u] = None]
PROOF
  <1>1. ASSUME NEW w \in Urls PROVE Holder'[w] = IF w = u THEN None ELSE Holder[w]
    BY TasksAssumption DEF HolderFacts
  <1> QED
    BY <1>1 DEF HolderFacts

(* Steps that leave the journal alone.                                     *)
LEMMA StutterClaims ==
    ASSUME HolderFacts, HolderFacts', UNCHANGED <<operation, urlOf, outcome>>
    PROVE  UNCHANGED <<Holder, outcome>>
PROOF
  <1>1. \A t \in Tasks, u \in Urls : Claimed(t, u)' <=> Claimed(t, u)
    BY DEF Claimed, Reserves
  <1> QED
    BY <1>1, SameHolders

LEMMA ReserveTakes ==
    ASSUME JournalInv, HolderFacts, HolderFacts', NEW t \in Tasks, NEW u \in Urls,
           NEW who, Reserve(t, u, who), UNCHANGED outcome
    PROVE  Claims!Take(t, u)
PROOF
  <1>1. /\ urlOf[t] = None /\ urlOf'[t] = u /\ u # None /\ outcome[t] = "none"
        /\ operation[t] = None /\ operation'[t] # None /\ operation'[t].state = "intent"
        /\ \A v \in Tasks \ {t} : operation'[v] = operation[v] /\ urlOf'[v] = urlOf[v]
    BY Reserved
  <1>2. \A v \in Tasks : ~Claimed(v, u)
    BY <1>1 DEF Reserve, Created, Claimed
  <1>3. Holder[u] = None
    BY <1>2 DEF HolderFacts
  <1>4. \A w \in Urls : Holder[w] # t
    BY <1>1, UrlsAssumption DEF HolderFacts, Claimed
  <1>5. Claimed(t, u)'
    BY <1>1 DEF Claimed, Reserves, Reserving
  <1>6. \A v \in Tasks, w \in Urls : w # u => (Claimed(v, w)' <=> Claimed(v, w))
    BY <1>1, UrlsAssumption DEF Claimed, Reserves
  <1>7. Holder' = [Holder EXCEPT ![u] = t]
    BY <1>5, <1>6, NewHolder
  <1> QED
    BY <1>1, <1>3, <1>4, <1>7 DEF Claims!Take

LEMMA BeginCalls ==
    ASSUME JournalInv, HolderFacts, HolderFacts', NEW t \in Tasks, Begin(t)
    PROVE  Claims!Call(t, urlOf[t])
PROOF
  <1>1. OperationIn(t, {"intent"}) /\ outcome[t] = "none"
    BY DEF JournalInv, Journal, Begin
  <1>2. urlOf[t] \in Urls
    BY <1>1 DEF JournalInv, TypeOK, Fresh, OperationIn
  <1>3. Holder[urlOf[t]] = t
    BY <1>1, <1>2 DEF HolderFacts, Claimed, Reserves, Reserving, OperationIn
  <1>4. \A v \in Tasks : Reserves(v)' <=> Reserves(v)
    <2> DEFINE o == [operation[t] EXCEPT !.state = "sending"]
    <2>1. o # None /\ o.state = "sending"
      BY <1>1, RowsAssumption DEF JournalInv, TypeOK, OperationIn, Operations, Reserving
    <2>2. operation' = [operation EXCEPT ![t] = o]
      BY DEF Begin, SaveOperation
    <2> HIDE DEF o
    <2> QED
      BY <1>1, <2>1, <2>2 DEF JournalInv, TypeOK, OperationIn, Reserves, Reserving
  <1>5. Holder' = Holder
    BY <1>4, SameHolders DEF Claimed, Begin
  <1> QED
    BY <1>1, <1>3, <1>5 DEF Claims!Call, Begin, JournalInv, TypeOK

LEMMA AnswerLearns ==
    ASSUME JournalInv, HolderFacts, HolderFacts', NEW t \in Tasks,
           Answered(t) \/ Refused(t)
    PROVE  Claims!Learn(t)
PROOF
  <1>1. outcome[t] = "unknown"
    BY DEF JournalInv, Journal, Answered, Refused
  <1>2. \A v \in Tasks, w \in Urls : Claimed(v, w)' <=> Claimed(v, w)
    BY DEF Claimed, Reserves, Answered, Refused, rows
  <1>3. Holder' = Holder
    BY <1>2, SameHolders
  <1> QED
    BY <1>1, <1>3 DEF Claims!Learn, Answered, Refused

(* A task whose row changes from one reserving state to another keeps its  *)
(* claim.                                                                  *)
LEMMA JournalKeepsClaims ==
    ASSUME JournalInv, HolderFacts, HolderFacts',
           (\E t \in Tasks : Accept(t) \/ Doubt(t) \/ ReleaseRejected(t)) \/ Boot
    PROVE  UNCHANGED <<Holder, outcome>>
PROOF
  <1>1. ASSUME NEW t \in Tasks, Accept(t) \/ Doubt(t)
        PROVE  \A v \in Tasks : Reserves(v)' <=> Reserves(v)
    <2>1. OperationIn(t, {"sending"})
      BY <1>1 DEF JournalInv, Journal, Accept, Doubt
    <2>2. operation[t] \in Operations /\ operation[t] # None
      BY <2>1 DEF JournalInv, TypeOK, OperationIn
    <2>3. /\ operation'[t] # None /\ operation'[t].state \in {"submitted", "uncertain"}
          /\ \A v \in Tasks \ {t} : operation'[v] = operation[v]
      <3> DEFINE a == [operation[t] EXCEPT !.state = "submitted", !.bound = TRUE]
                 d == [operation[t] EXCEPT !.state = "uncertain"]
      <3>1. /\ a # None /\ a.state = "submitted"
            /\ d # None /\ d.state = "uncertain"
        BY <2>2, RowsAssumption DEF Operations, Reserving
      <3>2. \/ operation' = [operation EXCEPT ![t] = a]
            \/ operation' = [operation EXCEPT ![t] = d]
        BY <1>1 DEF Accept, Doubt, SaveOperation
      <3> HIDE DEF a, d
      <3> QED
        BY <3>1, <3>2 DEF JournalInv, TypeOK
    <2> QED
      BY <2>1, <2>3 DEF OperationIn, Reserves, Reserving
  <1>2. ASSUME NEW t \in Tasks, ReleaseRejected(t)
        PROVE  \A v \in Tasks : Reserves(v)' <=> Reserves(v)
    <2>1. ~Reserves(t)
      BY <1>2 DEF ReleaseRejected, Rejected, Reserves, Reserving
    <2>2. operation' = [operation EXCEPT ![t] = None]
      BY <1>2 DEF ReleaseRejected, SaveOperation
    <2> QED
      BY <2>1, <2>2 DEF JournalInv, TypeOK, Reserves
  <1>3. ASSUME Boot
        PROVE  \A v \in Tasks : Reserves(v)' <=> Reserves(v)
    BY <1>3, RowEdits, RowsAssumption
    DEF JournalInv, TypeOK, Boot, OperationIn, Operations, Reserves, Reserving
  <1>4. /\ \A v \in Tasks : Reserves(v)' <=> Reserves(v)
        /\ UNCHANGED <<urlOf, outcome>>
    BY <1>1, <1>2, <1>3 DEF Accept, Doubt, ReleaseRejected, Boot, ghosts
  <1> QED
    BY <1>4, SameHolders DEF Claimed

(* A row that leaves the reserving states gives the claim up.              *)
LEMMA RowGivesUp ==
    ASSUME JournalInv, HolderFacts, HolderFacts', NEW t \in Tasks,
           outcome[t] \in {"accepted", "rejected"},
           Reserves(t), ~Reserves(t)', UNCHANGED <<urlOf, outcome>>,
           \A v \in Tasks \ {t} : operation'[v] = operation[v]
    PROVE  Claims!GiveUp(urlOf[t])
PROOF
  <1>1. urlOf[t] \in Urls
    BY DEF JournalInv, TypeOK, Fresh, Reserves
  <1>2. Holder[urlOf[t]] = t
    BY <1>1 DEF HolderFacts, Claimed
  <1>3. \A v \in Tasks : ~Claimed(v, urlOf[t])'
    BY <1>1 DEF JournalInv, OneReservation, Claimed, Reserves
  <1>4. \A v \in Tasks, w \in Urls : w # urlOf[t] => (Claimed(v, w)' <=> Claimed(v, w))
    BY DEF Claimed, Reserves
  <1>5. Holder' = [Holder EXCEPT ![urlOf[t]] = None]
    BY <1>1, <1>3, <1>4, NoHolder
  <1> QED
    BY <1>1, <1>2, <1>5, TasksAssumption DEF Claims!GiveUp

LEMMA ReleaseGivesUp ==
    ASSUME JournalInv, HolderFacts, HolderFacts', NEW t \in Tasks, RefusedRelease(t)
    PROVE  Claims!GiveUp(urlOf[t])
PROOF
  <1> DEFINE o == [operation[t] EXCEPT !.state = "failed", !.rejected = TRUE]
  <1>1. OperationIn(t, {"sending"}) /\ outcome[t] = "rejected"
    BY DEF JournalInv, Journal, RefusedRelease
  <1>2. o.state = "failed"
    BY <1>1 DEF JournalInv, TypeOK, OperationIn, Operations
  <1>3. operation' = [operation EXCEPT ![t] = o]
    BY DEF RefusedRelease, SaveOperation
  <1> HIDE DEF o
  <1>4. /\ Reserves(t) /\ ~Reserves(t)'
        /\ \A v \in Tasks \ {t} : operation'[v] = operation[v]
    BY <1>1, <1>2, <1>3 DEF JournalInv, TypeOK, OperationIn, Reserves, Reserving
  <1> QED
    BY <1>1, <1>4, RowGivesUp DEF RefusedRelease, ghosts

LEMMA EndGivesUp ==
    ASSUME JournalInv, HolderFacts, HolderFacts', NEW t \in Tasks,
           FailRelease(t) \/ Complete(t)
    PROVE  Claims!GiveUp(urlOf[t]) \/ UNCHANGED <<Holder, outcome>>
PROOF
  <1>1. /\ operation[t] \in Operations /\ operation[t] # None /\ operation[t].bound
        /\ outcome[t] = "accepted"
        /\ OperationIn(t, {"submitted", "failed", "completed"})
    BY DEF JournalInv, TypeOK, Bindings, Engaged, FailRelease, Complete
  <1>2. /\ UNCHANGED <<urlOf, outcome>>
        /\ \A v \in Tasks \ {t} : operation'[v] = operation[v]
    BY DEF JournalInv, TypeOK, FailRelease, Complete, SaveOperation, ghosts, rows
  <1>3. operation'[t] = operation[t] \/ ~Reserves(t)'
    <2> DEFINE f == [operation[t] EXCEPT !.state = "failed", !.rejected = FALSE]
               c == [operation[t] EXCEPT !.state = "completed"]
    <2>1. f.state = "failed" /\ c.state = "completed"
      BY <1>1 DEF Operations
    <2>2. \/ UNCHANGED operation
          \/ operation' = [operation EXCEPT ![t] = f]
          \/ operation' = [operation EXCEPT ![t] = c]
      BY DEF FailRelease, Complete, SaveOperation, rows
    <2> HIDE DEF f, c
    <2> QED
      BY <2>1, <2>2 DEF JournalInv, TypeOK, Reserves, Reserving
  <1>4. CASE Reserves(t) /\ ~Reserves(t)'
    BY <1>1, <1>2, <1>4, RowGivesUp
  <1>5. CASE Reserves(t)' <=> Reserves(t)
    <2>1. \A v \in Tasks, w \in Urls : Claimed(v, w)' <=> Claimed(v, w)
      BY <1>2, <1>5 DEF Claimed, Reserves
    <2> QED
      BY <1>2, <2>1, SameHolders
  <1> QED
    BY <1>3, <1>4, <1>5 DEF Reserves

LEMMA ResumeTakes ==
    ASSUME JournalInv, HolderFacts, HolderFacts', NEW t \in Tasks, Resume(t)
    PROVE  Claims!Take(t, urlOf[t]) \/ UNCHANGED <<Holder, outcome>>
PROOF
  <1>1. /\ operation[t] # None /\ outcome[t] = "accepted"
        /\ UNCHANGED <<urlOf, outcome>>
    BY DEF JournalInv, Bindings, Resume, MementoIn, Bound
  <1>2. PICK u \in Urls : u = urlOf[t]
    BY <1>1 DEF JournalInv, TypeOK, Fresh
  <1>3. /\ Reserves(t)'
        /\ \A v \in Tasks \ {t} : operation'[v] = operation[v]
    BY NewRows, RowsAssumption
    DEF JournalInv, TypeOK, Resume, SaveOperation, Reserves, Reserving
  <1>4. CASE Reserves(t)
    <2>1. \A v \in Tasks, w \in Urls : Claimed(v, w)' <=> Claimed(v, w)
      BY <1>1, <1>3, <1>4 DEF Claimed, Reserves
    <2> QED
      BY <1>1, <2>1, SameHolders
  <1>5. CASE ~Reserves(t)
    <2>1. \A v \in Tasks : ~Claimed(v, u)
      BY <1>2, <1>5, UrlsAssumption
      DEF Resume, Duplicate, SameUrl, Created, Claimed
    <2>2. Holder[u] = None
      BY <2>1 DEF HolderFacts
    <2>3. \A w \in Urls : Holder[w] # t
      BY <1>5 DEF HolderFacts, Claimed
    <2>4. Claimed(t, u)'
      BY <1>1, <1>2, <1>3 DEF Claimed, Reserves
    <2>5. \A v \in Tasks, w \in Urls : w # u => (Claimed(v, w)' <=> Claimed(v, w))
      BY <1>1, <1>2, <1>3 DEF Claimed, Reserves
    <2>6. Holder' = [Holder EXCEPT ![u] = t]
      BY <2>4, <2>5, NewHolder
    <2> QED
      BY <1>1, <1>2, <2>2, <2>3, <2>6 DEF Claims!Take
  <1> QED
    BY <1>4, <1>5

LEMMA ClaimsStep ==
    JournalInv /\ HolderFacts /\ HolderFacts' /\ [Next]_vars
        => [Claims!ClaimNext]_<<Holder, outcome>>
PROOF
  <1> SUFFICES ASSUME JournalInv, HolderFacts, HolderFacts', [Next]_vars
               PROVE  Claims!ClaimNext \/ UNCHANGED <<Holder, outcome>>
    OBVIOUS
  <1>1. ASSUME NEW t \in Tasks, NEW u \in Urls, CreateDownload(t, u) \/ ScanSubmit(t, u)
        PROVE  Claims!ClaimNext
    BY <1>1, ReserveTakes DEF CreateDownload, ScanSubmit, ghosts, Claims!ClaimNext
  <1>2. ASSUME NEW old \in Tasks, NEW t \in Tasks, Resubmit(old, t)
        PROVE  Claims!ClaimNext
    <2>1. urlOf[old] \in Urls
      BY <1>2 DEF JournalInv, TypeOK, Fresh, Resubmit
    <2> QED
      BY <1>2, <2>1, ReserveTakes DEF Resubmit, ghosts, Claims!ClaimNext
  <1>3. ASSUME NEW t \in Tasks, Submission(t)
        PROVE  Claims!ClaimNext \/ UNCHANGED <<Holder, outcome>>
    <2>1. CASE Begin(t)
      <3>1. urlOf[t] \in Urls
        BY <2>1 DEF JournalInv, TypeOK, Journal, Fresh, OperationIn, Begin
      <3> QED
        BY <2>1, <3>1, BeginCalls DEF Claims!ClaimNext
    <2>2. CASE Answered(t) \/ Refused(t)
      BY <2>2, AnswerLearns DEF Claims!ClaimNext
    <2>3. CASE Accept(t) \/ Doubt(t)
      BY <2>3, JournalKeepsClaims
    <2>4. CASE RefusedRelease(t)
      <3>1. urlOf[t] \in Urls
        BY <2>4 DEF JournalInv, TypeOK, Journal, Fresh, OperationIn, RefusedRelease
      <3> QED
        BY <2>4, <3>1, ReleaseGivesUp DEF Claims!ClaimNext
    <2>5. CASE \/ Unanswered(t) \/ AcceptSave(t) \/ ArchiveReplaced(t)
               \/ HandOver(t) \/ RefusedSave(t) \/ DoubtSave(t)
      <3>1. UNCHANGED <<operation, urlOf, outcome>>
        BY <2>5 DEF Unanswered, AcceptSave, ArchiveReplaced, HandOver, RefusedSave,
                    DoubtSave, rows, ghosts
      <3> QED
        BY <3>1, StutterClaims
    <2> QED
      BY <1>3, <2>1, <2>2, <2>3, <2>4, <2>5 DEF Submission
  <1>4. ASSUME NEW t \in Tasks, Work(t)
        PROVE  Claims!ClaimNext \/ UNCHANGED <<Holder, outcome>>
    <2>1. CASE FailRelease(t) \/ Complete(t)
      <3>1. urlOf[t] \in Urls
        BY <2>1 DEF JournalInv, TypeOK, Bindings, Engaged, Fresh, FailRelease, Complete
      <3> QED
        BY <2>1, <3>1, EndGivesUp DEF Claims!ClaimNext
    <2>2. CASE Advance(t) \/ Fail(t) \/ CommitResource(t) \/ Leave(t)
      <3>1. UNCHANGED <<operation, urlOf, outcome>>
        BY <2>2 DEF Advance, Fail, CommitResource, Leave, rows, ghosts
      <3> QED
        BY <3>1, StutterClaims
    <2> QED
      BY <1>4, <2>1, <2>2 DEF Work
  <1>5. ASSUME NEW t \in Tasks, Control(t)
        PROVE  Claims!ClaimNext \/ UNCHANGED <<Holder, outcome>>
    <2>1. CASE Resume(t)
      <3>1. urlOf[t] \in Urls
        BY <2>1 DEF JournalInv, TypeOK, Fresh, Resume, MementoIn
      <3> QED
        BY <2>1, <3>1, ResumeTakes DEF Claims!ClaimNext
    <2>2. CASE ReleaseRejected(t)
      BY <2>2, JournalKeepsClaims
    <2>3. CASE \E new \in Tasks : Resubmit(t, new)
      BY <1>2, <2>3
    <2>4. CASE StartResumed(t) \/ ResubmitRefused(t) \/ Archive(t) \/ Abandon(t)
      <3>1. UNCHANGED <<operation, urlOf, outcome>>
        BY <2>4 DEF StartResumed, ResubmitRefused, Archive, Abandon, rows, ghosts
      <3> QED
        BY <3>1, StutterClaims
    <2> QED
      BY <1>5, <2>1, <2>2, <2>3, <2>4 DEF Control
  <1>6. ASSUME NEW t \in Tasks, OpenList(t)
        PROVE  UNCHANGED <<Holder, outcome>>
    <2>1. UNCHANGED <<operation, urlOf, outcome>>
      BY <1>6 DEF OpenList, RemoteCreate, RequestLost, RemoteEnd, Forget, CleanedUnsaved, rows, ghosts
    <2> QED
      BY <2>1, StutterClaims
  <1>7. CASE Scan
    <2>1. ASSUME NEW u \in Urls, ScanLibrary \/ ScanTasks \/ ScanEnd \/ ScanSkip(u)
          PROVE  UNCHANGED <<Holder, outcome>>
      <3>1. UNCHANGED <<operation, urlOf, outcome>>
        BY <2>1 DEF ScanLibrary, ScanTasks, ScanEnd, ScanSkip, rows, ghosts
      <3> QED
        BY <3>1, StutterClaims
    <2>2. CASE ScanLibrary \/ ScanTasks \/ ScanEnd
      <3>1. UNCHANGED <<operation, urlOf, outcome>>
        BY <2>2 DEF ScanLibrary, ScanTasks, ScanEnd, rows, ghosts
      <3> QED
        BY <3>1, StutterClaims
    <2> QED
      BY <1>1, <1>7, <2>1, <2>2 DEF Scan
  <1>8. CASE Process
    <2>1. CASE Boot
      BY <2>1, JournalKeepsClaims
    <2>2. CASE Crash \/ AbandonScan \/ Serve \/ \E t \in Tasks : Recover(t)
      <3>1. UNCHANGED <<operation, urlOf, outcome>>
        BY <2>2 DEF Crash, AbandonScan, Serve, Recover, rows, ghosts
      <3> QED
        BY <3>1, StutterClaims
    <2> QED
      BY <1>8, <2>1, <2>2 DEF Process
  <1>9. CASE UNCHANGED vars
    <2>1. UNCHANGED <<operation, urlOf, outcome>>
      BY <1>9 DEF vars, rows, ghosts
    <2> QED
      BY <2>1, StutterClaims
  <1> QED
    BY <1>1, <1>3, <1>4, <1>5, <1>6, <1>7, <1>8, <1>9 DEF Next

LEMMA InitClaims == Init /\ HolderFacts => Claims!ClaimInit
PROOF
  <1> SUFFICES ASSUME Init, HolderFacts PROVE Claims!ClaimInit
    OBVIOUS
  <1>1. \A u \in Urls : Holder[u] = None
    BY DEF Init, HolderFacts, Claimed, Reserves
  <1> QED
    BY <1>1 DEF Claims!ClaimInit, Init, HolderFacts

(* The journal implements UrlClaims, whatever the number of tasks, URLs,   *)
(* crashes and dropped requests: submit_download asks OpenList for a URL   *)
(* only while no other task reserves it, once per task, and no row leaves  *)
(* the reserving states before the outcome of its call is known.           *)
THEOREM ClaimsImplemented == Spec => ImplementsClaims
PROOF
  <1>1. JournalInv => HolderFacts
    BY HolderIsClaimant
  <1>2. Init /\ HolderFacts => Claims!ClaimInit
    BY InitClaims
  <1>3. JournalInv /\ HolderFacts /\ HolderFacts' /\ [Next]_vars
            => [Claims!ClaimNext]_(Claims!claimVars)
    BY ClaimsStep DEF Claims!claimVars
  <1> QED
    BY <1>1, <1>2, <1>3, InitKeeps, JournalCorrect, PTL
    DEF Spec, ImplementsClaims, Claims!ClaimSpec

------------------------------------------------------------------------------
(* The two rows of a task agree after every transaction, and a URL is       *)
(* downloaded once at a time, for any tasks, URLs and bounds.  The rows     *)
(* change one at a time; the journal's invariant says what the other row is *)
(* meanwhile.  And while the service serves there is somebody for every     *)
(* task OpenList has accepted.                                              *)

(* The rows of one task agree.                                             *)
Agree(t) ==
    urlOf[t] # None /\ t \notin neglected =>
        /\ MementoIn(t, {"pending"}) => OperationIn(t, Reserving) /\ ~memento[t].bound
        /\ MementoIn(t, {"downloading"}) =>
              OperationIn(t, {"submitted"}) /\ memento[t].bound /\ operation[t].bound
        /\ memento[t] = None => OperationIn(t, {"completed"}) /\ urlOf[t] \in library

(* What holds between the two writes of a failure and of a completion.     *)
Halfway(t) ==
    /\ submit[t] = "releasing" => MementoIn(t, {"failed"})
    /\ worker[t] = "failing" /\ t \notin neglected => MementoIn(t, {"failed"})
    /\ worker[t] = "committed" => urlOf[t] \in library

(* Recovery leaves a task it has saved as one that downloads.              *)
Saved(t) ==
    mode = "recovering" /\ t \in recovered =>
        MementoIn(t, {"downloading"}) /\ memento[t].bound

TaskRows(t) == Agree(t) /\ Halfway(t) /\ Saved(t)
RowsInv == JournalInv /\ \A t \in Tasks : TaskRows(t)
-----------------------------------------------------------------------------
(* A step that leaves the rows of t alone, and what is under way with them, *)
(* keeps what holds of them: a failure or a completion may only end.       *)
LEMMA RowsUntouched ==
    ASSUME RowsInv, NEW t \in Tasks,
           memento'[t] = memento[t], operation'[t] = operation[t], urlOf'[t] = urlOf[t],
           library \subseteq library', neglected \subseteq neglected',
           submit'[t] = submit[t] \/ submit'[t] # "releasing",
           worker'[t] = worker[t] \/ worker'[t] \notin {"failing", "committed"},
           mode' = "recovering" /\ t \in recovered' => mode = "recovering" /\ t \in recovered
    PROVE  TaskRows(t)'
  BY DEF RowsInv, TaskRows, Agree, Halfway, Saved, MementoIn, OperationIn

(* So a step of one task only has to be checked for that task.             *)
LEMMA OneTaskSuffices ==
    ASSUME RowsInv, NEW t \in Tasks, TaskRows(t)',
           \A u \in Tasks \ {t} :
               /\ memento'[u] = memento[u] /\ operation'[u] = operation[u] /\ urlOf'[u] = urlOf[u]
               /\ submit'[u] = submit[u] /\ worker'[u] = worker[u],
           library \subseteq library', neglected \subseteq neglected', mode' = mode,
           recovered' \subseteq recovered \cup {t}
    PROVE  \A u \in Tasks : TaskRows(u)'
PROOF
  <1> TAKE u \in Tasks
  <1>1. CASE u = t
    BY <1>1
  <1>2. CASE u # t
    BY <1>2, RowsUntouched
  <1> QED
    BY <1>1, <1>2

(* A release that is reserved: pending, with an intent.                    *)
LEMMA ReserveRows ==
    ASSUME RowsInv, NEW t \in Tasks, NEW u \in Urls, NEW who, Reserve(t, u, who),
           UNCHANGED <<mode, library, worker, recovered, neglected>>
    PROVE  \A v \in Tasks : TaskRows(v)'
PROOF
  <1>1. /\ memento'[t] # None /\ memento'[t].state = "pending" /\ ~memento'[t].bound
        /\ operation'[t] # None /\ operation'[t].state = "intent"
        /\ worker[t] = "none" /\ mode = "serving"
        /\ submit' = [submit EXCEPT ![t] = "reserved"]
        /\ \A v \in Tasks \ {t} : /\ memento'[v] = memento[v] /\ operation'[v] = operation[v]
                                  /\ urlOf'[v] = urlOf[v]
    BY Reserved DEF RowsInv
  <1>2. submit'[t] = "reserved" /\ \A v \in Tasks \ {t} : submit'[v] = submit[v]
    BY <1>1 DEF RowsInv, JournalInv, TypeOK
  <1>3. TaskRows(t)'
    BY <1>1, <1>2 DEF TaskRows, Agree, Halfway, Saved, MementoIn, OperationIn,
       Reserving
  <1> QED
    BY <1>1, <1>2, <1>3, OneTaskSuffices

(* A row that is saved, and that no other task's row changes with it.      *)
LEMMA SavedOperation ==
    ASSUME RowsInv, NEW t \in Tasks, NEW o \in Operations, SaveOperation(t, o)
    PROVE  /\ operation'[t] = o /\ o # None
           /\ \A u \in Tasks \ {t} : operation'[u] = operation[u]
  BY RowsAssumption DEF RowsInv, JournalInv, TypeOK, SaveOperation

LEMMA SavedMemento ==
    ASSUME RowsInv, NEW t \in Tasks, NEW m \in Mementos, SaveMemento(t, m)
    PROVE  /\ memento'[t] = m /\ m # None
           /\ \A u \in Tasks \ {t} : memento'[u] = memento[u]
  BY RowsAssumption DEF RowsInv, JournalInv, TypeOK, SaveMemento

(* The steps of a submission that write the operation.                     *)
LEMMA BeginRows ==
    ASSUME RowsInv, NEW t \in Tasks, Begin(t)
    PROVE  \A u \in Tasks : TaskRows(u)'
PROOF
  <1> DEFINE o == [operation[t] EXCEPT !.state = "sending"]
  <1>1. /\ MementoIn(t, {"pending"}) /\ OperationIn(t, {"intent"}) /\ worker[t] = "none"
        /\ TaskRows(t) /\ operation[t] \in Operations
    BY DEF RowsInv, JournalInv, TypeOK, Begin, Submitting, Journal, OperationIn
  <1>2. o \in Operations /\ o.state = "sending"
    BY <1>1 DEF Operations, Reserving
  <1> HIDE DEF o
  <1>3. /\ operation'[t] = o /\ o # None /\ \A u \in Tasks \ {t} : operation'[u] = operation[u]
        /\ submit' = [submit EXCEPT ![t] = "calling"]
        /\ UNCHANGED <<memento, urlOf, mode, library, worker, recovered, neglected>>
    BY <1>2, SavedOperation DEF Begin, o
  <1>4. submit'[t] = "calling" /\ \A u \in Tasks \ {t} : submit'[u] = submit[u]
    BY <1>3 DEF RowsInv, JournalInv, TypeOK
  <1>5. TaskRows(t)'
    BY <1>1, <1>2, <1>3, <1>4 DEF TaskRows, Agree, Halfway, Saved, MementoIn,
       OperationIn, Reserving
  <1> QED
    BY <1>3, <1>4, <1>5, OneTaskSuffices

(* Steps that change no row and end no failure or completion halfway.      *)
LEMMA IdleRows ==
    ASSUME RowsInv, NEW t \in Tasks, NEW u,
           \/ Answered(t) \/ Refused(t) \/ Unanswered(t) \/ HandOver(t) \/ Leave(t) \/ StartResumed(t)
           \/ ResubmitRefused(t) \/ Abandon(t) \/ RemoteCreate(t) \/ RequestLost(t) \/ RemoteEnd(t)
           \/ Forget(t) \/ CleanedUnsaved(t)
           \/ ScanLibrary \/ ScanTasks \/ ScanEnd \/ ScanSkip(u) \/ AbandonScan \/ Crash
    PROVE  \A v \in Tasks : TaskRows(v)'
PROOF
  <1> TAKE v \in Tasks
  <1>1. /\ UNCHANGED <<memento, operation, urlOf, library>>
        /\ neglected \subseteq neglected'
        /\ mode' = "recovering" => mode = "recovering" /\ recovered' = recovered
    BY DEF Answered, Refused, Unanswered, HandOver, Leave, StartResumed,
       ResubmitRefused, Abandon,
           RemoteCreate, RequestLost, RemoteEnd, Forget, CleanedUnsaved, ScanLibrary, ScanTasks, ScanEnd, ScanSkip, AbandonScan,
           Crash, rows, ghosts
  <1>2. submit'[v] = submit[v] \/ submit'[v] # "releasing"
    BY DEF RowsInv, JournalInv, TypeOK, Answered, Refused, Unanswered, HandOver,
       Leave, StartResumed,
           ResubmitRefused, Abandon, RemoteCreate, RequestLost, RemoteEnd, Forget, CleanedUnsaved, ScanLibrary, ScanTasks, ScanEnd,
           ScanSkip, AbandonScan, Crash, handlers
  <1>3. worker'[v] = worker[v] \/ worker'[v] \notin {"failing", "committed"}
    BY DEF RowsInv, JournalInv, TypeOK, Answered, Refused, Unanswered, HandOver,
       Leave, StartResumed,
           ResubmitRefused, Abandon, RemoteCreate, RequestLost, RemoteEnd, Forget, CleanedUnsaved, ScanLibrary, ScanTasks, ScanEnd,
           ScanSkip, AbandonScan, Crash, StartWorkers
  <1> QED
    BY <1>1, <1>2, <1>3, RowsUntouched
LEMMA AcceptRows ==
    ASSUME RowsInv, NEW t \in Tasks, Accept(t)
    PROVE  \A u \in Tasks : TaskRows(u)'
PROOF
  <1> DEFINE o == [operation[t] EXCEPT !.state = "submitted", !.bound = TRUE]
  <1>1. /\ MementoIn(t, {"pending"}) /\ OperationIn(t, {"sending"}) /\ worker[t] = "none"
        /\ TaskRows(t) /\ operation[t] \in Operations
    BY DEF RowsInv, JournalInv, TypeOK, Accept, Submitting, Journal, OperationIn
  <1>2. o \in Operations /\ o.state = "submitted"
    BY <1>1 DEF Operations, Reserving
  <1> HIDE DEF o
  <1>3. /\ operation'[t] = o /\ o # None /\ \A u \in Tasks \ {t} : operation'[u] = operation[u]
        /\ submit' = [submit EXCEPT ![t] = "accepted"]
        /\ UNCHANGED <<memento, urlOf, mode, library, worker, recovered, neglected>>
    BY <1>2, SavedOperation DEF Accept, o, ghosts
  <1>4. submit'[t] = "accepted" /\ \A u \in Tasks \ {t} : submit'[u] = submit[u]
    BY <1>3 DEF RowsInv, JournalInv, TypeOK
  <1>5. TaskRows(t)'
    BY <1>1, <1>2, <1>3, <1>4 DEF TaskRows, Agree, Halfway, Saved, MementoIn,
       OperationIn, Reserving
  <1> QED
    BY <1>3, <1>4, <1>5, OneTaskSuffices

LEMMA RefusedReleaseRows ==
    ASSUME RowsInv, NEW t \in Tasks, RefusedRelease(t)
    PROVE  \A u \in Tasks : TaskRows(u)'
PROOF
  <1> DEFINE o == [operation[t] EXCEPT !.state = "failed", !.rejected = TRUE]
  <1>1. /\ MementoIn(t, {"failed"}) /\ OperationIn(t, {"sending"})
        /\ TaskRows(t) /\ operation[t] \in Operations
    BY DEF RowsInv, JournalInv, TypeOK, RefusedRelease, TaskRows, Halfway, Journal,
       OperationIn
  <1>2. o \in Operations /\ o.state = "failed"
    BY <1>1 DEF Operations, Reserving
  <1> HIDE DEF o
  <1>3. /\ operation'[t] = o /\ o # None /\ \A u \in Tasks \ {t} : operation'[u] = operation[u]
        /\ submit' = [submit EXCEPT ![t] = "none"]
        /\ UNCHANGED <<memento, urlOf, mode, library, worker, recovered, neglected>>
    BY <1>2, SavedOperation DEF RefusedRelease, o, ghosts
  <1>4. submit'[t] = "none" /\ \A u \in Tasks \ {t} : submit'[u] = submit[u]
    BY <1>3 DEF RowsInv, JournalInv, TypeOK
  <1>5. TaskRows(t)'
    BY <1>1, <1>2, <1>3, <1>4 DEF TaskRows, Agree, Halfway, Saved, MementoIn,
       OperationIn, Reserving
  <1> QED
    BY <1>3, <1>4, <1>5, OneTaskSuffices

LEMMA DoubtRows ==
    ASSUME RowsInv, NEW t \in Tasks, Doubt(t)
    PROVE  \A u \in Tasks : TaskRows(u)'
PROOF
  <1> DEFINE o == [operation[t] EXCEPT !.state = "uncertain"]
  <1>1. /\ OperationIn(t, {"sending"})
        /\ TaskRows(t) /\ operation[t] \in Operations
    BY DEF RowsInv, JournalInv, TypeOK, Doubt, Journal, OperationIn
  <1>2. o \in Operations /\ o.state = "uncertain"
    BY <1>1 DEF Operations, Reserving
  <1> HIDE DEF o
  <1>3. /\ operation'[t] = o /\ o # None /\ \A u \in Tasks \ {t} : operation'[u] = operation[u]
        /\ submit' = [submit EXCEPT ![t] = "doubting"]
        /\ UNCHANGED <<memento, urlOf, mode, library, worker, recovered, neglected>>
    BY <1>2, SavedOperation DEF Doubt, o, ghosts
  <1>4. submit'[t] = "doubting" /\ \A u \in Tasks \ {t} : submit'[u] = submit[u]
    BY <1>3 DEF RowsInv, JournalInv, TypeOK
  <1>5. TaskRows(t)'
    BY <1>1, <1>2, <1>3, <1>4 DEF TaskRows, Agree, Halfway, Saved, MementoIn,
       OperationIn, Reserving
  <1> QED
    BY <1>3, <1>4, <1>5, OneTaskSuffices

(* The steps that write the memento.                                      *)
LEMMA AcceptSaveRows ==
    ASSUME RowsInv, NEW t \in Tasks, AcceptSave(t)
    PROVE  \A u \in Tasks : TaskRows(u)'
PROOF
  <1> DEFINE m == [memento[t] EXCEPT !.state = "downloading", !.step = "submitted",
                                    !.bound = TRUE]
  <1>1. /\ MementoIn(t, {"pending"}) /\ OperationIn(t, {"submitted", "failed", "completed"}) /\ operation[t].bound
        /\ worker[t] = "none" /\ submit[t] = "accepted"
        /\ TaskRows(t) /\ memento[t] \in Mementos /\ memento[t] # None
    BY DEF RowsInv, JournalInv, TypeOK, AcceptSave, Submitting, Bindings, Engaged,
       OperationIn, MementoIn
  <1>2. m \in Mementos /\ m.state = "downloading" /\ m.bound
    BY <1>1, StepFacts DEF Mementos, MementoIn
  <1> HIDE DEF m
  <1>3. /\ memento'[t] = m /\ m # None /\ \A u \in Tasks \ {t} : memento'[u] = memento[u]
        /\ UNCHANGED <<operation, urlOf, mode, library, recovered, neglected>>
    BY <1>2, SavedMemento DEF AcceptSave, m, handlers, ghosts
  <1>4. /\ submit'[t] \in {"none", "saved"} /\ worker'[t] = worker[t]
        /\ \A u \in Tasks \ {t} : submit'[u] = submit[u] /\ worker'[u] = worker[u]
    BY DEF RowsInv, JournalInv, TypeOK, AcceptSave, handlers
  <1>5. TaskRows(t)'
    BY <1>1, <1>2, <1>3, <1>4 DEF TaskRows, Agree, Halfway, Saved, MementoIn,
       OperationIn, Reserving
  <1> QED
    BY <1>3, <1>4, <1>5, OneTaskSuffices

LEMMA RefusedSaveRows ==
    ASSUME RowsInv, NEW t \in Tasks, RefusedSave(t)
    PROVE  \A u \in Tasks : TaskRows(u)'
PROOF
  <1> DEFINE m == [memento[t] EXCEPT !.state = "failed", !.rejected = TRUE]
  <1>1. /\ MementoIn(t, {"pending"})
        /\ TaskRows(t) /\ memento[t] \in Mementos /\ memento[t] # None
    BY DEF RowsInv, JournalInv, TypeOK, RefusedSave, Submitting, MementoIn
  <1>2. m \in Mementos /\ m.state = "failed"
    BY <1>1, StepFacts DEF Mementos, MementoIn
  <1> HIDE DEF m
  <1>3. /\ memento'[t] = m /\ m # None /\ \A u \in Tasks \ {t} : memento'[u] = memento[u]
        /\ UNCHANGED <<operation, urlOf, mode, library, recovered, neglected>>
    BY <1>2, SavedMemento DEF RefusedSave, m, handlers, ghosts
  <1>4. /\ submit'[t] = "releasing" /\ worker'[t] = worker[t]
        /\ \A u \in Tasks \ {t} : submit'[u] = submit[u] /\ worker'[u] = worker[u]
    BY DEF RowsInv, JournalInv, TypeOK, RefusedSave, handlers
  <1>5. TaskRows(t)'
    BY <1>1, <1>2, <1>3, <1>4 DEF TaskRows, Agree, Halfway, Saved, MementoIn,
       OperationIn, Reserving
  <1> QED
    BY <1>3, <1>4, <1>5, OneTaskSuffices

LEMMA DoubtSaveRows ==
    ASSUME RowsInv, NEW t \in Tasks, DoubtSave(t)
    PROVE  \A u \in Tasks : TaskRows(u)'
PROOF
  <1> DEFINE m == [memento[t] EXCEPT !.state = "failed"]
  <1>1. /\ MementoIn(t, {"pending"})
        /\ TaskRows(t) /\ memento[t] \in Mementos /\ memento[t] # None
    BY DEF RowsInv, JournalInv, TypeOK, DoubtSave, Submitting, MementoIn
  <1>2. m \in Mementos /\ m.state = "failed"
    BY <1>1, StepFacts DEF Mementos, MementoIn
  <1> HIDE DEF m
  <1>3. /\ memento'[t] = m /\ m # None /\ \A u \in Tasks \ {t} : memento'[u] = memento[u]
        /\ UNCHANGED <<operation, urlOf, mode, library, recovered, neglected>>
    BY <1>2, SavedMemento DEF DoubtSave, m, handlers, ghosts
  <1>4. /\ submit'[t] = "none" /\ worker'[t] = worker[t]
        /\ \A u \in Tasks \ {t} : submit'[u] = submit[u] /\ worker'[u] = worker[u]
    BY DEF RowsInv, JournalInv, TypeOK, DoubtSave, handlers
  <1>5. TaskRows(t)'
    BY <1>1, <1>2, <1>3, <1>4 DEF TaskRows, Agree, Halfway, Saved, MementoIn,
       OperationIn, Reserving
  <1> QED
    BY <1>3, <1>4, <1>5, OneTaskSuffices

LEMMA AdvanceRows ==
    ASSUME RowsInv, NEW t \in Tasks, Advance(t)
    PROVE  \A u \in Tasks : TaskRows(u)'
PROOF
  <1> DEFINE m == [memento[t] EXCEPT !.step =
                                 IF @ = "init" THEN "download_done" ELSE After(@)]
  <1>1. /\ worker[t] = "working" /\ memento[t].step # "moved"
        /\ TaskRows(t) /\ memento[t] \in Mementos /\ memento[t] # None
    BY DEF RowsInv, JournalInv, TypeOK, Advance, Quiet, MementoIn
  <1>2. m \in Mementos /\ m.state = memento[t].state /\ m.bound = memento[t].bound
    BY <1>1, StepFacts DEF Mementos, MementoIn
  <1> HIDE DEF m
  <1>3. /\ memento'[t] = m /\ m # None /\ \A u \in Tasks \ {t} : memento'[u] = memento[u]
        /\ UNCHANGED <<operation, urlOf, mode, library, recovered, neglected>>
    BY <1>2, SavedMemento DEF Advance, m, handlers, ghosts
  <1>4. /\ submit'[t] = submit[t] /\ worker'[t] = worker[t]
        /\ \A u \in Tasks \ {t} : submit'[u] = submit[u] /\ worker'[u] = worker[u]
    BY DEF RowsInv, JournalInv, TypeOK, Advance, handlers
  <1>5. TaskRows(t)'
    BY <1>1, <1>2, <1>3, <1>4 DEF TaskRows, Agree, Halfway, Saved, MementoIn,
       OperationIn, Reserving
  <1> QED
    BY <1>3, <1>4, <1>5, OneTaskSuffices

LEMMA FailRows ==
    ASSUME RowsInv, NEW t \in Tasks, Fail(t)
    PROVE  \A u \in Tasks : TaskRows(u)'
PROOF
  <1> DEFINE m == [memento[t] EXCEPT !.state = "failed"]
  <1>1. /\ worker[t] = "working" /\ mode = "serving"
        /\ TaskRows(t) /\ memento[t] \in Mementos /\ memento[t] # None
    BY DEF RowsInv, JournalInv, TypeOK, Fail, Quiet, MementoIn
  <1>2. m \in Mementos /\ m.state = "failed"
    BY <1>1, StepFacts DEF Mementos, MementoIn
  <1> HIDE DEF m
  <1>3. /\ memento'[t] = m /\ m # None /\ \A u \in Tasks \ {t} : memento'[u] = memento[u]
        /\ UNCHANGED <<operation, urlOf, mode, library, recovered, neglected>>
    BY <1>2, SavedMemento DEF Fail, m, handlers, ghosts
  <1>4. /\ submit'[t] = submit[t] /\ worker'[t] = "failing"
        /\ \A u \in Tasks \ {t} : submit'[u] = submit[u] /\ worker'[u] = worker[u]
    BY DEF RowsInv, JournalInv, TypeOK, Fail, handlers
  <1>5. TaskRows(t)'
    BY <1>1, <1>2, <1>3, <1>4 DEF TaskRows, Agree, Halfway, Saved, MementoIn,
       OperationIn, Reserving
  <1> QED
    BY <1>3, <1>4, <1>5, OneTaskSuffices

LEMMA ArchiveRows ==
    ASSUME RowsInv, NEW t \in Tasks, Archive(t)
    PROVE  \A u \in Tasks : TaskRows(u)'
PROOF
  <1> DEFINE m == [memento[t] EXCEPT !.archived = TRUE]
  <1>1. /\ mode = "serving"
        /\ TaskRows(t) /\ memento[t] \in Mementos /\ memento[t] # None
    BY DEF RowsInv, JournalInv, TypeOK, Archive, Quiet, MementoIn
  <1>2. m \in Mementos /\ m.state = memento[t].state /\ m.bound = memento[t].bound
    BY <1>1, StepFacts DEF Mementos, MementoIn
  <1> HIDE DEF m
  <1>3. /\ memento'[t] = m /\ m # None /\ \A u \in Tasks \ {t} : memento'[u] = memento[u]
        /\ UNCHANGED <<operation, urlOf, mode, library, recovered, neglected>>
    BY <1>2, SavedMemento DEF Archive, m, handlers, ghosts
  <1>4. /\ submit'[t] = submit[t] /\ worker'[t] = worker[t]
        /\ \A u \in Tasks \ {t} : submit'[u] = submit[u] /\ worker'[u] = worker[u]
    BY DEF RowsInv, JournalInv, TypeOK, Archive, handlers
  <1>5. TaskRows(t)'
    BY <1>1, <1>2, <1>3, <1>4 DEF TaskRows, Agree, Halfway, Saved, MementoIn,
       OperationIn, Reserving
  <1> QED
    BY <1>3, <1>4, <1>5, OneTaskSuffices

LEMMA ArchiveReplacedRows ==
    ASSUME RowsInv, NEW t \in Tasks, ArchiveReplaced(t)
    PROVE  \A u \in Tasks : TaskRows(u)'
PROOF
  <1>0. PICK old \in Tasks : old = by[t]
    BY DEF ArchiveReplaced
  <1> DEFINE m == [memento[old] EXCEPT !.archived = TRUE]
  <1>1. /\ old \in Tasks
        /\ UNCHANGED <<operation, urlOf, mode, library, worker, recovered, submit, neglected>>
    BY DEF ArchiveReplaced, ghosts
  <1>2. CASE MementoIn(old, {"failed"})
    <2>1. /\ memento[old] \in Mementos /\ memento[old] # None /\ memento[old].state = "failed"
          /\ TaskRows(old)
      BY <1>1, <1>2 DEF RowsInv, JournalInv, TypeOK, MementoIn
    <2>2. m \in Mementos /\ m.state = "failed"
      BY <2>1 DEF Mementos
    <2>3. SaveMemento(old, m)
      BY <1>0, <1>2 DEF ArchiveReplaced
    <2> HIDE DEF m
    <2>4. memento'[old] = m /\ m # None /\ \A u \in Tasks \ {old} : memento'[u] = memento[u]
      BY <1>1, <2>2, <2>3, SavedMemento
    <2>5. TaskRows(old)'
      BY <1>1, <2>1, <2>2, <2>4 DEF TaskRows, Agree, Halfway, Saved, MementoIn,
         OperationIn
    <2> QED
      BY <1>1, <2>4, <2>5, OneTaskSuffices
  <1>3. CASE ~MementoIn(old, {"failed"})
    BY <1>0, <1>1, <1>3, RowsUntouched DEF ArchiveReplaced
  <1> QED
    BY <1>2, <1>3

(* A worker's failure and its completion.                                  *)
LEMMA FailReleaseRows ==
    ASSUME RowsInv, NEW t \in Tasks, FailRelease(t)
    PROVE  \A u \in Tasks : TaskRows(u)'
PROOF
  <1> DEFINE o == [operation[t] EXCEPT !.state = "failed", !.rejected = FALSE]
  <1>1. /\ TaskRows(t) /\ worker[t] = "failing" /\ mode = "serving"
        /\ worker'[t] = "leaving" /\ \A u \in Tasks \ {t} : worker'[u] = worker[u]
        /\ UNCHANGED <<memento, urlOf, mode, library, recovered, submit, neglected>>
    BY DEF RowsInv, JournalInv, TypeOK, FailRelease, Quiet, handlers, ghosts
  <1>2. CASE OperationIn(t, {"sending", "submitted"})
    <2>1. SaveOperation(t, o) /\ operation[t] \in Operations
      BY <1>2 DEF RowsInv, JournalInv, TypeOK, OperationIn, FailRelease
    <2>4. o \in Operations /\ o.state = "failed"
      BY <2>1 DEF Operations
    <2> HIDE DEF o
    <2>2. operation'[t] = o /\ o # None /\ \A u \in Tasks \ {t} : operation'[u] = operation[u]
      BY <2>1, <2>4, SavedOperation
    <2>3. TaskRows(t)'
      BY <1>1, <2>2, <2>4 DEF TaskRows, Agree, Halfway, Saved, MementoIn
    <2> QED
      BY <1>1, <2>2, <2>3, OneTaskSuffices
  <1>3. CASE ~OperationIn(t, {"sending", "submitted"})
    BY <1>1, <1>3, RowsUntouched DEF FailRelease
  <1> QED
    BY <1>2, <1>3

LEMMA CommitResourceRows ==
    ASSUME RowsInv, NEW t \in Tasks, CommitResource(t)
    PROVE  \A u \in Tasks : TaskRows(u)'
PROOF
  <1>1. /\ TaskRows(t) /\ worker[t] = "working" /\ urlOf[t] \in library'
        /\ worker'[t] = "committed" /\ \A u \in Tasks \ {t} : worker'[u] = worker[u]
        /\ UNCHANGED <<memento, operation, urlOf, mode, recovered, submit, neglected>>
        /\ library \subseteq library'
    BY DEF RowsInv, JournalInv, TypeOK, CommitResource, rows, handlers, ghosts
  <1>2. TaskRows(t)'
    BY <1>1 DEF TaskRows, Agree, Halfway, Saved, MementoIn, OperationIn
  <1> QED
    BY <1>1, <1>2, OneTaskSuffices

LEMMA CompleteRows ==
    ASSUME RowsInv, NEW t \in Tasks, Complete(t)
    PROVE  \A u \in Tasks : TaskRows(u)'
PROOF
  <1> DEFINE o == [operation[t] EXCEPT !.state = "completed"]
  <1>1. /\ TaskRows(t) /\ worker[t] = "committed" /\ mode = "serving" /\ urlOf[t] \in library
        /\ operation[t] # None /\ operation[t].bound /\ operation[t] \in Operations
        /\ worker'[t] \in {"leaving", "working"} /\ \A u \in Tasks \ {t} : worker'[u] = worker[u]
        /\ UNCHANGED <<urlOf, mode, library, recovered, submit, neglected>>
    BY DEF RowsInv, JournalInv, TypeOK, Complete, Quiet, Bindings, Engaged,
       TaskRows, Halfway, handlers, ghosts
  <1>2. submit[t] # "releasing"
    BY <1>1 DEF RowsInv, JournalInv, Journal, Bindings, OperationIn
  <1>3. CASE OperationIn(t, {"submitted", "completed"})
    <2>1. o \in Operations /\ o.state = "completed" /\ SaveOperation(t, o) /\ SaveMemento(t, None)
      BY <1>1, <1>3 DEF Operations, Complete
    <2> HIDE DEF o
    <2>2. /\ operation'[t] = o /\ o # None /\ \A u \in Tasks \ {t} : operation'[u] = operation[u]
          /\ memento'[t] = None /\ \A u \in Tasks \ {t} : memento'[u] = memento[u]
      BY <2>1, SavedOperation DEF RowsInv, JournalInv, TypeOK, SaveMemento
    <2>3. TaskRows(t)'
      BY <1>1, <1>2, <2>1, <2>2 DEF TaskRows, Agree, Halfway, Saved, MementoIn,
         OperationIn
    <2> QED
      BY <1>1, <2>2, <2>3, OneTaskSuffices
  <1>4. CASE ~OperationIn(t, {"submitted", "completed"})
    BY <1>1, <1>4, RowsUntouched DEF Complete, rows
  <1> QED
    BY <1>3, <1>4

(* A retry: the task is taken back, unless its old worker is still there.  *)
LEMMA ResumeRows ==
    ASSUME RowsInv, NEW t \in Tasks, Resume(t)
    PROVE  \A u \in Tasks : TaskRows(u)'
PROOF
  <1> DEFINE m == [memento[t] EXCEPT !.state = "downloading", !.bound = TRUE,
                      !.step = IF @ = "init" THEN "submitted" ELSE @,
                      !.rejected = FALSE, !.archived = FALSE]
             o == [state |-> "submitted", bound |-> TRUE, rejected |-> FALSE]
  <1>1. /\ TaskRows(t) /\ memento[t] \in Mementos /\ memento[t] # None /\ mode = "serving" /\ Bound(t)
        /\ UNCHANGED <<urlOf, mode, library, worker, recovered, submit>>
        /\ neglected \subseteq neglected' /\ (worker[t] # "none" => t \in neglected')
    BY DEF RowsInv, JournalInv, TypeOK, Resume, MementoIn
  <1>2. operation[t] # None /\ operation[t].bound
    BY <1>1 DEF RowsInv, JournalInv, Bindings, Bound
  <1>3. submit[t] # "releasing"
    BY <1>2 DEF RowsInv, JournalInv, Journal, Bindings, OperationIn
  <1>4. m \in Mementos /\ m.state = "downloading" /\ m.bound /\ o \in Operations
    BY <1>1, StepFacts, NewRows DEF Mementos
  <1>5. SaveMemento(t, m) /\ SaveOperation(t, o)
    BY DEF Resume
  <1>6. o.state = "submitted" /\ o.bound
    OBVIOUS
  <1> HIDE DEF m, o
  <1>7. /\ memento'[t] = m /\ m # None /\ \A u \in Tasks \ {t} : memento'[u] = memento[u]
        /\ operation'[t] = o /\ o # None /\ \A u \in Tasks \ {t} : operation'[u] = operation[u]
    BY <1>4, <1>5, SavedMemento, SavedOperation
  <1>8. worker[t] = "committed" => urlOf[t] \in library
    BY <1>1 DEF TaskRows, Halfway
  <1>9. TaskRows(t)'
    BY <1>1, <1>3, <1>4, <1>6, <1>7, <1>8 DEF TaskRows, Agree, Halfway, Saved,
       MementoIn, OperationIn
  <1> QED
    BY <1>1, <1>7, <1>9, OneTaskSuffices

LEMMA ReleaseRejectedRows ==
    ASSUME RowsInv, NEW t \in Tasks, ReleaseRejected(t)
    PROVE  \A u \in Tasks : TaskRows(u)'
PROOF
  <1>1. /\ TaskRows(t) /\ MementoIn(t, {"failed"})
        /\ UNCHANGED <<memento, urlOf, mode, library, worker, recovered, submit, neglected>>
        /\ \A u \in Tasks \ {t} : operation'[u] = operation[u]
    BY DEF RowsInv, JournalInv, TypeOK, ReleaseRejected, SaveOperation, ghosts
  <1>2. TaskRows(t)'
    BY <1>1 DEF TaskRows, Agree, Halfway, Saved, MementoIn
  <1> QED
    BY <1>1, <1>2, OneTaskSuffices

(* A start: calls that were interrupted become doubtful, accepted tasks    *)
(* are saved one by one, and those are taken over.                         *)
LEMMA BootRows ==
    ASSUME RowsInv, Boot
    PROVE  \A u \in Tasks : TaskRows(u)'
PROOF
  <1> TAKE t \in Tasks
  <1> DEFINE o == [operation[t] EXCEPT !.state = "uncertain"]
  <1>1. /\ TaskRows(t) /\ recovered' = {}
        /\ UNCHANGED <<memento, urlOf, library, worker, submit, neglected>>
    BY DEF RowsInv, Boot, handlers, ghosts
  <1>2. CASE OperationIn(t, {"sending"})
    <2>1. o \in Operations /\ o.state = "uncertain" /\ operation'[t] = o
      BY <1>2 DEF RowsInv, JournalInv, TypeOK, OperationIn, Operations, Reserving,
         Boot
    <2> HIDE DEF o
    <2>2. o # None
      BY <2>1, RowsAssumption
    <2>3. operation[t].state = "sending"
      BY <1>2 DEF OperationIn
    <2> QED
      BY <1>1, <2>1, <2>2, <2>3 DEF TaskRows, Agree, Halfway, Saved, MementoIn,
         OperationIn, Reserving
  <1>3. CASE ~OperationIn(t, {"sending"})
    <2>1. operation'[t] = operation[t]
      BY <1>3 DEF Boot
    <2> QED
      BY <1>1, <2>1, RowsUntouched
  <1> QED
    BY <1>2, <1>3

LEMMA RecoverRows ==
    ASSUME RowsInv, NEW t \in Tasks, Recover(t)
    PROVE  \A u \in Tasks : TaskRows(u)'
PROOF
  <1> DEFINE m == [memento[t] EXCEPT !.state = "downloading", !.bound = TRUE,
                      !.step = IF @ = "init" THEN "submitted" ELSE @]
  <1>1. /\ OperationIn(t, {"submitted"}) /\ operation[t].bound
        /\ memento[t] \in Mementos /\ submit[t] = "none" /\ worker[t] = "none"
        /\ UNCHANGED <<operation, urlOf, mode, library, worker, submit, neglected>>
        /\ recovered' = recovered \cup {t}
    BY DEF RowsInv, JournalInv, TypeOK, Bindings, Quiet, Recover, Resumable,
       MementoIn, OperationIn, handlers, ghosts
  <1>2. m \in Mementos /\ m.state = "downloading" /\ m.bound
    BY <1>1, StepFacts DEF Mementos
  <1>3. SaveMemento(t, m)
    BY DEF Recover
  <1> HIDE DEF m
  <1>4. memento'[t] = m /\ m # None /\ \A u \in Tasks \ {t} : memento'[u] = memento[u]
    BY <1>2, <1>3, SavedMemento
  <1>5. TaskRows(t)'
    BY <1>1, <1>2, <1>4 DEF TaskRows, Agree, Halfway, Saved, MementoIn, OperationIn
  <1> QED
    BY <1>1, <1>4, <1>5, OneTaskSuffices

(* What recovery has saved is no longer neglected: its rows agree again.   *)
LEMMA ServeRows ==
    ASSUME RowsInv, Serve
    PROVE  \A u \in Tasks : TaskRows(u)'
PROOF
  <1> TAKE t \in Tasks
  <1>1. /\ TaskRows(t) /\ mode = "recovering" /\ mode' = "serving"
        /\ submit[t] = "none" /\ worker[t] = "none" /\ worker'[t] \in {"none", "working"}
        /\ UNCHANGED <<memento, operation, urlOf, library, submit>>
        /\ neglected' = neglected \ recovered
    BY DEF RowsInv, JournalInv, TypeOK, Quiet, Serve, StartWorkers, rows, handlers
  <1>2. CASE t \in recovered
    <2>1. OperationIn(t, {"submitted"}) /\ operation[t].bound
      BY <1>1, <1>2 DEF RowsInv, JournalInv, Recovering, Bindings, OperationIn
    <2> QED
      BY <1>1, <1>2, <2>1 DEF TaskRows, Agree, Halfway, Saved, MementoIn,
         OperationIn
  <1>3. CASE t \notin recovered
    BY <1>1, <1>3 DEF TaskRows, Agree, Halfway, Saved, MementoIn, OperationIn
  <1> QED
    BY <1>2, <1>3

-----------------------------------------------------------------------------
(* The invariant.                                                          *)

LEMMA InitRows == Init => RowsInv
  BY InitKeeps DEF Init, RowsInv, TaskRows, Agree, Halfway, Saved

LEMMA RowsStep == RowsInv /\ [Next]_vars => RowsInv'
PROOF
  <1> SUFFICES ASSUME RowsInv, [Next]_vars PROVE RowsInv'
    OBVIOUS
  <1> DEFINE Goal == \A v \in Tasks : TaskRows(v)'
  <1>1. JournalInv'
    BY JournalStep DEF RowsInv
  <1>2. ASSUME NEW t \in Tasks, NEW u \in Urls, CreateDownload(t, u) PROVE Goal
    BY <1>2, ReserveRows DEF CreateDownload, ghosts
  <1>3. ASSUME NEW t \in Tasks, NEW u \in Urls, ScanSubmit(t, u) PROVE Goal
    BY <1>3, ReserveRows DEF ScanSubmit, ghosts
  <1>4. ASSUME NEW old \in Tasks, NEW t \in Tasks, Resubmit(old, t) PROVE Goal
    <2>1. urlOf[old] \in Urls
      BY <1>4 DEF RowsInv, JournalInv, TypeOK, Fresh, Resubmit
    <2> QED
      BY <1>4, <2>1, ReserveRows DEF Resubmit, ghosts
  <1>5. ASSUME NEW t \in Tasks, Submission(t) \/ Work(t) PROVE Goal
    BY <1>5, BeginRows, IdleRows, AcceptRows, AcceptSaveRows, ArchiveReplacedRows,
       RefusedSaveRows,
       RefusedReleaseRows, DoubtRows, DoubtSaveRows, AdvanceRows, FailRows, FailReleaseRows,
       CommitResourceRows, CompleteRows
    DEF Submission, Work
  <1>6. ASSUME NEW t \in Tasks, Control(t) \/ OpenList(t) PROVE Goal
    BY <1>4, <1>6, IdleRows, ResumeRows, ReleaseRejectedRows, ArchiveRows DEF
       Control, OpenList
  <1>7. ASSUME NEW t \in Tasks, Recover(t) PROVE Goal
    BY <1>7, RecoverRows
  <1>8. ASSUME Boot \/ Serve PROVE Goal
    BY <1>8, BootRows, ServeRows
  <1>9. ASSUME NEW t \in Tasks, NEW u, ScanLibrary \/ ScanTasks \/ ScanEnd \/ ScanSkip(u) \/ AbandonScan \/ Crash
        PROVE  Goal
    BY <1>9, IdleRows
  <1>10. ASSUME UNCHANGED vars PROVE Goal
    <2> TAKE v \in Tasks
    <2>1. /\ UNCHANGED <<memento, operation, urlOf, library, neglected, submit, worker, mode, recovered>>
      BY <1>10 DEF vars, rows, handlers, ghosts
    <2> QED
      BY <2>1, RowsUntouched
  <1> HIDE DEF Goal
  <1>11. Goal
    BY <1>2, <1>3, <1>5, <1>6, <1>7, <1>8, <1>9, <1>10 DEF Next, Scan, Process, Goal
  <1> QED
    BY <1>1, <1>11 DEF Goal, RowsInv

LEMMA RowsCorrect == Spec => []RowsInv
  BY InitRows, RowsStep, PTL DEF Spec

(* Whatever transaction the process stops after and however handlers,      *)
(* workers, scans and retries interleave, the two rows of a task agree     *)
(* (journal.rs, download_workflow.rs, task_controls.rs).                   *)
THEOREM RowsAlwaysAgree == Spec => []RowsAgree
PROOF
  <1>1. RowsInv => RowsAgree
    BY DEF RowsInv, TaskRows, Agree, RowsAgree, Created
  <1> QED
    BY <1>1, RowsCorrect, PTL

(* Two tasks never download one URL at once: a row that shows a download   *)
(* has its reservation, and reservations are unique.                       *)
THEOREM UrlDownloadedOnce == Spec => []OneDownloadPerUrl
PROOF
  <1>1. ASSUME RowsInv PROVE OneDownloadPerUrl
    <2> SUFFICES ASSUME NEW t \in Created \ neglected, NEW u \in SameUrl(t) \ neglected,
                        MementoIn(t, {"downloading"}), MementoIn(u, {"downloading"})
                 PROVE  FALSE
      BY DEF OneDownloadPerUrl
    <2>1. Reserves(t) /\ Reserves(u)
      BY <1>1 DEF RowsInv, TaskRows, Agree, Created, SameUrl, Reserves, OperationIn,
         Reserving
    <2> QED
      BY <1>1, <2>1 DEF RowsInv, JournalInv, OneReservation, SameUrl, Created
  <1> QED
    BY <1>1, RowsCorrect, PTL

-----------------------------------------------------------------------------
(* That a running download has somebody to work on it.                     *)

(* A task that is being submitted has no worker yet and is on nobody       *)
(* else's hands.                                                           *)
Busy(t) == submit[t] # "none" =>
    /\ worker[t] = "none" /\ t \notin resumed \cup scanned
    /\ submit[t] = "saved" => MementoIn(t, {"downloading"})

(* A task whose worker is yet to be started has none, so that the start    *)
(* will not be in vain.                                                    *)
Waiting(t) == t \in (resumed \cup scanned) \ neglected =>
    /\ worker[t] = "none" /\ submit[t] = "none"
    /\ MementoIn(t, {"downloading"})
    /\ t \in resumed => t \notin scanned

Runs(t) == urlOf[t] # None /\ OperationIn(t, {"submitted"}) /\ MementoIn(t, {"pending", "downloading"})
Cared(t) == mode = "serving" /\ Runs(t) /\ t \notin neglected => Attended(t)

TaskCare(t) == Busy(t) /\ Waiting(t) /\ Cared(t)
CareInv == RowsInv /\ \A t \in Tasks : TaskCare(t)
-----------------------------------------------------------------------------
(* What the parts of TaskCare look at.                                     *)
Same(t) ==
    /\ memento'[t] = memento[t] /\ operation'[t] = operation[t] /\ urlOf'[t] = urlOf[t]
    /\ submit'[t] = submit[t] /\ worker'[t] = worker[t]
    /\ t \in resumed' <=> t \in resumed
    /\ t \in scanned' <=> t \in scanned

LEMMA CareUntouched ==
    ASSUME CareInv, NEW t \in Tasks, Same(t), mode' = mode, neglected \subseteq neglected'
    PROVE  TaskCare(t)'
  BY DEF CareInv, Same, TaskCare, Busy, Waiting, Cared, Runs, Attended, MementoIn,
     OperationIn

LEMMA OneTaskCare ==
    ASSUME CareInv, NEW t \in Tasks, TaskCare(t)', \A u \in Tasks \ {t} : Same(u), mode' = mode,
           neglected \subseteq neglected'
    PROVE  \A u \in Tasks : TaskCare(u)'
  BY CareUntouched

(* The functions of the tasks, so that an update changes one of them.      *)
LEMMA CareTypes ==
    ASSUME CareInv
    PROVE  /\ RowsInv /\ JournalInv
           /\ DOMAIN submit = Tasks /\ DOMAIN worker = Tasks /\ DOMAIN memento = Tasks
           /\ DOMAIN operation = Tasks /\ DOMAIN urlOf = Tasks
           /\ resumed \subseteq Tasks /\ scanned \subseteq Tasks
  BY DEF CareInv, RowsInv, JournalInv, TypeOK

LEMMA ReserveCare ==
    ASSUME CareInv, NEW t \in Tasks, NEW u \in Urls, NEW who, Reserve(t, u, who),
           UNCHANGED <<mode, worker, resumed, scanned, neglected>>
    PROVE  \A v \in Tasks : TaskCare(v)'
PROOF
  <1>1. /\ operation'[t].state = "intent"
        /\ worker[t] = "none" /\ t \notin resumed \cup scanned
        /\ submit' = [submit EXCEPT ![t] = "reserved"]
        /\ \A v \in Tasks \ {t} : /\ memento'[v] = memento[v] /\ operation'[v] = operation[v]
                                  /\ urlOf'[v] = urlOf[v]
    BY CareTypes, Reserved
  <1>2. submit'[t] = "reserved" /\ \A v \in Tasks \ {t} : submit'[v] = submit[v]
    BY <1>1, CareTypes
  <1>3. \A v \in Tasks \ {t} : Same(v)
    BY <1>1, <1>2 DEF Same
  <1>4. TaskCare(t)'
    BY <1>1, <1>2 DEF TaskCare, Busy, Waiting, Cared, Runs, Attended, OperationIn
  <1> QED
    BY <1>3, <1>4, OneTaskCare

(* A submission has its task to itself until it hands it over.             *)
LEMMA CallCare ==
    ASSUME CareInv, NEW t \in Tasks,
           \/ Begin(t) \/ Answered(t) \/ Refused(t) \/ Unanswered(t) \/ Accept(t) \/ Doubt(t)
    PROVE  \A u \in Tasks : TaskCare(u)'
PROOF
  <1>1. submit[t] # "none"
    BY DEF Begin, Answered, Refused, Unanswered, Accept, Doubt
  <1>2. worker[t] = "none" /\ t \notin resumed \cup scanned
    BY <1>1 DEF CareInv, TaskCare, Busy
  <1>3. UNCHANGED <<mode, memento, urlOf, worker, resumed, scanned, neglected>>
    BY DEF Begin, Answered, Refused, Unanswered, Accept, Doubt, rows, scanner,
       ghosts
  <1>4. \A u \in Tasks \ {t} : operation'[u] = operation[u] /\ submit'[u] = submit[u]
    BY CareTypes DEF Begin, Answered, Refused, Unanswered, Accept, Doubt,
       SaveOperation, rows
  <1>5. submit'[t] \in {"calling", "answered", "refused", "unanswered", "accepted", "doubting"}
    BY CareTypes DEF Begin, Answered, Refused, Unanswered, Accept, Doubt
  <1>6. \A u \in Tasks \ {t} : Same(u)
    BY <1>3, <1>4 DEF Same
  <1>7. TaskCare(t)'
    BY <1>2, <1>3, <1>5 DEF TaskCare, Busy, Waiting, Cared, Attended
  <1> QED
    BY <1>3, <1>6, <1>7, OneTaskCare

LEMMA AcceptSaveCare ==
    ASSUME CareInv, NEW t \in Tasks, AcceptSave(t)
    PROVE  \A u \in Tasks : TaskCare(u)'
PROOF
  <1> DEFINE m == [memento[t] EXCEPT !.state = "downloading", !.step = "submitted",
                                    !.bound = TRUE]
  <1>1. MementoIn(t, {"pending"}) /\ memento[t] \in Mementos /\ submit[t] = "accepted"
    BY CareTypes DEF JournalInv, TypeOK, AcceptSave, Submitting, MementoIn
  <1>2. m \in Mementos /\ m.state = "downloading"
    BY <1>1, StepFacts DEF Mementos
  <1> HIDE DEF m
  <1>3. /\ memento'[t] = m /\ m # None /\ \A u \in Tasks \ {t} : memento'[u] = memento[u]
        /\ UNCHANGED <<operation, urlOf, mode, worker, resumed, neglected>>
    BY <1>2, CareTypes, SavedMemento DEF AcceptSave, m, ghosts
  <1>4. worker[t] = "none" /\ t \notin resumed \cup scanned
    BY <1>1 DEF CareInv, TaskCare, Busy
  <1>5. /\ \/ submit'[t] = "none" /\ scanned' = scanned \cup {t}
           \/ submit'[t] = "saved" /\ scanned' = scanned
        /\ \A u \in Tasks \ {t} : submit'[u] = submit[u]
    BY CareTypes DEF AcceptSave
  <1>6. \A u \in Tasks \ {t} : Same(u)
    BY <1>3, <1>5 DEF Same
  <1>7. TaskCare(t)'
    BY <1>2, <1>3, <1>4, <1>5 DEF TaskCare, Busy, Waiting, Cared, Attended,
       MementoIn
  <1> QED
    BY <1>3, <1>6, <1>7, OneTaskCare

(* The task a retry replaces is failed, and archived: nobody cares for it. *)
LEMMA MarkedCare ==
    ASSUME CareInv, NEW t \in Tasks, MementoIn(t, {"failed"}),
           SaveMemento(t, [memento[t] EXCEPT !.archived = TRUE]),
           UNCHANGED <<mode, operation, urlOf, submit, worker, resumed, scanned, neglected>>
    PROVE  \A u \in Tasks : TaskCare(u)'
PROOF
  <1> DEFINE m == [memento[t] EXCEPT !.archived = TRUE]
  <1>1. memento[t] \in Mementos /\ memento[t].state = "failed"
    BY CareTypes DEF JournalInv, TypeOK, MementoIn
  <1>2. m \in Mementos /\ m.state = "failed"
    BY <1>1 DEF Mementos
  <1> HIDE DEF m
  <1>3. memento'[t] = m /\ m # None /\ \A u \in Tasks \ {t} : memento'[u] = memento[u]
    BY <1>2, CareTypes, SavedMemento DEF m
  <1>4. \A u \in Tasks \ {t} : Same(u)
    BY <1>3 DEF Same
  <1>5. TaskCare(t)
    BY DEF CareInv
  <1>6. TaskCare(t)'
    BY <1>1, <1>2, <1>3, <1>5 DEF TaskCare, Busy, Waiting, Cared, Runs, MementoIn
  <1> QED
    BY <1>4, <1>6, OneTaskCare

LEMMA ArchiveReplacedCare ==
    ASSUME CareInv, NEW t \in Tasks, ArchiveReplaced(t)
    PROVE  \A u \in Tasks : TaskCare(u)'
PROOF
  <1>1. PICK old \in Tasks : old = by[t]
    BY DEF ArchiveReplaced
  <1>2. UNCHANGED <<mode, operation, urlOf, submit, worker, resumed, scanned, neglected>>
    BY DEF ArchiveReplaced, scanner, ghosts
  <1>3. CASE MementoIn(old, {"failed"})
    BY <1>1, <1>2, <1>3, MarkedCare DEF ArchiveReplaced
  <1>4. CASE ~MementoIn(old, {"failed"})
    BY <1>1, <1>2, <1>4, CareUntouched DEF ArchiveReplaced, Same
  <1> QED
    BY <1>3, <1>4

(* A worker is started for a task that has none.                           *)
LEMMA StartCare ==
    ASSUME CareInv, NEW t \in Tasks, HandOver(t) \/ StartResumed(t)
    PROVE  \A u \in Tasks : TaskCare(u)'
PROOF
  <1>1. UNCHANGED <<mode, memento, operation, urlOf, scanned, neglected>>
    BY DEF HandOver, StartResumed, rows, scanner, ghosts
  <1>2. \A u \in Tasks \ {t} :
            worker'[u] = worker[u] /\ submit'[u] = submit[u] /\ (u \in resumed' <=> u \in resumed)
    BY CareTypes DEF HandOver, StartResumed, StartWorkers
  <1>3. \A u \in Tasks \ {t} : Same(u)
    BY <1>1, <1>2 DEF Same
  <1>4. TaskCare(t) /\ t \notin resumed' /\ worker'[t] = IF worker[t] = "none" THEN "working" ELSE worker[t]
    BY CareTypes DEF CareInv, TaskCare, Busy, HandOver, StartResumed, StartWorkers
  <1>5. TaskCare(t)'
    <2>1. CASE HandOver(t)
      <3>1. worker[t] = "none" /\ t \notin scanned /\ submit'[t] = "none"
        BY <1>4, <2>1, CareTypes DEF HandOver, TaskCare, Busy
      <3> QED
        BY <1>1, <1>4, <3>1 DEF TaskCare, Busy, Waiting, Cared, Attended
    <2>2. CASE StartResumed(t)
      <3>1. t \in resumed /\ submit' = submit /\ submit[t] = "none"
        BY <1>4, <2>2 DEF StartResumed, TaskCare, Busy
      <3>2. CASE t \in neglected
        BY <1>1, <1>4, <3>1, <3>2 DEF TaskCare, Busy, Waiting, Cared
      <3>3. CASE t \notin neglected
        <4>1. worker[t] = "none" /\ t \notin scanned
          BY <1>4, <3>1, <3>3 DEF TaskCare, Waiting
        <4> QED
          BY <1>1, <1>4, <3>1, <4>1 DEF TaskCare, Busy, Waiting, Cared, Attended
      <3> QED
        BY <3>2, <3>3
    <2> QED
      BY <2>1, <2>2
  <1> QED
    BY <1>1, <1>3, <1>5, OneTaskCare

(* A submission that failed leaves a failed task.                          *)
LEMMA RefusalCare ==
    ASSUME CareInv, NEW t \in Tasks, RefusedSave(t) \/ RefusedRelease(t) \/ DoubtSave(t)
    PROVE  \A u \in Tasks : TaskCare(u)'
PROOF
  <1>1. /\ submit[t] # "none" /\ worker[t] = "none" /\ t \notin resumed \cup scanned
        /\ UNCHANGED <<mode, urlOf, worker, resumed, scanned, neglected>>
    BY DEF CareInv, TaskCare, Busy, RefusedSave, RefusedRelease, DoubtSave, scanner,
       ghosts
  <1>2. \A u \in Tasks \ {t} :
            memento'[u] = memento[u] /\ operation'[u] = operation[u] /\ submit'[u] = submit[u]
    BY CareTypes DEF RefusedSave, RefusedRelease, DoubtSave, SaveMemento,
       SaveOperation
  <1>3. \A u \in Tasks \ {t} : Same(u)
    BY <1>1, <1>2 DEF Same
  <1>4. submit'[t] \in {"releasing", "none"} /\ (submit'[t] = "none" => ~Runs(t)')
    <2>1. CASE RefusedSave(t)
      BY <2>1, CareTypes DEF RefusedSave
    <2>2. CASE RefusedRelease(t)
      <3> DEFINE o == [operation[t] EXCEPT !.state = "failed", !.rejected = TRUE]
      <3>1. operation[t] \in Operations
        BY <2>2, CareTypes DEF RefusedRelease, JournalInv, TypeOK, Journal,
           OperationIn
      <3>2. o \in Operations /\ o.state = "failed"
        BY <3>1 DEF Operations
      <3> HIDE DEF o
      <3>3. operation'[t] = o
        BY <2>2, <3>2, CareTypes, SavedOperation DEF RefusedRelease, o
      <3> QED
        BY <2>2, <3>2, <3>3, CareTypes DEF RefusedRelease, Runs, OperationIn
    <2>3. CASE DoubtSave(t)
      <3>1. OperationIn(t, {"uncertain"}) /\ operation' = operation
        BY <2>3, CareTypes DEF DoubtSave, JournalInv, Journal
      <3> QED
        BY <2>3, <3>1, CareTypes DEF DoubtSave, Runs, OperationIn
    <2> QED
      BY <2>1, <2>2, <2>3
  <1>5. TaskCare(t)'
    BY <1>1, <1>4 DEF TaskCare, Busy, Waiting, Cared, Attended
  <1> QED
    BY <1>1, <1>3, <1>5, OneTaskCare

(* A worker cares for its task until the task has failed or is completed.  *)
LEMMA AdvanceCare ==
    ASSUME CareInv, NEW t \in Tasks, Advance(t) \/ Fail(t)
    PROVE  \A u \in Tasks : TaskCare(u)'
PROOF
  <1>1. /\ worker[t] = "working"
        /\ UNCHANGED <<mode, operation, urlOf, submit, resumed, scanned, neglected>>
    BY DEF Advance, Fail, handlers, scanner, ghosts
  <1>2. submit[t] = "none" /\ t \notin (resumed \cup scanned) \ neglected
    BY <1>1 DEF CareInv, TaskCare, Busy, Waiting
  <1>3. \A u \in Tasks \ {t} : memento'[u] = memento[u] /\ worker'[u] = worker[u]
    BY CareTypes DEF Advance, Fail, SaveMemento
  <1>4. \A u \in Tasks \ {t} : Same(u)
    BY <1>1, <1>3 DEF Same
  <1>5. worker'[t] = "working" \/ ~Runs(t)'
    <2>1. CASE Advance(t)
      BY <1>1, <2>1 DEF Advance
    <2>2. CASE Fail(t)
      <3> DEFINE m == [memento[t] EXCEPT !.state = "failed"]
      <3>1. memento[t] \in Mementos
        BY <2>2, CareTypes DEF Fail, JournalInv, TypeOK, MementoIn
      <3>2. m \in Mementos /\ m.state = "failed"
        BY <3>1 DEF Mementos
      <3> HIDE DEF m
      <3>3. memento'[t] = m
        BY <2>2, <3>2, CareTypes, SavedMemento DEF Fail, m
      <3> QED
        BY <3>2, <3>3 DEF Runs, MementoIn
    <2> QED
      BY <2>1, <2>2
  <1>6. TaskCare(t)'
    BY <1>1, <1>2, <1>5 DEF TaskCare, Busy, Waiting, Cared, Attended
  <1> QED
    BY <1>1, <1>4, <1>6, OneTaskCare

LEMMA LeaveCare ==
    ASSUME CareInv, NEW t \in Tasks, CommitResource(t) \/ Leave(t) \/ FailRelease(t)
    PROVE  \A u \in Tasks : TaskCare(u)'
PROOF
  <1>1. /\ worker[t] # "none" /\ TaskCare(t)
        /\ UNCHANGED <<mode, memento, urlOf, submit, resumed, scanned, neglected>>
    BY DEF CareInv, CommitResource, Leave, FailRelease, rows, handlers, scanner,
       ghosts
  <1>2. submit[t] = "none" /\ t \notin (resumed \cup scanned) \ neglected
    BY <1>1 DEF TaskCare, Busy, Waiting
  <1>3. \A u \in Tasks \ {t} : operation'[u] = operation[u] /\ worker'[u] = worker[u]
    BY CareTypes DEF CommitResource, Leave, FailRelease, SaveOperation, rows
  <1>4. \A u \in Tasks \ {t} : Same(u)
    BY <1>1, <1>3 DEF Same
  <1>5. worker'[t] = "committed" \/ worker[t] \in {"failing", "leaving"}
    BY CareTypes DEF CommitResource, Leave, FailRelease
  <1>6. TaskCare(t)'
    <2>1. CASE worker'[t] = "committed"
      BY <1>1, <1>2, <2>1 DEF TaskCare, Busy, Waiting, Cared, Attended
    <2>2. CASE worker[t] \in {"failing", "leaving"}
      <3>1. t \notin neglected /\ mode = "serving" => ~Runs(t)
        BY <1>1, <1>2, <2>2 DEF TaskCare, Cared, Attended
      <3>2. Runs(t)' => Runs(t)
        <4>1. CASE operation' = operation
          BY <1>1, <4>1 DEF Runs, MementoIn, OperationIn
        <4>2. CASE operation' # operation
          <5> DEFINE o == [operation[t] EXCEPT !.state = "failed", !.rejected = FALSE]
          <5>1. FailRelease(t) /\ operation[t] \in Operations /\ SaveOperation(t, o)
            BY <4>2, CareTypes
            DEF CommitResource, Leave, FailRelease, JournalInv, TypeOK, OperationIn, rows
          <5>2. o \in Operations /\ o.state = "failed"
            BY <5>1 DEF Operations
          <5> HIDE DEF o
          <5>3. operation'[t] = o
            BY <5>1, <5>2, CareTypes, SavedOperation
          <5> QED
            BY <5>2, <5>3 DEF Runs, OperationIn
        <4> QED
          BY <4>1, <4>2
      <3> QED
        BY <1>1, <1>2, <3>1, <3>2 DEF TaskCare, Busy, Waiting, Cared
    <2> QED
      BY <1>5, <2>1, <2>2
  <1> QED
    BY <1>1, <1>4, <1>6, OneTaskCare

LEMMA CompleteCare ==
    ASSUME CareInv, NEW t \in Tasks, Complete(t)
    PROVE  \A u \in Tasks : TaskCare(u)'
PROOF
  <1>1. /\ worker[t] = "committed"
        /\ UNCHANGED <<mode, urlOf, submit, resumed, scanned, neglected>>
    BY DEF Complete, handlers, scanner, ghosts
  <1>2. submit[t] = "none" /\ t \notin (resumed \cup scanned) \ neglected
    BY <1>1 DEF CareInv, TaskCare, Busy, Waiting
  <1>3. \A u \in Tasks \ {t} :
            memento'[u] = memento[u] /\ operation'[u] = operation[u] /\ worker'[u] = worker[u]
    BY CareTypes DEF Complete, SaveMemento, SaveOperation, rows
  <1>4. \A u \in Tasks \ {t} : Same(u)
    BY <1>1, <1>3 DEF Same
  <1>5. worker'[t] = "working" \/ ~Runs(t)'
    BY CareTypes DEF Complete, SaveMemento, Runs, MementoIn
  <1>6. TaskCare(t)'
    BY <1>1, <1>2, <1>5 DEF TaskCare, Busy, Waiting, Cared, Attended
  <1> QED
    BY <1>1, <1>4, <1>6, OneTaskCare

(* A retry that resumes a task is about to start its worker; while the old *)
(* one is still there that start is in vain, and the task neglected.       *)
LEMMA ResumeCare ==
    ASSUME CareInv, NEW t \in Tasks, Resume(t)
    PROVE  \A u \in Tasks : TaskCare(u)'
PROOF
  <1> DEFINE m == [memento[t] EXCEPT !.state = "downloading", !.bound = TRUE,
                      !.step = IF @ = "init" THEN "submitted" ELSE @,
                      !.rejected = FALSE, !.archived = FALSE]
  <1>1. /\ memento[t] \in Mementos /\ MementoIn(t, {"failed"}) /\ Bound(t)
        /\ UNCHANGED <<urlOf, mode, worker, submit, scanned>>
        /\ resumed' = resumed \cup {t}
        /\ neglected \subseteq neglected' /\ (worker[t] # "none" => t \in neglected')
    BY CareTypes DEF JournalInv, TypeOK, Resume, MementoIn, scanner
  <1>2. operation[t] # None /\ operation[t].bound
    BY <1>1, CareTypes DEF JournalInv, Bindings, Bound, MementoIn
  <1>3. submit[t] = "none"
    <2>1. submit[t] \notin {"reserved", "calling", "answered", "refused", "unanswered", "accepted",
                            "doubting"}
      BY <1>1, CareTypes DEF JournalInv, Submitting, MementoIn
    <2>2. submit[t] # "releasing"
      BY <1>2, CareTypes DEF JournalInv, Journal, Bindings, OperationIn
    <2>3. submit[t] # "saved"
      BY <1>1 DEF CareInv, TaskCare, Busy, MementoIn
    <2> QED
      BY <2>1, <2>2, <2>3 DEF CareInv, RowsInv, JournalInv, TypeOK
  <1>4. t \notin (resumed \cup scanned) \ neglected
    BY <1>1 DEF CareInv, TaskCare, Waiting, MementoIn
  <1>5. m \in Mementos /\ m.state = "downloading" /\ SaveMemento(t, m)
    BY <1>1, StepFacts DEF Mementos, Resume
  <1> HIDE DEF m
  <1>6. /\ memento'[t] = m /\ m # None /\ \A u \in Tasks \ {t} : memento'[u] = memento[u]
        /\ \A u \in Tasks \ {t} : operation'[u] = operation[u]
    BY <1>5, CareTypes, SavedMemento DEF Resume, SaveOperation
  <1>7. \A u \in Tasks \ {t} : Same(u)
    BY <1>1, <1>6 DEF Same
  <1>8. TaskCare(t)'
    BY <1>1, <1>3, <1>4, <1>5, <1>6 DEF TaskCare, Busy, Waiting, Cared, Attended,
       MementoIn
  <1> QED
    BY <1>1, <1>7, <1>8, OneTaskCare

LEMMA ReleaseRejectedCare ==
    ASSUME CareInv, NEW t \in Tasks, ReleaseRejected(t)
    PROVE  \A u \in Tasks : TaskCare(u)'
PROOF
  <1>1. /\ TaskCare(t) /\ MementoIn(t, {"failed"})
        /\ UNCHANGED <<memento, urlOf, mode, worker, submit, resumed, scanned, neglected>>
        /\ \A u \in Tasks \ {t} : operation'[u] = operation[u]
    BY CareTypes DEF CareInv, ReleaseRejected, SaveOperation, scanner, ghosts
  <1>2. \A u \in Tasks \ {t} : Same(u)
    BY <1>1 DEF Same
  <1>3. TaskCare(t)'
    BY <1>1 DEF TaskCare, Busy, Waiting, Cared, Runs, MementoIn
  <1> QED
    BY <1>1, <1>2, <1>3, OneTaskCare

(* A handler that is dropped leaves its task alone.                        *)
LEMMA AbandonCare ==
    ASSUME CareInv, NEW t \in Tasks, Abandon(t)
    PROVE  \A u \in Tasks : TaskCare(u)'
PROOF
  <1>1. UNCHANGED <<mode, memento, operation, urlOf, worker, scanned>> /\ neglected \subseteq neglected'
    BY DEF Abandon, rows, scanner
  <1>2. \A u \in Tasks \ {t} : submit'[u] = submit[u] /\ (u \in resumed' <=> u \in resumed)
    BY CareTypes DEF Abandon
  <1>3. \A u \in Tasks \ {t} : Same(u)
    BY <1>1, <1>2 DEF Same
  <1>4. CASE submit' = submit /\ resumed' = resumed
    BY <1>1, <1>4, CareUntouched DEF Same
  <1>5. CASE t \in neglected' /\ (submit'[t] = submit[t] \/ submit'[t] = "none") /\ resumed' \subseteq resumed
    <2>1. TaskCare(t)'
      BY <1>1, <1>5 DEF CareInv, TaskCare, Busy, Waiting, Cared, MementoIn
    <2> QED
      BY <1>1, <1>3, <2>1, OneTaskCare
  <1> QED
    BY <1>4, <1>5, CareTypes DEF Abandon

(* Steps that touch nothing the care for a task depends on.                *)
LEMMA IdleCare ==
    ASSUME CareInv, NEW t \in Tasks, NEW u,
           \/ ResubmitRefused(t) \/ RemoteCreate(t) \/ RequestLost(t) \/ RemoteEnd(t)
           \/ Forget(t) \/ CleanedUnsaved(t)
           \/ ScanLibrary \/ ScanTasks \/ ScanSkip(u) \/ UNCHANGED vars
    PROVE  \A v \in Tasks : TaskCare(v)'
PROOF
  <1>1. UNCHANGED <<mode, memento, operation, urlOf, worker, submit, resumed, scanned, neglected>>
    BY DEF ResubmitRefused, RemoteCreate, RequestLost, RemoteEnd, Forget, CleanedUnsaved, ScanLibrary,
       ScanTasks, ScanSkip, vars,
           rows, handlers, scanner, ghosts
  <1> QED
    BY <1>1, CareUntouched DEF Same

(* The end of a scan starts the workers of its tasks.                      *)
LEMMA ScanEndCare ==
    ASSUME CareInv, ScanEnd
    PROVE  \A u \in Tasks : TaskCare(u)'
PROOF
  <1> TAKE t \in Tasks
  <1>1. /\ TaskCare(t) /\ scanned' = {}
        /\ UNCHANGED <<mode, memento, operation, urlOf, submit, resumed, neglected>>
        /\ worker'[t] = IF t \in scanned /\ worker[t] = "none" THEN "working" ELSE worker[t]
    BY DEF CareInv, ScanEnd, StartWorkers, rows, handlers, ghosts
  <1>2. CASE t \in scanned
    <2>1. submit[t] = "none"
      BY <1>1, <1>2 DEF TaskCare, Busy
    <2>2. t \notin neglected => worker[t] = "none" /\ t \notin resumed
      BY <1>1, <1>2 DEF TaskCare, Waiting
    <2>3. t \notin neglected => worker'[t] = "working"
      BY <1>1, <1>2, <2>2
    <2> QED
      BY <1>1, <2>1, <2>2, <2>3 DEF TaskCare, Busy, Waiting, Cared, Attended
  <1>3. CASE t \notin scanned
    BY <1>1, <1>3 DEF TaskCare, Busy, Waiting, Cared, Runs, Attended, MementoIn,
       OperationIn
  <1> QED
    BY <1>2, <1>3

LEMMA AbandonScanCare ==
    ASSUME CareInv, AbandonScan
    PROVE  \A u \in Tasks : TaskCare(u)'
PROOF
  <1> TAKE t \in Tasks
  <1>1. /\ TaskCare(t) /\ scanned' = {} /\ scanned \subseteq neglected' /\ neglected \subseteq neglected'
        /\ UNCHANGED <<mode, memento, operation, urlOf, worker, resumed>>
        /\ submit'[t] = submit[t] \/ (submit'[t] = "none" /\ t \in neglected')
    BY DEF CareInv, AbandonScan, rows
  <1>2. CASE t \in neglected'
    BY <1>1, <1>2 DEF TaskCare, Busy, Waiting, Cared, MementoIn
  <1>3. CASE t \notin neglected'
    BY <1>1, <1>3 DEF TaskCare, Busy, Waiting, Cared, Runs, Attended, MementoIn,
       OperationIn
  <1> QED
    BY <1>2, <1>3

(* Before the process serves nobody has begun.                             *)
LEMMA QuietCare ==
    ASSUME JournalInv', mode' # "serving"
    PROVE  \A u \in Tasks : TaskCare(u)'
  BY DEF JournalInv, Quiet, TaskCare, Busy, Waiting, Cared

(* When it does, every accepted task gets a worker.                        *)
LEMMA ServeCare ==
    ASSUME CareInv, Serve
    PROVE  \A u \in Tasks : TaskCare(u)'
PROOF
  <1> TAKE t \in Tasks
  <1>1. /\ worker[t] = "none" /\ submit[t] = "none" /\ resumed = {} /\ scanned = {}
        /\ Resumable \subseteq recovered
        /\ UNCHANGED <<memento, operation, urlOf, submit, resumed, scanned>>
        /\ worker'[t] = IF t \in recovered THEN "working" ELSE "none"
    BY CareTypes DEF JournalInv, Quiet, Serve, StartWorkers, rows, handlers, scanner
  <1>2. Runs(t)' => t \in recovered
    BY <1>1 DEF Runs, Resumable, Created, MementoIn, OperationIn
  <1> QED
    BY <1>1, <1>2 DEF TaskCare, Busy, Waiting, Cared, Attended

-----------------------------------------------------------------------------
LEMMA InitCare == Init => CareInv
  BY InitRows DEF Init, CareInv, TaskCare, Busy, Waiting, Cared

LEMMA CareStep == CareInv /\ [Next]_vars => CareInv'
PROOF
  <1> SUFFICES ASSUME CareInv, [Next]_vars PROVE CareInv'
    OBVIOUS
  <1> DEFINE Goal == \A v \in Tasks : TaskCare(v)'
  <1>1. RowsInv' /\ JournalInv'
    BY RowsStep, JournalStep DEF CareInv, RowsInv
  <1>2. ASSUME NEW t \in Tasks, NEW u \in Urls, CreateDownload(t, u) PROVE Goal
    BY <1>2, ReserveCare DEF CreateDownload, scanner, ghosts
  <1>3. ASSUME NEW t \in Tasks, NEW u \in Urls, ScanSubmit(t, u) PROVE Goal
    BY <1>3, ReserveCare DEF ScanSubmit, ghosts
  <1>4. ASSUME NEW old \in Tasks, NEW t \in Tasks, Resubmit(old, t) PROVE Goal
    <2>1. urlOf[old] \in Urls
      BY <1>4 DEF CareInv, RowsInv, JournalInv, TypeOK, Fresh, Resubmit
    <2> QED
      BY <1>4, <2>1, ReserveCare DEF Resubmit, scanner, ghosts
  <1>5. ASSUME NEW t \in Tasks, Submission(t) PROVE Goal
    BY <1>5, CallCare, AcceptSaveCare, ArchiveReplacedCare, StartCare, RefusalCare
       DEF Submission
  <1>6. ASSUME NEW t \in Tasks, Work(t) PROVE Goal
    BY <1>6, AdvanceCare, LeaveCare, CompleteCare DEF Work
  <1>7. ASSUME NEW t \in Tasks, Archive(t) PROVE Goal
    BY <1>7, MarkedCare DEF Archive, handlers, scanner, ghosts
  <1>8. ASSUME NEW t \in Tasks, Control(t) \/ OpenList(t) PROVE Goal
    BY <1>4, <1>7, <1>8, ResumeCare, StartCare, ReleaseRejectedCare, AbandonCare,
       IdleCare
    DEF Control, OpenList
  <1>9. ASSUME Scan PROVE Goal
    BY <1>3, <1>9, IdleCare, ScanEndCare DEF Scan
  <1>10. ASSUME Process PROVE Goal
    <2>1. CASE mode' = "serving"
      <3>1. Serve \/ AbandonScan
        BY <1>10, <2>1 DEF Process, Crash, Boot, Recover
      <3> QED
        BY <3>1, ServeCare, AbandonScanCare
    <2> QED
      BY <1>1, <2>1, QuietCare
  <1>11. ASSUME UNCHANGED vars PROVE Goal
    BY <1>11, IdleCare
  <1> HIDE DEF Goal
  <1>12. Goal
    BY <1>2, <1>5, <1>6, <1>8, <1>9, <1>10, <1>11 DEF Next
  <1> QED
    BY <1>1, <1>12 DEF Goal, CareInv

LEMMA CareCorrect == Spec => []CareInv
  BY InitCare, CareStep, PTL DEF Spec

(* However submissions, scans, retries, workers and restarts interleave,   *)
(* while the service serves there is somebody for every task OpenList has  *)
(* accepted, but for those a race or a dropped request has left alone      *)
(* (download_service.rs, task_controls.rs, rss_scan.rs).                   *)
THEOREM DownloadsAlwaysAttended == Spec => []EveryDownloadAttended
PROOF
  <1>1. CareInv => EveryDownloadAttended
    BY DEF CareInv, TaskCare, Cared, Runs, EveryDownloadAttended, Resumable, Created
  <1> QED
    BY <1>1, CareCorrect, PTL
=================================================================================
