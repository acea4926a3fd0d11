----------------------- MODULE IngestionPipelineProofs -----------------------
(***************************************************************************)
(* Proofs about IngestionPipeline for every value of its constants: its    *)
(* types; that it carries each active task once, that its store follows    *)
(* its registry and that no URL has two active tasks, for any tasks,       *)
(* workers, sources, limits and crashes; and that it implements            *)
(* DownloadLedger: a step that saves a task is a step of the ledger or     *)
(* none, and so is a restart, since rows say what the objects say.         *)
(***************************************************************************)
EXTENDS IngestionPipeline, TLAPS, FiniteSetTheorems, SequenceTheorems

-----------------------------------------------------------------------------
(* Sequences of tasks.                                                     *)

(* Appending and concatenating add elements and nothing else.              *)
LEMMA ElementsOfAppend ==
    ASSUME NEW S, NEW s \in Seq(S), NEW x \in S
    PROVE  /\ Append(s, x) \in Seq(S)
           /\ ToSet(Append(s, x)) = ToSet(s) \cup {x}
PROOF
  <1>1. /\ Append(s, x) \in Seq(S)
        /\ Len(Append(s, x)) = Len(s) + 1
        /\ Append(s, x)[Len(s) + 1] = x
        /\ \A i \in 1 .. Len(s) : Append(s, x)[i] = s[i]
    OBVIOUS
  <1>2. DOMAIN s = 1 .. Len(s) /\ DOMAIN Append(s, x) = 1 .. Len(s) + 1 /\ Len(s) \in Nat
    BY <1>1
  <1>3. ToSet(Append(s, x)) \subseteq ToSet(s) \cup {x}
    BY <1>1, <1>2 DEF ToSet
  <1>4. ToSet(s) \cup {x} \subseteq ToSet(Append(s, x))
    BY <1>1, <1>2 DEF ToSet
  <1> QED
    BY <1>1, <1>3, <1>4

LEMMA ElementsOfConcat ==
    ASSUME NEW S, NEW s \in Seq(S), NEW r \in Seq(S)
    PROVE  s \o r \in Seq(S) /\ ToSet(s \o r) \subseteq ToSet(s) \cup ToSet(r)
PROOF
  <1>1. /\ s \o r \in Seq(S)
        /\ Len(s \o r) = Len(s) + Len(r)
        /\ \A i \in 1 .. Len(s) + Len(r) :
              (s \o r)[i] = IF i <= Len(s) THEN s[i] ELSE r[i - Len(s)]
    BY ConcatProperties
  <1>2. DOMAIN s = 1 .. Len(s) /\ DOMAIN r = 1 .. Len(r)
        /\ DOMAIN (s \o r) = 1 .. Len(s) + Len(r) /\ Len(s) \in Nat /\ Len(r) \in Nat
    BY <1>1
  <1> QED
    BY <1>1, <1>2 DEF ToSet

LEMMA ElementsOfSubSeq ==
    ASSUME NEW S, NEW s \in Seq(S), NEW m \in 1 .. Len(s) + 1, NEW n \in m - 1 .. Len(s)
    PROVE  SubSeq(s, m, n) \in Seq(S) /\ ToSet(SubSeq(s, m, n)) \subseteq ToSet(s)
PROOF
  <1>1. /\ SubSeq(s, m, n) \in Seq(S)
        /\ Len(SubSeq(s, m, n)) = n - m + 1
        /\ \A i \in 1 .. n - m + 1 : SubSeq(s, m, n)[i] = s[m + i - 1]
    BY SubSeqProperties
  <1>2. DOMAIN s = 1 .. Len(s) /\ DOMAIN SubSeq(s, m, n) = 1 .. n - m + 1 /\ Len(s) \in Nat
    BY <1>1
  <1> QED
    BY <1>1, <1>2 DEF ToSet

LEMMA ElementsOfTail ==
    ASSUME NEW S, NEW s \in Seq(S), s # <<>>
    PROVE  /\ Tail(s) \in Seq(S)
           /\ Head(s) \in S
           /\ ToSet(s) = {Head(s)} \cup ToSet(Tail(s))
PROOF
  <1>1. /\ Tail(s) \in Seq(S) /\ Head(s) \in S /\ Head(s) = s[1]
        /\ Len(Tail(s)) = Len(s) - 1 /\ Len(s) \in Nat \ {0}
        /\ \A i \in 1 .. Len(s) - 1 : Tail(s)[i] = s[i + 1]
    BY HeadTailProperties
  <1>2. DOMAIN s = 1 .. Len(s) /\ DOMAIN Tail(s) = 1 .. Len(s) - 1
    BY <1>1
  <1>3. ToSet(s) \subseteq {Head(s)} \cup ToSet(Tail(s))
    <2> SUFFICES ASSUME NEW i \in 1 .. Len(s)
                 PROVE  s[i] \in {Head(s)} \cup ToSet(Tail(s))
      BY <1>2 DEF ToSet
    <2>1. CASE i = 1
      BY <2>1, <1>1
    <2>2. CASE i # 1
      <3>1. i - 1 \in 1 .. Len(s) - 1 /\ Tail(s)[i - 1] = s[i]
        BY <2>2, <1>1
      <3> QED
        BY <3>1, <1>2 DEF ToSet
    <2> QED
      BY <2>1, <2>2
  <1>4. {Head(s)} \cup ToSet(Tail(s)) \subseteq ToSet(s)
    BY <1>1, <1>2 DEF ToSet
  <1> QED
    BY <1>1, <1>3, <1>4

(* Removing an entry and dropping the oldest ones keep the history a       *)
(* sequence of entries it had.                                             *)
LEMMA ElementsOfWithout ==
    ASSUME NEW S, NEW s \in Seq(S), NEW x
    PROVE  Without(s, x) \in Seq(S) /\ ToSet(Without(s, x)) \subseteq ToSet(s)
PROOF
  <1>1. CASE ~\E i \in DOMAIN s : s[i] = x
    BY <1>1 DEF Without
  <1>2. CASE \E i \in DOMAIN s : s[i] = x
    <2> DEFINE k == CHOOSE i \in DOMAIN s : s[i] = x
    <2>1. k \in 1 .. Len(s) /\ Len(s) \in Nat
      BY <1>2
    <2> HIDE DEF k
    <2> DEFINE before == SubSeq(s, 1, k - 1)
               after == SubSeq(s, k + 1, Len(s))
    <2>2. /\ before \in Seq(S) /\ ToSet(before) \subseteq ToSet(s)
          /\ after \in Seq(S) /\ ToSet(after) \subseteq ToSet(s)
      BY <2>1, ElementsOfSubSeq
    <2>3. Without(s, x) = before \o after
      BY <1>2 DEF Without, RemoveAt, k
    <2> HIDE DEF before, after
    <2>4. /\ before \o after \in Seq(S)
          /\ ToSet(before \o after) \subseteq ToSet(before) \cup ToSet(after)
      BY <2>2, ElementsOfConcat
    <2> QED
      BY <2>2, <2>3, <2>4
  <1> QED
    BY <1>1, <1>2

LEMMA ElementsOfNewest ==
    ASSUME NEW S, NEW s \in Seq(S)
    PROVE  Newest(s) \in Seq(S) /\ ToSet(Newest(s)) \subseteq ToSet(s)
PROOF
  <1>1. Len(s) \in Nat /\ HistoryLimit \in Nat
    BY LimitsAssumption
  <1>2. CASE Len(s) <= HistoryLimit
    BY <1>2 DEF Newest
  <1>3. CASE ~(Len(s) <= HistoryLimit)
    <2>1. /\ Len(s) - HistoryLimit + 1 \in 1 .. Len(s) + 1
          /\ Len(s) \in Len(s) - HistoryLimit + 1 - 1 .. Len(s)
      BY <1>1, <1>3
    <2> QED
      BY <1>3, <2>1, ElementsOfSubSeq DEF Newest
  <1> QED
    BY <1>2, <1>3

(* An ordering of a finite set has its elements, each once.                *)
LEMMA Orderings ==
    ASSUME NEW S, IsFiniteSet(S), NEW q \in SetToSeqs(S)
    PROVE  q \in Seq(S) /\ ToSet(q) = S /\ IsInjective(q)
PROOF
  <1> DEFINE n == Cardinality(S)
  <1>1. n \in Nat
    BY FS_CardinalityType
  <1>2. q \in [1 .. n -> S] /\ (\A i, j \in 1 .. n : i # j => q[i] # q[j])
    BY DEF SetToSeqs
  <1> HIDE DEF n
  <1>3. q \in Seq(S)
    BY <1>1, <1>2, SeqDef
  <1>4. IsInjective(q)
    BY <1>2 DEF IsInjective
  <1>5. q \in Injection(1 .. n, S)
    BY <1>2, <1>4 DEF Injection
  <1>6. Cardinality(1 .. n) = n
    BY <1>1, FS_Interval
  <1>7. q \in Surjection(1 .. n, S)
    BY <1>5, <1>6, FS_Injection DEF n
  <1>8. ToSet(q) = S
    BY <1>2, <1>7 DEF ToSet, Surjection
  <1> QED
    BY <1>3, <1>4, <1>8

-----------------------------------------------------------------------------
(* Type correctness.                                                       *)

(* A task in the registry or on its way has a memento object.              *)
Objects == \A t \in Known \cup Carried : memento[t] \in Mementos

(* A worker is idle exactly when it holds no task.                         *)
Occupation == \A w \in Workers : phase[w] = "idle" <=> job[w] = None

TypeInv == TypeOK /\ Objects /\ Occupation

(* What a save leaves of the registry: typed, with one more known task.    *)
SavedOnly(t) ==
    /\ RegistryTypeOK'
    /\ tasks' \cup ToSet(history') \subseteq Known \cup {t}
    /\ memento'[t] \in Mementos
    /\ \A u \in Tasks : memento[u] \in Mementos => memento'[u] \in Mementos

LEMMA SaveKeepsTypes ==
    ASSUME TypeInv, NEW t \in Tasks, NEW m \in Mementos, Save(t, m)
    PROVE  SavedOnly(t)
PROOF
  <1> USE DEF TypeInv, TypeOK, RegistryTypeOK
  <1> DEFINE rest == Without(history, t)
  <1>1. rest \in Seq(Tasks) /\ ToSet(rest) \subseteq ToSet(history)
    BY ElementsOfWithout
  <1> HIDE DEF rest
  <1>2. Append(rest, t) \in Seq(Tasks) /\ ToSet(Append(rest, t)) = ToSet(rest) \cup {t}
    BY <1>1, ElementsOfAppend
  <1>3. /\ Newest(Append(rest, t)) \in Seq(Tasks)
        /\ ToSet(Newest(Append(rest, t))) \subseteq ToSet(rest) \cup {t}
    BY <1>2, ElementsOfNewest
  <1>4. history' \in Seq(Tasks) /\ ToSet(history') \subseteq ToSet(history) \cup {t}
    BY <1>1, <1>3 DEF Save, rest
  <1>5. memento' \in [Tasks -> Mementos \cup {None}] /\ memento' = [memento EXCEPT ![t] = m]
    BY DEF Save
  <1>6. store' \in [Tasks -> Mementos \cup {None}]
    BY DEF Save, Row
  <1>7. tasks' \subseteq tasks \cup {t} /\ tasks \subseteq Tasks
    BY DEF Save
  <1>8. /\ memento'[t] \in Mementos
        /\ \A u \in Tasks : memento[u] \in Mementos => memento'[u] \in Mementos
    BY <1>5
  <1> QED
    BY <1>4, <1>5, <1>6, <1>7, <1>8 DEF Known, SavedOnly

(* A step that saves one task, and one that leaves the registry alone.     *)
LEMMA SavingStep ==
    ASSUME TypeInv, NEW t \in Tasks, NEW m \in Mementos, Save(t, m),
           FlowTypeOK', Occupation', Carried' \subseteq Carried \cup {t}
    PROVE  TypeInv'
PROOF
  <1>1. SavedOnly(t)
    BY SaveKeepsTypes
  <1>2. Known \subseteq Tasks /\ Carried \subseteq Tasks
    BY DEF TypeInv, TypeOK, RegistryTypeOK, FlowTypeOK, Known, Carried, Queued,
       Held, ToSet
  <1>3. \A u \in (Known \cup Carried)' : memento'[u] \in Mementos
    BY <1>1, <1>2 DEF SavedOnly, TypeInv, Objects, Known
  <1> QED
    BY <1>1, <1>3 DEF SavedOnly, TypeInv, TypeOK, Objects

LEMMA QuietStep ==
    ASSUME TypeInv, UNCHANGED registry,
           FlowTypeOK', Occupation', Carried' \subseteq Carried
    PROVE  TypeInv'
PROOF
  BY DEF TypeInv, TypeOK, RegistryTypeOK, Objects, Known, registry

(* A carried task and a known one are tasks with a memento object.         *)
LEMMA CarriedIsTask ==
    ASSUME TypeInv, NEW t \in Carried \cup Known
    PROVE  t \in Tasks /\ memento[t] \in Mementos
PROOF
  BY DEF TypeInv, TypeOK, RegistryTypeOK, FlowTypeOK, Objects, Known, Carried,
     Queued, Held,
         ToSet

(* A mapped memento is a memento.                                          *)
LEMMA MementoUpdates ==
    ASSUME NEW m \in Mementos
    PROVE  /\ \A s \in States : [m EXCEPT !.state = s] \in Mementos
           /\ \A s \in States, p \in Paths : [m EXCEPT !.state = s, !.path = p] \in Mementos
           /\ \A s \in States : [m EXCEPT !.state = s, !.retries = @ + 1] \in Mementos
           /\ [m EXCEPT !.archived = TRUE] \in Mementos
           /\ [m EXCEPT !.state = "pending", !.path = "none", !.retries = 0,
                        !.archived = FALSE] \in Mementos
           /\ \A n \in RetryLimits : [m EXCEPT !.limit = n] \in Mementos
PROOF
  <1> USE DEF Mementos, Paths
  <1>1. \A s \in States : [m EXCEPT !.state = s] \in Mementos
    OBVIOUS
  <1>2. \A s \in States, p \in Paths : [m EXCEPT !.state = s, !.path = p] \in Mementos
    OBVIOUS
  <1>3. ASSUME NEW s \in States
        PROVE  [m EXCEPT !.state = s, !.retries = @ + 1] \in Mementos
    <2> DEFINE stated == [m EXCEPT !.state = s]
    <2>1. stated \in Mementos
      OBVIOUS
    <2>2. stated.retries + 1 \in Nat
      BY <2>1
    <2> HIDE DEF stated
    <2>3. [stated EXCEPT !.retries = stated.retries + 1] \in Mementos
      BY <2>1, <2>2
    <2> QED
      BY <2>3 DEF stated
  <1>4. [m EXCEPT !.archived = TRUE] \in Mementos
    OBVIOUS
  <1>5. [m EXCEPT !.state = "pending", !.path = "none", !.retries = 0,
                  !.archived = FALSE] \in Mementos
    BY DEF States, ActiveStates
  <1>6. \A n \in RetryLimits : [m EXCEPT !.limit = n] \in Mementos
    BY LimitsAssumption
  <1> QED
    BY <1>1, <1>2, <1>3, <1>4, <1>5, <1>6

LEMMA InitTypes == Init => TypeInv
PROOF
  <1> SUFFICES ASSUME Init PROVE TypeInv
    OBVIOUS
  <1>0. <<>> \in Seq(Tasks)
    BY EmptySeq
  <1>1. RegistryTypeOK
    BY <1>0 DEF Init, RegistryTypeOK
  <1>2. FlowTypeOK
    <2>1. crashes \in 0 .. MaxCrashes
      BY LimitsAssumption DEF Init
    <2>2. up \in BOOLEAN
      BY DEF Init
    <2>3. /\ attempts \in [Tasks -> Nat]
          /\ job \in [Workers -> Tasks \cup {None}]
          /\ phase \in [Workers -> Phases]
          /\ origin \in [Tasks -> Releases \cup {None}]
      BY DEF Init, Phases
    <2> QED
      BY <1>0, <2>1, <2>2, <2>3 DEF Init, FlowTypeOK
  <1>3. Known = {} /\ Carried = {}
    BY DEF Init, Known, Carried, Queued, Held, ToSet
  <1> QED
    BY <1>1, <1>2, <1>3 DEF TypeInv, TypeOK, Objects, Occupation, Init

(* What a worker's hold changes.                                           *)
HeldOnly(w, t) ==
    /\ job' \in [Workers -> Tasks \cup {None}]
    /\ phase' \in [Workers -> Phases]
    /\ Occupation'
    /\ Held' \subseteq Held \cup ({t} \ {None})

LEMMA HoldTypes ==
    ASSUME TypeInv, NEW w \in Workers, NEW t \in Tasks \cup {None}, NEW p \in Phases,
           Hold(w, t, p), p = "idle" <=> t = None
    PROVE  HeldOnly(w, t)
PROOF
  <1>1. /\ job' = [job EXCEPT ![w] = t] /\ job \in [Workers -> Tasks \cup {None}]
        /\ phase' = [phase EXCEPT ![w] = p] /\ phase \in [Workers -> Phases]
    BY DEF Hold, TypeInv, TypeOK, FlowTypeOK
  <1>2. job' \in [Workers -> Tasks \cup {None}] /\ phase' \in [Workers -> Phases]
    BY <1>1
  <1>3. Occupation'
    BY <1>1 DEF TypeInv, Occupation
  <1>4. Held' \subseteq Held \cup ({t} \ {None})
    BY <1>1 DEF Held
  <1> QED
    BY <1>2, <1>3, <1>4 DEF HeldOnly

(* Every worker is one.                                                    *)
LEMMA WorkersAreWorkers ==
    /\ Renamer \in Workers
    /\ Notifier \in Workers
    /\ \A w \in DownloadWorkers : w \in Workers
PROOF
  BY DEF Workers

(* Vetting changes only the vetted releases.                               *)
LEMMA VetTypes ==
    ASSUME TypeInv, NEW r \in Releases, Vet(r)
    PROVE  TypeInv'
PROOF
  <1>2. FlowTypeOK' /\ UNCHANGED registry
    BY TasksAssumption DEF Vet, TypeInv, TypeOK, FlowTypeOK, Phases, intake,
       buffers, workers, ghosts, registry
  <1>3. Occupation' /\ Held' = Held
    BY DEF Vet, TypeInv, Occupation, Held, workers
  <1>4. Carried' \subseteq Carried
    BY <1>3 DEF Vet, Carried, Queued, intake, buffers, workers
  <1> QED
    BY <1>2, <1>3, <1>4, QuietStep

(* So does discarding.                                                     *)
LEMMA DiscardTypes ==
    ASSUME TypeInv, NEW r \in Releases, Discard(r)
    PROVE  TypeInv'
PROOF
  <1>2. FlowTypeOK' /\ UNCHANGED registry
    BY TasksAssumption DEF Discard, TypeInv, TypeOK, FlowTypeOK, Phases, intake,
       buffers, workers, ghosts, registry
  <1>3. Occupation' /\ Held' = Held
    BY DEF Discard, TypeInv, Occupation, Held, workers
  <1>4. Carried' \subseteq Carried
    BY <1>3 DEF Discard, Carried, Queued, intake, buffers, workers
  <1> QED
    BY <1>2, <1>3, <1>4, QuietStep

(* The reserved task is new; it starts as a pending memento.               *)
LEMMA ReserveDownloadTaskTypes ==
    ASSUME TypeInv, NEW r \in Releases, ReserveDownloadTask(r)
    PROVE  TypeInv'
PROOF
  <1> DEFINE m == [state |-> "pending", release |-> r, retries |-> 0,
                   limit |-> maxRetries, path |-> "none", archived |-> FALSE]
  <1>1. PICK t \in Tasks \ Created :
          Save(t, m) /\ reserving' = t /\ origin' = [origin EXCEPT ![t] = r]
          /\ vetted' = vetted \ {r}
    BY DEF ReserveDownloadTask
  <1>2. m \in Mementos
    BY LimitsAssumption DEF Mementos, States, ActiveStates, Paths, TypeInv, TypeOK,
       FlowTypeOK
  <1> HIDE DEF m
  <1>3. FlowTypeOK'
    BY <1>1 DEF ReserveDownloadTask, TypeInv, TypeOK, FlowTypeOK, buffers, workers
  <1>4. Occupation' /\ Held' = Held
    BY DEF ReserveDownloadTask, TypeInv, Occupation, Held, workers
  <1>5. Carried' \subseteq Carried \cup {t}
    BY <1>1, <1>4 DEF ReserveDownloadTask, Carried, Queued, buffers
  <1> QED
    BY <1>1, <1>2, <1>3, <1>4, <1>5, SavingStep

(* The reserved task moves to the download buffer.                         *)
LEMMA EnqueueReservedTypes ==
    ASSUME TypeInv, EnqueueReserved
    PROVE  TypeInv'
PROOF
  <1>1. /\ Append(downloadBuffer, reserving) \in Seq(Tasks)
        /\ ToSet(Append(downloadBuffer, reserving)) = ToSet(downloadBuffer) \cup {reserving}
    BY ElementsOfAppend DEF EnqueueReserved, TypeInv, TypeOK, FlowTypeOK
  <1>2. FlowTypeOK' /\ UNCHANGED registry
    BY <1>1 DEF EnqueueReserved, TypeInv, TypeOK, FlowTypeOK, workers, ghosts
  <1>3. Occupation' /\ Held' = Held
    BY DEF EnqueueReserved, TypeInv, Occupation, Held, workers
  <1>4. Carried' \subseteq Carried
    BY <1>1, <1>3 DEF EnqueueReserved, Carried, Queued
  <1> QED
    BY <1>2, <1>3, <1>4, QuietStep

(* A dropped item leaves the rest alone.                                   *)
LEMMA SkipDownloadTypes ==
    ASSUME TypeInv, NEW w \in DownloadWorkers, SkipDownload(w)
    PROVE  TypeInv'
PROOF
  <1>1. /\ Tail(downloadBuffer) \in Seq(Tasks)
        /\ ToSet(Tail(downloadBuffer)) \subseteq ToSet(downloadBuffer)
    BY ElementsOfTail DEF SkipDownload, TypeInv, TypeOK, FlowTypeOK
  <1>2. FlowTypeOK' /\ UNCHANGED registry
    BY <1>1 DEF SkipDownload, TypeInv, TypeOK, FlowTypeOK, Phases, intake, buffers,
       workers, ghosts, registry
  <1>3. Occupation' /\ Held' = Held
    BY DEF SkipDownload, TypeInv, Occupation, Held, workers
  <1>4. Carried' \subseteq Carried
    BY <1>1, <1>3 DEF SkipDownload, Carried, Queued, intake, buffers, workers
  <1> QED
    BY <1>2, <1>3, <1>4, QuietStep

(* The head of the buffer becomes the worker's task.                       *)
LEMMA StartDownloadTypes ==
    ASSUME TypeInv, NEW w \in DownloadWorkers, StartDownload(w)
    PROVE  TypeInv'
PROOF
  <1> DEFINE t == Head(downloadBuffer)
             m == [memento[t] EXCEPT !.state = "downloading"]
  <1>1. /\ Tail(downloadBuffer) \in Seq(Tasks) /\ t \in Tasks
        /\ ToSet(Tail(downloadBuffer)) \subseteq ToSet(downloadBuffer)
    BY ElementsOfTail DEF StartDownload, TypeInv, TypeOK, FlowTypeOK
  <1>2. m \in Mementos
    BY CarriedIsTask, MementoUpdates DEF StartDownload, States, ActiveStates
  <1>3. Save(t, m) /\ Hold(w, t, "downloading")
    BY DEF StartDownload
  <1> HIDE DEF m
  <1>4. HeldOnly(w, t)
    BY <1>1, <1>3, HoldTypes, WorkersAreWorkers, TasksAssumption DEF Phases
  <1>5. FlowTypeOK'
    BY <1>1, <1>4 DEF StartDownload, TypeInv, TypeOK, HeldOnly, FlowTypeOK, Phases,
       intake, buffers, workers, ghosts, registry
  <1>6. Carried' \subseteq Carried \cup {t}
    BY <1>1, <1>4 DEF StartDownload, HeldOnly, Carried, Queued, intake, buffers,
       workers
  <1> QED
    BY <1>1, <1>2, <1>3, <1>4, <1>5, <1>6, SavingStep DEF HeldOnly

(* A checkpoint saves the memento as it is.                                *)
LEMMA CheckpointDownloadTypes ==
    ASSUME TypeInv, NEW w \in DownloadWorkers, CheckpointDownload(w)
    PROVE  TypeInv'
PROOF
  <1>1. job[w] \in Carried
    BY WorkersAreWorkers
       DEF CheckpointDownload, TypeInv, TypeOK, FlowTypeOK, Occupation, Carried, Held
  <1>2. job[w] \in Tasks /\ memento[job[w]] \in Mementos
    BY <1>1, CarriedIsTask
  <1>3. FlowTypeOK'
    BY DEF CheckpointDownload, TypeInv, TypeOK, FlowTypeOK, intake, buffers,
       workers, ghosts
  <1>4. Occupation' /\ Held' = Held
    BY DEF CheckpointDownload, TypeInv, Occupation, Held, workers
  <1>5. Carried' \subseteq Carried
    BY <1>4 DEF CheckpointDownload, Carried, Queued, intake, buffers
  <1> QED
    BY <1>2, <1>3, <1>4, <1>5, SavingStep DEF CheckpointDownload

(* The worker of a cancelled task becomes idle.                            *)
LEMMA IgnoreDownloadTypes ==
    ASSUME TypeInv, NEW w \in DownloadWorkers, IgnoreDownload(w)
    PROVE  TypeInv'
PROOF
  <1>1. HeldOnly(w, None)
    BY HoldTypes, WorkersAreWorkers DEF IgnoreDownload, Release, Phases
  <1>2. FlowTypeOK' /\ UNCHANGED registry
    BY <1>1 DEF IgnoreDownload, TypeInv, TypeOK, HeldOnly, FlowTypeOK, intake,
       buffers, ghosts
  <1>3. Carried' \subseteq Carried
    BY <1>1 DEF IgnoreDownload, HeldOnly, Carried, Queued, intake, buffers
  <1> QED
    BY <1>1, <1>2, <1>3, QuietStep DEF HeldOnly

(* The worker keeps the downloaded task.                                   *)
LEMMA FinishDownloadTypes ==
    ASSUME TypeInv, NEW w \in DownloadWorkers, FinishDownload(w)
    PROVE  TypeInv'
PROOF
  <1> DEFINE t == job[w]
             m == [memento[t] EXCEPT !.state = "downloaded", !.path = "downloaded"]
  <1>1. t \in Carried
    BY WorkersAreWorkers DEF FinishDownload, TypeInv, TypeOK, FlowTypeOK,
       Occupation, Carried, Held
  <1>2. t \in Tasks /\ memento[t] \in Mementos /\ t # None
    BY <1>1, CarriedIsTask, TasksAssumption
  <1>3. m \in Mementos
    BY <1>2, MementoUpdates DEF States, ActiveStates, Paths
  <1>4. Save(t, m) /\ Hold(w, t, "downloaded")
    BY DEF FinishDownload, Release, StateOf
  <1> HIDE DEF m
  <1>5. HeldOnly(w, t)
    BY <1>2, <1>4, HoldTypes, WorkersAreWorkers DEF Phases
  <1>7. FlowTypeOK'
    BY <1>5 DEF FinishDownload, TypeInv, TypeOK, HeldOnly, FlowTypeOK, Phases,
       intake, buffers, workers, ghosts, registry
  <1>8. Carried' \subseteq Carried \cup {t}
    BY <1>5 DEF FinishDownload, HeldOnly, Carried, Queued, intake, buffers, workers
  <1> QED
    BY <1>2, <1>3, <1>4, <1>5, <1>7, <1>8, SavingStep DEF HeldOnly

(* The worker's task moves to the next buffer.                             *)
LEMMA HandToRenameTypes ==
    ASSUME TypeInv, NEW w \in DownloadWorkers, HandToRename(w)
    PROVE  TypeInv'
PROOF
  <1> DEFINE t == job[w]
  <1>1. t \in Carried /\ t \in Held
    BY WorkersAreWorkers DEF HandToRename, TypeInv, TypeOK, FlowTypeOK, Occupation,
       Carried, Held
  <1>2. t \in Tasks
    BY <1>1, CarriedIsTask
  <1>3. HeldOnly(w, None)
    BY HoldTypes, WorkersAreWorkers DEF HandToRename, Release, Phases
  <1>4. /\ Append(renameBuffer, t) \in Seq(Tasks)
        /\ ToSet(Append(renameBuffer, t)) = ToSet(renameBuffer) \cup {t}
    BY <1>2, ElementsOfAppend DEF TypeInv, TypeOK, FlowTypeOK
  <1>5. FlowTypeOK' /\ UNCHANGED registry
    BY <1>3, <1>4 DEF HandToRename, TypeInv, TypeOK, HeldOnly, FlowTypeOK, Phases,
       intake, buffers, workers, ghosts, registry
  <1>6. Carried' \subseteq Carried
    BY <1>1, <1>3, <1>4 DEF HandToRename, HeldOnly, Carried, Queued, intake,
       buffers, workers
  <1> QED
    BY <1>3, <1>5, <1>6, QuietStep DEF HeldOnly

(* The task goes back to the download buffer.                              *)
LEMMA RetryDownloadTypes ==
    ASSUME TypeInv, NEW w \in DownloadWorkers, RetryDownload(w)
    PROVE  TypeInv'
PROOF
  <1> DEFINE t == job[w]
             m == [memento[t] EXCEPT !.state = "pending", !.retries = @ + 1]
  <1>1. t \in Carried
    BY WorkersAreWorkers DEF RetryDownload, TypeInv, TypeOK, FlowTypeOK, Occupation,
       Carried, Held
  <1>2. t \in Tasks /\ memento[t] \in Mementos /\ t # None
    BY <1>1, CarriedIsTask, TasksAssumption
  <1>3. m \in Mementos
    BY <1>2, MementoUpdates DEF States, ActiveStates, TerminalStates
  <1>4. Save(t, m) /\ Hold(w, None, "idle")
    BY DEF RetryDownload, Release, StateOf
  <1> HIDE DEF m
  <1>5. HeldOnly(w, None)
    BY <1>2, <1>4, HoldTypes, WorkersAreWorkers DEF Phases
  <1>6. /\ Append(downloadBuffer, t) \in Seq(Tasks)
        /\ ToSet(Append(downloadBuffer, t)) = ToSet(downloadBuffer) \cup {t}
    BY <1>2, ElementsOfAppend DEF TypeInv, TypeOK, FlowTypeOK
  <1>7. FlowTypeOK'
    BY <1>6, <1>5 DEF RetryDownload, TypeInv, TypeOK, HeldOnly, FlowTypeOK, Phases,
       intake, buffers, workers, ghosts, registry
  <1>8. Carried' \subseteq Carried \cup {t}
    BY <1>6, <1>5 DEF RetryDownload, HeldOnly, Carried, Queued, intake, buffers,
       workers
  <1> QED
    BY <1>2, <1>3, <1>4, <1>5, <1>7, <1>8, SavingStep DEF HeldOnly

(* The task leaves the pipeline.                                           *)
LEMMA FailDownloadTypes ==
    ASSUME TypeInv, NEW w \in DownloadWorkers, FailDownload(w)
    PROVE  TypeInv'
PROOF
  <1> DEFINE t == job[w]
             m == [memento[t] EXCEPT !.state = "failed"]
  <1>1. t \in Carried
    BY WorkersAreWorkers DEF FailDownload, TypeInv, TypeOK, FlowTypeOK, Occupation,
       Carried, Held
  <1>2. t \in Tasks /\ memento[t] \in Mementos /\ t # None
    BY <1>1, CarriedIsTask, TasksAssumption
  <1>3. m \in Mementos
    BY <1>2, MementoUpdates DEF States, ActiveStates, TerminalStates
  <1>4. Save(t, m) /\ Hold(w, None, "idle")
    BY DEF FailDownload, Release, StateOf
  <1> HIDE DEF m
  <1>5. HeldOnly(w, None)
    BY <1>2, <1>4, HoldTypes, WorkersAreWorkers DEF Phases
  <1>7. FlowTypeOK'
    BY <1>5 DEF FailDownload, TypeInv, TypeOK, HeldOnly, FlowTypeOK, Phases, intake,
       buffers, workers, ghosts, registry
  <1>8. Carried' \subseteq Carried \cup {t}
    BY <1>5 DEF FailDownload, HeldOnly, Carried, Queued, intake, buffers, workers
  <1> QED
    BY <1>2, <1>3, <1>4, <1>5, <1>7, <1>8, SavingStep DEF HeldOnly

(* A dropped item leaves the rest alone.                                   *)
LEMMA SkipRenameTypes ==
    ASSUME TypeInv, SkipRename
    PROVE  TypeInv'
PROOF
  <1>1. /\ Tail(renameBuffer) \in Seq(Tasks)
        /\ ToSet(Tail(renameBuffer)) \subseteq ToSet(renameBuffer)
    BY ElementsOfTail DEF SkipRename, TypeInv, TypeOK, FlowTypeOK
  <1>2. FlowTypeOK' /\ UNCHANGED registry
    BY <1>1 DEF SkipRename, TypeInv, TypeOK, FlowTypeOK, Phases, intake, buffers,
       workers, ghosts, registry
  <1>3. Occupation' /\ Held' = Held
    BY DEF SkipRename, TypeInv, Occupation, Held, workers
  <1>4. Carried' \subseteq Carried
    BY <1>1, <1>3 DEF SkipRename, Carried, Queued, intake, buffers, workers
  <1> QED
    BY <1>2, <1>3, <1>4, QuietStep

(* The head of the buffer becomes the worker's task.                       *)
LEMMA StartRenameTypes ==
    ASSUME TypeInv, StartRename
    PROVE  TypeInv'
PROOF
  <1> DEFINE t == Head(renameBuffer)
             m == [memento[t] EXCEPT !.state = "renaming"]
  <1>1. /\ Tail(renameBuffer) \in Seq(Tasks) /\ t \in Tasks
        /\ ToSet(Tail(renameBuffer)) \subseteq ToSet(renameBuffer)
    BY ElementsOfTail DEF StartRename, TypeInv, TypeOK, FlowTypeOK
  <1>2. m \in Mementos
    BY CarriedIsTask, MementoUpdates DEF StartRename, States, ActiveStates
  <1>3. Save(t, m) /\ Hold(Renamer, t, "renaming")
    BY DEF StartRename
  <1> HIDE DEF m
  <1>4. HeldOnly(Renamer, t)
    BY <1>1, <1>3, HoldTypes, WorkersAreWorkers, TasksAssumption DEF Phases
  <1>5. FlowTypeOK'
    BY <1>1, <1>4 DEF StartRename, TypeInv, TypeOK, HeldOnly, FlowTypeOK, Phases,
       intake, buffers, workers, ghosts, registry
  <1>6. Carried' \subseteq Carried \cup {t}
    BY <1>1, <1>4 DEF StartRename, HeldOnly, Carried, Queued, intake, buffers,
       workers
  <1> QED
    BY <1>1, <1>2, <1>3, <1>4, <1>5, <1>6, SavingStep DEF HeldOnly

(* The worker keeps the renamed task.                                      *)
LEMMA FinishRenameTypes ==
    ASSUME TypeInv, FinishRename
    PROVE  TypeInv'
PROOF
  <1> DEFINE t == job[Renamer]
             m == [memento[t] EXCEPT !.state = "renamed", !.path = "renamed"]
  <1>1. t \in Carried
    BY WorkersAreWorkers DEF FinishRename, TypeInv, TypeOK, FlowTypeOK, Occupation,
       Carried, Held
  <1>2. t \in Tasks /\ memento[t] \in Mementos /\ t # None
    BY <1>1, CarriedIsTask, TasksAssumption
  <1>3. m \in Mementos
    BY <1>2, MementoUpdates DEF States, ActiveStates, Paths
  <1>4. Save(t, m) /\ Hold(Renamer, t, "renamed")
    BY DEF FinishRename, Release, StateOf
  <1> HIDE DEF m
  <1>5. HeldOnly(Renamer, t)
    BY <1>2, <1>4, HoldTypes, WorkersAreWorkers DEF Phases
  <1>7. FlowTypeOK'
    BY <1>5 DEF FinishRename, TypeInv, TypeOK, HeldOnly, FlowTypeOK, Phases, intake,
       buffers, workers, ghosts, registry
  <1>8. Carried' \subseteq Carried \cup {t}
    BY <1>5 DEF FinishRename, HeldOnly, Carried, Queued, intake, buffers, workers
  <1> QED
    BY <1>2, <1>3, <1>4, <1>5, <1>7, <1>8, SavingStep DEF HeldOnly

(* The worker's task moves to the next buffer.                             *)
LEMMA HandToNotificationTypes ==
    ASSUME TypeInv, HandToNotification
    PROVE  TypeInv'
PROOF
  <1> DEFINE t == job[Renamer]
  <1>1. t \in Carried /\ t \in Held
    BY WorkersAreWorkers DEF HandToNotification, TypeInv, TypeOK, FlowTypeOK,
       Occupation, Carried, Held
  <1>2. t \in Tasks
    BY <1>1, CarriedIsTask
  <1>3. HeldOnly(Renamer, None)
    BY HoldTypes, WorkersAreWorkers DEF HandToNotification, Release, Phases
  <1>4. /\ Append(notificationBuffer, t) \in Seq(Tasks)
        /\ ToSet(Append(notificationBuffer, t)) = ToSet(notificationBuffer) \cup {t}
    BY <1>2, ElementsOfAppend DEF TypeInv, TypeOK, FlowTypeOK
  <1>5. FlowTypeOK' /\ UNCHANGED registry
    BY <1>3, <1>4 DEF HandToNotification, TypeInv, TypeOK, HeldOnly, FlowTypeOK,
       Phases, intake, buffers, workers, ghosts, registry
  <1>6. Carried' \subseteq Carried
    BY <1>1, <1>3, <1>4 DEF HandToNotification, HeldOnly, Carried, Queued, intake,
       buffers, workers
  <1> QED
    BY <1>3, <1>5, <1>6, QuietStep DEF HeldOnly

(* A failure in the rename or notification stage.                          *)
LEMMA MarkFailedTypes ==
    ASSUME TypeInv, NEW w \in Workers, MarkFailed(w), job[w] # None
    PROVE  TypeInv'
PROOF
  <1> DEFINE t == job[w]
             m == [memento[t] EXCEPT !.state = "failed"]
  <1>1. t \in Carried
    BY DEF TypeInv, TypeOK, FlowTypeOK, Carried, Held
  <1>2. t \in Tasks /\ memento[t] \in Mementos
    BY <1>1, CarriedIsTask
  <1>3. m \in Mementos
    BY <1>2, MementoUpdates DEF States, TerminalStates
  <1>4. Save(t, m) \/ UNCHANGED registry
    BY DEF MarkFailed
  <1> HIDE DEF m
  <1>5. HeldOnly(w, None)
    BY HoldTypes DEF MarkFailed, Release, Phases
  <1>6. FlowTypeOK'
    BY <1>5 DEF MarkFailed, TypeInv, TypeOK, HeldOnly, FlowTypeOK, intake, buffers,
       ghosts
  <1>7. Carried' \subseteq Carried
    BY <1>5 DEF MarkFailed, HeldOnly, Carried, Queued, intake, buffers
  <1> QED
    BY <1>2, <1>3, <1>4, <1>5, <1>6, <1>7, SavingStep, QuietStep DEF HeldOnly

LEMMA FailStageTypes ==
    ASSUME TypeInv, FailRename \/ FailNotification
    PROVE  TypeInv'
PROOF
  BY MarkFailedTypes, WorkersAreWorkers DEF FailRename, FailNotification, TypeInv,
     Occupation

(* A dropped item leaves the rest alone.                                   *)
LEMMA SkipNotificationTypes ==
    ASSUME TypeInv, SkipNotification
    PROVE  TypeInv'
PROOF
  <1>1. /\ Tail(notificationBuffer) \in Seq(Tasks)
        /\ ToSet(Tail(notificationBuffer)) \subseteq ToSet(notificationBuffer)
    BY ElementsOfTail DEF SkipNotification, TypeInv, TypeOK, FlowTypeOK
  <1>2. FlowTypeOK' /\ UNCHANGED registry
    BY <1>1 DEF SkipNotification, TypeInv, TypeOK, FlowTypeOK, Phases, intake,
       buffers, workers, ghosts, registry
  <1>3. Occupation' /\ Held' = Held
    BY DEF SkipNotification, TypeInv, Occupation, Held, workers
  <1>4. Carried' \subseteq Carried
    BY <1>1, <1>3 DEF SkipNotification, Carried, Queued, intake, buffers, workers
  <1> QED
    BY <1>2, <1>3, <1>4, QuietStep

(* The head of the buffer becomes the worker's task.                       *)
LEMMA StartNotificationTypes ==
    ASSUME TypeInv, StartNotification
    PROVE  TypeInv'
PROOF
  <1> DEFINE t == Head(notificationBuffer)
             m == [memento[t] EXCEPT !.state = "notifying"]
  <1>1. /\ Tail(notificationBuffer) \in Seq(Tasks) /\ t \in Tasks
        /\ ToSet(Tail(notificationBuffer)) \subseteq ToSet(notificationBuffer)
    BY ElementsOfTail DEF StartNotification, TypeInv, TypeOK, FlowTypeOK
  <1>2. m \in Mementos
    BY CarriedIsTask, MementoUpdates DEF StartNotification, States, ActiveStates
  <1>3. Save(t, m) /\ Hold(Notifier, t, "recording")
    BY DEF StartNotification
  <1> HIDE DEF m
  <1>4. HeldOnly(Notifier, t)
    BY <1>1, <1>3, HoldTypes, WorkersAreWorkers, TasksAssumption DEF Phases
  <1>5. FlowTypeOK'
    BY <1>1, <1>4 DEF StartNotification, TypeInv, TypeOK, HeldOnly, FlowTypeOK,
       Phases, intake, buffers, workers, ghosts, registry
  <1>6. Carried' \subseteq Carried \cup {t}
    BY <1>1, <1>4 DEF StartNotification, HeldOnly, Carried, Queued, intake, buffers,
       workers
  <1> QED
    BY <1>1, <1>2, <1>3, <1>4, <1>5, <1>6, SavingStep DEF HeldOnly

(* The library gains the URL of the worker's task.                         *)
LEMMA AddReleaseTypes ==
    ASSUME TypeInv, AddRelease
    PROVE  TypeInv'
PROOF
  <1> DEFINE t == job[Notifier]
  <1>1. t \in Carried /\ t # None
    BY WorkersAreWorkers DEF AddRelease, TypeInv, TypeOK, FlowTypeOK, Occupation,
       Carried, Held
  <1>2. t \in Tasks /\ memento[t] \in Mementos
    BY <1>1, CarriedIsTask
  <1>3. memento[t].release.url \in Urls
    BY <1>2 DEF Mementos, Releases
  <1>4. HeldOnly(Notifier, t)
    BY <1>1, <1>2, HoldTypes, WorkersAreWorkers DEF AddRelease, Phases
  <1>5. FlowTypeOK' /\ UNCHANGED registry
    BY <1>3, <1>4 DEF AddRelease, TypeInv, TypeOK, HeldOnly, FlowTypeOK, intake,
       buffers, ghosts
  <1>6. Carried' \subseteq Carried
    BY <1>1, <1>4 DEF AddRelease, HeldOnly, Carried, Queued, intake, buffers
  <1> QED
    BY <1>4, <1>5, <1>6, QuietStep DEF HeldOnly

(* The task leaves the pipeline.                                           *)
LEMMA CompleteTaskTypes ==
    ASSUME TypeInv, CompleteTask
    PROVE  TypeInv'
PROOF
  <1> DEFINE t == job[Notifier]
             m == [memento[t] EXCEPT !.state = "completed"]
  <1>1. t \in Carried
    BY WorkersAreWorkers DEF CompleteTask, TypeInv, TypeOK, FlowTypeOK, Occupation,
       Carried, Held
  <1>2. t \in Tasks /\ memento[t] \in Mementos /\ t # None
    BY <1>1, CarriedIsTask, TasksAssumption
  <1>3. m \in Mementos
    BY <1>2, MementoUpdates DEF States, ActiveStates, TerminalStates
  <1>4. Save(t, m) /\ Hold(Notifier, None, "idle")
    BY DEF CompleteTask, Release, StateOf
  <1> HIDE DEF m
  <1>5. HeldOnly(Notifier, None)
    BY <1>2, <1>4, HoldTypes, WorkersAreWorkers DEF Phases
  <1>7. FlowTypeOK'
    BY <1>5 DEF CompleteTask, TypeInv, TypeOK, HeldOnly, FlowTypeOK, Phases, intake,
       buffers, workers, ghosts, registry
  <1>8. Carried' \subseteq Carried \cup {t}
    BY <1>5 DEF CompleteTask, HeldOnly, Carried, Queued, intake, buffers, workers
  <1> QED
    BY <1>2, <1>3, <1>4, <1>5, <1>7, <1>8, SavingStep DEF HeldOnly

(* A manual retry and an archived failure save one remembered task.        *)
LEMMA RetryByHandTypes ==
    ASSUME TypeInv, NEW t \in Tasks, RetryByHand(t)
    PROVE  TypeInv'
PROOF
  <1> DEFINE m == [memento[t] EXCEPT !.state = "pending", !.path = "none", !.retries = 0,
                                     !.archived = FALSE]
  <1>1. memento[t] \in Mementos
    BY CarriedIsTask DEF RetryByHand
  <1>2. m \in Mementos /\ Save(t, m)
    <2>1. m \in Mementos
      BY <1>1, MementoUpdates
    <2>2. Save(t, m)
      BY DEF RetryByHand
    <2> QED
      BY <2>1, <2>2
  <1> HIDE DEF m
  <1>3. /\ Append(downloadBuffer, t) \in Seq(Tasks)
        /\ ToSet(Append(downloadBuffer, t)) = ToSet(downloadBuffer) \cup {t}
    BY ElementsOfAppend DEF TypeInv, TypeOK, FlowTypeOK
  <1>4. FlowTypeOK'
    BY <1>3 DEF RetryByHand, TypeInv, TypeOK, FlowTypeOK, intake, buffers, workers
  <1>5. Occupation' /\ Held' = Held
    BY DEF RetryByHand, TypeInv, Occupation, Held, workers
  <1>6. Carried' \subseteq Carried \cup {t}
    BY <1>3, <1>5 DEF RetryByHand, Carried, Queued, intake
  <1> QED
    BY <1>2, <1>4, <1>5, <1>6, SavingStep

LEMMA ArchiveFailedTypes ==
    ASSUME TypeInv, NEW t \in Tasks, ArchiveFailed(t)
    PROVE  TypeInv'
PROOF
  <1> DEFINE m == [memento[t] EXCEPT !.archived = TRUE]
  <1>1. memento[t] \in Mementos
    BY CarriedIsTask DEF ArchiveFailed
  <1>2. m \in Mementos /\ Save(t, m)
    BY <1>1, MementoUpdates DEF ArchiveFailed
  <1> HIDE DEF m
  <1>3. FlowTypeOK'
    BY DEF ArchiveFailed, TypeInv, TypeOK, FlowTypeOK, intake, buffers, workers,
       ghosts
  <1>4. Occupation' /\ Held' = Held
    BY DEF ArchiveFailed, TypeInv, Occupation, Held, workers
  <1>5. Carried' \subseteq Carried
    BY <1>4 DEF ArchiveFailed, Carried, Queued, intake, buffers
  <1> QED
    BY <1>2, <1>3, <1>4, <1>5, SavingStep

(* A new limit changes one field of the active tasks.                      *)
LEMMA UpdateMaxRetriesTypes ==
    ASSUME TypeInv, NEW n \in RetryLimits, UpdateMaxRetries(n)
    PROVE  TypeInv'
PROOF
  <1>1. \A t \in tasks : memento[t] \in Mementos /\ [memento[t] EXCEPT !.limit = n] \in Mementos
    BY CarriedIsTask, MementoUpdates DEF Known
  <1>2. memento \in [Tasks -> Mementos \cup {None}] /\ store \in [Tasks -> Mementos \cup {None}]
    BY DEF TypeInv, TypeOK, RegistryTypeOK
  <1>3. memento' \in [Tasks -> Mementos \cup {None}]
    BY <1>1, <1>2 DEF UpdateMaxRetries
  <1>4. store' \in [Tasks -> Mementos \cup {None}]
    BY <1>2, <1>3 DEF UpdateMaxRetries
  <1>5. RegistryTypeOK'
    BY <1>3, <1>4 DEF UpdateMaxRetries, TypeInv, TypeOK, RegistryTypeOK
  <1>6. FlowTypeOK' /\ Occupation'
    BY DEF UpdateMaxRetries, TypeInv, TypeOK, FlowTypeOK, Occupation, intake,
       buffers,
           workers, ghosts
  <1>7. (Known \cup Carried)' = Known \cup Carried
    BY DEF UpdateMaxRetries, Known, Carried, Queued, Held, intake, buffers, workers
  <1>8. \A t \in Tasks : memento[t] \in Mementos => memento'[t] \in Mementos
    BY <1>1 DEF UpdateMaxRetries
  <1> QED
    BY <1>5, <1>6, <1>7, <1>8, CarriedIsTask DEF TypeInv, TypeOK, Objects

(* A subset of the tasks is finite, and so are the elements of a sequence. *)
LEMMA FiniteTasks ==
    /\ \A S : S \subseteq Tasks => IsFiniteSet(S)
    /\ \A s \in Seq(Tasks) : ToSet(s) \subseteq Tasks
PROOF
  BY TasksAssumption, FS_Subset DEF ToSet

(* The history after a cancellation has nothing new but what it reached.   *)
LEMMA CancelledHistory ==
    ASSUME TypeInv, NEW s \in Sources, CancelTasksForSource(s)
    PROVE  /\ Associated(s) \subseteq Known /\ Known \subseteq Tasks
           /\ history' \in Seq(Tasks)
           /\ ToSet(history') \subseteq ToSet(history) \cup Associated(s)
PROOF
  <1> DEFINE cancelled == Associated(s)
  <1>1. cancelled \subseteq Known /\ Known \subseteq Tasks
    BY CarriedIsTask DEF Associated
  <1> HIDE DEF cancelled
  <1>2. PICK spared \in Sparing(history, cancelled), order \in SetToSeqs(cancelled) :
          history' = Newest(spared \o order)
    BY DEF CancelTasksForSource, cancelled
  <1>3. history \in Seq(Tasks) /\ ToSet(history) \subseteq Tasks
    BY FiniteTasks DEF TypeInv, TypeOK, RegistryTypeOK
  <1>4. IsFiniteSet(ToSet(history) \ cancelled) /\ IsFiniteSet(cancelled)
    BY <1>1, <1>3, FiniteTasks
  <1>5. /\ spared \in Seq(ToSet(history) \ cancelled)
        /\ ToSet(spared) = ToSet(history) \ cancelled
    BY <1>4, Orderings DEF Sparing
  <1>6. order \in Seq(cancelled) /\ ToSet(order) = cancelled
    BY <1>4, Orderings
  <1>7. spared \in Seq(Tasks) /\ order \in Seq(Tasks)
    BY <1>1, <1>3, <1>5, <1>6
  <1>8. /\ spared \o order \in Seq(Tasks)
        /\ ToSet(spared \o order) \subseteq ToSet(history) \cup cancelled
    BY <1>5, <1>6, <1>7, ElementsOfConcat
  <1>9. history' \in Seq(Tasks) /\ ToSet(history') \subseteq ToSet(history) \cup cancelled
    BY <1>2, <1>8, ElementsOfNewest
  <1> QED
    BY <1>1, <1>9 DEF cancelled

(* Cancelling saves every associated task as cancelled.                    *)
LEMMA CancelTasksForSourceTypes ==
    ASSUME TypeInv, NEW s \in Sources, CancelTasksForSource(s)
    PROVE  TypeInv'
PROOF
  <1> DEFINE cancelled == Associated(s)
  <1>1. /\ cancelled \subseteq Known /\ Known \subseteq Tasks
        /\ history' \in Seq(Tasks) /\ ToSet(history') \subseteq ToSet(history) \cup cancelled
    BY CancelledHistory
  <1>2. \A t \in cancelled :
          memento[t] \in Mementos /\ [memento[t] EXCEPT !.state = "cancelled"] \in Mementos
    BY <1>1, CarriedIsTask, MementoUpdates DEF States, TerminalStates
  <1> HIDE DEF cancelled
  <1>3. /\ memento' = [t \in Tasks |->
             IF t \in cancelled THEN [memento[t] EXCEPT !.state = "cancelled"] ELSE memento[t]]
        /\ store' = [t \in Tasks |-> IF t \in cancelled THEN None ELSE store[t]]
        /\ tasks' = tasks \ cancelled
        /\ withdrawn' = withdrawn \cup cancelled
    BY DEF CancelTasksForSource, cancelled
  <1>4. RegistryTypeOK'
    BY <1>1, <1>2, <1>3 DEF TypeInv, TypeOK, RegistryTypeOK
  <1>5. FlowTypeOK' /\ Occupation'
    BY <1>1, <1>3 DEF CancelTasksForSource, TypeInv, TypeOK, FlowTypeOK, Occupation,
       intake,
                      buffers, workers
  <1>6. Carried' = Carried
    BY DEF CancelTasksForSource, Carried, Queued, Held, intake, buffers, workers
  <1>7. Known' \subseteq Known
    BY <1>1, <1>3 DEF Known
  <1>8. \A t \in Tasks : memento[t] \in Mementos => memento'[t] \in Mementos
    BY <1>2, <1>3
  <1> QED
    BY <1>4, <1>5, <1>6, <1>7, <1>8, CarriedIsTask DEF TypeInv, TypeOK, Objects

(* A crash empties the process.                                            *)
LEMMA CrashTypes ==
    ASSUME TypeInv, Crash
    PROVE  TypeInv'
PROOF
  <1>1. RegistryTypeOK'
    BY EmptySeq DEF Crash, TypeInv, TypeOK, RegistryTypeOK
  <1>2. /\ crashes' \in 0 .. MaxCrashes
        /\ up' \in BOOLEAN
        /\ job' \in [Workers -> Tasks \cup {None}]
        /\ phase' \in [Workers -> Phases]
    <2>1. crashes' \in 0 .. MaxCrashes
      BY LimitsAssumption DEF Crash, TypeInv, TypeOK, FlowTypeOK
    <2>2. up' \in BOOLEAN
      BY DEF Crash
    <2>3. job' \in [Workers -> Tasks \cup {None}] /\ phase' \in [Workers -> Phases]
      BY DEF Crash, Phases
    <2> QED
      BY <2>1, <2>2, <2>3
  <1>3. FlowTypeOK'
    BY <1>2, EmptySeq DEF Crash, TypeInv, TypeOK, FlowTypeOK, ghosts
  <1>4. (Known \cup Carried)' = {}
    BY DEF Crash, Known, Carried, Queued, Held, ToSet
  <1>5. Occupation'
    BY DEF Crash, Occupation
  <1> QED
    BY <1>1, <1>3, <1>4, <1>5 DEF TypeInv, TypeOK, Objects

(* A stopped process runs no coroutine.                                    *)
Down == up \/ (reserving = None /\ \A w \in Workers : job[w] = None)

(* A restart takes its mementos, history and buffers from the store.       *)
LEMMA StartTypes ==
    ASSUME TypeInv, Down, Start
    PROVE  TypeInv'
PROOF
  <1>1. PICK n \in RetryLimits : maxRetries' = n /\ Restore(n)
    BY DEF Start
  <1> DEFINE loaded == [t \in Tasks |->
                IF t \in StoredActive THEN [store[t] EXCEPT !.limit = n] ELSE store[t]]
             lost == {t \in StoredActive : Unrestorable(loaded[t])}
             In(states) == {t \in StoredActive \ lost : store[t].state \in states}
  <1>2. /\ memento' = [t \in Tasks |->
               IF t \in lost THEN [loaded[t] EXCEPT !.state = "failed"] ELSE loaded[t]]
        /\ store' = memento'
        /\ tasks' = StoredActive \ lost
        /\ downloadBuffer' \in SetToSeqs(In({"pending", "downloading"}))
        /\ renameBuffer' \in SetToSeqs(In({"downloaded", "renaming"}))
        /\ notificationBuffer' \in SetToSeqs(In({"renamed", "notifying"}))
    BY <1>1 DEF Restore
  <1>3. PICK kept \in SetToSeqs(Stored \ StoredActive), late \in SetToSeqs(lost) :
          history' = Newest(kept \o late)
    BY <1>1 DEF Restore
  <1>4. \A t \in Stored : t \in Tasks /\ store[t] \in Mementos
    BY DEF Stored, TypeInv, TypeOK, RegistryTypeOK
  <1>5. lost \subseteq StoredActive /\ StoredActive \subseteq Stored /\ Stored \subseteq Tasks
    BY DEF StoredActive, Stored
  <1>6. \A t \in Stored : loaded[t] \in Mementos
    BY <1>4, <1>5, MementoUpdates
  <1>7. loaded \in [Tasks -> Mementos \cup {None}]
    <2> SUFFICES ASSUME NEW t \in Tasks PROVE loaded[t] \in Mementos \cup {None}
      OBVIOUS
    <2>1. CASE t \in Stored
      BY <2>1, <1>6
    <2>2. CASE t \notin Stored
      BY <2>2, <1>5 DEF Stored
    <2> QED
      BY <2>1, <2>2
  <1>8. \A states : In(states) \subseteq StoredActive \ lost
    OBVIOUS
  <1> HIDE DEF loaded, lost, In
  <1>9. \A t \in Stored : memento'[t] \in Mementos
    BY <1>2, <1>5, <1>6, MementoUpdates DEF States, TerminalStates
  <1>10. memento' \in [Tasks -> Mementos \cup {None}]
    BY <1>2, <1>5, <1>7, <1>9
  <1>11. /\ kept \in Seq(Tasks) /\ ToSet(kept) \subseteq Stored
         /\ late \in Seq(Tasks) /\ ToSet(late) \subseteq Stored
    <2>1. IsFiniteSet(Stored \ StoredActive) /\ IsFiniteSet(lost)
      BY <1>5, FiniteTasks
    <2>2. /\ kept \in Seq(Stored \ StoredActive) /\ ToSet(kept) = Stored \ StoredActive
          /\ late \in Seq(lost) /\ ToSet(late) = lost
      BY <2>1, Orderings
    <2> QED
      BY <1>5, <2>2
  <1>12. /\ kept \o late \in Seq(Tasks)
         /\ ToSet(kept \o late) \subseteq ToSet(kept) \cup ToSet(late)
    BY <1>11, ElementsOfConcat
  <1>13. history' \in Seq(Tasks) /\ ToSet(history') \subseteq Stored
    BY <1>3, <1>11, <1>12, ElementsOfNewest
  <1>14. RegistryTypeOK'
    BY <1>2, <1>5, <1>10, <1>13 DEF RegistryTypeOK
  <1>15. \A states : /\ IsFiniteSet(In(states))
                     /\ In(states) \subseteq Stored /\ In(states) \subseteq Tasks
    BY <1>5, <1>8, FiniteTasks
  <1>16. \A states : \A q \in SetToSeqs(In(states)) :
           q \in Seq(Tasks) /\ ToSet(q) \subseteq Stored
    BY <1>15, Orderings
  <1>17. /\ downloadBuffer' \in Seq(Tasks) /\ ToSet(downloadBuffer') \subseteq Stored
         /\ renameBuffer' \in Seq(Tasks) /\ ToSet(renameBuffer') \subseteq Stored
         /\ notificationBuffer' \in Seq(Tasks) /\ ToSet(notificationBuffer') \subseteq Stored
    BY <1>2, <1>16
  <1>18. FlowTypeOK'
    BY <1>1, <1>17 DEF Start, TypeInv, TypeOK, FlowTypeOK, intake, workers, ghosts
  <1>19. Occupation' /\ Held' = {} /\ reserving' = None
    BY DEF Start, Down, TypeInv, Occupation, Held, workers, intake
  <1> QED
    BY <1>2, <1>5, <1>9, <1>13, <1>14, <1>17, <1>18, <1>19
    DEF TypeInv, TypeOK, Objects, Known, Carried, Queued

-----------------------------------------------------------------------------

(* Every step keeps the stopped process empty: all but Start need it to    *)
(* run, and only Crash stops it.                                           *)
LEMMA DownStep == Down /\ [Next]_vars => Down'
PROOF
  <1> SUFFICES ASSUME Down, [Next]_vars PROVE Down'
    OBVIOUS
  <1>1. CASE Intake
    <2>1. \A r \in Releases : Vet(r) \/ Discard(r) => up'
      BY DEF Vet, Discard
    <2>2. \A r \in Releases : ReserveDownloadTask(r) => up'
      BY DEF ReserveDownloadTask
    <2>3. EnqueueReserved => up'
      BY DEF EnqueueReserved
    <2> QED
      BY <1>1, <2>1, <2>2, <2>3 DEF Intake, Down
  <1>2. ASSUME NEW w \in DownloadWorkers, Download(w) PROVE Down'
    BY <1>2 DEF Download, SkipDownload, StartDownload, CheckpointDownload,
       IgnoreDownload,
                FinishDownload, HandToRename, RetryDownload, FailDownload, Down
  <1>3. CASE Rename
    BY <1>3 DEF Rename, SkipRename, StartRename, FinishRename, HandToNotification,
       FailRename,
                MarkFailed, Down
  <1>4. CASE Notify
    BY <1>4 DEF Notify, SkipNotification, StartNotification, AddRelease,
       CompleteTask,
                FailNotification, MarkFailed, Down
  <1>5. CASE Administer
    <2>1. \A s \in Sources : CancelTasksForSource(s) => up'
      BY DEF CancelTasksForSource
    <2>2. \A t \in Tasks : RetryByHand(t) => up'
      BY DEF RetryByHand
    <2>3. \A t \in Tasks : ArchiveFailed(t) => up'
      BY DEF ArchiveFailed
    <2>4. \A n \in RetryLimits : UpdateMaxRetries(n) => up'
      BY DEF UpdateMaxRetries
    <2> QED
      BY <1>5, <2>1, <2>2, <2>3, <2>4 DEF Administer, Down
  <1>6. CASE Crash
    BY <1>6 DEF Crash, Down
  <1>7. CASE Start
    BY <1>7 DEF Start, Down
  <1>8. CASE UNCHANGED vars
    BY <1>8 DEF vars, intake, workers, Down
  <1> QED
    BY <1>1, <1>2, <1>3, <1>4, <1>5, <1>6, <1>7, <1>8 DEF Next

(* The types, the memento objects and the workers' occupation together are *)
(* inductive.                                                              *)
LEMMA TypeStep == TypeInv /\ Down /\ [Next]_vars => TypeInv'
PROOF
  <1> SUFFICES ASSUME TypeInv, Down, [Next]_vars PROVE TypeInv'
    OBVIOUS
  <1>1. CASE Intake
    BY <1>1, VetTypes, DiscardTypes, ReserveDownloadTaskTypes, EnqueueReservedTypes
       DEF Intake
  <1>2. ASSUME NEW w \in DownloadWorkers, Download(w) PROVE TypeInv'
    BY <1>2, SkipDownloadTypes, StartDownloadTypes, CheckpointDownloadTypes,
       IgnoreDownloadTypes, FinishDownloadTypes, HandToRenameTypes, RetryDownloadTypes,
       FailDownloadTypes
    DEF Download
  <1>3. CASE Rename
    BY <1>3, SkipRenameTypes, StartRenameTypes, FinishRenameTypes,
       HandToNotificationTypes,
       FailStageTypes
    DEF Rename
  <1>4. CASE Notify
    BY <1>4, SkipNotificationTypes, StartNotificationTypes, AddReleaseTypes,
       CompleteTaskTypes, FailStageTypes
    DEF Notify
  <1>5. CASE Administer
    BY <1>5, CancelTasksForSourceTypes, RetryByHandTypes, ArchiveFailedTypes,
       UpdateMaxRetriesTypes
    DEF Administer
  <1>6. CASE Crash
    BY <1>6, CrashTypes
  <1>7. CASE Start
    BY <1>7, StartTypes
  <1>8. CASE UNCHANGED vars
    BY <1>8 DEF vars, registry, intake, buffers, workers, ghosts, TypeInv, TypeOK,
                RegistryTypeOK, FlowTypeOK, Objects, Occupation, Known, Carried, Queued, Held
  <1> QED
    BY <1>1, <1>2, <1>3, <1>4, <1>5, <1>6, <1>7, <1>8 DEF Next

(* TypeOK holds of every behaviour, whatever the tasks, workers, limits    *)
(* and bounds.                                                             *)
THEOREM TypeCorrect == Spec => []TypeOK
PROOF
  <1>1. Init => TypeInv /\ Down
    BY InitTypes DEF Init, Down
  <1>2. TypeInv /\ Down /\ [Next]_vars => (TypeInv /\ Down)'
    BY TypeStep, DownStep
  <1>3. TypeInv => TypeOK
    BY DEF TypeInv
  <1> QED
    BY <1>1, <1>2, <1>3, PTL DEF Spec

------------------------------------------------------------------------------
(* The safety of the pipeline, and the ledger it implements.               *)

(* No row is left of a finished task, and none of an active one archived.  *)
Rows == \A t \in Tasks :
    store[t] # None =>
        /\ store[t].state \notin {"completed", "cancelled"}
        /\ store[t].state \in ActiveStates => ~store[t].archived

(* The registry has the memento objects that are active, also of the tasks *)
(* the history has dropped.                                                *)
Registered == up =>
    \A t \in Tasks : memento[t] # None => (t \in tasks <=> StateOf(t) \in ActiveStates)

(* A task that is known anywhere was reserved; one that is cancelled was   *)
(* reached by a cancellation.                                              *)
Born == \A t \in Tasks : memento[t] # None \/ store[t] # None => origin[t] # None
CancelledOnce == \A t \in Tasks :
    memento[t] # None /\ StateOf(t) = "cancelled" => t \in withdrawn

RegInv == Rows /\ Registered /\ Born /\ CancelledOnce /\ StoreFollowsRegistry /\ OneActiveTaskPerUrl

(* What a buffer, a worker or a submitter carries is not over, unless a    *)
(* cancellation reached it meanwhile: nobody retries it by hand.           *)
Unsettled(m) == m.state \in ActiveStates \cup {"cancelled"} /\ ~m.archived
CarryInv == EachTaskCarriedOnce /\ \A t \in Carried : Unsettled(memento[t])

SafeInv == TypeInv /\ Down /\ RegInv /\ CarryInv
-----------------------------------------------------------------------------
(* Buffers and workers.                                                    *)

LEMMA Popped ==
    ASSUME NEW s \in Seq(Tasks), s # <<>>, IsInjective(s)
    PROVE  /\ IsInjective(Tail(s)) /\ Head(s) \in Tasks
           /\ Head(s) \notin ToSet(Tail(s)) /\ ToSet(s) = {Head(s)} \cup ToSet(Tail(s))
PROOF
  <1>1. /\ Tail(s) \in Seq(Tasks) /\ Head(s) \in Tasks /\ Head(s) = s[1]
        /\ Len(Tail(s)) = Len(s) - 1 /\ Len(s) \in Nat \ {0}
        /\ \A i \in 1 .. Len(s) - 1 : Tail(s)[i] = s[i + 1]
    BY HeadTailProperties
  <1>2. DOMAIN s = 1 .. Len(s) /\ DOMAIN Tail(s) = 1 .. Len(s) - 1
    BY <1>1
  <1>3. IsInjective(Tail(s))
    BY <1>1, <1>2 DEF IsInjective
  <1>4. Head(s) \notin ToSet(Tail(s))
    BY <1>1, <1>2 DEF IsInjective, ToSet
  <1> QED
    BY <1>1, <1>3, <1>4, ElementsOfTail

LEMMA Pushed ==
    ASSUME NEW s \in Seq(Tasks), IsInjective(s), NEW t \in Tasks, t \notin ToSet(s)
    PROVE  IsInjective(Append(s, t)) /\ ToSet(Append(s, t)) = ToSet(s) \cup {t}
PROOF
  <1>1. /\ Append(s, t) \in Seq(Tasks)
        /\ Len(Append(s, t)) = Len(s) + 1
        /\ Append(s, t)[Len(s) + 1] = t
        /\ \A i \in 1 .. Len(s) : Append(s, t)[i] = s[i]
    OBVIOUS
  <1>2. DOMAIN s = 1 .. Len(s) /\ DOMAIN Append(s, t) = 1 .. Len(s) + 1 /\ Len(s) \in Nat
    BY <1>1
  <1>3. \A i \in 1 .. Len(s) : s[i] # t
    BY <1>2 DEF ToSet
  <1>4. IsInjective(Append(s, t))
    BY <1>1, <1>2, <1>3 DEF IsInjective
  <1> QED
    BY <1>4, ElementsOfAppend

(* No two workers hold the same task.                                      *)
Distinct == \A v, w \in Workers : job[v] = job[w] => v = w \/ job[v] = None

LEMMA Taken ==
    ASSUME TypeInv, Distinct, NEW w \in Workers, job[w] = None, NEW t \in Tasks, t \notin Held,
           job' = [job EXCEPT ![w] = t]
    PROVE  Distinct' /\ Held' = Held \cup {t}
PROOF
  <1>1. /\ job'[w] = t /\ t # None
        /\ \A v \in Workers \ {w} : job'[v] = job[v]
    BY TasksAssumption DEF TypeInv, TypeOK, FlowTypeOK
  <1>2. Distinct'
    BY <1>1 DEF Distinct, Held
  <1>3. Held' = Held \cup {t}
    BY <1>1 DEF Held
  <1> QED
    BY <1>2, <1>3

LEMMA Freed ==
    ASSUME TypeInv, Distinct, NEW w \in Workers, job' = [job EXCEPT ![w] = None]
    PROVE  Distinct' /\ Held' = Held \ {job[w]}
PROOF
  <1>1. /\ job'[w] = None
        /\ \A v \in Workers \ {w} : job'[v] = job[v]
    BY DEF TypeInv, TypeOK, FlowTypeOK
  <1>2. Distinct'
    BY <1>1 DEF Distinct
  <1>3. Held' = Held \ {job[w]}
    BY <1>1 DEF Held, Distinct
  <1> QED
    BY <1>2, <1>3

-----------------------------------------------------------------------------
(* What an update of a memento leaves alone.                               *)
LEMMA Updated ==
    ASSUME NEW m \in Mementos
    PROVE  /\ \A s \in States :
                LET new == [m EXCEPT !.state = s]
                IN  /\ new \in Mementos /\ new.state = s
                    /\ new.release = m.release /\ new.archived = m.archived
           /\ \A s \in States :
                LET new == [m EXCEPT !.state = s, !.retries = @ + 1]
                IN  /\ new \in Mementos /\ new.state = s
                    /\ new.release = m.release /\ new.archived = m.archived
PROOF
  <1>1. ASSUME NEW s \in States
        PROVE  /\ [m EXCEPT !.state = s].state = s
               /\ [m EXCEPT !.state = s].release = m.release
               /\ [m EXCEPT !.state = s].archived = m.archived
    BY DEF Mementos
  <1>2. ASSUME NEW s \in States
        PROVE  /\ [m EXCEPT !.state = s, !.retries = @ + 1].state = s
               /\ [m EXCEPT !.state = s, !.retries = @ + 1].release = m.release
               /\ [m EXCEPT !.state = s, !.retries = @ + 1].archived = m.archived
    BY DEF Mementos
  <1> QED
    BY <1>1, <1>2, MementoUpdates

(* Names of states and paths.                                              *)
LEMMA StateNames ==
    /\ ActiveStates \subseteq States /\ TerminalStates \subseteq States
    /\ {"downloading", "downloaded", "renaming", "renamed", "notifying", "pending", "failed",
        "completed"} \subseteq States
    /\ {"downloaded", "renamed"} \subseteq Paths
  BY DEF States, ActiveStates, TerminalStates, Paths

-----------------------------------------------------------------------------
(* Saves.                                                                  *)

LEMMA Saved ==
    ASSUME SafeInv, up, up', NEW t \in Tasks, NEW m \in Mementos, Save(t, m),
           origin'[t] # None, \A u \in Tasks : origin[u] # None => origin'[u] # None,
           withdrawn' = withdrawn, m.state = "cancelled" => t \in withdrawn,
           m.state \in ActiveStates =>
               /\ ~m.archived
               /\ t \notin withdrawn =>
                    \A u \in tasks \ (withdrawn \cup {t}) : memento[u].release.url # m.release.url
    PROVE  RegInv'
PROOF
  <1>1. m # None /\ None \notin Mementos
    BY NoneAssumption
  <1>2. /\ memento'[t] = m /\ \A u \in Tasks \ {t} : memento'[u] = memento[u]
        /\ store'[t] = Row(m) /\ \A u \in Tasks \ {t} : store'[u] = store[u]
    BY DEF Save, SafeInv, TypeInv, TypeOK, RegistryTypeOK
  <1>3. /\ t \in tasks' <=> m.state \in ActiveStates
        /\ \A u \in Tasks \ {t} : u \in tasks' <=> u \in tasks
        /\ tasks \subseteq Tasks /\ tasks' \subseteq Tasks
    BY DEF Save, Mementos, States, ActiveStates, TerminalStates, SafeInv, TypeInv,
       TypeOK, RegistryTypeOK
  <1>4. Known' \subseteq Known \cup {t} /\ Known \subseteq Tasks
    BY SaveKeepsTypes, CarriedIsTask DEF SavedOnly, Known, SafeInv
  <1>5. Row(m) = IF m.state \in {"completed", "cancelled"} THEN None ELSE m
    BY DEF Row
  <1>6. Rows'
    BY <1>2, <1>5 DEF SafeInv, RegInv, Rows
  <1>7. Registered'
    BY <1>2, <1>3 DEF SafeInv, RegInv, Registered, StateOf
  <1>8. Born' /\ CancelledOnce'
    BY <1>2, <1>5 DEF SafeInv, RegInv, Born, CancelledOnce, StateOf
  <1>9. /\ \A u \in Tasks \ {t} : u \in StoredActive' <=> u \in StoredActive
        /\ t \in StoredActive' <=> m.state \in ActiveStates
    BY <1>1, <1>2, <1>5 DEF StoredActive, Stored, ActiveStates
  <1>10. StoreFollowsRegistry'
    <2>1. \A u \in Known' : store'[u] = Row(memento'[u])
      BY <1>2, <1>4 DEF SafeInv, RegInv, StoreFollowsRegistry, Row
    <2>2. StoredActive' = tasks'
      BY <1>3, <1>9 DEF SafeInv, RegInv, StoreFollowsRegistry, StoredActive, Stored
    <2> QED
      BY <2>1, <2>2 DEF StoreFollowsRegistry
  <1>11. OneActiveTaskPerUrl'
    <2>1. tasks = StoredActive /\ \A u \in tasks : store[u].release = memento[u].release
      BY DEF SafeInv, RegInv, StoreFollowsRegistry, StoredActive, Stored, Known, Row
    <2>2. \A u \in (StoredActive' \ withdrawn) \ {t} :
             /\ u \in StoredActive \ withdrawn /\ store'[u] = store[u]
      BY <1>2, <1>9 DEF StoredActive, Stored
    <2>3. t \in StoredActive' \ withdrawn =>
             \A u \in (StoredActive' \ withdrawn) \ {t} : store'[u].release.url # store'[t].release.url
      BY <1>2, <1>5, <1>9, <2>1, <2>2 DEF ActiveStates
    <2> QED
      BY <2>2, <2>3 DEF SafeInv, RegInv, OneActiveTaskPerUrl
  <1> QED
    BY <1>6, <1>7, <1>8, <1>10, <1>11 DEF RegInv

(* What is known of a task that is carried.                                *)
LEMMA CarriedTask ==
    ASSUME SafeInv, up, NEW t \in Carried
    PROVE  /\ t \in Tasks /\ t # None /\ memento[t] \in Mementos /\ origin[t] # None
           /\ Unsettled(memento[t])
           /\ StateOf(t) = "cancelled" => t \in withdrawn
           /\ t \in tasks <=> StateOf(t) \in ActiveStates
           /\ t \notin withdrawn =>
                \A u \in tasks \ (withdrawn \cup {t}) :
                    memento[u].release.url # memento[t].release.url
PROOF
  <1>1. t \in Tasks /\ memento[t] \in Mementos /\ memento[t] # None /\ t # None
    BY CarriedIsTask, NoneAssumption, TasksAssumption DEF SafeInv
  <1>2. /\ origin[t] # None /\ Unsettled(memento[t])
        /\ StateOf(t) = "cancelled" => t \in withdrawn
        /\ t \in tasks <=> StateOf(t) \in ActiveStates
    BY <1>1 DEF SafeInv, RegInv, CarryInv, Born, CancelledOnce, Registered
  <1>3. tasks = StoredActive /\ \A u \in tasks : store[u].release = memento[u].release
    BY DEF SafeInv, RegInv, StoreFollowsRegistry, StoredActive, Stored, Known, Row
  <1>4. t \notin withdrawn => t \in StoredActive
    BY <1>2, <1>3 DEF Unsettled, StateOf
  <1> QED
    BY <1>1, <1>2, <1>3, <1>4 DEF SafeInv, RegInv, OneActiveTaskPerUrl

(* A carried task is saved by the stage that works on it.                  *)
LEMMA CarriedSaved ==
    ASSUME SafeInv, up, UNCHANGED <<up, origin, withdrawn>>, NEW t \in Carried,
           NEW m \in Mementos, Save(t, m), m.release = memento[t].release,
           m.archived = memento[t].archived, m.state = "cancelled" => StateOf(t) = "cancelled"
    PROVE  RegInv'
PROOF
  <1>1. /\ t \in Tasks /\ origin[t] # None /\ ~memento[t].archived
        /\ StateOf(t) = "cancelled" => t \in withdrawn
        /\ t \notin withdrawn =>
             \A u \in tasks \ (withdrawn \cup {t}) : memento[u].release.url # memento[t].release.url
    BY CarriedTask DEF Unsettled
  <1> QED
    BY <1>1, Saved

LEMMA RegQuiet ==
    ASSUME RegInv, UNCHANGED <<registry, up, origin, withdrawn>>
    PROVE  RegInv'
  BY DEF RegInv, Rows, Registered, Born, CancelledOnce, StoreFollowsRegistry,
     OneActiveTaskPerUrl, StoredActive, Stored, StateOf, Known, registry

(* The carriers after a save of one task, and after a step that saves none. *)
LEMMA CarrySaved ==
    ASSUME SafeInv, NEW t \in Tasks, NEW m \in Mementos, Save(t, m), NoTaskCarriedTwice',
           Carried' \ {t} = Carried \ {t}, t \in Carried' => Unsettled(m),
           m.state \in ActiveStates => t \in Carried'
    PROVE  CarryInv'
PROOF
  <1>1. Carried \subseteq Tasks
    BY CarriedIsTask DEF SafeInv
  <1>2. /\ memento'[t] = m /\ \A u \in Tasks \ {t} : memento'[u] = memento[u]
        /\ t \in tasks' => m.state \in ActiveStates
        /\ tasks' \subseteq tasks \cup {t}
    BY DEF Save, Mementos, States, SafeInv, TypeInv, TypeOK, RegistryTypeOK
  <1>3. \A u \in Carried' : Unsettled(memento'[u])
    BY <1>1, <1>2 DEF SafeInv, CarryInv
  <1>4. NoTaskStranded'
    BY <1>2 DEF SafeInv, CarryInv, EachTaskCarriedOnce, NoTaskStranded
  <1> QED
    BY <1>3, <1>4 DEF CarryInv, EachTaskCarriedOnce, Unsettled

LEMMA CarryQuiet ==
    ASSUME SafeInv, UNCHANGED registry, NoTaskCarriedTwice', Carried' \subseteq Carried,
           tasks \subseteq Carried'
    PROVE  CarryInv'
  BY DEF SafeInv, CarryInv, EachTaskCarriedOnce, NoTaskStranded, registry, Unsettled

(* The places of the pipeline, as sets.                                    *)
LEMMA PlacesApart ==
    ASSUME SafeInv
    PROVE  /\ Distinct /\ IsInjective(downloadBuffer) /\ IsInjective(renameBuffer)
           /\ IsInjective(notificationBuffer)
           /\ downloadBuffer \in Seq(Tasks) /\ renameBuffer \in Seq(Tasks)
           /\ notificationBuffer \in Seq(Tasks)
           /\ None \notin Carried
  BY CarriedIsTask, TasksAssumption DEF SafeInv, CarryInv, EachTaskCarriedOnce,
     NoTaskCarriedTwice, Distinct, Idle, TypeInv, TypeOK, FlowTypeOK

LEMMA SkipDownloadSafe ==
    ASSUME SafeInv, NEW w \in DownloadWorkers, SkipDownload(w)
    PROVE  (RegInv /\ CarryInv)'
PROOF
  <1> DEFINE t == Head(downloadBuffer)
  <1>1. /\ t \in Tasks /\ t \in Carried /\ memento[t] \in Mementos
        /\ IsInjective(Tail(downloadBuffer)) /\ t \notin ToSet(Tail(downloadBuffer))
        /\ ToSet(downloadBuffer) = {t} \cup ToSet(Tail(downloadBuffer))
    <2>1. /\ t \in Tasks /\ t \in ToSet(downloadBuffer)
          /\ IsInjective(Tail(downloadBuffer)) /\ t \notin ToSet(Tail(downloadBuffer))
          /\ ToSet(downloadBuffer) = {t} \cup ToSet(Tail(downloadBuffer))
      BY PlacesApart, Popped DEF SkipDownload
    <2> QED
      BY <2>1, CarriedIsTask DEF SafeInv, Carried, Queued
  <1>2. t \notin tasks
    BY <1>1, NoneAssumption DEF SkipDownload, SafeInv, RegInv, Registered, Known,
       ActiveStates, TerminalStates
  <1> HIDE DEF t
  <1>3. /\ downloadBuffer' = Tail(downloadBuffer) /\ UNCHANGED registry
        /\ Held' = Held /\ UNCHANGED <<up, origin, withdrawn, reserving, job>>
        /\ UNCHANGED <<renameBuffer, notificationBuffer>>
    BY DEF SkipDownload, Held, intake, buffers, workers, ghosts, registry
  <1>4. NoTaskCarriedTwice' /\ Carried' = Carried \ {t}
    BY <1>1, <1>3 DEF SafeInv, CarryInv, EachTaskCarriedOnce, NoTaskCarriedTwice,
       Idle, Carried, Queued
  <1>5. tasks \subseteq Carried'
    BY <1>2, <1>4 DEF SafeInv, CarryInv, EachTaskCarriedOnce, NoTaskStranded
  <1> QED
    BY <1>3, <1>4, <1>5, CarryQuiet, RegQuiet DEF SafeInv

LEMMA SkipRenameSafe ==
    ASSUME SafeInv, SkipRename
    PROVE  (RegInv /\ CarryInv)'
PROOF
  <1> DEFINE t == Head(renameBuffer)
  <1>1. /\ t \in Tasks /\ t \in Carried /\ memento[t] \in Mementos
        /\ IsInjective(Tail(renameBuffer)) /\ t \notin ToSet(Tail(renameBuffer))
        /\ ToSet(renameBuffer) = {t} \cup ToSet(Tail(renameBuffer))
    <2>1. /\ t \in Tasks /\ t \in ToSet(renameBuffer)
          /\ IsInjective(Tail(renameBuffer)) /\ t \notin ToSet(Tail(renameBuffer))
          /\ ToSet(renameBuffer) = {t} \cup ToSet(Tail(renameBuffer))
      BY PlacesApart, Popped DEF SkipRename
    <2> QED
      BY <2>1, CarriedIsTask DEF SafeInv, Carried, Queued
  <1>2. t \notin tasks
    BY <1>1 DEF SkipRename, Known
  <1> HIDE DEF t
  <1>3. /\ renameBuffer' = Tail(renameBuffer) /\ UNCHANGED registry
        /\ Held' = Held /\ UNCHANGED <<up, origin, withdrawn, reserving, job>>
        /\ UNCHANGED <<downloadBuffer, notificationBuffer>>
    BY DEF SkipRename, Held, intake, buffers, workers, ghosts, registry
  <1>4. NoTaskCarriedTwice' /\ Carried' = Carried \ {t}
    BY <1>1, <1>3 DEF SafeInv, CarryInv, EachTaskCarriedOnce, NoTaskCarriedTwice,
       Idle, Carried, Queued
  <1>5. tasks \subseteq Carried'
    BY <1>2, <1>4 DEF SafeInv, CarryInv, EachTaskCarriedOnce, NoTaskStranded
  <1> QED
    BY <1>3, <1>4, <1>5, CarryQuiet, RegQuiet DEF SafeInv

LEMMA SkipNotificationSafe ==
    ASSUME SafeInv, SkipNotification
    PROVE  (RegInv /\ CarryInv)'
PROOF
  <1> DEFINE t == Head(notificationBuffer)
  <1>1. /\ t \in Tasks /\ t \in Carried /\ memento[t] \in Mementos
        /\ IsInjective(Tail(notificationBuffer)) /\ t \notin ToSet(Tail(notificationBuffer))
        /\ ToSet(notificationBuffer) = {t} \cup ToSet(Tail(notificationBuffer))
    <2>1. /\ t \in Tasks /\ t \in ToSet(notificationBuffer)
          /\ IsInjective(Tail(notificationBuffer)) /\ t \notin ToSet(Tail(notificationBuffer))
          /\ ToSet(notificationBuffer) = {t} \cup ToSet(Tail(notificationBuffer))
      BY PlacesApart, Popped DEF SkipNotification
    <2> QED
      BY <2>1, CarriedIsTask DEF SafeInv, Carried, Queued
  <1>2. t \notin tasks
    BY <1>1 DEF SkipNotification, Known
  <1> HIDE DEF t
  <1>3. /\ notificationBuffer' = Tail(notificationBuffer) /\ UNCHANGED registry
        /\ Held' = Held /\ UNCHANGED <<up, origin, withdrawn, reserving, job>>
        /\ UNCHANGED <<downloadBuffer, renameBuffer>>
    BY DEF SkipNotification, Held, intake, buffers, workers, ghosts, registry
  <1>4. NoTaskCarriedTwice' /\ Carried' = Carried \ {t}
    BY <1>1, <1>3 DEF SafeInv, CarryInv, EachTaskCarriedOnce, NoTaskCarriedTwice,
       Idle, Carried, Queued
  <1>5. tasks \subseteq Carried'
    BY <1>2, <1>4 DEF SafeInv, CarryInv, EachTaskCarriedOnce, NoTaskStranded
  <1> QED
    BY <1>3, <1>4, <1>5, CarryQuiet, RegQuiet DEF SafeInv

LEMMA StartDownloadSafe ==
    ASSUME SafeInv, NEW w \in DownloadWorkers, StartDownload(w)
    PROVE  (RegInv /\ CarryInv)'
PROOF
  <1> DEFINE t == Head(downloadBuffer)
             m == [memento[t] EXCEPT !.state = "downloading"]
  <1>1. /\ t \in Tasks /\ t \in Carried /\ t \in ToSet(downloadBuffer)
        /\ IsInjective(Tail(downloadBuffer)) /\ t \notin ToSet(Tail(downloadBuffer))
        /\ ToSet(downloadBuffer) = {t} \cup ToSet(Tail(downloadBuffer))
    BY PlacesApart, Popped DEF StartDownload, Carried, Queued
  <1>2. /\ up /\ Save(t, m) /\ downloadBuffer' = Tail(downloadBuffer) /\ job[w] = None
        /\ job' = [job EXCEPT ![w] = t] /\ UNCHANGED <<up, origin, withdrawn, reserving>>
        /\ UNCHANGED <<renameBuffer, notificationBuffer>>
    BY DEF StartDownload, Hold, Idle, intake, ghosts
  <1>3. /\ memento[t] \in Mementos /\ ~memento[t].archived
        /\ m \in Mementos /\ m.state = "downloading" /\ m.release = memento[t].release
        /\ m.archived = memento[t].archived
    <2>1. t \in Tasks /\ memento[t] \in Mementos /\ ~memento[t].archived
      BY <1>1, <1>2, CarriedTask DEF Unsettled
    <2>2. "downloading" \in States
      BY StateNames
    <2> HIDE DEF t
    <2> QED
      BY <2>1, <2>2, Updated
  <1> HIDE DEF t, m
  <1>4. RegInv'
    BY <1>1, <1>2, <1>3, CarriedSaved
  <1>5. t \notin Held
    BY <1>1 DEF SafeInv, CarryInv, EachTaskCarriedOnce, NoTaskCarriedTwice, Queued
  <1>6. Distinct' /\ Held' = Held \cup {t}
    BY <1>1, <1>2, <1>5, Taken, PlacesApart, WorkersAreWorkers DEF SafeInv
  <1>7. NoTaskCarriedTwice' /\ Carried' = Carried
    BY <1>1, <1>2, <1>6 DEF SafeInv, CarryInv, EachTaskCarriedOnce,
       NoTaskCarriedTwice, Distinct, Idle, Carried, Queued
  <1>8. CarryInv'
    BY <1>1, <1>2, <1>3, <1>7, CarrySaved DEF Unsettled, ActiveStates
  <1> QED
    BY <1>4, <1>8

LEMMA StartRenameSafe ==
    ASSUME SafeInv, StartRename
    PROVE  (RegInv /\ CarryInv)'
PROOF
  <1> DEFINE t == Head(renameBuffer)
             m == [memento[t] EXCEPT !.state = "renaming"]
  <1>1. /\ t \in Tasks /\ t \in Carried /\ t \in ToSet(renameBuffer)
        /\ IsInjective(Tail(renameBuffer)) /\ t \notin ToSet(Tail(renameBuffer))
        /\ ToSet(renameBuffer) = {t} \cup ToSet(Tail(renameBuffer))
    BY PlacesApart, Popped DEF StartRename, Carried, Queued
  <1>2. /\ up /\ Save(t, m) /\ renameBuffer' = Tail(renameBuffer) /\ job[Renamer] = None
        /\ job' = [job EXCEPT ![Renamer] = t] /\ UNCHANGED <<up, origin, withdrawn, reserving>>
        /\ UNCHANGED <<downloadBuffer, notificationBuffer>>
    BY DEF StartRename, Hold, Idle, intake, ghosts
  <1>3. /\ memento[t] \in Mementos /\ ~memento[t].archived
        /\ m \in Mementos /\ m.state = "renaming" /\ m.release = memento[t].release
        /\ m.archived = memento[t].archived
    <2>1. t \in Tasks /\ memento[t] \in Mementos /\ ~memento[t].archived
      BY <1>1, <1>2, CarriedTask DEF Unsettled
    <2>2. "renaming" \in States
      BY StateNames
    <2> HIDE DEF t
    <2> QED
      BY <2>1, <2>2, Updated
  <1> HIDE DEF t, m
  <1>4. RegInv'
    BY <1>1, <1>2, <1>3, CarriedSaved
  <1>5. t \notin Held
    BY <1>1 DEF SafeInv, CarryInv, EachTaskCarriedOnce, NoTaskCarriedTwice, Queued
  <1>6. Distinct' /\ Held' = Held \cup {t}
    BY <1>1, <1>2, <1>5, Taken, PlacesApart, WorkersAreWorkers DEF SafeInv
  <1>7. NoTaskCarriedTwice' /\ Carried' = Carried
    BY <1>1, <1>2, <1>6 DEF SafeInv, CarryInv, EachTaskCarriedOnce,
       NoTaskCarriedTwice, Distinct, Idle, Carried, Queued
  <1>8. CarryInv'
    BY <1>1, <1>2, <1>3, <1>7, CarrySaved DEF Unsettled, ActiveStates
  <1> QED
    BY <1>4, <1>8

LEMMA StartNotificationSafe ==
    ASSUME SafeInv, StartNotification
    PROVE  (RegInv /\ CarryInv)'
PROOF
  <1> DEFINE t == Head(notificationBuffer)
             m == [memento[t] EXCEPT !.state = "notifying"]
  <1>1. /\ t \in Tasks /\ t \in Carried /\ t \in ToSet(notificationBuffer)
        /\ IsInjective(Tail(notificationBuffer)) /\ t \notin ToSet(Tail(notificationBuffer))
        /\ ToSet(notificationBuffer) = {t} \cup ToSet(Tail(notificationBuffer))
    BY PlacesApart, Popped DEF StartNotification, Carried, Queued
  <1>2. /\ up /\ Save(t, m) /\ notificationBuffer' = Tail(notificationBuffer) /\ job[Notifier] = None
        /\ job' = [job EXCEPT ![Notifier] = t] /\ UNCHANGED <<up, origin, withdrawn, reserving>>
        /\ UNCHANGED <<downloadBuffer, renameBuffer>>
    BY DEF StartNotification, Hold, Idle, intake, ghosts
  <1>3. /\ memento[t] \in Mementos /\ ~memento[t].archived
        /\ m \in Mementos /\ m.state = "notifying" /\ m.release = memento[t].release
        /\ m.archived = memento[t].archived
    <2>1. t \in Tasks /\ memento[t] \in Mementos /\ ~memento[t].archived
      BY <1>1, <1>2, CarriedTask DEF Unsettled
    <2>2. "notifying" \in States
      BY StateNames
    <2> HIDE DEF t
    <2> QED
      BY <2>1, <2>2, Updated
  <1> HIDE DEF t, m
  <1>4. RegInv'
    BY <1>1, <1>2, <1>3, CarriedSaved
  <1>5. t \notin Held
    BY <1>1 DEF SafeInv, CarryInv, EachTaskCarriedOnce, NoTaskCarriedTwice, Queued
  <1>6. Distinct' /\ Held' = Held \cup {t}
    BY <1>1, <1>2, <1>5, Taken, PlacesApart, WorkersAreWorkers DEF SafeInv
  <1>7. NoTaskCarriedTwice' /\ Carried' = Carried
    BY <1>1, <1>2, <1>6 DEF SafeInv, CarryInv, EachTaskCarriedOnce,
       NoTaskCarriedTwice, Distinct, Idle, Carried, Queued
  <1>8. CarryInv'
    BY <1>1, <1>2, <1>3, <1>7, CarrySaved DEF Unsettled, ActiveStates
  <1> QED
    BY <1>4, <1>8

LEMMA FinishDownloadSafe ==
    ASSUME SafeInv, NEW w \in DownloadWorkers, FinishDownload(w)
    PROVE  (RegInv /\ CarryInv)'
PROOF
  <1> DEFINE t == job[w]
             m == [memento[t] EXCEPT !.state = "downloaded", !.path = "downloaded"]
  <1>1. t \in Carried /\ t \in Held /\ w \in Workers
    BY WorkersAreWorkers DEF FinishDownload, SafeInv, TypeInv, Occupation, Carried,
       Held
  <1>2. /\ up /\ Save(t, m) /\ UNCHANGED <<up, origin, withdrawn, reserving, buffers>>
        /\ job' = [job EXCEPT ![w] = t]
    BY DEF FinishDownload, Hold, intake, ghosts, StateOf
  <1>3. /\ memento[t] \in Mementos /\ ~memento[t].archived
        /\ m \in Mementos /\ m.state = "downloaded" /\ m.release = memento[t].release
        /\ m.archived = memento[t].archived
    <2>1. t \in Tasks /\ memento[t] \in Mementos /\ ~memento[t].archived
      BY <1>1, <1>2, CarriedTask DEF Unsettled
    <2>2. "downloaded" \in States /\ "downloaded" \in Paths
      BY StateNames
    <2> DEFINE old == memento[t]
    <2> HIDE DEF t, old
    <2>3. [old EXCEPT !.state = "downloaded", !.path = "downloaded"] \in Mementos
      BY <2>1, <2>2, MementoUpdates DEF old
    <2>4. /\ [old EXCEPT !.state = "downloaded", !.path = "downloaded"].state = "downloaded"
          /\ [old EXCEPT !.state = "downloaded", !.path = "downloaded"].release = old.release
          /\ [old EXCEPT !.state = "downloaded", !.path = "downloaded"].archived = old.archived
      BY <2>1 DEF old, Mementos
    <2> QED
      BY <2>1, <2>3, <2>4 DEF old
  <1>4. job' = job
    BY <1>1, <1>2 DEF SafeInv, TypeInv, TypeOK, FlowTypeOK
  <1> HIDE DEF t, m
  <1>5. RegInv'
    BY <1>1, <1>2, <1>3, CarriedSaved
  <1>6. NoTaskCarriedTwice' /\ Carried' = Carried
    BY <1>2, <1>4 DEF SafeInv, CarryInv, EachTaskCarriedOnce, NoTaskCarriedTwice,
       Idle, Carried, Queued, Held, buffers
  <1>7. CarryInv'
    BY <1>1, <1>2, <1>3, <1>6, CarriedTask, CarrySaved DEF Unsettled, ActiveStates
  <1> QED
    BY <1>5, <1>7

LEMMA FinishRenameSafe ==
    ASSUME SafeInv, FinishRename
    PROVE  (RegInv /\ CarryInv)'
PROOF
  <1> DEFINE t == job[Renamer]
             m == [memento[t] EXCEPT !.state = "renamed", !.path = "renamed"]
  <1>1. t \in Carried /\ t \in Held /\ Renamer \in Workers
    BY WorkersAreWorkers DEF FinishRename, SafeInv, TypeInv, Occupation, Carried,
       Held
  <1>2. /\ up /\ Save(t, m) /\ UNCHANGED <<up, origin, withdrawn, reserving, buffers>>
        /\ job' = [job EXCEPT ![Renamer] = t]
    BY DEF FinishRename, Hold, intake, ghosts, StateOf
  <1>3. /\ memento[t] \in Mementos /\ ~memento[t].archived
        /\ m \in Mementos /\ m.state = "renamed" /\ m.release = memento[t].release
        /\ m.archived = memento[t].archived
    <2>1. t \in Tasks /\ memento[t] \in Mementos /\ ~memento[t].archived
      BY <1>1, <1>2, CarriedTask DEF Unsettled
    <2>2. "renamed" \in States /\ "renamed" \in Paths
      BY StateNames
    <2> DEFINE old == memento[t]
    <2> HIDE DEF t, old
    <2>3. [old EXCEPT !.state = "renamed", !.path = "renamed"] \in Mementos
      BY <2>1, <2>2, MementoUpdates DEF old
    <2>4. /\ [old EXCEPT !.state = "renamed", !.path = "renamed"].state = "renamed"
          /\ [old EXCEPT !.state = "renamed", !.path = "renamed"].release = old.release
          /\ [old EXCEPT !.state = "renamed", !.path = "renamed"].archived = old.archived
      BY <2>1 DEF old, Mementos
    <2> QED
      BY <2>1, <2>3, <2>4 DEF old
  <1>4. job' = job
    BY <1>1, <1>2 DEF SafeInv, TypeInv, TypeOK, FlowTypeOK
  <1> HIDE DEF t, m
  <1>5. RegInv'
    BY <1>1, <1>2, <1>3, CarriedSaved
  <1>6. NoTaskCarriedTwice' /\ Carried' = Carried
    BY <1>2, <1>4 DEF SafeInv, CarryInv, EachTaskCarriedOnce, NoTaskCarriedTwice,
       Idle, Carried, Queued, Held, buffers
  <1>7. CarryInv'
    BY <1>1, <1>2, <1>3, <1>6, CarriedTask, CarrySaved DEF Unsettled, ActiveStates
  <1> QED
    BY <1>5, <1>7

LEMMA CheckpointDownloadSafe ==
    ASSUME SafeInv, NEW w \in DownloadWorkers, CheckpointDownload(w)
    PROVE  (RegInv /\ CarryInv)'
PROOF
  <1> DEFINE t == job[w]
  <1>1. t \in Carried /\ t \in Held /\ w \in Workers
    BY WorkersAreWorkers DEF CheckpointDownload, SafeInv, TypeInv, Occupation,
       Carried, Held
  <1>2. /\ up /\ Save(t, memento[t])
        /\ UNCHANGED <<up, origin, withdrawn, reserving, buffers, job>>
    BY DEF CheckpointDownload, intake, ghosts, workers
  <1>3. /\ t \in Tasks /\ memento[t] \in Mementos /\ Unsettled(memento[t])
    BY <1>1, <1>2, CarriedTask
  <1> HIDE DEF t
  <1>4. RegInv'
    BY <1>1, <1>2, <1>3, CarriedSaved DEF StateOf
  <1>5. NoTaskCarriedTwice' /\ Carried' = Carried
    BY <1>2 DEF SafeInv, CarryInv, EachTaskCarriedOnce, NoTaskCarriedTwice, Idle,
       Carried, Queued, Held, buffers
  <1>6. CarryInv'
    BY <1>1, <1>2, <1>3, <1>5, CarrySaved
  <1> QED
    BY <1>4, <1>6

LEMMA FailDownloadSafe ==
    ASSUME SafeInv, NEW w \in DownloadWorkers, FailDownload(w)
    PROVE  (RegInv /\ CarryInv)'
PROOF
  <1> DEFINE t == job[w]
             m == [memento[t] EXCEPT !.state = "failed"]
  <1>1. t \in Carried /\ t \in Held /\ w \in Workers
    BY WorkersAreWorkers DEF FailDownload, SafeInv, TypeInv, Occupation, Carried,
       Held
  <1>2. /\ up /\ Save(t, m) /\ UNCHANGED <<up, origin, withdrawn, reserving, buffers>>
        /\ job' = [job EXCEPT ![w] = None]
    BY DEF FailDownload, Release, Hold, intake, ghosts, StateOf
  <1>3. /\ t \in Tasks /\ memento[t] \in Mementos
        /\ m \in Mementos /\ m.state = "failed" /\ m.release = memento[t].release
        /\ m.archived = memento[t].archived
    <2>1. t \in Tasks /\ memento[t] \in Mementos /\ ~memento[t].archived
      BY <1>1, <1>2, CarriedTask DEF Unsettled
    <2>2. "failed" \in States
      BY StateNames
    <2> HIDE DEF t
    <2> QED
      BY <2>1, <2>2, Updated
  <1>4. Distinct' /\ Held' = Held \ {t}
    BY <1>1, <1>2, Freed, PlacesApart DEF SafeInv
  <1> HIDE DEF t, m
  <1>5. RegInv'
    BY <1>1, <1>2, <1>3, CarriedSaved
  <1>6. NoTaskCarriedTwice' /\ Carried' = Carried \ {t}
    BY <1>1, <1>2, <1>4 DEF SafeInv, CarryInv, EachTaskCarriedOnce,
       NoTaskCarriedTwice, Idle, Carried, Queued, buffers
  <1>7. CarryInv'
    BY <1>2, <1>3, <1>6, CarrySaved DEF ActiveStates
  <1> QED
    BY <1>5, <1>7

LEMMA CompleteTaskSafe ==
    ASSUME SafeInv, CompleteTask
    PROVE  (RegInv /\ CarryInv)'
PROOF
  <1> DEFINE t == job[Notifier]
             m == [memento[t] EXCEPT !.state = "completed"]
  <1>1. t \in Carried /\ t \in Held /\ Notifier \in Workers
    BY WorkersAreWorkers DEF CompleteTask, SafeInv, TypeInv, Occupation, Carried,
       Held
  <1>2. /\ up /\ Save(t, m) /\ UNCHANGED <<up, origin, withdrawn, reserving, buffers>>
        /\ job' = [job EXCEPT ![Notifier] = None]
    BY DEF CompleteTask, Release, Hold, intake, ghosts, StateOf
  <1>3. /\ t \in Tasks /\ memento[t] \in Mementos
        /\ m \in Mementos /\ m.state = "completed" /\ m.release = memento[t].release
        /\ m.archived = memento[t].archived
    <2>1. t \in Tasks /\ memento[t] \in Mementos /\ ~memento[t].archived
      BY <1>1, <1>2, CarriedTask DEF Unsettled
    <2>2. "completed" \in States
      BY StateNames
    <2> HIDE DEF t
    <2> QED
      BY <2>1, <2>2, Updated
  <1>4. Distinct' /\ Held' = Held \ {t}
    BY <1>1, <1>2, Freed, PlacesApart DEF SafeInv
  <1> HIDE DEF t, m
  <1>5. RegInv'
    BY <1>1, <1>2, <1>3, CarriedSaved
  <1>6. NoTaskCarriedTwice' /\ Carried' = Carried \ {t}
    BY <1>1, <1>2, <1>4 DEF SafeInv, CarryInv, EachTaskCarriedOnce,
       NoTaskCarriedTwice, Idle, Carried, Queued, buffers
  <1>7. CarryInv'
    BY <1>2, <1>3, <1>6, CarrySaved DEF ActiveStates
  <1> QED
    BY <1>5, <1>7

(* A failed rename or notification: a task nobody knows is left alone.     *)
LEMMA MarkFailedSafe ==
    ASSUME SafeInv, up, NEW w \in Workers, job[w] # None, MarkFailed(w)
    PROVE  (RegInv /\ CarryInv)'
PROOF
  <1> DEFINE t == job[w]
             m == [memento[t] EXCEPT !.state = "failed"]
  <1>1. t \in Carried /\ t \in Held
    BY DEF Carried, Held
  <1>2. /\ UNCHANGED <<up, origin, withdrawn, reserving, buffers>>
        /\ job' = [job EXCEPT ![w] = None]
        /\ Save(t, m) \/ (t \notin tasks /\ UNCHANGED registry)
    BY DEF MarkFailed, Release, Hold, intake, ghosts, Known
  <1>3. /\ t \in Tasks /\ memento[t] \in Mementos
        /\ m \in Mementos /\ m.state = "failed" /\ m.release = memento[t].release
        /\ m.archived = memento[t].archived
    <2>1. t \in Tasks /\ memento[t] \in Mementos /\ ~memento[t].archived
      BY <1>1, CarriedTask DEF Unsettled
    <2>2. "failed" \in States
      BY StateNames
    <2> HIDE DEF t
    <2> QED
      BY <2>1, <2>2, Updated
  <1>4. Distinct' /\ Held' = Held \ {t}
    BY <1>2, Freed, PlacesApart DEF SafeInv
  <1> HIDE DEF t, m
  <1>5. RegInv'
    BY <1>1, <1>2, <1>3, CarriedSaved, RegQuiet DEF SafeInv
  <1>6. NoTaskCarriedTwice' /\ Carried' = Carried \ {t}
    BY <1>1, <1>2, <1>4 DEF SafeInv, CarryInv, EachTaskCarriedOnce,
       NoTaskCarriedTwice, Idle, Carried, Queued, buffers
  <1>7. CASE Save(t, m)
    BY <1>3, <1>5, <1>6, <1>7, CarrySaved DEF ActiveStates
  <1>8. CASE t \notin tasks /\ UNCHANGED registry
    <2>1. tasks \subseteq Carried'
      BY <1>6, <1>8 DEF SafeInv, CarryInv, EachTaskCarriedOnce, NoTaskStranded
    <2> QED
      BY <1>5, <1>6, <1>8, <2>1, CarryQuiet
  <1> QED
    BY <1>2, <1>7, <1>8

LEMMA FailStageSafe ==
    ASSUME SafeInv, FailRename \/ FailNotification
    PROVE  (RegInv /\ CarryInv)'
  BY MarkFailedSafe, WorkersAreWorkers DEF FailRename, FailNotification, SafeInv,
     TypeInv, Occupation

LEMMA IgnoreDownloadSafe ==
    ASSUME SafeInv, NEW w \in DownloadWorkers, IgnoreDownload(w)
    PROVE  (RegInv /\ CarryInv)'
PROOF
  <1> DEFINE t == job[w]
  <1>1. t \in Carried /\ t \in Held /\ w \in Workers
    BY WorkersAreWorkers DEF IgnoreDownload, SafeInv, TypeInv, Occupation, Carried,
       Held
  <1>2. /\ up /\ UNCHANGED registry /\ UNCHANGED <<up, origin, withdrawn, reserving, buffers>>
        /\ job' = [job EXCEPT ![w] = None] /\ StateOf(t) = "cancelled"
    BY DEF IgnoreDownload, Release, Hold, intake, ghosts
  <1>3. t \notin tasks
    BY <1>1, <1>2, CarriedTask DEF ActiveStates
  <1>4. Distinct' /\ Held' = Held \ {t}
    BY <1>1, <1>2, Freed, PlacesApart DEF SafeInv
  <1> HIDE DEF t
  <1>5. NoTaskCarriedTwice' /\ Carried' = Carried \ {t}
    BY <1>1, <1>2, <1>4 DEF SafeInv, CarryInv, EachTaskCarriedOnce,
       NoTaskCarriedTwice, Idle, Carried, Queued, buffers
  <1>6. tasks \subseteq Carried'
    BY <1>3, <1>5 DEF SafeInv, CarryInv, EachTaskCarriedOnce, NoTaskStranded
  <1> QED
    BY <1>2, <1>5, <1>6, CarryQuiet, RegQuiet DEF SafeInv

LEMMA HandToRenameSafe ==
    ASSUME SafeInv, NEW w \in DownloadWorkers, HandToRename(w)
    PROVE  (RegInv /\ CarryInv)'
PROOF
  <1> DEFINE t == job[w]
  <1>1. t \in Carried /\ t \in Held /\ w \in Workers
    BY WorkersAreWorkers DEF HandToRename, SafeInv, TypeInv, Occupation, Carried,
       Held
  <1>2. /\ up /\ UNCHANGED registry /\ UNCHANGED <<up, origin, withdrawn, reserving>>
        /\ job' = [job EXCEPT ![w] = None] /\ renameBuffer' = Append(renameBuffer, t)
        /\ UNCHANGED <<downloadBuffer, notificationBuffer>>
    BY DEF HandToRename, Release, Hold, intake, ghosts
  <1>3. t \in Tasks /\ t \notin ToSet(renameBuffer)
    BY <1>1, <1>2, CarriedTask DEF SafeInv, CarryInv, EachTaskCarriedOnce,
       NoTaskCarriedTwice, Queued
  <1>4. Distinct' /\ Held' = Held \ {t}
    BY <1>1, <1>2, Freed, PlacesApart DEF SafeInv
  <1> HIDE DEF t
  <1>5. IsInjective(renameBuffer') /\ ToSet(renameBuffer') = ToSet(renameBuffer) \cup {t}
    BY <1>2, <1>3, Pushed, PlacesApart
  <1>6. NoTaskCarriedTwice' /\ Carried' = Carried
    BY <1>1, <1>2, <1>4, <1>5 DEF SafeInv, CarryInv, EachTaskCarriedOnce,
       NoTaskCarriedTwice, Idle, Carried, Queued
  <1>7. tasks \subseteq Carried'
    BY <1>6 DEF SafeInv, CarryInv, EachTaskCarriedOnce, NoTaskStranded
  <1> QED
    BY <1>2, <1>6, <1>7, CarryQuiet, RegQuiet DEF SafeInv

LEMMA HandToNotificationSafe ==
    ASSUME SafeInv, HandToNotification
    PROVE  (RegInv /\ CarryInv)'
PROOF
  <1> DEFINE t == job[Renamer]
  <1>1. t \in Carried /\ t \in Held /\ Renamer \in Workers
    BY WorkersAreWorkers DEF HandToNotification, SafeInv, TypeInv, Occupation,
       Carried, Held
  <1>2. /\ up /\ UNCHANGED registry /\ UNCHANGED <<up, origin, withdrawn, reserving>>
        /\ job' = [job EXCEPT ![Renamer] = None] /\ notificationBuffer' = Append(notificationBuffer, t)
        /\ UNCHANGED <<downloadBuffer, renameBuffer>>
    BY DEF HandToNotification, Release, Hold, intake, ghosts
  <1>3. t \in Tasks /\ t \notin ToSet(notificationBuffer)
    BY <1>1, <1>2, CarriedTask DEF SafeInv, CarryInv, EachTaskCarriedOnce,
       NoTaskCarriedTwice, Queued
  <1>4. Distinct' /\ Held' = Held \ {t}
    BY <1>1, <1>2, Freed, PlacesApart DEF SafeInv
  <1> HIDE DEF t
  <1>5. IsInjective(notificationBuffer') /\ ToSet(notificationBuffer') = ToSet(notificationBuffer) \cup {t}
    BY <1>2, <1>3, Pushed, PlacesApart
  <1>6. NoTaskCarriedTwice' /\ Carried' = Carried
    BY <1>1, <1>2, <1>4, <1>5 DEF SafeInv, CarryInv, EachTaskCarriedOnce,
       NoTaskCarriedTwice, Idle, Carried, Queued
  <1>7. tasks \subseteq Carried'
    BY <1>6 DEF SafeInv, CarryInv, EachTaskCarriedOnce, NoTaskStranded
  <1> QED
    BY <1>2, <1>6, <1>7, CarryQuiet, RegQuiet DEF SafeInv

LEMMA EnqueueReservedSafe ==
    ASSUME SafeInv, EnqueueReserved
    PROVE  (RegInv /\ CarryInv)'
PROOF
  <1>1. /\ reserving \in Carried /\ reserving \in Tasks /\ reserving \notin Held
        /\ reserving \notin Queued
    BY CarriedIsTask DEF EnqueueReserved, SafeInv, CarryInv, EachTaskCarriedOnce,
       NoTaskCarriedTwice, Carried
  <1>2. /\ UNCHANGED registry /\ UNCHANGED <<up, origin, withdrawn, job>> /\ reserving' = None
        /\ downloadBuffer' = Append(downloadBuffer, reserving)
        /\ UNCHANGED <<renameBuffer, notificationBuffer>> /\ Held' = Held
    BY DEF EnqueueReserved, ghosts, workers, Held
  <1>3. /\ IsInjective(downloadBuffer')
        /\ ToSet(downloadBuffer') = ToSet(downloadBuffer) \cup {reserving}
    BY <1>1, <1>2, Pushed, PlacesApart DEF Queued
  <1>4. NoTaskCarriedTwice' /\ Carried' = Carried
    BY <1>1, <1>2, <1>3, PlacesApart DEF SafeInv, CarryInv, EachTaskCarriedOnce,
       NoTaskCarriedTwice, Idle, Carried, Queued
  <1>5. tasks \subseteq Carried'
    BY <1>4 DEF SafeInv, CarryInv, EachTaskCarriedOnce, NoTaskStranded
  <1> QED
    BY <1>2, <1>4, <1>5, CarryQuiet, RegQuiet DEF SafeInv

LEMMA RetryDownloadSafe ==
    ASSUME SafeInv, NEW w \in DownloadWorkers, RetryDownload(w)
    PROVE  (RegInv /\ CarryInv)'
PROOF
  <1> DEFINE t == job[w]
             m == [memento[t] EXCEPT !.state = "pending", !.retries = @ + 1]
  <1>1. t \in Carried /\ t \in Held /\ w \in Workers
    BY WorkersAreWorkers DEF RetryDownload, SafeInv, TypeInv, Occupation, Carried,
       Held
  <1>2. /\ up /\ Save(t, m) /\ UNCHANGED <<up, origin, withdrawn, reserving>>
        /\ job' = [job EXCEPT ![w] = None] /\ downloadBuffer' = Append(downloadBuffer, t)
        /\ UNCHANGED <<renameBuffer, notificationBuffer>>
    BY DEF RetryDownload, Release, Hold, intake, ghosts, StateOf
  <1>3. /\ t \in Tasks /\ memento[t] \in Mementos /\ ~memento[t].archived
        /\ m \in Mementos /\ m.state = "pending" /\ m.release = memento[t].release
        /\ m.archived = memento[t].archived
    <2>1. t \in Tasks /\ memento[t] \in Mementos /\ ~memento[t].archived
      BY <1>1, <1>2, CarriedTask DEF Unsettled
    <2>2. "pending" \in States
      BY StateNames
    <2> HIDE DEF t
    <2> QED
      BY <2>1, <2>2, Updated
  <1>4. Distinct' /\ Held' = Held \ {t}
    BY <1>1, <1>2, Freed, PlacesApart DEF SafeInv
  <1> HIDE DEF t, m
  <1>5. RegInv'
    BY <1>1, <1>2, <1>3, CarriedSaved
  <1>6. t \notin Queued
    BY <1>1 DEF SafeInv, CarryInv, EachTaskCarriedOnce, NoTaskCarriedTwice
  <1>7. IsInjective(downloadBuffer') /\ ToSet(downloadBuffer') = ToSet(downloadBuffer) \cup {t}
    BY <1>2, <1>3, <1>6, Pushed, PlacesApart DEF Queued
  <1>8. NoTaskCarriedTwice' /\ Carried' = Carried
    BY <1>1, <1>2, <1>4, <1>6, <1>7 DEF SafeInv, CarryInv, EachTaskCarriedOnce,
       NoTaskCarriedTwice, Idle, Carried, Queued
  <1>9. CarryInv'
    BY <1>1, <1>2, <1>3, <1>8, CarrySaved DEF Unsettled, ActiveStates
  <1> QED
    BY <1>5, <1>9

LEMMA AddReleaseSafe ==
    ASSUME SafeInv, AddRelease
    PROVE  (RegInv /\ CarryInv)'
PROOF
  <1>1. job[Notifier] \in Carried /\ job[Notifier] \in Held /\ Notifier \in Workers
    BY WorkersAreWorkers DEF AddRelease, SafeInv, TypeInv, Occupation, Carried, Held
  <1>2. /\ UNCHANGED registry /\ UNCHANGED <<up, origin, withdrawn, reserving, buffers>>
        /\ job' = [job EXCEPT ![Notifier] = job[Notifier]]
    BY DEF AddRelease, Hold, intake, ghosts
  <1>3. job' = job
    BY <1>1, <1>2 DEF SafeInv, TypeInv, TypeOK, FlowTypeOK
  <1>4. NoTaskCarriedTwice' /\ Carried' = Carried
    BY <1>2, <1>3 DEF SafeInv, CarryInv, EachTaskCarriedOnce, NoTaskCarriedTwice,
       Idle, Carried, Queued, Held, buffers
  <1>5. tasks \subseteq Carried'
    BY <1>4 DEF SafeInv, CarryInv, EachTaskCarriedOnce, NoTaskStranded
  <1> QED
    BY <1>2, <1>4, <1>5, CarryQuiet, RegQuiet DEF SafeInv

LEMMA VettingSafe ==
    ASSUME SafeInv, NEW r, Vet(r) \/ Discard(r)
    PROVE  (RegInv /\ CarryInv)'
PROOF
  <1>1. /\ UNCHANGED registry /\ UNCHANGED <<up, origin, withdrawn, reserving, buffers, workers>>
    BY DEF Vet, Discard, ghosts
  <1>2. NoTaskCarriedTwice' /\ Carried' = Carried
    BY <1>1 DEF SafeInv, CarryInv, EachTaskCarriedOnce, NoTaskCarriedTwice, Idle,
       Carried, Queued, Held, buffers, workers
  <1>3. tasks \subseteq Carried'
    BY <1>2 DEF SafeInv, CarryInv, EachTaskCarriedOnce, NoTaskStranded
  <1> QED
    BY <1>1, <1>2, <1>3, CarryQuiet, RegQuiet DEF SafeInv

(* A reservation looks for a task of its URL before it saves a new one.    *)
LEMMA ReserveDownloadTaskSafe ==
    ASSUME SafeInv, NEW r \in Releases, ReserveDownloadTask(r)
    PROVE  (RegInv /\ CarryInv)'
PROOF
  <1> DEFINE m == [state |-> "pending", release |-> r, retries |-> 0, limit |-> maxRetries,
                   path |-> "none", archived |-> FALSE]
  <1>1. PICK t \in Tasks \ Created :
            /\ Save(t, m) /\ reserving' = t /\ origin' = [origin EXCEPT ![t] = r]
    BY DEF ReserveDownloadTask
  <1>2. /\ up /\ up' /\ reserving = None /\ withdrawn' = withdrawn
        /\ UNCHANGED <<buffers, workers>> /\ ~IsDownloading(r)
    BY DEF ReserveDownloadTask
  <1>3. /\ m \in Mementos /\ m.state = "pending" /\ m.release = r /\ ~m.archived
    BY LimitsAssumption DEF SafeInv, TypeInv, TypeOK, FlowTypeOK, Mementos, States,
       ActiveStates, Paths
  <1> HIDE DEF m
  <1>4. r # None
    BY NoneAssumption
  <1>5. /\ origin'[t] = r /\ \A u \in Tasks \ {t} : origin'[u] = origin[u]
    BY <1>1 DEF SafeInv, TypeInv, TypeOK, FlowTypeOK
  <1>6. \A u \in tasks : memento[u].release.url # r.url
    <2> SUFFICES ASSUME NEW u \in tasks, memento[u].release.url = r.url
                 PROVE  FALSE
      OBVIOUS
    <2>1. u \in Known /\ u \in Carried
      BY DEF Known, SafeInv, CarryInv, EachTaskCarriedOnce, NoTaskStranded
    <2>2. ~memento[u].archived /\ StateOf(u) \in ActiveStates
      BY <1>2, <2>1, CarriedTask DEF Unsettled
    <2> QED
      BY <1>2, <2>1, <2>2 DEF IsDownloading, ActiveStates
  <1>7. RegInv'
    BY <1>1, <1>2, <1>3, <1>4, <1>5, <1>6, Saved
  <1>8. t \notin Carried
    <2>1. origin[t] = None
      BY DEF Created
    <2> QED
      BY <1>2, <2>1, CarriedTask
  <1>9. NoTaskCarriedTwice' /\ Carried' = Carried \cup {t}
    BY <1>1, <1>2, <1>8, TasksAssumption DEF SafeInv, CarryInv, EachTaskCarriedOnce,
       NoTaskCarriedTwice, Idle, Carried, Queued, Held, buffers, workers
  <1>10. CarryInv'
    BY <1>1, <1>3, <1>9, CarrySaved DEF Unsettled, ActiveStates
  <1> QED
    BY <1>7, <1>10

(* A retry by hand finds a failed task, which nobody carries.              *)
LEMMA RetryByHandSafe ==
    ASSUME SafeInv, NEW t \in Tasks, RetryByHand(t)
    PROVE  (RegInv /\ CarryInv)'
PROOF
  <1> DEFINE m == [memento[t] EXCEPT !.state = "pending", !.path = "none", !.retries = 0,
                                     !.archived = FALSE]
  <1>1. /\ up /\ Save(t, m) /\ downloadBuffer' = Append(downloadBuffer, t)
        /\ UNCHANGED <<up, origin, withdrawn, reserving, renameBuffer, notificationBuffer, workers>>
        /\ t \in Known /\ StateOf(t) = "failed"
    BY DEF RetryByHand, intake
  <1>2. memento[t] \in Mementos /\ memento[t] # None
    BY <1>1, CarriedIsTask, NoneAssumption DEF SafeInv
  <1>3. /\ m \in Mementos /\ m.state = "pending" /\ ~m.archived
        /\ m.release = memento[t].release
    BY <1>2, MementoUpdates DEF Mementos
  <1> HIDE DEF m
  <1>4. t \notin Carried
    BY <1>1, CarriedTask DEF Unsettled, StateOf, ActiveStates
  <1>5. origin[t] # None
    BY <1>2 DEF SafeInv, RegInv, Born
  <1>6. \A u \in tasks \ {t} : memento[u].release.url # memento[t].release.url
    <2> SUFFICES ASSUME NEW u \in tasks \ {t}
                 PROVE  memento[u].release.url # memento[t].release.url
      OBVIOUS
    <2>1. u \in Known /\ u \in Carried
      BY DEF Known, SafeInv, CarryInv, EachTaskCarriedOnce, NoTaskStranded
    <2>2. StateOf(u) \in ActiveStates
      BY <1>1, <2>1, CarriedTask
    <2> QED
      BY <2>1, <2>2 DEF RetryByHand, ActiveStates, TerminalStates
  <1>7. RegInv'
    BY <1>1, <1>3, <1>5, <1>6, Saved
  <1>8. IsInjective(downloadBuffer') /\ ToSet(downloadBuffer') = ToSet(downloadBuffer) \cup {t}
    BY <1>1, <1>4, Pushed, PlacesApart DEF Carried, Queued
  <1>9. NoTaskCarriedTwice' /\ Carried' = Carried \cup {t}
    BY <1>1, <1>4, <1>8, TasksAssumption DEF SafeInv, CarryInv, EachTaskCarriedOnce,
       NoTaskCarriedTwice, Idle, Carried, Queued, Held, workers
  <1>10. CarryInv'
    BY <1>1, <1>3, <1>9, CarrySaved DEF Unsettled, ActiveStates
  <1> QED
    BY <1>7, <1>10

LEMMA ArchiveFailedSafe ==
    ASSUME SafeInv, NEW t \in Tasks, ArchiveFailed(t)
    PROVE  (RegInv /\ CarryInv)'
PROOF
  <1> DEFINE m == [memento[t] EXCEPT !.archived = TRUE]
  <1>1. /\ up /\ Save(t, m) /\ StateOf(t) = "failed" /\ t \in Known
        /\ UNCHANGED <<up, origin, withdrawn, reserving, buffers, workers>>
    BY DEF ArchiveFailed, intake, ghosts
  <1>2. memento[t] \in Mementos /\ memento[t] # None
    BY <1>1, CarriedIsTask, NoneAssumption DEF SafeInv
  <1>3. m \in Mementos /\ m.state = "failed"
    BY <1>1, <1>2, MementoUpdates DEF Mementos, StateOf
  <1> HIDE DEF m
  <1>4. t \notin Carried
    BY <1>1, CarriedTask DEF Unsettled, StateOf, ActiveStates
  <1>5. origin[t] # None
    BY <1>2 DEF SafeInv, RegInv, Born
  <1>6. RegInv'
    BY <1>1, <1>3, <1>5, Saved DEF ActiveStates
  <1>7. NoTaskCarriedTwice' /\ Carried' = Carried
    BY <1>1 DEF SafeInv, CarryInv, EachTaskCarriedOnce, NoTaskCarriedTwice, Idle,
       Carried, Queued, Held, buffers, workers
  <1>8. CarryInv'
    BY <1>1, <1>3, <1>4, <1>7, CarrySaved DEF ActiveStates
  <1> QED
    BY <1>6, <1>8

(* A new limit reaches the objects and the rows of the active tasks, and   *)
(* changes nothing else of them.                                           *)
LEMMA UpdateMaxRetriesSafe ==
    ASSUME SafeInv, NEW n \in RetryLimits, UpdateMaxRetries(n)
    PROVE  (RegInv /\ CarryInv)'
PROOF
  <1>1. /\ up /\ UNCHANGED <<up, origin, withdrawn, reserving, buffers, workers, tasks, history>>
        /\ memento' = [t \in Tasks |->
              IF t \in tasks THEN [memento[t] EXCEPT !.limit = n] ELSE memento[t]]
        /\ store' = [t \in Tasks |-> IF t \in tasks THEN memento'[t] ELSE store[t]]
    BY DEF UpdateMaxRetries, intake, ghosts
  <1>2. \A t \in tasks : /\ t \in Tasks /\ memento[t] \in Mementos /\ store[t] = memento[t]
                         /\ store[t] # None /\ memento'[t] \in Mementos /\ memento'[t] # None
    <2> SUFFICES ASSUME NEW t \in tasks
                 PROVE  /\ t \in Tasks /\ memento[t] \in Mementos /\ store[t] = memento[t]
                        /\ store[t] # None /\ memento'[t] \in Mementos /\ memento'[t] # None
      OBVIOUS
    <2>1. t \in Known /\ t \in Tasks /\ memento[t] \in Mementos
      BY CarriedIsTask DEF Known, SafeInv
    <2>2. store[t] = Row(memento[t]) /\ store[t] # None
      BY <1>1, <2>1 DEF SafeInv, RegInv, StoreFollowsRegistry, StoredActive, Stored
    <2> QED
      BY <1>1, <2>1, <2>2, MementoUpdates, NoneAssumption DEF Row
  <1>3. \A t \in tasks : /\ memento'[t].state = memento[t].state
                         /\ memento'[t].release = memento[t].release
                         /\ memento'[t].archived = memento[t].archived
    BY <1>1, <1>2 DEF Mementos
  <1>4. \A t \in Tasks : /\ t \in tasks => store'[t] = memento'[t]
                         /\ t \notin tasks => store'[t] = store[t] /\ memento'[t] = memento[t]
    BY <1>1
  <1>5. Rows' /\ Registered' /\ Born' /\ CancelledOnce'
    BY <1>1, <1>2, <1>3, <1>4 DEF SafeInv, RegInv, Rows, Registered, Born,
       CancelledOnce, StateOf
  <1>6. StoredActive' = StoredActive
    BY <1>2, <1>3, <1>4 DEF StoredActive, Stored
  <1>7. StoreFollowsRegistry'
    <2>1. \A t \in Tasks : t \in tasks => Row(memento'[t]) = memento'[t]
      BY <1>1, <1>2, <1>3 DEF SafeInv, RegInv, Registered, StateOf, Row,
         ActiveStates
    <2>2. Known' = Known /\ Known \subseteq Tasks
      BY <1>1, CarriedIsTask DEF Known, SafeInv
    <2>3. \A t \in Known' : store'[t] = Row(memento'[t])
      BY <1>1, <1>4, <2>1, <2>2 DEF SafeInv, RegInv, StoreFollowsRegistry
    <2> QED
      BY <1>1, <1>6, <2>3 DEF SafeInv, RegInv, StoreFollowsRegistry
  <1>8. OneActiveTaskPerUrl'
    <2>1. \A t \in StoredActive : t \in Tasks /\ store'[t].release = store[t].release
      BY <1>2, <1>3, <1>4 DEF StoredActive, Stored
    <2>2. withdrawn' = withdrawn
      BY <1>1
    <2> QED
      BY <1>6, <2>1, <2>2 DEF SafeInv, RegInv, OneActiveTaskPerUrl
  <1>9. Carried' = Carried /\ NoTaskCarriedTwice'
    BY <1>1 DEF SafeInv, CarryInv, EachTaskCarriedOnce, NoTaskCarriedTwice, Idle,
       Carried, Queued, Held, buffers, workers
  <1>10. CarryInv'
    <2>1. Carried \subseteq Tasks
      BY CarriedIsTask DEF SafeInv
    <2>2. \A t \in Carried : Unsettled(memento'[t])
      BY <1>3, <1>4, <2>1 DEF SafeInv, CarryInv, Unsettled
    <2> QED
      BY <1>1, <1>9, <2>2 DEF SafeInv, CarryInv, EachTaskCarriedOnce, NoTaskStranded
  <1> QED
    BY <1>5, <1>7, <1>8, <1>10 DEF RegInv

(* A cancellation drops the rows of its tasks with their registration, and *)
(* leaves what carries them in place.                                      *)
LEMMA CancelTasksForSourceSafe ==
    ASSUME SafeInv, NEW s \in Sources, CancelTasksForSource(s)
    PROVE  (RegInv /\ CarryInv)'
PROOF
  <1> DEFINE cancelled == Associated(s)
  <1>1. /\ up /\ UNCHANGED <<up, origin, reserving, buffers, workers>>
        /\ memento' = [t \in Tasks |->
              IF t \in cancelled THEN [memento[t] EXCEPT !.state = "cancelled"] ELSE memento[t]]
        /\ store' = [t \in Tasks |-> IF t \in cancelled THEN None ELSE store[t]]
        /\ tasks' = tasks \ cancelled /\ withdrawn' = withdrawn \cup cancelled
    BY DEF CancelTasksForSource, intake
  <1>2. cancelled \subseteq Known /\ Known \subseteq Tasks
    BY CarriedIsTask DEF Associated, SafeInv
  <1>3. Known' \subseteq Known
    BY <1>1, <1>2, CancelledHistory DEF Known, SafeInv
  <1>4. \A t \in cancelled : memento[t] \in Mementos /\ memento[t] # None
    BY <1>2, CarriedIsTask, NoneAssumption DEF SafeInv
  <1> HIDE DEF cancelled
  <1>5. \A t \in Tasks :
          /\ t \in cancelled => /\ store'[t] = None /\ memento'[t].state = "cancelled"
                                /\ memento'[t].archived = memento[t].archived
          /\ t \notin cancelled => store'[t] = store[t] /\ memento'[t] = memento[t]
    BY <1>1, <1>4 DEF Mementos
  <1>6. Rows' /\ Born' /\ CancelledOnce'
    BY <1>1, <1>4, <1>5 DEF SafeInv, RegInv, Rows, Born, CancelledOnce, StateOf
  <1>7. Registered'
    BY <1>1, <1>5 DEF SafeInv, RegInv, Registered, StateOf, ActiveStates
  <1>8. StoredActive' = StoredActive \ cancelled
    BY <1>5 DEF StoredActive, Stored
  <1>9. StoreFollowsRegistry'
    <2>1. \A t \in Known' : store'[t] = Row(memento'[t])
      BY <1>1, <1>2, <1>3, <1>5 DEF SafeInv, RegInv, StoreFollowsRegistry, Row
    <2> QED
      BY <1>1, <1>8, <2>1 DEF SafeInv, RegInv, StoreFollowsRegistry
  <1>10. OneActiveTaskPerUrl'
    <2>1. \A t \in StoredActive' \ withdrawn' : t \in StoredActive \ withdrawn /\ store'[t] = store[t]
      BY <1>1, <1>5, <1>8 DEF StoredActive, Stored
    <2> QED
      BY <2>1 DEF SafeInv, RegInv, OneActiveTaskPerUrl
  <1>11. Carried' = Carried /\ NoTaskCarriedTwice'
    BY <1>1 DEF SafeInv, CarryInv, EachTaskCarriedOnce, NoTaskCarriedTwice, Idle,
       Carried, Queued, Held, buffers, workers
  <1>12. CarryInv'
    <2>1. Carried \subseteq Tasks
      BY CarriedIsTask DEF SafeInv
    <2>2. \A t \in Carried : Unsettled(memento'[t])
      BY <1>5, <2>1 DEF SafeInv, CarryInv, Unsettled
    <2> QED
      BY <1>1, <1>11, <2>2 DEF SafeInv, CarryInv, EachTaskCarriedOnce,
         NoTaskStranded
  <1> QED
    BY <1>6, <1>7, <1>9, <1>10, <1>12 DEF RegInv

LEMMA CrashSafe ==
    ASSUME SafeInv, Crash
    PROVE  (RegInv /\ CarryInv)'
PROOF
  <1>1. /\ UNCHANGED <<store, origin, withdrawn>> /\ ~up' /\ tasks' = {}
        /\ \A t \in Tasks : memento'[t] = None
    BY DEF Crash, ghosts
  <1>2. RegInv'
    BY <1>1 DEF SafeInv, RegInv, Rows, Registered, Born, CancelledOnce,
       StoreFollowsRegistry, OneActiveTaskPerUrl, StoredActive, Stored
  <1>3. ToSet(<<>>) = {} /\ IsInjective(<<>>)
    BY DEF ToSet, IsInjective
  <1>4. Held' = {} /\ \A w \in Workers : job'[w] = None
    BY DEF Crash, Held
  <1>5. Carried' = {} /\ NoTaskCarriedTwice'
    BY <1>3, <1>4 DEF Crash, NoTaskCarriedTwice, Idle, Carried, Queued
  <1> QED
    BY <1>1, <1>2, <1>5 DEF CarryInv, EachTaskCarriedOnce, NoTaskStranded

(* A restart puts each task it resumes in the buffer of its state.         *)
LEMMA StartSafe ==
    ASSUME SafeInv, Start
    PROVE  (RegInv /\ CarryInv)'
PROOF
  <1>1. PICK n \in RetryLimits : Restore(n)
    BY DEF Start
  <1> DEFINE loaded == [t \in Tasks |->
                IF t \in StoredActive THEN [store[t] EXCEPT !.limit = n] ELSE store[t]]
             lost == {t \in StoredActive : Unrestorable(loaded[t])}
             In(states) == {t \in StoredActive \ lost : store[t].state \in states}
  <1>2. /\ memento' = [t \in Tasks |->
               IF t \in lost THEN [loaded[t] EXCEPT !.state = "failed"] ELSE loaded[t]]
        /\ store' = memento'
        /\ tasks' = StoredActive \ lost
        /\ downloadBuffer' \in SetToSeqs(In({"pending", "downloading"}))
        /\ renameBuffer' \in SetToSeqs(In({"downloaded", "renaming"}))
        /\ notificationBuffer' \in SetToSeqs(In({"renamed", "notifying"}))
        /\ UNCHANGED <<origin, withdrawn, reserving, job>>
    BY <1>1 DEF Restore, Start, ghosts, intake, workers
  <1>3. \A t \in Tasks : store[t] \in Mementos \cup {None}
    BY DEF SafeInv, TypeInv, TypeOK, RegistryTypeOK
  <1>4. lost \subseteq StoredActive /\ StoredActive \subseteq Tasks
    BY DEF StoredActive, Stored
  <1>5. \A t \in Tasks :
          /\ memento'[t] # None <=> store[t] # None
          /\ store[t] # None =>
                /\ memento'[t].release = store[t].release
                /\ memento'[t].archived = store[t].archived
                /\ memento'[t].state = IF t \in lost THEN "failed" ELSE store[t].state
    <2> SUFFICES ASSUME NEW t \in Tasks
                 PROVE  /\ memento'[t] # None <=> store[t] # None
                        /\ store[t] # None =>
                              /\ memento'[t].release = store[t].release
                              /\ memento'[t].archived = store[t].archived
                              /\ memento'[t].state = IF t \in lost THEN "failed" ELSE store[t].state
      OBVIOUS
    <2>1. CASE store[t] = None
      <3>1. t \notin StoredActive
        BY <2>1 DEF StoredActive, Stored
      <3> QED
        BY <1>2, <1>4, <2>1, <3>1
    <2>2. CASE store[t] # None
      <3>1. store[t] \in Mementos
        BY <1>3, <2>2
      <3>2. /\ loaded[t] \in Mementos /\ loaded[t].release = store[t].release
            /\ loaded[t].archived = store[t].archived /\ loaded[t].state = store[t].state
        BY <3>1, MementoUpdates DEF Mementos
      <3> HIDE DEF loaded
      <3>3. [loaded[t] EXCEPT !.state = "failed"] \in Mementos
        BY <3>2, MementoUpdates DEF States, TerminalStates
      <3>4. memento'[t] = IF t \in lost THEN [loaded[t] EXCEPT !.state = "failed"] ELSE loaded[t]
        BY <1>2
      <3> QED
        BY <2>2, <3>2, <3>3, <3>4, NoneAssumption DEF Mementos
    <2> QED
      BY <2>1, <2>2
  <1>6. /\ IsInjective(downloadBuffer') /\ ToSet(downloadBuffer') = In({"pending", "downloading"})
        /\ IsInjective(renameBuffer') /\ ToSet(renameBuffer') = In({"downloaded", "renaming"})
        /\ IsInjective(notificationBuffer')
        /\ ToSet(notificationBuffer') = In({"renamed", "notifying"})
    <2>1. \A states : IsFiniteSet(In(states))
      BY <1>4, FiniteTasks
    <2> QED
      BY <1>2, <2>1, Orderings
  <1>7. /\ \A t \in StoredActive : store[t] # None /\ store[t].state \in ActiveStates
        /\ \A t \in Tasks : t \in StoredActive <=> store[t] # None /\ store[t].state \in ActiveStates
    BY DEF StoredActive, Stored
  <1> HIDE DEF loaded, lost
  <1>8. Held' = {} /\ reserving' = None /\ \A w \in Workers : job'[w] = None
    BY <1>2 DEF Start, SafeInv, Down, Held
  <1>9. NoTaskCarriedTwice'
    <2>1. /\ ToSet(downloadBuffer') \cap ToSet(renameBuffer') = {}
          /\ ToSet(downloadBuffer') \cap ToSet(notificationBuffer') = {}
          /\ ToSet(renameBuffer') \cap ToSet(notificationBuffer') = {}
      BY <1>6
    <2>2. reserving' \notin Queued'
      BY <1>4, <1>6, <1>8, TasksAssumption DEF Queued
    <2> QED
      BY <1>6, <1>8, <2>1, <2>2 DEF NoTaskCarriedTwice, Idle
  <1>10. Carried' = StoredActive \ lost
    BY <1>6, <1>7, <1>8 DEF Carried, Queued, ActiveStates
  <1> HIDE DEF In
  <1>11. \A t \in Carried' : Unsettled(memento'[t])
    BY <1>4, <1>5, <1>7, <1>10 DEF Unsettled, SafeInv, RegInv, Rows
  <1>12. CarryInv'
    BY <1>2, <1>9, <1>10, <1>11 DEF CarryInv, EachTaskCarriedOnce, NoTaskStranded
  <1>13. Rows' /\ Born' /\ CancelledOnce'
    BY <1>2, <1>5, <1>7, <1>4 DEF SafeInv, RegInv, Rows, Born, CancelledOnce,
       StateOf
  <1>14. Registered'
    BY <1>2, <1>4, <1>5, <1>7 DEF Registered, StateOf, ActiveStates
  <1>15. StoredActive' = StoredActive \ lost
    BY <1>2, <1>4, <1>5, <1>7 DEF StoredActive, Stored, ActiveStates
  <1>16. \A t \in Tasks : memento'[t] # None => Row(memento'[t]) = memento'[t]
    BY <1>2, <1>13 DEF Rows, Row
  <1>17. Known' \subseteq Tasks /\ \A t \in Known' : memento'[t] # None
    BY StartTypes, NoneAssumption DEF SafeInv, TypeInv, TypeOK, RegistryTypeOK,
       Objects, Known, ToSet
  <1>18. StoreFollowsRegistry'
    BY <1>2, <1>15, <1>16, <1>17 DEF StoreFollowsRegistry
  <1>19. OneActiveTaskPerUrl'
    <2>1. \A t \in StoredActive' \ withdrawn' :
            t \in StoredActive \ withdrawn /\ store'[t].release = store[t].release
      BY <1>2, <1>4, <1>5, <1>7, <1>15
    <2> QED
      BY <2>1 DEF SafeInv, RegInv, OneActiveTaskPerUrl
  <1> QED
    BY <1>12, <1>13, <1>14, <1>18, <1>19 DEF RegInv
-----------------------------------------------------------------------------
LEMMA InitSafe == Init => SafeInv
PROOF
  <1> SUFFICES ASSUME Init
               PROVE  SafeInv
    OBVIOUS
  <1>1. TypeInv /\ Down
    BY InitTypes DEF Init, Down
  <1>2. RegInv
    BY DEF Init, RegInv, Rows, Registered, Born, CancelledOnce,
       StoreFollowsRegistry, OneActiveTaskPerUrl, StoredActive, Stored
  <1>3. ToSet(<<>>) = {} /\ IsInjective(<<>>)
    BY DEF ToSet, IsInjective
  <1>4. Held = {} /\ \A w \in Workers : job[w] = None
    BY DEF Init, Held
  <1>5. Carried = {} /\ NoTaskCarriedTwice
    BY <1>3, <1>4 DEF Init, NoTaskCarriedTwice, Idle, Carried, Queued
  <1> QED
    BY <1>1, <1>2, <1>5 DEF Init, SafeInv, CarryInv, EachTaskCarriedOnce,
       NoTaskStranded

LEMMA SafeStep == SafeInv /\ [Next]_vars => SafeInv'
PROOF
  <1> SUFFICES ASSUME SafeInv, [Next]_vars
               PROVE  SafeInv'
    OBVIOUS
  <1>1. TypeInv' /\ Down'
    BY TypeStep, DownStep DEF SafeInv
  <1>2. CASE Intake
    BY <1>1, <1>2, VettingSafe, ReserveDownloadTaskSafe, EnqueueReservedSafe DEF
       Intake, SafeInv
  <1>3. ASSUME NEW w \in DownloadWorkers, Download(w)
        PROVE  SafeInv'
    BY <1>1, <1>3, SkipDownloadSafe, StartDownloadSafe, CheckpointDownloadSafe,
       IgnoreDownloadSafe, FinishDownloadSafe, HandToRenameSafe, RetryDownloadSafe,
       FailDownloadSafe DEF Download, SafeInv
  <1>4. CASE Rename
    BY <1>1, <1>4, SkipRenameSafe, StartRenameSafe, FinishRenameSafe,
       HandToNotificationSafe, FailStageSafe DEF Rename, SafeInv
  <1>5. CASE Notify
    BY <1>1, <1>5, SkipNotificationSafe, StartNotificationSafe, AddReleaseSafe,
       CompleteTaskSafe, FailStageSafe DEF Notify, SafeInv
  <1>6. CASE Administer
    BY <1>1, <1>6, CancelTasksForSourceSafe, RetryByHandSafe, ArchiveFailedSafe,
       UpdateMaxRetriesSafe DEF Administer, SafeInv
  <1>7. CASE Crash \/ Start
    BY <1>1, <1>7, CrashSafe, StartSafe DEF SafeInv
  <1>8. CASE UNCHANGED vars
    <2>1. UNCHANGED registry /\ UNCHANGED <<up, origin, withdrawn, reserving, buffers, workers>>
      BY <1>8 DEF vars, intake, ghosts
    <2>2. NoTaskCarriedTwice' /\ Carried' = Carried
      BY <2>1 DEF SafeInv, CarryInv, EachTaskCarriedOnce, NoTaskCarriedTwice, Idle,
         Carried, Queued, Held, buffers, workers
    <2>3. tasks \subseteq Carried'
      BY <2>2 DEF SafeInv, CarryInv, EachTaskCarriedOnce, NoTaskStranded
    <2> QED
      BY <1>1, <2>1, <2>2, <2>3, CarryQuiet, RegQuiet DEF SafeInv
  <1> QED
    BY <1>2, <1>3, <1>4, <1>5, <1>6, <1>7, <1>8 DEF Next

(* The registry, the store and the carriers stay in step through every     *)
(* interleaving of the stages, the handlers and the crashes.               *)
THEOREM SafeAlwaysHolds == Spec => []SafeInv
  BY InitSafe, SafeStep, PTL DEF Spec

(* Every active task has exactly one carrier, so none is stranded and no   *)
(* two stages ever work on the same one.                                   *)
THEOREM TasksAlwaysCarriedOnce == Spec => []EachTaskCarriedOnce
PROOF
  <1>1. SafeInv => EachTaskCarriedOnce
    BY DEF SafeInv, CarryInv
  <1> QED
    BY <1>1, SafeAlwaysHolds, PTL

(* The store holds exactly what the registry would want back after a       *)
(* crash.                                                                  *)
THEOREM StoreAlwaysFollows == Spec => []StoreFollowsRegistry
PROOF
  <1>1. SafeInv => StoreFollowsRegistry
    BY DEF SafeInv, RegInv
  <1> QED
    BY <1>1, SafeAlwaysHolds, PTL

(* Reservations, retries by hand and restarts never start a second task of *)
(* a URL, unless a cancellation reached the first.                         *)
THEOREM UrlsAlwaysApart == Spec => []OneActiveTaskPerUrl
PROOF
  <1>1. SafeInv => OneActiveTaskPerUrl
    BY DEF SafeInv, RegInv
  <1> QED
    BY <1>1, SafeAlwaysHolds, PTL

-----------------------------------------------------------------------------
(* The ledger.                                                             *)

(* While the process runs every object, known or forgotten, is as its row  *)
(* says.                                                                   *)
Mirror == up => \A t \in Tasks :
    store[t] = IF memento[t] = None THEN None ELSE Row(memento[t])

(* A task never changes its release.                                       *)
SameRelease == \A t \in Tasks :
    /\ memento[t] # None => memento[t].release = origin[t]
    /\ store[t] # None => store[t].release = origin[t]

(* A task is completed after its release was recorded.                     *)
Recorded == phase[Notifier] = "notifying" => origin[job[Notifier]].url \in library

LedgerInv == SafeInv /\ Mirror /\ SameRelease /\ Recorded

Follows == (Mirror /\ SameRelease)'
LedgerStep == Ledger!LedgerNext \/ UNCHANGED <<LedgerStatus, LedgerUrl, withdrawn, library>>

LEMMA StatusOf ==
    ASSUME NEW t \in Tasks
    PROVE  /\ LedgerStatus[t] = IF origin[t] = None THEN "new"
                                ELSE IF store[t] = None THEN "over"
                                ELSE IF store[t].state = "failed" THEN "failed" ELSE "accepted"
           /\ LedgerStatus'[t] = IF origin'[t] = None THEN "new"
                                 ELSE IF store'[t] = None THEN "over"
                                 ELSE IF store'[t].state = "failed" THEN "failed" ELSE "accepted"
           /\ LedgerUrl[t] = IF origin[t] = None THEN None ELSE origin[t].url
           /\ LedgerUrl'[t] = IF origin'[t] = None THEN None ELSE origin'[t].url
  BY DEF LedgerStatus, LedgerUrl

(* What a step makes of the status of the tasks in S.                      *)
LEMMA StatusChange ==
    ASSUME NEW S \in SUBSET Tasks, NEW x,
           \A t \in S : LedgerStatus'[t] = x,
           \A t \in Tasks \ S : LedgerStatus'[t] = LedgerStatus[t]
    PROVE  /\ LedgerStatus' = [t \in Tasks |-> IF t \in S THEN x ELSE LedgerStatus[t]]
           /\ \A t \in Tasks : S = {t} => LedgerStatus' = [LedgerStatus EXCEPT ![t] = x]
PROOF
  <1>1. /\ LedgerStatus' = [t \in Tasks |-> LedgerStatus'[t]]
        /\ LedgerStatus = [t \in Tasks |-> LedgerStatus[t]]
    BY DEF LedgerStatus
  <1>2. LedgerStatus' = [t \in Tasks |-> IF t \in S THEN x ELSE LedgerStatus[t]]
    BY <1>1
  <1>3. ASSUME NEW t \in Tasks, S = {t}
        PROVE  LedgerStatus' = [LedgerStatus EXCEPT ![t] = x]
    BY <1>1, <1>3
  <1> QED
    BY <1>2, <1>3

LEMMA StatusKept ==
    ASSUME \A t \in Tasks : LedgerStatus'[t] = LedgerStatus[t]
    PROVE  LedgerStatus' = LedgerStatus
  BY DEF LedgerStatus

LEMMA UrlKept ==
    ASSUME origin' = origin
    PROVE  LedgerUrl' = LedgerUrl
  BY DEF LedgerUrl

(* A step that changes neither rows nor the library.                       *)
LEMMA LedgerQuiet ==
    ASSUME LedgerInv, UNCHANGED <<memento, store, up, origin, withdrawn, library>>
    PROVE  LedgerStep /\ Follows
PROOF
  <1>1. LedgerStatus' = LedgerStatus /\ LedgerUrl' = LedgerUrl
    BY DEF LedgerStatus, LedgerUrl
  <1>2. Follows
    BY DEF LedgerInv, Mirror, SameRelease, Follows
  <1> QED
    BY <1>1, <1>2 DEF LedgerStep

(* A step that saves one task.                                             *)
LEMMA SaveFollows ==
    ASSUME LedgerInv, up, NEW t \in Tasks, NEW m \in Mementos, Save(t, m),
           m.release = origin'[t], \A u \in Tasks \ {t} : origin'[u] = origin[u]
    PROVE  /\ Follows
           /\ store'[t] = Row(m) /\ \A u \in Tasks \ {t} : store'[u] = store[u]
           /\ \A u \in Tasks \ {t} : LedgerStatus'[u] = LedgerStatus[u]
PROOF
  <1>1. /\ memento'[t] = m /\ \A u \in Tasks \ {t} : memento'[u] = memento[u]
        /\ store'[t] = Row(m) /\ \A u \in Tasks \ {t} : store'[u] = store[u]
    BY DEF Save, LedgerInv, SafeInv, TypeInv, TypeOK, RegistryTypeOK
  <1>2. m # None
    BY NoneAssumption
  <1>3. Mirror'
    BY <1>1, <1>2 DEF LedgerInv, Mirror
  <1>4. SameRelease'
    BY <1>1 DEF LedgerInv, SameRelease, Row
  <1>5. ASSUME NEW u \in Tasks \ {t}
        PROVE  LedgerStatus'[u] = LedgerStatus[u]
    BY <1>1, StatusOf
  <1> QED
    BY <1>1, <1>3, <1>4, <1>5 DEF Follows

(* What the stages save: a task that is carried and not over, unless it    *)
(* was withdrawn.                                                          *)
StageSave(t, m) ==
    /\ t \in Carried /\ Save(t, m) /\ m.release = memento[t].release
    /\ m.state = "cancelled" => StateOf(t) = "cancelled"
    /\ m.state = "completed" => origin[t].url \in library
    /\ up /\ UNCHANGED <<library, origin, withdrawn>>

LEMMA StageSaveStep ==
    ASSUME LedgerInv, NEW t \in Tasks, NEW m \in Mementos, StageSave(t, m)
    PROVE  LedgerStep /\ Follows
PROOF
  <1>1. /\ memento[t] \in Mementos /\ memento[t] # None /\ origin[t] # None
        /\ StateOf(t) \in ActiveStates \/ (StateOf(t) = "cancelled" /\ t \in withdrawn)
    <2>1. SafeInv /\ up /\ t \in Carried
      BY DEF StageSave, LedgerInv
    <2>2. /\ memento[t] \in Mementos /\ origin[t] # None /\ Unsettled(memento[t])
          /\ StateOf(t) = "cancelled" => t \in withdrawn
      BY <2>1, CarriedTask
    <2>3. memento[t] # None
      BY <2>2, NoneAssumption
    <2>4. StateOf(t) \in ActiveStates \cup {"cancelled"}
      BY <2>2 DEF Unsettled, StateOf
    <2> QED
      BY <2>2, <2>3, <2>4
  <1>2. m.release = origin[t] /\ UNCHANGED <<library, withdrawn, LedgerUrl>>
    BY <1>1, UrlKept DEF StageSave, LedgerInv, SameRelease
  <1>3. /\ Follows
        /\ store'[t] = Row(m)
        /\ \A u \in Tasks \ {t} : LedgerStatus'[u] = LedgerStatus[u]
    BY <1>2, SaveFollows DEF StageSave
  <1>4. store[t] = Row(memento[t])
    BY <1>1 DEF LedgerInv, Mirror, StageSave
  <1>5. /\ LedgerStatus[t] = IF StateOf(t) = "cancelled" THEN "over" ELSE "accepted"
        /\ t \notin withdrawn => LedgerStatus[t] = "accepted"
    BY <1>1, <1>4, StatusOf DEF Row, StateOf, ActiveStates
  <1>6. LedgerStatus'[t] = IF m.state \in {"completed", "cancelled"} THEN "over"
                           ELSE IF m.state = "failed" THEN "failed" ELSE "accepted"
    BY <1>1, <1>3, StatusOf, NoneAssumption DEF Row, StageSave
  <1>7. LedgerStatus' = [LedgerStatus EXCEPT ![t] = LedgerStatus'[t]]
    BY <1>3, StatusChange, {t} \in SUBSET Tasks
  <1>8. CASE LedgerStatus'[t] = LedgerStatus[t]
    BY <1>2, <1>3, <1>8, StatusKept DEF LedgerStep
  <1>9. CASE LedgerStatus[t] = "accepted" /\ LedgerStatus'[t] = "failed"
    <2>1. LedgerStatus' = [u \in Tasks |-> IF u \in {t} THEN "failed" ELSE LedgerStatus[u]]
      BY <1>3, <1>9, StatusChange, {t} \in SUBSET Tasks
    <2> QED
      BY <1>2, <1>3, <1>9, <2>1, {t} \in SUBSET Tasks DEF LedgerStep,
         Ledger!LedgerNext, Ledger!Fail
  <1>10. CASE LedgerStatus[t] = "accepted" /\ LedgerStatus'[t] = "over"
    <2>1. m.state = "completed"
      BY <1>5, <1>6, <1>10 DEF StageSave
    <2>2. LedgerUrl[t] \in library
      BY <1>1, <2>1, StatusOf DEF StageSave
    <2> QED
      BY <1>2, <1>3, <1>7, <1>10, <2>2 DEF LedgerStep, Ledger!LedgerNext,
         Ledger!Finish
  <1>11. CASE LedgerStatus[t] = "over" /\ LedgerStatus'[t] \in {"accepted", "failed"}
    BY <1>2, <1>3, <1>5, <1>7, <1>11 DEF LedgerStep, Ledger!LedgerNext,
       Ledger!Revive
  <1> QED
    BY <1>5, <1>6, <1>8, <1>9, <1>10, <1>11

(* What an update of a memento makes of its release.                       *)
LEMMA SameAfterUpdate ==
    ASSUME NEW old \in Mementos, NEW s \in States
    PROVE  /\ LET new == [old EXCEPT !.state = s]
              IN  new \in Mementos /\ new.state = s /\ new.release = old.release
           /\ \A p \in Paths :
                LET new == [old EXCEPT !.state = s, !.path = p]
                IN  new \in Mementos /\ new.state = s /\ new.release = old.release
           /\ LET new == [old EXCEPT !.state = s, !.retries = @ + 1]
              IN  new \in Mementos /\ new.state = s /\ new.release = old.release
PROOF
  <1>1. ASSUME NEW p \in Paths
        PROVE  /\ [old EXCEPT !.state = s, !.path = p].state = s
               /\ [old EXCEPT !.state = s, !.path = p].release = old.release
    BY DEF Mementos
  <1> QED
    BY <1>1, Updated, MementoUpdates

(* What the worker of a stage holds, and what it takes from its buffer.    *)
LEMMA HeldTask ==
    ASSUME LedgerInv, up, NEW w \in Workers, phase[w] # "idle"
    PROVE  /\ job[w] \in Carried /\ job[w] \in Tasks /\ memento[job[w]] \in Mementos
           /\ origin[job[w]] # None /\ origin[job[w]] = memento[job[w]].release
PROOF
  <1>1. job[w] \in Carried
    BY DEF LedgerInv, SafeInv, TypeInv, Occupation, Carried, Held
  <1> QED
    BY <1>1, CarriedTask, NoneAssumption DEF LedgerInv, SameRelease

LEMMA NextTask ==
    ASSUME LedgerInv, up, NEW s \in {downloadBuffer, renameBuffer, notificationBuffer}, s # <<>>
    PROVE  /\ Head(s) \in Carried /\ Head(s) \in Tasks /\ memento[Head(s)] \in Mementos
PROOF
  <1>1. s \in Seq(Tasks)
    BY DEF LedgerInv, SafeInv, TypeInv, TypeOK, FlowTypeOK
  <1>2. Head(s) \in Carried
    BY <1>1, ElementsOfTail DEF Carried, Queued
  <1> QED
    BY <1>2, CarriedTask DEF LedgerInv

LEMMA DownloadSaves ==
    ASSUME LedgerInv, NEW w \in DownloadWorkers,
           \/ StartDownload(w) \/ CheckpointDownload(w) \/ FinishDownload(w)
           \/ RetryDownload(w) \/ FailDownload(w)
    PROVE  LedgerStep /\ Follows
PROOF
  <1> DEFINE t == job[w]
             h == Head(downloadBuffer)
  <1>1. UNCHANGED <<library, origin, withdrawn>> /\ up /\ w \in Workers
    BY WorkersAreWorkers
    DEF StartDownload, CheckpointDownload, FinishDownload, RetryDownload, FailDownload, ghosts
  <1>2. {"downloading", "downloaded", "pending", "failed"} \subseteq States /\ "downloaded" \in Paths
    BY StateNames
  <1>3. CASE StartDownload(w)
    <2>1. /\ h \in Carried /\ h \in Tasks /\ memento[h] \in Mementos
          /\ Save(h, [memento[h] EXCEPT !.state = "downloading"])
      BY <1>1, <1>3, NextTask DEF StartDownload
    <2> DEFINE m == [memento[h] EXCEPT !.state = "downloading"]
    <2>2. m \in Mementos /\ m.state = "downloading" /\ m.release = memento[h].release
      BY <1>2, <2>1, SameAfterUpdate
    <2> HIDE DEF m, h
    <2>3. StageSave(h, m)
      BY <1>1, <2>1, <2>2 DEF StageSave, m
    <2> QED
      BY <2>1, <2>2, <2>3, StageSaveStep
  <1>4. /\ ~StartDownload(w) => phase[w] = "downloading"
        /\ phase[w] = "downloading" => t \in Carried /\ t \in Tasks /\ memento[t] \in Mementos
    BY <1>1, HeldTask DEF CheckpointDownload, FinishDownload, RetryDownload,
       FailDownload
  <1>5. CASE CheckpointDownload(w)
    <2>1. StageSave(t, memento[t])
      BY <1>1, <1>4, <1>5, CarriedTask DEF CheckpointDownload, StageSave, StateOf,
         LedgerInv, Unsettled, ActiveStates
    <2> QED
      BY <1>4, <1>5, <2>1, StageSaveStep DEF CheckpointDownload
  <1>6. CASE FinishDownload(w)
    <2> DEFINE m == [memento[t] EXCEPT !.state = "downloaded", !.path = "downloaded"]
    <2>1. t \in Carried /\ t \in Tasks /\ memento[t] \in Mementos /\ Save(t, m)
      BY <1>4, <1>6 DEF FinishDownload
    <2>2. m \in Mementos /\ m.state = "downloaded" /\ m.release = memento[t].release
      <3> DEFINE old == memento[t]
      <3>1. old \in Mementos /\ "downloaded" \in States /\ "downloaded" \in Paths
        BY <1>2, <2>1
      <3> HIDE DEF old, t
      <3>2. LET new == [old EXCEPT !.state = "downloaded", !.path = "downloaded"]
            IN  new \in Mementos /\ new.state = "downloaded" /\ new.release = old.release
        BY <3>1, SameAfterUpdate
      <3> QED
        BY <3>2 DEF old
    <2> HIDE DEF m, t
    <2>3. StageSave(t, m)
      BY <1>1, <2>1, <2>2 DEF StageSave
    <2> QED
      BY <2>1, <2>2, <2>3, StageSaveStep
  <1>7. CASE RetryDownload(w)
    <2> DEFINE m == [memento[t] EXCEPT !.state = "pending", !.retries = @ + 1]
    <2>1. t \in Carried /\ t \in Tasks /\ memento[t] \in Mementos /\ Save(t, m)
      BY <1>4, <1>7 DEF RetryDownload
    <2>2. m \in Mementos /\ m.state = "pending" /\ m.release = memento[t].release
      BY <1>2, <2>1, SameAfterUpdate
    <2> HIDE DEF m, t
    <2>3. StageSave(t, m)
      BY <1>1, <2>1, <2>2 DEF StageSave
    <2> QED
      BY <2>1, <2>2, <2>3, StageSaveStep
  <1>8. CASE FailDownload(w)
    <2> DEFINE m == [memento[t] EXCEPT !.state = "failed"]
    <2>1. t \in Carried /\ t \in Tasks /\ memento[t] \in Mementos /\ Save(t, m)
      BY <1>4, <1>8 DEF FailDownload
    <2>2. m \in Mementos /\ m.state = "failed" /\ m.release = memento[t].release
      BY <1>2, <2>1, SameAfterUpdate
    <2> HIDE DEF m, t
    <2>3. StageSave(t, m)
      BY <1>1, <2>1, <2>2 DEF StageSave
    <2> QED
      BY <2>1, <2>2, <2>3, StageSaveStep
  <1> QED
    BY <1>3, <1>5, <1>6, <1>7, <1>8

LEMMA RenameSaves ==
    ASSUME LedgerInv, StartRename \/ FinishRename
    PROVE  LedgerStep /\ Follows
PROOF
  <1>1. /\ UNCHANGED <<library, origin, withdrawn>> /\ up
        /\ {"renaming", "renamed"} \subseteq States /\ "renamed" \in Paths
    BY StateNames DEF StartRename, FinishRename, ghosts
  <1>2. CASE StartRename
    <2> DEFINE t == Head(renameBuffer)
               m == [memento[t] EXCEPT !.state = "renaming"]
    <2>1. t \in Carried /\ t \in Tasks /\ memento[t] \in Mementos /\ Save(t, m)
      BY <1>1, <1>2, NextTask DEF StartRename
    <2>2. m \in Mementos /\ m.state = "renaming" /\ m.release = memento[t].release
      BY <1>1, <2>1, SameAfterUpdate
    <2> HIDE DEF m, t
    <2>3. StageSave(t, m)
      BY <1>1, <2>1, <2>2 DEF StageSave
    <2> QED
      BY <2>1, <2>2, <2>3, StageSaveStep
  <1>3. CASE FinishRename
    <2> DEFINE t == job[Renamer]
               m == [memento[t] EXCEPT !.state = "renamed", !.path = "renamed"]
    <2>1. t \in Carried /\ t \in Tasks /\ memento[t] \in Mementos /\ Save(t, m)
      BY <1>1, <1>3, HeldTask, WorkersAreWorkers DEF FinishRename
    <2>2. m \in Mementos /\ m.state = "renamed" /\ m.release = memento[t].release
      <3> DEFINE old == memento[t]
      <3>1. old \in Mementos /\ "renamed" \in States /\ "renamed" \in Paths
        BY <1>1, <2>1
      <3> HIDE DEF old, t
      <3>2. LET new == [old EXCEPT !.state = "renamed", !.path = "renamed"]
            IN  new \in Mementos /\ new.state = "renamed" /\ new.release = old.release
        BY <3>1, SameAfterUpdate
      <3> QED
        BY <3>2 DEF old
    <2> HIDE DEF m, t
    <2>3. StageSave(t, m)
      BY <1>1, <2>1, <2>2 DEF StageSave
    <2> QED
      BY <2>1, <2>2, <2>3, StageSaveStep
  <1> QED
    BY <1>2, <1>3

LEMMA NotificationSaves ==
    ASSUME LedgerInv, StartNotification \/ CompleteTask
    PROVE  LedgerStep /\ Follows
PROOF
  <1>1. /\ UNCHANGED <<library, origin, withdrawn>> /\ up
        /\ {"notifying", "completed"} \subseteq States
    BY StateNames DEF StartNotification, CompleteTask, ghosts
  <1>2. CASE StartNotification
    <2> DEFINE t == Head(notificationBuffer)
               m == [memento[t] EXCEPT !.state = "notifying"]
    <2>1. t \in Carried /\ t \in Tasks /\ memento[t] \in Mementos /\ Save(t, m)
      BY <1>1, <1>2, NextTask DEF StartNotification
    <2>2. m \in Mementos /\ m.state = "notifying" /\ m.release = memento[t].release
      BY <1>1, <2>1, SameAfterUpdate
    <2> HIDE DEF m, t
    <2>3. StageSave(t, m)
      BY <1>1, <2>1, <2>2 DEF StageSave
    <2> QED
      BY <2>1, <2>2, <2>3, StageSaveStep
  <1>3. CASE CompleteTask
    <2> DEFINE t == job[Notifier]
               m == [memento[t] EXCEPT !.state = "completed"]
    <2>1. /\ t \in Carried /\ t \in Tasks /\ memento[t] \in Mementos /\ Save(t, m)
          /\ origin[t].url \in library
      BY <1>1, <1>3, HeldTask, WorkersAreWorkers DEF CompleteTask, LedgerInv,
         Recorded
    <2>2. m \in Mementos /\ m.state = "completed" /\ m.release = memento[t].release
      BY <1>1, <2>1, SameAfterUpdate
    <2> HIDE DEF m, t
    <2>3. StageSave(t, m)
      BY <1>1, <2>1, <2>2 DEF StageSave
    <2> QED
      BY <2>1, <2>2, <2>3, StageSaveStep
  <1> QED
    BY <1>2, <1>3

LEMMA StageFailures ==
    ASSUME LedgerInv, FailRename \/ FailNotification
    PROVE  LedgerStep /\ Follows
PROOF
  <1>1. PICK w \in Workers : MarkFailed(w) /\ phase[w] # "idle" /\ up
    BY WorkersAreWorkers DEF FailRename, FailNotification
  <1> DEFINE t == job[w]
             m == [memento[t] EXCEPT !.state = "failed"]
  <1>2. /\ t \in Carried /\ t \in Tasks /\ memento[t] \in Mementos
        /\ UNCHANGED <<library, origin, withdrawn, up>> /\ "failed" \in States
        /\ Save(t, m) \/ UNCHANGED <<memento, store>>
    BY <1>1, HeldTask, StateNames DEF MarkFailed, ghosts, registry
  <1>3. m \in Mementos /\ m.state = "failed" /\ m.release = memento[t].release
    BY <1>2, SameAfterUpdate
  <1> HIDE DEF m, t
  <1>4. CASE Save(t, m)
    <2>1. StageSave(t, m)
      BY <1>1, <1>2, <1>3, <1>4 DEF StageSave
    <2> QED
      BY <1>2, <1>3, <2>1, StageSaveStep
  <1>5. CASE UNCHANGED <<memento, store>>
    BY <1>2, <1>5, LedgerQuiet
  <1> QED
    BY <1>2, <1>4, <1>5

(* The notification stage keeps the task whose release it has recorded.    *)
LEMMA NotifierKept ==
    ASSUME LedgerInv, library \subseteq library',
           phase'[Notifier] = "notifying" => phase[Notifier] = "notifying" /\ job'[Notifier] = job[Notifier],
           \A t \in Tasks : origin[t] # None => origin'[t] = origin[t]
    PROVE  Recorded'
PROOF
  <1> SUFFICES ASSUME phase'[Notifier] = "notifying"
               PROVE  origin'[job'[Notifier]].url \in library'
    BY DEF Recorded
  <1>1. phase[Notifier] = "notifying" /\ job'[Notifier] = job[Notifier] /\ Notifier \in Workers
    BY WorkersAreWorkers
  <1>2. up
    BY <1>1 DEF LedgerInv, SafeInv, Down, TypeInv, Occupation
  <1>3. job[Notifier] \in Tasks /\ origin[job[Notifier]] # None
    BY <1>1, <1>2, HeldTask
  <1> QED
    BY <1>1, <1>3 DEF LedgerInv, Recorded

LEMMA AddReleaseStep ==
    ASSUME LedgerInv, AddRelease
    PROVE  LedgerStep /\ Follows
PROOF
  <1> DEFINE t == job[Notifier]
  <1>1. /\ t \in Carried /\ t \in Tasks /\ origin[t] # None /\ origin[t] = memento[t].release
        /\ up /\ SafeInv
    BY HeldTask, WorkersAreWorkers DEF AddRelease, LedgerInv
  <1>2. /\ UNCHANGED <<memento, store, up, origin, withdrawn>>
        /\ library' = library \cup {memento[t].release.url}
    BY DEF AddRelease, registry, ghosts
  <1> HIDE DEF t
  <1>3. library' = library \cup {LedgerUrl[t]}
    BY <1>1, <1>2, StatusOf
  <1>4. LedgerStatus' = LedgerStatus /\ LedgerUrl' = LedgerUrl
    BY <1>2 DEF LedgerStatus, LedgerUrl
  <1>5. LedgerStatus[t] = "accepted" \/ t \in withdrawn
    <2>1. /\ memento[t] \in Mementos /\ Unsettled(memento[t])
          /\ StateOf(t) = "cancelled" => t \in withdrawn
      BY <1>1, CarriedTask
    <2>2. StateOf(t) \in ActiveStates \/ t \in withdrawn
      BY <2>1 DEF Unsettled, StateOf
    <2>3. memento[t] # None
      BY <2>1, NoneAssumption
    <2>4. store[t] = Row(memento[t])
      BY <1>1, <2>3 DEF LedgerInv, Mirror
    <2> QED
      BY <1>1, <2>2, <2>3, <2>4, StatusOf DEF Row, StateOf, ActiveStates
  <1>6. Follows
    BY <1>2 DEF LedgerInv, Mirror, SameRelease, Follows
  <1> QED
    BY <1>1, <1>2, <1>3, <1>4, <1>5, <1>6 DEF LedgerStep, Ledger!LedgerNext,
       Ledger!Record

(* A task that nobody may claim twice: what a reservation or a retry by    *)
(* hand finds among the known tasks is all there is on the ledger.         *)
LEMMA NobodyClaims ==
    ASSUME LedgerInv, up, NEW t \in Tasks, NEW url,
           \A u \in tasks \ {t} : memento[u].release.url # url
    PROVE  Ledger!Unclaimed(t, url)
PROOF
  <1> SUFFICES ASSUME NEW u \in Tasks \ withdrawn, u # t, LedgerStatus[u] = "accepted", LedgerUrl[u] = url
               PROVE  FALSE
    BY DEF Ledger!Unclaimed
  <1>1. origin[u] # None /\ store[u] # None /\ store[u].state # "failed"
    BY StatusOf
  <1>2. store[u] \in Mementos /\ store[u].state \notin {"completed", "cancelled"}
    BY <1>1 DEF LedgerInv, SafeInv, TypeInv, TypeOK, RegistryTypeOK, RegInv, Rows
  <1>3. u \in StoredActive
    BY <1>1, <1>2 DEF StoredActive, Stored, Mementos, States, TerminalStates
  <1>4. u \in tasks
    BY <1>3 DEF LedgerInv, SafeInv, RegInv, StoreFollowsRegistry
  <1>5. memento[u] # None /\ memento[u].release = origin[u]
    BY <1>1 DEF LedgerInv, Mirror, SameRelease
  <1> QED
    BY <1>1, <1>4, <1>5, StatusOf

LEMMA ReserveStep ==
    ASSUME LedgerInv, NEW r \in Releases, ReserveDownloadTask(r)
    PROVE  LedgerStep /\ Follows /\ Recorded'
PROOF
  <1> DEFINE m == [state |-> "pending", release |-> r, retries |-> 0, limit |-> maxRetries,
                   path |-> "none", archived |-> FALSE]
  <1>1. PICK t \in Tasks \ Created : Save(t, m) /\ origin' = [origin EXCEPT ![t] = r]
    BY DEF ReserveDownloadTask
  <1>2. /\ up /\ ~IsDownloading(r) /\ UNCHANGED <<library, withdrawn, workers>>
    BY DEF ReserveDownloadTask
  <1>3. /\ m \in Mementos /\ m.state = "pending" /\ m.release = r
    BY LimitsAssumption DEF LedgerInv, SafeInv, TypeInv, TypeOK, FlowTypeOK,
       Mementos, States,
       ActiveStates, Paths
  <1> HIDE DEF m
  <1>4. r # None /\ m # None
    BY <1>3, NoneAssumption
  <1>5. /\ origin'[t] = r /\ \A u \in Tasks \ {t} : origin'[u] = origin[u]
        /\ origin[t] = None
    BY <1>1 DEF LedgerInv, SafeInv, TypeInv, TypeOK, FlowTypeOK, Created
  <1>6. /\ Follows /\ store'[t] = Row(m)
        /\ \A u \in Tasks \ {t} : LedgerStatus'[u] = LedgerStatus[u]
    BY <1>1, <1>2, <1>3, <1>5, SaveFollows
  <1>7. LedgerStatus[t] = "new" /\ LedgerStatus'[t] = "accepted"
    BY <1>3, <1>4, <1>5, <1>6, StatusOf DEF Row
  <1>8. LedgerStatus' = [LedgerStatus EXCEPT ![t] = "accepted"]
    BY <1>6, <1>7, StatusChange, {t} \in SUBSET Tasks
  <1>9. LedgerUrl' = [LedgerUrl EXCEPT ![t] = r.url]
    <2>1. \A u \in Tasks : LedgerUrl'[u] = IF u = t THEN r.url ELSE LedgerUrl[u]
      BY <1>4, <1>5, StatusOf
    <2>2. LedgerUrl' = [u \in Tasks |-> LedgerUrl'[u]] /\ LedgerUrl = [u \in Tasks |-> LedgerUrl[u]]
      BY DEF LedgerUrl
    <2> QED
      BY <2>1, <2>2
  <1>10. \A u \in tasks : memento[u].release.url # r.url
    <2> SUFFICES ASSUME NEW u \in tasks, memento[u].release.url = r.url
                 PROVE  FALSE
      OBVIOUS
    <2>1. u \in Known /\ u \in Carried /\ SafeInv
      BY DEF Known, LedgerInv, SafeInv, CarryInv, EachTaskCarriedOnce,
         NoTaskStranded
    <2>2. ~memento[u].archived /\ StateOf(u) \in ActiveStates
      BY <1>2, <2>1, CarriedTask DEF Unsettled
    <2> QED
      BY <1>2, <2>1, <2>2 DEF IsDownloading, ActiveStates
  <1>11. Ledger!Unclaimed(t, r.url)
    BY <1>2, <1>10, NobodyClaims
  <1>12. r.url \in Urls
    BY DEF Releases
  <1>13. Recorded'
    BY <1>2, <1>5, NotifierKept DEF workers
  <1> QED
    BY <1>2, <1>6, <1>7, <1>8, <1>9, <1>11, <1>12, <1>13
    DEF LedgerStep, Ledger!LedgerNext, Ledger!Accept

LEMMA RetryByHandStep ==
    ASSUME LedgerInv, NEW t \in Tasks, RetryByHand(t)
    PROVE  LedgerStep /\ Follows
PROOF
  <1> DEFINE m == [memento[t] EXCEPT !.state = "pending", !.path = "none", !.retries = 0,
                                     !.archived = FALSE]
  <1>1. /\ up /\ Save(t, m) /\ UNCHANGED <<library, origin, withdrawn>>
        /\ t \in Known /\ StateOf(t) = "failed"
    BY DEF RetryByHand
  <1>2. memento[t] \in Mementos /\ memento[t] # None
    BY <1>1, CarriedIsTask, NoneAssumption DEF LedgerInv, SafeInv
  <1>3. m \in Mementos /\ m.state = "pending" /\ m.release = memento[t].release
    BY <1>2, MementoUpdates DEF Mementos
  <1> HIDE DEF m
  <1>4. /\ origin[t] # None /\ origin[t] = memento[t].release /\ store[t] = Row(memento[t])
        /\ m # None
    BY <1>1, <1>2, <1>3, NoneAssumption DEF LedgerInv, SafeInv, RegInv, Born,
       Mirror, SameRelease
  <1>5. /\ Follows /\ store'[t] = Row(m)
        /\ \A u \in Tasks \ {t} : LedgerStatus'[u] = LedgerStatus[u]
    BY <1>1, <1>3, <1>4, SaveFollows
  <1>6. LedgerStatus[t] = "failed" /\ LedgerStatus'[t] = "accepted"
    BY <1>1, <1>2, <1>3, <1>4, <1>5, StatusOf DEF Row, StateOf
  <1>7. LedgerStatus' = [LedgerStatus EXCEPT ![t] = "accepted"]
    BY <1>5, <1>6, StatusChange, {t} \in SUBSET Tasks
  <1>8. \A u \in tasks \ {t} : memento[u].release.url # memento[t].release.url
    <2> SUFFICES ASSUME NEW u \in tasks \ {t}
                 PROVE  memento[u].release.url # memento[t].release.url
      OBVIOUS
    <2>1. u \in Known /\ u \in Carried /\ SafeInv
      BY DEF Known, LedgerInv, SafeInv, CarryInv, EachTaskCarriedOnce,
         NoTaskStranded
    <2>2. StateOf(u) \in ActiveStates
      BY <1>1, <2>1, CarriedTask
    <2> QED
      BY <2>1, <2>2 DEF RetryByHand, ActiveStates, TerminalStates
  <1>9. Ledger!Unclaimed(t, LedgerUrl[t])
    BY <1>1, <1>4, <1>8, NobodyClaims, StatusOf
  <1>10. LedgerUrl' = LedgerUrl
    BY <1>1, UrlKept
  <1> QED
    BY <1>1, <1>5, <1>6, <1>7, <1>9, <1>10 DEF LedgerStep, Ledger!LedgerNext,
       Ledger!Retry

LEMMA ArchiveFailedStep ==
    ASSUME LedgerInv, NEW t \in Tasks, ArchiveFailed(t)
    PROVE  LedgerStep /\ Follows
PROOF
  <1> DEFINE m == [memento[t] EXCEPT !.archived = TRUE]
  <1>1. /\ up /\ Save(t, m) /\ UNCHANGED <<library, origin, withdrawn>>
        /\ t \in Known /\ StateOf(t) = "failed"
    BY DEF ArchiveFailed, ghosts
  <1>2. memento[t] \in Mementos /\ memento[t] # None
    BY <1>1, CarriedIsTask, NoneAssumption DEF LedgerInv, SafeInv
  <1>3. m \in Mementos /\ m.state = "failed" /\ m.release = memento[t].release
    BY <1>1, <1>2, MementoUpdates DEF Mementos, StateOf
  <1> HIDE DEF m
  <1>4. /\ origin[t] # None /\ origin[t] = memento[t].release /\ store[t] = Row(memento[t])
        /\ m # None
    BY <1>1, <1>2, <1>3, NoneAssumption DEF LedgerInv, SafeInv, RegInv, Born,
       Mirror, SameRelease
  <1>5. /\ Follows /\ store'[t] = Row(m)
        /\ \A u \in Tasks \ {t} : LedgerStatus'[u] = LedgerStatus[u]
    BY <1>1, <1>3, <1>4, SaveFollows
  <1>6. LedgerStatus[t] = "failed" /\ LedgerStatus'[t] = "failed"
    BY <1>1, <1>2, <1>3, <1>4, <1>5, StatusOf DEF Row, StateOf
  <1>7. LedgerStatus' = LedgerStatus /\ LedgerUrl' = LedgerUrl
    BY <1>1, <1>5, <1>6, StatusKept, UrlKept
  <1> QED
    BY <1>1, <1>5, <1>7 DEF LedgerStep

LEMMA UpdateMaxRetriesStep ==
    ASSUME LedgerInv, NEW n \in RetryLimits, UpdateMaxRetries(n)
    PROVE  LedgerStep /\ Follows
PROOF
  <1>1. /\ up /\ up' /\ UNCHANGED <<library, origin, withdrawn>>
        /\ memento' = [t \in Tasks |->
              IF t \in tasks THEN [memento[t] EXCEPT !.limit = n] ELSE memento[t]]
        /\ store' = [t \in Tasks |-> IF t \in tasks THEN memento'[t] ELSE store[t]]
    BY DEF UpdateMaxRetries, ghosts
  <1>2. ASSUME NEW t \in Tasks
        PROVE  /\ t \notin tasks => memento'[t] = memento[t] /\ store'[t] = store[t]
               /\ t \in tasks =>
                    /\ memento[t] # None /\ store[t] # None /\ memento'[t] # None
                    /\ memento'[t].release = memento[t].release
                    /\ memento'[t].state = memento[t].state
                    /\ store'[t] = memento'[t] /\ store'[t] = Row(memento'[t])
                    /\ store[t] = memento[t]
    <2>1. CASE t \in tasks
      <3>1. memento[t] \in Mementos /\ StateOf(t) \in ActiveStates
        BY <1>1, <2>1, CarriedIsTask, NoneAssumption DEF LedgerInv, SafeInv, RegInv,
           Registered, Known
      <3> DEFINE m == [memento[t] EXCEPT !.limit = n]
      <3>2. m \in Mementos /\ m.release = memento[t].release /\ m.state = memento[t].state
        BY <3>1, MementoUpdates DEF Mementos
      <3>3. memento'[t] = m /\ store'[t] = m
        BY <1>1, <2>1
      <3> HIDE DEF m
      <3>4. store[t] = Row(memento[t])
        BY <1>1, <3>1, NoneAssumption DEF LedgerInv, Mirror
      <3> QED
        BY <2>1, <3>1, <3>2, <3>3, <3>4, NoneAssumption DEF Row, StateOf,
           ActiveStates
    <2> QED
      BY <1>1, <2>1
  <1>3. \A t \in Tasks : LedgerStatus'[t] = LedgerStatus[t]
    BY <1>1, <1>2, StatusOf
  <1>4. Follows
    BY <1>1, <1>2 DEF LedgerInv, Mirror, SameRelease, Follows
  <1> QED
    BY <1>1, <1>3, <1>4, StatusKept, UrlKept DEF LedgerStep

LEMMA CancelTasksForSourceStep ==
    ASSUME LedgerInv, NEW s \in Sources, CancelTasksForSource(s)
    PROVE  LedgerStep /\ Follows
PROOF
  <1> DEFINE cancelled == Associated(s)
  <1>1. /\ up /\ up' /\ UNCHANGED <<library, origin>> /\ cancelled # {}
        /\ memento' = [t \in Tasks |->
              IF t \in cancelled THEN [memento[t] EXCEPT !.state = "cancelled"] ELSE memento[t]]
        /\ store' = [t \in Tasks |-> IF t \in cancelled THEN None ELSE store[t]]
        /\ withdrawn' = withdrawn \cup cancelled
    BY DEF CancelTasksForSource
  <1>2. \A t \in cancelled : /\ t \in Tasks /\ memento[t] \in Mementos
                             /\ StateOf(t) # "completed" /\ memento[t] # None
    BY CarriedIsTask, NoneAssumption DEF Associated, LedgerInv, SafeInv
  <1> HIDE DEF cancelled
  <1>3. \A t \in Tasks :
          /\ t \in cancelled => /\ store'[t] = None /\ memento'[t].state = "cancelled"
                                /\ memento'[t].release = memento[t].release
                                /\ memento'[t] # None
          /\ t \notin cancelled => store'[t] = store[t] /\ memento'[t] = memento[t]
    <2> SUFFICES ASSUME NEW t \in Tasks
                 PROVE
          /\ t \in cancelled => /\ store'[t] = None /\ memento'[t].state = "cancelled"
                                /\ memento'[t].release = memento[t].release
                                /\ memento'[t] # None
          /\ t \notin cancelled => store'[t] = store[t] /\ memento'[t] = memento[t]
      OBVIOUS
    <2>1. CASE t \in cancelled
      <3> DEFINE m == [memento[t] EXCEPT !.state = "cancelled"]
      <3>1. m \in Mementos /\ m.state = "cancelled" /\ m.release = memento[t].release
        BY <1>2, <2>1, SameAfterUpdate DEF States, TerminalStates
      <3>2. memento'[t] = m /\ store'[t] = None
        BY <1>1, <2>1
      <3> HIDE DEF m
      <3> QED
        BY <2>1, <3>1, <3>2, NoneAssumption
    <2> QED
      BY <1>1, <2>1
  <1>4. \A t \in cancelled : origin[t] # None
    BY <1>2 DEF LedgerInv, SafeInv, RegInv, Born
  <1>5. \A t \in cancelled : LedgerStatus[t] \in {"accepted", "failed"} \/ t \in withdrawn
    <2> SUFFICES ASSUME NEW t \in cancelled, t \notin withdrawn
                 PROVE  LedgerStatus[t] \in {"accepted", "failed"}
      OBVIOUS
    <2>1. StateOf(t) # "cancelled" /\ store[t] = Row(memento[t])
      BY <1>1, <1>2 DEF LedgerInv, SafeInv, RegInv, CancelledOnce, Mirror
    <2> QED
      BY <1>2, <1>4, <2>1, StatusOf DEF Row, StateOf
  <1>6. LedgerStatus' = [t \in Tasks |-> IF t \in cancelled THEN "over" ELSE LedgerStatus[t]]
    <2>1. /\ \A t \in cancelled : LedgerStatus'[t] = "over"
          /\ \A t \in Tasks \ cancelled : LedgerStatus'[t] = LedgerStatus[t]
      BY <1>1, <1>2, <1>3, <1>4, StatusOf
    <2> QED
      BY <1>2, <2>1, StatusChange, cancelled \in SUBSET Tasks
  <1>7. Follows
    <2>1. Mirror'
      BY <1>1, <1>2, <1>3 DEF LedgerInv, Mirror, Row
    <2>2. SameRelease'
      BY <1>1, <1>2, <1>3 DEF LedgerInv, SameRelease
    <2> QED
      BY <2>1, <2>2 DEF Follows
  <1>8. LedgerUrl' = LedgerUrl
    BY <1>1, UrlKept
  <1>9. cancelled \in SUBSET Tasks
    BY <1>2
  <1> QED
    BY <1>1, <1>5, <1>6, <1>7, <1>8, <1>9 DEF LedgerStep, Ledger!LedgerNext,
       Ledger!Withdraw

LEMMA CrashStep ==
    ASSUME LedgerInv, Crash
    PROVE  LedgerStep /\ Follows
PROOF
  <1>1. /\ UNCHANGED <<store, library, origin, withdrawn>> /\ ~up'
        /\ \A t \in Tasks : memento'[t] = None
    BY DEF Crash, ghosts
  <1>2. LedgerStatus' = LedgerStatus /\ LedgerUrl' = LedgerUrl
    BY <1>1 DEF LedgerStatus, LedgerUrl
  <1> QED
    BY <1>1, <1>2 DEF LedgerInv, Mirror, SameRelease, Follows, LedgerStep

(* A restart fails the tasks it cannot resume and changes no other.        *)
LEMMA StartStep ==
    ASSUME LedgerInv, Start
    PROVE  LedgerStep /\ Follows
PROOF
  <1>1. PICK n \in RetryLimits : Restore(n)
    BY DEF Start
  <1> DEFINE loaded == [t \in Tasks |->
                IF t \in StoredActive THEN [store[t] EXCEPT !.limit = n] ELSE store[t]]
             lost == {t \in StoredActive : Unrestorable(loaded[t])}
  <1>2. /\ memento' = [t \in Tasks |->
               IF t \in lost THEN [loaded[t] EXCEPT !.state = "failed"] ELSE loaded[t]]
        /\ store' = memento' /\ up'
        /\ UNCHANGED <<library, origin, withdrawn>>
    BY <1>1 DEF Restore, Start, ghosts
  <1>3. \A t \in Tasks : store[t] \in Mementos \cup {None}
    BY DEF LedgerInv, SafeInv, TypeInv, TypeOK, RegistryTypeOK
  <1>4. lost \subseteq StoredActive /\ StoredActive \subseteq Tasks
    BY DEF StoredActive, Stored
  <1>5. ASSUME NEW t \in Tasks
        PROVE  /\ memento'[t] = None <=> store[t] = None
               /\ store[t] # None =>
                     /\ memento'[t].release = store[t].release
                     /\ memento'[t].state = IF t \in lost THEN "failed" ELSE store[t].state
    <2>1. CASE store[t] = None
      <3>1. t \notin StoredActive
        BY <2>1 DEF StoredActive, Stored
      <3> QED
        BY <1>2, <1>4, <2>1, <3>1
    <2>2. CASE store[t] # None
      <3>1. store[t] \in Mementos
        BY <1>3, <2>2
      <3>2. /\ loaded[t] \in Mementos /\ loaded[t].release = store[t].release
            /\ loaded[t].state = store[t].state
        BY <3>1, MementoUpdates DEF Mementos
      <3>3. memento'[t] = IF t \in lost THEN [loaded[t] EXCEPT !.state = "failed"] ELSE loaded[t]
        BY <1>2
      <3> DEFINE old == loaded[t]
                 m == [old EXCEPT !.state = "failed"]
      <3> HIDE DEF old
      <3>4. m \in Mementos /\ m.state = "failed" /\ m.release = old.release
        BY <3>2, SameAfterUpdate DEF old, States, TerminalStates
      <3> HIDE DEF m, loaded, lost
      <3> QED
        BY <2>2, <3>2, <3>3, <3>4, NoneAssumption DEF old, m
    <2> QED
      BY <2>1, <2>2
  <1>6. \A t \in StoredActive : store[t] # None /\ store[t].state \in ActiveStates
    BY DEF StoredActive, Stored
  <1> HIDE DEF loaded, lost
  <1>7. \A t \in Tasks : store[t] # None => origin[t] # None /\ store[t].release = origin[t]
    BY DEF LedgerInv, SafeInv, RegInv, Born, SameRelease
  <1>8. \A t \in Tasks : store[t] # None => store[t].state \notin {"completed", "cancelled"}
    BY DEF LedgerInv, SafeInv, RegInv, Rows
  <1>9. Follows
    <2>1. SameRelease'
      BY <1>2, <1>5, <1>7 DEF SameRelease
    <2>2. Mirror'
      BY <1>2, <1>5, <1>8 DEF Mirror, Row
    <2> QED
      BY <2>1, <2>2 DEF Follows
  <1>10. /\ \A t \in lost : LedgerStatus[t] = "accepted" /\ LedgerStatus'[t] = "failed"
         /\ \A t \in Tasks \ lost : LedgerStatus'[t] = LedgerStatus[t]
    <2>1. \A t \in lost : t \in Tasks /\ store[t] # None /\ store[t].state \in ActiveStates
      BY <1>4, <1>6
    <2> QED
      BY <1>2, <1>5, <1>7, <2>1, StatusOf DEF ActiveStates
  <1>11. LedgerUrl' = LedgerUrl /\ lost \in SUBSET Tasks
    BY <1>2, <1>4, UrlKept
  <1>12. LedgerStatus' = [t \in Tasks |-> IF t \in lost THEN "failed" ELSE LedgerStatus[t]]
    BY <1>10, <1>11, StatusChange
  <1>13. CASE lost = {}
    BY <1>2, <1>9, <1>10, <1>11, <1>13, StatusKept DEF LedgerStep
  <1>14. CASE lost # {}
    BY <1>2, <1>9, <1>10, <1>11, <1>12, <1>14 DEF LedgerStep, Ledger!LedgerNext,
       Ledger!Fail
  <1> QED
    BY <1>13, <1>14

LEMMA LedgerNextStep ==
    ASSUME LedgerInv, [Next]_vars
    PROVE  LedgerStep /\ LedgerInv'
PROOF
  <1>1. SafeInv'
    BY SafeStep DEF LedgerInv
  <1> SUFFICES LedgerStep /\ Follows /\ Recorded'
    BY <1>1 DEF LedgerInv, Follows
  <1>2. Renamer # Notifier /\ \A w \in DownloadWorkers : w # Notifier
    BY WorkersAssumption
  <1>3. /\ Notifier \in Workers /\ job \in [Workers -> Tasks \cup {None}] /\ phase \in [Workers -> Phases]
    BY WorkersAreWorkers DEF LedgerInv, SafeInv, TypeInv, TypeOK, FlowTypeOK
  <1>4. CASE Intake
    <2>1. ASSUME NEW r \in Releases, Vet(r) \/ Discard(r)
          PROVE  LedgerStep /\ Follows /\ Recorded'
      <3>1. UNCHANGED <<memento, store, up, origin, withdrawn, library, job, phase>>
        BY <2>1 DEF Vet, Discard, registry, ghosts, workers
      <3> QED
        BY <3>1, LedgerQuiet, NotifierKept
    <2>2. CASE EnqueueReserved
      <3>1. UNCHANGED <<memento, store, up, origin, withdrawn, library, job, phase>>
        BY <2>2 DEF EnqueueReserved, registry, ghosts, workers
      <3> QED
        BY <3>1, LedgerQuiet, NotifierKept
    <2> QED
      BY <1>4, <2>1, <2>2, ReserveStep DEF Intake
  <1>5. ASSUME NEW w \in DownloadWorkers, Download(w)
        PROVE  LedgerStep /\ Follows /\ Recorded'
    <2>1. /\ UNCHANGED <<origin, library>> /\ phase'[Notifier] = phase[Notifier]
          /\ job'[Notifier] = job[Notifier]
      BY <1>2, <1>3, <1>5
      DEF Download, SkipDownload, StartDownload, CheckpointDownload, IgnoreDownload, FinishDownload,
          HandToRename, RetryDownload, FailDownload, Hold, Release, workers, ghosts
    <2>2. Recorded'
      BY <2>1, NotifierKept
    <2>3. CASE SkipDownload(w) \/ IgnoreDownload(w) \/ HandToRename(w)
      <3>1. UNCHANGED <<memento, store, up, origin, withdrawn, library>>
        BY <2>3 DEF SkipDownload, IgnoreDownload, HandToRename, registry, ghosts
      <3> QED
        BY <2>2, <3>1, LedgerQuiet
    <2> QED
      BY <1>5, <2>2, <2>3, DownloadSaves DEF Download
  <1>6. CASE Rename
    <2>1. /\ UNCHANGED <<origin, library>> /\ phase'[Notifier] = phase[Notifier]
          /\ job'[Notifier] = job[Notifier]
      BY <1>2, <1>3, <1>6
      DEF Rename, SkipRename, StartRename, FinishRename, HandToNotification, FailRename, MarkFailed,
          Hold, Release, workers, ghosts
    <2>2. Recorded'
      BY <2>1, NotifierKept
    <2>3. CASE SkipRename \/ HandToNotification
      <3>1. UNCHANGED <<memento, store, up, origin, withdrawn, library>>
        BY <2>3 DEF SkipRename, HandToNotification, registry, ghosts
      <3> QED
        BY <2>2, <3>1, LedgerQuiet
    <2> QED
      BY <1>6, <2>2, <2>3, RenameSaves, StageFailures DEF Rename
  <1>7. CASE Notify
    <2>1. CASE SkipNotification
      <3>1. UNCHANGED <<memento, store, up, origin, withdrawn, library, job, phase>>
        BY <2>1 DEF SkipNotification, registry, ghosts, workers
      <3> QED
        BY <3>1, LedgerQuiet, NotifierKept
    <2>2. CASE StartNotification \/ CompleteTask \/ FailNotification
      <3>1. UNCHANGED <<origin, library>> /\ phase'[Notifier] # "notifying"
        BY <1>3, <2>2
        DEF StartNotification, CompleteTask, FailNotification, MarkFailed, Hold, Release, ghosts
      <3> QED
        BY <2>2, <3>1, NotificationSaves, StageFailures DEF Recorded
    <2>3. CASE AddRelease
      <3>1. up /\ phase[Notifier] = "recording"
        BY <2>3 DEF AddRelease
      <3>2. origin[job[Notifier]] = memento[job[Notifier]].release
        BY <1>3, <3>1, HeldTask
      <3>3. Recorded'
        BY <1>3, <2>3, <3>2 DEF AddRelease, Hold, ghosts, Recorded
      <3> QED
        BY <2>3, <3>3, AddReleaseStep
    <2> QED
      BY <1>7, <2>1, <2>2, <2>3 DEF Notify
  <1>8. CASE Administer
    <2>1. UNCHANGED <<origin, library, job, phase>>
      BY <1>8
      DEF Administer, CancelTasksForSource, RetryByHand, ArchiveFailed, UpdateMaxRetries, ghosts, workers
    <2>2. Recorded'
      BY <2>1, NotifierKept
    <2> QED
      BY <1>8, <2>2, CancelTasksForSourceStep, RetryByHandStep, ArchiveFailedStep,
         UpdateMaxRetriesStep DEF Administer
  <1>9. CASE Crash
    <2>1. Recorded'
      BY <1>3, <1>9 DEF Crash, Recorded
    <2> QED
      BY <1>9, <2>1, CrashStep
  <1>10. CASE Start
    <2>1. UNCHANGED <<origin, library, job, phase>>
      BY <1>10 DEF Start, ghosts, workers
    <2> QED
      BY <1>10, <2>1, NotifierKept, StartStep
  <1>11. CASE UNCHANGED vars
    <2>1. UNCHANGED <<memento, store, up, origin, withdrawn, library, job, phase>>
      BY <1>11 DEF vars, registry, ghosts, workers
    <2> QED
      BY <2>1, LedgerQuiet, NotifierKept
  <1> QED
    BY <1>4, <1>5, <1>6, <1>7, <1>8, <1>9, <1>10, <1>11 DEF Next

LEMMA InitLedger == Init => LedgerInv /\ Ledger!LedgerInit
PROOF
  <1> SUFFICES ASSUME Init
               PROVE  LedgerInv /\ Ledger!LedgerInit
    OBVIOUS
  <1>1. \A t \in Tasks : origin[t] = None /\ store[t] = None /\ memento[t] = None
    BY DEF Init
  <1>2. LedgerStatus = [t \in Tasks |-> "new"] /\ LedgerUrl = [t \in Tasks |-> None]
    BY <1>1 DEF LedgerStatus, LedgerUrl
  <1>3. phase[Notifier] = "idle"
    BY WorkersAreWorkers DEF Init
  <1>4. withdrawn = {} /\ library = {} /\ ~up
    BY DEF Init
  <1> QED
    BY <1>1, <1>2, <1>3, <1>4, InitSafe
    DEF LedgerInv, Mirror, SameRelease, Recorded, Ledger!LedgerInit

(* Seen through its rows and its library the pipeline is a ledger: a task  *)
(* is accepted while nobody else has its URL, it ends only by failing, by  *)
(* being recorded or by being withdrawn, and neither crashes nor restarts  *)
(* nor the order in which stages and handlers save change that.            *)
THEOREM LedgerImplemented == Spec => ImplementsLedger
PROOF
  <1>1. Init => LedgerInv /\ Ledger!LedgerInit
    BY InitLedger
  <1>2. LedgerInv /\ [Next]_vars => LedgerInv' /\ [Ledger!LedgerNext]_(Ledger!ledgerVars)
    BY LedgerNextStep DEF LedgerStep, Ledger!ledgerVars
  <1> QED
    BY <1>1, <1>2, PTL DEF Spec, ImplementsLedger, Ledger!LedgerSpec
=============================================================================
