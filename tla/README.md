# Verification of op-ani

TLA+ models of op-ani, the program that turns RSS entries into a tidy anime library on an
OpenList server, with the TLC runs that check them and the TLAPS proofs about them.

## 1. The system

op-ani takes a release (an RSS entry or a URL posted over HTTP), finds out what it is, asks an
OpenList server to download it, renames the file, enters it in a library database and
notifies somebody. Two programs in the repository do this: the Python package
`src/openlist_ani`, one asyncio process, and the Rust service `rust/`, which replaced it in
production in October 2026 and keeps the Python database files.

| Component | State it keeps | Operations | Interacts with | What makes it correct |
|---|---|---|---|---|
| Ingestion pipeline, task coordinator (`application/anime_library_ingestion/{pipeline,stage,stages,task_coordinator}.py`) | active tasks, bounded terminal history, retry limit, three buffers, worker tasks | reserve, start/finish/retry/fail a download, rename, notify, cancel, manual retry, archive, restore | memento store on every save; downloader, renamer, library, notifier as awaited calls | one task per URL, no task stranded or worked on twice, a cancelled task stays away, every task settles |
| Memento store (`adapters/outbound/persistence/sqlite_task_memento_store.py`) | one row per unfinished or failed task | save, delete, load_all | coordinator only | the rows are what a restart needs |
| Application service and HTTP (`application_service.py`, `adapters/inbound/http`) | subscriptions in the configuration | create, retry, archive, pause/remove a subscription, settings | pipeline, coordinator, library | a request sees and changes a consistent registry |
| Library repository | one row per recorded release | add_release, lookups | last stage, RSS filter, priority filter | an entry for every completed task |
| RSS scanning (`RSSStage`, `feed_sources`) | scan lock, interval event, metadata cache | periodic and immediate scans | library, filters, reservation | at most one scan, changes take effect |
| OpenList workflow and snapshot cache (`downloaders/openlist`) | workflow state, remote task id and file names in the memento | submit, poll, detect, resolve, move, clean up | OpenList over HTTP, checkpoint callback | resume at the checkpoint, no repeated effects |
| File renamer, conflict resolver | none | rename, find a free name | OpenList | never overwrites, survives a crash |
| Notifications | a queue per bot | queue, batch, retry, stop | bots | every item is sent, preferably once |
| Release filters | none | priority, strict, regex, metadata | library, active tasks | the documented choice among releases |
| Rust download service (`download_service.rs`, `storage.rs`, `task_controls.rs`, `http.rs`) | memento rows, submission operations, set of active workers | submit, run a worker, retry, archive, recover | OpenList, both databases | a URL is never submitted twice by accident, a submitted task has a worker |
| Event manager, TTL cache (`outbound/events`, `utils/cache.py`) | handler tasks, event history; cached reads | publish, stop; read, expire, clear | stages; the Bangumi client | nothing runs after stop; stale values go away |
| Title parser (`metadata_parser/regex`) | none | read group, name, season, episode out of a title | scans | a title is read as what it says |
| Metadata validator | cache of one batch | find the show, map season and episode | TMDB, parsers | a release gets the number it has in TMDB |
| Settings (`configuration/settings.py`, `validator.py`, the settings request of `router.py`) | the TOML file, its copy in memory, what pipeline and client work with | load, check, change, save, restart | OpenList, which the request asks; every component at its start | what was asked for is in memory, at work and in the file |
| Rust materialization and waits (`download_workflow.rs`, `download_service.rs`) | plan and checkpoint in the memento | poll, detect, rename, move, clean up | OpenList | each task reports its own file, none is lost, a wait ends |
| Rust RSS scan, configuration store | scan lock; the TOML file | scan; edit | OpenList; databases | no lost edit, what was added is scanned |
| Assistant loop and frontends (`assistant/core`, `assistant/frontend`) | conversation, queues of messages, tokens, timers | turns, tools, interruption, compaction, clear, resume | LLM providers, messengers, terminal | no message lost, a history the provider accepts |
| Assistant tools, skills, memory, sessions | batches; skill caches; memory files; transcripts | run calls; install, include, page; edit; record, resume | file system shared by chats and processes | writes alone; whole caches and texts; nothing saved is lost |
| Dream lock | a lock file with a process id and a time | check, write, read back, end | other processes | one consolidation at a time |
| Start and shutdown (`bootstrap/backend.py`, `assistant/__init__.py`) | open parts | open, serve, close | all of them | nothing is used after it was closed |
| Everything else | | parsing, I/O, user interface, deployment | | not modelled |

`PROJECT.json` lists every component with its files and status, and every hazard we know of
with the line where it bites.

What is hard here is not any single function. It is that tasks, HTTP handlers and scans share
mutable objects across `await`s; that a task outlives processes, so what a row says must be
enough to go on; that OpenList can fail, answer late, or do what it was asked without saying
so; and that a cancellation, a retry or a new limit can arrive at any of these moments.

## 2. Modules

| Module | Models | Extends / instantiates |
|---|---|---|
| `IngestionPipeline` | the Python pipeline, coordinator, store and the handlers that touch tasks | instantiates `DownloadLedger` |
| `DownloadLedger` | abstract specification: what a user may rely on across crashes | |
| `OpenListWorkflow` | one Python download against OpenList: workflow, retries, snapshot cache, conflicts, rename | |
| `Subscriptions` | the subscription list, its copy in the feed reader, the scans that read it | |
| `ReleaseFilters` | priority and strict filters over the releases of one episode | |
| `TitleParser` | the regex engine that reads titles | |
| `MetadataValidation` | the choice of the show and the mapping of seasons and episodes | |
| `Settings` | the settings of the Python backend: dialog, file, starts | |
| `Notifications` | batched notifications | |
| `EventManager`, `TtlCache` | event handlers and stop; one cached key | |
| `DownloadService` | the Rust service's downloads: journal, workers, retry, archive, scans, recovery | instantiates `UrlClaims` |
| `UrlClaims` | abstract specification: who may ask OpenList for a URL, and when | |
| `RemoteWaits` | what a Rust worker polls between its checkpoints | |
| `Materialization` | rename, move and clean-up of Rust tasks that want one file name | |
| `ConfigStore` | the TOML file of the Rust program, its editors and the scans they schedule | |
| `Conversation` | one chat: frontend, queue, loop, tools, compaction | |
| `Terminal` | the terminal frontend: message pump, keys, timers, turns | |
| `ToolBatches` | the tool calls of one answer, of the loop or a sub-agent | |
| `Sessions` | transcripts, their chains, resume and clear | |
| `AssistantMemory` | memory files edited by several chats | |
| `SkillCache`, `SkillCatalog` | installing bundled skills; includes and paged output | |
| `Messengers` | delivery of Feishu and WeChat messages | |
| `DreamLock` | the lock file of the memory consolidation | |
| `Lifecycle` | start and shutdown of the two Python processes | |
| `MC...` | definitions for TLC's instances | see below |
| `IngestionPipelineProofs` | TLAPS proofs about the pipeline: its types, its safety and the ledger | `IngestionPipeline` |
| `DownloadServiceProofs` | TLAPS proofs about the Rust service: types, claims, rows, workers | `DownloadService` |
| `OpenListWorkflowProofs`, `MaterializationProofs` | TLAPS proofs | the module they are about |
| `ReleasesProofs` | TLAPS proofs about scans, filters, the mapping of episodes and settings | `Subscriptions`, `ReleaseFilters`, `MetadataValidation`, `Settings`, `DataLemmas` |
| `ServicesProofs` | TLAPS proofs about the small components of both backends | `ConfigStore`, `Notifications`, `EventManager`, `TtlCache`, `DreamLock`, `Lifecycle` |
| `AssistantProofs` | TLAPS proofs about the assistant | `Conversation`, `Terminal`, `Messengers`, `AssistantMemory`, `SkillCache`, `SkillCatalog`, `ToolBatches`, `Sessions`, `DataLemmas` |
| `DataLemmas` | TLAPS lemmas about numbers and sequences that several proofs use | |

`MCServices`, `MCReleases`, `MCAssistant` and `MCFiles` put components side by side that do not share state: a
variable `part` chooses one of them in the initial state, that one takes all the steps, and the others
stay as they were born. The state space is the sum of the parts, and each property is about
the variables of one part. (A skill's includes and the calls of its tool, which do not look at
them, count as two parts. `MCFiles` has the two kinds of files that must outlive a process, the videos of `Materialization` and the transcripts of `Sessions`.) Where modules do interact, one module has both sides: the
retry loop with the workflow it retries, the handlers with the store and the scans, the frontend
with the loop.

### IngestionPipeline

A step is what a coroutine does between two awaits; awaits during which no other coroutine
can interfere are merged. (`EventManager.publish` does not suspend when nobody contends for
it; its awaits are kept as scheduling points, which only adds interleavings.)

| Variable | Code |
|---|---|
| `memento` | the `TaskMemento` objects; shared by registry, stages and handlers, so there is one per task |
| `tasks`, `history`, `maxRetries` | `TaskCoordinator._tasks`, `_terminal_history`, `_max_retries` |
| `store` | rows of `task_mementos`; completed and cancelled tasks have none |
| `library` | titles in the library database; a title stands for its URL |
| `vetted` | releases an RSS scan or HTTP handler has looked up and not yet reserved |
| `reserving` | the task whose creator publishes the event while it holds the reservation lock |
| `downloadBuffer`, ... | the `PipelineBuffer` of each stage |
| `job`, `phase` | the item each stage worker holds and the await it is in |
| `origin`, `withdrawn`, `attempts` | history variables: original release, tasks ever cancelled, downloads begun |
| `up`, `crashes` | whether the process runs; crashes so far |

`Save` is `TaskCoordinator.save`: object, row, active set and history change together, since
the store is written synchronously. Each action is one segment of a handler; `PROJECT.json`
gives its lines. `Crash` is also what `stop()` does: it cancels the workers and leaves rows as
they are. `Start` is `load_all`, `update_max_retries` and `restore`, which run before any
worker or request; it may come with another configured limit.

Abstractions: paths are one of *none*, *downloaded*, *renamed*; the downloader, the renamer and
the notifier are calls that end, in success or failure, at any time, and the downloader's may never end; rows are restored in
any order (`updated_at` has a resolution of one second); metadata and filters may drop any
candidate (`Discard`).

### DownloadLedger

No process, no queue, no restart: a task is new, accepted, failed or over. It is accepted only
when no other accepted task that was never withdrawn has its URL, and it is over only when
its release is in the library or it was withdrawn. `Revive` is in the ledger because
withdrawn tasks do come back in the code (see the findings).

### DownloadService

Handlers and workers of the Rust service run on several threads and meet in the database and
in the set of active workers. A step is one database transaction, or one answer of OpenList,
with the code that follows it up to the next await.

| Variable | Code |
|---|---|
| `memento`, `operation` | the two rows of a task: `task_mementos`, which users see, and `rust_download_operations`, the journal of what OpenList was asked; `None` where there is no row |
| `library` | URLs in `resources` |
| `worker` | membership in `download_workers` (`http.rs`) and how far the spawned worker is |
| `mode`, `recovered` | `down`; `recovering`, from `LegacyTaskMementoStore::open` to `recover_download_workers`; `serving`; the tasks `recover_submitted_tasks` has saved |
| `submit`, `by` | how far `submit_download_with_overrides` is for a task, and whether `create_download`, a scan or the retry of another task called it |
| `resumed`, `resubmits` | retry handlers between the transaction of `retry_failed_task` and what they do with its answer |
| `scan`, `candidates`, `scanned` | the one scan the lock admits: the entries left to submit and the tasks whose workers it starts at its end |
| `requests`, `remote` | calls on their way to OpenList, and its offline downloads, which it may forget before they were seen to end (`forgotten`), and whose directory may be gone before that was saved (`cleaned`); they survive the process |
| `urlOf` | the release of each task ever created |
| `outcome`, `neglected`, `crashes`, `abandons` | history: what the process learnt of the call; tasks nobody will work on before the next start; the counters the bounds limit |

A call may be carried out after its caller gave up (`RemoteCreate` after `Unanswered` or
`Crash`), answered late, refused, or lost. A step may be the last one before a `Crash`, which
also stands for a shutdown: `main` does not wait for the workers. `Abandon` and `AbandonScan`
are what the HTTP server does when a client closes its connection: it drops the handler at the
await it is in, and with it the submission or the pending start of a worker.

`neglected` marks two things the code does: a dropped handler, and a retry that finds the old
worker of its task still in the active set (see the findings). The invariants are about
the other tasks; the next start takes neglected tasks over again (`Serve` clears the mark).
Of the marked ones `ImplementsClaims` still holds, which has no exception, and so do the types (`TypeCorrect`).

Abstractions: the title and episode of a release stand for its URL, so the index on URLs and
the one on episodes are one; storage errors end in the same handlers as a crash and are left
out; rename and move are the two checkpoints the worker stores, their effects on files
belong to `Materialization` and what it polls to `RemoteWaits`; rows written by the Python program and the flags that
turn the background service off are not modelled.

### UrlClaims

A task takes a free URL, calls OpenList once, learns or never learns the outcome, and gives
the URL up only when the outcome is known. A task OpenList accepted may take its URL again
(a resumed download). The refinement maps `holder[u]` to the task whose operation is in one
of the reserving states, and is the identity on `outcome`.

### OpenListWorkflow

One task, from its first attempt to its final name, and everything it shares: OpenList's offline
downloads and transfers, the temporary and the target directory, the cached list of ended
downloads. A request that changes something is one step, its answer the next; a failure or
`Crash` between the two loses the answer.

| Variable | Code |
|---|---|
| `status`, `saved`, `path`, `retries` | the memento: state, downloader payload at the last checkpoint, `output_path`, `retry_count` |
| `task`, `phase`, `misses` | the payload the running attempt works on, the request it awaits, the polls without a transfer |
| `download`, `transfer` | OpenList's lists |
| `temp`, `mine`, `keeps` | names in the temporary directory, the task's files in the target directory, whether the final name is the file's own |
| `cached`, `fetching`, `generation` | `OpenListTaskSnapshotCache` for the list of ended downloads |
| `givenUp`, `crashes` | history: a download or transfer was given up; crashes |

The other tasks appear as listings that show any names as taken (`Listings`) and as requests for the
shared list (`Fetch`), followed as long as the task still looks at it (`LookedEnough`). `saved` survives a crash, `task` does not; after a remote failure
`CleanUp` and `Unbind` are two steps, so a crash can come between them.

### Subscriptions

`subs` is the list of `ConfigManager`, `reader` the copy in `ReleaseFeedReader`, which every edit
brings up to date (`Synced`); `scan` is the scan that holds the lock, `waiting` the scans that wait for it,
`tasks` the tasks they reserved. Edits (add, save, pause, correct, remove, exclude everywhere) come
between any two awaits of a scan. A feed lists fixed releases; a rule either excludes the unwanted
ones or not.

### ReleaseFilters and MetadataValidation

`ReleaseFilters` puts a batch of releases of one episode through refusal, `PriorityFilter` and
`StrictRenameFilter`, reading rows first and active tasks later, while other tasks end, fail and
enter the library. A release is its group's and quality's rank, its version and the season its
subscription writes into names. `MetadataValidation` takes the show TMDB has for a name, out of
candidates with scores, and maps each release by the strategies in their order, with a cache
per batch and seasons whose lists cannot be had. Releases are generated from an episode and a numbering
scheme, so the property can say what the right answer is.

### TitleParser

A title is a sequence of words, a word being what one of the engine's patterns finds ("S", "nki",
"digits" and so on) with the number in it. `Title` writes a release the way groups do: a signature, a
naming with its aliases and labels, a season form, an episode form. `ParseTitle` is the engine: its
patterns in their order, on what the earlier ones have left. The run reads every title that can be
written with the forms and numbers of its configuration. That the words stand for the patterns was
made sure outside TLC, by rendering every title of the run as text and comparing the engine's answer with the
model's.

### Settings

| Variable | Code |
|---|---|
| `file`, `memory` | `config.toml`, which a cut off save leaves `Torn`; the models `ConfigManager` keeps |
| `live` | the settings the running pipeline and the OpenList client work with (`update_runtime_...`) |
| `request` | how far each settings request is, what it asks for, and the settings it has read |
| `backend` | down, refused by `ConfigValidator`, or serving |
| `askedFor`, `doubtful`, `unsaved` | history: what was last asked for; settings asked for while another request was about to write them; the last save failed |

A request reads the settings, asks OpenList about a new address and then about a new directory, and
writes in one go (`WriteThrough`): what it was asked for, and of every group it touches the rest as it has
read it. The saves of the groups follow each other without an await, but the process can be killed between
them (`KillWhileSaving`), and a save that fails is only logged (`SaveAll`). `Kill` is also what `/restart` does.
A start reads the file, chooses a parser if none is chosen, removes the placeholder feed, and refuses
what it cannot work with, until somebody mends the file (`WriteByHand`). OpenList refusing the start and the proxy
variables are left out.

### Notifications, EventManager, TtlCache, DreamLock

`Notifications`: titles wait for the manager's lock (`announcing`), join every bot's queue
(`batch`) and are sent by a pass (`sending`) that holds the lock over all attempts of all bots; an
attempt may arrive and its answer be lost. `EventManager`: tasks per handler and event, and a stop that
cancels and waits. `TtlCache`: readers and updaters of one key, fetches that overlap changes.
`DreamLock`: check, write and read back of the file by runs of two processes, a clock, the stale
age, the end of a run that consolidates, fails, is cancelled or dies.

### RemoteWaits and Materialization

The two detail what `DownloadService` sees as `Advance`: what a worker does from one checkpoint to
the next. They share with it the row of a task (`stage`, `row`), which is all a worker leaves behind, and
are not composed with it: no other task and no handler touches a running task's checkpoint.
`RemoteWaits` reads two lists one after the other while the downloads move from one to the other;
OpenList may forget, restart or fail them. `Materialization` has three tasks that plan the same name;
listings of either directory lag behind (`listed`, `shown`), and `Interrupt` is a crash or a call
whose answer is lost.

### ConfigStore

`editor` holds the file each request read; `Write` compares revisions, edits and replaces the
file in one step, since writers hold a lock and the replacement is a rename. `scanWaiting` and
`rssScan` are the scans an edit schedules and the one that runs.

### The assistant

`Conversation` has one chat's handler, its queue and its loop: rounds of provider calls, tool calls
that are interrupted when a message arrives, compaction, truncation, cut replies and broken
turns. `Terminal` has the message pump of the terminal frontend, whose lines, keys, timers and
ends of turns are messages in one mailbox, and the turns as tasks that queue for the loop's
lock. `ToolBatches` has the calls of an answer in batches, and one call that is a sub-agent with answers,
calls and rounds of its own (`MaxAgentRounds`); `AssistantMemory` the operations of two chats on the
memory files, each a read and a write in a thread; `SkillCache` the steps of several processes that
install, swap and remove caches; `SkillCatalog` the depth first resolution of includes and the pages
of an output; `Messengers` the delivery of messages by two platforms. `Lifecycle` has the two processes'
parts in the order in which they are opened and closed, with what uses what. A part of `DreamLock`'s
check is coarser than the code: age and content of the lock file are read in one step.
`ConfigStore` has the edits of subscriptions; those of exclusions and metadata go the same way through
revision and lock. `Messengers` has events with an id only.

`Sessions` has the files of lines with parents, everything that changes the current session, and the loop's
memory, which is more than the files have:

| Variable | Code |
|---|---|
| `files`, `session`, `last` | the JSONL files, `_session_id`, `_last_uuid` |
| `starting` | how far the frontend is with setting up or renewing the session |
| `talking`, `writing` | the turn, and the entry its record is writing in a thread |
| `recalled`, `unrecorded` | the messages in memory that were recorded; whether there are others, `more` (messages taken in during a turn, tool calls and results, cut replies, notes and summaries of the loop), and whether recorded messages were taken out, `dropped` |
| `said`, `muddled`, `torn` | history: the messages whose line was written whole; sessions that changed while a message was recorded, or whose record was cut off; sessions with a torn line |

A turn records two messages, the one it was started for (`RecordQuestion`) and the text it answers with
(`RecordAnswer`). Between them it remembers what arrives, what it calls and what it is told (`Remember`), and takes out of the memory
(`Compact`, `DropOldest`), all without the file; a turn that is interrupted or fails records no answer
(`EndUnanswered`). A turn that is cancelled in a record leaves its thread, which writes later without `_last_uuid`
following (`CutTurn`, `WriteLate`). Abstraction: the next turn records nothing until such a late
line is written.

## 3. Runs

| Run | Question | Result |
|---|---|---|
| `ingestion_safety` | do registry, buffers, workers and store agree through every interleaving, and does the pipeline implement the ledger? | holds |
| `ingestion_live` | do two tasks that share every worker both settle, across a crash, unless a call of the downloader does not end? | holds |
| `ingestion_cancelled` | does a cancelled task stay cancelled? | violated: rename and notification revive it |
| `workflow` | does a download keep its binding and its file, does a stale list never decide about it, does nothing hold its worker for ever but a download OpenList runs? | holds |
| `releases` | do scans follow the rules the list has, are saved feeds read, do the filters choose well, are titles read as what they say and episodes mapped to what they are, are settings kept? | holds |
| `services` | are edits, titles and cached values kept, do stops and closes leave nothing at work, does a wait end, are consolidations apart? | holds |
| `service_safety` | do the rows of a task agree, has every accepted task somebody to work on it, does the journal implement the claims? | holds |
| `service_live` | does a running download end, across two crashes and a dropped request, but for the waits `StuckAtOpenList` names? | holds |
| `service_resumed` | is a resumed task worked on? | violated: its old worker may still be leaving |
| `files` | does each task report its own video, and is none lost? is what is read back of a session what was recorded, and does the loop remember it? | holds |
| `materialization_stuck` | does an interrupted worker come to an end? | violated between clean-up and checkpoint |
| `assistant` | are messages taken, histories accepted, memory and caches kept, writes alone? | holds |

What each property says is in the comment above it; the most telling ones:

* `EachTaskCarriedOnce`, `StoreFollowsRegistry`, `OneActiveTaskPerUrl`, `ImplementsLedger`: the pipeline's
  shared objects, buffers and rows.
* `SnapshotKnowsTask`: the generations of the cache do their work. `BindingKept`: a task that knows its
  download never submits again without a clean-up. `FileKept`: no order of crash, retry and lost answer
  loses a file that arrived. `WorkerFreed`: the watchdog and
  the counts end every wait but the one for a download that OpenList lists as running.
* `EveryTaskSettles`, `EveryDownloadEnds`: OpenList may leave a download or a transfer running for ever, and both say where a
  task is that stays active for ever, and that there is no other such place.
* `TakenByTheRules`, `SavedIsRead`: edits and scans overtake each other and no rule is missed.
* `WellChosen`: nothing worse than what is there, unless as a newer version of its group's; one file
  per name and version, with the exceptions its comment names.
* `TitleRead`: in whatever way name, season and episode are written, the overlapping patterns read them, with the
  exceptions its comment names. `SettingsKept`: requests that overlap, saves that fail and restarts leave
  memory, the running parts and the file with what was asked for last, again with two exceptions.
* `MappedRight`: the schemes it names map back to the episode: TMDB's, one running count, that count with an offset, and
  numbers that begin anew in every cour, unless the number of the cour is that of another season of TMDB
  (`Misread`); cours counted with absolute numbers do not always (see below).
* `TranscriptKept`: over restarts, `/clear`, `/resume`, compaction and truncation a session is read back as
  it was recorded, and the loop's memory has all of these messages or, once some were taken out, the last ones.
* `OverlapExplained`, `StaleOnlyWhenOverlapped`: the lock and the cache are not perfect, and these say
  exactly when they fail.
* `OutputIsOwn`, `VideoKept`, `WaitEnds`: the Rust worker between its checkpoints.
* `QueueServed`, `HistoryPaired`, `LinesTaken`: what the user said reaches the model, and the provider
  is never given a history it refuses, unless the comment's exceptions apply.

Bounds. `Tasks`: two tasks for one URL are what every duplicate, retry and cancellation race
needs; ids are never reused, so a third task adds a second bystander. `DownloadWorkers`: two, so
that one task can wait, run and be retried while the other worker is busy. `RetryLimits` 0 and 1
contain the boundary and one retry; the liveness run has one retry and no change of the limit.
`HistoryLimit` is two in the safety run and one, where it evicts, in the liveness run. `MaxVetted`
bounds the candidates in flight, `MaxCrashes` the crashes; a crash empties everything but the rows, so
a second one meets nothing new. The invariants of the safety run do not depend on names (`NamedBy`),
which matter only to which manual tasks a cancellation reaches; the liveness run lets it reach
all. `Vet` looks nothing up once every task id is used.

For the service, two tasks for one URL meet every reservation, duplicate and resubmission
there is: URLs interact only through the library and the reservation of the same URL. One
crash leaves every pair of rows a crash can leave, since a crash keeps nothing but the rows;
the liveness run has two, so that recovery itself can be interrupted. `MaxAbandons` is one for
the same reason.

For the workflow, `MaxSubmissions` two: a forgotten download and its successor; `MaxRetries` one and
`MaxCrashes` one: an attempt after an attempt and after a crash; `MaxSuffix` one: a name that is free
and one that is taken. For materialization three tasks and two suffixes, so that a task meets a name
taken before and one taken while it works; one interruption.

In the composed runs each part has two of whatever competes (editors, bots, readers, updaters, chats,
facts, tool calls, messages; three runs of the lock in two processes, three processes of two versions
in the skill cache) and one of each kind of trouble (`MaxUpsets`, `MaxCrashes`). `MaxRounds` is
three, so that a reply can be cut, continued at a higher limit and cut again. `SeenLimit`, `SeenKept`, `PageSize`,
`HistoryLimit` and the numbers of checks stand for larger constants of the code at a size the runs reach. `Shows`
has a show with two seasons of two cours, one with a single season of three cours and specials, and one
that is not animated. `Seasons` 1 and 2 are the season that is not written and one that is; `Episodes` 3 and 12 one
that could be a season and one that could not. `Settings` has two requests at a time, three changes,
two starts, one mishap, four files (two of which a start refuses) and nine requests, among them one
that a start would refuse and one that writes a whole group. `MaxCalls` is three and `MaxAgentRounds` two: a write
between reads, and an agent that calls tools and then answers. `Candidates` has two ranked groups, two qualities, two versions, a season
override and a refused release.

The transcripts of `files` have two starts, two sessions, one torn line and, beside the lines that start a session, two
messages: a session that is left, one that is resumed, and what is recorded before and after. More
turns with an answer are not needed, as a record of either kind is the same action on a file.

The theorems of section 4 have none of these bounds: they hold for any number of tasks, crashes and
retries.

Symmetry is used where only invariants and box properties are checked (`ingestion_safety`,
`service_safety`, the tasks of `files`, the tool calls of `assistant`; `Holder` chooses from a set of one
task, so it does not break it). Deadlock is checked for the pipeline and the Rust service; the other
models stop when their bounds are used up or a task is done.

Fairness. Pipeline: weak fairness for starting the process (a supervisor restarts it), for the end
of each call of the renamer and the notifier (HTTP timeouts end them), and for
every stage taking the next item (asyncio runs whatever is ready). None for handlers, scans,
checkpoints or crashes, and none for the end of the downloader's call: while OpenList lists a download as
unfinished the workflow polls it without a watchdog (`workflow.py:283`). `EveryTaskSettles` therefore says of a task
that stays active for ever that it is `HeldUp`: its own call does not end, or it is queued and no worker's
does. Weak fairness is enough because a stage's next step, once enabled,
stays so until it is taken or the process crashes.

Service (`Fairness`): weak fairness of a start and each step of recovery, of the one
scan, and for every task of its submission, its worker and the start of its worker after a
retry; requests to OpenList time out and are answered sometime, and the runtime polls what is ready. Nothing is
assumed about OpenList's downloads and transfers: it may leave either running for ever or forget a download, and the
worker's wait for a transfer is excepted from the fairness of `Work(t)` (`AwaitsTransfer`). After a crash between the
removal of a task's directory and its checkpoint no step of the worker is enabled. `EveryDownloadEnds`
says that a download that is shown as running for ever is in one of these waits (`StuckAtOpenList`) or is
`neglected`. No fairness for handlers, requests that are carried out, crashes or clients that go away.

Workflow: weak fairness of the workflow's own steps (timeouts end requests), except of a poll that finds the offline
download listed as running (`AwaitsDownload`), since nothing says that OpenList ends it; a transfer may hang as
well, but the watchdog ends that wait. `RemoteWaits`: weak fairness of the poller and
of what OpenList has begun, as long as it has not forgotten it. Materialization: weak fairness of each worker and of the
listings catching up. Scans of `ConfigStore` and `Subscriptions`: weak fairness of the scan's steps.
Notifications: weak fairness of passes and attempts; strong fairness that a waiting title gets the
lock (asyncio's lock serves in order) and that a good bot answers some attempt.

### What the violated runs show

* **A cancelled task comes back** (`ingestion_cancelled`). `RenameStage` and `NotificationStage` write
  their state into whatever task the registry still knows. A subscription is paused while its task waits
  to be renamed; the handler reports the task as stopped; the task is renamed, recorded and completed.
* **A resumed task without a worker** (`service_resumed`). `fail_task` saves the failed memento while its
  worker is still in the active set. A retry that arrives before the worker left makes the task running
  again, `start_download_worker` finds the id in the set and does nothing, and the old worker
  leaves. `EveryDownloadAttended` shows that this and dropped handlers are the only ways.
* **A worker that asks for a removed directory** (`materialization_stuck`). A crash, or a failed save, after
  the task's directory was removed and before the result was saved: the worker starts with a listing of
  that directory, which OpenList refuses, and retries for ever although the file is in place.

### Known divergences and weaknesses without a run

Met while modelling, in the source as it is; the models include the behaviour where the component is
modelled, and no checked property denies it.

* Pipeline: a failed task is retried with the limit it had when it failed (`task_coordinator.py:157`); a failed
  RSS task stops blocking its URL once the bounded history has evicted it (`task_coordinator.py:209`), although
  `pipeline.py:242` wants it kept; a release can be vetted,
  completed by another task and reserved again.
* Workflow: a download that stays in OpenList's list of unfinished downloads holds its worker for ever, since the wait has
  neither watchdog nor count (`workflow.py:283`), only the transfer's has (`:398`), although "without a watchdog this keeps one
  download worker occupied forever" (`:107`); a move or rename whose answer is lost is repeated and fails, costing attempts; a stale list of
  ended downloads costs a retry.
* Scans: a task reserved after its subscription was paused stays; correcting an address leaves the tasks
  of the old one; a metadata refresh overwrites a rename made meanwhile.
* Filters: the best group, quality and language of what is there may come from different rows, so a release better
  than each row can be dropped (`priority.py:208` and around); a season override
  in the file name hides a duplicate from the strict filter.
* Title parser: what its documentation says and the engine does not do: `[OVA 01]` is read as season 1, although
  specials are season 0; a special with a season written keeps that season, or its mark stays in the name; a "二之章" stays
  in the name although a comment says it is removed (`engine.py:107`); a season tag `[S2]` that is not followed by a
  tag with the episode is lost; "ACT 2" is read as season 2; the suffix of "中文名 / 中文名 DARKNESS" is
  dropped when there is a space before it; in "[番名01] ... S01E01" the name keeps its number; after a variant's mark in
  brackets the season can be read as the episode.
* Settings: a request overwrites directory, format, address and retry limit with what it read before it asked
  OpenList (`router.py:173`); an omitted list of title patterns clears the list; patterns that do not compile, formats that
  reach into fields, unknown parsers and providers and the removal of the last feed are accepted and
  refused by the next start; with an empty format in the file every request fails; `save` is not atomic and
  a failure is only logged; `/restart` ends the process without closing its parts; a fresh installation's placeholder
  does not start.
* Validator: where TMDB has several seasons, a fansub's own number of a cour that is also that of a season is read as that
  season (`episode_mapper.py:70`, before `:164` looks for cours), so the first episode of the second cour, released as S02E01,
  becomes the first of season 2; cours with absolute numbers can be mapped to another episode, since a number relative to the cour is tried first, and a season whose list could
  not be had shifts the cours after it (`episode_mapper.py:229`).
* Notifications: what is queued is lost in a crash, although its task is completed.
* Dream: a manual run within the stale age is refused; a cancelled or crashed run does not set the time back.
* Rust service: a crash during the call leaves an uncertain operation and a pending memento, which
  neither recovery, retry nor archive touches; a scan may submit a URL that was refused after it looked;
  a download or transfer that makes no progress is polled for ever (`download_service.rs:508` and `:606`), although
  the specification asks for a watchdog on both (`DEVELOPMENT_SPEC.md:224`); a download OpenList has forgotten
  is polled for ever although its error says it will not be retried (`download_service.rs:355` and `:40`); the
  first of several transfers decides for all.
* Rust configuration: an address of the legacy `rss.urls` that was removed comes back with the next edit
  (`config_store.rs:587`); an edit by hand between a request's check and its write is overwritten.
* Assistant: truncation can cut a reply from its results; `/clear` during a turn or a compaction brings
  the old conversation back; a message injected in the last round is not answered; messages taken from the
  queue are lost when their turn fails; interrupted tools leave threads at work beside the next
  answer (`loop.py:837`); a stale force-cancel timer can cancel the next turn and leave calls without results; a turn that is cancelled while it records writes a line that
  the next entries do not follow, so the line is off the chain that is read back; messages that arrive during a turn
  (`loop.py:937`), tool calls, results, cut replies and error replies are in no transcript, so a resumed session lacks them,
  although "conversations survive restarts and can be resumed" (`loop.py:18`); `/compact` blocks the pump.
* Skills and memory: a crash while an old copy is removed leaves a remnant that hides the bundled skill
  (`installer.py:200`); the guide is lost when the first call fails; each page runs the script again; a
  memory file is emptied before it is written.
* Telegram: a chat's loop is registered before its session is resumed, so that a second message runs on a
  loop that does not know the conversation yet. `AgenticLoop._call_with_recovery` is never called.
* Messengers and lifecycle: a message's id is recorded before it is handled; the WeChat cursor moves
  before its batch is handled; one failed poll ends all frontends; a step of closing that raises skips the
  others; a failed start closes nothing.

## 4. Proofs

Each theorem holds for every value of the constants that satisfies the assumptions its module names.
Where it states an invariant of a run, the inductive invariant it rests on was first checked by TLC.
Every action has a lemma that says that it keeps the invariant.

### The pipeline

Assumptions: `TasksAssumption`, `SourcesAssumption`, `WorkersAssumption`, `LimitsAssumption`, and
`NoneAssumption` (no memento and no release is `None`).

| Theorem | Module | States |
|---|---|---|
| `TypeCorrect` | `IngestionPipelineProofs` | `TypeOK` |
| `TasksAlwaysCarriedOnce` | `IngestionPipelineProofs` | `EachTaskCarriedOnce` |
| `StoreAlwaysFollows` | `IngestionPipelineProofs` | `StoreFollowsRegistry` |
| `UrlsAlwaysApart` | `IngestionPipelineProofs` | `OneActiveTaskPerUrl` |
| `LedgerImplemented` | `IngestionPipelineProofs` | `ImplementsLedger` |

`TypeOK` alone is not inductive: `memento` may be `None`, and almost every action uses a field of some
memento. `TypeInv` adds that every task a buffer, a worker, the registry or its history refers to has
an object (`Objects`), that a worker's phase agrees with its holding a task (`Occupation`), and that
a stopped process holds nothing (`Down`).

`SafeInv` adds two parts that lean on each other. `RegInv` is about objects and rows: no row of a finished
task (`Rows`), the registry is the set of active objects (`Registered`), whatever is known was reserved
(`Born`), and what is cancelled was reached by a cancellation (`CancelledOnce`). `CarryInv` is about who works on a
task: buffers are injective, disjoint and disjoint from what workers hold, an active task is in one of these places,
and what is carried is active or cancelled (`Unsettled`). The last is what keeps a retry by hand, which
takes failed tasks only, from enqueueing a task that is carried already. `OneActiveTaskPerUrl` needs
`Registered` and `StoreFollowsRegistry`: a reservation looks at the registry, the property at the rows.

`LedgerInv` adds that every object says what its row says, also when the history has dropped it (`Mirror`), that a
task keeps its release (`SameRelease`) and that the notifier's task is in the library (`Recorded`). `LedgerStatus`
is then a function of the rows: `StatusChange` says what a step makes of it, and each saving action has a
lemma that names its step of the ledger. A crash and a start are stutters, because the ledger sees rows only.

### The Rust service

Assumptions: `None` is no task, no URL and no row, and the bounds are numbers (`TasksAssumption`,
`UrlsAssumption`, `RowsAssumption`, `BoundsAssumption`).

| Theorem | Module | States |
|---|---|---|
| `TypeCorrect` | `DownloadServiceProofs` | `TypeOK` |
| `ClaimsImplemented` | `DownloadServiceProofs` | `ImplementsClaims` |
| `RowsAlwaysAgree` | `DownloadServiceProofs` | `RowsAgree` |
| `UrlDownloadedOnce` | `DownloadServiceProofs` | `OneDownloadPerUrl` |
| `DownloadsAlwaysAttended` | `DownloadServiceProofs` | `EveryDownloadAttended` |

All rest on `JournalInv`. Its parts beyond `TypeOK`:

* `OneReservation`: two tasks that reserve have different URLs, the unique index of the table;
  without it `Holder` would not be determined by its URL;
* `Fresh`: a task that was not created has no row and no outcome;
* `Bindings`: OpenList's id is known only of tasks it accepted; a retry resumes bound tasks only,
  so what it takes was accepted and never merely uncertain;
* `Journal`: what the operation and `outcome` are at each point of a submission; it says that a
  reservation is released only with a known outcome;
* `Submitting`: nobody else touches a task while it is being submitted. A retry needs a
  failed memento and a worker a running one, so no release overtakes the call;
* `Quiet`, `Recovering`: recovery runs before any handler and starts workers of submitted tasks
  only.

`HolderFacts` characterises the `CHOOSE` in `Holder`; `SameHolders`, `NewHolder` and their like say
what a step makes of it, and `ClaimsStep` maps each action to a step of `UrlClaims` or to none.

`RowsInv` adds, for each task, that its rows agree (`Agree`), what is true between the two writes of a failure and of a
completion (`Halfway`: the first write alone is an agreement too), and that recovery has saved what it will start (`Saved`).
`OneDownloadPerUrl` then follows from `OneReservation`: a row that shows a download has its reservation.

`CareInv` adds who is at work: a task that is being submitted has no worker and is in no list (`Busy`), one that
waits for its worker has none, so that the start is not in vain (`Waiting`), and a running one is attended
(`Cared`). `Waiting` fails for exactly the retry of the finding above, which is why that retry marks its task.

### The workflow and materialization

| Theorem | Module | States |
|---|---|---|
| `SnapshotAlwaysKnowsTask` | `OpenListWorkflowProofs` | `SnapshotKnowsTask` |
| `FileAlwaysKept` | `OpenListWorkflowProofs` | `FileKept` |
| `BindingAlwaysKept` | `OpenListWorkflowProofs` | `BindingKept` |
| `OutputAlwaysOwn` | `MaterializationProofs` | `OutputIsOwn` |
| `VideoAlwaysKept` | `MaterializationProofs` | `VideoKept` |

* Workflow (`WorkflowAssumption`), `FlowInv`: the status of the task agrees with what its worker awaits (`Attempts`); the payload in memory is the
  saved one but for a name OpenList has not confirmed (`Bound`); a list asked for before a submission is of an
  older generation (`Lists`: ids count submissions, so "asked later" is an inequality); and a file that reached the target
  directory stays there under its last name (`Placed`).
* Materialization (`MaterializationAssumption`), `IInv`: nothing is done before the plan is saved (`Untouched`); a video is at its
  first name, at the planned one, moved or removed, and a listing shows where it is or was (`Tracked`); before the move a
  listing has shown the planned name (`SeenRenamed`); and a video that left its directory is the
  file the plan names (`Arrived`). Names that are taken stay taken, so a bystander is not disturbed.

### Scans, filters, episodes and settings

Assumptions: `SubscriptionsAssumption`, `FiltersAssumption`, `SettingsAssumption`: what the constants are;
`ValidationAssumption`: a show is a sequence of seasons, a season a sequence of cours with at least one episode each.

| Theorem (`ReleasesProofs`) | States |
|---|---|
| `AlwaysTakenByTheRules` | `TakenByTheRules` |
| `AlwaysWellChosen` | `WellChosen` |
| `AlwaysMappedRight` | `MappedRight` |
| `SettingsAlwaysKept` | `SettingsKept` |

* Scans, `SubInv`: the reader always has exactly what the list says, since every edit gives it the whole list
  (`EditSyncs`), and a scan that has not read its feeds has found nothing. The first is what makes
  a scan right that an edit overtakes; the mutant that refreshes only known feeds breaks it.
* Filters: beyond types the property needs no history, but two lemmas on the operators. `BehindIsSkipped`: what is
  behind something known in the order of the fields is skipped, because the first field in which it is not at the
  best level is one in which it is worse. `ComparedWell`: a row with the same stem makes the set of matching rows
  nonempty, so the first of them is an older version or the release is refused.
* Episodes, `TmdbInv`: every mapping in the batch's cache and among the results is one the mapper gives to these very
  numbers (`ByMapper`), and every release still to be done, or done, is numbered by its scheme (`Stands`). The first is
  why the cache, whose key is season and episode alone, cannot mislead. A cour numbered like a season of TMDB is taken by the
  direct match: then the release is that very episode or is `Misread`, which the property excepts. What remains is about the strategies. The
  first episodes of seasons, and the numbers of cours, are running sums; they grow, so a number lies in one season only
  (`SeasonsApart`) and has one cour (`CourByNumber`), and whichever strategy takes a release comes to the same
  episode (`MapsBack`) and to one that exists (`MapsToExisting`).
* Settings, `SetInv`: memory and file are whole and chosen, so a start adds nothing to a file that was saved
  (`LoadedIsChosen`); and what a request on its way will write without having been asked to is what memory
  still has, or is doubtful (`StillRead`). `OutcomeOfRequest` and `HalfOfRequest` say what a request and what half
  of its saves leave behind.

### The services

Assumptions: `ConfigAssumption`, `NotificationAssumption`, `EventAssumption`, `CacheAssumption`,
`DreamAssumption`, `LifecycleAssumption`.

| Theorem (`ServicesProofs`) | States |
|---|---|
| `NoSubscriptionLost` | `SubscriptionsKept` |
| `NoTitleLost` | `TitlesKept` |
| `StoppedStaysQuiet` | `StoppedIsQuiet` |
| `StaleAlwaysExplained` | `StaleOnlyWhenOverlapped` |
| `OverlapAlwaysExplained` | `OverlapExplained` |
| `EndIsOrderly` | `OrderlyEnd` |

* Configuration file, `CfgInv`: each address has one row, what was acknowledged has one, and the older list is
  there or was removed. The lemmas are about sequences of rows: appending, removing and merging keep one row each.
* Notifications, `NtfInv`: a pass serves each bot once and sends what is queued (`PassIn`); what a bot has
  heard of and still has queued was in a message whose answer was lost (`Booked`).
* Events, `Draining`: while `stop` waits, all that runs is what it has cancelled, since nothing is dispatched.
* Cache, `TtlInv`: what a fetch has read is the value of now unless a change overtook it (`Fresh`).
* Dream lock, `DreamInv`: a run that wrote the lock finds its own content there (`Holds`), and nobody takes it
  from a running one (`Alone`), each unless one of the excuses of `OverlapExplained` applies.
* Start and shutdown, `LifInv`: parts open in order (`Rising`), serving means all are open (`Up`), what is still
  open is still to be closed (`Falling`, `Accounted`), and the end comes when nothing is (`Closed`).

### The assistant

Assumptions: `ConversationAssumption`, `TerminalAssumption`, `MessengersAssumption`,
`AssistantMemoryAssumption`, `SkillCacheAssumption`, `ToolBatchesAssumption`, `SkillCatalogAssumption`, `SessionsAssumption`.

| Theorem (`AssistantProofs`) | States |
|---|---|
| `QueueAlwaysServed` | `QueueServed` |
| `HistoryStaysPaired` | `HistoryPaired` |
| `NoLineLost` | `LinesTaken` |
| `TurnsRunOnce` | `HandledOnce` |
| `NothingUntold` | `SavedStays` |
| `RunningCacheWhole` | `CacheWhole` |
| `WritesRunAlone` | `WriteAlone` |
| `SkillTextWhole` | `TextWhole` |
| `TranscriptAlwaysKept` | `TranscriptKept` |

* Chat, `ChatInv`: a chat is active exactly while it has a turn (`TurnKnown`); its history is paired, or is a paired
  history and the calls that are at work (`Sound`), unless it is marked as disturbed. Lemmas say which cuts
  and additions keep a history paired.
* Terminal, `TuiInv`: the property is inductive with the types. Its lemmas say where a line goes that leaves the mailbox.
* Messengers, `MsgInv`: a message was begun no more often than its id was forgotten, and once more while it is
  known (`Once`); what was polled ends at the cursor, and what was handled ends where it begins (`InOrder`).
* Memory, `MemInv`: an operation that is alone on its file finds there what is to be there, until it empties it (`Saved`).
* Skill cache, `SkcInv`: a start nothing overlapped has done what it went through (`StartSound`); while an
  unharmed process runs, only its own version starts, and finds the cache whole (`RunSound`).
* Tool calls, `TbInv`: only reads share a batch (`BatchSound`, from `PartitionUniform` about the partition), and the batches
  before the one at work are told (`CallsSound`).
* Skill text, `SklInv`: what a processed file includes is processed or still on the stack (`NothingSkipped`), each
  file is included once (`BodySound`), the next page starts where the pages read end (`PagesSound`).

* Transcripts, `SesInv`: the file of a clean session is `Straight`: a start and then what was recorded, each entry naming the
  one before, with growing stamps (`FilesStraight`). Reading such a file back gives what was recorded (`StraightSpoken`),
  which is the first half of the property; the rest keeps files straight. Sessions are numbered as they are
  started, so a new one has an empty file (`SessionsInPlace`); a message of a clean session goes to the end of the
  current file, and its parent is the newest entry (`WritingOwn`); and at each stage of a session's set-up the loop
  knows the entry to go on from and remembers what was recorded, all of it or, if some was dropped, its end
  (`RecalledSound`, `Held`); `SuffixFacts` says that taking older messages out and adding new ones leaves it an end.
  A session is clean unless it is in `muddled` (it changed, or its turn was cut off, in a record) or `torn`, which grow only.

### Recursion

Two results are about recursive functions: the running sums of the mapper (`Running`) and the chain of a transcript
(`Chain`). The library's induction theorems take an operator as a parameter, which the provers at hand cannot
instantiate, so both proofs go without. `DataLemmas` derives from the well-foundedness of the numbers that a set of
numbers up to a bound that has 0, and with each number the next, has them all (`AllNumbers`). With it, a solution of
the recursive equation is constructed up to each bound (`RunningSums`, `ChainFollows`), so that the function, which is
a choice among solutions, is one; and with it again what the solution computes is found.

### Only model-checked

* Liveness under fairness: `EveryTaskSettles`, `EveryDownloadEnds`, `WorkerFreed`, `SavedIsRead`, `AddedIsScanned`,
  `GoodBotServed`, `WaitEnds`. The prover cannot reason about `ENABLED`.
* `TitleRead`: a statement about the shapes in which titles are written. The shapes are enumerated by the definitions, and
  each title is read in one step, so a proof would be TLC's enumeration written out. What TLC leaves open is other
  numbers: the engine only carries them, but for asking whether a season is 1, whether the number after a name is the
  season found, and whether a half episode is 12.5.

## 5. Plan

Done: the pipeline, the workflow, the Rust service with its claims, waits and materialization, scans, filters, title
parser, validation and settings, the services, the assistant; proofs of every invariant a run checks but
`TitleRead`. Next, in this order:

1. Composition of `RemoteWaits` and `Materialization` with `DownloadService` as a refinement of `Advance`.
2. An abstract specification of a chat, for `Conversation` and `Terminal` to implement.
3. The metadata refresh of subscriptions.

## 6. Not modelled

The parsers of feeds, the LLM parser of titles, versions, qualities and languages in titles and the choice among aliases, LLM and TMDB clients, the web console, drawing and keyboard handling of the
terminal, provider protocols and deployment: input and output without control worth a model. Sessions of
the web console and passwords. The timeout of a sub-agent, which leaves its threads at work. The import of the old JSON store and rows that cannot be read back. sqlite is assumed to commit what it
says, and a file system to rename atomically.
