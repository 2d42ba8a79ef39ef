# Verification of chronos-graph

chronos-graph is a memory store for AI agents: an MCP server that ingests text as *memories*, keeps them in a relational
store (SQLite, Postgres or Supabase), mirrors them as nodes of a graph (SQLite tables or Neo4j), answers searches over
both, and cleans old memories up. This directory holds TLA+ models of its core, the TLC runs that check them on small
instances, and proofs, checked by TLAPS, that hold for every instance. Paths below are relative to the repository root;
most are under `src/context_store/`, which is left out where no doubt can arise.

## 1. Inventory

### Components, their state and their operations

| Component | State | Operations that change it | Interacts with |
|---|---|---|---|
| Ingestion (`ingestion/pipeline.py`, `deduplicator.py`, `graph_linker.py`) | running tasks by memo key, content locks, per run: replaced memory, stage | save a chunk: search for a near-duplicate, archive it, save, create node, draw edges; roll back | storage, graph, the orchestrator's save hooks |
| Graph sync outbox (`sync/outbox_{writer,reader,worker}.py`, `sync/graph_sync.py`, SQL migrations, `scripts/sync_storage_to_neo4j.py`) | table `graph_sync_outbox` (status, event type, retry count, next retry); per worker: batch, fetched memories | transactional insert with save and delete, claim, merge, delete, complete, back off, give up, recover stuck rows, catch up from the CLI | storage transactions write rows, workers change Neo4j |
| Lifecycle clean-up (`lifecycle/manager.py`) | `lifecycle_state` row: save count, last clean-up, cursor, lock owner and lease; lock file; spawned tasks | count a save, spawn a run, take the file lock and the leased lock, heartbeat, complete, reset after failure, release, follow-up | orchestrator (saves, `prune`, shutdown), jobs, other processes on the same database |
| Lifecycle jobs (`lifecycle/archiver.py`, `consolidator.py`, `purger.py`, `decay_scorer.py`) | none of their own; the consolidator's cursor is in `lifecycle_state` | archive decayed memories, merge or replace similar ones, delete long-archived ones | called by a clean-up run, call its heartbeat, race with ingestion |
| Orchestrator (`orchestrator.py`) | references to all parts, disposed flag | save, delete, search, prune, session flush, start, dispose | everything |
| Storage factory and start-up (`storage/factory.py`, lifespans of server and dashboard) | the adapters open so far | open one adapter after the other, release what is open when one fails, dispose of all | every adapter |
| Background work (`ingestion/task_registry.py`, `batch_processor.py`) | set of live tasks, active job count | register, wait for all, cancel all; a flush job's chunk loop | orchestrator, clean-up, ingestion |
| SQLite storage (`storage/sqlite.py`, `utils/stale_lock.py`, `utils/sqlite_interrupt.py`) | tables, waiting counter and semaphore, cached vector dimension | one transaction per call; refuse when too many wait | all of the above |
| SQLite graph (`storage/sqlite_graph.py`) | node and edge tables with foreign keys | create and delete nodes, insert edges, traverse within a budget | ingestion, retrieval |
| Postgres, Supabase, Neo4j adapters | external databases | as above; Supabase by RPC | outbox, ingestion |
| Caches (`storage/inmemory.py`, `redis.py`) | entries with expiry, coherence timestamp | get, set, invalidate | orchestrator |
| Migrations (`storage/migrations/runner.py`) | `schema_migrations` | apply pending files under a stale-aware file lock | start-up |
| Retrieval (`retrieval/*.py`) | none | rank fusion, traversal, decay, token limit | storage, graph |
| Embedding providers (`embedding/*.py`) | HTTP clients | embed with retries | ingestion, retrieval |
| MCP server (`server.py`) | lazily created orchestrator | tools, initialisation under a lock | orchestrator |
| Dashboard (`dashboard/*.py`, `frontend/`) | log ring, the broadcast queue, connected clients | read-only queries, log streaming | storage, the logging of its process |
| Agent asset installer (`scripts/agent_assets/`) | plan, staging directories, backups, journal of applied targets | stage, move away, put, verify, commit, roll back | files of the user's home, which others change too |

### Where the behaviour is hard

* **Outbox.** Several server processes and a maintenance command work on one table; a row is changed by the client's
  transaction, by claims, by completions *by id*, by back-off and by recovery; Neo4j and the relational store share no
  transaction. What makes it correct: no stored memory is lost to the graph; a node disappears only after its memory
  did; an empty outbox means an exact mirror; a failing row ends, with its budget spent.
* **Clean-up.** A counter is read and written back while others increment it; a lock is leased, can be lost while its
  owner works, and may be left behind by a crash. What makes it correct: runs exclude each other; the counter neither
  counts twice nor forgets; progress never goes back; reaching the threshold leads to a clean-up.
* **Ingestion.** Archiving the old memory, saving the new one, its node and its edges are separate transactions with a
  hand-written rollback; the content lock covers one content in one process. What makes it correct: the text stays
  findable whatever fails, no content is active twice, a chunk without failures is stored.
* **Lifecycle jobs.** They act on memories they listed earlier. What makes them correct: an active memory is never
  purged; of two similar memories one stays active; the cursor skips nothing.
* **Start-up and shutdown.** Every stage may raise with some adapters open; flushes, saves, clean-ups and a worker are
  under way when the process is told to end. What makes it correct: what was opened is released, nothing is released
  under work that was not asked to stop, and the shutdown ends.
* **Shared chunk tasks.** Requests for one text await one task behind a shield; each may be cancelled. What makes them
  correct: no text is stored by two tasks at once, and no caller's cancellation takes the work from the others.
* **Opening the database.** Processes that start together check a lock file by its age, remove it and lock a new one, so
  two of them can hold "the" lock; a migration is cut short anywhere. What makes it correct: the recorded versions stand
  for what the schema has, whoever ran them.
* **The gate of the SQLite adapter.** A waiter times out or is cancelled while the slot is handed over. What makes it
  correct: the counters are exact, so the adapter never gets stuck on "busy".
* **Retrieval.** Memories are archived and deleted between the awaits of a search, and sources fail one by one. What
  makes it correct: the walk finds exactly what its two bounds allow; the answer is what the ranks call for.
* **Log streaming.** The queue drops its oldest entry when full, and that is logged through the same handler.
* **Asset installation.** Any file operation fails, also halfway; others edit; the process is killed. What makes it
  correct: what was there is kept somewhere until the commit, and what a rollback reports is so.

The hazards, each at the line where it bites, are listed in `PROJECT.json`.

## 2. Modules

| Module | What it is |
|---|---|
| `GraphMirror` | Abstract specification: what graph synchronisation promises. |
| `Outbox` | The outbox: clients, workers, the catch-up command, failures. Implements `GraphMirror`. |
| `OutboxMC`, `Outbox*.cfg` | Instances of `Outbox` for TLC. |
| `OutboxProofs` | Theorems about `Outbox`. |
| `Lifecycle` | Save counter, file lock, leased lock and the control of a clean-up run. |
| `LifecycleMC`, `Lifecycle*.cfg` | Instances of `Lifecycle`. |
| `LifecycleProofs` | Theorems about `Lifecycle`. |
| `Ingestion` | Storing near-duplicate chunks: replacement, rollback, crashes. |
| `IngestionMC`, `Ingestion*.cfg` | Instances of `Ingestion`. |
| `IngestionProofs` | Theorems about `Ingestion`. |
| `Jobs`, `JobsMC` | What a clean-up does while it holds the lock: archiver, consolidator, purger, with requests meanwhile. |
| `JobsProofs` | Theorems about `Jobs`. |
| `Startup` | Opening and releasing the adapters of a server or a dashboard. |
| `Server` | The running MCP server up to its shutdown; extends `Startup`. |
| `LogFanout` | The dashboard's log stream. |
| `Process`, `ProcessMC` | A process from start to end: composition of `Startup`, `Server` and `LogFanout`. |
| `ProcessProofs` | Theorems about `Process`. |
| `Migrations` | The lock file and the migration runner. |
| `Sqlite`, `SqliteMC` | The gate and the dimension of the SQLite adapter, composed with `Migrations`: requests come once the database is open. |
| `SqliteProofs` | Theorems about `Sqlite` and the `Migrations` in it. |
| `Retrieval`, `RetrievalMC` | One search, with the walk, the fusion and the limits as operators. |
| `RetrievalProofs` | Theorems about `Retrieval` and its operators. |
| `Assets`, `AssetsMC` | One synchronisation of the agent assets. |
| `AssetsProofs` | Theorems about `Assets`. |

In all modules one action is the code between two `await`s: what one awaited call does in its database, together with
the local work up to the next call. `pc` names the call that is awaited. A call that raises may have taken effect or
not, since a lost answer and a lost request look the same. Definitions marked *Variant (seeded bug)* are not part of the
specifications; they are used to test that the properties notice such bugs.

### Outbox

State: `storage` and `graph` say for each memory whether it is stored, and whether it has a node; `outbox` is the table;
`pc`, `batch` and `found` are the locals of `OutboxWorker._process_batch`, for every server's worker and for every
`sync_storage_to_neo4j.py --catchup` process; `erasing` holds the deletes whose own best-effort `delete_node` call is
still to come. A row is named by the transaction that inserted it (a memory id is a fresh UUID, saved and deleted at
most once).

Actions: `Save`, `Delete`, `DeleteNode` are `Orchestrator.save` and `delete`; with `PendingUnique` (the index
`uq_outbox_pending` of Supabase) the delete turns a pending SYNC row into the DELETE row. `Start` is `run()` with
`reset_stuck_processing`; `Fetch` is `fetch_pending`, `FetchLost` a committed claim whose answer is lost; `CatchUp` is
`fetch_all_actionable`, which claims nothing. `Read`, `Merge`, `CompleteSync`, `Erase`, `CompleteDelete` are the calls
of `_process_batch`; `SyncFails` and `DeleteFails` its two except branches, `Backoff` one round of `_apply_backoff` and
`BackoffFails` an exception out of it. `BecomeDue` is time passing; `Exit` the stop event, a cancellation or a crash.

`Outbox` instantiates the abstract specification as `Mirror == INSTANCE GraphMirror WITH ...`: `storage` and `graph` are
the mapped state, and workers, rows and batches are hidden. `MirrorSpec` says that each step is a save, a delete, a
`Reflect` (the graph catches up with some news, old or new) or a stutter.

Time is abstract: a row is due or not, and any PROCESSING row may be old enough to be recovered. Which of the due rows a
LIMITed fetch takes is open.

### Lifecycle

State: the row of `lifecycle_state` (`saveCount`, `owner`, `stale` for the age of the lease, `cleaned`), the run of each
server (`pc` and its locals `start`, `current`, `followup`), its spawned task (`scheduled`) and its shutdown flag.
`saves`, `base` and `covered` are history variables: how many saves there were, when a run captured its start count, and
up to which save completed runs cover.

Actions: `Save` is `on_memory_saved`, `Prune` the prune tool, `Start` the time-based check, `Begin` a `run_cleanup` task
reaching the file lock; `Acquire`, `Load`, `Heartbeat`, `CheckLockIntegrity`, `Reload`, `SaveState`, `Release` are the
calls of `_run_cleanup_inner` in their order; `Fail`, `ResetLoad`, `ResetSave`, `ResetFails` its except branch;
`Shutdown`, `Cancel` and `Exit` the ways a server stops; `LeaseExpires` lets the lease of a dead or a pausing run get
stale. The jobs are one state with any number of heartbeats.

### Ingestion

State: every memory is absent, active or archived; `node` is `memory_nodes`; `pc`, `replaced` and `targets` are the
locals of `_process_chunk_core`. `restored` and `halfway` are history variables for the two ways in which the code gives
up a guarantee. All chunks are near-duplicates of each other, so that every search finds something to replace: the worst
case for the interaction of replacements.

Actions: `Lock` is the content lock (per process), `Search` and `Archive` are `deduplicate`, `Save` is `save_memory`,
`CreateNode`, `Recall`, `Relate`, `CreateEdges` are the graph half, `Raise` is any call raising, `UndoNode`,
`UndoMemory`, `Restore` are the rollback, `Crash` ends a process.

### Jobs

State: the rows of `memories` that a job looks at (`rows`, `archivedAt`, `accessed`), how similar any two are, the day,
the consolidator's saved `cursor`, and `run`: the locals of the job at work (page, position, start of the listing).
A memory's number is its place by `created_at`. History variables are `lost`, what requests took away during the run,
`restored`, what a rollback brought back, and `late`, what was stored behind the consolidator's back (`Passed`): the
pipeline stamps `created_at` (`pipeline.py:483`) before it takes the content lock, looks for duplicates and inserts the
row (`:506`), so that parallel chunks store rows in any order, and one may come up before a position that a clean-up has
already passed.

Actions: `Save`, `Access`, `Delete`, `Replace` and `Settle` are the requests, `Settle` being the end of a replacement,
well or by rollback; `Begin` is a clean-up or a preview; `ListLive` and `ListArchived` fetch a page by keyset,
`ArchiveRow` is one update of the archiver, `Search` and `Consolidate` are the consolidator's nearest neighbours and its
decision on one of them, `Purge` and `Erase` the purger's delete in storage and graph, `Finish` the saved cursor,
`Abort` any call raising. That a single clean-up runs at a time comes from `Lifecycle`; a preview takes no lock.

Abstractions: the decay score is days without access, so an importance that keeps a memory is the constant `Durable`; a
run crosses at most one midnight; a request ends, well or by rollback, on the day it began (a replacement may last
longer when the retention is no days); graph calls are steps that may raise; every memory has its embedding.

### Startup, Server, LogFanout, Process

`Startup`: `phase` is the stage of `create_storage`, of `create_orchestrator` or of a lifespan that is awaited, `open`
the adapters that have to be released and `closing` those a release has still to come to. `Close(stage)` is the except
branch of that stage.

`Server`: `st` is where a tool call is, `left`, `on` and `good` its chunks still to ask for, waited for and stored;
`task` and `memo` are the shared chunk tasks and `_content_results`; `flushLock` the lock of `session_flush`; `cleanup`,
`worker`, `stopSet` the background tasks, and `asked` those the registry has told to stop. `Join` is the memo lookup
with `shield`, `Work` and `Leave` the chunk task and the removal of its memo entry, `Admit` and `Register` the two
halves of `session_flush` around the await between them, `Cancel` and `Unwind` a cancellation and its arrival, `Drain`,
`GoOn` and `WorkerStopped` the stages of `dispose`.

`LogFanout`: `pending` are the callbacks the handler gave to the event loop, `queue` the broadcast queue, `sending` and
`awaiting` the message and the sends the consumer is at, `received` what each client was sent, `own` the records the
stream logged itself. `SendFails` is a send that raises or times out, together with the `ws.close()` that follows it
(`websocket_manager.py:50`, `:57`): that call has no timeout in the repository, and that it ends is an assumption on the
closing handshake of the WebSocket server, which gives up by itself. `Process` lets a viewer run the log stream and a
server the rest.

### Migrations, Sqlite

`Migrations`: `file` is the lock file, with a number that tells it from one removed before, `stale` its age, `fd` what a
process has open; `done` is what the schema has, `versions` the rows of `schema_migrations`, `seen` and `found` what the
runner read. `Look`, `Remove`, `Open`, `Flock` are the lock; `CheckSystem`, `Create`, `Read`, `Check`, `Mark`, `Apply`
the runner; `Crash` a process ending anywhere. On Postgres the runner has no lock. A file ages only while nobody is at
it.

`Sqlite`: `waiting`, `free` and `queue` are `_waiting_count` and the semaphore (external: fair, and a cancelled waiter
passes its slot on); `cache` is `_vector_dim`, `dims` the table of dimensions, `writer` and `adds` the open transaction.
A process whose dimension check finds a mismatch stays at the lock's release and serves nothing until it ends: in the
code the orchestrator checks and disposes of the adapter (that everything is closed then is `NoLeak` of `Process`).
`Ask` is the entry of `_with_semaphore`, `Resume` and `GiveUp` the two ends of the wait, `Lookup`, `Save`, `Update`,
`Commit`, `Fail` the transactions.

### Retrieval

State: `stored` and `archived` memories, `edges`, the request `ask`, `lists` (the hits of the searches and of the walk)
and the answer. `Gather` are the two searches side by side, `Traverse` the walk and its timeout, `Resolve` the batch
read, `Rank` fusion, order and limits, `Count` the access counts. `Walk` is the recursive query as rows of paths;
`WalkExact` compares it with a definition by hops. Scores are exact: a share is an integer multiple of one unit, so that
ties are ties (`Unit` is divided by every place a hit can have, which its assumption says). `Kept` is the filter that
the code writes as a comprehension or a `WHERE`, by the rank of what stays, so that it can be reasoned about. `Archive`,
`Restore` and `Erase` are what others do meanwhile, `Restore` being the rollback of an ingestion that brings back the
memory it had replaced (`pipeline.py:568`). `dormant` is a history variable: what was archived all through the search.

### Assets

State: `disk`, `staging`, `backup` and `recovery` say what stands at a target, beside it, in the journal's directory and
in the recovery place; `seen` is the preflight snapshot, `journal` the applied entries, `reported` what the rollback
tells the user to look for. `Preflight`, `Validate`, `Stage`, `MoveAway`, `Put`, `Verify` apply a target, `Look`,
`Save`, `Discard`, `Return` undo one, `Conclude` ends, and the `...Fails` actions are those calls raising; `Meddle` is
somebody else's change and `Killed` the end of the process. `Return` is a move whose check was an earlier step: it
replaces a file that has come up meanwhile, and puts a Skill into a directory that has come up. `broken` and `buried`
are history variables for the Skills whose move to the backup broke off and for those that ended in such a directory.
`Order` goes over the plan twice, as the code does: the first pass skips the hooks and the second everything else
(`Skipped`).

## 3. Runs

| Run | Instance | What it shows |
|---|---|---|
| `outbox_concurrent` | 1 memory, 2 servers, 1 catch-up process, batches of 2, 1 retry, Supabase's index, every call may fail, crashes | No interleaving loses a stored memory (`NoLostMemory`); the graph is a mirror in the sense of `GraphMirror` (`MirrorSpec`). |
| `outbox_exclusive` | 2 memories, 1 server, 1 catch-up process, one process at a time | An empty outbox means an exact mirror (`Converged`), nodes of deleted memories are covered (`DeletionCovered`), retry counts never go back (`RetriesNeverRewind`). |
| `outbox_live` | 1 memory, 1 server, batches of 1, 3 retries | Every row is completed or given up (`EventuallySettled`). |
| `outbox_race` | 1 memory, 2 servers at a time, no failure and no crash | `Converged` is **violated**: a merge brings back the node of a memory deleted after it was read. |
| `lifecycle_lease` | 2 servers without a common lock file, one of them pausing, threshold 2, 3 saves, failures, crashes, shutdown | The lease alone excludes runs that are heard of in time (`LeaseHeld`); late runs harm neither the count (`NeverOvercounts`) nor the progress (`ProgressNeverRewinds`). |
| `lifecycle_trigger` | 1 server, no failures | `ThresholdCleans` is **violated**: the one save that triggers a run meets the lock of a finishing run. |
| `ingestion_safe` | 3 chunks (two of equal content on one server, one on another) and an old memory; every call may fail, crashes | The text stays findable unless a chunk breaks off inside a replacement (`NeverEmptied`); only a rollback makes a content active twice (`DoubledByRollbackOnly`). |
| `jobs_run` | 3 memories in a chain of likeness, pages of 2, 3 days, saves and 1 other request, clean-ups and previews (0.95 M states) | Nothing recent is purged (`PurgesOnlyExpired`), what is consolidated leaves a successor (`KeepsSuccessor`), the cursor leaves no memory behind (`CursorCovers`), every run ends (`RunEnds`). |
| `process_shared` | 6 settings (4 servers, 2 dashboards), a save and two flushes that share a chunk, 1 accepted flush, 1 slot, 2 clean-ups, a queue of 2 log records (0.38 M states) | Nothing stays open (`NoLeak`), no text is stored by two tasks (`SingleFlight`) and no cancellation takes work from others (`CancelIsolated`), the limit of flushes holds (`FlushAdmission`), adapters are released after the work was asked to end (`RestAsked`), every call and the shutdown end (`CallsSettle`, `ShutdownEnds`); a client sees the log in order and no client holds up the broadcast (`StreamInOrder`, `BroadcastEnds`). |
| `sqlite_open` | 2 processes with different dimensions, every legacy schema, a stale lock file, 4 requests, 1 slot and 1 place to wait (0.42 M states) | The recorded versions stand for the schema (`SchemaSound`), the gate's counters are exact (`GateExact`), an update never stores an unrecorded dimension (`UpdateAgrees`). |
| `retrieval_search` | 4 memories in 2 projects, all 32 graphs over 5 edges, 6 requests of both tools, failures, 1 memory archived, brought back or deleted meanwhile (0.20 M states) | The walk reaches what its bounds allow (`WalkExact`), and the answer is what the request and the ranks call for (`AnswerSound`). |
| `assets_apply` | 2 Skills in one directory and a hook, any operation failing, 2 changes of others, kill (1.04 M states) | What was there is kept somewhere until the commit (`OriginalsKept`), and a rollback's result is true (`RollbackTruthful`). |

The two violations are disagreements of the code with its documentation; `PROJECT.json` quotes the lines.

**More counterexamples.** Every property of a passing run that leaves something out does so for a reason that can be
looked at. The configurations below are kept beside the runs; each checks one property that says what the repository
promises, and TLC finds it violated by what the code does. The instances of `Outbox`, `Ingestion` and `Jobs` are the
smallest in which it happens, without crashes and with no failure but the one it is about; in `AssetsTorn` and
`AssetsAlone` nobody else changes anything.

| Configuration | Property | Where, and against which line | What happens | What leaves it out |
|---|---|---|---|---|
| `OutboxBatches.cfg` | `ClaimsHeld` | `outbox_worker.py:108`, SPEC.md:1681 | The merge of a batch fails; its DELETE rows stay PROCESSING with nobody at work on them. | `outbox_live` has batches of one row and no crashes, so its liveness is shown under repeated failure only. |
| `IngestionReferences.cfg` | `Accepted` | `graph_linker.py:223`, comment at `:211` | A chunk that mentions a URL or a path is rolled back, although nothing fails, as its reference edge leads to a node that does not exist and SQLite enforces the foreign key: it cannot be stored at all. | No passing run promises that a chunk is stored. |
| `IngestionDoubles.cfg` | `NoDoubles` | `pipeline.py:568`, comment at `:561` | In one process, a rollback un-archives a memory whose content another chunk has stored meanwhile. | `DoubledByRollbackOnly` leaves these contents out (`restored`). |
| `JobsLate.cfg` | `SlippedRepaired` | `pipeline.py:483`, SPEC.md:314 | Of two equal memories the second is stored first; the first comes up behind the consolidator's cursor, and clean-up after clean-up leaves both live. | `CursorCovers` leaves out memories stored `late`, and those a rollback brought back (`restored`). |
| `JobsPrune.cfg` | `PurgesArchived` | `purger.py:122`, docstring at `:60` | With a retention of no days, the purger deletes a memory that a rollback un-archived after it was listed. | `jobs_run` and the theorem have a retention of a day at least. |
| `RetrievalArchived.cfg` | `ArchivedExcluded` | `retrieval/pipeline.py:307`, SPEC.md:451 | A memory archived all through the search is in its answer, by way of the graph. | `AnswerSound` says nothing of `archived_at`. |
| `AssetsBuried.cfg` | `BuriedReported` | `transaction_rollback.py:26`, `:41`, SPEC.md:2034 | An old Skill is moved into a directory that came up after the check; success is reported, without a recovery path. | `OriginalsKept` and `RollbackTruthful` leave `buried` Skills out. |
| `AssetsTorn.cfg` | `TornReported` | `transaction_apply.py:84`, SPEC.md:2034 | A Skill's move to the backup breaks off before it is journalled: it is left in pieces, its copy deleted, and success reported. | The same two leave `broken` Skills out. |
| `AssetsAlone.cfg` | `OthersBlamedRightly` | `transaction_rollback.py:36`, SPEC.md:2034 | Putting one Skill back creates a staging directory beside its sibling, which then stays updated, as a change of others that nobody made. | `RollbackTruthful` lets a Skill stay updated that has a sibling in the journal. |

`outbox_race` is why `DeletionCovered` and `Converged` of `outbox_exclusive` are stated for one process at a time;
`MirrorSpec` allows for it, as `Reflect` may bring a node back.

**Other disagreements** met while modelling, for which there is no configuration:

* Outbox: a back-off collides with another pending row of the memory under `uq_outbox_pending` (SPEC.md:1669); hence
  `outbox_live` and `outbox_exclusive` have no index.
* Clean-up: the count is written back as an absolute value, so a save between `Reload` and `SaveState` is not counted
  (`manager.py:903`, against the comment at 892). Hence `NeverOvercounts` bounds the count from one side only.
* SQLite: a save sets `_vector_dim` before its transaction commits (`sqlite.py:406`). After a rollback the adapter's
  dimension is one no row records, and saves pass that find no reason to record it; hence `UpdateAgrees` is about
  updates, which look it up.
* Log stream: when the queue overflows, the warning about it goes through the same handler and takes a place in the
  queue (`websocket_manager.py:86` by way of `log_collector.py:76`). `MaxWarnings` bounds it, so that no run shows how
  long the two can feed each other.

**Why the other properties are stated as they are.** `NeverEmptied` leaves out chunks that ended after archiving the old
memory and before the new one was saved or after it was deleted again: `save_memory` is outside the `try` block, and no
code repairs a killed or cancelled run. `DoubledByRollbackOnly` is as strong as the code allows: un-archiving in the
rollback does not look whether another chunk stored the content meanwhile. `KeepsSuccessor` leaves out a pair one of
which a request deleted or archived while the run was at work (`lost`): the consolidator acts on what it read. `NoLeak`
lets a viewer keep its provider, and all but its storage when a release raises: the `finally` clause of its lifespan
does not guard one from another. A server cancelled while it starts releases nothing, as its handlers are for
`Exception`; that comes only with the end of the process, and no action stands for it.

**Bounds.** One memory with two workers and a catch-up process has all races for a row, since rows of different memories
meet only in batches; two memories with batches of two have the effects of batches. One retry makes a row pass through
pending, processing, back-off and failed. Two servers are what the two locks can be fought over by, and a third token
(left behind by a dead run) is there as well; threshold 2 and 3 saves give counts below, at and above the threshold and
a save during a run (`MaxSaves` bounds the counter). Three chunks are what it takes to double a content: one that
replaces, one that takes over, one that rolls back. In `jobs_run` three memories in pages of two make a second page, and
a chain makes the middle one both survivor and victim; one request of each kind, anywhere between two steps of a job,
besides the saves and the end of a replacement, meets every window of a decision (`MaxRequests`); `LastDay` 3 lets a
memory expire by the day on which a run began. `Retention` is 1: with 0 a run across midnight purges what it archived
the same night. `TopK` counts a memory among its own neighbours; with more memories than that alike, of any project,
they hide one another and a pair is passed over, so `CursorCovers` needs `TopK` to be as large (`Sparse`, which the
instance satisfies). In `process_shared` a save and two flushes with one text in common make a task with three waiters
and a second chunk behind it; one accepted flush and one slot put both limits at their boundary; `MaxRecords` and
`MaxWarnings` bound the records logged. In `sqlite_open` two processes are what a stale lock is taken by twice, and
three requests on one adapter are one at work, one waiting and one refused. In `retrieval_search` the ring with a
shortcut has paths that differ in length and in cost. `MaxChanges` 2 lets others change a file before and after its
move. Symmetry is used for memories and servers in the runs of `Outbox` without temporal liveness properties.
`CHECK_DEADLOCK FALSE` appears in the runs of `Ingestion`, `Jobs`, `Process`, `Retrieval` and `Assets`: their work is
finite, and when it is done nothing is left to do.

**Fairness.** `Outbox!FairSpec`: every awaited call returns or raises (weak fairness of a worker's next step, with no
say in its outcome), timers fire, a stopped server is started again; a polling loop executes a poll between two looks at
its stop event, so a worker restarted over and over still polls (strong fairness of `Fetch`); a row that stays
PROCESSING over restart after restart gets older than the threshold (strong fairness of its recovery). Nothing is
assumed of clients or crashes. `Lifecycle!FairSpec`: spawned tasks begin, calls return, jobs are finite (strong fairness
of the last heartbeat). Nothing is assumed of saves, of the prune tool or of servers stopping. `Jobs!FairSpec`: the
job's next call returns or raises (weak fairness of `JobStep`); nothing of requests. `Process!FairSpec`: every task the
event loop holds goes on, the stages of the start and of the release return, the timeouts of the shutdown run out, and a
send to a client that does not answer times out. Nothing is assumed of callers, of cancellations or of the end of a
session.

## 4. Proofs

`OutboxProofs`, from `OutboxAssumption` only (any number of memories, servers, catch-up processes, any batch size and
retry budget, with and without the index):

* `TypeCorrect`: `TypeOK`, with every retry count within the budget.
* `NothingLost` and `MirrorRefinement`. `NoLostMemory` is not inductive: that a completion may remove a SYNC row depends
  on what the worker did before. The strengthening `Safe` says that rows, held events and fetched memories tell the
  truth about storage (`RowsTrue`, `EventsTrue`, `MemoriesTrue`: a DELETE event exists only for a deleted memory, and a
  memory never comes back) and how far a batch has come (`SyncsMerged`: before a merge a SYNC event's memory has been
  read or is deleted, before a completion it has a node or is deleted). The proof first reduces every action to what it
  may do to each part of the state (`NextChange`), then shows each conjunct of `Safe` preserved by such a change. The
  refinement uses the same invariant: a step that changes the graph adds saved memories or removes deleted ones, which
  is `Mirror!Reflect`.

* `RetriesOnlyGrow`: `RetriesNeverRewind`, with one process at a time (`Exclusive`). The count written back is one that
  was read with the claim; `Counted` says that whoever sleeps holds nothing, and that what the one at work holds has the
  count of its row, so that adding one never undoes another's.
* `DeletionsCovered` and `Convergence`: `DeletionCovered` and `Converged`, with one process at a time and without the
  index of Supabase. `Covered` says that a deleted memory that has a node, or may get one because a worker has already
  read it, has its DELETE row, and that before a worker completes its DELETE rows the nodes are gone. Together with
  `Safe`, nothing but the exact mirror is left when no row is.

`LifecycleProofs`, from `LifecycleAssumption` only (any servers, threshold, with or without a common lock file, failures
and pauses):

* `TypeCorrect`: `TypeOK`.
* `LockHeld`: `LeaseHeld`, with the strengthening `Lease`, which adds that a token in the database belongs to a run that
  has its release still to do, and that only an abandoned token or the lease of a pausing run is ever stale
  (`TokenTruthful`); hence nobody else's compare-and-swap succeeds, and its own release is the only one that clears it.
* `CountNeverTooHigh` and `CompletionsInOrder`: `NeverOvercounts` and `ProgressNeverRewinds`, by the invariant `Counts`:
  what the owner of the lock loaded is at most what was saved when it started or since, and the owner started no earlier
  than the last completed run; a run that lost the lock is guarded by its token and writes nothing.

`IngestionProofs`, from `IngestionAssumption` only (any chunks, old memories, contents and servers, any failures, with
foreign keys or without):

* `TypeCorrect`: `TypeOK`.
* `OnlyRollbackDoubles`: `DoubledByRollbackOnly`, by the invariant `Apart`: a content lock has one holder; while it is
  at work the active memories of its content are known (the one it found, none, or its own); and there is at most one.
  All of it is about contents that one server stores and of which no rollback un-archived a memory; the others make no
  such memory active.
* `StaysFindable`: `NeverEmptied`, by the invariant `Findable`: an archived memory is owed by a chunk that replaced it,
  one that is yet to save or to un-archive, or whose memory is there (`Owes`). Debts must not run in circles, which
  `Grounded` says without an order of the replacements: every non-empty set of archived memories has a member owed by a
  chunk outside the set. Applied to all archived memories, that chunk is at work or its memory is active.

`ProcessProofs`, from `ServerAssumption` only (any calls, texts, clean-ups, limits and settings):

* `OneTaskPerChunk` and `WorkOnlyEndsItself`: `SingleFlight` and `CancelIsolated`, by the invariant `Entered`: the memo
  entry of a running task is that task, for whoever joins, is cancelled or leaves.
* `FlushesAdmitted`: `FlushAdmission`. Between the check of the limit and the registration lies an await; `Admitting`
  says that only the holder of the lock of `session_flush` is there, and that it still finds the count below the limit.
  The awaited `estimate_chunks` does not suspend for the source type every flush has today (`MANUAL`), so that the lock
  is not what keeps the limit in the present code; the theorem says that it would if the estimate came to suspend.
* `ReleasedLast`: `RestAsked`, by the invariant `Rest`: nothing has begun before the start is over, no flush is on its
  way to registration once the shutdown began, and from the cancelling stage on all registered work has been asked to
  end.
* `NothingLeaks`: `NoLeak`. The invariant `Known` says at every stage of the start what is open by then, that a release
  under way has all that is open still before it, and that a viewer releases its storage first.
* `StreamKeepsOrder`: `StreamInOrder`, with the library's theorems on sequences. The invariant `Streaming` looks at one
  line per client: what it was sent, what is being sent, the broadcast queue and the callbacks, one behind the other
  (`Line`). That line never falls and has no number more often than the handler hands it over (`Ordered`), and every
  step adds a fresh number at its end, moves a border inside it, or leaves an element out.
* `ProcessTyped`: `TypeOK` of the three parts together.

`SqliteProofs`, from `MigrationsAssumption` and `SqliteAssumption` only (any processes, requests, dimensions, slots and
places):

* `SchemaAlwaysSound`: `SchemaSound`. The invariant `Schema` says of each process by itself how what it read and where
  it is relate to the schema, which only grows. No conjunct mentions the lock: the migration is sound even when two
  processes hold it.
* `UpdatesAgree`: `UpdateAgrees`, by `Agreed`: an update between look-up and commit has found its dimension recorded,
  and dimensions are never removed.
* `GateAlwaysExact`: `GateExact`, by `Gate`, which adds that the semaphore's queue holds requests of this adapter that
  wait, each once (`Queued`). The counting is over the set of requests, with the library's theorems on finite
  cardinality; `WakeGate` does the one hard step, a release that hands slots over, once for all five actions that
  release.
* `SqliteTyped`: `TypeOK`, for a finite set of processes. The attempts at the lock stay within their limit because a
  process about to open the file has one left (`Locked`); that a new file has a free number is a pigeonhole argument
  over the processes (`FreshIsFree`); `Recording` does the dimensions.

`JobsProofs`, from `JobsAssumption` (any memories, likeness, page sizes, days, requests and previews):

* `JobsTyped`: `TypeOK`, by `Shaped`, which follows the locals of a run from job to job.
* `PurgesAreDue`: `PurgesOnlyExpired`, with a `Retention` other than 0. The purger tests the row as it was listed and
  deletes by number. The invariant `Kept` says that an expired row on its page is either gone for good, as numbers are
  not used again, or as it was: only live memories are archived by requests, and a request restores only what was
  archived yesterday or today (`Fresh`), which a retention of a day does not let expire.
* `SuccessorsKept`: `KeepsSuccessor`. The consolidator decides on rows it read earlier; `Superseded` says that what it
  has not yet dealt with in this batch is still live or was taken by a request, since all that the run archives itself
  goes into the set it skips (`done`).
* `CursorLeavesNothing`: `CursorCovers`, for memories stored in any order, `late` and `restored` ones left out, if no
  more than `TopK` memories, of any project, resemble one memory, itself included (`Sparse`). `Covered` says, for the
  cursor saved and for the one the run has reached, that no two live memories up to there are similar, and for a batch
  under way what of it was looked at; an unsaved cursor is lost with its run and its pairs are looked at again.

`AssetsProofs`, from `AssetsAssumption` only (any plan, roots, failures and changes of others):

* `AssetsTyped`: `TypeOK`, among it that the journal has each target once.
* `OriginalsAreKept` and `RollbacksAreTruthful`: `OriginalsKept` and `RollbackTruthful`, by the invariant `Traced`. Up
  to the commit the journal records all that was moved away (`Early`); during a rollback it is split by the entry that
  is undone next (`Retracing`): the entries it has still to come to are as they were, those it has left are put back or
  reported. Both leave out `broken` and `buried` Skills (`Away`), of which the code itself keeps no account.

`RetrievalProofs`, from `RetrievalAssumption` only (any memories, graph, rankings, requests and limits). Their invariant
is `Searching`: every source names a memory once.

* `RetrievalTyped`: `TypeOK`.
* `WalksAreExact`: `WalkExact`, for every graph, with its cycles. `NoRowIsBetter`: a row of the query is a walk, so no
  row is less deep than the least depth. `SomeRowIsAsGood`: where the best walk leads back to a memory of the path, the
  row is pruned, but the memory already ends an earlier row that is no deeper (`Beginnings`), from which the rest can be
  walked.
* `AnswersAreSound`: `AnswerSound`. What dominates a hit precedes it in the pool (`PoolFacts`) and scores no less
  (`ScoreMonotone`, from `Quotients`: a share falls with the place); a stable sort keeps it in front (`SortedPrecedes`),
  and so do the filter (`KeptPrecedes`) and the cut. `WithinIs` shows that a longest beginning within the token limit
  exists.

What the recursive functions of `Retrieval` compute is proved by induction over sets of numbers: a set of naturals that
has 0 and with every number the next one is all of them (`Steps`, from the least element that a well-founded order
gives), which is a statement without an operator as its parameter. `Iterates` shows in this way that a function defined
step by step exists, `Ranked` that in a finite order every place is taken once.

The properties the theorems are about are those of the runs in section 3: TLC agreed before they were proved.

Only model-checked: liveness (`EventuallySettled`, `RunEnds`, `CallsSettle`, `ShutdownEnds`, `BroadcastEnds`), which
rests on fairness and on `ENABLED`, out of the prover's reach. Every other property of a passing run has its theorem.
Some of them carry hypotheses the instance satisfies and that the code does not force by itself: `Exclusive` (servers
and the catch-up command one at a time, without the index for two of the three), `Sparse`, and a retention that is not
0; section 3 says what goes wrong otherwise.

## 5. Not modelled, and why

* `--full` synchronisation (documented for maintenance windows), node attributes and edges in Neo4j, and the SQL of the
  adapters: external or without behaviour over time in `src/`.
* Real time: the intervals themselves (polling, back-off, stale timeout) are abstracted to "has passed" or not.
* Embedding providers, source adapters, chunker, classifier, configuration, logging formats: text, HTTP or data
  definitions without state that outlives a call. Caches: no code path fills them. Read-only services of the dashboard.
* `Jobs`: the recomputation of embeddings and the numbers a job returns (a preview counts differently from a run).
* `Process`: the polling of the coherence checker; two log handlers on one logger, which would send a record twice
  (`Copies` above 1). A shielded chunk task is not in the registry: it survives `cancel_all` and fails once the storage
  is gone, which `CancelIsolated` shows from the other side.
* `Migrations`: on Postgres the baseline recognises versions by the prefix of their file and marks two files that share
  `0003` together; the files' contents are reduced to what they create.
* `Sqlite`: rows, queries and their interruption, the check for a disposed adapter.
* `Retrieval`: how well a text matches, the analyser's keywords, token estimates. `edge_types`, `depth` and
  `memory_type` are parameters the code accepts and does not use. The weights the documentation gives for time
  expressions are not in the code.
* `Assets`: the manifest, rendering, symbolic links, permissions, directories left behind by a rollback. A rename within
  a file system is atomic; `rmtree(ignore_errors=True)` is assumed to work.

## 6. Plan

1. *(done)* `GraphMirror`, `Outbox`, `OutboxProofs`; `Lifecycle`, `LifecycleProofs`; `Ingestion`, `IngestionProofs`.
2. *(done)* `Jobs`; `Startup`, `Server`, `LogFanout` and their composition `Process`; `Migrations` and its composition
   with `Sqlite`; `Retrieval`; `Assets`; `ProcessProofs`, `SqliteProofs`, `JobsProofs`, `AssetsProofs`,
   `RetrievalProofs`: every safety property of a passing run has its theorem.
3. `Jobs` composed with the lock of `Lifecycle`, for the runs whose lease is taken over between two heartbeats.
4. Full synchronisation: paging by offset while memories are deleted (`graph_sync.py:128`); node attributes that no
   outbox row follows up (`postgres.py:197`).
5. The chunker's turn splitting against a reference definition.
6. Proofs: abstract specifications of the gate of `Sqlite` and of the shared chunk tasks of `Server`, and that the
   modules implement them; from `Lifecycle`, that a clean-up of `Jobs` runs alone.

## 7. Running the checks

    tlc -workers 2 -config OutboxConcurrent.cfg OutboxMC.tla
    tlapm OutboxProofs.tla

Every configuration belongs to the `MC` module its name starts with.
