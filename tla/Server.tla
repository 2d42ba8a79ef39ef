------------------------------- MODULE Server -------------------------------
(***************************************************************************)
(* The running MCP server: tool calls that save text, session flushes in   *)
(* the background, the chunk tasks they share, clean-up runs, the outbox   *)
(* worker's task, and the shutdown that ends all of them before the        *)
(* adapters are released (server.py, orchestrator.py, task_registry.py,    *)
(* batch_processor.py, pipeline.py from ingest to the shared task).        *)
(*                                                                         *)
(* An action is what one task does between two awaits.  What a chunk task  *)
(* stores is the subject of Ingestion, what a clean-up does of Lifecycle   *)
(* and Jobs; here they run, end well or raise.                             *)
(***************************************************************************)
EXTENDS Startup, Integers, FiniteSets

CONSTANTS
  Saves,      \* calls of memory_save and memory_save_url
  Flushes,    \* calls of session_flush
  Keys,       \* memo keys
  Chunks,     \* call |-> the memo keys of the chunks of its text, in order
  Cleanups,   \* the time-based check and the clean-up runs of the process
  Check,      \* the time-based check among them
  MaxJobs,    \* batch_max_concurrent_jobs
  Slots,      \* CHUNK_PARALLEL_SEMAPHORE_SIZE
  None

Calls == Saves \cup Flushes
Pieces(c) == DOMAIN Chunks[c]
\* A chunk task is named by the call and the chunk that created it.
Tasks == UNION {{c} \X Pieces(c) : c \in Calls}
KeyOf(t) == Chunks[t[1]][t[2]]

ASSUME ServerAssumption ==
  /\ Saves \cap Flushes = {} /\ Calls \cap Cleanups = {} /\ Check \in Cleanups
  /\ IsFiniteSet(Flushes) /\ IsFiniteSet(Cleanups)
  /\ Chunks \in [Calls -> Seq(Keys)] /\ \A c \in Calls : Chunks[c] # <<>>
  /\ MaxJobs \in Nat \ {0} /\ Slots \in Nat \ {0}
  /\ None \notin Calls \cup Tasks

VARIABLES
  st,         \* where a call is
  left,       \* call |-> its chunks not yet begun
  on,         \* call |-> the chunks it awaits, each with its task
  good,       \* calls one of whose chunks was stored
  flushLock,  \* holder of _flush_lock
  task,       \* chunk task |-> none, run, leaving (in its finally), over
  raised,     \* chunk tasks whose work raised
  memo,       \* _content_results: key |-> task
  cleanup,    \* clean-up |-> new, run or over
  worker,     \* the outbox worker's task: none, created, running or over
  stopSet,    \* its stop event
  asked       \* calls and clean-ups asked to cancel

callVars == <<st, left, on, good, flushLock>>
taskVars == <<task, raised, memo>>
bgVars == <<cleanup, worker, stopSet>>
serverVars == <<callVars, taskVars, bgVars, asked>>
vars == <<startupVars, serverVars>>

Registered == {f \in Flushes : st[f] \in {"queued", "ingest", "hook"}}
              \cup {k \in Cleanups : cleanup[k] = "run"}
Handled == {c \in Calls : st[c] \in {"asking", "estimating"}}
           \cup {c \in Saves : st[c] \in {"ingest", "hook"}}
ShuttingDown == phase \in {"drain", "cancel", "cancelAgain", "release", "down"}
Alive == phase # "down"

ServerInit ==
  /\ st = [c \in Calls |-> "new"]
  /\ left = [c \in Calls |-> {}] /\ on = [c \in Calls |-> {}]
  /\ good = {} /\ flushLock = None
  /\ task = [t \in Tasks |-> "none"] /\ raised = {} /\ memo = [k \in Keys |-> None]
  /\ cleanup = [k \in Cleanups |-> "new"]
  /\ worker = "none" /\ stopSet = FALSE /\ asked = {}

\* start_lifecycle: the time-based check and the worker become tasks.
Ready ==
  /\ StartLifecycle
  /\ cleanup' = [cleanup EXCEPT ![Check] = "run"]
  /\ worker' = IF config.outbox THEN "created" ELSE "none"
  /\ UNCHANGED <<callVars, taskVars, stopSet, asked>>

-----------------------------------------------------------------------------
(* Calls.                                                                  *)

Move(c, next) == st' = [st EXCEPT ![c] = next]

\* The text is fetched, inspected, split and embedded: any of it may raise.
Ingest(c) ==
  \/ Move(c, "ingest") /\ left' = [left EXCEPT ![c] = Pieces(c)]
  \/ Move(c, "failed") /\ UNCHANGED left

Save(c) ==
  /\ phase = "up" /\ ~config.viewer /\ c \in Saves /\ st[c] = "new"
  /\ Ingest(c)
  /\ UNCHANGED <<startupVars, on, good, flushLock, taskVars, bgVars, asked>>

\* session_flush with a log that is neither empty nor too long.
Flush(c) ==
  /\ phase = "up" /\ ~config.viewer /\ c \in Flushes /\ st[c] = "new"
  /\ Move(c, "asking")
  /\ UNCHANGED <<startupVars, left, on, good, flushLock, taskVars, bgVars, asked>>

\* Variant (seeded bug): no _flush_lock around the count and the registration.
AdmitUnlocked(c) ==
  /\ st[c] = "asking"
  /\ Move(c, IF Cardinality(Registered) >= MaxJobs THEN "refused" ELSE "estimating")
  /\ UNCHANGED <<startupVars, left, on, good, flushLock, taskVars, bgVars, asked>>

\* Under the lock the registry's length is compared, clean-ups included.
Admit(c) ==
  /\ st[c] = "asking" /\ flushLock = None
  /\ \/ /\ Cardinality(Registered) >= MaxJobs
        /\ Move(c, "refused")
        /\ UNCHANGED flushLock
     \/ /\ Cardinality(Registered) < MaxJobs
        /\ Move(c, "estimating")
        /\ flushLock' = c
  /\ UNCHANGED <<startupVars, left, on, good, taskVars, bgVars, asked>>

\* estimate_chunks, which rejects unsafe text; then the task is registered.
Register(c) ==
  /\ st[c] = "estimating"
  /\ \E next \in {"queued", "failed"} : Move(c, next)
  /\ flushLock' = None
  /\ UNCHANGED <<startupVars, left, on, good, taskVars, bgVars, asked>>

\* The flush task gets the batch semaphore.
Start(c) ==
  /\ Alive /\ c \in Flushes /\ st[c] = "queued"
  /\ Cardinality({f \in Flushes : st[f] \in {"ingest", "hook"}}) < MaxJobs
  /\ Ingest(c)
  /\ UNCHANGED <<startupVars, on, good, flushLock, taskVars, bgVars, asked>>

\* With a graph the chunks go one by one, without one in parallel.
Sequential == config.graph /\ ~config.outbox
MayBegin(c, i) ==
  IF Sequential THEN on[c] = {} /\ \A j \in left[c] : i <= j
  ELSE Cardinality(UNION {{c2} \X on[c2] : c2 \in Calls}) < Slots

\* Variant (seeded bug): the table of running tasks is not looked at.
JoinAlways(c, i) ==
  /\ Alive /\ st[c] = "ingest" /\ i \in left[c] /\ MayBegin(c, i)
  /\ task' = [task EXCEPT ![<<c, i>>] = "run"]
  /\ memo' = [memo EXCEPT ![KeyOf(<<c, i>>)] = <<c, i>>]
  /\ on' = [on EXCEPT ![c] = @ \cup {<<i, <<c, i>> >>}]
  /\ left' = [left EXCEPT ![c] = @ \ {i}]
  /\ UNCHANGED <<startupVars, st, good, flushLock, raised, bgVars, asked>>

\* _process_chunk: under the mutex, join the running task or create one.
Join(c, i) ==
  /\ Alive /\ st[c] = "ingest" /\ i \in left[c] /\ MayBegin(c, i)
  /\ LET t == <<c, i>> IN
     \/ /\ memo[KeyOf(t)] = None
        /\ task' = [task EXCEPT ![t] = "run"]
        /\ memo' = [memo EXCEPT ![KeyOf(t)] = t]
        /\ on' = [on EXCEPT ![c] = @ \cup {<<i, t>>}]
     \/ /\ memo[KeyOf(t)] # None
        /\ on' = [on EXCEPT ![c] = @ \cup {<<i, memo[KeyOf(t)]>>}]
        /\ UNCHANGED <<task, memo>>
  /\ left' = [left EXCEPT ![c] = @ \ {i}]
  /\ UNCHANGED <<startupVars, st, good, flushLock, raised, bgVars, asked>>

\* The shared task is over: each call that awaits it gets its outcome.
Answer(c, w) ==
  /\ Alive /\ w \in on[c] /\ task[w[2]] = "over"
  /\ on' = [on EXCEPT ![c] = @ \ {w}]
  /\ good' = IF w[2] \in raised THEN good ELSE good \cup {c}
  /\ UNCHANGED <<startupVars, st, left, flushLock, taskVars, bgVars, asked>>

\* ingest returns, or raises if every chunk failed.
Finish(c) ==
  /\ Alive /\ st[c] = "ingest" /\ left[c] = {} /\ on[c] = {}
  /\ Move(c, IF c \in good THEN "hook" ELSE "failed")
  /\ UNCHANGED <<startupVars, left, on, good, flushLock, taskVars, bgVars, asked>>

\* on_memory_saved; the save that reaches the threshold starts a clean-up, if
\* the manager is not shutting down.
Notify(c) ==
  /\ Alive /\ st[c] = "hook"
  /\ Move(c, "done")
  /\ \/ UNCHANGED cleanup
     \/ /\ ~ShuttingDown
        /\ \E k \in Cleanups \ {Check} :
             cleanup[k] = "new" /\ cleanup' = [cleanup EXCEPT ![k] = "run"]
  /\ UNCHANGED <<startupVars, left, on, good, flushLock, taskVars, worker, stopSet, asked>>

\* Variant (seeded bug): the lock is not given back.
UnwindLocked(c) ==
  /\ Move(c, "cancelled")
  /\ left' = [left EXCEPT ![c] = {}] /\ on' = [on EXCEPT ![c] = {}]
  /\ UNCHANGED flushLock

\* CancelledError in the call: it awaits nothing any more and gives back its
\* lock; the tasks it awaited are shielded.
Unwind(c) ==
  /\ Move(c, "cancelled")
  /\ left' = [left EXCEPT ![c] = {}] /\ on' = [on EXCEPT ![c] = {}]
  /\ flushLock' = IF flushLock = c THEN None ELSE flushLock

\* Variant (seeded bug): the shared task is awaited without a shield.
CancelUnshielded(c) ==
  /\ c \in Handled /\ phase = "up"
  /\ Unwind(c)
  /\ asked' = asked \cup {c}
  /\ task' = [t \in Tasks |-> IF \E w \in on[c] : w[2] = t /\ task[t] = "run"
                              THEN "over" ELSE task[t]]
  /\ memo' = [k \in Keys |-> IF memo[k] # None /\ \E w \in on[c] : w[2] = memo[k]
                             THEN None ELSE memo[k]]
  /\ raised' = raised \cup {t \in Tasks : \E w \in on[c] : w[2] = t /\ task[t] = "run"}
  /\ UNCHANGED <<startupVars, good, bgVars>>

\* The client withdraws a call, or the session ends with the call in progress.
Cancel(c) ==
  /\ c \in Handled /\ phase = "up"
  /\ Unwind(c)
  /\ asked' = asked \cup {c}
  /\ UNCHANGED <<startupVars, good, taskVars, bgVars>>

-----------------------------------------------------------------------------
(* Tasks of the event loop.                                                *)

\* The work of a chunk task ends; once the storage is disposed it can only raise.
Work(t) ==
  /\ Alive /\ task[t] = "run"
  /\ task' = [task EXCEPT ![t] = "leaving"]
  /\ \/ "storage" \in open /\ UNCHANGED raised
     \/ raised' = raised \cup {t}
  /\ UNCHANGED <<startupVars, callVars, memo, bgVars, asked>>

\* The task wrapper's finally clause, under the mutex.
Leave(t) ==
  /\ Alive /\ task[t] = "leaving"
  /\ task' = [task EXCEPT ![t] = "over"]
  /\ memo' = IF memo[KeyOf(t)] = t THEN [memo EXCEPT ![KeyOf(t)] = None] ELSE memo
  /\ UNCHANGED <<startupVars, callVars, raised, bgVars, asked>>

CleanupEnds(k) ==
  /\ Alive /\ cleanup[k] = "run"
  /\ cleanup' = [cleanup EXCEPT ![k] = "over"]
  /\ UNCHANGED <<startupVars, callVars, taskVars, worker, stopSet, asked>>

\* run() begins by clearing the stop event.
WorkerBegins ==
  /\ Alive /\ worker = "created"
  /\ worker' = "running" /\ stopSet' = FALSE
  /\ UNCHANGED <<startupVars, callVars, taskVars, cleanup, asked>>

\* Between two polls the loop sees the event.
WorkerReturns ==
  /\ Alive /\ worker = "running" /\ stopSet
  /\ worker' = "over"
  /\ UNCHANGED <<startupVars, callVars, taskVars, cleanup, stopSet, asked>>

-----------------------------------------------------------------------------
(* Shutdown: the lifespan ends when no tool call is being handled.         *)

EndSession ==
  /\ phase = "up" /\ ~config.viewer /\ Handled = {}
  /\ phase' = "stopWorker"
  /\ stopSet' = (worker # "none")
  /\ UNCHANGED <<config, open, closing, callVars, taskVars, cleanup, worker, asked>>

\* Variant (seeded bug): the worker is awaited without a timeout.
WorkerAwaited ==
  /\ phase = "stopWorker"
  /\ worker \in {"none", "over"}
  /\ phase' = "drain"
  /\ UNCHANGED <<config, open, closing, callVars, taskVars, bgVars, asked>>

\* The worker's task ends, or is cancelled after ten seconds.
WorkerStopped ==
  /\ phase = "stopWorker"
  /\ worker' = IF worker = "none" THEN "none" ELSE "over"
  /\ phase' = "drain"
  /\ UNCHANGED <<config, open, closing, callVars, taskVars, cleanup, stopSet, asked>>

\* wait_all or cancel_all is over: nothing is registered, or its time is up.
GoOn(next) ==
  IF Registered = {} THEN Close("up") /\ UNCHANGED asked
  ELSE /\ phase' = next
       /\ asked' = asked \cup Registered
       /\ UNCHANGED <<config, open, closing>>

\* Variant (seeded bug): the shutdown waits but cancels nothing.
DrainUncancelled ==
  /\ phase \in {"drain", "cancel", "cancelAgain"}
  /\ Close("up")
  /\ UNCHANGED serverVars

\* graceful_shutdown waits, then cancels; dispose cancels once more.
Drain ==
  /\ \/ phase = "drain" /\ GoOn("cancel")
     \/ phase = "cancel" /\ GoOn("cancelAgain")
     \/ phase = "cancelAgain" /\ Close("up") /\ UNCHANGED asked
  /\ UNCHANGED <<callVars, taskVars, bgVars>>

\* A registered task that was asked to cancel does so at its next await.
JobCancelled(x) ==
  /\ Alive /\ x \in asked \cap Registered
  /\ \/ /\ x \in Flushes
        /\ Unwind(x)
        /\ UNCHANGED cleanup
     \/ /\ x \in Cleanups
        /\ cleanup' = [cleanup EXCEPT ![x] = "over"]
        /\ UNCHANGED <<st, left, on, flushLock>>
  /\ UNCHANGED <<startupVars, good, taskVars, worker, stopSet, asked>>

-----------------------------------------------------------------------------
CallStep(c) ==
  \/ Admit(c) \/ Register(c) \/ Start(c) \/ Finish(c) \/ Notify(c)
  \/ \E i \in Pieces(c) : Join(c, i)
  \/ \E w \in Pieces(c) \X Tasks : Answer(c, w)
TaskStep(t) == Work(t) \/ Leave(t)
Shutdown == WorkerStopped \/ Drain
BootStep == (Starting /\ UNCHANGED serverVars) \/ Ready

ServerNext ==
  \/ BootStep \/ (Releasing /\ UNCHANGED serverVars)
  \/ EndSession \/ Shutdown \/ WorkerBegins \/ WorkerReturns
  \/ \E c \in Calls : Save(c) \/ Flush(c) \/ Cancel(c) \/ CallStep(c)
  \/ \E t \in Tasks : TaskStep(t)
  \/ \E x \in Flushes \cup Cleanups : JobCancelled(x)
  \/ \E k \in Cleanups : CleanupEnds(k)

\* Every task of the event loop goes on; the timeouts of the shutdown run out.
ServerFairness ==
  /\ WF_vars(BootStep) /\ WF_vars(Releasing /\ UNCHANGED serverVars)
  /\ WF_vars(Shutdown) /\ WF_vars(WorkerBegins)
  /\ \A c \in Calls : WF_vars(CallStep(c))
  /\ \A t \in Tasks : WF_vars(TaskStep(t))

-----------------------------------------------------------------------------
(* Properties.                                                             *)

ServerTypeOK ==
  /\ st \in [Calls -> {"new", "asking", "estimating", "queued", "ingest", "hook",
                       "done", "failed", "refused", "cancelled"}]
  /\ \A c \in Calls : left[c] \subseteq Pieces(c) /\ on[c] \subseteq Pieces(c) \X Tasks
  /\ good \subseteq Calls /\ raised \subseteq Tasks
  /\ flushLock \in Flushes \cup {None}
  /\ task \in [Tasks -> {"none", "run", "leaving", "over"}]
  /\ memo \in [Keys -> Tasks \cup {None}]
  /\ cleanup \in [Cleanups -> {"new", "run", "over"}]
  /\ worker \in {"none", "created", "running", "over"} /\ stopSet \in BOOLEAN
  /\ asked \subseteq Calls \cup Cleanups

\* A chunk is never worked on twice at a time, however calls overlap, are
\* cancelled and come again while the last task is on its way out.
SingleFlight ==
  \A t, u \in Tasks :
    task[t] \in {"run", "leaving"} /\ task[u] \in {"run", "leaving"} /\ KeyOf(t) = KeyOf(u)
      => t = u

\* No more than MaxJobs session flushes are under way, although the check and
\* the registration are an await apart.
FlushAdmission ==
  Cardinality({f \in Flushes : st[f] \in {"queued", "ingest", "hook"}}) <= MaxJobs

\* Cancelling a call, or a job at shutdown, ends no chunk another one awaits:
\* while the storage is open a chunk task is over only after its own work.
CancelIsolated ==
  [][\A t \in Tasks : task[t] = "run" /\ task'[t] # "run" => Work(t)]_vars

\* The storage is not closed under a flush or a clean-up that was never asked
\* to stop.
RestAsked == "storage" \notin open /\ phase \in {"release", "down"} => Registered \subseteq asked

\* Whatever the calls await, all are answered, refused or cancelled in the end,
\* unless the process is taken down.
UnderWay(c) == st[c] \in {"asking", "estimating", "queued", "ingest", "hook"}
CallsSettle ==
  (\E c \in Calls : UnderWay(c)) ~> phase = "down" \/ \A c \in Calls : ~UnderWay(c)

\* The shutdown comes to an end, although a stop event set before the worker
\* began is lost.
ShutdownEnds == phase = "stopWorker" ~> phase = "down"
=============================================================================
