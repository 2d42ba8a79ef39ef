------------------------------- MODULE Outbox -------------------------------
(***************************************************************************)
(* The transactional outbox that mirrors stored memories into Neo4j        *)
(* (GRAPH_SYNC_MODE=async_outbox): the storage transaction that saves or   *)
(* deletes a memory inserts a row into graph_sync_outbox, and workers      *)
(* claim rows, apply them to the graph, and delete the rows they completed.*)
(*                                                                         *)
(* A row is named by the transaction that inserted it: a memory id is a    *)
(* fresh UUID, so it is saved once and deleted at most once.  Time is      *)
(* abstract: `due' says whether next_retry_at has passed (which of the due *)
(* rows a fetch takes is left open), and the age of a PROCESSING row is    *)
(* left open where the stuck threshold is applied.                         *)
(***************************************************************************)
EXTENDS Naturals, FiniteSets

CONSTANTS
  Memories,       \* memory ids
  Servers,        \* MCP server processes, each with an outbox worker task
  Clis,           \* processes running sync_storage_to_neo4j.py --catchup
  BatchSize,      \* outbox_batch_size
  MaxRetries,     \* outbox_max_retries
  PendingUnique,  \* the database has the index uq_outbox_pending (Supabase)
  Exclusive,      \* at most one server or CLI runs at a time
  Crashes,        \* a process may be killed in the middle of a batch
  FaultyCalls     \* the awaited calls that may raise

Calls == {"fetch", "read", "merge", "completeSync", "erase",
          "completeDelete", "reset"}

ASSUME OutboxAssumption ==
  /\ BatchSize \in Nat \ {0}
  /\ MaxRetries \in Nat
  /\ PendingUnique \in BOOLEAN
  /\ Exclusive \in BOOLEAN
  /\ Crashes \in BOOLEAN
  /\ FaultyCalls \subseteq Calls
  /\ Servers \cap Clis = {}

VARIABLES
  storage,  \* memory |-> "absent", "live" or "deleted": the memories table
  erasing,  \* deleted memories whose direct delete_node is still to come
  graph,    \* memories that have a Neo4j node
  outbox,   \* the graph_sync_outbox table
  pc,       \* what each process is awaiting; "idle" is the poll sleep
  batch,    \* the events a process holds, as they were when it fetched them
  found     \* the memories get_memories_batch returned to a process

vars == <<storage, erasing, graph, outbox, pc, batch, found>>
clientVars == <<storage, erasing>>

Actors == Servers \cup Clis
RowId == Memories \X {"save", "delete"}
EventType == {"SYNC_MEMORY", "DELETE_MEMORY"}
Row == [status : {"none", "PENDING", "PROCESSING", "FAILED"},
        event : EventType, retry : 0..MaxRetries, due : BOOLEAN]
NoRow == [status |-> "none", event |-> "SYNC_MEMORY", retry |-> 0, due |-> FALSE]
\* What OutboxEvent carries; the worker never looks at the table's copy again.
Event == [row : RowId, event : EventType, retry : 0..MaxRetries]

RowsWith(statuses) == {r \in RowId : outbox[r].status \in statuses}
EventOf(r) == [row |-> r, event |-> outbox[r].event, retry |-> outbox[r].retry]
RowsOf(events) == {e.row : e \in events}
MemoriesOf(events) == {e.row[1] : e \in events}
Syncs(w) == {e \in batch[w] : e.event = "SYNC_MEMORY"}
Deletes(w) == {e \in batch[w] : e.event = "DELETE_MEMORY"}

\* Row r waiting for its next attempt.
Queued(r, retry, due) ==
  [status |-> "PENDING", event |-> outbox[r].event, retry |-> retry, due |-> due]

\* Rows deleted by id, whoever holds them and whatever their status.
Without(rows) == [r \in RowId |-> IF r \in rows THEN NoRow ELSE outbox[r]]

\* uq_outbox_pending: UNIQUE (memory_id) WHERE status = 'PENDING'.
Admissible(table) ==
  PendingUnique =>
    \A m \in Memories : ~ \A k \in {"save", "delete"} :
                            table[<<m, k>>].status = "PENDING"

\* _process_batch handles SYNC events first, then DELETE events.
FirstCall(events) ==
  IF \E e \in events : e.event = "SYNC_MEMORY" THEN "read" ELSE "erase"
Rest(w) == IF w \in Clis THEN "down" ELSE "idle"

MayRun == Exclusive => \A v \in Actors : pc[v] = "down"

Init ==
  /\ storage = [m \in Memories |-> "absent"]
  /\ erasing = {}
  /\ graph = {}
  /\ outbox = [r \in RowId |-> NoRow]
  /\ pc = [w \in Actors |-> "down"]
  /\ batch = [w \in Actors |-> {}]
  /\ found = [w \in Actors |-> {}]

-----------------------------------------------------------------------------
(* Clients: Orchestrator.save and delete, and the Purger.                  *)

NewRow(type) == [status |-> "PENDING", event |-> type, retry |-> 0, due |-> TRUE]

\* save_memory: the memory and its SYNC_MEMORY row in one transaction.
Save(m) ==
  /\ storage[m] = "absent"
  /\ storage' = [storage EXCEPT ![m] = "live"]
  /\ outbox' = [outbox EXCEPT ![<<m, "save">>] = NewRow("SYNC_MEMORY")]
  /\ UNCHANGED <<erasing, graph, pc, batch, found>>

\* Variant (seeded bug): de-duplicating at insertion, against any SYNC row.
DeleteRowDeduplicated(m) ==
  IF outbox[<<m, "save">>].status # "none" THEN outbox
  ELSE [outbox EXCEPT ![<<m, "delete">>] = NewRow("DELETE_MEMORY")]

\* delete_memory_with_outbox turns a pending SYNC row into the DELETE row
\* (ON CONFLICT DO UPDATE); without the index a DELETE row is always added.
DeleteRow(m) ==
  IF PendingUnique /\ outbox[<<m, "save">>].status = "PENDING"
  THEN [outbox EXCEPT ![<<m, "save">>].event = "DELETE_MEMORY"]
  ELSE [outbox EXCEPT ![<<m, "delete">>] = NewRow("DELETE_MEMORY")]

Delete(m) ==
  /\ storage[m] = "live"
  /\ storage' = [storage EXCEPT ![m] = "deleted"]
  /\ outbox' = DeleteRow(m)
  /\ erasing' = erasing \cup {m}
  /\ UNCHANGED <<graph, pc, batch, found>>

\* Variant (seeded bug): the node is deleted before the stored memory is.
DeleteNodeFirst(m) ==
  /\ storage[m] = "live"
  /\ graph' \in {graph, graph \ {m}}
  /\ UNCHANGED <<storage, erasing, outbox, pc, batch, found>>

\* The delete_node call that follows delete_memory: best effort, its errors
\* are logged and dropped, and a crash before it skips it.
DeleteNode(m) ==
  /\ m \in erasing
  /\ erasing' = erasing \ {m}
  /\ graph' \in {graph, graph \ {m}}
  /\ UNCHANGED <<storage, outbox, pc, batch, found>>

-----------------------------------------------------------------------------
(* Worker life cycle.                                                      *)

\* Variant (seeded bug): recovery ignores the retry budget.
RecoveredUnbounded(r) ==
  Queued(r, outbox[r].retry + 1, ~PendingUnique)

\* Variant (seeded bug): recovery starts the retry budget over.
RecoveredAnew(r) ==
  Queued(r, 0, ~PendingUnique)

\* reset_stuck_processing: one more retry, or FAILED when the budget is spent.
\* Only the Supabase RPC moves next_retry_at into the future.
Recovered(r) ==
  IF outbox[r].retry + 1 > MaxRetries
  THEN [outbox[r] EXCEPT !.status = "FAILED"]
  ELSE Queued(r, outbox[r].retry + 1, ~PendingUnique)

Recovery(stuck) ==
  [r \in RowId |-> IF r \in stuck THEN Recovered(r) ELSE outbox[r]]

\* run(): rows PROCESSING for longer than the threshold are recovered, once.
\* When the transaction raises, the warning is logged and polling begins: that
\* is the case stuck = {}, like finding no row old enough.
Start(s) ==
  /\ s \in Servers
  /\ pc[s] = "down"
  /\ MayRun
  /\ \E stuck \in SUBSET RowsWith({"PROCESSING"}) :
       /\ Admissible(Recovery(stuck))
       /\ outbox' = Recovery(stuck)
  /\ pc' = [pc EXCEPT ![s] = "idle"]
  /\ UNCHANGED <<storage, erasing, graph, batch, found>>

\* stop() ends the loop between polls; a crash, or the cancellation dispose
\* falls back on, ends it anywhere.  Either way the batch is forgotten.
Exit(w) ==
  /\ pc[w] # "down"
  /\ pc[w] = "idle" \/ Crashes
  /\ pc' = [pc EXCEPT ![w] = "down"]
  /\ batch' = [batch EXCEPT ![w] = {}]
  /\ found' = [found EXCEPT ![w] = {}]
  /\ UNCHANGED <<storage, erasing, graph, outbox>>

\* next_retry_at passes.
BecomeDue(r) ==
  /\ outbox[r].status = "PENDING"
  /\ ~outbox[r].due
  /\ outbox' = [outbox EXCEPT ![r].due = TRUE]
  /\ UNCHANGED <<storage, erasing, graph, pc, batch, found>>

-----------------------------------------------------------------------------
(* Claiming rows.                                                          *)

Ready == {r \in RowsWith({"PENDING"}) : outbox[r].due}

\* LIMIT batch_size of the rows that are due.
Chosen(rows) ==
  /\ rows \subseteq Ready
  /\ rows # {}
  /\ Cardinality(rows) <= BatchSize
  /\ rows = Ready \/ Cardinality(rows) = BatchSize

Claimed(rows) ==
  [r \in RowId |-> IF r \in rows THEN [outbox[r] EXCEPT !.status = "PROCESSING"]
                                 ELSE outbox[r]]

\* fetch_pending: select the due rows and mark them PROCESSING, atomically.
Fetch(s) ==
  /\ pc[s] = "idle"
  /\ \E rows \in SUBSET Ready :
       /\ Chosen(rows)
       /\ outbox' = Claimed(rows)
       /\ batch' = [batch EXCEPT ![s] = {EventOf(r) : r \in rows}]
       /\ pc' = [pc EXCEPT ![s] = FirstCall({EventOf(r) : r \in rows})]
  /\ UNCHANGED <<storage, erasing, graph, found>>

\* The claim commits and its answer is lost: run() logs it and polls again.
FetchLost(s) ==
  /\ pc[s] = "idle"
  /\ "fetch" \in FaultyCalls
  /\ \E rows \in SUBSET Ready : Chosen(rows) /\ outbox' = Claimed(rows)
  /\ UNCHANGED <<storage, erasing, graph, pc, batch, found>>

\* run_catchup: every row, whatever its status and whoever is processing it,
\* and without claiming it.
CatchUp(c) ==
  LET rows == RowsWith({"PENDING", "PROCESSING", "FAILED"}) IN
  /\ c \in Clis
  /\ pc[c] = "down"
  /\ MayRun
  /\ rows # {}
  /\ batch' = [batch EXCEPT ![c] = {EventOf(r) : r \in rows}]
  /\ pc' = [pc EXCEPT ![c] = FirstCall({EventOf(r) : r \in rows})]
  /\ UNCHANGED <<storage, erasing, graph, outbox, found>>

-----------------------------------------------------------------------------
(* _process_batch, one action per awaited call.                            *)

\* get_memories_batch: SYNC events of memories no longer stored are orphans.
\* With only orphans there is nothing to merge.
Read(w) ==
  LET stored == {m \in MemoriesOf(Syncs(w)) : storage[m] = "live"} IN
  /\ pc[w] = "read"
  /\ found' = [found EXCEPT ![w] = stored]
  /\ pc' = [pc EXCEPT ![w] = IF stored = {} THEN "completeSync" ELSE "merge"]
  /\ UNCHANGED <<storage, erasing, graph, outbox, batch>>

\* bulk_merge_memories: one Cypher transaction merges all nodes.
Merge(w) ==
  /\ pc[w] = "merge"
  /\ graph' = graph \cup found[w]
  /\ pc' = [pc EXCEPT ![w] = "completeSync"]
  /\ UNCHANGED <<storage, erasing, outbox, batch, found>>

\* The batch is over: a server sleeps, a CLI process exits.
Finish(w) ==
  /\ pc' = [pc EXCEPT ![w] = Rest(w)]
  /\ batch' = [batch EXCEPT ![w] = {}]
  /\ found' = [found EXCEPT ![w] = {}]

\* Variant (seeded bug): the whole batch is completed after its SYNC part.
CompleteSyncAll(w) ==
  /\ pc[w] = "completeSync"
  /\ outbox' = Without(RowsOf(batch[w]))
  /\ \/ /\ Deletes(w) = {}
        /\ Finish(w)
     \/ /\ Deletes(w) # {}
        /\ pc' = [pc EXCEPT ![w] = "erase"]
        /\ batch' = [batch EXCEPT ![w] = Deletes(w)]
        /\ found' = [found EXCEPT ![w] = {}]
  /\ UNCHANGED <<storage, erasing, graph>>

\* delete_completed of the SYNC events, orphans included.
CompleteSync(w) ==
  /\ pc[w] = "completeSync"
  /\ outbox' = Without(RowsOf(Syncs(w)))
  /\ \/ /\ Deletes(w) = {}
        /\ Finish(w)
     \/ /\ Deletes(w) # {}
        /\ pc' = [pc EXCEPT ![w] = "erase"]
        /\ batch' = [batch EXCEPT ![w] = Deletes(w)]
        /\ found' = [found EXCEPT ![w] = {}]
  /\ UNCHANGED <<storage, erasing, graph>>

\* bulk_delete_nodes of the DELETE events.
Erase(w) ==
  /\ pc[w] = "erase"
  /\ graph' = graph \ MemoriesOf(Deletes(w))
  /\ pc' = [pc EXCEPT ![w] = "completeDelete"]
  /\ UNCHANGED <<storage, erasing, outbox, batch, found>>

CompleteDelete(w) ==
  /\ pc[w] = "completeDelete"
  /\ outbox' = Without(RowsOf(Deletes(w)))
  /\ Finish(w)
  /\ UNCHANGED <<storage, erasing, graph>>

-----------------------------------------------------------------------------
(* Failures: a call raises, with its effect applied or not.                *)

\* Variant (seeded bug): the except branch only logs.
RetryForgotten(w, events) == Finish(w)

\* The except branch retries the events of its own kind and returns: when the
\* SYNC part fails, the DELETE events of the batch are dropped with it.
Retry(w, events) ==
  /\ pc' = [pc EXCEPT ![w] = "backoff"]
  /\ batch' = [batch EXCEPT ![w] = events]
  /\ found' = [found EXCEPT ![w] = {}]

SyncFails(w) ==
  /\ pc[w] \in {"read", "merge", "completeSync"} \cap FaultyCalls
  /\ \/ UNCHANGED <<graph, outbox>>
     \/ /\ pc[w] = "merge"
        /\ graph' = graph \cup found[w]
        /\ UNCHANGED outbox
     \/ /\ pc[w] = "completeSync"
        /\ outbox' = Without(RowsOf(Syncs(w)))
        /\ UNCHANGED graph
  /\ Retry(w, Syncs(w))
  /\ UNCHANGED clientVars

DeleteFails(w) ==
  /\ pc[w] \in {"erase", "completeDelete"} \cap FaultyCalls
  /\ \/ UNCHANGED <<graph, outbox>>
     \/ /\ pc[w] = "erase"
        /\ graph' = graph \ MemoriesOf(Deletes(w))
        /\ UNCHANGED outbox
     \/ /\ pc[w] = "completeDelete"
        /\ outbox' = Without(RowsOf(Deletes(w)))
        /\ UNCHANGED graph
  /\ Retry(w, Deletes(w))
  /\ UNCHANGED clientVars

\* Variant (seeded bug): an event out of retries is dropped.
BackedOffDropping(e) ==
  IF outbox[e.row].status = "none" THEN outbox
  ELSE IF e.retry + 1 > MaxRetries
       THEN [outbox EXCEPT ![e.row] = NoRow]
       ELSE [outbox EXCEPT ![e.row] = Queued(e.row, e.retry + 1, FALSE)]

\* mark_failed or reset_to_pending of one event, from the retry count it was
\* fetched with; an UPDATE of a row that is gone changes nothing.
BackedOff(e) ==
  IF outbox[e.row].status = "none" THEN outbox
  ELSE IF e.retry + 1 > MaxRetries
       THEN [outbox EXCEPT ![e.row].status = "FAILED"]
       ELSE [outbox EXCEPT ![e.row] = Queued(e.row, e.retry + 1, FALSE)]

\* One round of _apply_backoff's loop.
Backoff(w) ==
  /\ pc[w] = "backoff"
  /\ \E e \in batch[w] :
       /\ Admissible(BackedOff(e))
       /\ outbox' = BackedOff(e)
       /\ \/ /\ batch[w] = {e}
             /\ Finish(w)
          \/ /\ batch[w] # {e}
             /\ batch' = [batch EXCEPT ![w] = @ \ {e}]
             /\ UNCHANGED <<pc, found>>
  /\ UNCHANGED <<storage, erasing, graph>>

\* The update raises, by a failed call or by uq_outbox_pending: the exception
\* leaves _apply_backoff and the remaining events stay as they are.
BackoffFails(w) ==
  /\ pc[w] = "backoff"
  /\ "reset" \in FaultyCalls \/ \E e \in batch[w] : ~Admissible(BackedOff(e))
  /\ Finish(w)
  /\ UNCHANGED <<storage, erasing, graph, outbox>>

-----------------------------------------------------------------------------
ProcessBatch(w) ==
  \/ Read(w) \/ Merge(w) \/ CompleteSync(w)
  \/ Erase(w) \/ CompleteDelete(w)
  \/ SyncFails(w) \/ DeleteFails(w)
  \/ Backoff(w) \/ BackoffFails(w)

Next ==
  \/ \E m \in Memories : Save(m) \/ Delete(m) \/ DeleteNode(m)
  \/ \E r \in RowId : BecomeDue(r)
  \/ \E s \in Servers : Start(s) \/ Fetch(s) \/ FetchLost(s)
  \/ \E c \in Clis : CatchUp(c)
  \/ \E w \in Actors : Exit(w) \/ ProcessBatch(w)

Spec == Init /\ [][Next]_vars

StartRecovering(r) ==
  /\ \E s \in Servers : Start(s)
  /\ outbox[r].status = "PROCESSING" /\ outbox'[r].status # "PROCESSING"

\* A running process keeps executing: every awaited call returns or raises,
\* timers fire, a stopped server is started again, each run of the loop polls
\* before it looks at the stop event (hence SF for Fetch), and a row that stays
\* PROCESSING over restart after restart gets older than the threshold (SF for
\* its recovery).  Nothing is assumed of clients, of crashes, of a restart ever
\* being needed, or of which outcome a call has.
Fairness ==
  /\ \A w \in Actors : WF_vars(ProcessBatch(w))
  /\ \A s \in Servers : WF_vars(Start(s)) /\ SF_vars(Fetch(s))
  /\ \A r \in RowId : WF_vars(BecomeDue(r)) /\ SF_vars(StartRecovering(r))

FairSpec == Spec /\ Fairness

-----------------------------------------------------------------------------
(* Properties.                                                             *)

\* Types; a claimed retry count never exceeds the budget.
TypeOK ==
  /\ storage \in [Memories -> {"absent", "live", "deleted"}]
  /\ erasing \subseteq Memories
  /\ graph \subseteq Memories
  /\ outbox \in [RowId -> Row]
  /\ pc \in [Actors -> {"down", "idle", "backoff"} \cup (Calls \ {"fetch", "reset"})]
  /\ batch \in [Actors -> SUBSET Event]
  /\ found \in [Actors -> SUBSET Memories]

\* However many workers race, crash and fail, a stored memory that has no node
\* still has its SYNC_MEMORY row: no memory is silently lost to the graph.
NoLostMemory ==
  \A m \in Memories :
    storage[m] = "live" /\ m \notin graph => outbox[<<m, "save">>].status # "none"

\* The graph is a mirror in the sense of GraphMirror: in particular no worker
\* ever removes the node of a memory that is still stored.
Mirror == INSTANCE GraphMirror WITH Memories <- Memories, storage <- storage, graph <- graph
MirrorSpec == Mirror!Spec

\* A node of a deleted memory is still covered by a DELETE_MEMORY row.
DeletionCovered ==
  \A m \in graph : storage[m] = "deleted" =>
    \E k \in {"save", "delete"} :
      /\ outbox[<<m, k>>].status # "none"
      /\ outbox[<<m, k>>].event = "DELETE_MEMORY"

\* Convergence: once the outbox is empty and no process holds a batch, the graph has
\* exactly the nodes of the stored memories.
Quiescent ==
  /\ \A r \in RowId : outbox[r].status = "none"
  /\ \A w \in Actors : pc[w] \in {"down", "idle"}
  /\ erasing = {}
Converged == Quiescent => graph = {m \in Memories : storage[m] = "live"}

\* What SPEC.md says of failed calls: their rows are PENDING again, or FAILED.  While
\* no process is killed, a PROCESSING row is in the hands of one (the code does
\* otherwise: the DELETE rows of a batch whose SYNC half failed belong to nobody).
ClaimsHeld == \A r \in RowsWith({"PROCESSING"}) : \E w \in Actors : r \in RowsOf(batch[w])

\* A row's retry count never goes back while the row exists.
RetriesNeverRewind ==
  [][\A r \in RowId : outbox'[r].status # "none" => outbox'[r].retry >= outbox[r].retry]_outbox

\* Every row is eventually completed, or given up with its budget spent.
EventuallySettled ==
  \A r \in RowId : outbox[r].status \in {"PENDING", "PROCESSING"}
                     ~> outbox[r].status \in {"none", "FAILED"}
=============================================================================
