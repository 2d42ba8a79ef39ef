---------------------------- MODULE OutboxProofs ----------------------------
(***************************************************************************)
(* Theorems about Outbox for every set of memories, servers and catch-up   *)
(* processes, every batch size, retry budget and failure assumption.       *)
(***************************************************************************)
EXTENDS Outbox, TLAPS

-----------------------------------------------------------------------------
(* Type correctness.                                                       *)

LEMMA RowTypes ==
  /\ NoRow \in Row
  /\ \A type \in EventType : NewRow(type) \in Row
  /\ \A m \in Memories, k \in {"save", "delete"} : <<m, k>> \in RowId
  BY OutboxAssumption DEF NoRow, NewRow, Row, EventType, RowId

LEMMA EventTypes ==
  ASSUME TypeOK, NEW rows \in SUBSET RowId
  PROVE  {EventOf(r) : r \in rows} \in SUBSET Event
  BY DEF TypeOK, EventOf, Event, Row

LEMMA WithoutType ==
  ASSUME TypeOK, NEW rows
  PROVE  Without(rows) \in [RowId -> Row]
  BY RowTypes DEF TypeOK, Without

\* A row that goes back to the queue.
LEMMA QueuedType ==
  ASSUME TypeOK, NEW r \in RowId, NEW n \in 0..MaxRetries, NEW due \in BOOLEAN
  PROVE  Queued(r, n, due) \in Row
  BY DEF TypeOK, Queued, Row

\* What the table may become in one step of a worker's own bookkeeping.
LEMMA TableTypes ==
  ASSUME TypeOK
  PROVE  /\ \A stuck \in SUBSET RowId : Recovery(stuck) \in [RowId -> Row]
         /\ \A rows \in SUBSET RowId : Claimed(rows) \in [RowId -> Row]
         /\ \A e \in Event : BackedOff(e) \in [RowId -> Row]
         /\ \A m \in Memories : DeleteRow(m) \in [RowId -> Row]
  <1>1. ASSUME NEW stuck \in SUBSET RowId
        PROVE  Recovery(stuck) \in [RowId -> Row]
    <2>1. ASSUME NEW r \in RowId  PROVE  Recovered(r) \in Row
      <3>1. outbox[r] \in Row
        BY <2>1 DEF TypeOK
      <3>2. [outbox[r] EXCEPT !.status = "FAILED"] \in Row
        BY <3>1 DEF Row
      <3>3. (~PendingUnique) \in BOOLEAN
        BY Zenon
      <3>4. ~(outbox[r].retry + 1 > MaxRetries) => outbox[r].retry + 1 \in 0..MaxRetries
        BY <3>1, OutboxAssumption DEF Row
      <3>5. QED
        BY <3>2, <3>3, <3>4, QueuedType, Zenon DEF Recovered
    <2>2. QED  BY <2>1 DEF Recovery, TypeOK
  <1>2. ASSUME NEW rows \in SUBSET RowId
        PROVE  Claimed(rows) \in [RowId -> Row]
    BY DEF TypeOK, Claimed, Row
  <1>3. ASSUME NEW e \in Event  PROVE  BackedOff(e) \in [RowId -> Row]
    <2>1. e.row \in RowId /\ e.retry \in 0..MaxRetries
      BY DEF Event
    <2>2. [outbox EXCEPT ![e.row].status = "FAILED"] \in [RowId -> Row]
      BY <2>1 DEF TypeOK, Row
    <2>3. ASSUME ~(e.retry + 1 > MaxRetries)
          PROVE  Queued(e.row, e.retry + 1, FALSE) \in Row
      <3>1. e.retry + 1 \in 0..MaxRetries
        BY <2>1, <2>3, OutboxAssumption
      <3>2. QED  BY <2>1, <3>1, QueuedType
    <2>4. QED  BY <2>1, <2>2, <2>3 DEF BackedOff, TypeOK
  <1>4. ASSUME NEW m \in Memories  PROVE  DeleteRow(m) \in [RowId -> Row]
    BY RowTypes DEF TypeOK, DeleteRow, Row, EventType
  <1>5. QED  BY <1>1, <1>2, <1>3, <1>4

\* Every step keeps the types.
LEMMA TypeStep ==
  ASSUME TypeOK, [Next]_vars
  PROVE  TypeOK'
  <1>1. ASSUME NEW m \in Memories, Save(m) \/ Delete(m) \/ DeleteNode(m)
        PROVE  TypeOK'
    <2>1. CASE Save(m)
      BY <2>1, RowTypes DEF TypeOK, Save, EventType
    <2>2. CASE Delete(m)
      BY <2>2, TableTypes DEF TypeOK, Delete
    <2>3. CASE DeleteNode(m)
      BY <2>3 DEF TypeOK, DeleteNode
    <2>4. QED  BY <1>1, <2>1, <2>2, <2>3
  <1>2. ASSUME NEW r \in RowId, BecomeDue(r)  PROVE TypeOK'
    BY <1>2 DEF TypeOK, BecomeDue, Row
  <1>3. ASSUME NEW s \in Servers, Start(s) \/ Fetch(s) \/ FetchLost(s)
        PROVE  TypeOK'
    <2>1. CASE Start(s)
      <3>1. PICK stuck \in SUBSET RowsWith({"PROCESSING"}) : outbox' = Recovery(stuck)
        BY <2>1 DEF Start
      <3>2. outbox' \in [RowId -> Row]
        BY <3>1, TableTypes DEF RowsWith
      <3>3. QED  BY <2>1, <3>2 DEF TypeOK, Start
    <2>2. CASE Fetch(s)
      <3>1. PICK rows \in SUBSET Ready :
              /\ outbox' = Claimed(rows)
              /\ batch' = [batch EXCEPT ![s] = {EventOf(r) : r \in rows}]
              /\ pc' = [pc EXCEPT ![s] = FirstCall({EventOf(r) : r \in rows})]
        BY <2>2 DEF Fetch
      <3>2. rows \in SUBSET RowId
        BY <3>1 DEF Ready, RowsWith
      <3>3. outbox' \in [RowId -> Row]
        BY <3>1, <3>2, TableTypes
      <3>4. batch' \in [Actors -> SUBSET Event]
        BY <3>1, <3>2, EventTypes DEF TypeOK
      <3>5. pc' \in [Actors -> {"down", "idle", "backoff"} \cup (Calls \ {"fetch", "reset"})]
        BY <3>1 DEF TypeOK, FirstCall, Calls
      <3>6. QED  BY <2>2, <3>3, <3>4, <3>5 DEF TypeOK, Fetch
    <2>3. CASE FetchLost(s)
      <3>1. PICK rows \in SUBSET Ready : outbox' = Claimed(rows)
        BY <2>3 DEF FetchLost
      <3>2. outbox' \in [RowId -> Row]
        BY <3>1, TableTypes DEF Ready, RowsWith
      <3>3. QED  BY <2>3, <3>2 DEF TypeOK, FetchLost
    <2>4. QED  BY <1>3, <2>1, <2>2, <2>3
  <1>4. ASSUME NEW c \in Clis, CatchUp(c)  PROVE TypeOK'
    <2> DEFINE rows == RowsWith({"PENDING", "PROCESSING", "FAILED"})
    <2>1. {EventOf(r) : r \in rows} \in SUBSET Event
      BY EventTypes DEF RowsWith
    <2>2. FirstCall({EventOf(r) : r \in rows}) \in Calls \ {"fetch", "reset"}
      BY DEF FirstCall, Calls
    <2>3. QED  BY <1>4, <2>1, <2>2 DEF TypeOK, CatchUp
  <1>5. ASSUME NEW w \in Actors, Exit(w)  PROVE TypeOK'
    BY <1>5 DEF TypeOK, Exit
  <1>6. ASSUME NEW w \in Actors, ProcessBatch(w)  PROVE TypeOK'
    <2>1. /\ Syncs(w) \subseteq Event /\ Deletes(w) \subseteq Event
          /\ MemoriesOf(Syncs(w)) \subseteq Memories
          /\ batch[w] \subseteq Event
      BY DEF TypeOK, Syncs, Deletes, MemoriesOf, Event, RowId
    <2>2. Rest(w) \in {"down", "idle"}
      BY DEF Rest
    <2>3. CASE Read(w)
      BY <2>1, <2>3 DEF TypeOK, Read, Calls
    <2>4. CASE Merge(w)
      BY <2>4 DEF TypeOK, Merge, Calls
    <2>5. CASE CompleteSync(w)
      BY <2>1, <2>2, <2>5, WithoutType DEF TypeOK, CompleteSync, Finish, Calls
    <2>6. CASE Erase(w)
      BY <2>6 DEF TypeOK, Erase, Calls
    <2>7. CASE CompleteDelete(w)
      BY <2>2, <2>7, WithoutType DEF TypeOK, CompleteDelete, Finish
    <2>8. CASE SyncFails(w)
      BY <2>1, <2>8, WithoutType DEF TypeOK, SyncFails, Retry, clientVars
    <2>9. CASE DeleteFails(w)
      BY <2>1, <2>9, WithoutType DEF TypeOK, DeleteFails, Retry, clientVars
    <2>10. CASE Backoff(w)
      <3>1. PICK e \in batch[w] :
              /\ outbox' = BackedOff(e)
              /\ \/ Finish(w)
                 \/ batch' = [batch EXCEPT ![w] = @ \ {e}] /\ UNCHANGED <<pc, found>>
        BY <2>10 DEF Backoff
      <3>2. outbox' \in [RowId -> Row]
        BY <2>1, <3>1, TableTypes
      <3>3. QED
        BY <2>1, <2>2, <2>10, <3>1, <3>2 DEF TypeOK, Backoff, Finish
    <2>11. CASE BackoffFails(w)
      BY <2>2, <2>11 DEF TypeOK, BackoffFails, Finish
    <2>12. QED
      BY <1>6, <2>3, <2>4, <2>5, <2>6, <2>7, <2>8, <2>9, <2>10, <2>11
         DEF ProcessBatch
  <1>7. CASE UNCHANGED vars
    BY <1>7 DEF TypeOK, vars
  <1>8. QED
    BY <1>1, <1>2, <1>3, <1>4, <1>5, <1>6, <1>7 DEF Next

\* Every variable keeps its type; in particular no interleaving of recovery,
\* back-off and catch-up takes a row's retry count past outbox_max_retries.
THEOREM TypeCorrect == Spec => []TypeOK
  <1>1. Init => TypeOK
    BY RowTypes DEF Init, TypeOK
  <1>2. QED
    BY <1>1, TypeStep, PTL DEF Spec

-----------------------------------------------------------------------------
(* No memory is lost, and the graph is a mirror.                           *)
(*                                                                         *)
(* The argument: a worker completes a SYNC row only after the memory       *)
(* reached the graph or was seen deleted; a node leaves the graph only for *)
(* a DELETE event, which exists only once the memory is deleted; and a     *)
(* memory never comes back from being deleted.                             *)

Saved(m) == storage[m] # "absent"
Deleted(m) == storage[m] = "deleted"

\* Rows and the copies processes hold of them tell the truth about storage.
RowsTrue ==
  \A r \in RowId : /\ outbox[r].status # "none" => Saved(r[1])
                   /\ outbox[r].event = "DELETE_MEMORY" => Deleted(r[1])
EventsTrue ==
  \A w \in Actors : \A e \in batch[w] :
    /\ Saved(e.row[1])
    /\ e.event = "DELETE_MEMORY" => Deleted(e.row[1])
MemoriesTrue ==
  /\ \A m \in erasing : Deleted(m)
  /\ \A m \in graph : Saved(m)
  /\ \A w \in Actors : \A m \in found[w] : Saved(m)

\* What each SYNC event still needs, by how far the batch has come.
SyncsMerged ==
  \A w \in Actors : \A e \in Syncs(w) :
    /\ pc[w] = "merge" => e.row[1] \in found[w] \/ Deleted(e.row[1])
    /\ pc[w] = "completeSync" => e.row[1] \in graph \/ Deleted(e.row[1])

Safe == RowsTrue /\ EventsTrue /\ MemoriesTrue /\ SyncsMerged /\ NoLostMemory

LEMMA SafeInit == Init => Safe
  BY DEF Init, Safe, RowsTrue, EventsTrue, MemoriesTrue, SyncsMerged,
         NoLostMemory, NoRow, Saved, Deleted, Syncs, RowId

\* Rows only change status: none appears, disappears or changes its event.
Bookkeeping(table) ==
  \A r \in RowId : /\ table[r].event = outbox[r].event
                   /\ table[r].status = "none" <=> outbox[r].status = "none"

LEMMA BookkeepingTables ==
  ASSUME TypeOK
  PROVE  /\ \A stuck \in SUBSET RowsWith({"PROCESSING"}) : Bookkeeping(Recovery(stuck))
         /\ \A rows \in SUBSET Ready : Bookkeeping(Claimed(rows))
         /\ \A e \in Event : Bookkeeping(BackedOff(e))
  <1>1. ASSUME NEW stuck \in SUBSET RowsWith({"PROCESSING"})
        PROVE  Bookkeeping(Recovery(stuck))
    <2>1. ASSUME NEW r \in stuck
          PROVE  /\ r \in RowId /\ outbox[r].status = "PROCESSING"
                 /\ Recovered(r).status # "none"
                 /\ Recovered(r).event = outbox[r].event
      <3>1. r \in RowId /\ outbox[r].status = "PROCESSING" /\ outbox[r] \in Row
        BY DEF RowsWith, TypeOK
      <3>2. /\ [outbox[r] EXCEPT !.status = "FAILED"].status = "FAILED"
            /\ [outbox[r] EXCEPT !.status = "FAILED"].event = outbox[r].event
        BY <3>1 DEF Row
      <3>3. \A n, due : /\ Queued(r, n, due).status = "PENDING"
                        /\ Queued(r, n, due).event = outbox[r].event
        BY DEF Queued
      <3>4. \/ Recovered(r) = [outbox[r] EXCEPT !.status = "FAILED"]
            \/ Recovered(r) = Queued(r, outbox[r].retry + 1, ~PendingUnique)
        BY Zenon DEF Recovered
      <3>5. Recovered(r).status # "none" /\ Recovered(r).event = outbox[r].event
        BY <3>2, <3>3, <3>4, "FAILED" # "none", "PENDING" # "none", Zenon
      <3>6. QED  BY <3>1, <3>5
    <2>2. QED  BY <2>1 DEF Bookkeeping, Recovery
  <1>2. ASSUME NEW rows \in SUBSET Ready
        PROVE  Bookkeeping(Claimed(rows))
    BY DEF TypeOK, Bookkeeping, Claimed, Ready, RowsWith, Row
  <1>3. ASSUME NEW e \in Event  PROVE Bookkeeping(BackedOff(e))
    <2>1. e.row \in RowId
      BY DEF Event
    <2>2. CASE outbox[e.row].status = "none"
      BY <2>2 DEF Bookkeeping, BackedOff
    <2>3. CASE outbox[e.row].status # "none"
      <3>1. \/ BackedOff(e) = [outbox EXCEPT ![e.row].status = "FAILED"]
            \/ BackedOff(e) = [outbox EXCEPT ![e.row] = Queued(e.row, e.retry + 1, FALSE)]
        BY <2>3 DEF BackedOff
      <3>2. Bookkeeping([outbox EXCEPT ![e.row].status = "FAILED"])
        BY <2>1, <2>3 DEF TypeOK, Bookkeeping, Row
      <3>3. Bookkeeping([outbox EXCEPT ![e.row] = Queued(e.row, e.retry + 1, FALSE)])
        BY <2>1, <2>3 DEF TypeOK, Bookkeeping, Queued
      <3>4. QED  BY <3>1, <3>2, <3>3
    <2>4. QED  BY <2>2, <2>3
  <1>4. QED  BY <1>1, <1>2, <1>3

-----------------------------------------------------------------------------
(* What one step may do to each part of the state.                         *)

StorageChange ==
  /\ \A m \in Memories : /\ Saved(m) => Saved(m)'
                         /\ Deleted(m) => Deleted(m)'
  /\ \A m \in erasing' : m \in erasing \/ Deleted(m)'
  /\ UNCHANGED storage \/ \E m \in Memories : Save(m) \/ Delete(m)

TableChange ==
  \/ \E m \in Memories : Save(m) \/ Delete(m)
  \/ Bookkeeping(outbox')
  \/ \E w \in Actors : /\ pc[w] = "completeSync"
                       /\ outbox' = Without(RowsOf(Syncs(w)))
  \/ \E w \in Actors : /\ pc[w] = "completeDelete"
                       /\ outbox' = Without(RowsOf(Deletes(w)))

GraphChange ==
  \/ UNCHANGED graph
  \/ \E m \in erasing : graph' = graph \ {m}
  \/ \E w \in Actors : pc[w] = "merge" /\ graph' = graph \cup found[w]
  \/ \E w \in Actors : pc[w] = "erase" /\ graph' = graph \ MemoriesOf(Deletes(w))

ProcessChange ==
  \A w \in Actors :
    /\ \A e \in batch'[w] :
         e \in batch[w] \/ \E r \in RowId : outbox[r].status # "none" /\ e = EventOf(r)
    /\ \A m \in found'[w] : m \in found[w] \/ storage[m] = "live"
    /\ pc'[w] = "merge" =>
         Read(w) \/ (pc[w] = "merge" /\ batch'[w] = batch[w] /\ found'[w] = found[w])
    /\ pc'[w] = "completeSync" =>
         Read(w) \/ Merge(w) \/ (pc[w] = "completeSync" /\ batch'[w] = batch[w])

Change == StorageChange /\ TableChange /\ GraphChange /\ ProcessChange

LEMMA SameTable == outbox' = outbox => Bookkeeping(outbox')
  BY DEF Bookkeeping

LEMMA SameProcess ==
  UNCHANGED <<pc, batch, found>> => ProcessChange
  BY DEF ProcessChange

LEMMA SameStorage ==
  UNCHANGED clientVars => StorageChange
  BY DEF StorageChange, clientVars, Saved, Deleted

LEMMA ClientChange ==
  ASSUME TypeOK, NEW m \in Memories, Save(m) \/ Delete(m) \/ DeleteNode(m)
  PROVE  Change
  <1>1. StorageChange
    BY DEF TypeOK, Save, Delete, DeleteNode, StorageChange, Saved, Deleted
  <1>2. TableChange
    BY SameTable DEF TableChange, DeleteNode
  <1>3. GraphChange
    BY DEF GraphChange, Save, Delete, DeleteNode
  <1>4. ProcessChange
    BY SameProcess DEF Save, Delete, DeleteNode
  <1>5. QED  BY <1>1, <1>2, <1>3, <1>4 DEF Change

LEMMA TimerChange ==
  ASSUME TypeOK, NEW r \in RowId, BecomeDue(r)
  PROVE  Change
  <1>1. Bookkeeping(outbox')
    BY DEF TypeOK, BecomeDue, Bookkeeping, Row
  <1>2. QED
    BY <1>1, SameProcess, SameStorage
       DEF Change, TableChange, GraphChange, BecomeDue, clientVars

LEMMA LifeCycleChange ==
  ASSUME TypeOK, NEW w \in Actors, (w \in Servers /\ Start(w)) \/ Exit(w)
  PROVE  Change
  <1>1. ASSUME Start(w)  PROVE Bookkeeping(outbox')
    BY <1>1, BookkeepingTables DEF Start
  <1>2. TableChange
    BY <1>1, SameTable DEF TableChange, Exit
  <1>3. ProcessChange
    BY DEF TypeOK, Start, Exit, ProcessChange
  <1>4. QED
    BY <1>2, <1>3, SameStorage DEF Change, GraphChange, Start, Exit, clientVars

LEMMA ClaimChange ==
  ASSUME TypeOK, NEW w \in Actors,
         (w \in Servers /\ (Fetch(w) \/ FetchLost(w))) \/ CatchUp(w)
  PROVE  Change
  <1>1. TableChange
    BY BookkeepingTables, SameTable DEF TableChange, Fetch, FetchLost, CatchUp
  <1>2. ProcessChange
    <2>1. CASE FetchLost(w)
      BY <2>1, SameProcess DEF FetchLost
    <2>2. ASSUME NEW rows \in SUBSET RowId,
                 \A r \in rows : outbox[r].status # "none",
                 batch' = [batch EXCEPT ![w] = {EventOf(r) : r \in rows}],
                 pc' = [pc EXCEPT ![w] = FirstCall({EventOf(r) : r \in rows})],
                 found' = found
          PROVE  ProcessChange
      BY <2>2 DEF TypeOK, ProcessChange, FirstCall
    <2>3. CASE Fetch(w)
      <3>1. PICK rows \in SUBSET Ready :
              /\ batch' = [batch EXCEPT ![w] = {EventOf(r) : r \in rows}]
              /\ pc' = [pc EXCEPT ![w] = FirstCall({EventOf(r) : r \in rows})]
        BY <2>3 DEF Fetch
      <3>2. rows \in SUBSET RowId /\ \A r \in rows : outbox[r].status # "none"
        BY <3>1 DEF Ready, RowsWith
      <3>3. QED  BY <2>2, <2>3, <3>1, <3>2 DEF Fetch
    <2>4. CASE CatchUp(w)
      <3> DEFINE rows == RowsWith({"PENDING", "PROCESSING", "FAILED"})
      <3>1. rows \in SUBSET RowId /\ \A r \in rows : outbox[r].status # "none"
        BY DEF RowsWith
      <3>2. QED  BY <2>2, <2>4, <3>1 DEF CatchUp
    <2>5. QED  BY <2>1, <2>3, <2>4
  <1>3. QED
    BY <1>1, <1>2, SameStorage
       DEF Change, GraphChange, Fetch, FetchLost, CatchUp, clientVars

LEMMA FinishChange ==
  ASSUME TypeOK, NEW w \in Actors, Finish(w)
  PROVE  ProcessChange
  BY DEF TypeOK, Finish, Rest, ProcessChange

LEMMA RetryChange ==
  ASSUME TypeOK, NEW w \in Actors, NEW events \in SUBSET batch[w], Retry(w, events)
  PROVE  ProcessChange
  BY DEF TypeOK, Retry, ProcessChange

LEMMA BatchChange ==
  ASSUME TypeOK, NEW w \in Actors, ProcessBatch(w)
  PROVE  Change
  <1>1. StorageChange
    BY SameStorage
       DEF ProcessBatch, Read, Merge, CompleteSync, Erase, CompleteDelete,
           SyncFails, DeleteFails, Backoff, BackoffFails, clientVars
  <1>2. TableChange
    <2>1. ASSUME Backoff(w)  PROVE Bookkeeping(outbox')
      BY <2>1, BookkeepingTables DEF TypeOK, Backoff
    <2>2. QED
      BY <2>1, SameTable
         DEF ProcessBatch, TableChange, Read, Merge, CompleteSync, Erase,
             CompleteDelete, SyncFails, DeleteFails, BackoffFails
  <1>3. GraphChange
    BY DEF ProcessBatch, GraphChange, Read, Merge, CompleteSync, Erase,
           CompleteDelete, SyncFails, DeleteFails, Backoff, BackoffFails
  <1>4. ProcessChange
    <2>1. Syncs(w) \in SUBSET batch[w] /\ Deletes(w) \in SUBSET batch[w]
      BY DEF Syncs, Deletes
    <2>2. CASE Read(w)
      BY <2>2 DEF TypeOK, Read, ProcessChange
    <2>3. CASE Merge(w)
      BY <2>3 DEF TypeOK, Merge, ProcessChange
    <2>4. CASE CompleteSync(w)
      <3>1. \/ Finish(w)
            \/ /\ pc' = [pc EXCEPT ![w] = "erase"]
               /\ batch' = [batch EXCEPT ![w] = Deletes(w)]
               /\ found' = [found EXCEPT ![w] = {}]
        BY <2>4 DEF CompleteSync
      <3>2. QED
        BY <2>1, <3>1, FinishChange DEF TypeOK, ProcessChange
    <2>5. CASE Erase(w)
      BY <2>5 DEF TypeOK, Erase, ProcessChange
    <2>6. CASE CompleteDelete(w)
      BY <2>6, FinishChange DEF CompleteDelete
    <2>7. CASE SyncFails(w) \/ DeleteFails(w)
      BY <2>1, <2>7, RetryChange DEF SyncFails, DeleteFails
    <2>8. CASE Backoff(w)
      <3>1. PICK e \in batch[w] :
              \/ Finish(w)
              \/ batch' = [batch EXCEPT ![w] = @ \ {e}] /\ UNCHANGED <<pc, found>>
        BY <2>8 DEF Backoff
      <3>2. QED
        BY <2>8, <3>1, FinishChange DEF TypeOK, Backoff, ProcessChange
    <2>9. CASE BackoffFails(w)
      BY <2>9, FinishChange DEF BackoffFails
    <2>10. QED
      BY <2>2, <2>3, <2>4, <2>5, <2>6, <2>7, <2>8, <2>9 DEF ProcessBatch
  <1>5. QED  BY <1>1, <1>2, <1>3, <1>4 DEF Change

LEMMA NextChange ==
  ASSUME TypeOK, [Next]_vars
  PROVE  Change
  <1>1. CASE UNCHANGED vars
    BY <1>1, SameTable, SameProcess, SameStorage
       DEF vars, clientVars, Change, TableChange, GraphChange
  <1>2. CASE Next
    BY <1>2, ClientChange, TimerChange, LifeCycleChange, ClaimChange, BatchChange
       DEF Next, Actors
  <1>3. QED  BY <1>1, <1>2

-----------------------------------------------------------------------------
(* Every step keeps Safe.                                                  *)

\* Only nodes of deleted memories leave the graph.
LEMMA GraphKeeps ==
  ASSUME TypeOK, Safe, Change, NEW m \in graph, ~Deleted(m)
  PROVE  m \in graph'
  <1>1. \A w \in Actors : m \notin MemoriesOf(Deletes(w))
    BY DEF Safe, EventsTrue, MemoriesOf, Deletes
  <1>2. m \notin erasing
    BY DEF Safe, MemoriesTrue
  <1>3. QED  BY <1>1, <1>2 DEF Change, GraphChange

LEMMA RowsStayTrue ==
  ASSUME TypeOK, Safe, Change
  PROVE  RowsTrue'
  <1> SUFFICES ASSUME NEW r \in RowId
               PROVE  /\ outbox'[r].status # "none" => Saved(r[1])'
                      /\ outbox'[r].event = "DELETE_MEMORY" => Deleted(r[1])'
    BY DEF RowsTrue
  <1>1. r[1] \in Memories /\ r \in RowId /\ outbox[r] \in Row
    BY DEF RowId, TypeOK
  <1>2. /\ outbox[r].status # "none" => Saved(r[1])'
        /\ outbox[r].event = "DELETE_MEMORY" => Deleted(r[1])'
    BY <1>1 DEF Safe, RowsTrue, Change, StorageChange
  <1>3. ASSUME NEW m \in Memories, Save(m)
        PROVE  outbox'[r] = outbox[r] \/ (r[1] = m /\ outbox'[r].event = "SYNC_MEMORY")
    BY <1>3, <1>1 DEF TypeOK, Save, NewRow
  <1>4. ASSUME NEW m \in Memories, Delete(m)
        PROVE  outbox'[r] = outbox[r] \/ r[1] = m
    BY <1>4, <1>1 DEF TypeOK, Delete, DeleteRow
  <1>5. ASSUME NEW m \in Memories, Save(m)  PROVE Saved(m)'
    BY <1>5 DEF TypeOK, Save, Saved
  <1>6. ASSUME NEW m \in Memories, Delete(m)  PROVE Saved(m)' /\ Deleted(m)'
    BY <1>6 DEF TypeOK, Delete, Saved, Deleted
  <1>7. ASSUME NEW rows, outbox' = Without(rows)
        PROVE  outbox'[r] \in {outbox[r], NoRow}
    BY <1>7 DEF Without
  <1>8. NoRow.status = "none" /\ NoRow.event = "SYNC_MEMORY"
    BY DEF NoRow
  <1>9. ASSUME Bookkeeping(outbox')
        PROVE  /\ outbox'[r].event = outbox[r].event
               /\ outbox'[r].status = "none" <=> outbox[r].status = "none"
    BY <1>9 DEF Bookkeeping
  <1>10. CASE \E m \in Memories : Save(m) \/ Delete(m)
    BY <1>2, <1>3, <1>4, <1>5, <1>6, <1>10
  <1>11. CASE Bookkeeping(outbox')
    BY <1>2, <1>9, <1>11
  <1>12. CASE \E rows : outbox' = Without(rows)
    BY <1>2, <1>7, <1>8, <1>12
  <1>13. QED
    BY <1>10, <1>11, <1>12 DEF Change, TableChange

LEMMA EventsStayTrue ==
  ASSUME TypeOK, Safe, Change
  PROVE  EventsTrue'
  <1> SUFFICES ASSUME NEW w \in Actors, NEW e \in batch'[w]
               PROVE  /\ Saved(e.row[1])'
                      /\ e.event = "DELETE_MEMORY" => Deleted(e.row[1])'
    BY DEF EventsTrue
  <1>1. CASE e \in batch[w]
    BY <1>1 DEF TypeOK, Event, RowId, Safe, EventsTrue, Change, StorageChange
  <1>2. ASSUME NEW r \in RowId, outbox[r].status # "none", e = EventOf(r)
        PROVE  /\ Saved(e.row[1])'
               /\ e.event = "DELETE_MEMORY" => Deleted(e.row[1])'
    BY <1>2 DEF EventOf, RowId, Safe, RowsTrue, Change, StorageChange
  <1>3. QED  BY <1>1, <1>2 DEF Change, ProcessChange

LEMMA MemoriesStayTrue ==
  ASSUME TypeOK, Safe, Change, TypeOK'
  PROVE  MemoriesTrue'
  <1>1. ASSUME NEW m \in erasing'  PROVE Deleted(m)'
    BY <1>1 DEF TypeOK, Safe, MemoriesTrue, Change, StorageChange
  <1>2. ASSUME NEW w \in Actors, NEW m \in found'[w]  PROVE Saved(m)'
    BY <1>2 DEF TypeOK, Safe, MemoriesTrue, Change, ProcessChange, StorageChange, Saved
  <1>3. ASSUME NEW m \in graph'  PROVE Saved(m)'
    <2>1. m \in graph \/ \E w \in Actors : m \in found[w]
      BY <1>3 DEF Change, GraphChange
    <2>2. Saved(m)
      BY <2>1 DEF Safe, MemoriesTrue
    <2>3. QED  BY <1>3, <2>2 DEF TypeOK, Change, StorageChange
  <1>4. QED  BY <1>1, <1>2, <1>3 DEF MemoriesTrue

LEMMA SyncsStayMerged ==
  ASSUME TypeOK, Safe, Change
  PROVE  SyncsMerged'
  <1> SUFFICES ASSUME NEW w \in Actors, NEW e \in Syncs(w)'
               PROVE  /\ pc'[w] = "merge" => e.row[1] \in found'[w] \/ Deleted(e.row[1])'
                      /\ pc'[w] = "completeSync" =>
                           e.row[1] \in graph' \/ Deleted(e.row[1])'
    BY DEF SyncsMerged
  <1> DEFINE m == e.row[1]
  <1>1. ASSUME batch'[w] = batch[w]
        PROVE  /\ e \in Syncs(w) /\ m \in MemoriesOf(Syncs(w)) /\ m \in Memories
               /\ storage[m] = "live" \/ Deleted(m)
    <2>1. e \in Syncs(w)
      BY <1>1 DEF Syncs
    <2>2. m \in MemoriesOf(Syncs(w)) /\ m \in Memories
      BY <2>1 DEF MemoriesOf, TypeOK, Syncs, Event, RowId
    <2>3. Saved(m)
      BY <2>1 DEF Safe, EventsTrue, Syncs
    <2>4. storage[m] = "live" \/ Deleted(m)
      BY <2>2, <2>3 DEF TypeOK, Saved, Deleted
    <2>5. QED  BY <2>1, <2>2, <2>4
  <1>2. ASSUME m \in Memories, Deleted(m)  PROVE Deleted(m)'
    BY <1>2 DEF Change, StorageChange
  <1>3. CASE Read(w)
    <2>1. batch'[w] = batch[w]
      BY <1>3 DEF Read
    <2>2. CASE Deleted(m)
      BY <1>1, <1>2, <2>1, <2>2
    <2>3. CASE storage[m] = "live"
      BY <1>1, <1>3, <2>1, <2>3 DEF TypeOK, Read
    <2>4. QED  BY <1>1, <2>1, <2>2, <2>3
  <1>4. CASE Merge(w)
    <2>1. batch'[w] = batch[w] /\ pc'[w] = "completeSync" /\ pc[w] = "merge"
      BY <1>4 DEF TypeOK, Merge
    <2>2. m \in found[w] \/ Deleted(m)
      BY <1>1, <2>1 DEF Safe, SyncsMerged
    <2>3. QED  BY <1>1, <1>2, <1>4, <2>1, <2>2 DEF Merge
  <1>5. CASE pc[w] = "merge" /\ batch'[w] = batch[w] /\ found'[w] = found[w] /\ pc'[w] = "merge"
    BY <1>1, <1>2, <1>5 DEF Safe, SyncsMerged
  <1>6. CASE pc[w] = "completeSync" /\ batch'[w] = batch[w] /\ pc'[w] = "completeSync"
    <2>1. m \in graph \/ Deleted(m)
      BY <1>1, <1>6 DEF Safe, SyncsMerged
    <2>2. QED  BY <1>1, <1>2, <1>6, <2>1, GraphKeeps
  <1>7. QED
    BY <1>3, <1>4, <1>5, <1>6 DEF Change, ProcessChange

LEMMA NoMemoryLost ==
  ASSUME TypeOK, Safe, Change
  PROVE  NoLostMemory'
  <1> SUFFICES ASSUME NEW m \in Memories, storage'[m] = "live", m \notin graph'
               PROVE  outbox'[<<m, "save">>].status # "none"
    BY DEF NoLostMemory
  <1>1. CASE Save(m)
    BY <1>1, RowTypes DEF TypeOK, Save, NewRow
  <1>2. CASE ~Save(m)
    <2>1. storage[m] = "live"
      BY <1>2 DEF TypeOK, Change, StorageChange, Save, Delete
    <2>2. m \notin graph /\ ~Deleted(m)
      BY <2>1, GraphKeeps DEF Deleted
    <2>3. outbox[<<m, "save">>].status # "none" /\ <<m, "save">> \in RowId
      BY <2>1, <2>2, RowTypes DEF Safe, NoLostMemory
    <2>4. ASSUME NEW n \in Memories, Save(n) \/ Delete(n)
          PROVE  outbox'[<<m, "save">>].status # "none"
      <3>1. \A k \in {"save", "delete"} : <<n, k>> \in RowId
        BY RowTypes
      <3>2. \A type : NewRow(type).status # "none"
        BY DEF NewRow
      <3>3. CASE Save(n)
        BY <2>3, <3>1, <3>2, <3>3 DEF TypeOK, Save
      <3>4. CASE Delete(n)
        <4>1. CASE outbox' = [outbox EXCEPT ![<<n, "save">>].event = "DELETE_MEMORY"]
          BY <2>3, <3>1, <4>1 DEF TypeOK, Row
        <4>2. CASE outbox' = [outbox EXCEPT ![<<n, "delete">>] = NewRow("DELETE_MEMORY")]
          BY <2>3, <3>1, <3>2, <4>2 DEF TypeOK
        <4>3. QED  BY <3>4, <4>1, <4>2 DEF Delete, DeleteRow
      <3>5. QED  BY <2>4, <3>3, <3>4
    <2>5. ASSUME NEW w \in Actors, pc[w] = "completeSync"
          PROVE  <<m, "save">> \notin RowsOf(Syncs(w))
      BY <2>2, <2>5 DEF Safe, SyncsMerged, RowsOf
    <2>6. ASSUME NEW w \in Actors
          PROVE  <<m, "save">> \notin RowsOf(Deletes(w))
      BY <2>2 DEF Safe, EventsTrue, RowsOf, Deletes
    <2>7. QED
      BY <2>3, <2>4, <2>5, <2>6 DEF Change, TableChange, Bookkeeping, Without
  <1>3. QED  BY <1>1, <1>2

LEMMA SafeStep ==
  ASSUME TypeOK, Safe, [Next]_vars
  PROVE  Safe'
  <1>1. Change /\ TypeOK'
    BY NextChange, TypeStep
  <1>2. QED
    BY <1>1, RowsStayTrue, EventsStayTrue, MemoriesStayTrue, SyncsStayMerged,
       NoMemoryLost DEF Safe

\* The inductive invariant behind the two theorems below.
THEOREM SafeAlways == Spec => []Safe
  BY SafeInit, SafeStep, TypeCorrect, PTL DEF Spec

\* However workers race, crash, fail, lose answers or run out of retries, a
\* stored memory without a node keeps its SYNC_MEMORY row.
THEOREM NothingLost == Spec => []NoLostMemory
  BY SafeAlways, PTL DEF Safe

\* Outbox implements GraphMirror.
THEOREM MirrorRefinement == Spec => MirrorSpec
  <1>1. Init => Mirror!Init
    BY DEF Init, Mirror!Init
  <1>2. ASSUME TypeOK, Safe, [Next]_vars
        PROVE  [Mirror!Next]_(Mirror!vars)
    <2>1. Change
      BY <1>2, NextChange
    <2>2. ASSUME NEW m \in Memories, Save(m) \/ Delete(m)
          PROVE  Mirror!Next
      BY <2>2 DEF Save, Delete, Mirror!Next, Mirror!Save, Mirror!Delete
    <2>3. ASSUME UNCHANGED storage, ~UNCHANGED graph
          PROVE  Mirror!Next
      <3>1. ASSUME NEW added \in SUBSET Memories, NEW removed \in SUBSET Memories,
                   \A m \in added : Saved(m), \A m \in removed : Deleted(m),
                   graph' = (graph \cup added) \ removed
            PROVE  Mirror!Next
        BY <2>3, <3>1 DEF Mirror!Next, Mirror!Reflect, Saved, Deleted
      <3>2. ASSUME NEW m \in erasing, graph' = graph \ {m}
            PROVE  Mirror!Next
        <4>1. /\ {} \in SUBSET Memories /\ {m} \in SUBSET Memories
              /\ \A n \in {m} : Deleted(n)
              /\ graph' = (graph \cup {}) \ {m}
          BY <1>2, <3>2 DEF TypeOK, Safe, MemoriesTrue
        <4>2. QED  BY <3>1, <4>1
      <3>3. ASSUME NEW w \in Actors, graph' = graph \cup found[w]
            PROVE  Mirror!Next
        <4>1. /\ found[w] \in SUBSET Memories /\ {} \in SUBSET Memories
              /\ \A n \in found[w] : Saved(n)
              /\ graph' = (graph \cup found[w]) \ {}
          BY <1>2, <3>3 DEF TypeOK, Safe, MemoriesTrue
        <4>2. QED  BY <3>1, <4>1
      <3>4. ASSUME NEW w \in Actors, graph' = graph \ MemoriesOf(Deletes(w))
            PROVE  Mirror!Next
        <4>1. /\ MemoriesOf(Deletes(w)) \in SUBSET Memories
              /\ \A n \in MemoriesOf(Deletes(w)) : Deleted(n)
          BY <1>2 DEF TypeOK, Safe, EventsTrue, MemoriesOf, Deletes, Event, RowId
        <4>2. /\ {} \in SUBSET Memories
              /\ graph' = (graph \cup {}) \ MemoriesOf(Deletes(w))
          BY <3>4
        <4>3. QED  BY <3>1, <4>1, <4>2
      <3>5. QED
        BY <2>1, <2>3, <3>2, <3>3, <3>4 DEF Change, GraphChange
    <2>4. QED
      BY <2>1, <2>2, <2>3 DEF Change, StorageChange, Mirror!vars
  <1>3. QED
    BY <1>1, <1>2, TypeCorrect, SafeAlways, PTL DEF Spec, MirrorSpec, Mirror!Spec

-----------------------------------------------------------------------------
(* One process at a time (Exclusive): the copies it holds are up to date.  *)

Alone == \A v, w \in Actors : pc[v] # "down" /\ pc[w] # "down" => v = w

\* Nobody holds events while it is down or polls.
EmptyHanded == \A w \in Actors : pc[w] \in {"down", "idle"} => batch[w] = {}

\* A row that is gone has no past; a delete row is that of a deleted memory.
RowsCounted ==
  \A r \in RowId :
    /\ outbox[r].status = "none" => outbox[r].retry = 0
    /\ r[2] = "delete" /\ outbox[r].status # "none" => Deleted(r[1])

\* A process holds one copy of a row, with the retry count the row still has.
CopiesCounted ==
  \A w \in Actors : \A e \in batch[w] :
    /\ outbox[e.row].status # "none" => e.retry = outbox[e.row].retry
    /\ e.row[2] = "delete" => Deleted(e.row[1])
    /\ \A f \in batch[w] : e.row = f.row => e = f

Counted == Alone /\ EmptyHanded /\ RowsCounted /\ CopiesCounted

LEMMA CountedInit == Init => Counted
  BY DEF Init, Counted, Alone, EmptyHanded, RowsCounted, CopiesCounted, NoRow

\* Who runs after a step, and with empty hands when it sleeps.
LEMMA AloneStep ==
  ASSUME Exclusive, TypeOK, Alone, EmptyHanded, [Next]_vars
  PROVE  Alone' /\ EmptyHanded'
  <1>1. CASE UNCHANGED <<pc, batch>>
    BY <1>1 DEF Alone, EmptyHanded
  <1>2. ASSUME NEW w \in Actors, \A v \in Actors \ {w} : pc'[v] = pc[v] /\ batch'[v] = batch[v],
               pc[w] # "down" \/ MayRun,
               pc'[w] \in {"down", "idle"} => batch'[w] = {}
        PROVE  Alone' /\ EmptyHanded'
    BY <1>2 DEF Alone, EmptyHanded, MayRun
  <1>3. ASSUME NEW s \in Servers, Start(s)  PROVE Alone' /\ EmptyHanded'
    BY <1>3, <1>2 DEF TypeOK, Start, Actors, EmptyHanded
  <1>4. ASSUME NEW s \in Servers, Fetch(s)  PROVE Alone' /\ EmptyHanded'
    <2>1. PICK events : /\ batch' = [batch EXCEPT ![s] = events]
                        /\ pc' = [pc EXCEPT ![s] = FirstCall(events)]
      BY <1>4 DEF Fetch
    <2>2. pc'[s] \notin {"down", "idle"}
      BY <2>1 DEF TypeOK, FirstCall, Actors
    <2>3. QED  BY <1>4, <1>2, <2>1, <2>2 DEF TypeOK, Fetch, Actors
  <1>5. ASSUME NEW c \in Clis, CatchUp(c)  PROVE Alone' /\ EmptyHanded'
    <2>1. PICK events : /\ batch' = [batch EXCEPT ![c] = events]
                        /\ pc' = [pc EXCEPT ![c] = FirstCall(events)]
      BY <1>5 DEF CatchUp
    <2>2. pc'[c] \notin {"down", "idle"}
      BY <2>1 DEF TypeOK, FirstCall, Actors
    <2>3. QED  BY <1>5, <1>2, <2>1, <2>2 DEF TypeOK, CatchUp, Actors
  <1>6. ASSUME NEW w \in Actors, Exit(w)  PROVE Alone' /\ EmptyHanded'
    BY <1>6, <1>2 DEF TypeOK, Exit
  <1>7. ASSUME NEW w \in Actors, ProcessBatch(w)  PROVE Alone' /\ EmptyHanded'
    <2>1. /\ \A v \in Actors \ {w} : pc'[v] = pc[v] /\ batch'[v] = batch[v]
          /\ pc[w] # "down"
          /\ pc'[w] \in {"down", "idle"} => batch'[w] = {}
      <3>1. CASE Read(w) \/ Merge(w) \/ Erase(w)
        BY <3>1 DEF TypeOK, Read, Merge, Erase
      <3>2. ASSUME Finish(w), pc[w] # "down"
            PROVE  /\ \A v \in Actors \ {w} : pc'[v] = pc[v] /\ batch'[v] = batch[v]
                   /\ pc[w] # "down"
                   /\ pc'[w] \in {"down", "idle"} => batch'[w] = {}
        BY <3>2 DEF TypeOK, Finish
      <3>3. CASE CompleteSync(w)
        BY <3>2, <3>3 DEF TypeOK, CompleteSync
      <3>4. CASE CompleteDelete(w) \/ BackoffFails(w)
        BY <3>2, <3>4 DEF CompleteDelete, BackoffFails
      <3>5. CASE SyncFails(w) \/ DeleteFails(w)
        BY <3>5 DEF TypeOK, SyncFails, DeleteFails, Retry
      <3>6. CASE Backoff(w)
        BY <3>2, <3>6 DEF TypeOK, Backoff
      <3>7. QED  BY <1>7, <3>1, <3>3, <3>4, <3>5, <3>6 DEF ProcessBatch
    <2>2. QED  BY <1>2, <2>1
  <1>8. QED
    BY <1>1, <1>3, <1>4, <1>5, <1>6, <1>7
       DEF Next, vars, Save, Delete, DeleteNode, BecomeDue, FetchLost

\* A row's retry count does not go back while the row exists.
Grows == \A r \in RowId : outbox'[r].status # "none" => outbox'[r].retry >= outbox[r].retry

\* Most steps delete rows or leave their counts alone ...
Kept(r) == \/ outbox'[r].status = "none" /\ outbox'[r].retry = 0
           \/ /\ outbox'[r].status = "none" <=> outbox[r].status = "none"
              /\ outbox'[r].retry = outbox[r].retry
\* ... and drop copies, or none.
Dropping == \A w \in Actors : batch'[w] \subseteq batch[w]
DeletedStay == \A m \in Memories : Deleted(m) => Deleted(m)'

LEMMA KeptRows ==
  ASSUME TypeOK, Counted, DeletedStay, \A r \in RowId : Kept(r)
  PROVE  Grows /\ RowsCounted'
  <1>1. ASSUME NEW r \in RowId, outbox'[r].status # "none"
        PROVE  outbox[r].status # "none" /\ outbox'[r].retry = outbox[r].retry /\ outbox[r].retry \in Nat
    BY <1>1, OutboxAssumption DEF Kept, TypeOK, Row
  <1>2. Grows
    BY <1>1 DEF Grows
  <1>3. ASSUME NEW r \in RowId
        PROVE  /\ outbox'[r].status = "none" => outbox'[r].retry = 0
               /\ r[2] = "delete" /\ outbox'[r].status # "none" => Deleted(r[1])'
    <2>1. r[1] \in Memories
      BY DEF RowId
    <2>2. QED  BY <1>1, <2>1 DEF Kept, Counted, RowsCounted, DeletedStay
  <1>4. QED  BY <1>2, <1>3 DEF RowsCounted

LEMMA KeptCopies ==
  ASSUME TypeOK, Counted, DeletedStay, Dropping,
         \A w \in Actors : \A e \in batch'[w] :
           outbox'[e.row].status # "none" => outbox[e.row].status # "none" /\ outbox'[e.row].retry = outbox[e.row].retry
  PROVE  CopiesCounted'
  <1> SUFFICES ASSUME NEW w \in Actors, NEW e \in batch'[w]
               PROVE  /\ outbox'[e.row].status # "none" => e.retry = outbox'[e.row].retry
                      /\ e.row[2] = "delete" => Deleted(e.row[1])'
                      /\ \A f \in batch'[w] : e.row = f.row => e = f
    BY DEF CopiesCounted
  <1>1. e \in batch[w] /\ batch'[w] \subseteq batch[w] /\ e.row[1] \in Memories
    BY DEF Dropping, TypeOK, Event, RowId
  <1>2. QED  BY <1>1 DEF Counted, CopiesCounted, DeletedStay

LEMMA KeptStep ==
  ASSUME TypeOK, Counted, DeletedStay, \A r \in RowId : Kept(r), Dropping
  PROVE  Grows /\ RowsCounted' /\ CopiesCounted'
  <1>1. ASSUME NEW w \in Actors, NEW e \in batch'[w], outbox'[e.row].status # "none"
        PROVE  outbox[e.row].status # "none" /\ outbox'[e.row].retry = outbox[e.row].retry
    <2>1. e.row \in RowId
      BY <1>1 DEF Dropping, TypeOK, Event
    <2>2. QED  BY <1>1, <2>1 DEF Kept
  <1>2. QED  BY <1>1, KeptRows, KeptCopies

LEMMA KeptTables ==
  ASSUME TypeOK, NEW r \in RowId,
         \/ outbox' = outbox
         \/ \E rows : outbox' = Without(rows)
         \/ \E rows \in SUBSET Ready : outbox' = Claimed(rows)
         \/ \E q \in RowId : outbox' = [outbox EXCEPT ![q].due = TRUE]
  PROVE  Kept(r)
  <1>1. ASSUME NEW rows, outbox' = Without(rows)  PROVE Kept(r)
    BY <1>1 DEF Kept, Without, NoRow
  <1>2. ASSUME NEW rows \in SUBSET Ready, outbox' = Claimed(rows)  PROVE Kept(r)
    BY <1>2 DEF Kept, TypeOK, Row, Claimed, Ready, RowsWith
  <1>3. ASSUME NEW q \in RowId, outbox' = [outbox EXCEPT ![q].due = TRUE]  PROVE Kept(r)
    BY <1>3 DEF Kept, TypeOK, Row
  <1>4. CASE outbox' = outbox
    BY <1>4 DEF Kept
  <1>5. QED  BY <1>1, <1>2, <1>3, <1>4

LEMMA CountedClient ==
  ASSUME TypeOK, Safe, Counted, NEW m \in Memories, Save(m) \/ Delete(m) \/ DeleteNode(m)
  PROVE  Grows /\ RowsCounted' /\ CopiesCounted'
  <1>1. DeletedStay /\ Dropping
    BY DEF TypeOK, DeletedStay, Dropping, Deleted, Save, Delete, DeleteNode
  <1>2. ASSUME NEW k \in {"save", "delete"}, outbox[<<m, k>>].status = "none",
               NEW type, outbox' = [outbox EXCEPT ![<<m, k>>] = NewRow(type)],
               k = "delete" => Deleted(m)',
               \A w \in Actors : \A e \in batch[w] : e.row # <<m, k>>
        PROVE  Grows /\ RowsCounted' /\ CopiesCounted'
    <2>1. <<m, k>> \in RowId /\ outbox'[<<m, k>>] = NewRow(type)
      BY <1>2, RowTypes DEF TypeOK
    <2>2. NewRow(type).status # "none" /\ NewRow(type).retry = 0
      BY DEF NewRow
    <2>3. \A r \in RowId : r # <<m, k>> => outbox'[r] = outbox[r]
      BY <1>2 DEF TypeOK
    <2>4. outbox[<<m, k>>].retry = 0
      BY <1>2, <2>1 DEF Counted, RowsCounted
    <2>5. Grows
      BY <2>1, <2>2, <2>3, <2>4, OutboxAssumption DEF Grows, TypeOK, Row
    <2>6. RowsCounted'
      <3>1. \A r \in RowId : r[1] \in Memories
        BY DEF RowId
      <3>2. QED
        BY <1>1, <1>2, <2>1, <2>2, <2>3, <3>1 DEF Counted, RowsCounted, DeletedStay
    <2>7. CopiesCounted'
      <3>1. \A w \in Actors : \A e \in batch'[w] : outbox'[e.row] = outbox[e.row]
        BY <1>1, <1>2, <2>3 DEF TypeOK, Event, Dropping
      <3>2. \A w \in Actors : \A e \in batch'[w] :
              outbox'[e.row].status # "none" => outbox[e.row].status # "none" /\ outbox'[e.row].retry = outbox[e.row].retry
        BY <3>1
      <3>3. QED  BY <1>1, <3>2, KeptCopies
    <2>8. QED  BY <2>5, <2>6, <2>7
  <1>3. CASE Save(m)
    <2>1. ~Saved(m) /\ outbox' = [outbox EXCEPT ![<<m, "save">>] = NewRow("SYNC_MEMORY")]
      BY <1>3 DEF Save, Saved
    <2>2. outbox[<<m, "save">>].status = "none"
      BY <2>1, RowTypes DEF Safe, RowsTrue
    <2>3. \A w \in Actors : \A e \in batch[w] : e.row # <<m, "save">>
      BY <2>1 DEF Safe, EventsTrue
    <2>4. QED  BY <1>2, <2>1, <2>2, <2>3
  <1>4. CASE Delete(m)
    <2>1. ~Deleted(m) /\ Deleted(m)' /\ outbox' = DeleteRow(m)
      BY <1>4 DEF TypeOK, Delete, Deleted
    <2>2. CASE outbox' = [outbox EXCEPT ![<<m, "save">>].event = "DELETE_MEMORY"]
      <3>1. \A r \in RowId : Kept(r)
        BY <2>2, RowTypes DEF TypeOK, Row, Kept
      <3>2. QED  BY <1>1, <3>1, KeptStep
    <2>3. CASE outbox' = [outbox EXCEPT ![<<m, "delete">>] = NewRow("DELETE_MEMORY")]
      <3>1. outbox[<<m, "delete">>].status = "none"
        BY <2>1, RowTypes DEF Counted, RowsCounted
      <3>2. \A w \in Actors : \A e \in batch[w] : e.row # <<m, "delete">>
        BY <2>1 DEF Counted, CopiesCounted
      <3>3. QED  BY <1>2, <2>1, <2>3, <3>1, <3>2
    <2>4. QED  BY <2>1, <2>2, <2>3 DEF DeleteRow
  <1>5. CASE DeleteNode(m)
    BY <1>1, <1>5, KeptTables, KeptStep DEF DeleteNode
  <1>6. QED  BY <1>3, <1>4, <1>5

\* Recovery meets no worker that holds a copy: all the others are down.
LEMMA CountedStart ==
  ASSUME Exclusive, TypeOK, Counted, NEW s \in Servers, Start(s)
  PROVE  Grows /\ RowsCounted' /\ CopiesCounted'
  <1>1. DeletedStay
    BY DEF Start, DeletedStay, Deleted
  <1>2. \A w \in Actors : batch'[w] = {}
    BY DEF Start, MayRun, Counted, EmptyHanded
  <1>3. PICK stuck \in SUBSET RowsWith({"PROCESSING"}) : outbox' = Recovery(stuck)
    BY DEF Start
  <1>4. ASSUME NEW r \in RowId
        PROVE  /\ outbox'[r].status = "none" <=> outbox[r].status = "none"
               /\ outbox'[r].retry >= outbox[r].retry
               /\ outbox'[r].status = "none" => outbox'[r].retry = outbox[r].retry
    <2>1. outbox[r] \in Row /\ outbox[r].retry \in Nat
      BY OutboxAssumption DEF TypeOK, Row
    <2>2. CASE r \in stuck
      <3>1. outbox[r].status = "PROCESSING" /\ outbox'[r] = Recovered(r)
        BY <1>3, <2>2 DEF RowsWith, Recovery
      <3>2. \/ outbox'[r] = [outbox[r] EXCEPT !.status = "FAILED"]
            \/ outbox'[r] = Queued(r, outbox[r].retry + 1, ~PendingUnique)
        BY <3>1, Zenon DEF Recovered
      <3>3. CASE outbox'[r] = [outbox[r] EXCEPT !.status = "FAILED"]
        BY <2>1, <3>1, <3>3 DEF Row
      <3>4. CASE outbox'[r] = Queued(r, outbox[r].retry + 1, ~PendingUnique)
        <4>1. outbox'[r].status = "PENDING" /\ outbox'[r].retry = outbox[r].retry + 1
          BY <3>4 DEF Queued
        <4>2. QED  BY <2>1, <3>1, <4>1
      <3>5. QED  BY <3>2, <3>3, <3>4
    <2>3. CASE r \notin stuck
      BY <1>3, <2>1, <2>3 DEF Recovery
    <2>4. QED  BY <2>2, <2>3
  <1>5. RowsCounted'
    <2>1. \A r \in RowId : r[1] \in Memories
      BY DEF RowId
    <2>2. QED  BY <1>1, <1>4, <2>1 DEF Counted, RowsCounted, DeletedStay
  <1>6. QED  BY <1>2, <1>4, <1>5 DEF Grows, CopiesCounted

\* The copies are those of rows that are there.
LEMMA CountedClaim ==
  ASSUME TypeOK, Counted, NEW w \in Actors, NEW rows \in SUBSET RowId,
         \A r \in rows : outbox[r].status # "none" /\ outbox'[r].retry = outbox[r].retry,
         batch' = [batch EXCEPT ![w] = {EventOf(r) : r \in rows}],
         DeletedStay, \A r \in RowId : Kept(r)
  PROVE  Grows /\ RowsCounted' /\ CopiesCounted'
  <1>1. ASSUME NEW v \in Actors, NEW e \in batch'[v]
        PROVE  /\ outbox'[e.row].status # "none" => e.retry = outbox'[e.row].retry
               /\ e.row[2] = "delete" => Deleted(e.row[1])'
               /\ \A f \in batch'[v] : e.row = f.row => e = f
    <2>1. CASE v = w
      <3>1. batch'[v] = {EventOf(r) : r \in rows}
        BY <2>1 DEF TypeOK
      <3>2. \A r \in rows : EventOf(r).row = r /\ EventOf(r).retry = outbox[r].retry
        BY DEF EventOf
      <3>3. PICK r \in rows : e = EventOf(r)
        BY <3>1
      <3>4. e.row = r /\ e.retry = outbox[r].retry /\ r \in RowId /\ r[1] \in Memories
        BY <3>2, <3>3 DEF RowId
      <3>5. r[2] = "delete" => Deleted(r[1])'
        BY <3>4 DEF Counted, RowsCounted, DeletedStay
      <3>6. \A f \in batch'[v] : e.row = f.row => e = f
        BY <3>1, <3>2, <3>3
      <3>7. QED  BY <3>4, <3>5, <3>6
    <2>2. CASE v # w
      <3>1. batch'[v] = batch[v] /\ e \in batch[v] /\ e.row \in RowId /\ e.row[1] \in Memories
        BY <2>2 DEF TypeOK, Event, RowId
      <3>2. QED  BY <3>1 DEF Counted, CopiesCounted, DeletedStay, Kept
    <2>3. QED  BY <2>1, <2>2
  <1>2. CopiesCounted'
    BY <1>1 DEF CopiesCounted
  <1>3. QED  BY <1>2, KeptRows

\* One round of the back-off counts from the copy, which is up to date.
LEMMA CountedBackoff ==
  ASSUME TypeOK, Counted, NEW w \in Actors, Backoff(w)
  PROVE  Grows /\ RowsCounted' /\ CopiesCounted'
  <1>1. DeletedStay /\ pc[w] = "backoff"
    BY DEF Backoff, DeletedStay, Deleted
  <1>2. PICK e \in batch[w] :
          /\ outbox' = BackedOff(e)
          /\ \/ batch[w] = {e} /\ Finish(w)
             \/ batch' = [batch EXCEPT ![w] = @ \ {e}]
    BY DEF Backoff
  <1>3. /\ Dropping /\ e \notin batch'[w]
        /\ \A v \in Actors : v # w => batch'[v] = {}
    <2>1. \A v \in Actors : v # w => batch[v] = {}
      BY <1>1 DEF Counted, Alone, EmptyHanded
    <2>2. QED  BY <1>2, <2>1 DEF TypeOK, Dropping, Finish
  <1>4. e.row \in RowId /\ e.retry \in Nat /\ outbox[e.row] \in Row
    BY <1>2, OutboxAssumption DEF TypeOK, Event
  <1>5. ASSUME NEW r \in RowId
        PROVE  /\ outbox'[r].status = "none" <=> outbox[r].status = "none"
               /\ outbox'[r].retry >= outbox[r].retry
               /\ outbox'[r].status = "none" => outbox'[r].retry = outbox[r].retry
               /\ r # e.row => outbox'[r] = outbox[r]
    <2>1. outbox[r] \in Row /\ outbox[r].retry \in Nat
      BY OutboxAssumption DEF TypeOK, Row
    <2>2. CASE outbox[e.row].status = "none"
      BY <1>2, <2>1, <2>2 DEF BackedOff
    <2>3. CASE outbox[e.row].status # "none"
      <3>1. e.retry = outbox[e.row].retry
        BY <1>2, <2>3 DEF Counted, CopiesCounted
      <3>2. \/ outbox' = [outbox EXCEPT ![e.row].status = "FAILED"]
            \/ outbox' = [outbox EXCEPT ![e.row] = Queued(e.row, e.retry + 1, FALSE)]
        BY <1>2, <2>3 DEF BackedOff
      <3>3. CASE outbox' = [outbox EXCEPT ![e.row].status = "FAILED"]
        BY <1>4, <2>1, <2>3, <3>3 DEF TypeOK, Row
      <3>4. CASE outbox' = [outbox EXCEPT ![e.row] = Queued(e.row, e.retry + 1, FALSE)]
        <4>1. /\ Queued(e.row, e.retry + 1, FALSE).status = "PENDING"
              /\ Queued(e.row, e.retry + 1, FALSE).retry = e.retry + 1
          BY DEF Queued
        <4>2. outbox'[r] = IF r = e.row THEN Queued(e.row, e.retry + 1, FALSE) ELSE outbox[r]
          BY <1>4, <3>4 DEF TypeOK
        <4>3. e.retry + 1 >= e.retry
          BY <1>4
        <4>4. CASE r = e.row
          BY <2>3, <3>1, <4>1, <4>2, <4>3, <4>4
        <4>5. CASE r # e.row
          BY <2>1, <4>2, <4>5
        <4>6. QED  BY <4>4, <4>5
      <3>5. QED  BY <3>2, <3>3, <3>4
    <2>4. QED  BY <2>2, <2>3
  <1>6. RowsCounted'
    <2>1. \A r \in RowId : r[1] \in Memories
      BY DEF RowId
    <2>2. QED  BY <1>1, <1>5, <2>1 DEF Counted, RowsCounted, DeletedStay
  <1>7. ASSUME NEW v \in Actors, NEW f \in batch'[v]
        PROVE  outbox'[f.row] = outbox[f.row]
    <2>1. v = w /\ f \in batch[w] /\ f # e /\ f.row \in RowId
      BY <1>3, <1>7 DEF Dropping, TypeOK, Event
    <2>2. f.row # e.row
      BY <1>2, <2>1 DEF Counted, CopiesCounted
    <2>3. QED  BY <1>5, <2>1, <2>2
  <1>8. CopiesCounted'
    <2>1. \A v \in Actors : \A f \in batch'[v] :
            outbox'[f.row].status # "none" => outbox[f.row].status # "none" /\ outbox'[f.row].retry = outbox[f.row].retry
      BY <1>7
    <2>2. QED  BY <1>1, <1>3, <2>1, KeptCopies
  <1>9. QED  BY <1>5, <1>6, <1>8 DEF Grows

LEMMA CountedStep ==
  ASSUME Exclusive, TypeOK, Safe, Counted, [Next]_vars
  PROVE  Counted' /\ Grows
  <1>1. Alone' /\ EmptyHanded'
    BY AloneStep DEF Counted
  <1>2. DeletedStay
    BY NextChange DEF Change, StorageChange, DeletedStay
  <1>3. ASSUME NEW m \in Memories, Save(m) \/ Delete(m) \/ DeleteNode(m)
        PROVE  Grows /\ RowsCounted' /\ CopiesCounted'
    BY <1>3, CountedClient
  <1>4. ASSUME NEW r \in RowId, BecomeDue(r)  PROVE Grows /\ RowsCounted' /\ CopiesCounted'
    <2>1. Dropping /\ \A q \in RowId : Kept(q)
      BY <1>4, KeptTables DEF BecomeDue, Dropping
    <2>2. QED  BY <1>2, <2>1, KeptStep
  <1>5. ASSUME NEW s \in Servers, Start(s) \/ Fetch(s) \/ FetchLost(s)
        PROVE  Grows /\ RowsCounted' /\ CopiesCounted'
    <2>1. CASE Fetch(s)
      <3>1. PICK rows \in SUBSET Ready :
              /\ outbox' = Claimed(rows)
              /\ batch' = [batch EXCEPT ![s] = {EventOf(r) : r \in rows}]
        BY <2>1 DEF Fetch
      <3>2. rows \in SUBSET RowId
        BY DEF Ready, RowsWith
      <3>3. \A r \in rows : outbox[r].status # "none" /\ outbox'[r].retry = outbox[r].retry
        BY <3>1 DEF Ready, RowsWith, Claimed, TypeOK, Row
      <3>4. \A r \in RowId : Kept(r)
        BY <3>1, KeptTables
      <3>5. s \in Actors
        BY DEF Actors
      <3>6. QED  BY <1>2, <3>1, <3>2, <3>3, <3>4, <3>5, CountedClaim
    <2>2. CASE FetchLost(s)
      <3>1. Dropping /\ \A q \in RowId : Kept(q)
        BY <2>2, KeptTables DEF FetchLost, Dropping
      <3>2. QED  BY <1>2, <3>1, KeptStep
    <2>3. QED  BY <1>5, <2>1, <2>2, CountedStart
  <1>6. ASSUME NEW c \in Clis, CatchUp(c)  PROVE Grows /\ RowsCounted' /\ CopiesCounted'
    <2> DEFINE rows == RowsWith({"PENDING", "PROCESSING", "FAILED"})
    <2>1. outbox' = outbox /\ batch' = [batch EXCEPT ![c] = {EventOf(r) : r \in rows}]
      BY <1>6 DEF CatchUp
    <2>2. rows \in SUBSET RowId /\ \A r \in rows : outbox[r].status # "none"
      BY DEF RowsWith
    <2>3. c \in Actors
      BY DEF Actors
    <2> HIDE DEF rows
    <2>4. \A r \in RowId : Kept(r)
      BY <2>1, KeptTables
    <2>5. QED  BY <1>2, <2>1, <2>2, <2>3, <2>4, CountedClaim
  <1>7. ASSUME NEW w \in Actors, Exit(w) \/ ProcessBatch(w)
        PROVE  Grows /\ RowsCounted' /\ CopiesCounted'
    <2>1. CASE Backoff(w)
      BY <2>1, CountedBackoff
    <2>2. CASE ~Backoff(w)
      <3>1. Dropping
        <4>1. CASE Exit(w) \/ Read(w) \/ Merge(w) \/ Erase(w)
          BY <4>1 DEF TypeOK, Dropping, Exit, Read, Merge, Erase
        <4>2. CASE CompleteSync(w) \/ CompleteDelete(w) \/ BackoffFails(w)
          BY <4>2 DEF TypeOK, Dropping, CompleteSync, CompleteDelete, BackoffFails, Finish, Deletes
        <4>3. CASE SyncFails(w) \/ DeleteFails(w)
          BY <4>3 DEF TypeOK, Dropping, SyncFails, DeleteFails, Retry, Syncs, Deletes
        <4>4. QED  BY <1>7, <2>2, <4>1, <4>2, <4>3 DEF ProcessBatch
      <3>2. outbox' = outbox \/ \E rows : outbox' = Without(rows)
        BY <1>7, <2>2 DEF ProcessBatch, Exit, Read, Merge, CompleteSync, Erase, CompleteDelete,
                          SyncFails, DeleteFails, BackoffFails
      <3>3. \A r \in RowId : Kept(r)
        BY <3>2, KeptTables
      <3>4. QED  BY <1>2, <3>1, <3>3, KeptStep
    <2>3. QED  BY <2>1, <2>2
  <1>8. ASSUME UNCHANGED vars  PROVE Grows /\ RowsCounted' /\ CopiesCounted'
    <2>1. outbox' = outbox /\ batch' = batch
      BY <1>8 DEF vars
    <2>2. \A q \in RowId : Kept(q)
      BY <2>1, KeptTables
    <2>3. Dropping
      BY <2>1 DEF Dropping
    <2>4. QED  BY <1>2, <2>2, <2>3, KeptStep
  <1>9. QED
    BY <1>1, <1>3, <1>4, <1>5, <1>6, <1>7, <1>8 DEF Next, Counted

\* While one process runs at a time, the retry count of a row that exists never
\* goes back: the back-off writes what it computes from a copy, and no copy is
\* out of date.
THEOREM RetriesOnlyGrow == ASSUME Exclusive PROVE Spec => RetriesNeverRewind
  <1>1. Init => Counted
    BY CountedInit
  <1>2. TypeOK /\ Safe /\ Counted /\ [Next]_vars => Counted'
    BY CountedStep
  <1>3. TypeOK /\ Safe /\ Counted /\ [Next]_vars =>
          [\A r \in RowId : outbox'[r].status # "none" => outbox'[r].retry >= outbox[r].retry]_outbox
    BY CountedStep DEF Grows
  <1>4. QED
    BY <1>1, <1>2, <1>3, TypeCorrect, SafeAlways, PTL DEF Spec, RetriesNeverRewind

-----------------------------------------------------------------------------
(* Without the index of Supabase, and one process at a time: the node of a *)
(* deleted memory is covered by its DELETE row until it is gone.           *)

\* A row's event is what it was inserted for, and so is that of a copy.
Unchanged ==
  /\ \A r \in RowId : outbox[r].status # "none" =>
       (outbox[r].event = "DELETE_MEMORY" <=> r[2] = "delete")
  /\ \A w \in Actors : \A e \in batch[w] : e.event = "DELETE_MEMORY" <=> e.row[2] = "delete"

\* The nodes that are there, or about to be.
Reaches(m) == m \in graph \/ \E w \in Actors : pc[w] = "merge" /\ m \in found[w]
Covering ==
  \A m \in Memories : Deleted(m) /\ Reaches(m) => outbox[<<m, "delete">>].status # "none"
Erased == \A w \in Actors : pc[w] = "completeDelete" => MemoriesOf(Deletes(w)) \cap graph = {}
Covered == Alone /\ EmptyHanded /\ Unchanged /\ Covering /\ Erased

LEMMA CoveredInit == Init => Covered
  BY DEF Init, Covered, Alone, EmptyHanded, Unchanged, Covering, Erased, Reaches, NoRow, Deleted

LEMMA UnchangedStep ==
  ASSUME ~PendingUnique, TypeOK, Change, Unchanged
  PROVE  Unchanged'
  <1>1. ASSUME NEW r \in RowId, outbox'[r].status # "none"
        PROVE  outbox'[r].event = "DELETE_MEMORY" <=> r[2] = "delete"
    <2>1. r[1] \in Memories /\ r[2] \in {"save", "delete"} /\ r = <<r[1], r[2]>>
      BY DEF RowId
    <2>2. ASSUME NEW m \in Memories, Save(m)
          PROVE  outbox'[r] = outbox[r] \/ (r[2] = "save" /\ outbox'[r].event = "SYNC_MEMORY")
      <3>1. PICK q \in RowId : q = <<m, "save">>
        BY RowTypes
      <3>2. /\ outbox' = [outbox EXCEPT ![q] = NewRow("SYNC_MEMORY")]
            /\ NewRow("SYNC_MEMORY").event = "SYNC_MEMORY"
        BY <2>2, <3>1 DEF Save, NewRow
      <3>3. CASE r = q
        BY <3>1, <3>2, <3>3 DEF TypeOK
      <3>4. ASSUME r # q  PROVE outbox'[r] = outbox[r]
        BY <3>2, <3>4 DEF TypeOK
      <3>5. QED  BY <3>3, <3>4
    <2>3. ASSUME NEW m \in Memories, Delete(m)
          PROVE  outbox'[r] = outbox[r] \/ (r[2] = "delete" /\ outbox'[r].event = "DELETE_MEMORY")
      <3>1. PICK q \in RowId : q = <<m, "delete">>
        BY RowTypes
      <3>2. /\ outbox' = [outbox EXCEPT ![q] = NewRow("DELETE_MEMORY")]
            /\ NewRow("DELETE_MEMORY").event = "DELETE_MEMORY"
        BY <2>3, <3>1 DEF Delete, DeleteRow, NewRow
      <3>3. CASE r = q
        BY <3>1, <3>2, <3>3 DEF TypeOK
      <3>4. ASSUME r # q  PROVE outbox'[r] = outbox[r]
        BY <3>2, <3>4 DEF TypeOK
      <3>5. QED  BY <3>3, <3>4
    <2>4. ASSUME NEW rows, outbox' = Without(rows)  PROVE outbox'[r] = outbox[r]
      BY <1>1, <2>4 DEF Without, NoRow
    <2>5. ASSUME Bookkeeping(outbox')
          PROVE  outbox'[r].event = outbox[r].event /\ outbox[r].status # "none"
      BY <1>1, <2>5 DEF Bookkeeping
    <2>6. CASE \E m \in Memories : Save(m) \/ Delete(m)
      BY <1>1, <2>2, <2>3, <2>6 DEF Unchanged
    <2>7. CASE ~ \E m \in Memories : Save(m) \/ Delete(m)
      BY <1>1, <2>4, <2>5, <2>7 DEF Change, TableChange, Unchanged
    <2>8. QED  BY <2>6, <2>7
  <1>2. ASSUME NEW w \in Actors, NEW e \in batch'[w]
        PROVE  e.event = "DELETE_MEMORY" <=> e.row[2] = "delete"
    <2>1. ASSUME NEW r \in RowId, outbox[r].status # "none", e = EventOf(r)
          PROVE  e.event = "DELETE_MEMORY" <=> e.row[2] = "delete"
      BY <2>1 DEF EventOf, Unchanged
    <2>2. QED  BY <2>1 DEF Change, ProcessChange, Unchanged
  <1>3. QED  BY <1>1, <1>2 DEF Unchanged

\* The node of a memory seen deleted comes only from what was found before.
LEMMA ReachesNothingNew ==
  ASSUME TypeOK, Change, NEW m \in Memories, Deleted(m), Reaches(m)'
  PROVE  /\ Reaches(m)
         /\ m \in graph' => m \in graph \/ \E w \in Actors : pc[w] = "merge" /\ m \in found[w]
         /\ \A w \in Actors : pc'[w] = "merge" /\ m \in found'[w] => pc[w] = "merge" /\ m \in found[w]
  <1>1. m \in graph' => m \in graph \/ \E w \in Actors : pc[w] = "merge" /\ m \in found[w]
    BY DEF Change, GraphChange
  <1>2. ASSUME NEW w \in Actors, pc'[w] = "merge", m \in found'[w]
        PROVE  pc[w] = "merge" /\ m \in found[w]
    <2>1. ~Read(w)
      BY <1>2 DEF TypeOK, Read, Deleted
    <2>2. QED  BY <1>2, <2>1 DEF Change, ProcessChange
  <1>3. QED  BY <1>1, <1>2 DEF Reaches

LEMMA CoveringStep ==
  ASSUME ~PendingUnique, TypeOK, Change, Covered
  PROVE  Covering'
  <1> SUFFICES ASSUME NEW m \in Memories, Deleted(m)', Reaches(m)'
               PROVE  outbox'[<<m, "delete">>].status # "none"
    BY DEF Covering
  <1>1. <<m, "delete">> \in RowId
    BY RowTypes
  <1>2. CASE Delete(m)
    BY <1>1, <1>2 DEF TypeOK, Delete, DeleteRow, NewRow
  <1>3. CASE ~Delete(m)
    <2>1. Deleted(m)
      BY <1>3 DEF TypeOK, Change, StorageChange, Save, Delete, Deleted
    <2>2. outbox[<<m, "delete">>].status # "none" /\ Reaches(m)
      BY <2>1, ReachesNothingNew DEF Covered, Covering
    <2>3. ASSUME NEW n \in Memories, Save(n) \/ Delete(n)
          PROVE  outbox'[<<m, "delete">>].status # "none"
      <3>1. \A type : NewRow(type).status # "none"
        BY DEF NewRow
      <3>2. QED  BY <1>1, <2>2, <2>3, <3>1 DEF TypeOK, Save, Delete, DeleteRow
    <2>4. ASSUME NEW w \in Actors  PROVE <<m, "delete">> \notin RowsOf(Syncs(w))
      BY DEF Covered, Unchanged, RowsOf, Syncs
    <2>5. ASSUME NEW w \in Actors, pc[w] = "completeDelete"
          PROVE  <<m, "delete">> \notin RowsOf(Deletes(w))
      <3>1. ASSUME NEW v \in Actors, pc[v] = "merge"  PROVE FALSE
        BY <2>5, <3>1 DEF Covered, Alone
      <3>2. m \in graph
        BY <2>2, <3>1 DEF Reaches
      <3>3. m \notin MemoriesOf(Deletes(w))
        BY <2>5, <3>2 DEF Covered, Erased
      <3>4. QED  BY <3>3 DEF RowsOf, MemoriesOf
    <2>6. QED
      BY <1>1, <2>2, <2>3, <2>4, <2>5 DEF Change, TableChange, Bookkeeping, Without
  <1>4. QED  BY <1>2, <1>3

\* How a process comes to complete its DELETE events.
LEMMA EraseFirst ==
  ASSUME TypeOK, [Next]_vars, NEW w \in Actors, pc'[w] = "completeDelete"
  PROVE  Erase(w) \/ (pc[w] = "completeDelete" /\ batch'[w] = batch[w])
  <1>1. CASE UNCHANGED <<pc, batch>>
    BY <1>1
  <1>2. ASSUME NEW v \in Actors, Exit(v) \/ ProcessBatch(v)
        PROVE  Erase(w) \/ (pc[w] = "completeDelete" /\ batch'[w] = batch[w])
    <2>1. ASSUME Finish(v)  PROVE v # w /\ pc[w] = "completeDelete" /\ batch'[w] = batch[w]
      BY <2>1 DEF TypeOK, Finish, Rest
    <2>2. CASE Erase(v)
      BY <2>2 DEF TypeOK, Erase
    <2>3. CASE Exit(v) \/ Read(v) \/ Merge(v)
      BY <2>3 DEF TypeOK, Exit, Read, Merge
    <2>4. CASE CompleteSync(v) \/ Backoff(v)
      BY <2>1, <2>4 DEF TypeOK, CompleteSync, Backoff
    <2>5. CASE CompleteDelete(v) \/ BackoffFails(v)
      BY <2>1, <2>5 DEF CompleteDelete, BackoffFails
    <2>6. CASE SyncFails(v) \/ DeleteFails(v)
      BY <2>6 DEF TypeOK, SyncFails, DeleteFails, Retry
    <2>7. QED
      BY <1>2, <2>2, <2>3, <2>4, <2>5, <2>6 DEF ProcessBatch
  <1>3. ASSUME NEW s \in Servers, Start(s) \/ Fetch(s)
        PROVE  pc[w] = "completeDelete" /\ batch'[w] = batch[w]
    BY <1>3 DEF TypeOK, Start, Fetch, FirstCall
  <1>4. ASSUME NEW c \in Clis, CatchUp(c)
        PROVE  pc[w] = "completeDelete" /\ batch'[w] = batch[w]
    BY <1>4 DEF TypeOK, CatchUp, FirstCall
  <1>5. QED
    BY <1>1, <1>2, <1>3, <1>4 DEF Next, vars, Save, Delete, DeleteNode, BecomeDue, FetchLost

LEMMA ErasedStep ==
  ASSUME TypeOK, Change, Covered, [Next]_vars
  PROVE  Erased'
  <1> SUFFICES ASSUME NEW w \in Actors, pc'[w] = "completeDelete"
               PROVE  (MemoriesOf(Deletes(w)) \cap graph = {})'
    BY DEF Erased
  <1>1. CASE Erase(w)
    BY <1>1 DEF TypeOK, Erase, MemoriesOf, Deletes
  <1>2. CASE pc[w] = "completeDelete" /\ batch'[w] = batch[w]
    <2>1. MemoriesOf(Deletes(w))' = MemoriesOf(Deletes(w))
      BY <1>2 DEF MemoriesOf, Deletes
    <2>2. graph' \subseteq graph
      BY <1>2 DEF Covered, Alone, Change, GraphChange
    <2>3. MemoriesOf(Deletes(w)) \cap graph = {}
      BY <1>2 DEF Covered, Erased
    <2>4. QED  BY <2>1, <2>2, <2>3
  <1>3. QED  BY <1>1, <1>2, EraseFirst

LEMMA CoveredStep ==
  ASSUME Exclusive, ~PendingUnique, TypeOK, Covered, [Next]_vars
  PROVE  Covered'
  <1>1. Change
    BY NextChange
  <1>2. Alone' /\ EmptyHanded'
    BY AloneStep DEF Covered
  <1>3. QED
    BY <1>1, <1>2, UnchangedStep, CoveringStep, ErasedStep DEF Covered

LEMMA CoveredAlways == ASSUME Exclusive, ~PendingUnique PROVE Spec => []Covered
  BY CoveredInit, CoveredStep, TypeCorrect, PTL DEF Spec

\* With one process at a time on PostgreSQL, the node of a deleted memory goes
\* only after its DELETE row, however a worker fails, crashes or restarts.
THEOREM DeletionsCovered ==
  ASSUME Exclusive, ~PendingUnique PROVE Spec => []DeletionCovered
  <1>1. TypeOK /\ Covered => DeletionCovered
    BY RowTypes DEF TypeOK, Covered, Covering, Unchanged, Reaches, Deleted, DeletionCovered
  <1>2. QED  BY <1>1, CoveredAlways, TypeCorrect, PTL

\* Then the graph has exactly the nodes of the stored memories whenever the
\* outbox is empty and no process holds a batch.
THEOREM Convergence ==
  ASSUME Exclusive, ~PendingUnique PROVE Spec => []Converged
  <1>1. TypeOK /\ Safe /\ DeletionCovered => Converged
    BY RowTypes DEF TypeOK, Safe, MemoriesTrue, Saved, NoLostMemory, DeletionCovered, Converged, Quiescent
  <1>2. QED  BY <1>1, DeletionsCovered, TypeCorrect, SafeAlways, PTL
=============================================================================
