------------------------------- MODULE Sqlite -------------------------------
(***************************************************************************)
(* The SQLite storage adapter in use: requests pass a gate of a few slots  *)
(* and a bounded queue, and saves keep to the vector dimension the adapter *)
(* remembers (storage/sqlite.py).  An adapter is there once its process    *)
(* has opened the database (Migrations).                                   *)
(*                                                                         *)
(* A transaction is its first write, which takes the database's write      *)
(* lock, and its commit; either may fail, and a request may be cancelled   *)
(* at any await.                                                           *)
(***************************************************************************)
EXTENDS Migrations, FiniteSetsExt

CONSTANTS
  Requests,
  At,             \* request |-> the process whose adapter it calls
  Kind,           \* request |-> save, update (an embedding), or read
  Dim,            \* process |-> the dimension of its embedding provider
  MaxConcurrent,  \* sqlite_max_concurrent_connections
  MaxQueued       \* sqlite_max_queued_requests

ASSUME SqliteAssumption ==
  /\ At \in [Requests -> Procs] /\ Kind \in [Requests -> {"save", "update", "read"}]
  /\ Dim \in [Procs -> Nat] /\ IsFiniteSet(Requests) /\ None \notin Requests
  /\ MaxConcurrent \in Nat \ {0} /\ MaxQueued \in Nat

VARIABLES
  st,       \* where a request is
  row,      \* request |-> the dimension it read, or None
  waiting,  \* process |-> _waiting_count
  free,     \* process |-> the value of its semaphore
  queue,    \* process |-> the requests that wait for the semaphore
  cache,    \* process |-> _vector_dim
  writer,   \* the request whose transaction holds the write lock
  adds,     \* the dimensions that transaction adds
  dims,     \* rows of vectors_metadata
  stored    \* requests whose embedding is committed

gateVars == <<waiting, free, queue>>
dataVars == <<writer, adds, dims, stored>>
requestVars == <<st, row, gateVars, cache, dataVars>>
vars == <<migrationVars, requestVars>>

Init ==
  /\ MigrationsInit
  /\ st = [r \in Requests |-> "new"] /\ row = [r \in Requests |-> None]
  /\ waiting = [p \in Procs |-> 0] /\ free = [p \in Procs |-> MaxConcurrent]
  /\ queue = [p \in Procs |-> <<>>] /\ cache = [p \in Procs |-> None]
  /\ writer = None /\ adds = {} /\ dims = {} /\ stored = {}

\* SELECT dimension ... LIMIT 1.
Recorded(d) == IF dims = {} THEN d = None ELSE d \in dims

Live == {"waiting", "granted", "active", "looked", "writing"}
Mine(p) == {r \in Requests : At[r] = p}

\* The process is gone and its requests with it; the adapter of the next one
\* is new.
Lost(p) ==
  /\ st' = [r \in Requests |-> IF At[r] = p /\ st[r] \in Live THEN "failed" ELSE st[r]]
  /\ row' = [r \in Requests |-> IF At[r] = p THEN None ELSE row[r]]
  /\ waiting' = [waiting EXCEPT ![p] = 0]
  /\ free' = [free EXCEPT ![p] = MaxConcurrent]
  /\ queue' = [queue EXCEPT ![p] = <<>>]
  /\ cache' = [cache EXCEPT ![p] = None]
  /\ IF writer \in Mine(p) THEN writer' = None /\ adds' = {} ELSE UNCHANGED <<writer, adds>>
  /\ UNCHANGED <<dims, stored>>

\* The adapter loads the dimension when the schema is up to date; the
\* orchestrator does not go on with a provider of another one.
Opening(p) ==
  /\ OpeningStep(p)
  /\ \E d \in Range(Dim) \cup {None} :
       /\ pc'[p] = "up" => Recorded(d) /\ d \in {None, Dim[p]}
       /\ cache' = IF pc'[p] = "up" THEN [cache EXCEPT ![p] = d] ELSE cache
  /\ UNCHANGED <<st, row, gateVars, dataVars>>

Stops(p) == Crash(p) /\ Lost(p)

-----------------------------------------------------------------------------
(* _with_semaphore.                                                        *)

\* r goes on to next; the semaphore of p, with f slots free and q waiting,
\* wakes as many as it can.
Wake(p, r, next, f, q) ==
  LET n == Min({f, Len(q)}) IN
  /\ st' = [x \in Requests |-> IF x = r THEN next
                               ELSE IF \E i \in 1..n : q[i] = x THEN "granted" ELSE st[x]]
  /\ free' = [free EXCEPT ![p] = f - n]
  /\ queue' = [queue EXCEPT ![p] = SubSeq(q, n + 1, Len(q))]

\* Variant (seeded bug): off by one.
FullLate(p) == waiting[p] > MaxQueued

Full(p) == waiting[p] >= MaxQueued

\* A save of another dimension is rejected first.  Then the gate.
Ask(r) ==
  LET p == At[r] IN
  /\ db = "sqlite" /\ pc[p] = "up" /\ st[r] = "new"
  /\ IF Kind[r] = "save" /\ cache[p] \notin {None, Dim[p]}
     THEN st' = [st EXCEPT ![r] = "failed"] /\ UNCHANGED gateVars
     ELSE \/ /\ Full(p)
             /\ st' = [st EXCEPT ![r] = "busy"]
             /\ UNCHANGED gateVars
          \/ /\ ~Full(p)
             /\ free[p] > 0 /\ \A x \in Mine(p) : st[x] \notin {"waiting", "granted"}
             /\ st' = [st EXCEPT ![r] = "active"]
             /\ free' = [free EXCEPT ![p] = @ - 1]
             /\ UNCHANGED <<waiting, queue>>
          \/ /\ ~Full(p)
             /\ free[p] = 0 \/ \E x \in Mine(p) : st[x] \in {"waiting", "granted"}
             /\ st' = [st EXCEPT ![r] = "waiting"]
             /\ waiting' = [waiting EXCEPT ![p] = @ + 1]
             /\ queue' = [queue EXCEPT ![p] = Append(@, r)]
             /\ UNCHANGED free
  /\ UNCHANGED <<migrationVars, row, cache, dataVars>>

Resume(r) ==
  LET p == At[r] IN
  /\ st[r] = "granted"
  /\ waiting' = [waiting EXCEPT ![p] = @ - 1]
  /\ Wake(p, r, "active", free[p], queue[p])
  /\ UNCHANGED <<migrationVars, row, cache, dataVars>>

\* The queue when r has left it, from wherever it stood.
Without(q, r) ==
  LET i == CHOOSE j \in DOMAIN q : q[j] = r IN
  IF r \in Range(q) THEN [j \in 1..(Len(q) - 1) |-> q[IF j < i THEN j ELSE j + 1]] ELSE q

\* Variant (seeded bug): the count goes down only when the slot was got.
GiveUpCounted(r) ==
  LET p == At[r] IN
  /\ st[r] \in {"waiting", "granted"}
  /\ Wake(p, r, "failed", IF st[r] = "granted" THEN free[p] + 1 ELSE free[p],
          Without(queue[p], r))
  /\ UNCHANGED <<migrationVars, row, waiting, cache, dataVars>>

\* The wait times out or is cancelled, perhaps as the slot was handed over.
GiveUp(r) ==
  LET p == At[r] IN
  /\ st[r] \in {"waiting", "granted"}
  /\ waiting' = [waiting EXCEPT ![p] = @ - 1]
  /\ Wake(p, r, "failed", IF st[r] = "granted" THEN free[p] + 1 ELSE free[p],
          Without(queue[p], r))
  /\ UNCHANGED <<migrationVars, row, cache, dataVars>>

\* The slot is released when the request is over.
Leave(r, how) == Wake(At[r], r, how, free[At[r]] + 1, queue[At[r]])

-----------------------------------------------------------------------------
(* save_memory, update_memory with an embedding, and everything that reads. *)

\* Also an update whose memory is not there.
ReadOut(r) ==
  /\ st[r] = "active" /\ Kind[r] \in {"read", "update"}
  /\ Leave(r, "done")
  /\ UNCHANGED <<migrationVars, row, waiting, cache, dataVars>>

\* Variant (seeded bug): an update trusts the remembered dimension.
LookupCached(r) ==
  /\ st[r] = "active" /\ Kind[r] = "update"
  /\ st' = [st EXCEPT ![r] = "looked"]
  /\ row' = [row EXCEPT ![r] = cache[At[r]]]
  /\ UNCHANGED <<migrationVars, gateVars, cache, dataVars>>

\* The dimension is read before the transaction begins.
Lookup(r) ==
  /\ st[r] = "active" /\ Kind[r] = "update"
  /\ st' = [st EXCEPT ![r] = "looked"]
  /\ \E d \in dims \cup {None} : Recorded(d) /\ row' = [row EXCEPT ![r] = d]
  /\ UNCHANGED <<migrationVars, gateVars, cache, dataVars>>

\* The first write: the remembered dimension is set before the commit.
Save(r) ==
  LET p == At[r] IN
  /\ st[r] = "active" /\ Kind[r] = "save" /\ writer = None
  /\ writer' = r
  /\ adds' = IF cache[p] = None THEN {Dim[p]} ELSE {}
  /\ cache' = [cache EXCEPT ![p] = IF @ = None THEN Dim[p] ELSE @]
  /\ st' = [st EXCEPT ![r] = "writing"]
  /\ UNCHANGED <<migrationVars, row, gateVars, dims, stored>>

\* Without a dimension it inserts its own and reads again.
Update(r) ==
  LET p == At[r] IN
  /\ st[r] = "looked" /\ writer = None
  /\ row[r] \in {None, Dim[p]}
  /\ writer' = r
  /\ \/ row[r] # None /\ adds' = {} /\ UNCHANGED cache
     \/ /\ row[r] = None
        /\ adds' = {Dim[p]}
        /\ cache' = [cache EXCEPT ![p] = Dim[p]]
  /\ st' = [st EXCEPT ![r] = "writing"]
  /\ UNCHANGED <<migrationVars, row, gateVars, dims, stored>>

\* What it reads again is another dimension, which it remembers.
UpdateRejected(r) ==
  LET p == At[r] IN
  /\ st[r] = "looked"
  /\ \/ row[r] \notin {None, Dim[p]} /\ UNCHANGED cache
     \/ /\ row[r] = None /\ writer = None
        /\ \E d \in dims \ {Dim[p]} : cache' = [cache EXCEPT ![p] = d]
  /\ Leave(r, "failed")
  /\ UNCHANGED <<migrationVars, row, waiting, dataVars>>

Commit(r) ==
  /\ st[r] = "writing"
  /\ dims' = dims \cup adds /\ stored' = stored \cup {r}
  /\ writer' = None /\ adds' = {}
  /\ Leave(r, "done")
  /\ UNCHANGED <<migrationVars, row, waiting, cache>>

\* Locked, a full disk, a cancellation: the connection closes and rolls back.
Fail(r) ==
  /\ st[r] \in {"active", "looked", "writing"}
  /\ IF writer = r THEN writer' = None /\ adds' = {} ELSE UNCHANGED <<writer, adds>>
  /\ Leave(r, "failed")
  /\ UNCHANGED <<migrationVars, row, waiting, cache, dims, stored>>

RequestStep(r) ==
  \/ Ask(r) \/ Resume(r) \/ GiveUp(r) \/ ReadOut(r) \/ Lookup(r) \/ Save(r)
  \/ Update(r) \/ UpdateRejected(r) \/ Commit(r) \/ Fail(r)

Next ==
  \/ Age /\ UNCHANGED requestVars
  \/ \E p \in Procs : Opening(p) \/ Stops(p)
  \/ \E r \in Requests : RequestStep(r)

Spec == Init /\ [][Next]_vars

-----------------------------------------------------------------------------
TypeOK ==
  /\ MigrationsTypeOK
  /\ st \in [Requests -> Live \cup {"new", "busy", "done", "failed"}]
  /\ row \in [Requests -> Nat \cup {None}]
  /\ waiting \in [Procs -> 0..MaxQueued] /\ free \in [Procs -> 0..MaxConcurrent]
  /\ \A p \in Procs : queue[p] \in Seq(Mine(p))
  /\ cache \in [Procs -> Range(Dim) \cup {None}]
  /\ writer \in Requests \cup {None} /\ adds \subseteq dims \cup Range(Dim)
  /\ dims \subseteq Range(Dim) /\ stored \subseteq Requests

\* However requests time out, fail or are cancelled, at the gate or while a
\* slot is being handed over, no slot and no place in the queue is lost or
\* counted twice.
GateExact ==
  \A p \in Procs :
    /\ waiting[p] = Cardinality({r \in Mine(p) : st[r] \in {"waiting", "granted"}})
    /\ free[p] = MaxConcurrent
                 - Cardinality({r \in Mine(p) : st[r] \in {"granted", "active", "looked", "writing"}})

\* An updated embedding has a dimension the database has recorded, whatever the
\* adapter remembers: the startup check is about what is stored.
UpdateAgrees ==
  [][\A r \in stored' \ stored : Kind[r] = "update" => Dim[At[r]] \in dims']_vars
=============================================================================
