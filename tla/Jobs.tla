-------------------------------- MODULE Jobs --------------------------------
(***************************************************************************)
(* What a clean-up does once it holds the lock (Lifecycle has the lock):   *)
(* the archiver, the consolidator and the purger page through the SQLite   *)
(* memories table while requests save, read, replace and delete memories.  *)
(* A preview (dry run) goes through the same jobs without the lock and     *)
(* without writing; the number that either returns is left out.            *)
(*                                                                         *)
(* Memories are numbered in (created_at, id) order, which is not the order *)
(* they are stored in: created_at is stamped before the duplicate check    *)
(* and the INSERT of its ingestion.  Time is counted in days; a request,   *)
(* rollback included, ends on the day it started.  The graph calls         *)
(* (create_edge SUPERSEDES, delete_node) are best effort and no job reads  *)
(* the graph: they appear as steps that may raise.                         *)
(***************************************************************************)
EXTENDS Integers, FiniteSets, FiniteSetsExt

CONSTANTS
  N,            \* memories saved during the run of the model
  Worlds,       \* the assignments of projects and similarities considered
  Durable,      \* memories whose relevance and importance keep them above 0.05
  IdleDays,     \* days without access after which another memory falls below it
  Retention,    \* purge_retention_days, or prune's older_than_days
  PageSize,     \* rows per page of the archiver and the purger
  BatchSize,    \* CONSOLIDATION_BATCH_SIZE
  TopK,         \* neighbours vector_search returns, the memory itself included
  LastDay,      \* bound on the calendar
  MaxRequests,  \* bound on the accesses, deletions and replacements
  DryRuns       \* {FALSE} clean-ups only, or BOOLEAN: previews as well

Memories == 1..N
Days == 1..LastDay
Closeness == {"dup", "near", "far"}   \* >= dedup, >= consolidation, below
World == [project : [Memories -> STRING],
          likeness : [{{m, n} : m, n \in Memories} -> Closeness]]

ASSUME JobsAssumption ==
  /\ N \in Nat /\ LastDay \in Nat \ {0} /\ IdleDays \in Nat /\ Retention \in Nat
  /\ PageSize \in Nat \ {0} /\ BatchSize \in Nat \ {0} /\ TopK \in Nat \ {0}
  /\ Durable \subseteq 1..N /\ DryRuns \subseteq BOOLEAN /\ MaxRequests \in Nat
  /\ Worlds \subseteq World

VARIABLES
  project,     \* memory |-> its project
  likeness,    \* {memory, memory} |-> how close the embeddings are
  day,
  rows,        \* the memories stored
  archivedAt,  \* memory |-> day of archived_at, 0 for NULL
  accessed,    \* memory |-> day of last_accessed_at
  replacing,   \* memories a request archived and may still have to restore
  cursor,      \* last_cleanup_id: the consolidator's saved cursor
  run,         \* the clean-up or preview in progress
  lost,        \* memories requests deleted or archived during the run
  restored,    \* memories requests have restored, ever
  late,        \* memories stored behind what the consolidator had passed
  requests     \* accesses, deletions and replacements so far

static == <<project, likeness>>
table == <<rows, archivedAt, accessed>>
history == <<lost, restored, late>>
vars == <<static, day, table, replacing, cursor, run, history, requests>>

Idle == [job |-> "none", dry |-> FALSE, now |-> 0, listing |-> FALSE,
         page |-> {}, full |-> FALSE, at |-> 0, since |-> 0, base |-> 0,
         near |-> {}, done |-> {}, simulated |-> {}, next |-> 0]

Live == {m \in rows : archivedAt[m] = 0}
Like(m, n) == likeness[{m, n}]
FirstOf(S, n) == {m \in S : Cardinality({k \in S : k < m}) < n}

Init ==
  /\ \E w \in Worlds : project = w.project /\ likeness = w.likeness
  /\ day = 1
  /\ rows = {} /\ replacing = {}
  /\ archivedAt = [m \in Memories |-> 0]
  /\ accessed = [m \in Memories |-> 0]
  /\ cursor = 0 /\ run = Idle
  /\ lost = {} /\ restored = {} /\ late = {} /\ requests = 0

-----------------------------------------------------------------------------
(* Requests, each statement in a transaction of its own.                   *)

Bounded == requests < MaxRequests /\ requests' = requests + 1
Disturb(gone) == lost' = IF run.job = "none" THEN {} ELSE lost \cup gone

\* What the consolidator has behind it: up to the cursor, or what a clean-up has
\* been through or left out of the page it is at.
Passed(m) ==
  \/ m <= cursor
  \/ /\ ~run.dry
     /\ m <= run.next \/ (run.job = "consolidator" /\ \E e \in run.page : m <= e.id)

\* Ingestion stores a new memory.  It stamped created_at before the content lock,
\* the duplicate check and this INSERT: memories of a day are stored in any order.
Save(m) ==
  /\ accessed[m] = 0
  /\ rows' = rows \cup {m}
  /\ accessed' = [accessed EXCEPT ![m] = day]
  /\ late' = IF Passed(m) THEN late \cup {m} ELSE late
  /\ Disturb({})
  /\ UNCHANGED <<static, day, archivedAt, replacing, cursor, run, restored, requests>>

\* increment_memory_access_count(s), after a search returned the memory.
Access(m) ==
  /\ m \in rows
  /\ accessed[m] # day
  /\ Bounded
  /\ accessed' = [accessed EXCEPT ![m] = day]
  /\ Disturb({})
  /\ UNCHANGED <<static, day, rows, archivedAt, replacing, cursor, run, restored, late>>

\* memory_delete: the row, then the node and its edges.
Delete(m) ==
  /\ m \in rows
  /\ Bounded
  /\ rows' = rows \ {m}
  /\ archivedAt' = [archivedAt EXCEPT ![m] = 0]
  /\ replacing' = replacing \ {m}
  /\ restored' = restored \ {m} /\ late' = late \ {m}
  /\ Disturb({m})
  /\ UNCHANGED <<static, day, accessed, cursor, run>>

\* The deduplicator's REPLACE archives the memory it found.
Replace(m) ==
  /\ m \in Live
  /\ Bounded
  /\ archivedAt' = [archivedAt EXCEPT ![m] = day]
  /\ replacing' = replacing \cup {m}
  /\ Disturb({m})
  /\ UNCHANGED <<static, day, rows, accessed, cursor, run, restored, late>>

\* The request ends: it keeps the replacement, or its rollback restores m.
Settle(m) ==
  /\ m \in replacing
  /\ replacing' = replacing \ {m}
  /\ \/ UNCHANGED <<archivedAt, history>>
     \/ /\ archivedAt' = [archivedAt EXCEPT ![m] = 0]
        /\ restored' = restored \cup {m} /\ late' = late
        /\ Disturb({})
  /\ UNCHANGED <<static, day, rows, accessed, cursor, run, requests>>

\* Midnight; a clean-up may run across it, once.  Every memory stamped on the day
\* is stored by then, and a replacement is settled well within a retention of whole
\* days, but not within one of no days at all.
Tick ==
  /\ day < LastDay
  /\ run.job # "none" => day = run.now
  /\ \A m, n \in Memories : m < n /\ accessed[n] # 0 => accessed[m] # 0
  /\ Retention # 0 => replacing = {}
  /\ day' = day + 1
  /\ UNCHANGED <<static, table, replacing, cursor, run, history, requests>>

Request ==
  \/ Tick
  \/ \E m \in Memories : Save(m) \/ Access(m) \/ Delete(m) \/ Replace(m) \/ Settle(m)

-----------------------------------------------------------------------------
(* The jobs: one action per storage call.                                  *)

Current == CHOOSE e \in run.page :
             \A f \in run.page : <<e.read, e.id>> = <<f.read, f.id>>
                                   \/ e.read < f.read \/ (e.read = f.read /\ e.id < f.id)
NextJob(r) ==
  IF r.job = "archiver"
  THEN [r EXCEPT !.job = "consolidator", !.listing = TRUE, !.at = cursor, !.next = cursor]
  ELSE IF r.job = "consolidator"
  THEN [r EXCEPT !.job = "purger", !.listing = TRUE, !.at = 0, !.since = 0]
  ELSE [r EXCEPT !.job = "save", !.listing = FALSE]

\* run_cleanup(dry_run) once the lock, if any, is held.
Begin(dry) ==
  /\ run.job = "none"
  /\ run' = [Idle EXCEPT !.job = "archiver", !.listing = TRUE, !.dry = dry, !.now = day]
  /\ UNCHANGED <<static, day, table, replacing, cursor, history, requests>>

\* Variant (seeded bug): an empty page is handed on like any other.
ListedUnchecked(found, size, read) ==
  run' = [run EXCEPT !.listing = FALSE, !.full = (Cardinality(found) = size),
                     !.page = {[id |-> m, read |-> read[m]] : m \in found}]

\* list_by_filter: the next page of a job, or the job is over.
Listed(found, size, read) ==
  run' = IF found = {} THEN NextJob(run)
         ELSE [run EXCEPT !.listing = FALSE, !.full = (Cardinality(found) = size),
                          !.page = {[id |-> m, read |-> read[m]] : m \in found}]

\* Variant (seeded bug): the keyset cursor is left out of the filter.
LiveUnpaged(id) == Live

LiveAfter(id) == {m \in Live : m > id}
ListLive ==
  /\ run.listing
  /\ \/ /\ run.job = "archiver"
        /\ Listed(FirstOf(LiveAfter(run.at), PageSize), PageSize, accessed)
     \/ /\ run.job = "consolidator"
        /\ Listed(FirstOf(LiveAfter(run.at), BatchSize), BatchSize, [m \in Memories |-> 0])
  /\ UNCHANGED <<static, day, table, replacing, cursor, history, requests>>

\* ORDER BY archived_at ASC, id ASC, after the cursor (since, at).
ArchivedAfter(since, id) ==
  {m \in rows : /\ archivedAt[m] # 0
                /\ archivedAt[m] > since \/ (archivedAt[m] = since /\ m > id)}
Earlier(m, n) == archivedAt[m] < archivedAt[n] \/ (archivedAt[m] = archivedAt[n] /\ m < n)
ListArchived ==
  LET due == ArchivedAfter(run.since, run.at) IN
  /\ run.job = "purger" /\ run.listing
  /\ Listed({m \in due : Cardinality({k \in due : Earlier(k, m)}) < PageSize},
            PageSize, archivedAt)
  /\ UNCHANGED <<static, day, table, replacing, cursor, history, requests>>

\* Only a preview reads a further batch; a clean-up consolidates one per run.
ReadsOn(r) == r.full /\ (r.job # "consolidator" \/ r.dry)

\* The loop leaves the current row; after the last one it pages on or ends.
Advanced(r) ==
  LET left == [r EXCEPT !.page = @ \ {Current}, !.at = Current.id, !.base = 0, !.near = {},
                        !.since = IF r.job = "purger" THEN Current.read ELSE 0,
                        !.next = IF r.job = "consolidator" THEN Current.id ELSE r.next]
  IN IF left.page # {} THEN left
     ELSE IF ReadsOn(r) THEN [left EXCEPT !.listing = TRUE]
     ELSE NextJob(left)

\* The composite decay score, from the row as it was listed.
Below(m, lastAccess) == m \notin Durable /\ day - lastAccess > IdleDays

\* Archiver: the update goes by id, whatever became of the row since.
ArchiveRow ==
  LET m == Current.id
      below == Below(m, Current.read)
      written == below /\ ~run.dry /\ m \in rows IN
  /\ run.job = "archiver" /\ ~run.listing
  /\ archivedAt' = IF written THEN [archivedAt EXCEPT ![m] = run.now] ELSE archivedAt
  /\ run' = Advanced([run EXCEPT !.simulated = IF below /\ run.dry THEN @ \cup {m} ELSE @])
  /\ UNCHANGED <<static, day, rows, accessed, replacing, cursor, history, requests>>

\* vector_search over all projects: TopK live rows, none closer left out.
Rank(c) == IF c = "dup" THEN 2 ELSE IF c = "near" THEN 1 ELSE 0
Nearest(m, found) ==
  /\ found \subseteq Live
  /\ Cardinality(found) = IF Cardinality(Live) < TopK THEN Cardinality(Live) ELSE TopK
  /\ m \in Live => m \in found
  /\ \A k \in found \ {m}, j \in Live \ found : Rank(Like(m, k)) >= Rank(Like(m, j))

\* Variant (seeded bug): only newer memories are looked at.
CandidatesNewer(m, found) ==
  {k \in found \ ({m} \cup run.done \cup run.simulated) :
     k > m /\ project[k] = project[m] /\ Like(m, k) # "far"}

Candidates(m, found) ==
  {k \in found \ ({m} \cup run.done \cup run.simulated) :
     project[k] = project[m] /\ Like(m, k) # "far"}

Search ==
  LET m == Current.id IN
  /\ run.job = "consolidator" /\ ~run.listing /\ run.base = 0
  /\ \/ /\ m \in run.done \cup run.simulated
        /\ run' = Advanced(run)
     \/ /\ m \notin run.done \cup run.simulated
        /\ \E found \in SUBSET Live :
             /\ Nearest(m, found)
             /\ run' = IF Candidates(m, found) = {} THEN Advanced(run)
                       ELSE [run EXCEPT !.base = m, !.near = Candidates(m, found)]
  /\ UNCHANGED <<static, day, table, replacing, cursor, history, requests>>

\* Self-healing candidates come first.
NextCandidates == IF \E k \in run.near : Like(run.base, k) = "dup"
                  THEN {k \in run.near : Like(run.base, k) = "dup"} ELSE run.near

\* Variant (seeded bug): the newer memory of the pair is archived.
OlderSwapped(m, n) == IF m < n THEN n ELSE m

\* _determine_order.
Older(m, n) == IF m < n THEN m ELSE n

AfterCandidate(r, c) ==
  IF r.base \in r.done \/ r.near = {c} THEN Advanced(r)
  ELSE [r EXCEPT !.near = @ \ {c}]

\* _process_candidate.  A preview adds the candidate to the simulated set, even
\* when the base is the one that would be archived.
Consolidate ==
  /\ run.job = "consolidator" /\ run.base # 0
  /\ \E c \in NextCandidates :
       LET older == Older(run.base, c)
           counts == older \notin run.done /\ (run.dry \/ older \in rows)
       IN /\ archivedAt' = IF counts /\ ~run.dry
                           THEN [archivedAt EXCEPT ![older] = run.now] ELSE archivedAt
          /\ run' = AfterCandidate(
               IF ~counts THEN run
               ELSE [run EXCEPT !.done = @ \cup {older},
                       !.simulated = IF run.dry THEN @ \cup {c} ELSE @], c)
  /\ UNCHANGED <<static, day, rows, accessed, replacing, cursor, history, requests>>

\* Variant (seeded bug): the last day of the retention counts as over.
ExpiredEarly(at) == at <= run.now - Retention

Expired(at) == at < run.now - Retention

\* Purger: the test is on the row as listed, the delete goes by id.
Purge ==
  LET m == Current.id
      goes == Expired(Current.read) /\ m \notin run.simulated IN
  /\ run.job = "purger" /\ ~run.listing
  /\ run' = IF goes /\ ~run.dry THEN [run EXCEPT !.job = "erase"] ELSE Advanced(run)
  /\ \/ /\ goes /\ ~run.dry
        /\ rows' = rows \ {m}
        /\ archivedAt' = [archivedAt EXCEPT ![m] = 0]
        /\ replacing' = replacing \ {m}
     \/ /\ ~goes \/ run.dry
        /\ UNCHANGED <<rows, archivedAt, replacing>>
  /\ UNCHANGED <<static, day, accessed, cursor, history, requests>>

\* delete_node of the memory just purged.
Erase ==
  /\ run.job = "erase"
  /\ run' = Advanced([run EXCEPT !.job = "purger"])
  /\ UNCHANGED <<static, day, table, replacing, cursor, history, requests>>

\* The state is saved with the new cursor; a preview saves nothing.
Finish ==
  /\ run.job = "save"
  /\ cursor' = IF run.dry THEN cursor ELSE run.next
  /\ run' = Idle
  /\ lost' = {}
  /\ UNCHANGED <<static, day, table, replacing, restored, late, requests>>

\* A storage or graph call raises, the lock is found lost, or the process ends.
Abort ==
  /\ run.job # "none"
  /\ run' = Idle
  /\ lost' = {}
  /\ late' = {m \in late : m <= cursor}
  /\ UNCHANGED <<static, day, table, replacing, cursor, restored, requests>>

JobStep ==
  \/ ListLive \/ ListArchived \/ ArchiveRow \/ Search
  \/ Consolidate \/ Purge \/ Erase \/ Finish

Next == Request \/ (\E dry \in DryRuns : Begin(dry)) \/ JobStep \/ Abort

Spec == Init /\ [][Next]_vars

\* The coroutine of a run in progress goes on; nothing is assumed of requests.
FairSpec == Spec /\ WF_vars(JobStep)

-----------------------------------------------------------------------------
(* Properties.                                                             *)

\* Types; a run handles a page exactly while it neither lists nor saves.
TypeOK ==
  /\ rows \subseteq Memories
  /\ archivedAt \in [Memories -> 0..LastDay]
  /\ \A m \in Memories \ rows : archivedAt[m] = 0
  /\ accessed \in [Memories -> 0..LastDay]
  /\ cursor \in 0..N
  /\ replacing \subseteq rows /\ lost \subseteq Memories
  /\ restored \cup late \subseteq Memories
  /\ run.done \cup run.simulated \cup run.near \subseteq Memories
  /\ run.base # 0 => run.base = Current.id
  /\ run.page # {} <=> (run.job # "none" /\ ~run.listing /\ run.job # "save")

\* A clean-up never deletes a memory that is live, or was archived recently, at
\* the moment of the DELETE, although it decides on the row as it was listed.
PurgesOnlyExpired ==
  [][\A m \in rows \ rows' :
       Purge => archivedAt[m] # 0 /\ archivedAt[m] < day - Retention]_vars

\* Whatever the consolidator archives is superseded by a newer, similar memory
\* of the same project that is live then, unless a request took that one away
\* while the clean-up was running: no fact disappears by consolidation alone.
KeepsSuccessor ==
  [][\A m \in Memories : Consolidate /\ archivedAt'[m] # archivedAt[m] =>
       \E n \in (m + 1)..N : /\ project[n] = project[m] /\ Like(m, n) # "far"
                             /\ n \in Live \cup lost]_vars

\* The saved cursor leaves no work behind: two live memories of one project at
\* or before the cursor are not similar, unless one was restored by a request or
\* stored late, behind what the consolidator had passed by then.
CursorCovers ==
  run.job = "none" =>
    \A m, n \in Live \ (restored \cup late) :
      m < n /\ n <= cursor /\ project[m] = project[n] => Like(m, n) = "far"

\* What SPEC.md promises of duplicates that slip through ingestion: if clean-ups
\* keep being completed, the consolidator repairs them some time.
SlippedRepaired ==
  []<><<Finish>>_vars =>
    <>[](\A m, n \in Live : m < n /\ project[m] = project[n] => Like(m, n) # "dup")

\* What the purger says it does: it deletes archived memories.  The restored one
\* it deletes with a retention of no days was listed while it was archived.
PurgesArchived == [][\A m \in rows \ rows' : Purge => archivedAt[m] # 0]_vars

\* No run loops for ever, however its pages shift under it.
RunEnds == run.job # "none" ~> run.job = "none"
=============================================================================
