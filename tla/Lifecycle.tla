----------------------------- MODULE Lifecycle -----------------------------
(***************************************************************************)
(* The lazy clean-up of memories (lifecycle/manager.py): every save counts *)
(* into lifecycle_state.save_count, reaching the threshold spawns a run of *)
(* run_cleanup, and runs exclude each other by a file lock and by a leased *)
(* lock in the database that may be taken over once it is stale.           *)
(*                                                                         *)
(* A process has at most one run at a time past the file lock, so a run is *)
(* named by its process and the token it wrote into cleanup_lock_owner is  *)
(* that name; when its process dies or cannot release it, the token of no  *)
(* run is left behind.  Time is abstract: `stale' says whether the lease   *)
(* has gone untouched for stale_lock_timeout_seconds.                      *)
(*                                                                         *)
(* The jobs themselves (archive, consolidate, purge) are one state, from   *)
(* which any number of heartbeats happen.                                  *)
(***************************************************************************)
EXTENDS Integers

CONSTANTS
  Servers,     \* MCP server processes on one SQLite database
  Threshold,   \* cleanup_save_count_threshold
  SharedFile,  \* the servers run in one directory, hence share .lifecycle.lock
  Pausing,     \* servers whose jobs may outlast the stale timeout unheard of
  Faults,      \* database calls and jobs may raise
  Stops,       \* servers may crash or be shut down
  MaxSaves     \* bound on the saves TLC explores

ASSUME LifecycleAssumption ==
  /\ Threshold \in Nat \ {0}
  /\ Pausing \subseteq Servers
  /\ SharedFile \in BOOLEAN /\ Faults \in BOOLEAN /\ Stops \in BOOLEAN
  /\ MaxSaves \in Nat
  /\ {"none", "orphan"} \cap Servers = {}

VARIABLES
  saveCount,  \* lifecycle_state.save_count
  owner,      \* cleanup_lock_owner: a server, "none", or "orphan"
  stale,      \* cleanup_lock_touched_at is older than the timeout
  cleaned,    \* last_cleanup_at is not NULL
  pc,         \* what the run of a server is awaiting
  scheduled,  \* a run_cleanup task of the server has yet to begin
  stopping,   \* _shutting_down
  start,      \* cleanup_start_save_count
  current,    \* the save_count a run loaded last
  followup,   \* should_schedule_followup
  saves,      \* history: saves so far
  base,       \* history: saves when a run captured its start count
  covered     \* history: base of the last run that completed

store == <<saveCount, owner, stale, cleaned>>
process == <<pc, scheduled, stopping>>
local == <<start, current, followup, base>>
history == <<saves, covered>>
vars == <<store, process, local, history>>

InTry == {"load", "jobs", "check", "reload", "save", "resetLoad", "resetSave"}
Holding == InTry \cup {"release"}
Running == Holding \cup {"acquire"}

\* The run of p goes on at the next call.
Goto(p, next) == pc' = [pc EXCEPT ![p] = next]

\* _spawn_background_task: nothing is spawned once shutdown has begun.
Spawned(p) == [scheduled EXCEPT ![p] = IF stopping[p] THEN @ ELSE TRUE]

\* The locals of a run go with it.
Forget(p) ==
  /\ start' = [start EXCEPT ![p] = 0]
  /\ current' = [current EXCEPT ![p] = 0]
  /\ followup' = [followup EXCEPT ![p] = FALSE]
  /\ base' = [base EXCEPT ![p] = 0]

\* The lock can be had: it is free or stale.
Available == owner = "none" \/ stale

\* The lease once the run of p wrote or cleared cleanup_lock_touched_at where
\* cleanup_lock_owner is its token.
Touched(p) == IF owner = p THEN FALSE ELSE stale

\* A token is committed whose run will never release it.
Leak ==
  /\ Available
  /\ owner' = "orphan"
  /\ stale' = FALSE

\* release_cleanup_lock raises or is cancelled: the token may stay behind, and
\* the follow-up is not spawned.
Unreleased(p) ==
  /\ \/ /\ owner' = IF owner = p THEN "none" ELSE owner
        /\ stale' = Touched(p)
     \/ /\ owner' = IF owner = p THEN "orphan" ELSE owner
        /\ UNCHANGED stale
  /\ Goto(p, "idle")
  /\ Forget(p)

\* Variant (seeded bug): the subtraction the wrong way round.
RemainingSwapped(p) == start[p] - current[p]

\* max(0, current_state.save_count - cleanup_start_save_count)
Remaining(p) ==
  IF current[p] > start[p] THEN current[p] - start[p] ELSE 0

\* Variant (seeded bug): save_state without the token.
CompleteUnguarded(p) ==
  /\ saveCount' = Remaining(p)
  /\ cleaned' = TRUE
  /\ stale' = FALSE
  /\ covered' = base[p]
  /\ \E due \in IF Remaining(p) >= Threshold THEN {TRUE} ELSE BOOLEAN :
       followup' = [followup EXCEPT ![p] = due]
  /\ UNCHANGED <<owner, start, current, saves, base>>

\* save_state(new_state, token): only the owner's state is written.  More of a
\* backlog than one run consolidates (has_more) wants a follow-up, too.
Complete(p) ==
  /\ owner = p
  /\ saveCount' = Remaining(p)
  /\ cleaned' = TRUE
  /\ stale' = FALSE
  /\ covered' = base[p]
  /\ \E due \in IF Remaining(p) >= Threshold THEN {TRUE} ELSE BOOLEAN :
       followup' = [followup EXCEPT ![p] = due]
  /\ UNCHANGED <<owner, start, current, saves, base>>

Init ==
  /\ saveCount = 0 /\ owner = "none" /\ stale = FALSE /\ cleaned = FALSE
  /\ pc = [p \in Servers |-> "down"]
  /\ scheduled = [p \in Servers |-> FALSE]
  /\ stopping = [p \in Servers |-> FALSE]
  /\ start = [p \in Servers |-> 0]
  /\ current = [p \in Servers |-> 0]
  /\ followup = [p \in Servers |-> FALSE]
  /\ saves = 0 /\ base = [p \in Servers |-> 0] /\ covered = 0

-----------------------------------------------------------------------------
(* The server around the runs.                                             *)

\* start() and _check_time_based_cleanup: a run if none ever completed, or the
\* last one is a day old; none if the check raises.
Start(p) ==
  /\ pc[p] = "down"
  /\ Goto(p, "idle")
  /\ \E due \in BOOLEAN :
       /\ cleaned \/ due \/ Faults
       /\ scheduled' = [scheduled EXCEPT ![p] = due]
  /\ stopping' = [stopping EXCEPT ![p] = FALSE]
  /\ UNCHANGED <<store, local, history>>

\* on_memory_saved: the increment is atomic, and only the save that reaches
\* the threshold exactly spawns a run.
Save(p) ==
  /\ pc[p] # "down"
  /\ saves < MaxSaves
  /\ saves' = saves + 1
  /\ saveCount' = saveCount + 1
  /\ scheduled' = IF saveCount + 1 = Threshold THEN Spawned(p) ELSE scheduled
  /\ UNCHANGED <<owner, stale, cleaned, pc, stopping, local, covered>>

\* The prune tool awaits run_cleanup itself.
Prune(p) ==
  /\ pc[p] # "down"
  /\ scheduled' = [scheduled EXCEPT ![p] = TRUE]
  /\ UNCHANGED <<store, pc, stopping, local, history>>

\* The process ends, killed or after its shutdown: the system releases its
\* file lock, but nobody clears a token it still holds.
Exit(p) ==
  /\ Stops
  /\ pc[p] # "down"
  /\ Goto(p, "down")
  /\ owner' = IF owner = p THEN "orphan" ELSE owner
  /\ scheduled' = [scheduled EXCEPT ![p] = FALSE]
  /\ Forget(p)
  /\ UNCHANGED <<saveCount, stale, cleaned, stopping, history>>

\* graceful_shutdown: no more tasks are spawned.
Shutdown(p) ==
  /\ Stops
  /\ pc[p] # "down"
  /\ stopping' = [stopping EXCEPT ![p] = TRUE]
  /\ UNCHANGED <<store, pc, scheduled, local, history>>

\* A run that outlasts the wait is cancelled: `except Exception' does not see
\* it, `finally' does.  The call it was awaiting may still take effect.
Cancel(p) ==
  /\ stopping[p]
  /\ \/ /\ pc[p] \in InTry
        /\ Goto(p, "release")
        /\ UNCHANGED <<store, local, history>> \/ (pc[p] = "save" /\ Complete(p))
     \/ /\ pc[p] = "acquire"
        /\ Goto(p, "idle")
        /\ UNCHANGED <<owner, stale>> \/ Leak
        /\ UNCHANGED <<saveCount, cleaned, local, history>>
     \/ /\ pc[p] = "release"
        /\ Unreleased(p)
        /\ UNCHANGED <<saveCount, cleaned, history>>
  /\ UNCHANGED <<scheduled, stopping>>

\* The lease goes untouched for stale_lock_timeout_seconds.
LeaseExpires ==
  /\ owner = "orphan" \/ owner \in Pausing
  /\ stale' = TRUE
  /\ UNCHANGED <<saveCount, owner, cleaned, process, local, history>>

-----------------------------------------------------------------------------
(* run_cleanup.                                                            *)

\* FileLock(timeout=0): taken at once, or the run is skipped without a trace.
FileFree(p) ==
  /\ pc[p] = "idle"
  /\ SharedFile => \A q \in Servers : pc[q] \notin Running

Begin(p) ==
  /\ pc[p] # "down"
  /\ scheduled[p]
  /\ scheduled' = [scheduled EXCEPT ![p] = FALSE]
  /\ IF FileFree(p) THEN Goto(p, "acquire") ELSE UNCHANGED pc
  /\ UNCHANGED <<store, stopping, local, history>>

\* The file lock is released, and a follow-up is spawned if the run wants one.
Leave(p) ==
  /\ Goto(p, "idle")
  /\ scheduled' = IF followup[p] THEN Spawned(p) ELSE scheduled
  /\ Forget(p)

\* acquire_cleanup_lock: a free lock, or a stale one by compare-and-swap on the
\* owner and the time it was touched, which its owner's release may beat;
\* otherwise the run is skipped.  When the call raises, the token may have been
\* committed.
Acquire(p) ==
  /\ pc[p] = "acquire"
  /\ \/ /\ Available
        /\ owner' = p
        /\ stale' = FALSE
        /\ Goto(p, "load")
        /\ UNCHANGED <<scheduled, local>>
     \/ /\ ~Available \/ stale \/ Faults
        /\ Leave(p)
        /\ UNCHANGED <<owner, stale>> \/ (Faults /\ Leak)
  /\ UNCHANGED <<saveCount, cleaned, stopping, history>>

Load(p) ==
  /\ pc[p] = "load"
  /\ Goto(p, "jobs")
  /\ start' = [start EXCEPT ![p] = saveCount]
  /\ base' = [base EXCEPT ![p] = saves]
  /\ UNCHANGED <<store, scheduled, stopping, current, followup, history>>

\* heartbeat_cleanup_lock touches the lease only if it is still the run's.
Heartbeat(p) ==
  /\ pc[p] = "jobs"
  /\ Goto(p, "check")
  /\ stale' = Touched(p)
  /\ UNCHANGED <<saveCount, owner, cleaned, scheduled, stopping, local, history>>

\* _check_lock_integrity: a run that lost the lock gives up; after the last
\* heartbeat, behind all jobs, the run goes on to record its completion.
CheckLockIntegrity(p) ==
  /\ pc[p] = "check"
  /\ \/ owner # p /\ Goto(p, "release")
     \/ owner = p /\ \E next \in {"jobs", "reload"} : Goto(p, next)
  /\ UNCHANGED <<store, scheduled, stopping, local, history>>

Reload(p) ==
  /\ pc[p] = "reload"
  /\ Goto(p, "save")
  /\ current' = [current EXCEPT ![p] = saveCount]
  /\ UNCHANGED <<store, scheduled, stopping, start, followup, base, history>>

\* The final save_state, or LockLostError when it wrote nothing.
SaveState(p) ==
  /\ pc[p] = "save"
  /\ Goto(p, "release")
  /\ Complete(p) \/ (owner # p /\ UNCHANGED <<store, local, history>>)
  /\ UNCHANGED <<scheduled, stopping>>

\* `except Exception': a job or a call raised.
Fail(p) ==
  /\ Faults
  /\ pc[p] \in {"load", "jobs", "check", "reload", "save"}
  /\ Goto(p, "resetLoad")
  /\ \/ UNCHANGED <<store, history>>
     \/ /\ pc[p] = "save" /\ owner = p
        /\ saveCount' = Remaining(p) /\ cleaned' = TRUE /\ stale' = FALSE
        /\ covered' = base[p]
        /\ UNCHANGED <<owner, saves>>
  /\ UNCHANGED <<scheduled, stopping, local>>

ResetLoad(p) ==
  /\ pc[p] = "resetLoad"
  /\ Goto(p, "resetSave")
  /\ current' = [current EXCEPT ![p] = saveCount]
  /\ UNCHANGED <<store, scheduled, stopping, start, followup, base, history>>

Capped(n) == IF n < Threshold THEN n ELSE Threshold - 1

\* Variant (seeded bug): the reset is saved without the token.
ResetSaveUnguarded(p) ==
  /\ pc[p] = "resetSave"
  /\ Goto(p, "release")
  /\ saveCount' = Capped(current[p])
  /\ UNCHANGED <<owner, stale, cleaned, scheduled, stopping, local, history>>

\* min(save_count, threshold - 1), if the lock is still the run's.
ResetSave(p) ==
  /\ pc[p] = "resetSave"
  /\ Goto(p, "release")
  /\ saveCount' = IF owner = p THEN Capped(current[p]) ELSE saveCount
  /\ UNCHANGED <<owner, stale, cleaned, scheduled, stopping, local, history>>

\* Failed to reset save_count: logged.
ResetFails(p) ==
  /\ Faults
  /\ pc[p] \in {"resetLoad", "resetSave"}
  /\ Goto(p, "release")
  /\ UNCHANGED <<store, scheduled, stopping, local, history>>

\* Variant (seeded bug): whoever owns the lock, it is released.
ReleaseAny(p) ==
  /\ pc[p] = "release"
  /\ owner' = "none"
  /\ stale' = FALSE
  /\ Leave(p)
  /\ UNCHANGED <<saveCount, cleaned, stopping, history>>

\* release_cleanup_lock, of the run's own token only.
Release(p) ==
  /\ pc[p] = "release"
  /\ \/ /\ owner' = IF owner = p THEN "none" ELSE owner
        /\ stale' = Touched(p)
        /\ Leave(p)
     \/ Faults /\ Unreleased(p) /\ UNCHANGED scheduled
  /\ UNCHANGED <<saveCount, cleaned, stopping, history>>

-----------------------------------------------------------------------------
Run(p) ==
  \/ Acquire(p) \/ Load(p)
  \/ Heartbeat(p) \/ CheckLockIntegrity(p) \/ Reload(p) \/ SaveState(p)
  \/ Fail(p) \/ ResetLoad(p) \/ ResetSave(p) \/ ResetFails(p)
  \/ Release(p)

Next ==
  \/ \E p \in Servers : Start(p) \/ Save(p) \/ Prune(p) \/ Begin(p) \/ Run(p)
  \/ \E p \in Servers : Exit(p) \/ Shutdown(p) \/ Cancel(p)
  \/ LeaseExpires

Spec == Init /\ [][Next]_vars

\* Scheduled tasks begin and calls return; the jobs are finite, so a run does
\* not send heartbeats for ever (SF for the last one).  Nothing is assumed of
\* saves, of the prune tool, or of servers stopping.
LastHeartbeat(p) == pc[p] = "check" /\ CheckLockIntegrity(p) /\ pc'[p] = "reload"
Fairness ==
  \A p \in Servers : /\ WF_vars(Start(p)) /\ WF_vars(Begin(p)) /\ WF_vars(Run(p))
                     /\ SF_vars(LastHeartbeat(p))

FairSpec == Spec /\ Fairness

-----------------------------------------------------------------------------
(* Properties.                                                             *)

TypeOK ==
  /\ saveCount \in Nat /\ saves \in Nat /\ covered \in Nat
  /\ owner \in Servers \cup {"none", "orphan"}
  /\ stale \in BOOLEAN /\ cleaned \in BOOLEAN
  /\ pc \in [Servers -> {"down", "idle"} \cup Running]
  /\ scheduled \in [Servers -> BOOLEAN]
  /\ stopping \in [Servers -> BOOLEAN]
  /\ start \in [Servers -> Nat]
  /\ current \in [Servers -> Nat]
  /\ followup \in [Servers -> BOOLEAN]
  /\ base \in [Servers -> Nat]

\* The lease is enough on its own: a run that is heard of in time holds the
\* database lock from its acquisition to its release, whatever the other
\* servers do, so that two such runs never work at once.
LeaseHeld ==
  \A p \in Servers \ Pausing : pc[p] \in Holding => owner = p

\* save_count never counts a save twice, nor one an earlier completed run
\* already covered: late resets and completions of runs that lost the lock
\* included.
NeverOvercounts == saveCount <= saves - covered

\* Runs that complete do so in the order in which they started: the progress
\* recorded with the count (last_cleanup_at, the consolidator's cursor) never
\* goes back to that of an older run.
ProgressNeverRewinds == [][covered' >= covered]_vars

\* Reaching the threshold gets the memories cleaned.
ThresholdCleans == saveCount >= Threshold ~> saveCount < Threshold
=============================================================================
