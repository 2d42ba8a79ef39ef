-------------------------- MODULE LifecycleProofs --------------------------
(***************************************************************************)
(* Theorems about Lifecycle for any number of servers, any threshold, any  *)
(* failures, and whether or not the servers share the lock file.           *)
(***************************************************************************)
EXTENDS Lifecycle, TLAPS

-----------------------------------------------------------------------------
(* Type correctness.                                                       *)

LEMMA Arithmetic ==
  ASSUME TypeOK, NEW p \in Servers
  PROVE  Remaining(p) \in Nat /\ Capped(current[p]) \in Nat
  BY LifecycleAssumption DEF TypeOK, Remaining, Capped

LEMMA SpawnedType ==
  ASSUME TypeOK, NEW p \in Servers
  PROVE  Spawned(p) \in [Servers -> BOOLEAN]
  <1>1. scheduled \in [Servers -> BOOLEAN] /\ scheduled[p] \in BOOLEAN
    BY DEF TypeOK
  <1>2. Spawned(p) \in {[scheduled EXCEPT ![p] = scheduled[p]], [scheduled EXCEPT ![p] = TRUE]}
    BY Zenon DEF Spawned
  <1>3. QED  BY <1>1, <1>2

LEMMA TouchedType ==
  ASSUME TypeOK, NEW p \in Servers
  PROVE  Touched(p) \in BOOLEAN
  BY DEF TypeOK, Touched

LEMMA ForgetType ==
  ASSUME TypeOK, NEW p \in Servers, Forget(p)
  PROVE  /\ start' \in [Servers -> Nat] /\ current' \in [Servers -> Nat]
         /\ followup' \in [Servers -> BOOLEAN] /\ base' \in [Servers -> Nat]
  BY DEF TypeOK, Forget

LEMMA LeaveType ==
  ASSUME TypeOK, NEW p \in Servers, Leave(p)
  PROVE  scheduled' \in [Servers -> BOOLEAN]
  <1>1. scheduled' \in {Spawned(p), scheduled}
    BY Zenon DEF Leave
  <1>2. QED  BY <1>1, SpawnedType DEF TypeOK

LEMMA CompleteType ==
  ASSUME TypeOK, NEW p \in Servers, Complete(p)
  PROVE  /\ saveCount' \in Nat /\ covered' \in Nat /\ saves' \in Nat
         /\ owner' = owner /\ stale' \in BOOLEAN /\ cleaned' \in BOOLEAN
         /\ start' = start /\ current' = current /\ base' = base
         /\ followup' \in [Servers -> BOOLEAN]
  <1>1. PICK due \in BOOLEAN : followup' = [followup EXCEPT ![p] = due]
    BY DEF Complete
  <1>2. followup' \in [Servers -> BOOLEAN]
    BY <1>1 DEF TypeOK
  <1>3. QED  BY <1>2, Arithmetic DEF TypeOK, Complete

LEMMA TypeStep ==
  ASSUME TypeOK, [Next]_vars
  PROVE  TypeOK'
  <1> USE DEF TypeOK, Running, Holding, InTry, store, process, local, history
  <1>1. ASSUME NEW p \in Servers, Start(p)  PROVE TypeOK'
    BY <1>1 DEF Start, Goto
  <1>2. ASSUME NEW p \in Servers, Save(p)  PROVE TypeOK'
    <2>1. scheduled' \in {Spawned(p), scheduled}
      BY <1>2, Zenon DEF Save
    <2>2. scheduled' \in [Servers -> BOOLEAN]
      BY <2>1, SpawnedType
    <2>3. QED  BY <1>2, <2>2 DEF Save
  <1>3. ASSUME NEW p \in Servers, Prune(p) \/ Begin(p)  PROVE TypeOK'
    BY <1>3 DEF Prune, Begin, Goto
  <1>4. ASSUME NEW p \in Servers, Exit(p)  PROVE TypeOK'
    BY <1>4, ForgetType DEF Exit, Goto
  <1>5. ASSUME NEW p \in Servers, Shutdown(p)  PROVE TypeOK'
    BY <1>5 DEF Shutdown
  <1>6. ASSUME NEW p \in Servers, Cancel(p)  PROVE TypeOK'
    BY <1>6, CompleteType, ForgetType, TouchedType DEF Cancel, Goto, Leak, Unreleased
  <1>7. CASE LeaseExpires
    BY <1>7 DEF LeaseExpires
  <1>8. ASSUME NEW p \in Servers, Acquire(p)  PROVE TypeOK'
    BY <1>8, LeaveType, ForgetType DEF Acquire, Goto, Leave, Leak
  <1>9. ASSUME NEW p \in Servers,
               Load(p) \/ CheckLockIntegrity(p) \/ Reload(p) \/ ResetLoad(p) \/ ResetFails(p)
        PROVE  TypeOK'
    BY <1>9 DEF Load, CheckLockIntegrity, Reload, ResetLoad, ResetFails, Goto
  <1>10. ASSUME NEW p \in Servers, Heartbeat(p)  PROVE TypeOK'
    BY <1>10, TouchedType DEF Heartbeat, Goto
  <1>11. ASSUME NEW p \in Servers, SaveState(p)  PROVE TypeOK'
    BY <1>11, CompleteType DEF SaveState, Goto
  <1>12. ASSUME NEW p \in Servers, Fail(p) \/ ResetSave(p)  PROVE TypeOK'
    <2>1. CASE Fail(p)
      BY <2>1, Arithmetic DEF Fail, Goto
    <2>2. CASE ResetSave(p)
      BY <2>2, Arithmetic DEF ResetSave, Goto
    <2>3. QED  BY <1>12, <2>1, <2>2
  <1>13. ASSUME NEW p \in Servers, Release(p)  PROVE TypeOK'
    BY <1>13, LeaveType, ForgetType, TouchedType DEF Release, Leave, Unreleased, Goto
  <1>14. CASE UNCHANGED vars
    BY <1>14 DEF vars
  <1>15. QED
    BY <1>1, <1>2, <1>3, <1>4, <1>5, <1>6, <1>7, <1>8, <1>9, <1>10, <1>11, <1>12,
       <1>13, <1>14 DEF Next, Run

\* Every variable keeps its type; in particular no completion writes a
\* negative save_count.
THEOREM TypeCorrect == Spec => []TypeOK
  <1>1. Init => TypeOK
    <2> SUFFICES ASSUME Init  PROVE TypeOK
      OBVIOUS
    <2>1. /\ saveCount \in Nat /\ saves \in Nat /\ covered \in Nat
          /\ owner \in Servers \cup {"none", "orphan"}
          /\ start \in [Servers -> Nat] /\ current \in [Servers -> Nat]
          /\ base \in [Servers -> Nat]
      BY DEF Init
    <2>2. stale \in BOOLEAN /\ cleaned \in BOOLEAN
      BY Zenon DEF Init
    <2>3. /\ scheduled \in [Servers -> BOOLEAN] /\ stopping \in [Servers -> BOOLEAN]
          /\ followup \in [Servers -> BOOLEAN]
      BY Zenon DEF Init
    <2>4. pc \in [Servers -> {"down", "idle"} \cup Running]
      BY DEF Init
    <2>5. QED  BY <2>1, <2>2, <2>3, <2>4 DEF TypeOK
  <1>2. QED  BY <1>1, TypeStep, PTL DEF Spec

-----------------------------------------------------------------------------
(* The lease.                                                              *)

\* A token in the database belongs to a run that still has its release to do,
\* and only a run that pauses, or none at all, lets its lease go stale.
TokenTruthful ==
  /\ stale => owner = "orphan" \/ owner \in Pausing
  /\ \A p \in Servers : owner = p => pc[p] \in Holding

Lease == TokenTruthful /\ LeaseHeld

\* A step that leaves the token alone, does not age the lease, and takes a run
\* neither past its acquire nor past its release.
LEMMA LeaseKept ==
  ASSUME TypeOK, Lease, NEW p \in Servers, NEW next, Goto(p, next),
         owner' = owner, stale' => stale, pc[p] \in Holding <=> next \in Holding
  PROVE  Lease'
  <1>1. \A q \in Servers : pc'[q] \in Holding <=> pc[q] \in Holding
    BY DEF TypeOK, Goto
  <1>2. QED  BY <1>1 DEF Lease, TokenTruthful, LeaseHeld

\* A failed release leaves no token in the name of a run that is gone.
LEMMA UnreleasedLease ==
  ASSUME TypeOK, Lease, NEW p \in Servers, Unreleased(p)
  PROVE  Lease'
  <1>1. /\ owner' = IF owner = p THEN owner' ELSE owner
        /\ owner = p => owner' \in {"none", "orphan"}
        /\ pc' = [pc EXCEPT ![p] = "idle"]
    BY DEF Unreleased, Goto
  <1>2. stale' => stale /\ (owner = p => owner' = "orphan")
    BY Zenon DEF Unreleased, Touched
  <1>3. QED
    BY <1>1, <1>2, LifecycleAssumption
    DEF TypeOK, Lease, TokenTruthful, LeaseHeld, Holding, InTry

LEMMA LeaseStep ==
  ASSUME TypeOK, Lease, [Next]_vars
  PROVE  Lease'
  <1> USE LifecycleAssumption
      DEF TypeOK, Lease, TokenTruthful, LeaseHeld, Running, Holding, InTry, Goto, Touched,
          Available, store, process, local, history
  <1>1. ASSUME NEW p \in Servers, Start(p) \/ Prune(p) \/ Begin(p)  PROVE Lease'
    <2>1. CASE Start(p)
      BY <2>1 DEF Start
    <2>2. CASE Prune(p)
      BY <2>2 DEF Prune
    <2>3. CASE Begin(p)
      <3>1. CASE FileFree(p)
        <4>1. owner' = owner /\ (stale' => stale) /\ Goto(p, "acquire") /\ pc[p] = "idle"
          BY <2>3, <3>1, Zenon DEF Begin, FileFree, store
        <4>2. QED  BY <4>1, LeaseKept
      <3>2. CASE ~FileFree(p)
        BY <2>3, <3>2, Zenon DEF Begin, store, Lease, TokenTruthful, LeaseHeld
      <3>3. QED  BY <3>1, <3>2
    <2>4. QED  BY <1>1, <2>1, <2>2, <2>3
  <1>2. ASSUME NEW p \in Servers, Save(p) \/ Shutdown(p)  PROVE Lease'
    BY <1>2 DEF Save, Shutdown
  <1>3. ASSUME NEW p \in Servers, Exit(p)  PROVE Lease'
    BY <1>3 DEF Exit
  <1>4. ASSUME NEW p \in Servers, Cancel(p)  PROVE Lease'
    <2>1. CASE pc[p] \in InTry
      <3>1. Goto(p, "release") /\ owner' = owner
        BY <1>4, <2>1 DEF Cancel, Complete
      <3>2. stale' => stale
        <4>1. pc[p] # "acquire" /\ pc[p] # "release"
          BY <2>1
        <4>2. QED  BY <1>4, <4>1, Zenon DEF Cancel, Complete, store
      <3>3. QED  BY <2>1, <3>1, <3>2, LeaseKept
    <2>2. CASE pc[p] = "acquire"
      BY <1>4, <2>2 DEF Cancel, Leak
    <2>3. CASE pc[p] = "release"
      <3>1. Unreleased(p)
        BY <1>4, <2>3 DEF Cancel
      <3>2. QED  BY <3>1, UnreleasedLease
    <2>4. QED  BY <1>4, <2>1, <2>2, <2>3 DEF Cancel
  <1>5. CASE LeaseExpires
    BY <1>5 DEF LeaseExpires
  <1>6. ASSUME NEW p \in Servers, Acquire(p)  PROVE Lease'
    BY <1>6 DEF Acquire, Leave, Leak
  <1>7. ASSUME NEW p \in Servers,
               Load(p) \/ Heartbeat(p) \/ CheckLockIntegrity(p) \/ Reload(p)
        PROVE  Lease'
    <2>1. CASE Load(p) \/ CheckLockIntegrity(p) \/ Reload(p)
      BY <2>1 DEF Load, CheckLockIntegrity, Reload
    <2>2. CASE Heartbeat(p)
      <3>1. stale' => stale
        BY <2>2, Zenon DEF Heartbeat, Touched
      <3>2. QED  BY <2>2, <3>1, LeaseKept DEF Heartbeat
    <2>3. QED  BY <1>7, <2>1, <2>2
  <1>8. ASSUME NEW p \in Servers, SaveState(p) \/ Fail(p)  PROVE Lease'
    <2>1. stale' => stale
      BY <1>8, Zenon DEF SaveState, Complete, Fail, store
    <2>2. CASE SaveState(p)
      BY <2>1, <2>2, LeaseKept DEF SaveState, Complete
    <2>3. CASE Fail(p)
      BY <2>1, <2>3, LeaseKept DEF Fail
    <2>4. QED  BY <1>8, <2>2, <2>3
  <1>9. ASSUME NEW p \in Servers, ResetLoad(p) \/ ResetSave(p) \/ ResetFails(p)
        PROVE  Lease'
    BY <1>9 DEF ResetLoad, ResetSave, ResetFails
  <1>10. ASSUME NEW p \in Servers, Release(p)  PROVE Lease'
    <2>1. CASE Unreleased(p)
      BY <2>1, UnreleasedLease
    <2>2. CASE owner' = (IF owner = p THEN "none" ELSE owner) /\ Leave(p) /\ stale' = Touched(p)
      <3>1. stale' => stale /\ owner # p
        BY <2>2, Zenon DEF Touched
      <3>2. QED  BY <2>2, <3>1 DEF Leave
    <2>3. QED  BY <1>10, <2>1, <2>2 DEF Release
  <1>11. CASE UNCHANGED vars
    BY <1>11 DEF vars
  <1>12. QED
    BY <1>1, <1>2, <1>3, <1>4, <1>5, <1>6, <1>7, <1>8, <1>9, <1>10, <1>11 DEF Next, Run

\* A run that is heard of in time holds the database lock from acquire to
\* release: two such runs are never at work at once, whatever crashes.
THEOREM LockHeld == Spec => []LeaseHeld
  <1>1. Init => Lease
    BY LifecycleAssumption DEF Init, Lease, TokenTruthful, LeaseHeld, Holding, InTry
  <1>2. Lease => LeaseHeld
    BY DEF Lease
  <1>3. QED  BY <1>1, <1>2, TypeCorrect, LeaseStep, PTL DEF Spec

-----------------------------------------------------------------------------
(* The count.                                                              *)

\* A run that captured its start count and has not written its result yet.
Captured == {"jobs", "check", "reload", "save"}

\* What the owner of the lock has in its hands fits the count: the saves since
\* it captured its start are in save_count, and what it loaded last was not
\* more than there is.
Counts ==
  /\ NeverOvercounts
  /\ \A p \in Servers : owner = p =>
       /\ pc[p] \in Captured =>
            /\ covered <= base[p]
            /\ start[p] <= saveCount
            /\ saveCount - start[p] <= saves - base[p]
       /\ pc[p] \in {"save", "resetSave"} => current[p] <= saveCount

\* Completing a run, or resetting its count, never raises the count above the
\* saves that no completed run covers.
LEMMA CompleteCounts ==
  ASSUME TypeOK, Counts, NEW p \in Servers, owner = p, pc[p] = "save",
         saveCount' = Remaining(p), covered' = base[p], saves' = saves
  PROVE  NeverOvercounts' /\ covered' >= covered
  <1>1. /\ covered <= base[p] /\ start[p] <= saveCount /\ current[p] <= saveCount
        /\ saveCount - start[p] <= saves - base[p]
    BY DEF Counts, Captured
  <1>2. QED  BY <1>1 DEF TypeOK, NeverOvercounts, Remaining

LEMMA CountsStep ==
  ASSUME TypeOK, Lease, Counts, [Next]_vars
  PROVE  Counts' /\ covered' >= covered
  <1> USE LifecycleAssumption
      DEF TypeOK, Counts, NeverOvercounts, Captured, Goto, Forget,
          store, process, local, history
  <1>1. ASSUME NEW p \in Servers, Start(p) \/ Prune(p) \/ Shutdown(p)
        PROVE  Counts' /\ covered' >= covered
    BY <1>1 DEF Start, Prune, Shutdown
  <1>2. ASSUME NEW p \in Servers, Begin(p)  PROVE Counts' /\ covered' >= covered
    BY <1>2 DEF Begin
  <1>3. ASSUME NEW p \in Servers, Save(p)  PROVE Counts' /\ covered' >= covered
    BY <1>3 DEF Save
  <1>4. ASSUME NEW p \in Servers, Exit(p)  PROVE Counts' /\ covered' >= covered
    BY <1>4 DEF Exit
  <1>5. ASSUME NEW p \in Servers, Cancel(p)  PROVE Counts' /\ covered' >= covered
    <2>1. CASE pc[p] = "save" /\ Goto(p, "release") /\ Complete(p)
      BY <2>1, CompleteCounts DEF Complete
    <2>2. CASE Goto(p, "release") /\ UNCHANGED <<store, local, history>>
      BY <2>2
    <2>3. CASE pc[p] = "acquire"
      BY <1>5, <2>3 DEF Cancel, Leak, InTry
    <2>4. CASE pc[p] = "release"
      BY <1>5, <2>4 DEF Cancel, Unreleased, InTry
    <2>5. QED  BY <1>5, <2>1, <2>2, <2>3, <2>4 DEF Cancel
  <1>6. CASE LeaseExpires
    BY <1>6 DEF LeaseExpires
  <1>7. ASSUME NEW p \in Servers, Acquire(p)  PROVE Counts' /\ covered' >= covered
    BY <1>7 DEF Acquire, Leave, Leak
  <1>8. ASSUME NEW p \in Servers, Load(p)  PROVE Counts' /\ covered' >= covered
    BY <1>8 DEF Load
  <1>9. ASSUME NEW p \in Servers, Heartbeat(p) \/ CheckLockIntegrity(p)
        PROVE  Counts' /\ covered' >= covered
    BY <1>9 DEF Heartbeat, CheckLockIntegrity
  <1>10. ASSUME NEW p \in Servers, Reload(p) \/ ResetLoad(p)
         PROVE  Counts' /\ covered' >= covered
    BY <1>10 DEF Reload, ResetLoad
  <1>11. ASSUME NEW p \in Servers, SaveState(p)  PROVE Counts' /\ covered' >= covered
    <2>1. CASE Complete(p)
      BY <1>11, <2>1, CompleteCounts DEF SaveState, Complete
    <2>2. CASE UNCHANGED <<store, local, history>>
      BY <1>11, <2>2 DEF SaveState
    <2>3. QED  BY <1>11, <2>1, <2>2 DEF SaveState
  <1>12. ASSUME NEW p \in Servers, Fail(p)  PROVE Counts' /\ covered' >= covered
    <2>1. CASE UNCHANGED <<store, history>>
      BY <1>12, <2>1 DEF Fail
    <2>2. CASE pc[p] = "save" /\ owner = p /\ saveCount' = Remaining(p) /\ covered' = base[p]
               /\ saves' = saves /\ owner' = owner
      BY <1>12, <2>2, CompleteCounts DEF Fail
    <2>3. QED  BY <1>12, <2>1, <2>2 DEF Fail
  <1>13. ASSUME NEW p \in Servers, ResetSave(p)  PROVE Counts' /\ covered' >= covered
    BY <1>13 DEF ResetSave, Capped
  <1>14. ASSUME NEW p \in Servers, ResetFails(p)  PROVE Counts' /\ covered' >= covered
    BY <1>14 DEF ResetFails
  <1>15. ASSUME NEW p \in Servers, Release(p)  PROVE Counts' /\ covered' >= covered
    BY <1>15 DEF Release, Leave, Unreleased
  <1>16. CASE UNCHANGED vars
    BY <1>16 DEF vars
  <1>17. QED
    BY <1>1, <1>2, <1>3, <1>4, <1>5, <1>6, <1>7, <1>8, <1>9, <1>10, <1>11, <1>12,
       <1>13, <1>14, <1>15, <1>16 DEF Next, Run

\* The lock and the counts are kept in every reachable state.
THEOREM CountsAlways == Spec => [](TypeOK /\ Lease /\ Counts)
  <1>1. Init => Lease
    BY LifecycleAssumption DEF Init, Lease, TokenTruthful, LeaseHeld, Holding, InTry
  <1>2. Init => Counts
    BY LifecycleAssumption DEF Init, Counts, NeverOvercounts
  <1>3. TypeOK /\ Lease /\ Counts /\ [Next]_vars => Lease' /\ Counts'
    BY LeaseStep, CountsStep
  <1>4. QED  BY <1>1, <1>2, <1>3, TypeCorrect, PTL DEF Spec

\* save_count never counts a save twice, nor one that a completed run covered:
\* whichever of the resets and completions of runs that lost the lock come late.
THEOREM CountNeverTooHigh == Spec => []NeverOvercounts
  <1>1. Counts => NeverOvercounts
    BY DEF Counts
  <1>2. QED  BY <1>1, CountsAlways, PTL

\* Completions are recorded in the order in which the runs began.
THEOREM CompletionsInOrder == Spec => ProgressNeverRewinds
  <1>1. TypeOK /\ Lease /\ Counts /\ [Next]_vars => [covered' >= covered]_vars
    BY CountsStep
  <1>2. QED  BY <1>1, CountsAlways, PTL DEF Spec, ProgressNeverRewinds

=============================================================================
