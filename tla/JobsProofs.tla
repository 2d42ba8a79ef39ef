----------------------------- MODULE JobsProofs -----------------------------
(***************************************************************************)
(* Theorems about Jobs, for any number of memories and requests, any sizes *)
(* of a page and any days: types, that what the purger deletes is still    *)
(* archived for longer than the retention, that what is consolidated has a *)
(* successor, and that the cursor leaves no pair behind.                   *)
(***************************************************************************)
EXTENDS Jobs, FiniteSetTheorems, TLAPS

-----------------------------------------------------------------------------
(* The row a job is at: the least of the page.                             *)

\* A set of natural numbers has a least member.
LEMMA Least ==
  ASSUME NEW T \in SUBSET Nat, T # {}
  PROVE  \E n \in T : \A m \in T : n <= m
<1> DEFINE Under(n) == {k \in T : k < n}
           U == {Under(n) : n \in T}
<1>1. \A n \in T : IsFiniteSet(Under(n))
  <2> TAKE n \in T
  <2>1. \A k \in Under(n) : k <= n
    OBVIOUS
  <2>2. Under(n) \in SUBSET Nat /\ n \in Nat
    OBVIOUS
  <2> QED BY <2>1, <2>2, FS_BoundedSetOfNaturals
<1>2. U \subseteq FiniteSubsetsOf(T) /\ U # {}
  BY <1>1 DEF FiniteSubsetsOf
<1>3. IsWellFoundedOn(StrictSubsetOrdering(T), FiniteSubsetsOf(T))
  BY FS_StrictSubsetOrderingWellFounded
<1>4. PICK x \in U : \A y \in U : <<y, x>> \notin StrictSubsetOrdering(T)
  <2> HIDE DEF U
  <2> QED BY <1>2, <1>3, WFMin
<1>5. PICK n \in T : x = Under(n)
  OBVIOUS
<1>6. ASSUME NEW m \in T, m < n
      PROVE  FALSE
  <2>1. Under(m) \subseteq Under(n) /\ m \in Under(n) /\ m \notin Under(m)
    <3>1. m \in Nat /\ n \in Nat /\ m \in T
      BY <1>5
    <3>2. \A k \in Nat : k < m => k < n
      BY <1>6, <3>1
    <3>3. ~(m < m)
      BY <3>1
    <3> QED BY <1>6, <3>1, <3>2, <3>3
  <2>2. <<Under(m), x>> \in StrictSubsetOrdering(T)
    <3>1. <<Under(m), Under(n)>> \in (SUBSET T) \X (SUBSET T) /\ Under(m) # Under(n)
      BY <2>1
    <3> HIDE DEF Under
    <3> QED BY <1>5, <2>1, <3>1 DEF StrictSubsetOrdering
  <2> QED BY <1>4, <2>2
<1> QED BY <1>6

Entry == [id : Memories, read : Nat]
LEMMA CurrentIsListed ==
  ASSUME run.page \subseteq Entry, run.page # {}
  PROVE  /\ Current \in run.page
         /\ \A f \in run.page :
              \/ <<Current.read, Current.id>> = <<f.read, f.id>>
              \/ Current.read < f.read \/ (Current.read = f.read /\ Current.id < f.id)
<1> DEFINE reads == {e.read : e \in run.page}
<1>1. PICK t \in reads : \A r \in reads : t <= r
  <2>1. reads \in SUBSET Nat /\ reads # {}
    BY DEF Entry
  <2> HIDE DEF reads
  <2> QED BY <2>1, Least
<1> DEFINE ids == {e.id : e \in {f \in run.page : f.read = t}}
<1>2. PICK m \in ids : \A i \in ids : m <= i
  <2>1. ids \in SUBSET Nat /\ ids # {}
    BY <1>1, JobsAssumption DEF Entry, Memories, JobsAssumption
  <2> HIDE DEF ids
  <2> QED BY <2>1, Least
<1>3. PICK e \in run.page : e.read = t /\ e.id = m
  BY <1>2
<1>4. ASSUME NEW f \in run.page
      PROVE  \/ <<e.read, e.id>> = <<f.read, f.id>>
             \/ e.read < f.read \/ (e.read = f.read /\ e.id < f.id)
  <2>1. e.read <= f.read /\ (f.read = e.read => e.id <= f.id)
    BY <1>1, <1>2, <1>3
  <2>2. e.id \in Nat /\ f.id \in Nat /\ e.read \in Nat /\ f.read \in Nat
    BY JobsAssumption DEF Entry, Memories, JobsAssumption
  <2> QED BY <2>1, <2>2
<1> QED BY <1>4 DEF Current

-----------------------------------------------------------------------------
\* PurgesOnlyExpired is about the row as it is, the purger's test about the row
\* as it was listed.  In between, a row listed as long archived is either gone
\* for good, as no later memory takes its number, or unchanged: only what is live
\* is archived, and only what was archived yesterday or today is restored.
Fields == {"job", "dry", "now", "listing", "page", "full", "at", "since", "base",
           "near", "done", "simulated", "next"}
Purging(r) == r.job \in {"purger", "erase"} /\ ~r.listing
EverSaved == {k \in Memories : accessed[k] # 0}
Fresh(m) == archivedAt[m] + 1 >= day
ListedTrue(r) ==
  Purging(r) =>
    /\ r.page # {}
    /\ \A e \in r.page :
         /\ e \in Entry /\ e.read # 0 /\ e.id \in EverSaved
         /\ Expired(e.read) => e.id \notin rows \/ archivedAt[e.id] = e.read
Clock == run.now \in Nat /\ (run.job # "none" => run.now <= day /\ day <= run.now + 1)
Kept ==
  /\ day \in Nat \ {0} /\ archivedAt \in [Memories -> Nat] /\ accessed \in [Memories -> Nat]
  /\ rows \subseteq EverSaved /\ replacing \subseteq Memories
  /\ DOMAIN run = Fields
  /\ Clock
  /\ \A m \in replacing : Fresh(m)
  /\ ListedTrue(run)

\* What a step of the archiver or the consolidator leaves of a run.
LEMMA NextJobListed ==
  ASSUME NEW r, DOMAIN r = Fields, r.job # "erase"
  PROVE  /\ DOMAIN NextJob(r) = Fields /\ NextJob(r).now = r.now
         /\ ~Purging(NextJob(r)) /\ NextJob(r).job # "none"
  BY DEF NextJob, Fields, Purging

LEMMA AdvancedListed ==
  ASSUME NEW r, DOMAIN r = Fields, r.job # "erase", r.job # "none"
  PROVE  /\ DOMAIN Advanced(r) = Fields /\ Advanced(r).now = r.now /\ Advanced(r).job # "none"
         /\ Purging(Advanced(r)) => /\ Purging(r) /\ Advanced(r).page \subseteq r.page
                                    /\ Advanced(r).page # {}
<1> DEFINE left == [r EXCEPT !.page = @ \ {Current}, !.at = Current.id, !.base = 0, !.near = {},
                        !.since = IF r.job = "purger" THEN Current.read ELSE 0,
                        !.next = IF r.job = "consolidator" THEN Current.id ELSE r.next]
<1>1. /\ DOMAIN left = Fields /\ left.job = r.job /\ left.now = r.now /\ left.listing = r.listing
      /\ left.page = r.page \ {Current}
  BY DEF Fields
<1>2. Advanced(r) = IF left.page # {} THEN left
                    ELSE IF ReadsOn(r) THEN [left EXCEPT !.listing = TRUE] ELSE NextJob(left)
  BY Zenon DEF Advanced
<1>3. /\ DOMAIN [left EXCEPT !.listing = TRUE] = Fields /\ [left EXCEPT !.listing = TRUE].now = r.now
      /\ [left EXCEPT !.listing = TRUE].job = r.job /\ [left EXCEPT !.listing = TRUE].listing = TRUE
  BY <1>1 DEF Fields
<1> HIDE DEF left
<1>4. CASE left.page # {}
  BY <1>1, <1>2, <1>4 DEF Purging
<1>5. CASE left.page = {} /\ ReadsOn(r)
  BY <1>1, <1>2, <1>3, <1>5 DEF Purging
<1>6. CASE left.page = {} /\ ~ReadsOn(r)
  BY <1>1, <1>2, <1>6, NextJobListed
<1> QED BY <1>4, <1>5, <1>6

\* The invariant does not look at the relevance of a memory, the cursor or the
\* counters: what remains of a step is what it does to these variables.
LEMMA KeptInit == Init => Kept
<1> SUFFICES ASSUME Init PROVE Kept
  OBVIOUS
<1>1. EverSaved = {}
  BY DEF Init, EverSaved
<1>2. DOMAIN run = Fields /\ run.now = 0 /\ run.job = "none"
  BY DEF Init, Idle, Fields
<1>3. /\ archivedAt \in [Memories -> Nat] /\ accessed \in [Memories -> Nat]
      /\ rows \subseteq EverSaved /\ replacing = {} /\ day = 1
  BY DEF Init
<1> QED BY <1>1, <1>2, <1>3 DEF Kept, Clock, ListedTrue, Purging

\* A step that leaves the run and the archived rows on the page alone.
LEMMA SameRun ==
  ASSUME Kept, run' = run, day' = day, EverSaved \subseteq EverSaved',
         \A m \in EverSaved : m \in rows' => m \in rows,
         \A m \in EverSaved : m \in rows' /\ archivedAt'[m] # archivedAt[m] =>
           archivedAt[m] = 0 \/ m \in replacing,
         Retention # 0
  PROVE  ListedTrue(run)' /\ Clock' /\ (DOMAIN run = Fields)'
<1>1. Clock' /\ (DOMAIN run = Fields)'
  BY DEF Kept, Clock
<1>2. ASSUME Purging(run), NEW e \in run.page
      PROVE  /\ e \in Entry /\ e.read # 0 /\ e.id \in EverSaved'
             /\ Expired(e.read) => e.id \notin rows' \/ archivedAt'[e.id] = e.read
  <2>1. /\ e \in Entry /\ e.read # 0 /\ e.id \in EverSaved
        /\ Expired(e.read) => e.id \notin rows \/ archivedAt[e.id] = e.read
    BY <1>2 DEF Kept, ListedTrue
  <2>2. ASSUME Expired(e.read), e.id \in rows', archivedAt'[e.id] # e.read
        PROVE  FALSE
    <3>1. archivedAt[e.id] = e.read /\ archivedAt[e.id] # 0 /\ e.id \in replacing
      BY <2>1, <2>2
    <3>2. e.read + 1 >= day
      BY <3>1 DEF Kept, Fresh
    <3>3. e.read < run.now - Retention /\ run.now <= day
      BY <1>2, <2>2 DEF Expired, Kept, Clock, Purging
    <3>4. e.read \in Nat /\ day \in Nat /\ run.now \in Nat /\ Retention \in Nat
      BY <2>1, JobsAssumption DEF Entry, Kept, Clock, JobsAssumption
    <3> QED BY <3>2, <3>3, <3>4
  <2> QED BY <2>1, <2>2
<1>3. Purging(run) => run.page # {}
  BY DEF Kept, ListedTrue
<1>4. ListedTrue(run)'
  BY <1>2, <1>3 DEF ListedTrue, Purging, Expired
<1> QED BY <1>1, <1>4

\* The requests.
\* A save takes a number not used yet.
LEMMA KeptSave == ASSUME Kept, NEW m \in Memories, Save(m), Retention # 0 PROVE Kept'
<1>1. /\ m \notin EverSaved /\ rows' = rows \cup {m}
      /\ accessed' = [accessed EXCEPT ![m] = day]
      /\ UNCHANGED <<day, archivedAt, replacing, run>>
  BY DEF Save, EverSaved
<1>2. EverSaved' = EverSaved \cup {m}
  <2>1. \A k \in Memories : accessed'[k] = IF k = m THEN day ELSE accessed[k]
    BY <1>1 DEF Kept
  <2>2. day # 0
    BY DEF Kept
  <2> QED BY <2>1, <2>2 DEF EverSaved
<1>3. ListedTrue(run)' /\ Clock' /\ (DOMAIN run = Fields)'
  <2>1. \A k \in EverSaved : k \in rows' => k \in rows
    BY <1>1
  <2> QED BY <1>1, <1>2, <2>1, SameRun
<1>4. /\ (day \in Nat \ {0})' /\ (archivedAt \in [Memories -> Nat])'
      /\ (accessed \in [Memories -> Nat])' /\ (rows \subseteq EverSaved)'
      /\ (replacing \subseteq Memories)' /\ (\A k \in replacing : Fresh(k))'
  BY <1>1, <1>2 DEF Kept, Fresh
<1> QED BY <1>3, <1>4 DEF Kept

LEMMA KeptAccess ==
  ASSUME Kept, NEW m \in Memories, Access(m), Retention # 0 PROVE Kept'
<1>1. /\ m \in rows /\ accessed' = [accessed EXCEPT ![m] = day]
      /\ UNCHANGED <<day, rows, archivedAt, replacing, run>>
  BY DEF Access
<1>2. EverSaved' = EverSaved
  <2>1. \A k \in Memories : accessed'[k] = IF k = m THEN day ELSE accessed[k]
    BY <1>1 DEF Kept
  <2>2. day # 0 /\ m \in EverSaved
    BY <1>1 DEF Kept
  <2> QED BY <2>1, <2>2 DEF EverSaved
<1>3. ListedTrue(run)' /\ Clock' /\ (DOMAIN run = Fields)'
  BY <1>1, <1>2, SameRun
<1>4. /\ (day \in Nat \ {0})' /\ (archivedAt \in [Memories -> Nat])'
      /\ (accessed \in [Memories -> Nat])' /\ (rows \subseteq EverSaved)'
      /\ (replacing \subseteq Memories)' /\ (\A k \in replacing : Fresh(k))'
  BY <1>1, <1>2 DEF Kept, Fresh
<1> QED BY <1>3, <1>4 DEF Kept

LEMMA KeptDelete ==
  ASSUME Kept, NEW m \in Memories, Delete(m), Retention # 0 PROVE Kept'
<1>1. /\ m \in rows /\ rows' = rows \ {m} /\ replacing' = replacing \ {m}
      /\ archivedAt' = [archivedAt EXCEPT ![m] = 0]
      /\ UNCHANGED <<day, accessed, run>>
  BY DEF Delete
<1>2. \A k \in Memories : archivedAt'[k] = IF k = m THEN 0 ELSE archivedAt[k]
  BY <1>1 DEF Kept
<1>3. EverSaved' = EverSaved /\ EverSaved \subseteq Memories
  BY <1>1 DEF EverSaved
<1>4. ListedTrue(run)' /\ Clock' /\ (DOMAIN run = Fields)'
  BY <1>1, <1>2, <1>3, SameRun
<1>5. /\ (day \in Nat \ {0})' /\ (archivedAt \in [Memories -> Nat])'
      /\ (accessed \in [Memories -> Nat])' /\ (rows \subseteq EverSaved)'
      /\ (replacing \subseteq Memories)' /\ (\A k \in replacing : Fresh(k))'
  BY <1>1, <1>2, <1>3 DEF Kept, Fresh
<1> QED BY <1>4, <1>5 DEF Kept

LEMMA KeptReplace ==
  ASSUME Kept, NEW m \in Memories, Replace(m), Retention # 0 PROVE Kept'
<1>1. /\ m \in rows /\ archivedAt[m] = 0 /\ replacing' = replacing \cup {m}
      /\ archivedAt' = [archivedAt EXCEPT ![m] = day]
      /\ UNCHANGED <<day, rows, accessed, run>>
  BY DEF Replace, Live
<1>2. \A k \in Memories : archivedAt'[k] = IF k = m THEN day ELSE archivedAt[k]
  BY <1>1 DEF Kept
<1>3. EverSaved' = EverSaved /\ EverSaved \subseteq Memories
  BY <1>1 DEF EverSaved
<1>4. ListedTrue(run)' /\ Clock' /\ (DOMAIN run = Fields)'
  BY <1>1, <1>2, <1>3, SameRun
<1>5. /\ (day \in Nat \ {0})' /\ (archivedAt \in [Memories -> Nat])'
      /\ (accessed \in [Memories -> Nat])' /\ (rows \subseteq EverSaved)'
      /\ (replacing \subseteq Memories)' /\ (\A k \in replacing : Fresh(k))'
  BY <1>1, <1>2, <1>3 DEF Kept, Fresh
<1> QED BY <1>4, <1>5 DEF Kept

LEMMA KeptSettle ==
  ASSUME Kept, NEW m \in Memories, Settle(m), Retention # 0 PROVE Kept'
<1>1. /\ m \in replacing /\ replacing' = replacing \ {m}
      /\ archivedAt' = archivedAt \/ archivedAt' = [archivedAt EXCEPT ![m] = 0]
      /\ UNCHANGED <<day, rows, accessed, run>>
  BY DEF Settle
<1>2. \A k \in Memories : k # m => archivedAt'[k] = archivedAt[k]
  BY <1>1 DEF Kept
<1>3. EverSaved' = EverSaved /\ EverSaved \subseteq Memories
  BY <1>1 DEF EverSaved
<1>4. ListedTrue(run)' /\ Clock' /\ (DOMAIN run = Fields)'
  BY <1>1, <1>2, <1>3, SameRun
<1>5. /\ (day \in Nat \ {0})' /\ (archivedAt \in [Memories -> Nat])'
      /\ (accessed \in [Memories -> Nat])' /\ (rows \subseteq EverSaved)'
      /\ (replacing \subseteq Memories)' /\ (\A k \in replacing : Fresh(k))'
  BY <1>1, <1>2, <1>3 DEF Kept, Fresh
<1> QED BY <1>4, <1>5 DEF Kept

LEMMA KeptTick == ASSUME Kept, Tick, Retention # 0 PROVE Kept'
<1>1. /\ day' = day + 1 /\ replacing = {} /\ (run.job # "none" => day = run.now)
      /\ UNCHANGED <<rows, archivedAt, accessed, replacing, run>>
  BY DEF Tick, table
<1>2. Clock'
  BY <1>1 DEF Clock, Kept
<1>3. ListedTrue(run)'
  BY <1>1 DEF Kept, ListedTrue, Purging, EverSaved, Expired
<1>4. /\ (day \in Nat \ {0})' /\ (archivedAt \in [Memories -> Nat])'
      /\ (accessed \in [Memories -> Nat])' /\ (rows \subseteq EverSaved)'
      /\ (replacing \subseteq Memories)' /\ (\A k \in replacing : Fresh(k))'
      /\ (DOMAIN run = Fields)'
  BY <1>1 DEF Kept, EverSaved
<1> QED BY <1>2, <1>3, <1>4 DEF Kept

-----------------------------------------------------------------------------
(* The jobs.                                                               *)

\* A step of a job that leaves the memories alone: only the run is at stake.
LEMMA OnlyRun ==
  ASSUME Kept, UNCHANGED <<day, rows, archivedAt, accessed, replacing>>,
         (DOMAIN run = Fields)', run'.now = run.now \/ run'.now = day,
         run.job # "none" \/ run'.now = day, ListedTrue(run)'
  PROVE  Kept'
<1>1. Clock'
  BY DEF Clock, Kept
<1>2. /\ (day \in Nat \ {0})' /\ (archivedAt \in [Memories -> Nat])'
      /\ (accessed \in [Memories -> Nat])' /\ (rows \subseteq EverSaved)'
      /\ (replacing \subseteq Memories)' /\ (\A k \in replacing : Fresh(k))'
  BY DEF Kept, EverSaved, Fresh
<1> QED BY <1>1, <1>2 DEF Kept

LEMMA KeptBegin == ASSUME Kept, NEW dry \in DryRuns, Begin(dry) PROVE Kept'
<1>1. /\ run' = [Idle EXCEPT !.job = "archiver", !.listing = TRUE, !.dry = dry, !.now = day]
      /\ UNCHANGED <<day, rows, archivedAt, accessed, replacing>>
  BY DEF Begin, table
<1>2. /\ DOMAIN run' = Fields /\ run'.now = day /\ run'.job = "archiver"
  BY <1>1 DEF Idle, Fields
<1>3. ListedTrue(run)'
  BY <1>2 DEF ListedTrue, Purging
<1> QED BY <1>1, <1>2, <1>3, OnlyRun

LEMMA KeptListLive == ASSUME Kept, ListLive PROVE Kept'
<1>1. run.job \in {"archiver", "consolidator"} /\ DOMAIN run = Fields
  BY DEF ListLive, Kept
<1>2. PICK found, size, read : Listed(found, size, read)
  BY DEF ListLive
<1>3. UNCHANGED <<day, rows, archivedAt, accessed, replacing>>
  BY DEF ListLive, table
<1>4. DOMAIN run' = Fields /\ run'.now = run.now /\ ~Purging(run')
  <2>1. CASE found = {}
    BY <1>1, <1>2, <2>1, NextJobListed DEF Listed
  <2>2. CASE found # {}
    BY <1>1, <1>2, <2>2 DEF Listed, Fields, Purging
  <2> QED BY <2>1, <2>2
<1>5. ListedTrue(run)'
  BY <1>4 DEF ListedTrue, Purging
<1> QED BY <1>1, <1>3, <1>4, <1>5, OnlyRun

LEMMA KeptListArchived == ASSUME Kept, ListArchived PROVE Kept'
<1> DEFINE due == ArchivedAfter(run.since, run.at)
           found == {m \in due : Cardinality({k \in due : Earlier(k, m)}) < PageSize}
<1>1. run.job = "purger" /\ DOMAIN run = Fields
  BY DEF ListArchived, Kept
<1>2. Listed(found, PageSize, archivedAt)
  BY DEF ListArchived
<1>3. UNCHANGED <<day, rows, archivedAt, accessed, replacing>>
  BY DEF ListArchived, table
<1>4. \A m \in found : m \in rows /\ archivedAt[m] # 0
  BY DEF ArchivedAfter
<1> HIDE DEF found
<1>5. DOMAIN run' = Fields /\ run'.now = run.now /\ ListedTrue(run)'
  <2>1. CASE found = {}
    <3>1. run' = NextJob(run)
      BY <1>2, <2>1 DEF Listed
    <3>2. DOMAIN run' = Fields /\ run'.now = run.now /\ ~Purging(run')
      BY <1>1, <3>1, NextJobListed
    <3> QED BY <3>2 DEF ListedTrue, Purging
  <2>2. CASE found # {}
    <3>1. /\ DOMAIN run' = Fields /\ run'.now = run.now /\ run'.job = "purger"
          /\ run'.page = {[id |-> m, read |-> archivedAt[m]] : m \in found}
      BY <1>1, <1>2, <2>2 DEF Listed, Fields
    <3>2. ASSUME NEW e \in run'.page
          PROVE  /\ e \in Entry /\ e.read # 0 /\ e.id \in EverSaved'
                 /\ archivedAt'[e.id] = e.read
      <4>1. PICK m \in found : e = [id |-> m, read |-> archivedAt[m]]
        BY <3>1
      <4>2. m \in EverSaved /\ m \in Memories /\ archivedAt[m] \in Nat
        BY <1>4 DEF Kept, EverSaved
      <4> QED BY <1>3, <1>4, <4>1, <4>2 DEF Entry, EverSaved
    <3>3. run'.page # {}
      BY <2>2, <3>1
    <3> QED BY <3>1, <3>2, <3>3 DEF ListedTrue
  <2> QED BY <2>1, <2>2
<1> QED BY <1>1, <1>3, <1>5, OnlyRun

\* A job other than the purger may archive rows on the day it runs.
LEMMA KeptArchive ==
  ASSUME Kept, run.job \in {"archiver", "consolidator"}, NEW m,
         \/ archivedAt' = archivedAt
         \/ archivedAt' = [archivedAt EXCEPT ![m] = run.now],
         UNCHANGED <<day, rows, accessed, replacing>>,
         (DOMAIN run = Fields)', run'.now = run.now, ~Purging(run')
  PROVE  Kept'
<1>1. Clock' /\ run.now \in Nat /\ run.now + 1 >= day
  BY DEF Clock, Kept
<1>2. /\ (archivedAt \in [Memories -> Nat])'
      /\ \A k \in Memories : archivedAt'[k] = archivedAt[k] \/ archivedAt'[k] = run.now
  BY <1>1 DEF Kept
<1>3. (\A k \in replacing : Fresh(k))'
  BY <1>1, <1>2 DEF Kept, Fresh
<1>4. ListedTrue(run)'
  BY DEF ListedTrue, Purging
<1>5. /\ (day \in Nat \ {0})' /\ (accessed \in [Memories -> Nat])'
      /\ (rows \subseteq EverSaved)' /\ (replacing \subseteq Memories)'
  BY DEF Kept, EverSaved
<1> QED BY <1>1, <1>2, <1>3, <1>4, <1>5 DEF Kept

LEMMA KeptArchiveRow == ASSUME Kept, ArchiveRow PROVE Kept'
<1> DEFINE m == Current.id
           below == Below(m, Current.read)
           r == [run EXCEPT !.simulated = IF below /\ run.dry THEN @ \cup {m} ELSE @]
<1>1. run.job = "archiver" /\ DOMAIN run = Fields
  BY DEF ArchiveRow, Kept
<1>2. /\ archivedAt' = archivedAt \/ archivedAt' = [archivedAt EXCEPT ![m] = run.now]
      /\ run' = Advanced(r)
      /\ UNCHANGED <<day, rows, accessed, replacing>>
  BY DEF ArchiveRow
<1>3. DOMAIN r = Fields /\ r.job = "archiver" /\ r.now = run.now
  BY <1>1 DEF Fields
<1> HIDE DEF r
<1>4. DOMAIN run' = Fields /\ run'.now = run.now /\ ~Purging(run')
  <2>1. ~Purging(r)
    BY <1>3 DEF Purging
  <2> QED BY <1>2, <1>3, <2>1, AdvancedListed
<1> HIDE DEF m
<1> QED BY <1>1, <1>2, <1>4, KeptArchive

LEMMA KeptSearch == ASSUME Kept, Search PROVE Kept'
<1>1. run.job = "consolidator" /\ DOMAIN run = Fields
  BY DEF Search, Kept
<1>2. \/ run' = Advanced(run)
      \/ \E base, near : run' = [run EXCEPT !.base = base, !.near = near]
  BY DEF Search
<1>3. UNCHANGED <<day, rows, archivedAt, accessed, replacing>>
  BY DEF Search, table
<1>4. DOMAIN run' = Fields /\ run'.now = run.now /\ ~Purging(run')
  <2>1. CASE run' = Advanced(run)
    <3>1. ~Purging(run)
      BY <1>1 DEF Purging
    <3> QED BY <1>1, <2>1, <3>1, AdvancedListed
  <2>2. CASE \E base, near : run' = [run EXCEPT !.base = base, !.near = near]
    BY <1>1, <2>2 DEF Fields, Purging
  <2> QED BY <1>2, <2>1, <2>2
<1> QED BY <1>1, <1>3, <1>4, KeptArchive

LEMMA KeptConsolidate == ASSUME Kept, Consolidate PROVE Kept'
<1>1. run.job = "consolidator" /\ DOMAIN run = Fields
  BY DEF Consolidate, Kept
<1> DEFINE Counted(older, c) == [run EXCEPT !.done = @ \cup {older},
                                   !.simulated = IF run.dry THEN @ \cup {c} ELSE @]
<1>2. PICK c \in NextCandidates : \E counts \in BOOLEAN :
        /\ archivedAt' = IF counts /\ ~run.dry
                         THEN [archivedAt EXCEPT ![Older(run.base, c)] = run.now]
                         ELSE archivedAt
        /\ run' = AfterCandidate(IF ~counts THEN run ELSE Counted(Older(run.base, c), c), c)
  BY Zenon DEF Consolidate
<1> DEFINE older == Older(run.base, c)
           counted == Counted(older, c)
<1>3. PICK r \in {run, counted} :
        /\ archivedAt' = archivedAt \/ archivedAt' = [archivedAt EXCEPT ![older] = run.now]
        /\ run' = AfterCandidate(r, c)
  <2> HIDE DEF counted, older
  <2>1. PICK counts \in BOOLEAN :
        /\ archivedAt' = IF counts /\ ~run.dry THEN [archivedAt EXCEPT ![older] = run.now]
                         ELSE archivedAt
        /\ run' = AfterCandidate(IF ~counts THEN run ELSE counted, c)
    BY <1>2 DEF counted, older
  <2> QED BY <2>1
<1>4. UNCHANGED <<day, rows, accessed, replacing>>
  BY DEF Consolidate
<1>5. DOMAIN r = Fields /\ r.job = "consolidator" /\ r.now = run.now
  BY <1>1, <1>3 DEF Fields
<1> HIDE DEF counted, older
<1>6. DOMAIN run' = Fields /\ run'.now = run.now /\ ~Purging(run')
  <2>1. ~Purging(r)
    BY <1>5 DEF Purging
  <2>2. CASE run' = Advanced(r)
    BY <1>5, <2>1, <2>2, AdvancedListed
  <2>3. CASE run' = [r EXCEPT !.near = @ \ {c}]
    BY <1>5, <2>3 DEF Fields, Purging
  <2> QED BY <1>3, <2>2, <2>3 DEF AfterCandidate
<1> QED BY <1>1, <1>3, <1>4, <1>6, KeptArchive

\* What is left of a page is as true as it was.
LEMMA StillListed ==
  ASSUME Kept, NEW r, DOMAIN r = Fields, r.job \in {"purger", "erase"},
         r.page = run.page, r.listing = run.listing, r.now = run.now,
         run.job \in {"purger", "erase"}, run'.now = run.now,
         Purging(run') => Purging(r) /\ run'.page \subseteq r.page /\ run'.page # {},
         EverSaved' = EverSaved, rows' \subseteq rows,
         \A k \in rows' : archivedAt'[k] = archivedAt[k]
  PROVE  ListedTrue(run)'
<1> SUFFICES ASSUME Purging(run')
             PROVE  /\ run'.page # {}
                    /\ \A e \in run'.page :
                         /\ e \in Entry /\ e.read # 0 /\ e.id \in EverSaved'
                         /\ e.read < run'.now - Retention =>
                              e.id \notin rows' \/ archivedAt'[e.id] = e.read
  BY DEF ListedTrue, Purging, Expired
<1>1. Purging(run) /\ run'.page \subseteq run.page /\ run'.page # {}
  BY DEF Purging
<1>2. \A e \in run.page :
        /\ e \in Entry /\ e.read # 0 /\ e.id \in EverSaved
        /\ Expired(e.read) => e.id \notin rows \/ archivedAt[e.id] = e.read
  BY <1>1 DEF Kept, ListedTrue
<1> QED BY <1>1, <1>2 DEF Expired

\* The purger's row, and what its test says of the row as it is.
LEMMA RowToPurge ==
  ASSUME Kept, Purge
  PROVE  /\ run.job = "purger" /\ Purging(run) /\ Current \in run.page /\ Current \in Entry
         /\ Current.read # 0
         /\ Expired(Current.read) =>
              Current.id \notin rows \/ archivedAt[Current.id] = Current.read
<1>1. run.job = "purger" /\ Purging(run)
  BY DEF Purge, Purging
<1>2. /\ run.page # {} /\ run.page \subseteq Entry
      /\ \A e \in run.page : e.read # 0
           /\ (Expired(e.read) => e.id \notin rows \/ archivedAt[e.id] = e.read)
  BY <1>1 DEF Kept, ListedTrue
<1>3. Current \in run.page
  BY <1>2, CurrentIsListed
<1> QED BY <1>1, <1>2, <1>3

LEMMA KeptPurge == ASSUME Kept, Purge PROVE Kept'
<1> DEFINE m == Current.id
           erasing == [run EXCEPT !.job = "erase"]
<1>1. run.job = "purger" /\ DOMAIN run = Fields /\ m \in Memories
  BY RowToPurge DEF Kept, Entry
<1>2. /\ run' = erasing \/ run' = Advanced(run)
      /\ \/ /\ rows' = rows \ {m} /\ archivedAt' = [archivedAt EXCEPT ![m] = 0]
            /\ replacing' = replacing \ {m}
         \/ UNCHANGED <<rows, archivedAt, replacing>>
      /\ UNCHANGED <<day, accessed>>
  BY DEF Purge
<1>3. /\ DOMAIN erasing = Fields /\ erasing.job = "erase" /\ erasing.page = run.page
      /\ erasing.listing = run.listing /\ erasing.now = run.now
  BY <1>1 DEF Fields
<1> HIDE DEF m, erasing
<1>4. /\ EverSaved' = EverSaved /\ rows' \subseteq rows
      /\ \A k \in rows' : archivedAt'[k] = archivedAt[k]
      /\ archivedAt' \in [Memories -> Nat] /\ replacing' \subseteq replacing
      /\ \A k \in replacing' : archivedAt'[k] = archivedAt[k]
  BY <1>1, <1>2 DEF Kept, EverSaved
<1>5. /\ DOMAIN run' = Fields /\ run'.now = run.now
      /\ Purging(run') => Purging(run) /\ run'.page \subseteq run.page /\ run'.page # {}
  <2>1. CASE run' = erasing
    BY <1>1, <1>3, <2>1 DEF Purging, Kept, ListedTrue
  <2>2. CASE run' = Advanced(run)
    BY <1>1, <2>2, AdvancedListed
  <2> QED BY <1>2, <2>1, <2>2
<1>6. ListedTrue(run)'
  BY <1>1, <1>4, <1>5, StillListed
<1>7. Clock'
  BY <1>1, <1>2, <1>5 DEF Clock, Kept
<1>8. /\ (day \in Nat \ {0})' /\ (accessed \in [Memories -> Nat])'
      /\ (rows \subseteq EverSaved)' /\ (replacing \subseteq Memories)'
      /\ (\A k \in replacing : Fresh(k))'
  BY <1>2, <1>4 DEF Kept, Fresh
<1> QED BY <1>4, <1>5, <1>6, <1>7, <1>8 DEF Kept

LEMMA KeptErase == ASSUME Kept, Erase PROVE Kept'
<1> DEFINE r == [run EXCEPT !.job = "purger"]
<1>1. /\ run.job = "erase" /\ DOMAIN run = Fields /\ run' = Advanced(r)
      /\ UNCHANGED <<day, rows, archivedAt, accessed, replacing>>
  BY DEF Erase, Kept, table
<1>2. /\ DOMAIN r = Fields /\ r.job = "purger" /\ r.page = run.page
      /\ r.listing = run.listing /\ r.now = run.now
  BY <1>1 DEF Fields
<1> HIDE DEF r
<1>3. /\ DOMAIN run' = Fields /\ run'.now = run.now
      /\ Purging(run') => Purging(r) /\ run'.page \subseteq r.page /\ run'.page # {}
  BY <1>1, <1>2, AdvancedListed
<1>4. ListedTrue(run)'
  BY <1>1, <1>2, <1>3, StillListed DEF EverSaved
<1> QED BY <1>1, <1>3, <1>4, OnlyRun

LEMMA KeptEnd == ASSUME Kept, Finish \/ Abort PROVE Kept'
<1>1. run' = Idle /\ UNCHANGED <<day, rows, archivedAt, accessed, replacing>>
  BY DEF Finish, Abort, table
<1>2. (DOMAIN run = Fields)' /\ run'.now = 0 /\ run'.job = "none"
  BY <1>1 DEF Idle, Fields
<1>3. Clock' /\ ListedTrue(run)'
  BY <1>2 DEF Clock, ListedTrue, Purging
<1>4. /\ (day \in Nat \ {0})' /\ (archivedAt \in [Memories -> Nat])'
      /\ (accessed \in [Memories -> Nat])' /\ (rows \subseteq EverSaved)'
      /\ (replacing \subseteq Memories)' /\ (\A k \in replacing : Fresh(k))'
  BY <1>1 DEF Kept, EverSaved, Fresh
<1> QED BY <1>2, <1>3, <1>4 DEF Kept

LEMMA KeptStep == ASSUME Kept, [Next]_vars, Retention # 0 PROVE Kept'
<1>1. CASE Request
  BY <1>1, KeptSave, KeptTick, KeptAccess, KeptDelete, KeptReplace, KeptSettle DEF Request
<1>2. CASE \E dry \in DryRuns : Begin(dry)
  BY <1>2, KeptBegin
<1>3. CASE JobStep
  BY <1>3, KeptListLive, KeptListArchived, KeptArchiveRow, KeptSearch, KeptConsolidate,
     KeptPurge, KeptErase, KeptEnd DEF JobStep
<1>4. CASE Abort
  BY <1>4, KeptEnd
<1>5. CASE UNCHANGED vars
  <2>1. UNCHANGED <<day, rows, archivedAt, accessed, replacing, run>>
    BY <1>5 DEF vars, table
  <2> QED BY <2>1 DEF Kept, Clock, ListedTrue, Purging, Expired, EverSaved, Fresh
<1> QED BY <1>1, <1>2, <1>3, <1>4, <1>5 DEF Next

-----------------------------------------------------------------------------
\* With a retention of a day at least, a clean-up deletes no memory that is live
\* or was archived within the retention at the moment of the DELETE, whatever
\* requests did since the purger listed it.
THEOREM PurgesAreDue == ASSUME Retention # 0 PROVE Spec => PurgesOnlyExpired
<1>1. Init => Kept
  BY KeptInit
<1>2. Kept /\ [Next]_vars => Kept'
  BY KeptStep
<1>3. Kept /\ [Next]_vars =>
        [\A m \in rows \ rows' :
           Purge => archivedAt[m] # 0 /\ archivedAt[m] < day - Retention]_vars
  <2> SUFFICES ASSUME Kept, Purge, NEW m \in rows \ rows'
               PROVE  archivedAt[m] # 0 /\ archivedAt[m] < day - Retention
    OBVIOUS
  <2>1. m = Current.id /\ Expired(Current.read)
    BY DEF Purge
  <2>2. archivedAt[m] = Current.read /\ archivedAt[m] # 0 /\ Current \in Entry
    BY <2>1, RowToPurge
  <2>3. Current.read < run.now - Retention /\ run.now <= day
    BY <2>1, RowToPurge DEF Expired, Kept, Clock
  <2>4. Current.read \in Nat /\ run.now \in Nat /\ day \in Nat /\ Retention \in Nat
    BY <2>2, JobsAssumption DEF Entry, Kept, Clock, JobsAssumption
  <2> QED BY <2>2, <2>3, <2>4
<1> QED BY <1>1, <1>2, <1>3, PTL DEF Spec, PurgesOnlyExpired

-----------------------------------------------------------------------------
(* Types, and the shape of a run: what its fields say of each other.       *)

Jobs == {"archiver", "consolidator", "purger"}
Shape ==
  /\ day \in Days
  /\ archivedAt \in [Memories -> 0..LastDay] /\ accessed \in [Memories -> 0..LastDay]
  /\ \A m \in Memories \ rows : archivedAt[m] = 0
  /\ rows \subseteq Memories /\ cursor \in 0..N
  /\ replacing \subseteq rows /\ lost \subseteq Memories
  /\ restored \cup late \subseteq Memories
RunShape(r) ==
  /\ DOMAIN r = Fields /\ r.job \in Jobs \cup {"none", "erase", "save"}
  /\ r.listing \in BOOLEAN /\ r.dry \in BOOLEAN
  /\ r.now \in 0..LastDay /\ (r.job # "none" => r.now # 0)
  /\ r.page \subseteq Entry
  /\ r.page # {} <=> (r.job # "none" /\ ~r.listing /\ r.job # "save")
  /\ r.near \cup r.done \cup r.simulated \subseteq Memories
  /\ r.next \in 0..N
  /\ r.base # 0 => r.job = "consolidator" /\ ~r.listing
  /\ r.job = "erase" => ~r.listing

\* The base is the row the job is at.
BaseIsCurrent == run.base # 0 => run.base = Current.id
Shaped == Shape /\ RunShape(run) /\ BaseIsCurrent

\* What a run is after its last page, and after a row.
LEMMA NextJobRun ==
  ASSUME NEW r, DOMAIN r = Fields, r.job \in Jobs
  PROVE  /\ DOMAIN NextJob(r) = Fields
         /\ NextJob(r).now = r.now /\ NextJob(r).dry = r.dry /\ NextJob(r).page = r.page
         /\ NextJob(r).done = r.done /\ NextJob(r).simulated = r.simulated
         /\ NextJob(r).base = r.base /\ NextJob(r).near = r.near
         /\ NextJob(r).job = IF r.job = "archiver" THEN "consolidator"
                             ELSE IF r.job = "consolidator" THEN "purger" ELSE "save"
         /\ NextJob(r).listing = (r.job # "purger")
         /\ NextJob(r).next = IF r.job = "archiver" THEN cursor ELSE r.next
         /\ r.job = "archiver" => NextJob(r).at = cursor
<1>1. CASE r.job = "archiver"
  BY <1>1 DEF NextJob, Fields
<1>2. CASE r.job = "consolidator"
  BY <1>2 DEF NextJob, Fields
<1>3. CASE r.job = "purger"
  BY <1>3 DEF NextJob, Fields
<1> QED BY <1>1, <1>2, <1>3 DEF Jobs

AfterRow(r, a) ==
  /\ DOMAIN a = Fields
  /\ a.now = r.now /\ a.dry = r.dry
  /\ a.page = r.page \ {Current}
  /\ a.done = r.done /\ a.simulated = r.simulated
  /\ a.base = 0 /\ a.near = {}
  /\ \/ /\ a.job = r.job
        /\ a.listing = (r.page \ {Current} = {})
        /\ r.page \ {Current} = {} => ReadsOn(r)
        /\ a.at = Current.id
        /\ a.next = IF r.job = "consolidator" THEN Current.id ELSE r.next
     \/ /\ r.page \ {Current} = {}
        /\ a.job = IF r.job = "archiver" THEN "consolidator"
                   ELSE IF r.job = "consolidator" THEN "purger" ELSE "save"
        /\ a.listing = (r.job # "purger")
        /\ a.next = IF r.job = "archiver" THEN cursor
                    ELSE IF r.job = "consolidator" THEN Current.id ELSE r.next
        /\ r.job = "archiver" => a.at = cursor
LEMMA AdvancedRun ==
  ASSUME NEW r, DOMAIN r = Fields, r.job \in Jobs, r.listing = FALSE
  PROVE  AfterRow(r, Advanced(r))
<1> DEFINE left == [r EXCEPT !.page = @ \ {Current}, !.at = Current.id, !.base = 0, !.near = {},
                        !.since = IF r.job = "purger" THEN Current.read ELSE 0,
                        !.next = IF r.job = "consolidator" THEN Current.id ELSE r.next]
<1>1. /\ DOMAIN left = Fields /\ left.job = r.job /\ left.now = r.now /\ left.listing = FALSE
      /\ left.page = r.page \ {Current} /\ left.dry = r.dry /\ left.base = 0 /\ left.near = {}
      /\ left.done = r.done /\ left.simulated = r.simulated
      /\ left.at = Current.id
      /\ left.next = IF r.job = "consolidator" THEN Current.id ELSE r.next
  BY DEF Fields
<1>2. Advanced(r) = IF left.page # {} THEN left
                    ELSE IF ReadsOn(r) THEN [left EXCEPT !.listing = TRUE] ELSE NextJob(left)
  BY Zenon DEF Advanced
<1> DEFINE more == [left EXCEPT !.listing = TRUE]
<1>3. /\ DOMAIN more = Fields /\ more.job = left.job /\ more.now = left.now /\ more.listing = TRUE
      /\ more.page = left.page /\ more.dry = left.dry /\ more.base = left.base /\ more.near = left.near
      /\ more.done = left.done /\ more.simulated = left.simulated /\ more.next = left.next
      /\ more.at = left.at
  BY <1>1 DEF Fields
<1> HIDE DEF more
<1>4. Advanced(r) = IF left.page # {} THEN left ELSE IF ReadsOn(r) THEN more ELSE NextJob(left)
  BY <1>2 DEF more
<1> HIDE DEF left
<1>5. CASE left.page # {}
  BY <1>1, <1>4, <1>5 DEF AfterRow
<1>6. CASE left.page = {} /\ ReadsOn(r)
  BY <1>1, <1>3, <1>4, <1>6 DEF AfterRow
<1>7. CASE left.page = {} /\ ~ReadsOn(r)
  <2>1. Advanced(r) = NextJob(left) /\ left.page = {}
    BY <1>4, <1>7
  <2>2. DOMAIN left = Fields /\ left.job \in Jobs
    BY <1>1
  <2> QED BY <1>1, <2>1, <2>2, NextJobRun DEF Jobs, AfterRow
<1> QED BY <1>5, <1>6, <1>7

LEMMA SameCurrent == ASSUME run'.page = run.page PROVE Current' = Current
  BY DEF Current

\* Requests leave the run alone.
LEMMA RequestShape == ASSUME Shape, Request PROVE Shape' /\ run' = run
<1>1. LastDay \in Nat \ {0} /\ N \in Nat /\ day \in 1..LastDay /\ 0 \in 0..LastDay
      /\ day \in 0..LastDay
  BY JobsAssumption DEF JobsAssumption, Shape, Days
<1>2. ASSUME NEW gone \in SUBSET Memories, Disturb(gone) PROVE lost' \subseteq Memories
  BY <1>2 DEF Disturb, Shape
<1>3. CASE \E m \in Memories : Save(m)
  <2>1. PICK m \in Memories : Save(m)
    BY <1>3
  <2>2. /\ rows' = rows \cup {m} /\ accessed' = [accessed EXCEPT ![m] = day]
        /\ late' \subseteq late \cup {m} /\ Disturb({})
        /\ UNCHANGED <<day, archivedAt, replacing, cursor, run, restored>>
    BY <2>1 DEF Save
  <2> QED BY <1>1, <1>2, <2>2 DEF Shape
<1>4. CASE Tick
  <2>1. day < LastDay /\ day' = day + 1
        /\ UNCHANGED <<rows, archivedAt, accessed, replacing, cursor, run, lost, restored, late>>
    BY <1>4 DEF Tick, table, history
  <2>2. day' \in Days
    BY <1>1, <2>1 DEF Days
  <2> QED BY <2>1, <2>2 DEF Shape
<1>5. CASE \E m \in Memories : Access(m)
  BY <1>1, <1>2, <1>5 DEF Access, Shape
<1>6. CASE \E m \in Memories : Delete(m)
  <2>1. PICK m \in Memories : Delete(m)
    BY <1>6
  <2>2. /\ rows' = rows \ {m} /\ replacing' = replacing \ {m} /\ restored' = restored \ {m}
        /\ late' = late \ {m} /\ archivedAt' = [archivedAt EXCEPT ![m] = 0] /\ Disturb({m})
        /\ UNCHANGED <<day, accessed, cursor, run>>
    BY <2>1 DEF Delete
  <2> QED BY <1>1, <1>2, <2>2 DEF Shape
<1>7. CASE \E m \in Memories : Replace(m)
  <2>1. PICK m \in Memories : Replace(m)
    BY <1>7
  <2>2. /\ m \in rows /\ archivedAt' = [archivedAt EXCEPT ![m] = day]
        /\ replacing' = replacing \cup {m} /\ Disturb({m})
        /\ UNCHANGED <<day, rows, accessed, cursor, run, restored, late>>
    BY <2>1 DEF Replace, Live
  <2> QED BY <1>1, <1>2, <2>2 DEF Shape
<1>8. CASE \E m \in Memories : Settle(m)
  <2>1. PICK m \in Memories : Settle(m)
    BY <1>8
  <2>2. /\ replacing' = replacing \ {m}
        /\ \/ UNCHANGED <<archivedAt, lost, restored, late>>
           \/ /\ archivedAt' = [archivedAt EXCEPT ![m] = 0]
              /\ restored' = restored \cup {m} /\ late' = late /\ Disturb({})
        /\ UNCHANGED <<day, rows, accessed, cursor, run>>
    BY <2>1 DEF Settle, history
  <2> QED BY <1>1, <1>2, <2>2 DEF Shape
<1> QED BY <1>3, <1>4, <1>5, <1>6, <1>7, <1>8 DEF Request

\* After a row the shape of a run is what it was.
LEMMA AdvancedShape ==
  ASSUME NEW r, RunShape(r), r.job \in Jobs, r.listing = FALSE, cursor \in 0..N,
         r.job = "consolidator" => Current.id \in Memories
  PROVE  RunShape(Advanced(r)) /\ Advanced(r).base = 0
<1>1. r.job = "consolidator" => Current.id \in 0..N
  BY JobsAssumption DEF JobsAssumption, Memories
<1> DEFINE a == Advanced(r)
<1>2. DOMAIN r = Fields
  BY DEF RunShape
<1>3. AfterRow(r, a)
  BY <1>2, AdvancedRun
<1> HIDE DEF a
<1>7. a.listing \in BOOLEAN /\ a.job \in Jobs \cup {"save"}
      /\ (a.page # {} <=> (~a.listing /\ a.job # "save"))
  BY <1>3 DEF Jobs, AfterRow
<1>4. a.next \in 0..N
  BY <1>1, <1>3 DEF RunShape, AfterRow
<1>5. a.page \subseteq Entry /\ a.near \cup a.done \cup a.simulated \subseteq Memories
      /\ a.dry \in BOOLEAN /\ a.now \in 0..LastDay /\ a.now # 0
  BY <1>3 DEF RunShape, Jobs, AfterRow
<1>6. RunShape(a)
  BY <1>3, <1>4, <1>5, <1>7 DEF RunShape, Jobs, AfterRow
<1> QED BY <1>3, <1>6 DEF a, AfterRow

LEMMA ListedShape ==
  ASSUME RunShape(run), cursor \in 0..N, run.listing, run.job \in Jobs,
         NEW found \in SUBSET Memories, NEW read \in [Memories -> Nat], NEW size,
         Listed(found, size, read)
  PROVE  RunShape(run') /\ run'.base = 0
<1>1. DOMAIN run = Fields /\ run.base = 0 /\ run.page = {} /\ run.listing = TRUE
  BY DEF RunShape
<1>2. CASE found = {}
  <2>1. run' = NextJob(run)
    BY <1>2 DEF Listed
  <2>2. /\ DOMAIN run' = Fields
        /\ run'.now = run.now /\ run'.dry = run.dry /\ run'.page = run.page
        /\ run'.done = run.done /\ run'.simulated = run.simulated
        /\ run'.base = run.base /\ run'.near = run.near
        /\ run'.job = IF run.job = "archiver" THEN "consolidator"
                      ELSE IF run.job = "consolidator" THEN "purger" ELSE "save"
        /\ run'.listing = (run.job # "purger")
        /\ run'.next = IF run.job = "archiver" THEN cursor ELSE run.next
    BY <1>1, <2>1, NextJobRun
  <2> QED BY <1>1, <2>2 DEF RunShape, Jobs
<1>3. CASE found # {}
  <2> DEFINE page == {[id |-> m, read |-> read[m]] : m \in found}
  <2>1. run' = [run EXCEPT !.listing = FALSE, !.full = (Cardinality(found) = size),
                           !.page = page]
    BY <1>3 DEF Listed
  <2>2. page \subseteq Entry /\ page # {}
    <3>1. \A m \in found : [id |-> m, read |-> read[m]] \in Entry
      BY DEF Entry
    <3> QED BY <1>3, <3>1
  <2> HIDE DEF page
  <2>3. /\ DOMAIN run' = Fields /\ run'.now = run.now /\ run'.dry = run.dry /\ run'.page = page
        /\ run'.done = run.done /\ run'.simulated = run.simulated
        /\ run'.base = run.base /\ run'.near = run.near
        /\ run'.job = run.job /\ run'.listing = FALSE /\ run'.next = run.next
    BY <1>1, <2>1 DEF Fields
  <2> QED BY <1>1, <2>2, <2>3 DEF RunShape, Jobs
<1> QED BY <1>2, <1>3

\* The row of a job that is neither listing nor over is a row of the table.
LEMMA CurrentRow ==
  ASSUME RunShape(run), run.job \notin {"none", "save"}, ~run.listing
  PROVE  Current \in run.page /\ Current \in Entry
  BY CurrentIsListed DEF RunShape

LEMMA ShapedListing ==
  ASSUME Shaped, ListLive \/ ListArchived
  PROVE  Shaped'
<1>1. Shape'
  BY DEF ListLive, ListArchived, Shaped, Shape, table, history
<1>2. archivedAt \in [Memories -> Nat] /\ accessed \in [Memories -> Nat] /\ cursor \in 0..N
      /\ rows \subseteq Memories /\ [m \in Memories |-> 0] \in [Memories -> Nat]
  BY JobsAssumption DEF Shaped, Shape, JobsAssumption
<1>3. run.listing /\ run.job \in Jobs /\ RunShape(run)
  BY DEF ListLive, ListArchived, Jobs, Shaped
<1>4. \E found \in SUBSET Memories, read \in [Memories -> Nat] : \E size : Listed(found, size, read)
  <2>1. CASE ListLive
    <3>1. \A n : FirstOf(LiveAfter(run.at), n) \subseteq Memories
      BY <1>2 DEF FirstOf, LiveAfter, Live
    <3> QED BY <2>1, <3>1, <1>2 DEF ListLive
  <2>2. CASE ListArchived
    <3>1. ArchivedAfter(run.since, run.at) \subseteq Memories
      BY <1>2 DEF ArchivedAfter
    <3> QED BY <2>2, <3>1, <1>2 DEF ListArchived
  <2> QED BY <2>1, <2>2
<1>5. RunShape(run') /\ run'.base = 0
  BY <1>2, <1>3, <1>4, ListedShape
<1> QED BY <1>1, <1>5 DEF Shaped, BaseIsCurrent, RunShape

LEMMA ShapedArchiveRow == ASSUME Shaped, ArchiveRow PROVE Shaped'
<1>1. run.job = "archiver" /\ run.listing = FALSE /\ RunShape(run) /\ cursor \in 0..N
  BY DEF ArchiveRow, Shaped, Shape, RunShape
<1>2. Current \in Entry
  BY <1>1, CurrentRow
<1> DEFINE m == Current.id
           r(S) == [run EXCEPT !.simulated = S]
<1>3. /\ archivedAt' = archivedAt \/ (m \in rows /\ archivedAt' = [archivedAt EXCEPT ![m] = run.now])
      /\ UNCHANGED <<day, rows, accessed, replacing, cursor, lost, restored, late>>
  BY DEF ArchiveRow, history
<1>4. PICK S \in {run.simulated, run.simulated \cup {m}} : run' = Advanced(r(S))
  BY DEF ArchiveRow
<1>5. m \in Memories
  BY <1>2 DEF Entry
<1> HIDE DEF m
<1>6. Shape'
  BY <1>1, <1>3 DEF Shaped, Shape, RunShape
<1>7. RunShape(r(S)) /\ r(S).job = "archiver" /\ r(S).listing = FALSE
  BY <1>1, <1>4, <1>5 DEF RunShape, Fields
<1> HIDE DEF r
<1>8. RunShape(run') /\ run'.base = 0
  BY <1>1, <1>4, <1>7, AdvancedShape DEF Jobs
<1> QED BY <1>6, <1>8 DEF Shaped, BaseIsCurrent

LEMMA ShapedSearch == ASSUME Shaped, Search PROVE Shaped'
<1>1. /\ run.job = "consolidator" /\ run.listing = FALSE /\ RunShape(run) /\ cursor \in 0..N
      /\ run.base = 0
  BY DEF Search, Shaped, Shape, RunShape
<1>2. Current \in Entry
  BY <1>1, CurrentRow
<1>3. Shape'
  BY DEF Search, Shaped, Shape, table, history
<1>4. CASE run' = Advanced(run)
  <2>1. RunShape(run') /\ run'.base = 0
    BY <1>1, <1>2, <1>4, AdvancedShape DEF Jobs, Entry
  <2> QED BY <1>3, <2>1 DEF Shaped, BaseIsCurrent
<1>5. CASE run' # Advanced(run)
  <2>1. PICK found \in SUBSET Live :
          run' = [run EXCEPT !.base = Current.id, !.near = Candidates(Current.id, found)]
    BY <1>5 DEF Search
  <2>2. Candidates(Current.id, found) \subseteq Memories
    BY <1>3 DEF Candidates, Live, Shaped, Shape
  <2>3. RunShape(run') /\ run'.base = Current.id /\ run'.page = run.page
    BY <1>1, <2>1, <2>2 DEF RunShape, Fields
  <2> QED BY <1>3, <2>3, SameCurrent DEF Shaped, BaseIsCurrent
<1> QED BY <1>4, <1>5

\* What a step of _process_candidate does: the candidate, and whether it counts.
Counted(q, c) ==
  LET older == Older(run.base, c) IN
  /\ \A f \in Fields \ {"done", "simulated"} : q[f] = run[f]
  /\ \/ /\ q.done = run.done \cup {older}
        /\ archivedAt' = IF run.dry THEN archivedAt ELSE [archivedAt EXCEPT ![older] = run.now]
        /\ run.dry \/ older \in rows
     \/ /\ q.done = run.done /\ archivedAt' = archivedAt
        /\ older \in run.done \/ (~run.dry /\ older \notin rows)
  /\ q.simulated = run.simulated \/ (run.dry /\ q.simulated = run.simulated \cup {c})

LEMMA CandidateStep ==
  ASSUME DOMAIN run = Fields, Consolidate
  PROVE  \E c, q :
           /\ c \in NextCandidates
           /\ DOMAIN q = Fields /\ Counted(q, c) /\ run' = AfterCandidate(q, c)
<1>1. PICK c \in NextCandidates : \E counts \in BOOLEAN :
        /\ counts = (Older(run.base, c) \notin run.done /\ (run.dry \/ Older(run.base, c) \in rows))
        /\ archivedAt' = IF counts /\ ~run.dry
                         THEN [archivedAt EXCEPT ![Older(run.base, c)] = run.now]
                         ELSE archivedAt
        /\ run' = AfterCandidate(
             IF ~counts THEN run
             ELSE [run EXCEPT !.done = @ \cup {Older(run.base, c)},
                     !.simulated = IF run.dry THEN @ \cup {c} ELSE @], c)
  BY Zenon DEF Consolidate
<1> DEFINE older == Older(run.base, c)
           q == [run EXCEPT !.done = @ \cup {older},
                   !.simulated = IF run.dry THEN @ \cup {c} ELSE @]
<1>2. PICK counts \in BOOLEAN :
        /\ counts = (older \notin run.done /\ (run.dry \/ older \in rows))
        /\ archivedAt' = IF counts /\ ~run.dry THEN [archivedAt EXCEPT ![older] = run.now]
                         ELSE archivedAt
        /\ run' = AfterCandidate(IF ~counts THEN run ELSE q, c)
  BY <1>1
<1>3. /\ DOMAIN q = Fields /\ \A f \in Fields \ {"done", "simulated"} : q[f] = run[f]
      /\ q.done = run.done \cup {older}
      /\ q.simulated = run.simulated \/ (run.dry /\ q.simulated = run.simulated \cup {c})
  BY DEF Fields
<1> HIDE DEF older, q
<1>4. CASE counts
  <2>1. run' = AfterCandidate(q, c)
    BY <1>2, <1>4
  <2>2. archivedAt' = (IF run.dry THEN archivedAt ELSE [archivedAt EXCEPT ![older] = run.now])
        /\ (run.dry \/ older \in rows)
    BY <1>2, <1>4
  <2>3. Counted(q, c)
    BY <1>3, <2>2 DEF Counted, older
  <2> QED BY <1>3, <2>1, <2>3
<1>5. CASE ~counts
  <2>1. run' = AfterCandidate(run, c)
    BY <1>2, <1>5
  <2>2. archivedAt' = archivedAt /\ (older \in run.done \/ (~run.dry /\ older \notin rows))
    BY <1>2, <1>5
  <2>3. Counted(run, c)
    BY <2>2 DEF Counted, older
  <2> QED BY <2>1, <2>3
<1> QED BY <1>4, <1>5

LEMMA ShapedConsolidate == ASSUME Shaped, Consolidate PROVE Shaped'
<1>1. /\ run.job = "consolidator" /\ RunShape(run) /\ cursor \in 0..N
      /\ run.base # 0 /\ run.listing = FALSE /\ run.base = Current.id
  BY DEF Consolidate, Shaped, Shape, RunShape, BaseIsCurrent
<1>2. Current \in Entry
  BY <1>1, CurrentRow
<1>3. run.near \subseteq Memories /\ run.base \in Memories
  BY <1>1, <1>2 DEF RunShape, Entry
<1>4. PICK c, q :
        /\ c \in NextCandidates
        /\ DOMAIN q = Fields /\ Counted(q, c) /\ run' = AfterCandidate(q, c)
  BY <1>1, CandidateStep DEF RunShape
<1>5. c \in Memories
  BY <1>3, <1>4 DEF NextCandidates
<1> DEFINE older == Older(run.base, c)
<1>6. older \in Memories
  BY <1>3, <1>5 DEF Older
<1>7. /\ q.job = "consolidator" /\ q.listing = FALSE /\ q.page = run.page /\ q.base = run.base
      /\ q.dry = run.dry /\ q.now = run.now /\ q.near = run.near /\ q.next = run.next
      /\ q.done \subseteq run.done \cup {older}
      /\ q.simulated \subseteq run.simulated \cup {c}
  BY <1>1, <1>4 DEF Counted, Fields
<1>8. RunShape(q)
  BY <1>1, <1>4, <1>5, <1>6, <1>7 DEF RunShape
<1>9. Shape'
  <2>1. archivedAt' = archivedAt
        \/ (older \in rows /\ archivedAt' = [archivedAt EXCEPT ![older] = run.now])
    BY <1>4 DEF Counted
  <2>2. UNCHANGED <<day, rows, accessed, replacing, cursor, lost, restored, late>>
    BY DEF Consolidate, history
  <2> HIDE DEF older
  <2> QED BY <1>1, <1>6, <2>1, <2>2 DEF Shaped, Shape, RunShape
<1> HIDE DEF older
<1>10. CASE run' = Advanced(q)
  <2>1. RunShape(run') /\ run'.base = 0
    BY <1>1, <1>2, <1>7, <1>8, <1>10, AdvancedShape DEF Jobs, Entry
  <2> QED BY <1>9, <2>1 DEF Shaped, BaseIsCurrent
<1>11. CASE run' = [q EXCEPT !.near = @ \ {c}]
  <2>1. RunShape(run') /\ run'.base = run.base /\ run'.page = run.page
    BY <1>7, <1>8, <1>11 DEF RunShape, Fields
  <2> QED BY <1>1, <1>9, <2>1, SameCurrent DEF Shaped, BaseIsCurrent
<1> QED BY <1>4, <1>10, <1>11 DEF AfterCandidate

LEMMA ShapedPurge == ASSUME Shaped, Purge PROVE Shaped'
<1>1. /\ run.job = "purger" /\ RunShape(run) /\ cursor \in 0..N /\ run.listing = FALSE
      /\ run.base = 0
  BY DEF Purge, Shaped, Shape, RunShape
<1>2. Current.id \in Memories
  BY <1>1, CurrentRow DEF Entry
<1>3. Shape'
  <2>1. /\ \/ /\ rows' = rows \ {Current.id} /\ archivedAt' = [archivedAt EXCEPT ![Current.id] = 0]
              /\ replacing' = replacing \ {Current.id}
           \/ UNCHANGED <<rows, archivedAt, replacing>>
        /\ UNCHANGED <<day, accessed, cursor, lost, restored, late>>
    BY DEF Purge, history
  <2> QED BY <1>2, <2>1, JobsAssumption DEF Shaped, Shape, JobsAssumption
<1>4. CASE run' = Advanced(run)
  <2>1. RunShape(run') /\ run'.base = 0
    BY <1>1, <1>4, AdvancedShape DEF Jobs
  <2> QED BY <1>3, <2>1 DEF Shaped, BaseIsCurrent
<1>5. CASE run' = [run EXCEPT !.job = "erase"]
  BY <1>1, <1>3, <1>5 DEF Shaped, BaseIsCurrent, RunShape, Fields
<1> QED BY <1>4, <1>5 DEF Purge

LEMMA ShapedErase == ASSUME Shaped, Erase PROVE Shaped'
<1> DEFINE r == [run EXCEPT !.job = "purger"]
<1>1. /\ run.job = "erase" /\ RunShape(run) /\ cursor \in 0..N
      /\ run' = Advanced(r) /\ Shape'
  BY DEF Erase, Shaped, Shape, table, history
<1>2. run.listing = FALSE /\ run.base = 0 /\ run.page # {}
  <2>1. run.base = 0
    BY <1>1 DEF RunShape
  <2>2. run.listing = FALSE
    BY <1>1 DEF RunShape
  <2> QED BY <1>1, <2>1, <2>2 DEF RunShape
<1>3. RunShape(r) /\ r.job = "purger" /\ r.listing = FALSE
  <2>1. /\ DOMAIN r = Fields /\ r.job = "purger" /\ r.listing = run.listing /\ r.dry = run.dry
        /\ r.now = run.now /\ r.page = run.page /\ r.near = run.near /\ r.done = run.done
        /\ r.simulated = run.simulated /\ r.next = run.next /\ r.base = run.base
    BY <1>1 DEF RunShape, Fields
  <2> HIDE DEF r
  <2> QED BY <1>1, <1>2, <2>1 DEF RunShape, Jobs
<1> HIDE DEF r
<1>4. RunShape(run') /\ run'.base = 0
  BY <1>1, <1>3, AdvancedShape DEF Jobs
<1> QED BY <1>1, <1>4 DEF Shaped, BaseIsCurrent

LEMMA ShapedEnds ==
  ASSUME Shaped, Finish \/ Abort \/ (\E dry \in DryRuns : Begin(dry))
  PROVE  Shaped'
<1>1. LastDay \in Nat \ {0} /\ N \in Nat /\ DryRuns \subseteq BOOLEAN /\ day \in 1..LastDay
  BY JobsAssumption DEF JobsAssumption, Shaped, Shape, Days
<1>2. 0 \in 0..LastDay /\ 0 \in 0..N
  BY <1>1
<1>3. CASE \E dry \in DryRuns : Begin(dry)
  <2>1. PICK dry \in DryRuns :
          /\ run' = [Idle EXCEPT !.job = "archiver", !.listing = TRUE, !.dry = dry, !.now = day]
          /\ UNCHANGED <<day, rows, archivedAt, accessed, replacing, cursor, lost, restored, late>>
    BY <1>3 DEF Begin, table, history
  <2>2. RunShape(run') /\ run'.base = 0
    BY <1>1, <1>2, <2>1 DEF RunShape, Idle, Fields, Jobs, Days
  <2> QED BY <2>1, <2>2 DEF Shaped, Shape, BaseIsCurrent
<1>4. CASE Finish \/ Abort
  <2>1. /\ run' = Idle /\ lost' = {} /\ cursor' \in {cursor, run.next}
        /\ late' \subseteq late
        /\ UNCHANGED <<day, rows, archivedAt, accessed, replacing, restored>>
    BY <1>4 DEF Finish, Abort, table
  <2>2. RunShape(run') /\ run'.base = 0
    BY <1>2, <2>1 DEF RunShape, Idle, Fields, Jobs
  <2> QED BY <2>1, <2>2 DEF Shaped, Shape, BaseIsCurrent, RunShape
<1> QED BY <1>3, <1>4

LEMMA ShapedInit == Init => Shaped
<1> SUFFICES ASSUME Init PROVE Shaped
  OBVIOUS
<1>1. LastDay \in Nat \ {0} /\ N \in Nat /\ 0 \in 0..LastDay /\ 0 \in 0..N /\ 1 \in 1..LastDay
  BY JobsAssumption DEF JobsAssumption
<1>2. RunShape(run) /\ run.base = 0
  BY <1>1 DEF Init, RunShape, Idle, Fields, Jobs
<1>3. Shape
  BY <1>1 DEF Init, Shape, Days
<1> QED BY <1>2, <1>3 DEF Shaped, BaseIsCurrent

LEMMA ShapedStep == Shaped /\ [Next]_vars => Shaped'
<1> SUFFICES ASSUME Shaped, [Next]_vars PROVE Shaped'
  OBVIOUS
<1>1. CASE Request
  BY <1>1, RequestShape, SameCurrent DEF Shaped, BaseIsCurrent
<1>2. CASE JobStep
  BY <1>2, ShapedListing, ShapedArchiveRow, ShapedSearch, ShapedConsolidate, ShapedPurge,
     ShapedErase, ShapedEnds DEF JobStep
<1>3. CASE (\E dry \in DryRuns : Begin(dry)) \/ Abort
  BY <1>3, ShapedEnds
<1>4. CASE UNCHANGED vars
  BY <1>4, SameCurrent DEF vars, table, history, Shaped, Shape, BaseIsCurrent
<1> QED BY <1>1, <1>2, <1>3, <1>4 DEF Next

\* Types, for any number of memories, page sizes and days: a run has rows in hand
\* exactly while it handles a page, and a base only for the row it is at.
THEOREM JobsTyped == Spec => []TypeOK
<1>1. Shaped => TypeOK
  BY DEF Shaped, Shape, RunShape, BaseIsCurrent, TypeOK
<1> QED BY <1>1, ShapedInit, ShapedStep, PTL DEF Spec

-----------------------------------------------------------------------------
\* KeepsSuccessor: the rows a batch of the consolidator works on were live when
\* they were listed or found.  Since then a request may have taken them away, or
\* the batch itself archived them, and then they are in the processed set: a base
\* leaves the loop with its own archiving, and a candidate leaves the candidates.
Working(r) == r.job = "consolidator" /\ ~r.listing /\ ~r.dry
Usable == Live \cup lost
Superseding(r) ==
  Working(r) =>
    /\ \A e \in r.page : e.id \in Usable \cup r.done
    /\ r.base # 0 =>
         /\ r.base \in Usable \ r.done
         /\ \A k \in r.near : /\ k \in Usable \ r.done /\ k # r.base
                              /\ project[k] = project[r.base] /\ Like(r.base, k) # "far"
Superseded == Shaped /\ Superseding(run)

LEMMA RequestUsable ==
  ASSUME Shape, Request, run.job # "none"
  PROVE  Usable \subseteq Usable' /\ UNCHANGED <<run, project, likeness>>
<1>1. ASSUME NEW gone \in SUBSET Memories, Disturb(gone) PROVE lost' = lost \cup gone
  BY <1>1 DEF Disturb
<1>2. CASE Tick \/ \E m \in Memories : Save(m) \/ Access(m)
  BY <1>1, <1>2 DEF Save, Tick, Access, Usable, Live, table, static, history
<1>3. CASE \E m \in Memories : Delete(m)
  <2>1. PICK m \in Memories : Delete(m)
    BY <1>3
  <2>2. /\ rows' = rows \ {m} /\ archivedAt' = [archivedAt EXCEPT ![m] = 0]
        /\ lost' = lost \cup {m} /\ UNCHANGED <<run, project, likeness>>
    BY <1>1, <2>1 DEF Delete, static
  <2> QED BY <2>2 DEF Usable, Live, Shape
<1>4. CASE \E m \in Memories : Replace(m)
  <2>1. PICK m \in Memories : Replace(m)
    BY <1>4
  <2>2. /\ archivedAt' = [archivedAt EXCEPT ![m] = day] /\ rows' = rows
        /\ lost' = lost \cup {m} /\ UNCHANGED <<run, project, likeness>>
    BY <1>1, <2>1 DEF Replace, static
  <2> QED BY <2>2 DEF Usable, Live, Shape
<1>5. CASE \E m \in Memories : Settle(m)
  <2>1. PICK m \in Memories : Settle(m)
    BY <1>5
  <2>2. /\ archivedAt' = archivedAt \/ archivedAt' = [archivedAt EXCEPT ![m] = 0]
        /\ rows' = rows /\ lost' = lost /\ UNCHANGED <<run, project, likeness>>
    BY <1>1, <2>1 DEF Settle, static, history
  <2> QED BY <2>2 DEF Usable, Live, Shape
<1> QED BY <1>2, <1>3, <1>4, <1>5 DEF Request

\* Only the consolidator itself works on a batch after a step of a job.
LEMMA OnlyConsolidatorWorks ==
  ASSUME Shaped, \/ ArchiveRow \/ ListArchived \/ Purge \/ Erase \/ Finish \/ Abort
                 \/ \E dry \in DryRuns : Begin(dry)
  PROVE  ~Working(run')
<1>1. DOMAIN run = Fields /\ RunShape(run)
  BY DEF Shaped, RunShape
<1>2. CASE ArchiveRow
  <2> DEFINE r(S) == [run EXCEPT !.simulated = S]
  <2>1. PICK S : run' = Advanced(r(S))
    BY <1>2 DEF ArchiveRow
  <2>2. DOMAIN r(S) = Fields /\ r(S).job = "archiver" /\ r(S).listing = FALSE
    BY <1>1, <1>2 DEF ArchiveRow, Fields, RunShape
  <2> HIDE DEF r
  <2>3. AfterRow(r(S), run')
    BY <2>1, <2>2, AdvancedRun DEF Jobs
  <2> QED BY <2>2, <2>3 DEF AfterRow, Working
<1>3. CASE ListArchived
  <2>1. run.job = "purger" /\ \E found, size, read : Listed(found, size, read)
    BY <1>3 DEF ListArchived
  <2>2. run'.job # "consolidator"
    BY <1>1, <2>1 DEF Listed, NextJob, Fields
  <2> QED BY <2>2 DEF Working
<1>4. CASE Purge
  <2>1. run.job = "purger" /\ run.listing = FALSE
    BY <1>1, <1>4 DEF Purge, RunShape
  <2>2. CASE run' = Advanced(run)
    <3>1. AfterRow(run, run')
      BY <1>1, <2>1, <2>2, AdvancedRun DEF Jobs
    <3> QED BY <2>1, <3>1 DEF AfterRow, Working
  <2>3. CASE run' = [run EXCEPT !.job = "erase"]
    BY <1>1, <2>3 DEF Working, Fields
  <2> QED BY <1>4, <2>2, <2>3 DEF Purge
<1>5. CASE Erase
  <2> DEFINE r == [run EXCEPT !.job = "purger"]
  <2>1. run' = Advanced(r) /\ run.listing = FALSE
    BY <1>1, <1>5 DEF Erase, RunShape
  <2>2. DOMAIN r = Fields /\ r.job = "purger" /\ r.listing = FALSE
    BY <1>1, <2>1 DEF Fields
  <2> HIDE DEF r
  <2>3. AfterRow(r, run')
    BY <2>1, <2>2, AdvancedRun DEF Jobs
  <2> QED BY <2>2, <2>3 DEF AfterRow, Working
<1>6. CASE Finish \/ Abort \/ \E dry \in DryRuns : Begin(dry)
  <2>1. ASSUME NEW dry \in DryRuns, Begin(dry) PROVE run'.job = "archiver"
    BY <2>1 DEF Begin, Idle
  <2>2. ASSUME Finish \/ Abort PROVE run'.job = "none"
    BY <2>2 DEF Finish, Abort, Idle
  <2> QED BY <1>6, <2>1, <2>2 DEF Working
<1> QED BY <1>2, <1>3, <1>4, <1>5, <1>6

LEMMA SupersededListing == ASSUME Superseded, ListLive PROVE Superseding(run)'
<1> SUFFICES ASSUME Working(run') PROVE Superseding(run)'
  BY DEF Superseding
<1>1. /\ DOMAIN run = Fields /\ run.listing = TRUE /\ run.base = 0
      /\ run.job \in {"archiver", "consolidator"} /\ rows \subseteq Memories
      /\ UNCHANGED <<rows, archivedAt>>
  BY DEF Superseded, Shaped, Shape, RunShape, ListLive, table
<1>2. PICK found, size, read : found \in SUBSET Live /\ Listed(found, size, read)
  BY DEF ListLive, LiveAfter, FirstOf
<1>3. CASE found = {}
  <2>1. run'.listing = TRUE
    BY <1>1, <1>2, <1>3, NextJobRun DEF Listed, Jobs
  <2> QED BY <2>1 DEF Working
<1>4. CASE found # {}
  <2>1. run'.page = {[id |-> m, read |-> read[m]] : m \in found} /\ run'.base = 0
    BY <1>1, <1>2, <1>4 DEF Listed, Fields
  <2>2. \A e \in run'.page : e.id \in Live
    BY <1>2, <2>1
  <2> QED BY <1>1, <2>1, <2>2 DEF Superseding, Usable, Live
<1> QED BY <1>3, <1>4

\* After a row the rest of the page is as it was, and there is no base.
LEMMA SupersededAdvance ==
  ASSUME NEW r, DOMAIN r = Fields, r.job = "consolidator", r.listing = FALSE,
         run' = Advanced(r), \A e \in r.page : e.id \in Usable' \cup r.done
  PROVE  Superseding(run)'
<1>1. AfterRow(r, run')
  BY AdvancedRun DEF Jobs
<1>2. run'.page \subseteq r.page /\ run'.done = r.done /\ run'.base = 0
  BY <1>1 DEF AfterRow
<1> QED BY <1>2 DEF Superseding

LEMMA SupersededSearch == ASSUME Superseded, Search PROVE Superseding(run)'
<1> DEFINE m == Current.id
<1>1. /\ DOMAIN run = Fields /\ run.listing = FALSE /\ run.job = "consolidator"
      /\ RunShape(run) /\ UNCHANGED <<rows, archivedAt, lost, project, likeness>>
  BY DEF Superseded, Shaped, RunShape, Search, table, static, history
<1>2. Current \in run.page
  BY <1>1, CurrentRow
<1>3. Usable' = Usable
  BY <1>1 DEF Usable, Live
<1>4. CASE run' = Advanced(run)
  <2>1. AfterRow(run, run')
    BY <1>1, <1>4, AdvancedRun DEF Jobs
  <2>2. Working(run') => Working(run)
    BY <1>1, <2>1 DEF Working, AfterRow
  <2>3. Working(run') => \A e \in run.page : e.id \in Usable' \cup run.done
    BY <1>3, <2>2 DEF Superseded, Superseding
  <2>4. CASE Working(run')
    BY <1>1, <1>4, <2>3, <2>4, SupersededAdvance
  <2>5. CASE ~Working(run')
    BY <2>5 DEF Superseding
  <2> QED BY <2>4, <2>5
<1>5. CASE run' # Advanced(run)
  <2>1. PICK found \in SUBSET Live :
          /\ m \notin run.done
          /\ run' = [run EXCEPT !.base = m, !.near = Candidates(m, found)]
    BY <1>5 DEF Search
  <2>2. /\ run'.base = m /\ run'.near = Candidates(m, found) /\ run'.page = run.page
        /\ run'.done = run.done /\ (Working(run') => Working(run))
    BY <1>1, <2>1 DEF Fields, Working
  <2> HIDE DEF m
  <2>3. \A k \in Candidates(m, found) :
          /\ k \in Live /\ k \notin run.done /\ k # m
          /\ project[k] = project[m] /\ Like(m, k) # "far"
    BY DEF Candidates
  <2>4. ASSUME Working(run')
        PROVE  /\ \A e \in run'.page : e.id \in Usable \cup run'.done
               /\ m \in Usable \ run'.done
               /\ \A k \in run'.near : /\ k \in Usable \ run'.done /\ k # m
                                       /\ project[k] = project[m] /\ Like(m, k) # "far"
    <3>1. \A e \in run.page : e.id \in Usable \cup run.done
      BY <2>2, <2>4 DEF Superseded, Superseding
    <3>2. m \in Usable
      BY <1>2, <2>1, <3>1 DEF m
    <3> QED BY <2>1, <2>2, <2>3, <3>1, <3>2 DEF Usable
  <2> QED BY <1>1, <1>3, <2>2, <2>4 DEF Superseding, Like
<1> QED BY <1>4, <1>5

LEMMA SupersededConsolidate == ASSUME Superseded, Consolidate PROVE Superseding(run)'
<1>1. /\ DOMAIN run = Fields /\ run.job = "consolidator" /\ RunShape(run) /\ run.base # 0
      /\ UNCHANGED <<rows, lost, project, likeness>>
  BY DEF Superseded, Shaped, RunShape, Consolidate, static, history
<1>2. run.listing = FALSE /\ run.now # 0 /\ rows \subseteq Memories
      /\ archivedAt \in [Memories -> 0..LastDay]
  BY <1>1 DEF RunShape, Superseded, Shaped, Shape
<1>3. PICK c, q :
        /\ c \in NextCandidates
        /\ DOMAIN q = Fields /\ Counted(q, c) /\ run' = AfterCandidate(q, c)
  BY <1>1, CandidateStep
<1> DEFINE older == Older(run.base, c)
           D == q.done
<1>4. /\ run' = AfterCandidate(q, c) /\ DOMAIN q = Fields /\ q.job = "consolidator"
      /\ q.listing = FALSE /\ q.dry = run.dry /\ q.page = run.page /\ q.done = D
      /\ q.base = run.base /\ q.near = run.near
  BY <1>1, <1>2, <1>3 DEF Fields, Counted
<1>5. older \in {run.base, c}
  BY DEF Older
<1>6. \/ D = run.done \cup {older} /\ archivedAt' = IF run.dry THEN archivedAt
                                                    ELSE [archivedAt EXCEPT ![older] = run.now]
      \/ D = run.done /\ archivedAt' = archivedAt
  BY <1>3 DEF Counted
<1> HIDE DEF older, D
<1>7. c \in run.near
  BY <1>3 DEF NextCandidates
<1>8. CASE run.dry
  <2>1. ~Working(run')
    <3>1. CASE run' = Advanced(q)
      BY <1>4, <1>8, <3>1, AdvancedRun DEF AfterRow, Working, Jobs
    <3>2. CASE run' = [q EXCEPT !.near = @ \ {c}]
      BY <1>4, <1>8, <3>2 DEF Working, Fields
    <3> QED BY <1>4, <3>1, <3>2 DEF AfterCandidate
  <2> QED BY <2>1 DEF Superseding
<1>9. CASE ~run.dry
  <2>1. /\ \A e \in run.page : e.id \in Usable \cup run.done
        /\ run.base \in Usable \ run.done
        /\ \A k \in run.near : /\ k \in Usable \ run.done /\ k # run.base
                               /\ project[k] = project[run.base] /\ Like(run.base, k) # "far"
    BY <1>1, <1>2, <1>9 DEF Superseded, Superseding, Working
  <2>2. \A k \in Usable : k \in Usable' \/ (k = older /\ older \in D)
    BY <1>1, <1>2, <1>6, <1>9 DEF Usable, Live
  <2>3. \A e \in q.page : e.id \in Usable' \cup q.done
    BY <1>4, <1>6, <2>1, <2>2
  <2>4. CASE run' = Advanced(q)
    BY <1>4, <2>3, <2>4, SupersededAdvance
  <2>5. CASE q.base \notin q.done /\ run' = [q EXCEPT !.near = @ \ {c}]
    <3>1. run.base \in Usable' \ D
      BY <1>4, <2>1, <2>2, <2>5
    <3>2. \A k \in run.near \ {c} : k \in Usable' \ D
      <4>1. older = c \/ D = run.done
        BY <1>4, <1>5, <1>6, <2>5
      <4> QED BY <1>6, <2>1, <2>2, <4>1, <1>5
    <3>3. /\ run'.near = run.near \ {c} /\ run'.base = run.base /\ run'.done = D
          /\ run'.page = run.page
      BY <1>4, <2>5 DEF Fields
    <3> QED BY <1>1, <1>4, <2>1, <2>3, <3>1, <3>2, <3>3 DEF Superseding, Like
  <2> QED BY <1>4, <2>4, <2>5 DEF AfterCandidate
<1> QED BY <1>8, <1>9

LEMMA SupersededStep == Superseded /\ [Next]_vars => Superseded'
<1> SUFFICES ASSUME Superseded, [Next]_vars PROVE Superseding(run)'
  BY ShapedStep DEF Superseded
<1>1. CASE Request
  <2>1. CASE run.job = "none"
    <3>1. run' = run
      BY <1>1, RequestShape DEF Superseded, Shaped
    <3> QED BY <2>1, <3>1 DEF Superseding, Working
  <2>2. CASE run.job # "none"
    <3>1. Usable \subseteq Usable' /\ UNCHANGED <<run, project, likeness>>
      BY <1>1, <2>2, RequestUsable DEF Superseded, Shaped
    <3> QED BY <3>1 DEF Superseded, Superseding, Like, Working
  <2> QED BY <2>1, <2>2
<1>2. CASE JobStep \/ Abort \/ \E dry \in DryRuns : Begin(dry)
  <2>1. CASE ~Working(run')
    BY <2>1 DEF Superseding
  <2>2. CASE Working(run')
    BY <1>2, <2>2, OnlyConsolidatorWorks, SupersededListing, SupersededSearch,
       SupersededConsolidate DEF JobStep, Superseded
  <2> QED BY <2>1, <2>2
<1>3. CASE UNCHANGED vars
  BY <1>3 DEF vars, static, table, history, Superseded, Superseding, Usable, Live, Like, Working
<1> QED BY <1>1, <1>2, <1>3 DEF Next

\* Whatever the consolidator archives is superseded by a newer, similar memory of
\* the same project that is live then, or that a request took away during the run.
THEOREM SuccessorsKept == Spec => KeepsSuccessor
<1>1. Init => Superseded
  <2>1. Init => Superseding(run)
    BY DEF Init, Idle, Superseding, Working
  <2> QED BY <2>1, ShapedInit DEF Superseded
<1>2. Superseded /\ [Next]_vars =>
        [\A m \in Memories : Consolidate /\ archivedAt'[m] # archivedAt[m] =>
           \E n \in (m + 1)..N : /\ project[n] = project[m] /\ Like(m, n) # "far"
                                 /\ n \in Live \cup lost]_vars
  <2> SUFFICES ASSUME Superseded, Consolidate, NEW m \in Memories, archivedAt'[m] # archivedAt[m]
               PROVE  \E n \in (m + 1)..N : /\ project[n] = project[m] /\ Like(m, n) # "far"
                                            /\ n \in Live \cup lost
    OBVIOUS
  <2>1. /\ DOMAIN run = Fields /\ run.job = "consolidator" /\ run.base # 0 /\ run.listing = FALSE
        /\ run.near \subseteq Memories /\ archivedAt \in [Memories -> 0..LastDay]
    BY DEF Superseded, Shaped, Shape, RunShape, Consolidate
  <2>2. run.base \in Memories
    BY <2>1, CurrentRow DEF Superseded, Shaped, BaseIsCurrent, Entry
  <2>3. PICK c \in NextCandidates : /\ m = Older(run.base, c) /\ ~run.dry
    <3>1. \E c \in NextCandidates :
            \/ archivedAt' = archivedAt
            \/ ~run.dry /\ archivedAt' = [archivedAt EXCEPT ![Older(run.base, c)] = run.now]
      BY <2>1, CandidateStep DEF Counted
    <3> QED BY <2>1, <3>1
  <2>4. c \in run.near
    BY DEF NextCandidates
  <2>5. /\ run.base \in Usable
        /\ c \in Usable /\ c # run.base /\ project[c] = project[run.base]
        /\ Like(run.base, c) # "far"
    BY <2>1, <2>3, <2>4 DEF Superseded, Superseding, Working
  <2>6. run.base \in 1..N /\ c \in 1..N /\ N \in Nat
    BY <2>1, <2>2, <2>4, JobsAssumption DEF Memories, JobsAssumption
  <2>7. Like(run.base, c) = Like(c, run.base)
    <3>1. {run.base, c} = {c, run.base}
      OBVIOUS
    <3> QED BY <3>1 DEF Like
  <2>8. CASE run.base < c
    <3>1. m = run.base /\ c \in (m + 1)..N
      BY <2>3, <2>6, <2>8 DEF Older
    <3> QED BY <2>5, <3>1 DEF Usable
  <2>9. CASE ~(run.base < c)
    <3>1. m = c /\ run.base \in (m + 1)..N
      BY <2>3, <2>5, <2>6, <2>9 DEF Older
    <3> QED BY <2>5, <2>7, <3>1 DEF Usable
  <2> QED BY <2>8, <2>9
<1> QED BY <1>1, <1>2, SupersededStep, PTL DEF Spec, KeepsSuccessor

-----------------------------------------------------------------------------
\* CursorCovers.  Vector search returns TopK neighbours of all projects, and those
\* left out are no closer than those returned: a similar memory can only be left
\* out when TopK of them are similar.
Sparse ==
  \A w \in Worlds : \A m \in Memories :
    Cardinality({n \in Memories : n = m \/ w.likeness[{m, n}] # "far"}) <= TopK
Similar(m) == {n \in Memories : n = m \/ Like(m, n) # "far"}
SparseWorld ==
  /\ \A m, n \in Memories : Like(m, n) \in Closeness
  /\ \A m \in Memories : Cardinality(Similar(m)) <= TopK

\* Memories neither restored nor stored late: once archived or deleted, they stay
\* out of it, and what joins them is ahead of all the consolidator has passed.
Untouched == Live \ (restored \cup late)
Covers(x) ==
  \A m, n \in Untouched :
    m < n /\ n <= x /\ project[m] = project[n] => Like(m, n) = "far"

\* A batch: the rows left are the untouched ones from the cursor to the last of
\* them, a base misses none of its older neighbours, and what was archived is behind.
Batch(r) ==
  /\ \A e \in r.page : e.read = 0 /\ r.next < e.id
  /\ \A e \in r.page, n \in Untouched :
       r.next < n /\ n <= e.id => \E f \in r.page : f.id = n
  /\ r.done \cap Untouched = {}
  /\ \A d \in r.done : d <= r.next \/ \E e \in r.page : d <= e.id
  /\ r.base # 0 /\ r.base \in Untouched =>
       \A m \in Untouched :
         m < r.base /\ project[m] = project[r.base] /\ Like(m, r.base) # "far" => m \in r.near
Covering(r) ==
  ~r.dry =>
    /\ r.simulated = {}
    /\ r.job # "none" => Covers(r.next)
    /\ r.job = "archiver" => r.done = {}
    /\ r.job = "consolidator" /\ r.listing => r.at = r.next /\ r.done = {}
    /\ Working(r) => Batch(r)
Covered == Shaped /\ SparseWorld /\ Covers(cursor) /\ Covering(run)

LEMMA SparseInit == ASSUME Sparse, Init PROVE SparseWorld
<1>1. PICK w \in Worlds : project = w.project /\ likeness = w.likeness
  BY DEF Init
<1>2. w.likeness \in [{{m, n} : m, n \in Memories} -> Closeness]
  <2>1. w \in World
    BY JobsAssumption DEF JobsAssumption
  <2> QED BY <2>1 DEF World
<1>3. \A m, n \in Memories : Like(m, n) = w.likeness[{m, n}]
  BY <1>1 DEF Like
<1>4. \A m \in Memories : Similar(m) = {n \in Memories : n = m \/ w.likeness[{m, n}] # "far"}
  BY <1>3 DEF Similar
<1>5. \A m, n \in Memories : Like(m, n) \in Closeness
  <2> DEFINE pairs == {{m, n} : m, n \in Memories}
  <2>1. \A m, n \in Memories : {m, n} \in pairs
    OBVIOUS
  <2> HIDE DEF pairs
  <2>2. \A s \in pairs : w.likeness[s] \in Closeness
    BY <1>2 DEF pairs
  <2> QED BY <1>3, <2>1, <2>2
<1> QED BY <1>1, <1>4, <1>5 DEF Sparse, SparseWorld

\* In a sparse world a search misses no similar live memory.
LEMMA NearestFindsSimilar ==
  ASSUME SparseWorld, rows \subseteq Memories, NEW m \in Live, NEW found, Nearest(m, found),
         NEW a \in Live, Like(m, a) # "far"
  PROVE  a \in found
<1> SUFFICES ASSUME a \notin found PROVE FALSE
  OBVIOUS
<1>1. /\ IsFiniteSet(Memories) /\ IsFiniteSet(Live) /\ IsFiniteSet(found) /\ Live \subseteq Memories
      /\ TopK \in Nat
  <2>1. IsFiniteSet(Memories) /\ TopK \in Nat
    BY JobsAssumption, FS_Interval DEF JobsAssumption, Memories
  <2>2. found \subseteq Live /\ Live \subseteq Memories
    BY DEF Nearest, Live
  <2> QED BY <2>1, <2>2, FS_Subset
<1>2. found \subseteq Live /\ found # Live /\ m \in found /\ a # m
  BY DEF Nearest
<1>3. Cardinality(found) < Cardinality(Live) /\ Cardinality(found) \in Nat
      /\ Cardinality(Live) \in Nat
  BY <1>1, <1>2, FS_Subset, FS_CardinalityType
<1>4. Cardinality(found) = TopK
  BY <1>1, <1>3 DEF Nearest
<1>5. \A k \in found : k \in Similar(m)
  <2> TAKE k \in found
  <2>1. CASE k = m
    BY <1>1, <1>2, <2>1 DEF Similar
  <2>2. CASE k # m
    <3>1. Rank(Like(m, k)) >= Rank(Like(m, a))
      BY <2>2 DEF Nearest
    <3>2. Like(m, k) # "far"
      BY <3>1, <1>1, <1>2 DEF Rank, SparseWorld, Closeness
    <3> QED BY <3>2, <1>1, <1>2 DEF Similar
  <2> QED BY <2>1, <2>2
<1>6. a \in Similar(m)
  BY <1>1 DEF Similar
<1>7. Cardinality(found \cup {a}) = TopK + 1
  BY <1>1, <1>4, FS_AddElement
<1>8. found \cup {a} \subseteq Similar(m) /\ IsFiniteSet(Similar(m))
  <2>1. Similar(m) \subseteq Memories
    BY DEF Similar
  <2> QED BY <1>1, <1>5, <1>6, <2>1, FS_Subset
<1>9. Cardinality(found \cup {a}) <= Cardinality(Similar(m)) /\ Cardinality(Similar(m)) <= TopK
  BY <1>1, <1>8, FS_Subset DEF SparseWorld
<1>10. Cardinality(Similar(m)) \in Nat
  BY <1>8, FS_CardinalityType
<1> QED BY <1>1, <1>7, <1>9, <1>10

\* FirstOf takes a prefix.
LEMMA FirstOfPrefix ==
  ASSUME NEW S \in SUBSET Memories, NEW size \in Nat, NEW m \in FirstOf(S, size), NEW n \in S, n <= m
  PROVE  n \in FirstOf(S, size)
<1> DEFINE Before(x) == {k \in S : k < x}
<1>1. \A x \in S : x \in Int
  BY JobsAssumption DEF JobsAssumption, Memories
<1>2. m \in S /\ Cardinality(Before(m)) < size
  BY DEF FirstOf
<1>3. Before(n) \subseteq Before(m)
  BY <1>1, <1>2
<1>4. IsFiniteSet(Before(m)) /\ IsFiniteSet(Before(n))
  <2>1. IsFiniteSet(Memories)
    BY JobsAssumption, FS_Interval DEF JobsAssumption, Memories
  <2>2. Before(m) \subseteq Memories /\ Before(n) \subseteq Memories
    OBVIOUS
  <2> QED BY <2>1, <2>2, FS_Subset
<1>5. /\ Cardinality(Before(n)) <= Cardinality(Before(m)) /\ Cardinality(Before(n)) \in Nat
      /\ Cardinality(Before(m)) \in Nat
  <2> HIDE DEF Before
  <2> QED BY <1>3, <1>4, FS_Subset, FS_CardinalityType
<1>6. Cardinality(Before(n)) < size
  BY <1>2, <1>5
<1> QED BY <1>6 DEF FirstOf

-----------------------------------------------------------------------------
\* A step of a job takes memories away; one of a request may add some, but none
\* the consolidator has passed.
Shrunk == Untouched' \subseteq Untouched /\ UNCHANGED <<project, likeness>>
Ahead == /\ \A n \in Untouched' : n \in Untouched \/ ~Passed(n)
         /\ UNCHANGED <<run, cursor, project, likeness>>
CoversNext(x) ==
  \A m, n \in Untouched' :
    m < n /\ n <= x /\ project[m] = project[n] => Like(m, n) = "far"

LEMMA StillCovers == ASSUME Shrunk, NEW x, Covers(x) PROVE CoversNext(x)
  BY DEF Shrunk, Covers, CoversNext

LEMMA RequestAhead == ASSUME Shape, Request PROVE Ahead
<1>1. LastDay \in Nat \ {0} /\ day \in 1..LastDay
  BY JobsAssumption DEF JobsAssumption, Shape, Days
<1>2. UNCHANGED <<run, cursor, project, likeness>>
  BY DEF Request, Save, Tick, Access, Delete, Replace, Settle, static
<1>3. CASE \E m \in Memories : Save(m)
  <2>1. PICK m \in Memories : /\ rows' = rows \cup {m} /\ UNCHANGED <<archivedAt, restored>>
                              /\ late' = IF Passed(m) THEN late \cup {m} ELSE late
    BY <1>3 DEF Save
  <2>2. ASSUME NEW n \in Untouched', n \notin Untouched PROVE ~Passed(n)
    <3>1. n = m /\ n \notin late'
      BY <2>1, <2>2 DEF Untouched, Live
    <3> QED BY <2>1, <3>1
  <2> QED BY <1>2, <2>2 DEF Ahead
<1>4. CASE ~(\E m \in Memories : Save(m))
  <2>1. Untouched' \subseteq Untouched
    <3>1. CASE Tick \/ \E m \in Memories : Access(m)
      BY <3>1 DEF Tick, Access, table, history, Untouched, Live
    <3>2. CASE \E m \in Memories : Delete(m)
      <4>1. PICK m \in Memories : /\ rows' = rows \ {m} /\ restored' = restored \ {m}
                                  /\ late' = late \ {m}
                                  /\ archivedAt' = [archivedAt EXCEPT ![m] = 0]
        BY <3>2 DEF Delete
      <4> QED BY <4>1 DEF Shape, Untouched, Live
    <3>3. CASE \E m \in Memories : Replace(m)
      <4>1. PICK m \in Memories : /\ UNCHANGED <<rows, restored, late>> /\ m \in Memories
                                  /\ archivedAt' = [archivedAt EXCEPT ![m] = day]
        BY <3>3 DEF Replace
      <4>2. day # 0
        BY <1>1
      <4> QED BY <4>1, <4>2 DEF Shape, Untouched, Live
    <3>4. CASE \E m \in Memories : Settle(m)
      <4>1. PICK m \in Memories :
              \/ UNCHANGED <<rows, archivedAt, restored, late>>
              \/ /\ UNCHANGED <<rows, late>> /\ restored' = restored \cup {m}
                 /\ archivedAt' = [archivedAt EXCEPT ![m] = 0]
        BY <3>4 DEF Settle, history
      <4> QED BY <4>1 DEF Shape, Untouched, Live
    <3> QED BY <1>4, <3>1, <3>2, <3>3, <3>4 DEF Request
  <2> QED BY <1>2, <2>1 DEF Ahead
<1> QED BY <1>3, <1>4

\* What any step of a clean-up or a preview leaves of the memories.
LEMMA JobShrinks ==
  ASSUME Shaped, JobStep \/ (\E dry \in DryRuns : Begin(dry))
  PROVE  Shrunk /\ rows' \subseteq rows
<1>1. /\ DOMAIN run = Fields /\ (run.job # "none" => run.now # 0)
      /\ archivedAt \in [Memories -> 0..LastDay] /\ rows \subseteq Memories
  BY DEF Shaped, Shape, RunShape
<1>2. UNCHANGED <<restored, late, project, likeness>>
  BY DEF JobStep, Begin, ListLive, ListArchived, ArchiveRow, Search, Consolidate, Purge,
     Erase, Finish, static, table, history
<1>3. CASE ArchiveRow
  <2>1. UNCHANGED rows /\ run.now # 0
        /\ (archivedAt' = archivedAt \/ archivedAt' = [archivedAt EXCEPT ![Current.id] = run.now])
    BY <1>1, <1>3 DEF ArchiveRow
  <2> QED BY <1>1, <1>2, <2>1 DEF Untouched, Live, Shrunk
<1>4. CASE Consolidate
  <2>1. PICK c, q : c \in NextCandidates /\ Counted(q, c)
    BY <1>1, <1>4, CandidateStep
  <2>2. UNCHANGED rows /\ run.now # 0
        /\ (archivedAt' = archivedAt
            \/ archivedAt' = [archivedAt EXCEPT ![Older(run.base, c)] = run.now])
    BY <1>1, <1>4, <2>1 DEF Consolidate, Counted
  <2> QED BY <1>1, <1>2, <2>2 DEF Untouched, Live, Shrunk
<1>5. CASE Purge
  <2>1. \/ UNCHANGED <<rows, archivedAt>>
        \/ /\ rows' = rows \ {Current.id}
           /\ archivedAt' = [archivedAt EXCEPT ![Current.id] = 0]
    BY <1>5 DEF Purge
  <2> QED BY <1>1, <1>2, <2>1 DEF Untouched, Live, Shrunk
<1>6. CASE ~ArchiveRow /\ ~Consolidate /\ ~Purge
  <2>1. UNCHANGED <<rows, archivedAt>>
    BY <1>6 DEF JobStep, Begin, ListLive, ListArchived, Search, Erase, Finish, table
  <2> QED BY <1>2, <2>1 DEF Untouched, Live, Shrunk
<1> QED BY <1>2, <1>3, <1>4, <1>5, <1>6

\* Once the row a batch is at has no older neighbour left, the cursor moves to it.
LEMMA CoveringAdvance ==
  ASSUME NEW r, DOMAIN r = Fields, r.job = "consolidator", r.listing = FALSE, ~r.dry,
         r.simulated = {}, r.page = run.page, run.page # {}, run.page \subseteq Entry,
         run' = Advanced(r), UNCHANGED <<project, likeness>>,
         Untouched' \subseteq Untouched, Untouched \subseteq Memories, r.next \in 0..N,
         \A e \in r.page : e.read = 0 /\ r.next < e.id,
         \A e \in r.page, n \in Untouched :
           r.next < n /\ n <= e.id => \E f \in r.page : f.id = n,
         CoversNext(r.next), r.done \cap Untouched' = {}, r.done \subseteq Memories,
         \A d \in r.done : d <= r.next \/ \E e \in r.page : d <= e.id,
         Current.id \in Untouched' =>
           \A m \in Untouched' : m < Current.id /\ project[m] = project[Current.id]
                                   => Like(m, Current.id) = "far"
  PROVE  Covering(run)'
<1>1. /\ Current \in run.page /\ Current.id \in Memories /\ N \in Nat
      /\ \A f \in run.page : f = Current \/ Current.id < f.id
  <2>1. Current \in run.page
    BY CurrentIsListed
  <2>2. N \in Nat
    BY JobsAssumption DEF JobsAssumption
  <2>3. ASSUME NEW f \in run.page, ~(Current.id < f.id) PROVE f = Current
    <3>1. Current.read = 0 /\ f.read = 0 /\ Current \in Entry /\ f \in Entry
      BY <2>1
    <3>2. ~(Current.read < f.read)
      BY <3>1
    <3>3. <<Current.read, Current.id>> = <<f.read, f.id>>
      BY <2>3, <3>2, CurrentIsListed
    <3>4. f.id = Current.id
      BY <3>3
    <3>5. Current = [id |-> Current.id, read |-> Current.read] /\ f = [id |-> f.id, read |-> f.read]
      BY <3>1, Zenon DEF Entry
    <3> QED BY <3>1, <3>4, <3>5
  <2> QED BY <2>1, <2>2, <2>3 DEF Entry
<1>2. AfterRow(r, run')
  BY AdvancedRun DEF Jobs
<1>3. CoversNext(Current.id)
  <2> SUFFICES ASSUME NEW m \in Untouched', NEW n \in Untouched', m < n, n <= Current.id,
                      project[m] = project[n]
               PROVE  Like(m, n) = "far"
    BY DEF CoversNext
  <2>1. m \in 1..N /\ n \in 1..N /\ Current.id \in 1..N /\ r.next \in 0..N /\ N \in Nat
    BY <1>1 DEF Memories
  <2>2. CASE n <= r.next
    BY <2>2 DEF CoversNext
  <2>3. CASE r.next < n
    <3>1. PICK f \in r.page : f.id = n
      BY <1>1, <2>3
    <3>2. n = Current.id
      BY <1>1, <2>1, <3>1
    <3> QED BY <3>2
  <2> QED BY <2>1, <2>2, <2>3
<1>4. ~ReadsOn(r)
  BY DEF ReadsOn
<1>5. /\ run'.simulated = {} /\ run'.dry = r.dry /\ run'.next = Current.id
      /\ run'.job \in {"consolidator", "purger"}
      /\ run'.job = "consolidator" => ~run'.listing
      /\ run'.page = run.page \ {Current} /\ run'.done = r.done /\ run'.base = 0
  BY <1>2, <1>4 DEF AfterRow
<1>6. CoversNext(run'.next)
  BY <1>3, <1>5
<1>7. Covers(run.next)'
  BY <1>6 DEF CoversNext, Covers, Like
<1>8. Batch(run)'
  <2>1. \A e \in run'.page : e.read = 0 /\ run'.next < e.id
    BY <1>1, <1>5
  <2>2. ASSUME NEW e \in run'.page, NEW n \in Untouched', run'.next < n, n <= e.id
        PROVE  \E f \in run'.page : f.id = n
    <3>1. e \in r.page /\ e.id \in 1..N /\ n \in 1..N /\ Current.id \in 1..N /\ r.next < Current.id
      BY <1>1, <1>5, <2>2 DEF Memories, Entry
    <3>2. r.next < n
      BY <3>1, <1>5, <2>2
    <3>3. PICK f \in r.page : f.id = n
      BY <2>2, <3>1, <3>2
    <3>4. f # Current
      BY <1>5, <2>2, <3>1, <3>3
    <3> QED BY <1>5, <3>3, <3>4
  <2>3. ASSUME NEW d \in run'.done
        PROVE  d <= run'.next \/ \E e \in run'.page : d <= e.id
    <3>1. d \in r.done /\ d \in 1..N /\ Current.id \in 1..N /\ r.next < Current.id /\ r.next \in 0..N
      BY <1>1, <1>5, <2>3 DEF Memories
    <3>2. CASE d <= r.next
      BY <1>1, <1>5, <3>1, <3>2
    <3>3. CASE \E e \in r.page : d <= e.id
      BY <1>5, <3>3
    <3> QED BY <3>1, <3>2, <3>3
  <2> QED BY <1>5, <2>1, <2>2, <2>3 DEF Batch
<1> QED BY <1>5, <1>7, <1>8 DEF Covering

\* A job that leaves the next cursor and is no batch.
LEMMA CoveringOther ==
  ASSUME run'.dry = run.dry, run'.simulated = run.simulated, Covering(run),
         run.job # "none", ~run.dry => ~Working(run'),
         run'.job = "archiver" => run.job = "archiver" /\ run'.done = run.done,
         ~run.dry /\ run'.job = "consolidator" /\ run'.listing =>
           run'.at = run'.next /\ run'.done = {},
         run'.next = run.next \/ (run'.next = cursor /\ Covers(cursor)),
         Shaped, Shrunk, rows' \subseteq Memories
  PROVE  Covering(run)'
<1>1. ~run.dry => CoversNext(run'.next)
  <2> SUFFICES ASSUME ~run.dry PROVE CoversNext(run'.next)
    OBVIOUS
  <2>1. Covers(run'.next)
    BY DEF Covering, Covers
  <2> QED BY <2>1, StillCovers
<1>2. ~run.dry => Covers(run.next)'
  BY <1>1 DEF CoversNext, Covers, Like, Shrunk
<1> QED BY <1>2 DEF Covering

LEMMA CoveringListing == ASSUME Covered, ListLive \/ ListArchived, Shrunk PROVE Covering(run)'
<1>1. /\ DOMAIN run = Fields /\ RunShape(run) /\ run.listing = TRUE /\ run.job \in Jobs
      /\ rows \subseteq Memories /\ UNCHANGED <<rows, archivedAt, restored, late>> /\ run.base = 0
  BY DEF Covered, Shaped, Shape, RunShape, ListLive, ListArchived, table, Jobs, history
<1>2. PICK found, size, read :
        /\ found \in SUBSET rows /\ size \in Nat \ {0}
        /\ Listed(found, size, read)
        /\ run.job = "consolidator" =>
             /\ found = FirstOf(LiveAfter(run.at), size)
             /\ read = [m \in Memories |-> 0]
  <2>1. PageSize \in Nat \ {0} /\ BatchSize \in Nat \ {0}
    BY JobsAssumption DEF JobsAssumption
  <2>2. CASE ListLive
    <3>1. \A n : FirstOf(LiveAfter(run.at), n) \subseteq rows
      BY DEF FirstOf, LiveAfter, Live
    <3> QED BY <2>1, <2>2, <3>1 DEF ListLive
  <2>3. CASE ListArchived
    <3>1. ArchivedAfter(run.since, run.at) \subseteq rows /\ run.job = "purger"
      BY <2>3 DEF ListArchived, ArchivedAfter
    <3> QED BY <2>1, <2>3, <3>1 DEF ListArchived
  <2> QED BY <2>2, <2>3
<1>3. Covering(run) /\ Covers(cursor) /\ Shaped
  BY DEF Covered
<1>4. CASE found = {}
  <2>1. run' = NextJob(run)
    BY <1>2, <1>4 DEF Listed
  <2>2. /\ run'.dry = run.dry /\ run'.done = run.done /\ run'.simulated = run.simulated
        /\ run'.job = IF run.job = "archiver" THEN "consolidator"
                      ELSE IF run.job = "consolidator" THEN "purger" ELSE "save"
        /\ run'.listing = (run.job # "purger")
        /\ run'.next = IF run.job = "archiver" THEN cursor ELSE run.next
        /\ run.job = "archiver" => run'.at = cursor
    BY <1>1, <2>1, NextJobRun
  <2>3. ~Working(run') /\ run'.job # "archiver" /\ run.job # "none"
        /\ (run'.job = "consolidator" => run.job = "archiver")
    BY <1>1, <2>2 DEF Working, Jobs
  <2>4. ~run.dry /\ run.job = "archiver" => run.done = {}
    BY <1>3 DEF Covering
  <2> QED BY <1>1, <1>3, <2>2, <2>3, <2>4, CoveringOther
<1>5. CASE found # {}
  <2> DEFINE page == {[id |-> m, read |-> read[m]] : m \in found}
  <2>1. run' = [run EXCEPT !.listing = FALSE, !.full = (Cardinality(found) = size),
                           !.page = page]
    BY <1>2, <1>5 DEF Listed
  <2>2. /\ run'.page = page /\ run'.base = run.base /\ run'.next = run.next /\ run'.dry = run.dry
        /\ run'.done = run.done /\ run'.simulated = run.simulated /\ run'.job = run.job
        /\ run'.listing = FALSE
    BY <1>1, <2>1 DEF Fields
  <2>3. CASE ~Working(run')
    BY <1>1, <1>3, <2>2, <2>3, CoveringOther DEF Jobs
  <2>4. CASE Working(run')
    <3>1. run.job = "consolidator" /\ ~run.dry
      BY <2>2, <2>4 DEF Working
    <3>2. /\ run.at = run.next /\ run.done = {} /\ run.simulated = {} /\ Covers(run.next)
      BY <1>1, <1>3, <3>1 DEF Covering
    <3>3. found \subseteq LiveAfter(run.next) /\ \A m \in found : read[m] = 0
      BY <1>1, <1>2, <3>1, <3>2 DEF FirstOf
    <3> DEFINE live == LiveAfter(run.next)
    <3>4. live \in SUBSET Memories /\ found = FirstOf(live, size)
      BY <1>1, <1>2, <3>1, <3>2 DEF LiveAfter, Live
    <3>5. ASSUME NEW e \in page, NEW n \in Untouched', run.next < n, n <= e.id
          PROVE  \E f \in page : f.id = n
      <4>1. PICK m \in found : e.id = m
        OBVIOUS
      <4>2. n \in live
        BY <1>1, <3>5 DEF LiveAfter, Untouched, Live
      <4> HIDE DEF live
      <4>3. n <= m /\ m \in FirstOf(live, size) /\ size \in Nat
        BY <1>2, <3>4, <3>5, <4>1
      <4>4. n \in FirstOf(live, size)
        BY <3>4, <4>2, <4>3, FirstOfPrefix
      <4>5. n \in found
        BY <3>4, <4>4
      <4>6. [id |-> n, read |-> read[n]] \in page
        BY <4>5
      <4> QED BY <4>6
    <3>6. \A e \in page : e.read = 0 /\ run.next < e.id
      BY <3>3 DEF LiveAfter
    <3> HIDE DEF page, live
    <3>7. Batch(run)'
      BY <1>1, <2>2, <3>2, <3>5, <3>6 DEF Batch
    <3>8. CoversNext(run.next)
      BY <1>1, <1>3, <3>2, StillCovers
    <3>9. Covers(run.next)'
      BY <2>2, <3>8 DEF CoversNext, Covers, Like, Shrunk
    <3> QED BY <2>2, <3>1, <3>2, <3>7, <3>9 DEF Covering
  <2> QED BY <2>3, <2>4
<1> QED BY <1>4, <1>5

LEMMA CoveringArchiveRow == ASSUME Covered, ArchiveRow, Shrunk PROVE Covering(run)'
<1>1. /\ DOMAIN run = Fields /\ RunShape(run) /\ run.listing = FALSE /\ run.job = "archiver"
      /\ rows' \subseteq Memories
  BY DEF Covered, Shaped, Shape, RunShape, ArchiveRow
<1>2. Covering(run) /\ Covers(cursor) /\ Shaped
  BY DEF Covered
<1> DEFINE r(S) == [run EXCEPT !.simulated = S]
<1>3. PICK S : run' = Advanced(r(S)) /\ (~run.dry => S = run.simulated)
  BY DEF ArchiveRow
<1>4. /\ DOMAIN r(S) = Fields /\ r(S).job = "archiver" /\ r(S).listing = FALSE
      /\ r(S).next = run.next /\ r(S).dry = run.dry /\ r(S).simulated = S /\ r(S).done = run.done
  BY <1>1 DEF Fields
<1> HIDE DEF r
<1>5. AfterRow(r(S), run')
  BY <1>3, <1>4, AdvancedRun DEF Jobs
<1>6. CASE run.dry
  BY <1>4, <1>5, <1>6 DEF Covering, AfterRow
<1>7. CASE ~run.dry
  <2>1. /\ run'.dry = run.dry /\ run'.simulated = run.simulated /\ run'.done = run.done
        /\ ~Working(run')
        /\ run'.job = "consolidator" => run'.at = cursor /\ run'.next = cursor
        /\ run'.next \in {run.next, cursor}
    BY <1>3, <1>4, <1>5, <1>7 DEF AfterRow, Working
  <2>2. run.done = {}
    BY <1>1, <1>2, <1>7 DEF Covering
  <2> QED BY <1>1, <1>2, <2>1, <2>2, CoveringOther
<1> QED BY <1>6, <1>7

LEMMA CoveringPurge == ASSUME Covered, Purge \/ Erase, Shrunk PROVE Covering(run)'
<1>1. /\ DOMAIN run = Fields /\ RunShape(run) /\ run.listing = FALSE
      /\ run.job \in {"purger", "erase"} /\ rows' \subseteq Memories
  BY DEF Covered, Shaped, Shape, RunShape, Purge, Erase, table
<1>2. Covering(run) /\ Covers(cursor) /\ Shaped
  BY DEF Covered
<1>3. /\ run'.dry = run.dry /\ run'.simulated = run.simulated /\ run'.next = run.next
      /\ run'.job \in {"purger", "erase", "save"}
  <2> DEFINE r == [run EXCEPT !.job = "purger"]
             erasing == [run EXCEPT !.job = "erase"]
  <2>1. /\ DOMAIN r = Fields /\ r.job = "purger" /\ r.listing = FALSE /\ r.dry = run.dry
        /\ r.simulated = run.simulated /\ r.next = run.next
        /\ erasing.dry = run.dry /\ erasing.simulated = run.simulated
        /\ erasing.next = run.next /\ erasing.job = "erase"
    BY <1>1 DEF Fields
  <2>2. \/ run' = erasing \/ run' = Advanced(r)
        \/ run.job = "purger" /\ run' = Advanced(run)
    BY DEF Purge, Erase
  <2> HIDE DEF r, erasing
  <2>3. CASE run' = erasing
    BY <2>1, <2>3
  <2>4. CASE run' = Advanced(r)
    <3>1. AfterRow(r, run')
      BY <2>1, <2>4, AdvancedRun DEF Jobs
    <3> QED BY <2>1, <3>1 DEF AfterRow
  <2>5. CASE run.job = "purger" /\ run' = Advanced(run)
    BY <1>1, <2>5, AdvancedRun DEF AfterRow, Jobs
  <2> QED BY <2>2, <2>3, <2>4, <2>5
<1>4. ~Working(run')
  BY <1>3 DEF Working
<1> QED BY <1>1, <1>2, <1>3, <1>4, CoveringOther

LEMMA CoveringEnds ==
  ASSUME Finish \/ Abort \/ (\E dry \in DryRuns : Begin(dry)), Shaped,
         \A n \in Untouched' : n \in Memories
  PROVE  Covering(run)'
<1>1. CASE Finish \/ Abort
  <2>1. run'.simulated = {} /\ run'.job = "none"
    BY <1>1 DEF Finish, Abort, Idle
  <2> QED BY <2>1 DEF Covering, Working
<1>2. CASE \E dry \in DryRuns : Begin(dry)
  <2>1. /\ run'.simulated = {} /\ run'.job = "archiver" /\ run'.next = 0 /\ run'.done = {}
    BY <1>2 DEF Begin, Idle
  <2>2. \A n \in Untouched' : ~(n <= 0)
    BY JobsAssumption DEF Memories, JobsAssumption
  <2>3. Covers(run.next)'
    BY <2>1, <2>2 DEF Covers
  <2> QED BY <2>1, <2>3 DEF Covering, Working
<1> QED BY <1>1, <1>2

LEMMA CoveringSearch == ASSUME Covered, Search, Shrunk, Shaped' PROVE Covering(run)'
<1> DEFINE b == Current.id
<1>1. /\ DOMAIN run = Fields /\ RunShape(run) /\ run.listing = FALSE /\ run.job = "consolidator"
      /\ rows \subseteq Memories /\ run.page # {} /\ run.page \subseteq Entry /\ run.next \in 0..N
      /\ UNCHANGED <<rows, archivedAt, restored, late, project, likeness>>
  BY DEF Covered, Shaped, Shape, RunShape, Search, table, static, history
<1>2. Untouched' = Untouched /\ Untouched \subseteq Memories /\ Untouched \subseteq Live
  BY <1>1 DEF Untouched, Live
<1>3. b \in Memories
  BY <1>1, CurrentRow DEF Entry
<1>4. CASE run.dry
  <2>1. run'.dry
    <3>1. CASE run' = Advanced(run)
      BY <1>1, <1>4, <3>1, AdvancedRun DEF AfterRow, Jobs
    <3>2. CASE run' # Advanced(run)
      <4>1. PICK base, near : run' = [run EXCEPT !.base = base, !.near = near]
        BY <3>2 DEF Search
      <4> QED BY <1>1, <1>4, <4>1 DEF Fields
    <3> QED BY <3>1, <3>2
  <2> QED BY <2>1 DEF Covering
<1>5. CASE ~run.dry
  <2>1. Batch(run) /\ run.simulated = {} /\ Covers(run.next)
    BY <1>1, <1>5 DEF Covered, Covering, Working
  <2>2. CoversNext(run.next)
    BY <1>1, <2>1, StillCovers
  <2>3. ASSUME run' = Advanced(run),
               b \in Untouched =>
                 \A m \in Untouched : m < b /\ project[m] = project[b] => Like(m, b) = "far"
        PROVE  Covering(run)'
    <3>1. run.done \subseteq Memories
      BY <1>1 DEF RunShape
    <3> QED BY <1>1, <1>2, <1>5, <2>1, <2>2, <2>3, <3>1, CoveringAdvance DEF Batch
  <2>4. CASE b \in run.done \cup run.simulated /\ run' = Advanced(run)
    <3>1. b \notin Untouched
      BY <2>1, <2>4 DEF Batch
    <3> QED BY <2>3, <2>4, <3>1
  <2>5. ASSUME NEW found \in SUBSET Live, Nearest(b, found),
               run' = IF Candidates(b, found) = {} THEN Advanced(run)
                      ELSE [run EXCEPT !.base = b, !.near = Candidates(b, found)]
        PROVE  Covering(run)'
    <3>1. ASSUME b \in Untouched, NEW m \in Untouched, m < b, project[m] = project[b],
                 Like(m, b) # "far"
          PROVE  m \in Candidates(b, found)
      <4>1. Like(b, m) # "far"
        <5>1. {b, m} = {m, b}
          OBVIOUS
        <5> QED BY <3>1, <5>1 DEF Like
      <4>2. m \in found
        BY <1>1, <1>2, <2>5, <3>1, <4>1, NearestFindsSimilar DEF Covered
      <4>3. m \notin run.done /\ m \notin run.simulated
        BY <2>1, <3>1 DEF Batch
      <4>4. m # b
        BY <1>2, <1>3, <3>1, JobsAssumption DEF Memories, JobsAssumption
      <4> QED BY <3>1, <4>1, <4>2, <4>3, <4>4 DEF Candidates
    <3>2. CASE Candidates(b, found) = {}
      BY <2>3, <2>5, <3>1, <3>2
    <3>3. CASE Candidates(b, found) # {}
      <4>1. /\ run'.base = b /\ run'.near = Candidates(b, found) /\ run'.page = run.page
            /\ run'.next = run.next /\ run'.done = run.done /\ run'.simulated = {}
            /\ run'.job = "consolidator" /\ run'.listing = FALSE /\ run'.dry = run.dry
        BY <1>1, <2>1, <2>5, <3>3 DEF Fields
      <4>2. Batch(run)'
        <5> HIDE DEF b
        <5> QED BY <1>1, <1>2, <2>1, <3>1, <4>1 DEF Batch, Like
      <4>3. Covers(run.next)'
        BY <2>2, <4>1 DEF CoversNext, Covers, Like, Shrunk
      <4> QED BY <4>1, <4>2, <4>3 DEF Covering
    <3> QED BY <3>2, <3>3
  <2> QED BY <2>4, <2>5 DEF Search
<1> QED BY <1>4, <1>5

LEMMA CoveringConsolidate == ASSUME Covered, Consolidate, Shrunk PROVE Covering(run)'
<1>1. /\ DOMAIN run = Fields /\ RunShape(run) /\ run.listing = FALSE /\ run.job = "consolidator"
      /\ rows \subseteq Memories /\ run.page # {} /\ run.page \subseteq Entry /\ run.next \in 0..N
      /\ archivedAt \in [Memories -> 0..LastDay] /\ run.near \subseteq Memories /\ run.now # 0
      /\ run.base # 0 /\ run.base = Current.id
      /\ UNCHANGED <<rows, restored, late, project, likeness>>
  BY DEF Covered, Shaped, Shape, RunShape, BaseIsCurrent, Consolidate, static, history
<1>2. Untouched \subseteq Memories /\ Untouched' \subseteq Untouched
  BY <1>1 DEF Untouched, Live, Shrunk
<1>3. PICK c, q :
        /\ c \in NextCandidates
        /\ DOMAIN q = Fields /\ Counted(q, c) /\ run' = AfterCandidate(q, c)
  BY <1>1, CandidateStep
<1>4. /\ q.job = "consolidator" /\ q.listing = FALSE /\ q.dry = run.dry /\ q.page = run.page
      /\ q.base = run.base /\ q.near = run.near /\ q.next = run.next
      /\ (~run.dry => q.simulated = run.simulated)
  BY <1>1, <1>3 DEF Counted, Fields
<1> DEFINE older == Older(run.base, c)
<1>5. older \in {run.base, c} /\ c \in run.near
  BY <1>3 DEF Older, NextCandidates
<1>6. CASE run.dry
  <2>1. run'.dry
    <3>1. CASE run' = Advanced(q)
      BY <1>3, <1>4, <1>6, <3>1, AdvancedRun DEF AfterRow, Jobs
    <3>2. CASE run' = [q EXCEPT !.near = @ \ {c}]
      BY <1>3, <1>4, <1>6, <3>2 DEF Fields
    <3> QED BY <1>3, <3>1, <3>2 DEF AfterCandidate
  <2> QED BY <2>1 DEF Covering
<1>7. CASE ~run.dry
  <2>1. Batch(run) /\ run.simulated = {} /\ Covers(run.next)
    BY <1>1, <1>7 DEF Covered, Covering, Working
  <2>2. CoversNext(run.next)
    BY <1>1, <2>1, StillCovers
  <2>3. older \notin Untouched' /\ q.done \cap Untouched' = {}
    <3>1. \/ /\ q.done = run.done \cup {older}
             /\ archivedAt' = [archivedAt EXCEPT ![older] = run.now] /\ older \in rows
          \/ /\ q.done = run.done /\ (older \in run.done \/ older \notin rows)
      BY <1>3, <1>7 DEF Counted
    <3>2. q.done \subseteq run.done \cup {older}
      BY <1>3, <1>7 DEF Counted
    <3> HIDE DEF older
    <3>3. older \notin Untouched'
      <4>1. CASE archivedAt' = [archivedAt EXCEPT ![older] = run.now] /\ older \in rows
        BY <1>1, <4>1 DEF Untouched, Live
      <4>2. CASE older \in run.done
        BY <1>2, <2>1, <4>2 DEF Batch
      <4>3. CASE older \notin rows
        BY <1>1, <4>3 DEF Untouched, Live
      <4> QED BY <3>1, <4>1, <4>2, <4>3
    <3> QED BY <1>2, <2>1, <3>2, <3>3 DEF Batch
  <2>7. /\ q.done \subseteq Memories
        /\ \A d \in q.done : d <= run.next \/ \E e \in run.page : d <= e.id
    <3>1. q.done \subseteq run.done \cup {older} /\ run.done \subseteq Memories
      BY <1>1, <1>3, <1>7 DEF Counted, RunShape
    <3>2. Current \in run.page /\ run.base \in 1..N /\ c \in 1..N /\ N \in Nat
      BY <1>1, <1>5, CurrentRow, JobsAssumption DEF Covered, Shaped, Entry, Memories, JobsAssumption
    <3>3. older <= Current.id /\ older \in Memories
      BY <1>1, <3>2 DEF Older, Memories
    <3> HIDE DEF older
    <3> QED BY <2>1, <3>1, <3>2, <3>3 DEF Batch
  <2> HIDE DEF older
  <2>4. ASSUME run.base \in Untouched', NEW m \in Untouched', m < run.base,
               project[m] = project[run.base], Like(m, run.base) # "far"
        PROVE  m \in run.near \ {c} /\ run.base \notin q.done
    <3>1. m \in run.near
      BY <1>1, <1>2, <2>1, <2>4 DEF Batch
    <3>2. older = c
      BY <1>5, <2>3, <2>4
    <3> QED BY <2>3, <2>4, <3>1, <3>2
  <2>5. CASE run' = Advanced(q) /\ (q.base \in q.done \/ q.near = {c})
    <3>1. Current.id \in Untouched' =>
            \A m \in Untouched' : m < Current.id /\ project[m] = project[Current.id]
                                    => Like(m, Current.id) = "far"
      BY <1>1, <1>4, <2>4, <2>5
    <3> QED BY <1>1, <1>2, <1>3, <1>4, <1>7, <2>1, <2>2, <2>3, <2>5, <2>7, <3>1, CoveringAdvance DEF Batch
  <2>6. CASE run' = [q EXCEPT !.near = @ \ {c}]
    <3>1. /\ run'.base = run.base /\ run'.near = run.near \ {c} /\ run'.page = run.page
          /\ run'.next = run.next /\ run'.done = q.done /\ run'.simulated = {}
          /\ run'.job = "consolidator" /\ run'.listing = FALSE /\ run'.dry = run.dry
      BY <1>3, <1>4, <1>7, <2>1, <2>6 DEF Fields
    <3>2. Batch(run)'
      BY <1>1, <1>2, <2>1, <2>3, <2>4, <2>7, <3>1 DEF Batch, Like
    <3>3. Covers(run.next)'
      BY <2>2, <3>1 DEF CoversNext, Covers, Like, Shrunk
    <3> QED BY <3>1, <3>2, <3>3 DEF Covering
  <2> QED BY <1>3, <2>5, <2>6 DEF AfterCandidate
<1> QED BY <1>6, <1>7

\* Requests change what a batch knows of the untouched memories only by taking
\* some away, or ahead of it.
LEMMA CoveringSame == ASSUME Covered, Ahead, rows' \subseteq Memories PROVE Covering(run)'
<1>1. run' = run /\ project' = project /\ likeness' = likeness
  BY DEF Ahead
<1>2. CASE run.dry
  BY <1>1, <1>2 DEF Covering
<1>3. CASE ~run.dry
  <2>1. /\ N \in Nat /\ run.next \in 0..N /\ Untouched \subseteq 1..N /\ Untouched' \subseteq 1..N
        /\ run.page \subseteq Entry /\ run.done \subseteq 1..N
    BY JobsAssumption DEF JobsAssumption, Covered, Shaped, Shape, RunShape, Untouched, Live, Memories
  <2>2. ASSUME NEW n \in Untouched', n <= run.next PROVE n \in Untouched
    BY <1>3, <2>2 DEF Ahead, Passed
  <2>3. run.job # "none" => Covers(run.next)'
    <3> SUFFICES ASSUME run.job # "none", NEW m \in Untouched', NEW n \in Untouched', m < n,
                        n <= run.next, project[m] = project[n]
                 PROVE  Like(m, n) = "far"
      BY <1>1 DEF Covers, Like
    <3>1. m <= run.next
      BY <2>1
    <3>2. m \in Untouched /\ n \in Untouched /\ Covers(run.next)
      BY <1>3, <2>2, <3>1 DEF Covered, Covering
    <3> QED BY <3>2 DEF Covers
  <2>4. ASSUME Working(run) PROVE Batch(run)'
    <3>1. Batch(run) /\ run.job = "consolidator"
      BY <1>3, <2>4 DEF Covered, Covering, Working
    <3>2. ASSUME NEW n \in Untouched', NEW e \in run.page, n <= e.id PROVE n \in Untouched
      BY <1>3, <3>1, <3>2 DEF Ahead, Passed
    <3>3. run.done \cap Untouched' = {}
      <4> SUFFICES ASSUME NEW d \in run.done, d \in Untouched' PROVE FALSE
        OBVIOUS
      <4>1. d <= run.next \/ \E e \in run.page : d <= e.id
        BY <3>1 DEF Batch
      <4> QED BY <2>2, <3>1, <3>2, <4>1 DEF Batch
    <3>4. ASSUME run.base # 0, run.base \in Untouched', NEW m \in Untouched', m < run.base,
                 project[m] = project[run.base], Like(m, run.base) # "far"
          PROVE  m \in run.near
      <4>1. run.base = Current.id /\ Current \in run.page
        BY <2>4, <3>4, CurrentRow DEF Covered, Shaped, BaseIsCurrent, Working
      <4>2. m <= run.base /\ run.base <= run.base
        <5>1. m \in 1..N /\ run.base \in 1..N /\ N \in Nat
          BY <2>1, <3>4
        <5> QED BY <3>4, <5>1
      <4>3. m \in Untouched /\ run.base \in Untouched
        BY <3>2, <3>4, <4>1, <4>2
      <4> QED BY <3>1, <3>4, <4>3 DEF Batch
    <3>5. ASSUME NEW e \in run.page, NEW n \in Untouched', run.next < n, n <= e.id
          PROVE  \E f \in run.page : f.id = n
      BY <3>1, <3>2, <3>5 DEF Batch
    <3> QED BY <1>1, <3>1, <3>3, <3>4, <3>5 DEF Batch, Like
  <2> QED BY <1>1, <1>3, <2>3, <2>4 DEF Covered, Covering, Working
<1> QED BY <1>2, <1>3

\* The saved cursor: only a clean-up that finishes moves it, and what an aborted one
\* gives back is ahead of it.
LEMMA CursorStep == ASSUME Covered, [Next]_vars, Shaped' PROVE Covers(cursor)'
<1>1. /\ N \in Nat /\ cursor \in 0..N /\ Untouched' \subseteq 1..N
      /\ \A m, n \in Memories : Like(m, n) = likeness[{m, n}]
  BY JobsAssumption DEF JobsAssumption, Covered, Shaped, Shape, Untouched, Live, Memories, Like
<1>2. ASSUME \A n \in Untouched' : n <= cursor => n \in Untouched,
             UNCHANGED <<cursor, project, likeness>>
      PROVE  Covers(cursor)'
  <2> SUFFICES ASSUME NEW m \in Untouched', NEW n \in Untouched', m < n,
                      n <= cursor, project[m] = project[n]
               PROVE  Like(m, n) = "far"
    BY <1>2 DEF Covers, Like
  <2>1. m <= cursor
    BY <1>1
  <2>2. m \in Untouched /\ n \in Untouched /\ Covers(cursor)
    BY <1>2, <2>1 DEF Covered
  <2> QED BY <2>2 DEF Covers
<1>3. CASE Request
  <2>1. Ahead
    BY <1>3, RequestAhead DEF Covered, Shaped
  <2> QED BY <1>2, <2>1 DEF Ahead, Passed
<1>4. CASE Abort
  <2>1. UNCHANGED <<rows, archivedAt, restored, cursor, project, likeness>>
        /\ late' = {m \in late : m <= cursor}
    BY <1>4 DEF Abort, table, static
  <2> QED BY <1>2, <2>1 DEF Untouched, Live
<1>5. CASE Finish
  <2>1. UNCHANGED <<rows, archivedAt, restored, late, project, likeness>>
        /\ (cursor' = cursor \/ (cursor' = run.next /\ ~run.dry /\ run.job = "save"))
    BY <1>5 DEF Finish, table, static
  <2>2. Covers(cursor')
    BY <2>1 DEF Covered, Covering
  <2> QED BY <2>1, <2>2 DEF Covers, Like, Untouched, Live
<1>6. CASE (JobStep /\ ~Finish) \/ \E dry \in DryRuns : Begin(dry)
  <2>1. Shrunk
    BY <1>6, JobShrinks DEF Covered
  <2>2. UNCHANGED cursor
    BY <1>6 DEF JobStep, Begin, ListLive, ListArchived, ArchiveRow, Search, Consolidate, Purge, Erase
  <2> QED BY <1>2, <2>1, <2>2 DEF Shrunk
<1>7. CASE UNCHANGED vars
  BY <1>2, <1>7 DEF vars, static, table, history, Untouched, Live
<1> QED BY <1>3, <1>4, <1>5, <1>6, <1>7 DEF Next

LEMMA CoveredStep == Covered /\ [Next]_vars => Covered'
<1> SUFFICES ASSUME Covered, [Next]_vars PROVE Covered'
  OBVIOUS
<1>1. Shaped' /\ rows' \subseteq Memories /\ \A n \in Untouched' : n \in Memories
  BY ShapedStep DEF Covered, Shaped, Shape, Untouched, Live
<1>2. SparseWorld'
  <2>1. UNCHANGED <<project, likeness>>
    BY DEF Next, Request, Save, Tick, Access, Delete, Replace, Settle, JobStep, Abort, Begin,
       ListLive, ListArchived, ArchiveRow, Search, Consolidate, Purge, Erase, Finish, static, vars
  <2> QED BY <2>1 DEF Covered, SparseWorld, Similar, Like
<1>3. Covers(cursor)'
  BY <1>1, CursorStep
<1>4. Covering(run)'
  <2>1. CASE Request
    BY <1>1, <2>1, RequestAhead, CoveringSame DEF Covered, Shaped
  <2>2. CASE JobStep
    BY <1>1, <2>2, JobShrinks, CoveringListing, CoveringArchiveRow, CoveringSearch,
       CoveringConsolidate, CoveringPurge, CoveringEnds DEF JobStep, Covered
  <2>3. CASE Abort \/ \E dry \in DryRuns : Begin(dry)
    BY <1>1, <2>3, CoveringEnds DEF Covered
  <2>4. CASE UNCHANGED vars
    <3>1. Ahead
      BY <2>4 DEF vars, static, table, history, Ahead, Untouched, Live
    <3> QED BY <1>1, <3>1, CoveringSame
  <2> QED BY <2>1, <2>2, <2>3, <2>4 DEF Next
<1> QED BY <1>1, <1>2, <1>3, <1>4 DEF Covered

LEMMA CoveredInit == ASSUME Sparse, Init PROVE Covered
<1>1. Shaped /\ SparseWorld
  BY ShapedInit, SparseInit
<1>2. rows = {} /\ cursor = 0 /\ run = Idle
  BY DEF Init
<1>3. Covers(cursor) /\ Covering(run)
  BY <1>2 DEF Covers, Untouched, Live, Covering, Working, Idle
<1> QED BY <1>1, <1>3 DEF Covered

\* The saved cursor leaves no work behind, however saves in any order, deletions and
\* replacements interleave with the batches: as long as no memory has TopK similar
\* ones, two live memories of a project at or before it are not similar, unless a
\* request restored one of them or stored it where the consolidator had passed.
THEOREM CursorLeavesNothing == ASSUME Sparse PROVE Spec => []CursorCovers
<1>1. Covered => CursorCovers
  BY DEF Covered, Covers, Untouched, CursorCovers
<1>2. Init => Covered
  BY CoveredInit
<1> QED BY <1>1, <1>2, CoveredStep, PTL DEF Spec
=============================================================================
