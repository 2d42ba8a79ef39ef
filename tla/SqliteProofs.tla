---------------------------- MODULE SqliteProofs ----------------------------
(***************************************************************************)
(* Theorems about Migrations and Sqlite, for any processes, requests and   *)
(* limits.                                                                 *)
(***************************************************************************)
EXTENDS Sqlite, FiniteSetTheorems, TLAPS

-----------------------------------------------------------------------------
(* The schema.  Nothing below depends on the lock: two processes may be in *)
(* the migration runner at the same time, and stop anywhere.               *)

\* Everything that is there, but for what can be run again, has its version.
Marked == \A m \in done \ Repeatable : m \in versions

\* p has found what there was, as far as it looked, unless another process has
\* recorded something since.
FoundAll(p) ==
  versions \subseteq {"system"} =>
    \A j \in DOMAIN Files(db) :
      /\ j < at[p] \/ pc[p] = "mark"
      /\ Files(db)[j] \in done \ Repeatable
      => Files(db)[j] \in found[p]

\* What a process in the runner relies on.
Knows(p) ==
  /\ pc[p] \notin {"check", "apply", "release", "abandon"} => at[p] = 1
  /\ pc[p] \notin {"check", "mark", "apply", "release", "abandon"} => found[p] = {}
  /\ pc[p] \in {"check", "mark"} =>
       found[p] \subseteq done /\ FoundAll(p) /\ seen[p] \subseteq versions
  /\ pc[p] = "apply" =>
       /\ Marked /\ seen[p] \subseteq versions
       /\ \A j \in DOMAIN Files(db) : j < at[p] => Files(db)[j] \in done
  /\ pc[p] \in {"release", "up"} => \A j \in DOMAIN Files(db) : Files(db)[j] \in done

\* SchemaSound, made inductive.
Schema ==
  /\ db \in Databases
  /\ pc \in [Procs -> Locking \cup Holding \cup Idle]
  /\ seen \in [Procs -> SUBSET Versions] /\ found \in [Procs -> SUBSET Versions]
  /\ at \in [Procs -> 1..6]
  /\ done \subseteq Versions /\ versions \subseteq done
  /\ db = "postgres" /\ "outbox" \in done => "drop_unique" \in done
  /\ Marked \/ versions \subseteq {"system"}
  /\ \A p \in Procs : Knows(p)

LEMMA FilesAre ==
  /\ Len(Files("sqlite")) = 4 /\ DOMAIN Files("sqlite") = 1..4
  /\ Len(Files("postgres")) = 5 /\ DOMAIN Files("postgres") = 1..5
  /\ \A d \in Databases : \A j \in DOMAIN Files(d) : Files(d)[j] \in Versions
  /\ \A j \in 1..4 : Files("sqlite")[j] # "drop_unique"
  /\ \A j \in 1..5 : Files("postgres")[j] = "drop_unique" <=> j = 4
  /\ \A j \in 1..5 : Files("postgres")[j] = "outbox" <=> j = 5
  BY DEF Files, Versions, Databases

LEMMA FileOf ==
  \A d \in Databases : \A m \in Versions \ Repeatable : \E j \in DOMAIN Files(d) : Files(d)[j] = m
<1>1. /\ Files("sqlite")[2] = "initial" /\ Files("sqlite")[3] = "graph" /\ Files("sqlite")[4] = "outbox"
      /\ Files("postgres")[2] = "initial" /\ Files("postgres")[3] = "graph" /\ Files("postgres")[5] = "outbox"
  BY DEF Files
<1> QED BY <1>1, FilesAre DEF Versions, Repeatable, Databases

LEMMA FileAt ==
  ASSUME NEW d \in Databases, NEW n \in 1..6, n <= Len(Files(d))
  PROVE  /\ n \in DOMAIN Files(d) /\ Files(d)[n] \in Versions
         /\ n + 1 \in 1..6
         /\ Files(d)[n] = "drop_unique" => d = "postgres"
<1>2. CASE d = "sqlite"
  <2>1. Len(Files("sqlite")) = 4
    BY FilesAre
  <2>2. Len(Files(d)) = 4
    BY <1>2, <2>1, Zenon
  <2>3. n \in 1..4
    BY <2>2
  <2> QED BY <1>2, <2>3, FilesAre
<1>3. CASE d = "postgres"
  <2>1. Len(Files("postgres")) = 5
    BY FilesAre
  <2>2. Len(Files(d)) = 5
    BY <1>3, <2>1, Zenon
  <2>3. n \in 1..5
    BY <2>2
  <2> QED BY <1>3, <2>3, FilesAre
<1> QED BY <1>2, <1>3 DEF Databases

LEMMA SchemaSoundFromSchema == Schema => SchemaSound
  BY DEF Schema, Knows, SchemaSound, Resumable, Marked

LEMMA LegacyOrder ==
  ASSUME NEW d \in Databases, NEW s \in Legacy(d)
  PROVE  s \subseteq Versions /\ (d = "postgres" /\ "outbox" \in s => "drop_unique" \in s)
<1>1. CASE s = {}
  BY <1>1
<1>2. ASSUME NEW i \in 2..Len(Files(d)), s = {Files(d)[j] : j \in 2..i}
      PROVE  s \subseteq Versions /\ (d = "postgres" /\ "outbox" \in s => "drop_unique" \in s)
  <2>1. s \subseteq Versions
    BY <1>2, FilesAre DEF Databases
  <2>2. ASSUME d = "postgres", "outbox" \in s
        PROVE  "drop_unique" \in s
    <3>1. PICK j \in 2..i : Files(d)[j] = "outbox"
      BY <1>2, <2>2
    <3>2. i \in 2..5 /\ j \in 2..i
      BY <2>2, FilesAre
    <3>4. Files("postgres")[j] = "outbox" /\ j \in 1..5
      BY <3>1, <3>2, <2>2
    <3>5. j = 5 /\ 4 \in 2..i
      BY <3>2, <3>4, FilesAre
    <3>3. Files(d)[4] = "drop_unique"
      BY <2>2, FilesAre
    <3> QED BY <1>2, <3>5, <3>3
  <2> QED BY <2>1, <2>2
<1> QED BY <1>1, <1>2 DEF Legacy

LEMMA SchemaInit == MigrationsInit => Schema
<1> SUFFICES ASSUME MigrationsInit PROVE Schema
  OBVIOUS
<1>1. done \subseteq Versions /\ (db = "postgres" /\ "outbox" \in done => "drop_unique" \in done)
  BY LegacyOrder DEF MigrationsInit
<1> QED BY <1>1, FilesAre DEF MigrationsInit, Schema, Knows, Marked, Locking, Holding, Running, Idle

-----------------------------------------------------------------------------
\* The steps outside the runner, and where they can lead.
Elsewhere(p) ==
  /\ UNCHANGED <<db, done, versions>>
  /\ \E next \in Locking \cup {"system", "off", "failed", "up"} :
       /\ pc' = [pc EXCEPT ![p] = next]
       /\ next = "up" => pc[p] = "release"
       /\ \/ UNCHANGED <<seen, found, at>> /\ pc[p] \in Locking \cup Idle
          \/ /\ seen' = [seen EXCEPT ![p] = {}] /\ found' = [found EXCEPT ![p] = {}]
             /\ at' = [at EXCEPT ![p] = 1]

LEMMA OutsideRunner ==
  ASSUME NEW p \in Procs,
         Begin(p) \/ Look(p) \/ Remove(p) \/ Open(p) \/ Flock(p) \/ Release(p) \/ Crash(p)
  PROVE  Elsewhere(p)
<1> USE DEF Go, Over, Elsewhere, Locking, Idle, schemaVars, lockVars, planVars
<1>1. CASE Begin(p) \/ Remove(p) \/ Open(p) \/ Flock(p)
  BY <1>1 DEF Begin, Remove, Open, Flock
<1>2. CASE Look(p)
  BY <1>2 DEF Look
<1>3. CASE Release(p)
  BY <1>3 DEF Release
<1>4. CASE Crash(p)
  BY <1>4 DEF Crash
<1> QED BY <1>1, <1>2, <1>3, <1>4

LEMMA ElsewhereKeepsSchema == ASSUME Schema, NEW p \in Procs, Elsewhere(p) PROVE Schema'
<1> USE DEF Locking, Idle, Holding, Running
<1>1. /\ UNCHANGED <<db, done, versions>>
      /\ pc' \in [Procs -> Locking \cup Holding \cup Idle]
      /\ seen' \in [Procs -> SUBSET Versions] /\ found' \in [Procs -> SUBSET Versions]
      /\ at' \in [Procs -> 1..6]
  <2>1. UNCHANGED <<db, done, versions>> /\ pc' \in [Procs -> Locking \cup Holding \cup Idle]
    BY DEF Elsewhere, Schema, Knows
  <2>2. 1 \in 1..6
    BY FilesAre
  <2>3. /\ seen' \in [Procs -> SUBSET Versions] /\ found' \in [Procs -> SUBSET Versions]
        /\ at' \in [Procs -> 1..6]
    BY <2>2 DEF Elsewhere, Schema, Knows
  <2> QED BY <2>1, <2>3
<1>2. ASSUME NEW q \in Procs, q # p
      PROVE  pc'[q] = pc[q] /\ seen'[q] = seen[q] /\ found'[q] = found[q] /\ at'[q] = at[q]
  BY <1>2 DEF Elsewhere, Schema, Knows
<1>3. /\ pc'[p] \in Locking \cup {"system", "off", "failed", "up"}
      /\ pc'[p] = "up" => pc[p] = "release"
      /\ at'[p] = 1 /\ found'[p] = {}
  BY DEF Elsewhere, Schema, Knows
<1>4. Marked' = Marked
  BY <1>1 DEF Marked
<1>5. \A q \in Procs : q # p => FoundAll(q)' = FoundAll(q)
  BY <1>1, <1>2 DEF FoundAll
<1> QED BY <1>1, <1>2, <1>3, <1>4, <1>5 DEF Schema, Knows

\* A step of the runner that changes no table and no version.
LEMMA LookingKeepsSchema ==
  ASSUME Schema, NEW p \in Procs, CheckSystem(p) \/ Read(p) \/ Check(p)
  PROVE  Schema'
<1> USE DEF Locking, Idle, Holding, Running, Go, schemaVars, lockVars
<1>1. UNCHANGED <<db, done, versions>> /\ Marked' = Marked
  BY DEF CheckSystem, Read, Check, Marked, planVars
<1>2. ASSUME NEW q \in Procs, q # p
      PROVE  /\ pc'[q] = pc[q] /\ seen'[q] = seen[q] /\ found'[q] = found[q] /\ at'[q] = at[q]
             /\ FoundAll(q)' = FoundAll(q)
  <2>1. pc'[q] = pc[q] /\ seen'[q] = seen[q] /\ found'[q] = found[q] /\ at'[q] = at[q]
    BY <1>2 DEF CheckSystem, Read, Check, Schema, Knows, planVars
  <2> QED BY <1>1, <2>1 DEF FoundAll
<1>3. CASE CheckSystem(p)
  BY <1>1, <1>2, <1>3 DEF CheckSystem, Schema, Knows, planVars
<1>4. CASE Read(p)
  <2>1. /\ pc[p] = "read" /\ at[p] = 1 /\ found[p] = {} /\ UNCHANGED <<found, at>>
        /\ seen' = [seen EXCEPT ![p] = versions]
        /\ pc' = [pc EXCEPT ![p] = IF versions \subseteq {"system"} THEN "check" ELSE "apply"]
    BY <1>4 DEF Read, Schema, Knows
  <2>2. /\ pc' \in [Procs -> Locking \cup Holding \cup Idle]
        /\ seen' \in [Procs -> SUBSET Versions]
        /\ pc'[p] \in {"check", "apply"} /\ at'[p] = 1 /\ found'[p] = {} /\ seen'[p] = versions
    BY <2>1 DEF Schema, Knows
  <2>3. FoundAll(p)' /\ \A j \in DOMAIN Files(db) : ~(j < at'[p])
    BY <1>1, <2>2, FilesAre DEF FoundAll, Schema, Knows, Databases
  <2>4. pc'[p] = "apply" => Marked
    BY <2>1 DEF Schema, Knows
  <2> QED BY <1>1, <1>2, <2>1, <2>2, <2>3, <2>4 DEF Schema, Knows
<1>5. CASE Check(p)
  <2>1. CASE at[p] <= Len(Files(db))
    <3> DEFINE m == Files(db)[at[p]]
    <3>1. /\ pc[p] = "check" /\ UNCHANGED <<pc, seen>>
          /\ found' = [found EXCEPT ![p] = IF m # "system" /\ StandsFor(m) \in done
                                           THEN @ \cup {m} ELSE @]
          /\ at' = [at EXCEPT ![p] = @ + 1]
      BY <1>5, <2>1 DEF Check, Schema, Knows
    <3>2. /\ at[p] \in DOMAIN Files(db) /\ m \in Versions
          /\ at[p] + 1 \in 1..6
          /\ m = "drop_unique" => db = "postgres"
      BY <2>1, FileAt DEF Schema
    <3>3. m \notin Repeatable => StandsFor(m) = m /\ m # "system"
      BY DEF StandsFor, Repeatable
    <3>4. StandsFor(m) \in done => m \in done
      BY <3>2 DEF StandsFor, Schema, Knows
    <3> HIDE DEF m
    <3>5. /\ found' \in [Procs -> SUBSET Versions]
          /\ at' \in [Procs -> 1..6]
          /\ found'[p] \subseteq done
          /\ found[p] \subseteq found'[p] /\ at'[p] = at[p] + 1
          /\ m \in done \ Repeatable => m \in found'[p]
      BY <3>1, <3>2, <3>3, <3>4 DEF Schema, Knows
    <3>6. FoundAll(p)'
      <4> SUFFICES ASSUME versions \subseteq {"system"}, NEW j \in DOMAIN Files(db),
                          j < at[p] + 1, Files(db)[j] \in done \ Repeatable
                   PROVE  Files(db)[j] \in found'[p]
        BY <1>1, <3>1, <3>5 DEF FoundAll
      <4>1. j < at[p] \/ j = at[p]
        BY FilesAre DEF Schema, Knows, Databases
      <4> QED BY <4>1, <3>1, <3>5 DEF Schema, Knows, FoundAll, m
    <3> QED BY <1>1, <1>2, <3>1, <3>5, <3>6 DEF Schema, Knows
  <2>2. CASE at[p] > Len(Files(db))
    <3>1. /\ pc[p] = "check" /\ UNCHANGED <<seen, found>>
          /\ pc' = [pc EXCEPT ![p] = "mark"] /\ at' = [at EXCEPT ![p] = 1]
      BY <1>5, <2>2, FilesAre DEF Check, Schema, Knows, Databases
    <3>2. \A j \in DOMAIN Files(db) : j < at[p]
      BY <2>2, FilesAre DEF Schema, Knows, Databases
    <3>3. FoundAll(p)'
      BY <1>1, <3>1, <3>2 DEF FoundAll, Schema, Knows
    <3>4. at' \in [Procs -> 1..6] /\ at'[p] = 1
      BY <3>1, FilesAre DEF Schema, Knows
    <3> QED BY <1>1, <1>2, <3>1, <3>3, <3>4 DEF Schema, Knows
  <2> QED BY <1>5, <2>1, <2>2 DEF Check
<1> QED BY <1>3, <1>4, <1>5

\* Tables and versions come, together unless the table was there before: the
\* other processes know what they knew.
LEMMA OthersKnow ==
  ASSUME Schema, NEW p \in Procs, NEW q \in Procs, q # p,
         db' = db, done \subseteq done', versions \subseteq versions',
         done' \ done \subseteq versions',
         pc'[q] = pc[q], seen'[q] = seen[q], found'[q] = found[q], at'[q] = at[q]
  PROVE  Knows(q)'
<1>1. Knows(q)
  BY DEF Schema
<1>2. Marked => Marked'
  BY DEF Marked
<1>3. FoundAll(q) => FoundAll(q)'
  BY DEF FoundAll, Repeatable
<1> QED BY <1>1, <1>2, <1>3 DEF Knows

\* A file is executed: its table and its version, or neither.
LEMMA CreateKeepsSchema == ASSUME Schema, NEW p \in Procs, Create(p) PROVE Schema'
<1> USE DEF Go, schemaVars, lockVars, planVars, Locking, Holding, Running, Idle
<1>1. /\ pc[p] = "create" /\ UNCHANGED <<db, seen, found, at>>
      /\ \/ /\ done' = done \cup {"system"} /\ versions' = versions \cup {"system"}
            /\ pc' = [pc EXCEPT ![p] = "read"]
         \/ /\ UNCHANGED <<done, versions>>
            /\ pc' = [pc EXCEPT ![p] = "abandon"]
  BY DEF Create, Execute
<1>2. /\ pc' \in [Procs -> Locking \cup Holding \cup Idle]
      /\ pc'[p] \in {"read", "abandon"}
      /\ done \subseteq done' /\ versions \subseteq versions' /\ done' \ done \subseteq versions'
      /\ done' \subseteq Versions /\ versions' \subseteq done'
      /\ db = "postgres" /\ "outbox" \in done' => "drop_unique" \in done'
      /\ Marked' \/ versions' \subseteq {"system"}
  BY <1>1 DEF Schema, Versions, Marked
<1>3. \A q \in Procs : q # p => Knows(q)'
  BY <1>1, <1>2, OthersKnow DEF Schema
<1>4. Knows(p)'
  BY <1>1, <1>2 DEF Schema, Knows
<1> QED BY <1>1, <1>2, <1>3, <1>4 DEF Schema

LEMMA MarkKeepsSchema == ASSUME Schema, NEW p \in Procs, Mark(p) PROVE Schema'
<1> USE DEF Go, schemaVars, lockVars, planVars, Locking, Holding, Running, Idle
<1>1. /\ pc[p] = "mark" /\ UNCHANGED <<db, done, found, at>> /\ at[p] = 1
      /\ found[p] \subseteq done /\ FoundAll(p)
  BY DEF Mark, Schema, Knows
<1>2. CASE /\ versions' = versions \cup found[p]
           /\ seen' = [seen EXCEPT ![p] = @ \cup found[p]]
           /\ pc' = [pc EXCEPT ![p] = "apply"]
  <2>1. /\ seen' \in [Procs -> SUBSET Versions] /\ seen'[p] = seen[p] \cup found[p]
        /\ pc' \in [Procs -> Locking \cup Holding \cup Idle] /\ pc'[p] = "apply"
        /\ versions' \subseteq done' /\ seen[p] \subseteq versions
    BY <1>1, <1>2 DEF Schema, Knows
  <2>2. Marked'
    <3> SUFFICES ASSUME NEW m \in done \ Repeatable PROVE m \in versions'
      BY <1>1 DEF Marked
    <3>1. CASE m \in versions
      BY <3>1, <1>2
    <3>2. CASE m \notin versions
      <4>1. versions \subseteq {"system"} /\ m \in Versions
        BY <3>2 DEF Schema, Marked
      <4>2. PICK j \in DOMAIN Files(db) : Files(db)[j] = m
        BY <4>1, FileOf DEF Schema
      <4> QED BY <1>1, <1>2, <4>1, <4>2 DEF FoundAll
    <3> QED BY <3>1, <3>2
  <2>3. \A q \in Procs : q # p => Knows(q)'
    BY <1>1, <1>2, OthersKnow DEF Schema
  <2>4. \A j \in DOMAIN Files(db) : ~(j < at'[p])
    BY <1>1, FilesAre DEF Schema, Databases
  <2>5. Knows(p)'
    BY <1>1, <1>2, <2>1, <2>2, <2>4 DEF Knows
  <2> QED BY <1>1, <2>1, <2>2, <2>3, <2>5 DEF Schema
<1>3. CASE UNCHANGED <<versions, seen>> /\ pc' = [pc EXCEPT ![p] = "abandon"]
  <2>1. pc' \in [Procs -> Locking \cup Holding \cup Idle] /\ pc'[p] = "abandon"
    BY <1>3 DEF Schema
  <2>2. \A q \in Procs : q # p => Knows(q)'
    BY <1>1, <1>3, OthersKnow DEF Schema
  <2>3. Knows(p)'
    BY <1>1, <1>3, <2>1 DEF Knows
  <2>4. Marked' = Marked
    BY <1>1, <1>3 DEF Marked
  <2> QED BY <1>1, <1>3, <2>1, <2>2, <2>3, <2>4 DEF Schema
<1> QED BY <1>2, <1>3 DEF Mark

LEMMA ApplyKeepsSchema == ASSUME Schema, NEW p \in Procs, Apply(p) PROVE Schema'
<1> USE DEF Go, schemaVars, lockVars, Locking, Holding, Running, Idle
<1>1. /\ pc[p] = "apply" /\ UNCHANGED <<db, seen, found>>
      /\ Marked /\ seen[p] \subseteq versions
      /\ \A j \in DOMAIN Files(db) : j < at[p] => Files(db)[j] \in done
  BY DEF Apply, Schema, Knows
<1>2. CASE at[p] <= Len(Files(db)) /\ at' = [at EXCEPT ![p] = @ + 1]
  <2> DEFINE m == Files(db)[at[p]]
  <2>1. /\ at[p] \in DOMAIN Files(db) /\ m \in Versions
        /\ at' \in [Procs -> 1..6] /\ at'[p] = at[p] + 1
    BY <1>2, FileAt DEF Schema
  <2>2. db = "postgres" /\ m = "outbox" => "drop_unique" \in done
    <3> SUFFICES ASSUME db = "postgres", m = "outbox" PROVE "drop_unique" \in done
      OBVIOUS
    <3>1. at[p] = 5 /\ 4 \in DOMAIN Files(db) /\ Files(db)[4] = "drop_unique"
      BY <2>1, FilesAre
    <3> QED BY <1>1, <3>1
  <2>3. /\ \/ m \in seen[p] /\ UNCHANGED <<pc, done, versions>>
           \/ /\ done' = done \cup {m} /\ versions' = versions \cup {m}
              /\ pc' = [pc EXCEPT ![p] = "apply"]
           \/ UNCHANGED <<done, versions>> /\ pc' = [pc EXCEPT ![p] = "abandon"]
    BY <1>2, FilesAre DEF Apply, Execute, Schema, Databases
  <2>4. \A j \in DOMAIN Files(db) : j < at'[p] => j < at[p] \/ Files(db)[j] = m
    <3>1. \A j \in DOMAIN Files(db) : j \in Nat
      BY FilesAre DEF Schema, Databases
    <3>2. at[p] \in Nat
      BY DEF Schema
    <3> QED BY <2>1, <3>1, <3>2
  <2> HIDE DEF m
  <2>5. /\ pc' \in [Procs -> Locking \cup Holding \cup Idle] /\ pc'[p] \in {"apply", "abandon"}
        /\ done \subseteq done' /\ versions \subseteq versions' /\ done' \ done \subseteq versions'
        /\ done' \subseteq Versions /\ versions' \subseteq done'
        /\ pc'[p] = "apply" => m \in done'
    BY <1>1, <2>1, <2>3 DEF Schema
  <2>6. Marked' /\ (db = "postgres" /\ "outbox" \in done' => "drop_unique" \in done')
    BY <1>1, <2>2, <2>3 DEF Schema, Marked
  <2>7. \A q \in Procs : q # p => Knows(q)'
    BY <1>1, <1>2, <2>3, <2>5, OthersKnow DEF Schema
  <2>8. Knows(p)'
    BY <1>1, <2>4, <2>5, <2>6 DEF Knows
  <2> QED BY <1>1, <2>1, <2>5, <2>6, <2>7, <2>8 DEF Schema
<1>3. CASE /\ at[p] > Len(Files(db)) /\ UNCHANGED <<at, done, versions>>
           /\ pc' = [pc EXCEPT ![p] = "release"]
  <2>1. \A j \in DOMAIN Files(db) : Files(db)[j] \in done
    BY <1>1, <1>3, FilesAre DEF Schema, Databases
  <2>2. pc' \in [Procs -> Locking \cup Holding \cup Idle] /\ pc'[p] = "release"
    BY <1>3 DEF Schema
  <2>3. \A q \in Procs : q # p => Knows(q)'
    BY <1>1, <1>3, OthersKnow DEF Schema
  <2>4. Knows(p)' /\ Marked' = Marked
    BY <1>1, <1>3, <2>1, <2>2 DEF Knows, Marked
  <2> QED BY <1>1, <1>3, <2>2, <2>3, <2>4 DEF Schema
<1> QED BY <1>2, <1>3 DEF Apply

LEMMA OpeningKeepsSchema == ASSUME Schema, NEW p \in Procs, OpeningStep(p) PROVE Schema'
BY OutsideRunner, ElsewhereKeepsSchema, LookingKeepsSchema, CreateKeepsSchema, MarkKeepsSchema,
   ApplyKeepsSchema DEF OpeningStep

LEMMA SchemaUnchanged ==
  ASSUME Schema, UNCHANGED <<db, done, versions, pc, seen, found, at>> PROVE Schema'
BY DEF Schema, Knows, FoundAll, Marked

LEMMA SchemaStep == ASSUME Schema, [Next]_vars PROVE Schema'
<1>1. CASE Age
  BY <1>1, SchemaUnchanged DEF Age, schemaVars, planVars
<1>2. ASSUME NEW p \in Procs, Opening(p) \/ Stops(p) PROVE Schema'
  BY <1>2, OpeningKeepsSchema, OutsideRunner, ElsewhereKeepsSchema DEF Opening, Stops
<1>3. ASSUME NEW r \in Requests, RequestStep(r) PROVE Schema'
  <2>1. UNCHANGED migrationVars
    BY <1>3 DEF RequestStep, Ask, Resume, GiveUp, ReadOut, Lookup, Save, Update, UpdateRejected,
                Commit, Fail
  <2> QED BY <2>1, SchemaUnchanged DEF migrationVars, schemaVars, planVars
<1>4. CASE UNCHANGED vars
  BY <1>4, SchemaUnchanged DEF vars, migrationVars, schemaVars, planVars
<1> QED BY <1>1, <1>2, <1>3, <1>4 DEF Next

\* Opening the database leaves a sound schema whoever starts at the same time,
\* with the lock or without it, and wherever a process stops: each file and its
\* version are one transaction.
THEOREM SchemaAlwaysSound == Spec => []SchemaSound
<1>1. Init => Schema
  BY SchemaInit DEF Init
<1> QED BY <1>1, SchemaStep, SchemaSoundFromSchema, PTL DEF Spec

-----------------------------------------------------------------------------
(* The dimension.                                                          *)

\* What an update has read is recorded, and stays so; the request that writes
\* holds the write lock, and the dimension it writes is recorded or its own
\* transaction records it.
Agreed ==
  /\ st \in [Requests -> Live \cup {"new", "busy", "done", "failed"}]
  /\ row \in [Requests -> Nat \cup {None}] /\ dims \cup adds \subseteq Nat
  /\ \A r \in Requests : st[r] = "looked" => row[r] \in dims \cup {None}
  /\ \A r \in Requests : st[r] = "writing" =>
       /\ writer = r
       /\ Kind[r] = "update" => Dim[At[r]] \in dims \cup adds

\* A step in which a request leaves or goes on without writing.
Beside(r) ==
  /\ \A x \in Requests \ {r} : st'[x] = st[x] \/ st'[x] = "granted"
  /\ st' \in [Requests -> Live \cup {"new", "busy", "done", "failed"}]
  /\ st'[r] \notin {"looked", "writing"}

LEMMA WakeBeside ==
  ASSUME Agreed, NEW p, NEW r \in Requests, NEW f, NEW q,
         NEW next \in {"active", "failed", "done"}, Wake(p, r, next, f, q)
  PROVE  Beside(r)
<1>1. \E n : st' = [x \in Requests |-> IF x = r THEN next
                      ELSE IF \E i \in 1..n : q[i] = x THEN "granted" ELSE st[x]]
  BY DEF Wake
<1> QED BY <1>1 DEF Beside, Agreed, Live

LEMMA BesideKeepsAgreed ==
  ASSUME Agreed, NEW r \in Requests, Beside(r), UNCHANGED <<row, dims>>,
         UNCHANGED <<writer, adds>> \/ (writer = r /\ adds' = {})
  PROVE  Agreed'
BY DEF Agreed, Beside

LEMMA AgreedInit == Init => Agreed
  BY DEF Init, Agreed, Live

LEMMA AgreedStep == ASSUME Agreed, [Next]_vars PROVE Agreed'
<1> USE DEF requestVars, dataVars, gateVars
<1>1. CASE UNCHANGED requestVars
  BY <1>1 DEF Agreed
<1>2. ASSUME NEW p \in Procs, Opening(p) PROVE Agreed'
  BY <1>2 DEF Opening, Agreed
<1>3. ASSUME NEW p \in Procs, Stops(p) PROVE Agreed'
  BY <1>3 DEF Stops, Lost, Mine, Agreed, Live
<1>4. ASSUME NEW r \in Requests, RequestStep(r) PROVE Agreed'
  <2>1. CASE Ask(r)
    <3>1. UNCHANGED <<row, dataVars>> /\ \E next \in {"failed", "busy", "active", "waiting"} :
            st' = [st EXCEPT ![r] = next]
      BY <2>1 DEF Ask
    <3> QED BY <3>1 DEF Agreed, Live
  <2>2. CASE Resume(r) \/ GiveUp(r) \/ ReadOut(r)
    BY <2>2, WakeBeside, BesideKeepsAgreed DEF Resume, GiveUp, ReadOut, Leave
  <2>3. CASE Lookup(r)
    <3>1. PICK d \in dims \cup {None} : Recorded(d) /\ row' = [row EXCEPT ![r] = d]
      BY <2>3 DEF Lookup
    <3>2. /\ st[r] = "active" /\ st' = [st EXCEPT ![r] = "looked"] /\ UNCHANGED dataVars
      BY <2>3 DEF Lookup
    <3>3. row' \in [Requests -> Nat \cup {None}]
      BY <3>1 DEF Agreed
    <3> QED BY <3>1, <3>2, <3>3 DEF Agreed, Live
  <2>4. CASE Save(r)
    BY <2>4, SqliteAssumption DEF Save, Agreed, Live, SqliteAssumption
  <2>5. CASE Update(r)
    <3>1. /\ st[r] = "looked" /\ writer = None /\ row[r] \in {None, Dim[At[r]]}
          /\ writer' = r /\ st' = [st EXCEPT ![r] = "writing"] /\ UNCHANGED <<row, dims>>
          /\ adds' = IF row[r] = None THEN {Dim[At[r]]} ELSE {}
      BY <2>5 DEF Update
    <3>2. Dim[At[r]] \in Nat /\ \A x \in Requests : x # None
      BY SqliteAssumption DEF SqliteAssumption
    <3>3. Dim[At[r]] \in dims' \cup adds' /\ dims' \cup adds' \subseteq Nat
      BY <3>1, <3>2 DEF Agreed
    <3>4. \A x \in Requests \ {r} : st'[x] = st[x] /\ st[x] # "writing"
      BY <3>1, <3>2 DEF Agreed
    <3> QED BY <3>1, <3>3, <3>4 DEF Agreed, Live
  <2>6. CASE UpdateRejected(r)
    BY <2>6, WakeBeside, BesideKeepsAgreed DEF UpdateRejected, Leave
  <2>7. CASE Commit(r)
    <3>1. /\ Beside(r) /\ writer = r /\ writer' = None /\ adds' = {} /\ row' = row /\ dims' = dims \cup adds
      BY <2>7, WakeBeside DEF Commit, Leave, Agreed
    <3> QED BY <3>1 DEF Agreed, Beside
  <2>8. CASE Fail(r)
    <3>1. Beside(r) /\ UNCHANGED <<row, dims>> /\ (UNCHANGED <<writer, adds>> \/ (writer = r /\ adds' = {}))
      BY <2>8, WakeBeside DEF Fail, Leave
    <3> QED BY <3>1, BesideKeepsAgreed
  <2> QED BY <1>4, <2>1, <2>2, <2>3, <2>4, <2>5, <2>6, <2>7, <2>8 DEF RequestStep
<1>5. CASE UNCHANGED vars
  BY <1>1, <1>5 DEF vars
<1> QED BY <1>1, <1>2, <1>3, <1>4, <1>5 DEF Next

\* update_memory stores no embedding of a dimension the database does not know.
THEOREM UpdatesAgree == Spec => UpdateAgrees
<1>1. ASSUME Agreed, [Next]_vars
      PROVE  [\A r \in stored' \ stored : Kind[r] = "update" => Dim[At[r]] \in dims']_vars
  <2> SUFFICES ASSUME NEW r \in stored' \ stored, Kind[r] = "update"
               PROVE  Dim[At[r]] \in dims'
    OBVIOUS
  <2>1. r \in Requests /\ Commit(r)
    BY <1>1 DEF Next, Opening, Stops, Lost, RequestStep, Ask, Resume, GiveUp, ReadOut, Lookup, Save,
                Update, UpdateRejected, Commit, Fail, vars, requestVars, dataVars
  <2> QED BY <1>1, <2>1 DEF Commit, Agreed
<1> QED BY <1>1, AgreedInit, AgreedStep, PTL DEF Spec, UpdateAgrees

-----------------------------------------------------------------------------
(* The gate.                                                               *)

AtGate == {"waiting", "granted"}
WithSlot == {"granted", "active", "looked", "writing"}
Waits(p) == {r \in Mine(p) : st[r] \in AtGate}
Holds(p) == {r \in Mine(p) : st[r] \in WithSlot}

\* A queue has no request twice, and only such as wait.
Queued(p, q) ==
  /\ q \in Seq(Requests)
  /\ \A i, j \in 1..Len(q) : q[i] = q[j] => i = j
  /\ \A i \in 1..Len(q) : q[i] \in Mine(p) /\ st[q[i]] = "waiting"

\* The counters are exact, which the queue has to be as well: a slot that is
\* released goes to as many waiting requests as it hands out.
Gate ==
  /\ st \in [Requests -> Live \cup {"new", "busy", "done", "failed"}]
  /\ waiting \in [Procs -> Nat] /\ free \in [Procs -> Nat] /\ queue \in [Procs -> Seq(Requests)]
  /\ \A p \in Procs :
       /\ waiting[p] = Cardinality(Waits(p))
       /\ free[p] = MaxConcurrent - Cardinality(Holds(p))
       /\ Queued(p, queue[p])

LEMMA FiniteMine ==
  ASSUME NEW p, NEW S, S \subseteq Mine(p)
  PROVE  IsFiniteSet(S) /\ Cardinality(S) \in Nat
BY SqliteAssumption, FS_Subset, FS_CardinalityType DEF SqliteAssumption, Mine

\* As many requests as positions.
LEMMA FirstOnes ==
  ASSUME NEW q \in Seq(Requests), \A i, j \in 1..Len(q) : q[i] = q[j] => i = j,
         NEW n \in Nat, n <= Len(q)
  PROVE  Cardinality({q[i] : i \in 1..n}) = n
<1> DEFINE T == {q[i] : i \in 1..n}
           f == [i \in 1..n |-> q[i]]
<1>1. f \in Bijection(1..n, T)
  <2>1. f \in [1..n -> T] /\ \A t \in T : \E i \in 1..n : f[i] = t
    OBVIOUS
  <2>2. \A i, j \in 1..n : f[i] = f[j] => i = j
    <3>1. 1..n \subseteq 1..Len(q)
      OBVIOUS
    <3> QED BY <3>1
  <2> QED BY <2>1, <2>2 DEF Bijection, Injection, Surjection, IsInjective
<1>2. IsFiniteSet(1..n) /\ Cardinality(1..n) = n
  BY FS_Interval
<1>3. Cardinality(T) = Cardinality(1..n)
  BY <1>1, <1>2, FS_Bijection DEF ExistsBijection
<1> QED BY <1>2, <1>3

LEMMA WithoutOne ==
  ASSUME NEW p, NEW q, Queued(p, q), NEW r
  PROVE  Queued(p, Without(q, r)) /\ \A i \in 1..Len(Without(q, r)) : Without(q, r)[i] # r
<1>1. CASE r \notin Range(q)
  BY <1>1 DEF Queued, Without, Range
<1>2. CASE r \in Range(q)
  <2> DEFINE i == CHOOSE j \in DOMAIN q : q[j] = r
             w == [j \in 1..(Len(q) - 1) |-> q[IF j < i THEN j ELSE j + 1]]
  <2>1. i \in 1..Len(q) /\ q[i] = r /\ Len(q) \in Nat
    BY <1>2 DEF Range, Queued
  <2>2. Without(q, r) = w
    BY <1>2 DEF Without
  <2> HIDE DEF i
  <2>3. /\ w \in Seq(Requests) /\ Len(w) = Len(q) - 1
        /\ \A j \in 1..Len(w) : \E k \in 1..Len(q) \ {i} : w[j] = q[k]
    BY <2>1 DEF Queued
  <2>4. ASSUME NEW j \in 1..Len(w), NEW k \in 1..Len(w), w[j] = w[k]
        PROVE  j = k
    BY <2>1, <2>3, <2>4 DEF Queued
  <2>5. \A j \in 1..Len(w) : w[j] # r /\ w[j] \in Mine(p) /\ st[w[j]] = "waiting"
    BY <2>1, <2>3 DEF Queued
  <2> HIDE DEF w
  <2> QED BY <2>2, <2>3, <2>4, <2>5 DEF Queued
<1> QED BY <1>1, <1>2

\* A request goes on to next or leaves; the slots there are then go to as many
\* that wait.  The others' slots are counted without r.
OthersHold(p, r) == {x \in Mine(p) \ {r} : st[x] \in WithSlot}

LEMMA WakeGate ==
  ASSUME Gate, NEW p \in Procs, NEW r \in Mine(p), NEW next \in {"active", "failed", "done"},
         NEW f \in Nat, NEW q, Queued(p, q), \A i \in 1..Len(q) : q[i] # r,
         f = MaxConcurrent - Cardinality(OthersHold(p, r)) - (IF next = "active" THEN 1 ELSE 0),
         Wake(p, r, next, f, q),
         waiting' = [waiting EXCEPT ![p] = Cardinality(Waits(p) \ {r})]
  PROVE  Gate'
<1> DEFINE n == Min({f, Len(q)})
           G == {q[i] : i \in 1..n}
<1>1. n \in Nat /\ n <= f /\ n <= Len(q)
  <2>1. Len(q) \in Nat
    BY DEF Queued
  <2>2. \E x \in {f, Len(q)} : \A y \in {f, Len(q)} : x <= y
    BY <2>1
  <2> QED BY <2>1, <2>2 DEF Min
<1>2. /\ st' = [x \in Requests |-> IF x = r THEN next
                                   ELSE IF \E i \in 1..n : q[i] = x THEN "granted" ELSE st[x]]
      /\ free' = [free EXCEPT ![p] = f - n]
      /\ queue' = [queue EXCEPT ![p] = SubSeq(q, n + 1, Len(q))]
  BY DEF Wake
<1> HIDE DEF n
<1>3. /\ G \subseteq Mine(p) /\ r \notin G /\ Cardinality(G) = n
      /\ \A x \in G : st[x] = "waiting"
  <2>1. 1..n \subseteq 1..Len(q)
    BY <1>1 DEF Queued
  <2> QED BY <1>1, <2>1, FirstOnes DEF Queued
<1>4. /\ \A x \in Requests \ ({r} \cup G) : st'[x] = st[x]
      /\ \A x \in G : st'[x] = "granted"
      /\ st'[r] = next
      /\ st' \in [Requests -> Live \cup {"new", "busy", "done", "failed"}]
  BY <1>2, <1>3 DEF Gate, Mine, Live
<1>5. Waits(p)' = Waits(p) \ {r}
  BY <1>3, <1>4 DEF Waits, Mine, AtGate
<1>6. /\ Holds(p)' = OthersHold(p, r) \cup G \cup (IF next = "active" THEN {r} ELSE {})
      /\ OthersHold(p, r) \cap G = {} /\ r \notin OthersHold(p, r) \cup G
  BY <1>3, <1>4 DEF Holds, OthersHold, Mine, WithSlot
<1> DEFINE H == OthersHold(p, r)
<1> HIDE DEF G, H
<1>7. Cardinality(Holds(p)') = Cardinality(H) + n + (IF next = "active" THEN 1 ELSE 0)
  <2>1. IsFiniteSet(H) /\ IsFiniteSet(G) /\ Cardinality(H) \in Nat /\ Cardinality(G) \in Nat
    BY <1>3, FiniteMine DEF H, OthersHold
  <2>2. /\ IsFiniteSet(H \cup G)
        /\ Cardinality(H \cup G) = Cardinality(H) + Cardinality(G) - Cardinality(H \cap G)
    BY <2>1, FS_Union
  <2>3. Cardinality(H \cap G) = 0
    BY <1>6, FS_EmptySet DEF H
  <2>4. Cardinality(H \cup G \cup {r}) = Cardinality(H \cup G) + 1
    BY <2>2, <1>6, FS_AddElement DEF H
  <2>5. Cardinality(H \cup G) = Cardinality(H) + n
    BY <2>1, <2>2, <2>3, <1>3
  <2>6. CASE next = "active"
    BY <1>6, <2>1, <2>4, <2>5, <2>6 DEF H
  <2>7. CASE next # "active"
    <3>1. Holds(p)' = H \cup G
      BY <1>6, <2>7 DEF H
    <3> QED BY <3>1, <2>1, <2>5, <2>7, <1>1
  <2> QED BY <2>6, <2>7
<1>8. free'[p] = MaxConcurrent - Cardinality(Holds(p)') /\ free' \in [Procs -> Nat]
  <2>1. Cardinality(H) \in Nat /\ MaxConcurrent \in Nat
    BY FiniteMine, SqliteAssumption DEF H, OthersHold, SqliteAssumption
  <2> QED BY <2>1, <1>1, <1>2, <1>7 DEF Gate, H
<1>9. queue' \in [Procs -> Seq(Requests)] /\ Queued(p, queue[p])'
  <2> DEFINE s == SubSeq(q, n + 1, Len(q))
  <2>1. /\ s \in Seq(Requests) /\ Len(s) = Len(q) - n
        /\ \A i \in 1..Len(s) : s[i] = q[i + n] /\ i + n \in 1..Len(q)
    BY <1>1 DEF Queued
  <2>2. \A i, j \in 1..Len(s) : s[i] = s[j] => i = j
    BY <1>1, <2>1 DEF Queued
  <2>3. ASSUME NEW i \in 1..Len(s)
        PROVE  s[i] \in Mine(p) /\ st'[s[i]] = "waiting"
    <3>1. s[i] = q[i + n] /\ i + n \in 1..Len(q) /\ i + n > n
      BY <1>1, <2>1
    <3>2. s[i] \notin G /\ s[i] # r /\ s[i] \in Mine(p) /\ st[s[i]] = "waiting"
      <4> HIDE DEF s
      <4>1. ASSUME NEW k \in 1..n, q[k] = q[i + n]
            PROVE  FALSE
        <5>1. k \in 1..Len(q)
          BY <1>1 DEF Queued
        <5> QED BY <5>1, <3>1, <4>1, <1>1 DEF Queued
      <4> QED BY <3>1, <4>1 DEF Queued, G
    <3> QED BY <3>2, <1>4 DEF Mine
  <2>4. queue' \in [Procs -> Seq(Requests)] /\ queue'[p] = s
    BY <1>2, <2>1 DEF Gate
  <2> HIDE DEF s
  <2> QED BY <2>1, <2>2, <2>3, <2>4 DEF Queued
<1>10. ASSUME NEW o \in Procs, o # p
       PROVE  /\ Waits(o)' = Waits(o) /\ Holds(o)' = Holds(o) /\ Queued(o, queue[o])'
              /\ waiting'[o] = waiting[o] /\ free'[o] = free[o]
  <2>1. \A x \in Mine(o) : st'[x] = st[x]
    BY <1>3, <1>4, <1>10 DEF Mine
  <2>2. Waits(o)' = Waits(o) /\ Holds(o)' = Holds(o)
    BY <2>1 DEF Waits, Holds, Mine
  <2>3. queue'[o] = queue[o] /\ waiting'[o] = waiting[o] /\ free'[o] = free[o]
    BY <1>2, <1>10 DEF Gate
  <2>4. Queued(o, queue[o])
    BY DEF Gate
  <2>5. Queued(o, queue[o])'
    BY <2>1, <2>3, <2>4 DEF Queued
  <2> QED BY <2>2, <2>3, <2>5
<1>11. waiting' \in [Procs -> Nat] /\ waiting'[p] = Cardinality(Waits(p)')
  <2>1. Cardinality(Waits(p) \ {r}) \in Nat
    BY FiniteMine DEF Waits
  <2> QED BY <2>1, <1>5 DEF Gate
<1>12. ASSUME NEW o \in Procs
       PROVE  /\ waiting'[o] = Cardinality(Waits(o)') /\ free'[o] = MaxConcurrent - Cardinality(Holds(o)')
              /\ Queued(o, queue[o])'
  BY <1>8, <1>9, <1>10, <1>11 DEF Gate
<1> QED BY <1>4, <1>8, <1>9, <1>11, <1>12 DEF Gate

\* Steps that change no request's place at the gate.
LEMMA GateUnchanged ==
  ASSUME Gate, UNCHANGED gateVars,
         st' \in [Requests -> Live \cup {"new", "busy", "done", "failed"}],
         \A x \in Requests : \/ st'[x] = st[x]
                             \/ st[x] \in {"active", "looked", "writing"} /\ st'[x] \in {"looked", "writing"}
                             \/ st[x] = "new" /\ st'[x] \in {"busy", "failed"}
  PROVE  Gate'
<1>1. \A p \in Procs : Waits(p)' = Waits(p) /\ Holds(p)' = Holds(p)
  BY DEF Waits, Holds, Mine, AtGate, WithSlot
<1>2. \A p \in Procs : Queued(p, queue[p])'
  <2> TAKE p \in Procs
  <2>1. Queued(p, queue[p]) /\ queue' = queue
    BY DEF Gate, gateVars
  <2> QED BY <2>1 DEF Queued, Mine
<1> QED BY <1>1, <1>2 DEF Gate, gateVars

LEMMA AskGate == ASSUME Gate, NEW r \in Requests, Ask(r) PROVE Gate'
<1> DEFINE p == At[r]
<1>1. p \in Procs /\ r \in Mine(p) /\ st[r] = "new"
  BY SqliteAssumption DEF Ask, Mine, SqliteAssumption
<1>2. CASE \E next \in {"failed", "busy"} : st' = [st EXCEPT ![r] = next] /\ UNCHANGED gateVars
  BY <1>1, <1>2, GateUnchanged DEF Gate, Live
<1>3. ASSUME NEW o \in Procs, o # p, st' = [st EXCEPT ![r] = "active"] \/ st' = [st EXCEPT ![r] = "waiting"]
      PROVE  /\ Waits(o)' = Waits(o) /\ Holds(o)' = Holds(o)
             /\ \A q : Queued(o, q) => Queued(o, q)'
  <2>1. \A x \in Mine(o) : st'[x] = st[x]
    BY <1>3 DEF Mine, Gate
  <2> QED BY <2>1 DEF Waits, Holds, Mine, Queued
<1>4. CASE /\ st' = [st EXCEPT ![r] = "active"] /\ free[p] > 0
           /\ free' = [free EXCEPT ![p] = @ - 1] /\ UNCHANGED <<waiting, queue>>
  <2>1. Waits(p)' = Waits(p) /\ Holds(p)' = Holds(p) \cup {r} /\ r \notin Holds(p)
    BY <1>1, <1>4 DEF Waits, Holds, Mine, Gate, AtGate, WithSlot
  <2>2. IsFiniteSet(Holds(p)) /\ Cardinality(Holds(p)) \in Nat
    BY FiniteMine DEF Holds
  <2>3. Cardinality(Holds(p)') = Cardinality(Holds(p)) + 1
    BY <2>1, <2>2, FS_AddElement
  <2>4. free' \in [Procs -> Nat] /\ free'[p] = MaxConcurrent - Cardinality(Holds(p)')
    <3>1. /\ free \in [Procs -> Nat] /\ free[p] = MaxConcurrent - Cardinality(Holds(p))
          /\ MaxConcurrent \in Nat
      BY <1>1, SqliteAssumption DEF Gate, SqliteAssumption
    <3>2. free[p] - 1 \in Nat
      BY <1>1, <1>4, <3>1
    <3> QED BY <1>1, <1>4, <2>2, <2>3, <3>1, <3>2
  <2>5. Queued(p, queue[p])'
    <3>1. Queued(p, queue[p]) /\ queue' = queue
      BY <1>1, <1>4 DEF Gate
    <3>2. \A i \in 1..Len(queue[p]) : queue[p][i] # r
      BY <1>1, <3>1 DEF Queued
    <3> QED BY <1>4, <3>1, <3>2 DEF Queued, Mine, Gate
  <2>6. st' \in [Requests -> Live \cup {"new", "busy", "done", "failed"}]
    BY <1>4 DEF Gate, Live
  <2>7. ASSUME NEW o \in Procs
        PROVE  /\ waiting'[o] = Cardinality(Waits(o)') /\ free'[o] = MaxConcurrent - Cardinality(Holds(o)')
               /\ Queued(o, queue[o])'
    <3>1. CASE o = p
      BY <1>4, <2>1, <2>4, <2>5, <3>1 DEF Gate
    <3>2. CASE o # p
      BY <1>3, <1>4, <3>2 DEF Gate
    <3> QED BY <3>1, <3>2
  <2> QED BY <1>4, <2>4, <2>6, <2>7 DEF Gate
<1>5. CASE /\ st' = [st EXCEPT ![r] = "waiting"]
           /\ waiting' = [waiting EXCEPT ![p] = @ + 1]
           /\ queue' = [queue EXCEPT ![p] = Append(@, r)] /\ UNCHANGED free
  <2>1. Holds(p)' = Holds(p) /\ Waits(p)' = Waits(p) \cup {r} /\ r \notin Waits(p)
    BY <1>1, <1>5 DEF Waits, Holds, Mine, Gate, AtGate, WithSlot
  <2>2. IsFiniteSet(Waits(p)) /\ Cardinality(Waits(p)) \in Nat
    BY FiniteMine DEF Waits
  <2>3. Cardinality(Waits(p)') = Cardinality(Waits(p)) + 1
    BY <2>1, <2>2, FS_AddElement
  <2>4. waiting' \in [Procs -> Nat] /\ waiting'[p] = Cardinality(Waits(p)')
    BY <1>1, <1>5, <2>2, <2>3 DEF Gate
  <2>5. Queued(p, queue[p])' /\ queue' \in [Procs -> Seq(Requests)]
    <3> DEFINE s == queue[p]
    <3>1. Queued(p, s) /\ queue'[p] = Append(s, r) /\ s \in Seq(Requests) /\ queue \in [Procs -> Seq(Requests)]
      BY <1>1, <1>5 DEF Gate
    <3> HIDE DEF s
    <3>2. \A i \in 1..Len(s) : s[i] # r
      BY <1>1, <3>1 DEF Queued
    <3>3. /\ Append(s, r) \in Seq(Requests) /\ Len(Append(s, r)) = Len(s) + 1
          /\ \A i \in 1..Len(s) : Append(s, r)[i] = s[i]
          /\ Append(s, r)[Len(s) + 1] = r
      BY <3>1
    <3>4. \A i \in 1..(Len(s) + 1) : i \in 1..Len(s) \/ i = Len(s) + 1
      BY <3>1
    <3>5. \A i, j \in 1..(Len(s) + 1) : Append(s, r)[i] = Append(s, r)[j] => i = j
      BY <3>1, <3>2, <3>3, <3>4 DEF Queued
    <3>6. ASSUME NEW i \in 1..(Len(s) + 1)
          PROVE  Append(s, r)[i] \in Mine(p) /\ st'[Append(s, r)[i]] = "waiting"
      BY <1>1, <1>5, <3>1, <3>3, <3>4 DEF Queued, Mine, Gate
    <3>7. queue' \in [Procs -> Seq(Requests)]
      BY <1>1, <1>5, <3>1, <3>3 DEF s
    <3> QED BY <3>1, <3>3, <3>5, <3>6, <3>7 DEF Queued
  <2>6. st' \in [Requests -> Live \cup {"new", "busy", "done", "failed"}]
    BY <1>5 DEF Gate, Live
  <2>7. ASSUME NEW o \in Procs
        PROVE  /\ waiting'[o] = Cardinality(Waits(o)') /\ free'[o] = MaxConcurrent - Cardinality(Holds(o)')
               /\ Queued(o, queue[o])'
    <3>1. CASE o = p
      BY <1>5, <2>1, <2>4, <2>5, <3>1 DEF Gate
    <3>2. CASE o # p
      BY <1>3, <1>5, <3>2 DEF Gate
    <3> QED BY <3>1, <3>2
  <2> QED BY <1>5, <2>4, <2>5, <2>6, <2>7 DEF Gate
<1> QED BY <1>2, <1>4, <1>5 DEF Ask, gateVars

LEMMA GateInit == Init => Gate
<1> SUFFICES ASSUME Init PROVE Gate
  OBVIOUS
<1>1. \A p \in Procs : Waits(p) = {} /\ Holds(p) = {}
  BY DEF Init, Waits, Holds, Mine, AtGate, WithSlot
<1>2. Cardinality({}) = 0
  BY FS_EmptySet
<1>3. /\ MaxConcurrent \in Nat /\ MaxConcurrent - 0 = MaxConcurrent
      /\ Len(<<>>) = 0 /\ <<>> \in Seq(Requests)
  BY SqliteAssumption DEF SqliteAssumption
<1>4. st \in [Requests -> Live \cup {"new", "busy", "done", "failed"}]
  BY DEF Init, Live
<1>5. /\ waiting \in [Procs -> Nat] /\ free \in [Procs -> Nat] /\ queue \in [Procs -> Seq(Requests)]
  BY <1>3 DEF Init
<1>6. ASSUME NEW p \in Procs
      PROVE  /\ waiting[p] = Cardinality(Waits(p)) /\ free[p] = MaxConcurrent - Cardinality(Holds(p))
             /\ Queued(p, queue[p])
  <2>1. waiting[p] = 0 /\ free[p] = MaxConcurrent /\ queue[p] = <<>>
    BY DEF Init
  <2>2. Cardinality(Waits(p)) = 0 /\ Cardinality(Holds(p)) = 0
    BY <1>1, <1>2
  <2>3. Queued(p, <<>>)
    BY <1>3 DEF Queued
  <2> QED BY <1>3, <2>1, <2>2, <2>3
<1> QED BY <1>4, <1>5, <1>6 DEF Gate

LEMMA LostGate == ASSUME Gate, NEW p \in Procs, Lost(p) PROVE Gate'
<1>1. /\ st' \in [Requests -> Live \cup {"new", "busy", "done", "failed"}]
      /\ \A x \in Mine(p) : st'[x] \notin AtGate \cup WithSlot
      /\ \A o \in Procs : o # p => \A x \in Mine(o) : st'[x] = st[x]
  BY DEF Lost, Gate, Mine, Live, AtGate, WithSlot
<1>2. Waits(p)' = {} /\ Holds(p)' = {} /\ Cardinality({}) = 0
  BY <1>1, FS_EmptySet DEF Waits, Holds, Mine
<1>3. /\ waiting' \in [Procs -> Nat] /\ free' \in [Procs -> Nat] /\ queue' \in [Procs -> Seq(Requests)]
      /\ waiting'[p] = 0 /\ free'[p] = MaxConcurrent /\ queue'[p] = <<>>
      /\ \A o \in Procs : o # p => waiting'[o] = waiting[o] /\ free'[o] = free[o] /\ queue'[o] = queue[o]
  BY SqliteAssumption DEF Lost, Gate, SqliteAssumption
<1>4. ASSUME NEW o \in Procs, o # p
      PROVE  Waits(o)' = Waits(o) /\ Holds(o)' = Holds(o) /\ Queued(o, queue[o])'
  <2>1. Waits(o)' = Waits(o) /\ Holds(o)' = Holds(o)
    BY <1>1, <1>4 DEF Waits, Holds, Mine
  <2>2. Queued(o, queue[o]) /\ queue'[o] = queue[o]
    BY <1>3, <1>4 DEF Gate
  <2> QED BY <1>1, <1>4, <2>1, <2>2 DEF Queued
<1>5. Queued(p, queue[p])'
  BY <1>3 DEF Queued
<1>6. ASSUME NEW o \in Procs
      PROVE  /\ waiting'[o] = Cardinality(Waits(o)') /\ free'[o] = MaxConcurrent - Cardinality(Holds(o)')
             /\ Queued(o, queue[o])'
  <2>1. CASE o = p
    <3>1. Cardinality(Waits(p)') = 0 /\ Cardinality(Holds(p)') = 0
      BY <1>2
    <3>2. MaxConcurrent \in Nat
      BY SqliteAssumption DEF SqliteAssumption
    <3>3. waiting'[p] = Cardinality(Waits(p)') /\ free'[p] = MaxConcurrent - Cardinality(Holds(p)')
      BY <1>3, <3>1, <3>2
    <3> QED BY <1>5, <2>1, <3>3, Zenon
  <2>2. CASE o # p
    BY <1>3, <1>4, <2>2 DEF Gate
  <2> QED BY <2>1, <2>2
<1> QED BY <1>1, <1>3, <1>6 DEF Gate

\* A request with a slot gives it back.
LEMMA LeaveGate ==
  ASSUME Gate, NEW r \in Requests, st[r] \in {"active", "looked", "writing"},
         NEW how \in {"done", "failed"}, Leave(r, how), UNCHANGED waiting
  PROVE  Gate'
<1> DEFINE p == At[r]
<1>1. p \in Procs /\ r \in Mine(p)
  BY SqliteAssumption DEF Mine, SqliteAssumption
<1>2. r \in Holds(p) /\ OthersHold(p, r) = Holds(p) \ {r} /\ Waits(p) \ {r} = Waits(p)
  BY <1>1 DEF Holds, OthersHold, Waits, WithSlot, AtGate
<1>3. IsFiniteSet(Holds(p)) /\ Cardinality(Holds(p)) \in Nat
  BY FiniteMine DEF Holds
<1>4. Cardinality(OthersHold(p, r)) = Cardinality(Holds(p)) - 1
  BY <1>2, <1>3, FS_RemoveElement
<1>5. /\ free[p] \in Nat /\ free[p] = MaxConcurrent - Cardinality(Holds(p)) /\ Queued(p, queue[p])
      /\ waiting' = [waiting EXCEPT ![p] = Cardinality(Waits(p) \ {r})] /\ MaxConcurrent \in Nat
  BY <1>1, <1>2, SqliteAssumption DEF Gate, SqliteAssumption
<1>6. \A i \in 1..Len(queue[p]) : queue[p][i] # r
  BY <1>5 DEF Queued
<1>7. Wake(p, r, how, free[p] + 1, queue[p])
  BY DEF Leave
<1>8. free[p] + 1 \in Nat /\ free[p] + 1 = MaxConcurrent - Cardinality(OthersHold(p, r)) - 0
  BY <1>3, <1>4, <1>5
<1> HIDE DEF p
<1> QED BY <1>1, <1>5, <1>6, <1>7, <1>8, WakeGate

\* The wait is over, with a slot or without.
LEMMA WaitedGate ==
  ASSUME Gate, NEW r \in Requests, st[r] \in AtGate, Resume(r) \/ GiveUp(r)
  PROVE  Gate'
<1> DEFINE p == At[r]
<1>1. p \in Procs /\ r \in Mine(p) /\ r \in Waits(p)
  BY SqliteAssumption DEF Mine, Waits, SqliteAssumption
<1>2. Cardinality(Waits(p) \ {r}) = Cardinality(Waits(p)) - 1
  <2>1. IsFiniteSet(Waits(p))
    BY FiniteMine DEF Waits
  <2> QED BY <1>1, <2>1, FS_RemoveElement
<1>3. /\ free[p] \in Nat /\ free[p] = MaxConcurrent - Cardinality(Holds(p)) /\ Queued(p, queue[p])
      /\ waiting[p] = Cardinality(Waits(p)) /\ MaxConcurrent \in Nat
  BY <1>1, SqliteAssumption DEF Gate, SqliteAssumption
<1>4. waiting' = [waiting EXCEPT ![p] = Cardinality(Waits(p) \ {r})]
  BY <1>2, <1>3 DEF Resume, GiveUp
<1>5. IsFiniteSet(Holds(p)) /\ Cardinality(Holds(p)) \in Nat /\ OthersHold(p, r) = Holds(p) \ {r}
  BY FiniteMine DEF Holds, OthersHold
<1>6. st[r] = "granted" => Cardinality(OthersHold(p, r)) = Cardinality(Holds(p)) - 1
  <2>1. st[r] = "granted" => r \in Holds(p)
    BY <1>1 DEF Holds, WithSlot
  <2> QED BY <1>5, <2>1, FS_RemoveElement
<1>7. st[r] = "waiting" => Cardinality(OthersHold(p, r)) = Cardinality(Holds(p))
  <2>1. st[r] = "waiting" => r \notin Holds(p)
    BY DEF Holds, WithSlot
  <2> QED BY <1>5, <2>1, FS_RemoveElement
<1>8. CASE Resume(r)
  <2>1. st[r] = "granted" /\ Wake(p, r, "active", free[p], queue[p])
    BY <1>8 DEF Resume
  <2>2. \A i \in 1..Len(queue[p]) : queue[p][i] # r
    BY <1>3, <2>1 DEF Queued
  <2>3. free[p] = MaxConcurrent - Cardinality(OthersHold(p, r)) - 1
    BY <1>3, <1>5, <1>6, <2>1
  <2> HIDE DEF p
  <2> QED BY <1>1, <1>3, <1>4, <2>1, <2>2, <2>3, WakeGate
<1>9. CASE GiveUp(r)
  <2> DEFINE f == IF st[r] = "granted" THEN free[p] + 1 ELSE free[p]
             q == Without(queue[p], r)
  <2>1. Wake(p, r, "failed", f, q)
    BY <1>9 DEF GiveUp
  <2>2. Queued(p, q) /\ \A i \in 1..Len(q) : q[i] # r
    BY <1>3, WithoutOne
  <2>3. f \in Nat /\ f = MaxConcurrent - Cardinality(OthersHold(p, r)) - 0
    BY <1>3, <1>5, <1>6, <1>7 DEF AtGate
  <2> HIDE DEF p, f, q
  <2> QED BY <1>1, <1>4, <2>1, <2>2, <2>3, WakeGate
<1> QED BY <1>8, <1>9

LEMMA GateStep == ASSUME Gate, [Next]_vars PROVE Gate'
<1> USE DEF requestVars
<1>1. CASE UNCHANGED requestVars
  BY <1>1, GateUnchanged DEF Gate
<1>2. ASSUME NEW p \in Procs, Opening(p) \/ Stops(p) PROVE Gate'
  BY <1>2, GateUnchanged, LostGate DEF Opening, Stops, Gate
<1>3. ASSUME NEW r \in Requests, RequestStep(r) PROVE Gate'
  <2>1. CASE Resume(r) \/ GiveUp(r)
    <3>1. st[r] \in AtGate
      BY <2>1 DEF Resume, GiveUp, AtGate
    <3> QED BY <2>1, <3>1, WaitedGate
  <2>2. CASE ReadOut(r) \/ UpdateRejected(r) \/ Commit(r) \/ Fail(r)
    BY <2>2, LeaveGate DEF ReadOut, UpdateRejected, Commit, Fail
  <2>3. CASE Lookup(r) \/ Save(r) \/ Update(r)
    <3>1. /\ UNCHANGED gateVars /\ st[r] \in {"active", "looked"}
          /\ \E next \in {"looked", "writing"} : st' = [st EXCEPT ![r] = next]
      BY <2>3 DEF Lookup, Save, Update
    <3>2. st' \in [Requests -> Live \cup {"new", "busy", "done", "failed"}]
      BY <3>1 DEF Gate, Live
    <3>3. /\ st'[r] \in {"looked", "writing"}
          /\ \A x \in Requests : x # r => st'[x] = st[x]
      BY <3>1 DEF Gate
    <3> QED BY <3>1, <3>2, <3>3, GateUnchanged
  <2> QED BY <1>3, <2>1, <2>2, <2>3, AskGate DEF RequestStep
<1>4. CASE UNCHANGED vars
  BY <1>1, <1>4 DEF vars
<1> QED BY <1>1, <1>2, <1>3, <1>4 DEF Next

\* _with_semaphore loses no slot and no place in the queue, whichever of any
\* number of requests time out, are cancelled or fail.
THEOREM GateAlwaysExact == Spec => []GateExact
<1>1. Gate => GateExact
  BY DEF Gate, GateExact, Waits, Holds, AtGate, WithSlot
<1> QED BY <1>1, GateInit, GateStep, PTL DEF Spec

-----------------------------------------------------------------------------
(* The types.                                                              *)

\* What they rest on besides Schema, Agreed and Gate: a process about to open the
\* lock file has an attempt left.
Locked ==
  /\ pc \in [Procs -> Locking \cup Holding \cup Idle]
  /\ fd \in [Procs -> (0..Cardinality(Procs)) \cup {None}]
  /\ tries \in [Procs -> 0..Tries]
  /\ file \in (0..Cardinality(Procs)) \cup {None} /\ stale \in BOOLEAN
  /\ \A p \in Procs : pc[p] \in {"remove", "open"} => tries[p] < Tries

\* One of the numbers is neither the file's nor any process's.
LEMMA FreshIsFree ==
  ASSUME Locked, file = None
  PROVE  Fresh \in 0..Cardinality(Procs)
<1> DEFINE N == Cardinality(Procs)
           Free(n) == n # file /\ \A q \in Procs : n # fd[q]
<1>1. N \in Nat /\ IsFiniteSet(Procs) /\ None \notin Nat
  BY MigrationsAssumption, FS_CardinalityType DEF MigrationsAssumption
<1>2. \E n \in 0..N : Free(n)
  <2> SUFFICES ASSUME \A n \in 0..N : ~Free(n) PROVE FALSE
    OBVIOUS
  <2>1. \A n \in 0..N : \E q \in Procs : fd[q] = n
    BY <1>1
  <2> DEFINE f == [n \in 0..N |-> CHOOSE q \in Procs : fd[q] = n]
  <2>2. \A n \in 0..N : f[n] \in Procs /\ fd[f[n]] = n
    BY <2>1
  <2>3. f \in Injection(0..N, Procs)
    <3>1. f \in [0..N -> Procs]
      BY <2>2
    <3>2. \A m, n \in 0..N : f[m] = f[n] => m = n
      BY <2>2
    <3> QED BY <3>1, <3>2 DEF Injection, IsInjective
  <2> HIDE DEF N, f
  <2>4. Cardinality(0..N) <= Cardinality(Procs)
    BY <1>1, <2>3, FS_Injection
  <2>5. Cardinality(0..N) = N + 1
    <3>1. 0 \in Int /\ N \in Int /\ ~(0 > N) /\ N - 0 + 1 = N + 1
      BY <1>1
    <3> QED BY <3>1, FS_Interval
  <2> QED BY <1>1, <2>4, <2>5 DEF N
<1> QED BY <1>2 DEF Fresh

\* A start that ends, or a process that does, has its locals no more.
LEMMA OverKeepsLocked ==
  ASSUME Locked, NEW p \in Procs, NEW how \in Idle, Over(p, how),
         UNCHANGED <<file, stale>> \/ (file' = None /\ stale' = FALSE)
  PROVE  Locked'
<1>1. /\ pc' = [pc EXCEPT ![p] = how] /\ fd' = [fd EXCEPT ![p] = None]
      /\ tries' = [tries EXCEPT ![p] = 0] /\ how \notin {"remove", "open"}
  BY DEF Over, Go, Idle
<1>2. 0 \in 0..Tries
  BY MigrationsAssumption DEF MigrationsAssumption
<1>3. pc' \in [Procs -> Locking \cup Holding \cup Idle]
  BY <1>1 DEF Locked
<1>4. tries' \in [Procs -> 0..Tries] /\ fd' \in [Procs -> (0..Cardinality(Procs)) \cup {None}]
  BY <1>1, <1>2 DEF Locked
<1>5. \A q \in Procs : pc'[q] \in {"remove", "open"} => tries'[q] < Tries
  BY <1>1 DEF Locked
<1> QED BY <1>3, <1>4, <1>5 DEF Locked

\* In the runner the lock file is left alone.
LEMMA RunnerKeepsLocked ==
  ASSUME Locked, NEW p \in Procs, UNCHANGED lockVars,
         UNCHANGED pc \/ \E next \in Holding \cup {"look"} : Go(p, next)
  PROVE  Locked'
BY DEF Go, Locked, lockVars, Holding, Running, Locking

LEMMA OpeningKeepsLocked == ASSUME Locked, NEW p \in Procs, OpeningStep(p) PROVE Locked'
<1>1. CASE Begin(p) \/ CheckSystem(p) \/ Create(p) \/ Read(p) \/ Check(p) \/ Mark(p) \/ Apply(p)
  <2>1. UNCHANGED lockVars /\ (UNCHANGED pc \/ \E next \in Holding \cup {"look"} : Go(p, next))
    BY <1>1 DEF Begin, CheckSystem, Create, Read, Check, Mark, Apply, Execute, Holding, Running
  <2> QED BY <2>1, RunnerKeepsLocked
<1>2. CASE Look(p)
  <2>1. CASE Over(p, "failed") /\ UNCHANGED <<file, stale>>
    BY <2>1, OverKeepsLocked DEF Idle
  <2>2. CASE /\ tries[p] < Tries /\ UNCHANGED <<fd, tries, file, stale>>
             /\ \E next \in {"remove", "open"} : Go(p, next)
    BY <2>2 DEF Go, Locked, Locking
  <2> QED BY <1>2, <2>1, <2>2 DEF Look
<1>3. CASE Remove(p)
  BY <1>3 DEF Remove, Go, Locked, Locking
<1>4. CASE Open(p)
  <2>1. /\ pc[p] = "open" /\ pc' = [pc EXCEPT ![p] = "flock"] /\ stale' = FALSE
        /\ fd' = [fd EXCEPT ![p] = file'] /\ tries' = [tries EXCEPT ![p] = @ + 1]
        /\ file' = IF file = None THEN Fresh ELSE file
    BY <1>4 DEF Open, Go
  <2>2. file' \in 0..Cardinality(Procs)
    BY <2>1, FreshIsFree DEF Locked
  <2>3. tries[p] + 1 \in 0..Tries
    BY <2>1, MigrationsAssumption DEF Locked, MigrationsAssumption
  <2>4. tries' \in [Procs -> 0..Tries] /\ fd' \in [Procs -> (0..Cardinality(Procs)) \cup {None}]
    BY <2>1, <2>2, <2>3 DEF Locked
  <2>5. /\ pc' \in [Procs -> Locking \cup Holding \cup Idle]
        /\ \A q \in Procs : pc'[q] \in {"remove", "open"} => tries'[q] < Tries
    BY <2>1 DEF Locked, Locking
  <2> QED BY <2>1, <2>2, <2>4, <2>5 DEF Locked
<1>5. CASE Flock(p)
  BY <1>5 DEF Flock, Go, Locked, Locking, Holding, Running
<1>6. CASE Release(p)
  BY <1>6, OverKeepsLocked DEF Release, Idle
<1> QED BY <1>1, <1>2, <1>3, <1>4, <1>5, <1>6 DEF OpeningStep

LEMMA LockedInit == ASSUME MigrationsInit PROVE Locked
<1>1. Cardinality(Procs) \in Nat
  BY MigrationsAssumption, FS_CardinalityType DEF MigrationsAssumption
<1> QED BY <1>1, MigrationsAssumption DEF MigrationsInit, MigrationsAssumption, Locked, Idle

LEMMA LockedStep == ASSUME Locked, [Next]_vars PROVE Locked'
<1>1. CASE UNCHANGED migrationVars
  BY <1>1 DEF migrationVars, lockVars, Locked
<1>2. CASE Age
  BY <1>2 DEF Age, Locked
<1>3. ASSUME NEW p \in Procs, Opening(p) PROVE Locked'
  BY <1>3, OpeningKeepsLocked DEF Opening
<1>4. ASSUME NEW p \in Procs, Stops(p) PROVE Locked'
  BY <1>4, OverKeepsLocked DEF Stops, Crash, Idle
<1>5. ASSUME NEW r \in Requests, RequestStep(r) PROVE Locked'
  BY <1>1, <1>5 DEF RequestStep, Ask, Resume, GiveUp, ReadOut, Lookup, Save, Update,
                    UpdateRejected, Commit, Fail
<1> QED BY <1>1, <1>2, <1>3, <1>4, <1>5 DEF Next, vars

\* What an adapter remembers and the database records are dimensions of providers.
Recording ==
  /\ cache \in [Procs -> Range(Dim) \cup {None}]
  /\ writer \in Requests \cup {None} /\ adds \subseteq Range(Dim)
  /\ dims \subseteq Range(Dim) /\ stored \subseteq Requests

LEMMA RecordingStep == ASSUME Recording, [Next]_vars PROVE Recording'
<1> USE DEF dataVars, requestVars
<1>1. CASE UNCHANGED <<cache, dataVars>>
  BY <1>1 DEF Recording
<1>2. ASSUME NEW p \in Procs, Opening(p) PROVE Recording'
  <2>1. /\ UNCHANGED dataVars
        /\ \E d \in Range(Dim) \cup {None} : cache' \in {cache, [cache EXCEPT ![p] = d]}
    BY <1>2 DEF Opening
  <2> QED BY <2>1 DEF Recording
<1>3. ASSUME NEW p \in Procs, Stops(p) PROVE Recording'
  BY <1>3 DEF Stops, Lost, Recording
<1>4. ASSUME NEW r \in Requests, RequestStep(r) PROVE Recording'
  <2>1. At[r] \in Procs /\ Dim[At[r]] \in Range(Dim)
    BY SqliteAssumption DEF SqliteAssumption, Range
  <2>2. CASE Ask(r) \/ Resume(r) \/ GiveUp(r) \/ ReadOut(r) \/ Lookup(r)
    BY <1>1, <2>2 DEF Ask, Resume, GiveUp, ReadOut, Lookup
  <2>3. CASE Save(r)
    BY <2>1, <2>3 DEF Save, Recording
  <2>4. CASE Update(r)
    BY <2>1, <2>4 DEF Update, Recording
  <2>5. CASE UpdateRejected(r)
    <3>1. /\ UNCHANGED dataVars
          /\ \E d \in Range(Dim) : cache' \in {cache, [cache EXCEPT ![At[r]] = d]}
      BY <2>1, <2>5 DEF UpdateRejected, Recording
    <3> QED BY <2>1, <3>1 DEF Recording
  <2>6. CASE Commit(r) \/ Fail(r)
    BY <2>6 DEF Commit, Fail, Recording
  <2> QED BY <1>4, <2>2, <2>3, <2>4, <2>5, <2>6 DEF RequestStep
<1> QED BY <1>1, <1>2, <1>3, <1>4 DEF Next, vars

\* A request joins the queue only where there is room.
LEMMA RoomStep ==
  ASSUME Gate, \A p \in Procs : waiting[p] <= MaxQueued, [Next]_vars
  PROVE  \A p \in Procs : waiting'[p] <= MaxQueued
<1> USE DEF gateVars, requestVars
<1>0. /\ waiting \in [Procs -> Nat] /\ MaxQueued \in Nat /\ At \in [Requests -> Procs]
      /\ \A p \in Procs : waiting[p] \in Nat
  BY SqliteAssumption DEF Gate, SqliteAssumption
<1>1. CASE UNCHANGED waiting
  BY <1>1
<1>2. ASSUME NEW p \in Procs, Stops(p) PROVE \A o \in Procs : waiting'[o] <= MaxQueued
  BY <1>0, <1>2 DEF Stops, Lost
<1>3. ASSUME NEW r \in Requests, RequestStep(r) PROVE \A o \in Procs : waiting'[o] <= MaxQueued
  <2>1. CASE Ask(r)
    <3>1. CASE UNCHANGED waiting
      BY <3>1
    <3>2. CASE ~Full(At[r]) /\ waiting' = [waiting EXCEPT ![At[r]] = @ + 1]
      BY <1>0, <3>2 DEF Full
    <3> QED BY <2>1, <3>1, <3>2 DEF Ask
  <2>2. CASE Resume(r) \/ GiveUp(r)
    <3>1. waiting' = [waiting EXCEPT ![At[r]] = @ - 1]
      BY <2>2 DEF Resume, GiveUp
    <3> QED BY <1>0, <3>1
  <2>3. CASE ~(Ask(r) \/ Resume(r) \/ GiveUp(r))
    BY <1>3, <2>3 DEF RequestStep, ReadOut, Lookup, Save, Update, UpdateRejected, Commit, Fail
  <2> QED BY <2>1, <2>2, <2>3
<1>4. ASSUME NEW p \in Procs, Opening(p) PROVE UNCHANGED waiting
  BY <1>4 DEF Opening
<1> QED BY <1>1, <1>2, <1>3, <1>4 DEF Next, vars

\* The adapter's counters stay within the limits it is configured with, its queue
\* holds requests of its own process, and what it remembers is a dimension some
\* provider has; the lock file's attempts and its generations stay within bounds.
THEOREM SqliteTyped == Spec => []TypeOK
<1> DEFINE Shape == /\ Schema /\ Locked /\ Agreed /\ Gate /\ Recording
                    /\ \A p \in Procs : waiting[p] <= MaxQueued
<1>1. Init => Shape
  <2>1. Init => Recording /\ \A p \in Procs : waiting[p] <= MaxQueued
    BY SqliteAssumption DEF Init, Recording, SqliteAssumption
  <2> QED BY <2>1, SchemaInit, LockedInit, AgreedInit, GateInit DEF Init
<1>2. Shape /\ [Next]_vars => Shape'
  BY SchemaStep, LockedStep, AgreedStep, GateStep, RecordingStep, RoomStep
<1>3. Shape => TypeOK
  <2> SUFFICES ASSUME Shape PROVE TypeOK
    OBVIOUS
  <2>1. MigrationsTypeOK
    <3>1. Len(Files("postgres")) + 1 = 6 /\ done \subseteq Versions /\ versions \subseteq Versions
      <4>1. Len(Files("postgres")) = 5
        BY FilesAre
      <4>2. \A n : n = 5 => n + 1 = 6
        OBVIOUS
      <4>3. done \subseteq Versions /\ versions \subseteq Versions
        BY DEF Schema
      <4> QED BY <4>1, <4>2, <4>3, Zenon
    <3> QED BY <3>1 DEF Schema, Locked, MigrationsTypeOK
  <2>2. /\ waiting \in [Procs -> 0..MaxQueued] /\ free \in [Procs -> 0..MaxConcurrent]
    <3>1. MaxQueued \in Nat /\ MaxConcurrent \in Nat
      BY SqliteAssumption DEF SqliteAssumption
    <3>2. \A p \in Procs : Cardinality(Holds(p)) \in Nat /\ free[p] = MaxConcurrent - Cardinality(Holds(p))
      BY FiniteMine DEF Gate, Holds
    <3>3. waiting \in [Procs -> Nat] /\ free \in [Procs -> Nat]
      BY DEF Gate
    <3>4. ASSUME NEW p \in Procs PROVE waiting[p] \in 0..MaxQueued /\ free[p] \in 0..MaxConcurrent
      BY <3>1, <3>2, <3>3
    <3> QED BY <3>3, <3>4
  <2>3. ASSUME NEW p \in Procs PROVE queue[p] \in Seq(Mine(p))
    <3>1. queue[p] \in Seq(Requests) /\ \A i \in 1..Len(queue[p]) : queue[p][i] \in Mine(p)
      BY DEF Gate, Queued
    <3> QED BY <3>1
  <2> QED BY <2>1, <2>2, <2>3 DEF Agreed, Recording, TypeOK
<1> QED BY <1>1, <1>2, <1>3, PTL DEF Spec
=============================================================================
