----------------------------- MODULE Migrations -----------------------------
(***************************************************************************)
(* Opening the database: processes that start together take the lock file, *)
(* remove one that a dead process left behind, and bring the schema up to  *)
(* date (utils/stale_lock.py, storage/migrations/runner.py and the two     *)
(* SQLite adapters that call them; Postgres runs the same runner without   *)
(* a lock).                                                                *)
(*                                                                         *)
(* A process can stop at any point: the kernel drops its lock, the         *)
(* database its transaction, the file stays.                               *)
(***************************************************************************)
EXTENDS Integers, Sequences, FiniteSets

CONSTANTS
  Procs,     \* processes that open the database
  Tries,     \* attempts at the lock before the timeout
  None

Databases == {"sqlite", "postgres"}

\* The migration files of a database, in order of their names.
Files(d) ==
  IF d = "sqlite" THEN <<"system", "initial", "graph", "outbox">>
  ELSE <<"system", "initial", "graph", "drop_unique", "outbox">>
Versions == {"system", "initial", "graph", "drop_unique", "outbox"}

\* A database made before there were migrations has the tables of the first few.
Legacy(d) == {{}} \cup {{Files(d)[j] : j \in 2..i} : i \in 2..Len(Files(d))}

\* Running a file twice fails, unless it says IF (NOT) EXISTS throughout.
Repeatable == {"system", "drop_unique"}

ASSUME MigrationsAssumption == IsFiniteSet(Procs) /\ Tries \in Nat \ {0} /\ None \notin Nat

VARIABLES
  db,        \* the kind of database
  done,      \* migrations whose tables exist
  versions,  \* rows of schema_migrations
  pc,        \* where a process is
  fd,        \* process |-> the file it has opened, or None
  tries,     \* process |-> its attempts at the lock
  seen,      \* process |-> what it takes for applied
  found,     \* process |-> what it will mark as applied
  at,        \* process |-> the file it is about to look at
  file,      \* the lock file: a number that tells it from others, or None
  stale      \* it was last touched long ago

schemaVars == <<done, versions>>
lockVars == <<fd, tries, file, stale>>
planVars == <<seen, found, at>>
migrationVars == <<db, schemaVars, pc, lockVars, planVars>>

Locking == {"look", "remove", "open", "flock"}
Running == {"system", "create", "read", "check", "mark", "apply"}
Holding == Running \cup {"release", "abandon"}
Idle == {"off", "up", "failed"}

MigrationsInit ==
  /\ db \in Databases /\ done \in Legacy(db) /\ versions = {}
  /\ pc = [p \in Procs |-> "off"]
  /\ fd = [p \in Procs |-> None] /\ tries = [p \in Procs |-> 0]
  /\ seen = [p \in Procs |-> {}] /\ found = [p \in Procs |-> {}]
  /\ at = [p \in Procs |-> 1]
  /\ file \in {None, 0} /\ stale = (file = 0)

Go(p, next) == pc' = [pc EXCEPT ![p] = next]

Begin(p) ==
  /\ pc[p] \in {"off", "failed"}
  /\ Go(p, IF db = "sqlite" THEN "look" ELSE "system")
  /\ UNCHANGED <<db, schemaVars, lockVars, planVars>>

\* The start is over: its locals are gone.
Over(p, how) ==
  /\ Go(p, how)
  /\ fd' = [fd EXCEPT ![p] = None] /\ tries' = [tries EXCEPT ![p] = 0]
  /\ seen' = [seen EXCEPT ![p] = {}] /\ found' = [found EXCEPT ![p] = {}]
  /\ at' = [at EXCEPT ![p] = 1]

-----------------------------------------------------------------------------
(* StaleAwareFileLock.acquire.                                             *)

Look(p) ==
  /\ pc[p] = "look"
  /\ \/ tries[p] = Tries /\ Over(p, "failed")
     \/ /\ tries[p] < Tries
        /\ Go(p, IF file # None /\ stale THEN "remove" ELSE "open")
        /\ UNCHANGED <<fd, tries, planVars>>
  /\ UNCHANGED <<db, schemaVars, file, stale>>

\* Whatever file is there by now is removed.
Remove(p) ==
  /\ pc[p] = "remove"
  /\ Go(p, "open")
  /\ file' = None /\ stale' = FALSE
  /\ UNCHANGED <<db, schemaVars, fd, tries, planVars>>

\* FileLock opens the file, truncating it, and creates it if it is not there.
Fresh == CHOOSE n \in 0..Cardinality(Procs) : n # file /\ \A q \in Procs : n # fd[q]
Open(p) ==
  /\ pc[p] = "open"
  /\ Go(p, "flock")
  /\ file' = IF file = None THEN Fresh ELSE file
  /\ stale' = FALSE
  /\ fd' = [fd EXCEPT ![p] = file']
  /\ tries' = [tries EXCEPT ![p] = @ + 1]
  /\ UNCHANGED <<db, schemaVars, planVars>>

\* It gets the kernel's lock unless another process has it or the file it
\* opened has been removed.
Flock(p) ==
  /\ pc[p] = "flock"
  /\ \/ /\ fd[p] = file /\ \A q \in Procs \ {p} : pc[q] \in Holding => fd[q] # fd[p]
        /\ Go(p, "system")
        /\ UNCHANGED fd
     \/ /\ fd[p] # file \/ \E q \in Procs \ {p} : pc[q] \in Holding /\ fd[q] = fd[p]
        /\ Go(p, "look")
        /\ fd' = [fd EXCEPT ![p] = None]
  /\ UNCHANGED <<db, schemaVars, tries, file, stale, planVars>>

\* Releasing removes the file of that name, whoever made it.
Release(p) ==
  /\ pc[p] \in {"release", "abandon"}
  /\ Over(p, IF pc[p] = "release" THEN "up" ELSE "failed")
  /\ IF db = "sqlite" THEN file' = None /\ stale' = FALSE ELSE UNCHANGED <<file, stale>>
  /\ UNCHANGED <<db, schemaVars>>

-----------------------------------------------------------------------------
(* MigrationRunner.run.                                                    *)

CheckSystem(p) ==
  /\ pc[p] = "system"
  /\ Go(p, IF "system" \in done THEN "read" ELSE "create")
  /\ UNCHANGED <<db, schemaVars, lockVars, planVars>>

\* Variant (seeded bug): executescript commits the tables before the version.
ExecuteScript(p, m, next) ==
  \/ /\ m \notin done \/ m \in Repeatable
     /\ done' = done \cup {m}
     /\ \/ m \notin versions /\ versions' = versions \cup {m} /\ Go(p, next)
        \/ UNCHANGED versions /\ Go(p, "abandon")
  \/ Go(p, "abandon") /\ UNCHANGED schemaVars

\* One file in one transaction: all of it and its version, or an error.
Execute(p, m, next) ==
  \/ /\ m \notin done \/ m \in Repeatable
     /\ m \notin versions
     /\ done' = done \cup {m} /\ versions' = versions \cup {m}
     /\ Go(p, next)
  \/ Go(p, "abandon") /\ UNCHANGED schemaVars

Create(p) ==
  /\ pc[p] = "create"
  /\ Execute(p, "system", "read")
  /\ UNCHANGED <<db, lockVars, planVars>>

Read(p) ==
  /\ pc[p] = "read"
  /\ seen' = [seen EXCEPT ![p] = versions]
  /\ Go(p, IF versions \subseteq {"system"} THEN "check" ELSE "apply")
  /\ UNCHANGED <<db, schemaVars, lockVars, found, at>>

\* The table that stands for a file is found by the number the file begins with.
StandsFor(m) == IF m = "drop_unique" THEN "outbox" ELSE m

\* _handle_baseline looks for the tables of one file after the other ...
Check(p) ==
  /\ pc[p] = "check"
  /\ \/ /\ at[p] <= Len(Files(db))
        /\ LET m == Files(db)[at[p]] IN
           found' = IF m # "system" /\ StandsFor(m) \in done
                    THEN [found EXCEPT ![p] = @ \cup {m}] ELSE found
        /\ at' = [at EXCEPT ![p] = @ + 1]
        /\ UNCHANGED pc
     \/ /\ at[p] > Len(Files(db))
        /\ at' = [at EXCEPT ![p] = 1]
        /\ Go(p, "mark")
        /\ UNCHANGED found
  /\ UNCHANGED <<db, schemaVars, lockVars, seen>>

\* ... and marks those it found in one transaction.
Mark(p) ==
  /\ pc[p] = "mark"
  /\ \/ /\ found[p] \cap versions = {}
        /\ versions' = versions \cup found[p]
        /\ seen' = [seen EXCEPT ![p] = @ \cup found[p]]
        /\ Go(p, "apply")
     \/ /\ found[p] # {}
        /\ Go(p, "abandon")
        /\ UNCHANGED <<versions, seen>>
  /\ UNCHANGED <<db, done, lockVars, found, at>>

Apply(p) ==
  /\ pc[p] = "apply"
  /\ \/ /\ at[p] <= Len(Files(db))
        /\ at' = [at EXCEPT ![p] = @ + 1]
        /\ LET m == Files(db)[at[p]] IN
           \/ m \in seen[p] /\ UNCHANGED <<pc, schemaVars>>
           \/ m \notin seen[p] /\ Execute(p, m, "apply")
     \/ /\ at[p] > Len(Files(db))
        /\ Go(p, "release")
        /\ UNCHANGED <<at, schemaVars>>
  /\ UNCHANGED <<db, lockVars, seen, found>>

-----------------------------------------------------------------------------
\* The process ends without a word.
Crash(p) ==
  /\ pc[p] # "off"
  /\ Over(p, "off")
  /\ UNCHANGED <<db, schemaVars, file, stale>>

\* Nobody is starting for longer than the stale timeout.
Age ==
  /\ file # None /\ ~stale /\ \A p \in Procs : pc[p] \in Idle
  /\ stale' = TRUE
  /\ UNCHANGED <<db, schemaVars, pc, fd, tries, file, planVars>>

OpeningStep(p) ==
  \/ Begin(p) \/ Look(p) \/ Remove(p) \/ Open(p) \/ Flock(p) \/ Release(p)
  \/ CheckSystem(p) \/ Create(p) \/ Read(p) \/ Check(p) \/ Mark(p) \/ Apply(p)

-----------------------------------------------------------------------------
MigrationsTypeOK ==
  /\ db \in Databases /\ done \subseteq Versions /\ versions \subseteq Versions
  /\ pc \in [Procs -> Locking \cup Holding \cup Idle]
  /\ fd \in [Procs -> (0..Cardinality(Procs)) \cup {None}]
  /\ tries \in [Procs -> 0..Tries]
  /\ seen \in [Procs -> SUBSET Versions] /\ found \in [Procs -> SUBSET Versions]
  /\ at \in [Procs -> 1..(Len(Files("postgres")) + 1)]
  /\ file \in (0..Cardinality(Procs)) \cup {None} /\ stale \in BOOLEAN

\* A start by itself gets through: it takes the tables for old ones, or every
\* table there is has its version.
Resumable ==
  \/ versions \subseteq {"system"}
  \/ \A m \in done \ Repeatable : m \in versions

\* Whoever starts at the same time (two can hold the lock when both found the
\* file stale) and wherever they stop, no version is recorded whose tables are
\* not there, the next start can go on from what is there, and a process that
\* is up has every table.
SchemaSound ==
  /\ versions \subseteq done
  /\ Resumable
  /\ \A p \in Procs : pc[p] = "up" => {Files(db)[i] : i \in DOMAIN Files(db)} \subseteq done
=============================================================================
