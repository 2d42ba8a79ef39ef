--------------------------- MODULE ProcessProofs ---------------------------
(***************************************************************************)
(* Theorems about Process, for any settings, any calls, however their      *)
(* texts share chunks, and any limits.                                     *)
(***************************************************************************)
EXTENDS Process, FiniteSetTheorems, SequenceTheorems, WellFoundedInduction, TLAPS

LEMMA KeyOfTask == ASSUME NEW t \in Tasks PROVE KeyOf(t) \in Keys
<1>1. PICK c \in Calls : t \in {c} \X Pieces(c)
  BY DEF Tasks
<1>2. /\ t[1] = c /\ t[2] \in DOMAIN Chunks[c] /\ Chunks[c] \in Seq(Keys)
  BY <1>1, ServerAssumption DEF ServerAssumption, Pieces
<1> QED BY <1>2 DEF KeyOf

\* What a step can do to the chunk tasks and to the table of running ones.
Creates(c, i) ==
  LET t == <<c, i>> IN
  /\ memo[KeyOf(t)] = None
  /\ task' = [task EXCEPT ![t] = "run"]
  /\ memo' = [memo EXCEPT ![KeyOf(t)] = t]
TaskChange ==
  \/ UNCHANGED <<task, memo>>
  \/ \E c \in Calls : \E i \in Pieces(c) : Creates(c, i)
  \/ \E t \in Tasks : Work(t) \/ Leave(t)

LEMMA StepChangesTasks == Next => TaskChange
<1> SUFFICES ASSUME Next PROVE TaskChange
  OBVIOUS
<1>1. CASE BootStep
  BY <1>1 DEF BootStep, Ready, TaskChange, serverVars, taskVars
<1>2. CASE Releasing /\ UNCHANGED serverVars
  BY <1>2 DEF TaskChange, serverVars, taskVars
<1>3. CASE EndSession
  BY <1>3 DEF EndSession, TaskChange, taskVars
<1>4. CASE Shutdown
  BY <1>4 DEF Shutdown, WorkerStopped, Drain, TaskChange, taskVars
<1>5. CASE WorkerBegins \/ WorkerReturns
  BY <1>5 DEF WorkerBegins, WorkerReturns, TaskChange, taskVars
<1>6. ASSUME NEW c \in Calls, Save(c) \/ Flush(c) \/ Cancel(c)
      PROVE  TaskChange
  BY <1>6 DEF Save, Flush, Cancel, TaskChange, taskVars
<1>7. ASSUME NEW c \in Calls, CallStep(c)
      PROVE  TaskChange
  <2>1. CASE Admit(c) \/ Register(c) \/ Start(c) \/ Finish(c) \/ Notify(c)
    BY <2>1 DEF Admit, Register, Start, Finish, Notify, TaskChange, taskVars
  <2>2. ASSUME NEW i \in Pieces(c), Join(c, i)
        PROVE  TaskChange
    BY <2>2 DEF Join, Creates, TaskChange
  <2>3. ASSUME NEW w \in Pieces(c) \X Tasks, Answer(c, w)
        PROVE  TaskChange
    BY <2>3 DEF Answer, TaskChange, taskVars
  <2> QED BY <1>7, <2>1, <2>2, <2>3 DEF CallStep
<1>8. ASSUME NEW t \in Tasks, TaskStep(t)
      PROVE  TaskChange
  BY <1>8 DEF TaskStep, TaskChange
<1>9. ASSUME NEW x \in Flushes \cup Cleanups, JobCancelled(x)
      PROVE  TaskChange
  BY <1>9 DEF JobCancelled, TaskChange, taskVars
<1>10. ASSUME NEW k \in Cleanups, CleanupEnds(k)
       PROVE  TaskChange
  BY <1>10 DEF CleanupEnds, TaskChange, taskVars
<1>11. CASE View
  BY <1>11 DEF View, Viewing, TaskChange, vars, serverVars, taskVars
<1> QED BY <1>1, <1>2, <1>3, <1>4, <1>5, <1>6, <1>7, <1>8, <1>9, <1>10, <1>11
        DEF Next, ServerNext

-----------------------------------------------------------------------------
\* SingleFlight is not inductive: that a new task may be created when the table
\* has no entry depends on every task at work being the entry of its key.
Entered ==
  /\ task \in [Tasks -> {"none", "run", "leaving", "over"}]
  /\ memo \in [Keys -> Tasks \cup {None}]
  /\ \A t \in Tasks : task[t] \in {"run", "leaving"} => memo[KeyOf(t)] = t

LEMMA EnteredInit == Init => Entered
  BY DEF Init, ServerInit, Entered

LEMMA EnteredStep == ASSUME Entered, [Next]_allVars PROVE Entered'
<1>1. CASE UNCHANGED <<task, memo>>
  BY <1>1 DEF Entered
<1>2. ASSUME NEW c \in Calls, NEW i \in Pieces(c), Creates(c, i)
      PROVE  Entered'
  <2> DEFINE n == <<c, i>>
  <2>1. n \in Tasks
    BY DEF Tasks
  <2>2. KeyOf(n) \in Keys
    BY <2>1, KeyOfTask
  <2>3. /\ memo[KeyOf(n)] = None
        /\ task' = [task EXCEPT ![n] = "run"]
        /\ memo' = [memo EXCEPT ![KeyOf(n)] = n]
    BY <1>2 DEF Creates
  <2>4. ASSUME NEW t \in Tasks, task'[t] \in {"run", "leaving"}
        PROVE  memo'[KeyOf(t)] = t
    <3> HIDE DEF n
    <3>1. CASE t = n
      BY <3>1, <2>2, <2>3 DEF Entered
    <3>2. CASE t # n
      <4>1. memo[KeyOf(t)] = t
        BY <3>2, <2>3, <2>4 DEF Entered
      <4>2. KeyOf(t) # KeyOf(n)
        BY <4>1, <2>3, ServerAssumption DEF ServerAssumption
      <4> QED BY <4>1, <4>2, <2>3 DEF Entered
    <3> QED BY <3>1, <3>2
  <2> HIDE DEF n
  <2> QED BY <2>1, <2>2, <2>3, <2>4 DEF Entered
<1>3. ASSUME NEW t \in Tasks, Work(t)
      PROVE  Entered'
  BY <1>3 DEF Work, Entered
<1>4. ASSUME NEW t \in Tasks, Leave(t)
      PROVE  Entered'
  <2>1. \A u \in Tasks : KeyOf(u) \in Keys
    BY KeyOfTask
  <2> QED BY <1>4, <2>1, ServerAssumption DEF Leave, Entered, ServerAssumption
<1>5. CASE UNCHANGED allVars
  BY <1>5, <1>1 DEF allVars, vars, serverVars, taskVars
<1> QED BY <1>1, <1>2, <1>3, <1>4, <1>5, StepChangesTasks DEF TaskChange

\* The table of running chunk tasks (pipeline.py) lets no chunk be worked on
\* twice at a time, whoever is cancelled and comes again.
THEOREM OneTaskPerChunk == Spec => []SingleFlight
<1>1. Entered => SingleFlight
  BY DEF Entered, SingleFlight
<1> QED BY <1>1, EnteredInit, EnteredStep, PTL DEF Spec

\* Whatever is cancelled, a chunk task ends by its own work only: the shield.
THEOREM WorkOnlyEndsItself == Spec => CancelIsolated
<1>1. ASSUME Entered, [Next]_allVars
      PROVE  [\A t \in Tasks : task[t] = "run" /\ task'[t] # "run" => Work(t)]_vars
  <2> SUFFICES ASSUME NEW t \in Tasks, task[t] = "run", task'[t] # "run"
               PROVE  Work(t)
    OBVIOUS
  <2>1. TaskChange
    BY <1>1, StepChangesTasks DEF allVars, vars, serverVars, taskVars
  <2>2. ASSUME NEW c \in Calls, NEW i \in Pieces(c), Creates(c, i)
        PROVE  FALSE
    BY <1>1, <2>2 DEF Creates, Entered
  <2>3. ASSUME NEW u \in Tasks, Work(u) \/ Leave(u)
        PROVE  u = t
    BY <1>1, <2>3 DEF Work, Leave, Entered
  <2> QED BY <2>1, <2>2, <2>3 DEF TaskChange, Leave
<1> QED BY <1>1, EnteredInit, EnteredStep, PTL DEF Spec, CancelIsolated

-----------------------------------------------------------------------------
\* FlushAdmission is not inductive either: the check and the registration are
\* two steps.  Between them the lock is held, and there is room for one more.
Status == {"new", "asking", "estimating", "queued", "ingest", "hook",
           "done", "failed", "refused", "cancelled"}
Accepted == {f \in Flushes : st[f] \in {"queued", "ingest", "hook"}}
Admitting ==
  /\ st \in [Calls -> Status]
  /\ \A c \in Calls : st[c] = "asking" => c \in Flushes
  /\ \A c \in Calls : st[c] = "estimating" => c \in Flushes /\ flushLock = c
  /\ Cardinality(Accepted) <= MaxJobs
  /\ flushLock # None => Cardinality(Accepted) < MaxJobs

\* A call goes on without the lock: no flush becomes an accepted one.
GoesOn(c) ==
  /\ \E next \in Status \ {"estimating"} :
       /\ st' = [st EXCEPT ![c] = next]
       /\ next = "asking" => c \in Flushes
       /\ next \in {"queued", "ingest", "hook"} =>
            c \notin Flushes \/ st[c] \in {"queued", "ingest", "hook"}
  /\ UNCHANGED flushLock
FlushChange ==
  \/ UNCHANGED <<st, flushLock>>
  \/ \E c \in Calls : GoesOn(c) \/ Admit(c) \/ Register(c) \/ Unwind(c)

LEMMA StepChangesFlushes == Next => FlushChange
<1> SUFFICES ASSUME Next PROVE FlushChange
  OBVIOUS
<1>1. CASE BootStep
  BY <1>1 DEF BootStep, Ready, FlushChange, serverVars, callVars
<1>2. CASE Releasing /\ UNCHANGED serverVars
  BY <1>2 DEF FlushChange, serverVars, callVars
<1>3. CASE EndSession
  BY <1>3 DEF EndSession, FlushChange, callVars
<1>4. CASE Shutdown
  BY <1>4 DEF Shutdown, WorkerStopped, Drain, FlushChange, callVars
<1>5. CASE WorkerBegins \/ WorkerReturns
  BY <1>5 DEF WorkerBegins, WorkerReturns, FlushChange, callVars
<1>6. ASSUME NEW c \in Calls, Save(c) \/ Flush(c) \/ Cancel(c)
      PROVE  FlushChange
  <2>1. CASE Save(c)
    <3>1. GoesOn(c)
      BY <2>1, ServerAssumption DEF Save, Ingest, Move, GoesOn, Status, ServerAssumption
    <3> QED BY <3>1 DEF FlushChange
  <2>2. CASE Flush(c)
    <3>1. c \in Flushes /\ st' = [st EXCEPT ![c] = "asking"] /\ UNCHANGED flushLock
      BY <2>2 DEF Flush, Move
    <3>2. GoesOn(c)
      <4>1. /\ "asking" \in Status \ {"estimating"}
            /\ "asking" \notin {"queued", "ingest", "hook"}
        BY DEF Status
      <4> QED BY <3>1, <4>1, Zenon DEF GoesOn
    <3> QED BY <3>2 DEF FlushChange
  <2> QED BY <1>6, <2>1, <2>2 DEF Cancel, FlushChange
<1>7. ASSUME NEW c \in Calls, CallStep(c)
      PROVE  FlushChange
  <2>1. CASE Admit(c) \/ Register(c)
    BY <2>1 DEF FlushChange
  <2>2. CASE Start(c) \/ Finish(c) \/ Notify(c)
    <3>1. GoesOn(c)
      BY <2>2 DEF Start, Ingest, Finish, Notify, Move, GoesOn, Status
    <3> QED BY <3>1 DEF FlushChange
  <2>3. CASE (\E i \in Pieces(c) : Join(c, i)) \/ (\E w \in Pieces(c) \X Tasks : Answer(c, w))
    BY <2>3 DEF Join, Answer, FlushChange
  <2> QED BY <1>7, <2>1, <2>2, <2>3 DEF CallStep
<1>8. ASSUME NEW t \in Tasks, TaskStep(t)
      PROVE  FlushChange
  BY <1>8 DEF TaskStep, Work, Leave, FlushChange, callVars
<1>9. ASSUME NEW x \in Flushes \cup Cleanups, JobCancelled(x)
      PROVE  FlushChange
  BY <1>9 DEF JobCancelled, FlushChange, Calls
<1>10. ASSUME NEW k \in Cleanups, CleanupEnds(k)
       PROVE  FlushChange
  BY <1>10 DEF CleanupEnds, FlushChange, callVars
<1>11. CASE View
  BY <1>11 DEF View, Viewing, FlushChange, vars, serverVars, callVars
<1> QED BY <1>1, <1>2, <1>3, <1>4, <1>5, <1>6, <1>7, <1>8, <1>9, <1>10, <1>11
        DEF Next, ServerNext

\* Fewer flushes accepted, or one more.
LEMMA AcceptedSize ==
  /\ IsFiniteSet(Accepted) /\ Cardinality(Accepted) \in Nat
  /\ Accepted' \subseteq Accepted =>
       IsFiniteSet(Accepted') /\ Cardinality(Accepted') <= Cardinality(Accepted)
  /\ \A c : Accepted' \subseteq Accepted \cup {c} =>
       IsFiniteSet(Accepted') /\ Cardinality(Accepted') <= Cardinality(Accepted) + 1
<1>1. IsFiniteSet(Accepted) /\ Cardinality(Accepted) \in Nat
  BY ServerAssumption, FS_Subset, FS_CardinalityType DEF ServerAssumption, Accepted
<1>2. \A c : /\ IsFiniteSet(Accepted \cup {c})
             /\ Cardinality(Accepted \cup {c}) <= Cardinality(Accepted) + 1
  <2> TAKE c
  <2>1. /\ IsFiniteSet(Accepted \cup {c})
        /\ Cardinality(Accepted \cup {c})
             = IF c \in Accepted THEN Cardinality(Accepted) ELSE Cardinality(Accepted) + 1
    BY <1>1, FS_AddElement
  <2> QED BY <1>1, <2>1
<1>3. ASSUME NEW c, Accepted' \subseteq Accepted \cup {c}
      PROVE  IsFiniteSet(Accepted') /\ Cardinality(Accepted') <= Cardinality(Accepted) + 1
  <2>1. /\ IsFiniteSet(Accepted')
        /\ Cardinality(Accepted') <= Cardinality(Accepted \cup {c})
    BY <1>2, <1>3, FS_Subset
  <2>2. Cardinality(Accepted') \in Nat /\ Cardinality(Accepted \cup {c}) \in Nat
    BY <1>2, <2>1, FS_CardinalityType
  <2>3. Cardinality(Accepted \cup {c}) <= Cardinality(Accepted) + 1
    BY <1>2
  <2> QED BY <1>1, <2>1, <2>2, <2>3
<1> QED BY <1>1, <1>3, FS_Subset

LEMMA AdmittingInit == Init => Admitting
<1> SUFFICES ASSUME Init PROVE Admitting
  OBVIOUS
<1>1. Accepted = {}
  BY DEF Init, ServerInit, Accepted, Calls
<1> QED BY <1>1, FS_EmptySet, ServerAssumption DEF Init, ServerInit, Admitting, Status, ServerAssumption

LEMMA AdmittingStep == ASSUME Admitting, [Next]_allVars PROVE Admitting'
<1>1. CASE UNCHANGED <<st, flushLock>>
  BY <1>1 DEF Admitting, Accepted
<1>2. ASSUME NEW c \in Calls, GoesOn(c)
      PROVE  Admitting'
  <2>1. Accepted' \subseteq Accepted
    BY <1>2 DEF GoesOn, Accepted, Admitting, Calls
  <2> QED BY <1>2, <2>1, AcceptedSize, FS_CardinalityType, ServerAssumption
          DEF GoesOn, Admitting, ServerAssumption
<1>3. ASSUME NEW c \in Calls, Admit(c)
      PROVE  Admitting'
  <2>1. Accepted' = Accepted
    BY <1>3 DEF Admit, Move, Accepted, Admitting, Calls
  <2>2. CASE flushLock' = flushLock
    BY <1>3, <2>1, <2>2 DEF Admit, Move, Admitting, Status
  <2>3. CASE flushLock' # flushLock
    <3>1. /\ Cardinality(Registered) < MaxJobs
          /\ st' = [st EXCEPT ![c] = "estimating"] /\ flushLock' = c /\ flushLock = None
          /\ c \in Flushes
      BY <1>3, <2>3 DEF Admit, Move, Admitting
    <3>2. IsFiniteSet(Registered)
      <4>1. IsFiniteSet(Flushes \cup Cleanups)
        BY ServerAssumption, FS_Union DEF ServerAssumption
      <4> QED BY <4>1, FS_Subset DEF Registered
    <3>3. Cardinality(Accepted) <= Cardinality(Registered)
      BY <3>2, FS_Subset DEF Accepted, Registered
    <3>4. Cardinality(Accepted) < MaxJobs
      BY <3>1, <3>2, <3>3, AcceptedSize, FS_CardinalityType, ServerAssumption DEF ServerAssumption
    <3>5. \A d \in Calls : st'[d] = "estimating" => d = c
      BY <3>1, ServerAssumption DEF Admitting, ServerAssumption
    <3> QED BY <2>1, <3>1, <3>4, <3>5 DEF Admitting, Status
  <2> QED BY <2>2, <2>3
<1>4. ASSUME NEW c \in Calls, Register(c)
      PROVE  Admitting'
  <2>1. /\ \E next \in {"queued", "failed"} : st' = [st EXCEPT ![c] = next]
        /\ flushLock' = None /\ st[c] = "estimating"
    BY <1>4 DEF Register, Move
  <2>2. Accepted' \subseteq Accepted \cup {c}
    BY <2>1 DEF Accepted, Admitting, Calls
  <2>3. Cardinality(Accepted) < MaxJobs
    BY <2>1, ServerAssumption DEF Admitting, ServerAssumption
  <2>4. Cardinality(Accepted') <= MaxJobs
    <3>1. /\ IsFiniteSet(Accepted')
          /\ Cardinality(Accepted') <= Cardinality(Accepted) + 1
          /\ Cardinality(Accepted) \in Nat
      BY <2>2, AcceptedSize
    <3>2. Cardinality(Accepted') \in Nat /\ MaxJobs \in Nat
      BY <3>1, FS_CardinalityType, ServerAssumption DEF ServerAssumption
    <3> QED BY <2>3, <3>1, <3>2
  <2>5. \A d \in Calls : st'[d] # "estimating"
    BY <2>1 DEF Admitting
  <2> QED BY <2>1, <2>4, <2>5 DEF Admitting, Status
<1>5. ASSUME NEW c \in Calls, Unwind(c)
      PROVE  Admitting'
  <2>1. st' = [st EXCEPT ![c] = "cancelled"] /\ flushLock' = IF flushLock = c THEN None ELSE flushLock
    BY <1>5 DEF Unwind, Move
  <2>2. Accepted' \subseteq Accepted
    BY <2>1 DEF Accepted, Admitting, Calls
  <2> QED BY <2>1, <2>2, AcceptedSize, FS_CardinalityType, ServerAssumption
          DEF Admitting, Status, ServerAssumption
<1>6. CASE UNCHANGED allVars
  BY <1>6, <1>1 DEF allVars, vars, serverVars, callVars
<1> QED BY <1>1, <1>2, <1>3, <1>4, <1>5, <1>6, StepChangesFlushes DEF FlushChange

\* session_flush never lets more than MaxJobs flushes in, although another
\* request runs between its check and its registration.
THEOREM FlushesAdmitted == Spec => []FlushAdmission
<1>1. Admitting => FlushAdmission
  BY DEF Admitting, FlushAdmission, Accepted
<1> QED BY <1>1, AdmittingInit, AdmittingStep, PTL DEF Spec

-----------------------------------------------------------------------------
\* RestAsked, strengthened over the whole life of a process: before the server
\* is up and in a viewer nothing is begun; no flush can be accepted once the
\* shutdown has begun, no clean-up once it drains; and from the moment the
\* shutdown cancels, what is registered has been asked.
NothingBegun ==
  /\ \A c \in Calls : st[c] = "new"
  /\ \A k \in Cleanups : cleanup[k] = "new"
ServerStages == {"outbox", "provider", "preload", "dimension", "lifecycle"}
Ending == {"release", "finally", "down"}
Rest ==
  /\ st \in [Calls -> Status] /\ cleanup \in [Cleanups -> {"new", "run", "over"}]
  /\ phase \in Stages \/ config.viewer => NothingBegun
  /\ phase \in ServerStages => ~config.viewer
  /\ phase = "finally" => config.viewer
  /\ phase \in Stopping \cup Ending => \A c \in Calls : st[c] \notin {"asking", "estimating"}
  /\ phase \in Ending \cup {"cancel", "cancelAgain"} => Registered \subseteq asked

USE DEF Stages, Building, Stopping, ServerStages, Ending

LEMMA RestInit == Init => Rest
  BY DEF Init, StartupInit, ServerInit, Rest, NothingBegun, Status

LEMMA NothingRegistered == ASSUME NothingBegun PROVE Registered = {}
  BY DEF NothingBegun, Registered, Calls

\* The start moves from stage to stage, up, or to a release.
LEMMA StartingMoves ==
  ASSUME Starting
  PROVE  /\ phase \in Stages /\ UNCHANGED config
         /\ phase' \in Stages \cup {"up", "release", "finally"}
         /\ phase' \in ServerStages => phase \in ServerStages \/ ~config.viewer
         /\ phase' = "finally" => config.viewer
<1>1. ASSUME NEW s, Close(s) PROVE
        UNCHANGED config /\ phase' \in {"release", "finally"} /\ (phase' = "finally" => config.viewer)
  BY <1>1 DEF Close
<1>2. ASSUME NEW n, NEW taken, Opened(n, taken) PROVE phase' = n /\ UNCHANGED config
  BY <1>2 DEF Opened
<1>3. CASE OpenGraph \/ OpenCache \/ OpenStorage \/ MakePipeline \/ Raises
  BY <1>1, <1>2, <1>3 DEF OpenGraph, OpenCache, OpenStorage, MakePipeline, Raises
<1>4. CASE StartChecker
  BY <1>2, <1>4 DEF StartChecker
<1>5. CASE MakeOutbox
  BY <1>1, <1>2, <1>5 DEF MakeOutbox
<1>6. CASE MakeProvider \/ Preload \/ CheckDimension
  BY <1>2, <1>6 DEF MakeProvider, Preload, CheckDimension
<1> QED BY <1>3, <1>4, <1>5, <1>6 DEF Starting

LEMMA StartKeepsRest == ASSUME Rest, Starting \/ Releasing, UNCHANGED serverVars PROVE Rest'
<1> USE DEF serverVars, callVars, bgVars
<1>1. Registered' = Registered /\ NothingBegun' = NothingBegun
  BY DEF Registered, NothingBegun
<1>2. CASE Starting
  <2>1. NothingBegun /\ Registered = {}
    BY <1>2, StartingMoves, NothingRegistered DEF Rest
  <2> QED BY <1>1, <1>2, <2>1, StartingMoves DEF Rest, NothingBegun
<1>3. CASE Releasing
  <2>1. phase \in {"release", "finally"} /\ phase' \in {phase, "down"} /\ UNCHANGED config
    BY <1>3 DEF Releasing, Dispose, DisposeRaises, Down
  <2> QED BY <1>1, <2>1 DEF Rest
<1> QED BY <1>2, <1>3

\* The start is over: the time-based check begins.
LEMMA ReadyKeepsRest == ASSUME Rest, Ready PROVE Rest'
<1>1. /\ phase = "lifecycle" /\ phase' = "up" /\ UNCHANGED <<config, st>>
      /\ cleanup' = [cleanup EXCEPT ![Check] = "run"]
  BY DEF Ready, StartLifecycle, Opened, callVars
<1> QED BY <1>1 DEF Rest

\* A call that has begun goes on.
LEMMA CallKeepsRest ==
  ASSUME Rest, NEW c \in Calls, NEW next \in Status,
         st' = [st EXCEPT ![c] = next],
         st[c] # "new" \/ (phase = "up" /\ ~config.viewer),
         next \in {"asking", "estimating"} =>
           st[c] = "asking" \/ (phase = "up" /\ ~config.viewer),
         next \in {"queued", "ingest", "hook"} =>
           \/ st[c] \in {"estimating", "queued", "ingest", "hook"}
           \/ phase = "up" /\ ~config.viewer,
         UNCHANGED <<phase, config, cleanup>>, asked \subseteq asked'
  PROVE  Rest'
<1>1. phase \notin Stages /\ ~config.viewer
  BY DEF Rest, NothingBegun
<1>2. phase \in Stopping \cup Ending => \A d \in Calls : st'[d] \notin {"asking", "estimating"}
  BY DEF Rest
<1>3. ASSUME phase \in Ending \cup {"cancel", "cancelAgain"} PROVE Registered' \subseteq Registered
  BY <1>3 DEF Rest, Registered, Calls
<1> QED BY <1>1, <1>2, <1>3 DEF Rest

LEMMA RestStep == ASSUME Rest, [Next]_allVars PROVE Rest'
<1> USE DEF serverVars, callVars, bgVars, startupVars
<1>1. CASE BootStep
  BY <1>1, StartKeepsRest, ReadyKeepsRest DEF BootStep
<1>2. CASE Releasing /\ UNCHANGED serverVars
  BY <1>2, StartKeepsRest
<1>3. CASE EndSession
  BY <1>3 DEF EndSession, Handled, Rest, NothingBegun
<1>4. CASE WorkerStopped
  BY <1>4 DEF WorkerStopped, Rest, NothingBegun
<1>5. CASE Drain
  <2>1. /\ phase \in {"drain", "cancel", "cancelAgain"} /\ UNCHANGED <<config, st, cleanup>>
        /\ \/ phase' \in {"cancel", "cancelAgain"} /\ asked' = asked \cup Registered
           \/ Close("up") /\ asked' = asked /\ (Registered = {} \/ phase = "cancelAgain")
    BY <1>5 DEF Drain, GoOn, Close
  <2>2. Registered' = Registered
    BY <2>1 DEF Registered
  <2> QED BY <2>1, <2>2 DEF Rest, NothingBegun, Close
<1>6. CASE WorkerBegins \/ WorkerReturns
  BY <1>6 DEF WorkerBegins, WorkerReturns, Rest, NothingBegun, Registered
<1>7. ASSUME NEW c \in Calls, Save(c) \/ Flush(c) PROVE Rest'
  <2>1. \E next \in Status : /\ st' = [st EXCEPT ![c] = next]
                             /\ phase = "up" /\ ~config.viewer
                             /\ UNCHANGED <<phase, config, cleanup, asked>>
    BY <1>7 DEF Save, Flush, Ingest, Move, Status
  <2> QED BY <2>1, CallKeepsRest
<1>8. ASSUME NEW c \in Calls, Cancel(c) PROVE Rest'
  <2>1. /\ st' = [st EXCEPT ![c] = "cancelled"] /\ st[c] # "new" /\ asked \subseteq asked'
        /\ UNCHANGED <<phase, config, cleanup>>
    BY <1>8 DEF Cancel, Unwind, Move, Handled
  <2> QED BY <2>1, CallKeepsRest DEF Status
<1>9. ASSUME NEW c \in Calls, CallStep(c) PROVE Rest'
  <2>1. CASE Admit(c) \/ Register(c) \/ Start(c) \/ Finish(c)
    <3>1. \E next \in Status :
            /\ st' = [st EXCEPT ![c] = next]
            /\ st[c] # "new"
            /\ next \in {"asking", "estimating"} => st[c] = "asking"
            /\ next \in {"queued", "ingest", "hook"} => st[c] \in {"estimating", "queued", "ingest"}
            /\ UNCHANGED <<phase, config, cleanup, asked>>
      BY <2>1 DEF Admit, Register, Start, Finish, Ingest, Move, Status
    <3> QED BY <3>1, CallKeepsRest
  <2>2. CASE Notify(c)
    <3>1. /\ st[c] = "hook" /\ st' = [st EXCEPT ![c] = "done"]
          /\ UNCHANGED <<phase, config, asked>>
      BY <2>2 DEF Notify, Move
    <3>2. CASE UNCHANGED cleanup
      BY <3>1, <3>2, CallKeepsRest DEF Status
    <3>3. CASE /\ ~ShuttingDown
               /\ \E k \in Cleanups : cleanup' = [cleanup EXCEPT ![k] = "run"]
      <4>1. phase \notin {"drain", "cancel", "cancelAgain", "release", "down"}
        BY <3>3 DEF ShuttingDown
      <4>2. phase \notin Stages /\ ~config.viewer /\ phase # "finally"
        BY <3>1 DEF Rest, NothingBegun
      <4>3. /\ st' \in [Calls -> Status] /\ cleanup' \in [Cleanups -> {"new", "run", "over"}]
            /\ phase \in Stopping => \A d \in Calls : st'[d] \notin {"asking", "estimating"}
        BY <3>1, <3>3 DEF Rest, Status
      <4> QED BY <3>1, <4>1, <4>2, <4>3 DEF Rest
    <3> QED BY <2>2, <3>2, <3>3 DEF Notify
  <2>3. CASE (\E i \in Pieces(c) : Join(c, i)) \/ (\E w \in Pieces(c) \X Tasks : Answer(c, w))
    <3>1. UNCHANGED <<phase, config, st, cleanup, asked>>
      BY <2>3 DEF Join, Answer
    <3> QED BY <3>1 DEF Rest, NothingBegun, Registered
  <2> QED BY <1>9, <2>1, <2>2, <2>3 DEF CallStep
<1>10. ASSUME NEW t \in Tasks, TaskStep(t) PROVE Rest'
  <2>1. UNCHANGED <<phase, config, st, cleanup, asked>>
    BY <1>10 DEF TaskStep, Work, Leave
  <2> QED BY <2>1 DEF Rest, NothingBegun, Registered
<1>11. ASSUME NEW x \in Flushes \cup Cleanups, JobCancelled(x) PROVE Rest'
  <2>1. CASE /\ x \in Flushes /\ Unwind(x) /\ UNCHANGED cleanup
    <3>1. /\ st' = [st EXCEPT ![x] = "cancelled"] /\ x \in Calls
          /\ UNCHANGED <<phase, config, cleanup, asked>>
      BY <1>11, <2>1 DEF JobCancelled, Unwind, Move, Calls
    <3>2. st[x] # "new"
      BY <1>11, <2>1, ServerAssumption DEF JobCancelled, Registered, ServerAssumption, Calls
    <3> QED BY <3>1, <3>2, CallKeepsRest DEF Status
  <2>2. CASE /\ x \in Cleanups /\ cleanup' = [cleanup EXCEPT ![x] = "over"] /\ UNCHANGED st
    <3>1. UNCHANGED <<phase, config, asked>>
      BY <1>11 DEF JobCancelled
    <3>2. cleanup[x] = "run"
      BY <1>11, <2>2, ServerAssumption DEF JobCancelled, Registered, ServerAssumption, Calls
    <3>3. Registered' \subseteq Registered /\ cleanup' \in [Cleanups -> {"new", "run", "over"}]
      BY <2>2 DEF Registered, Rest
    <3> QED BY <2>2, <3>1, <3>2, <3>3 DEF Rest, NothingBegun
  <2> QED BY <1>11, <2>1, <2>2 DEF JobCancelled
<1>12. ASSUME NEW k \in Cleanups, CleanupEnds(k) PROVE Rest'
  <2>1. /\ cleanup[k] = "run" /\ cleanup' = [cleanup EXCEPT ![k] = "over"]
        /\ UNCHANGED <<phase, config, st, asked>>
    BY <1>12 DEF CleanupEnds
  <2>2. Registered' \subseteq Registered /\ cleanup' \in [Cleanups -> {"new", "run", "over"}]
    BY <2>1 DEF Registered, Rest
  <2> QED BY <2>1, <2>2 DEF Rest, NothingBegun
<1>13. CASE UNCHANGED vars
  BY <1>13 DEF vars, Rest, NothingBegun, Registered
<1>14. CASE EndView /\ UNCHANGED serverVars
  <2>1. /\ config.viewer /\ UNCHANGED <<config, st, cleanup, asked>>
        /\ phase' = "finally"
    BY <1>14 DEF EndView, Close
  <2>2. NothingBegun /\ Registered = {} /\ Registered' = Registered
    BY <2>1, NothingRegistered DEF Rest, Registered
  <2> QED BY <2>1, <2>2 DEF Rest, NothingBegun
<1>15. CASE View
  BY <1>13, <1>14, <1>15 DEF View, Viewing
<1>16. CASE UNCHANGED allVars
  BY <1>13, <1>16 DEF allVars
<1> QED BY <1>1, <1>2, <1>3, <1>4, <1>5, <1>6, <1>7, <1>8, <1>9, <1>10, <1>11, <1>12, <1>15, <1>16
        DEF Next, ServerNext, Shutdown

\* The adapters are released under no flush and no clean-up that was not asked
\* to stop, whatever ends the process.
THEOREM ReleasedLast == Spec => []RestAsked
<1>1. Rest => RestAsked
  BY DEF Rest, RestAsked
<1> QED BY <1>1, RestInit, RestStep, PTL DEF Spec

-----------------------------------------------------------------------------
\* NoLeak.  What is open is known at every stage: before the provider is made
\* none is held, a checker runs beside a cache only, and a release has every
\* adapter that is open still before it.  The order of the releases matters for
\* a viewer only: the storage comes first.
Before(q) == UNION {Held(q[i]) : i \in DOMAIN q}
Known ==
  /\ open \subseteq Adapters
  /\ phase \in Building => "provider" \notin open
  /\ phase \in {"release", "finally"} => closing \in Seq(Adapters)
  /\ phase = "release" => open \subseteq Before(closing)
  /\ phase = "finally" /\ "storage" \in open => closing # <<>> /\ Head(closing) = "storage"
  /\ phase = "finally" => config.viewer
  /\ NoLeak

\* What a step can do to the adapters.
Goes == /\ UNCHANGED <<config, open, closing>>
        /\ phase' \in {"up", "stopWorker", "drain", "cancel", "cancelAgain"}
StartChange ==
  \/ UNCHANGED startupVars \/ Starting \/ Releasing \/ Goes
  \/ \E stage \in Stages \cup {"up"} :
       Close(stage) /\ (stage \in Building => "provider" \notin open)

LEMMA StepChangesStart == ASSUME [Next]_allVars PROVE StartChange
<1> USE DEF StartChange, startupVars
<1>1. CASE BootStep
  BY <1>1 DEF BootStep, Ready, StartLifecycle, Opened, Goes
<1>2. CASE Releasing /\ UNCHANGED serverVars
  BY <1>2
<1>3. CASE EndSession
  BY <1>3 DEF EndSession, Goes
<1>4. CASE Shutdown
  <2>1. CASE WorkerStopped
    BY <2>1 DEF WorkerStopped, Goes
  <2>2. CASE Drain
    BY <2>2 DEF Drain, GoOn, Goes
  <2> QED BY <1>4, <2>1, <2>2 DEF Shutdown
<1>5. CASE WorkerBegins \/ WorkerReturns
  BY <1>5 DEF WorkerBegins, WorkerReturns
<1>6. ASSUME NEW c \in Calls, Save(c) \/ Flush(c) \/ Cancel(c)
      PROVE  UNCHANGED startupVars
  BY <1>6 DEF Save, Flush, Cancel
<1>7. ASSUME NEW c \in Calls, CallStep(c)
      PROVE  UNCHANGED startupVars
  BY <1>7 DEF CallStep, Admit, Register, Start, Finish, Notify, Join, Answer
<1>8. ASSUME NEW t \in Tasks, TaskStep(t)
      PROVE  UNCHANGED startupVars
  BY <1>8 DEF TaskStep, Work, Leave
<1>9. ASSUME NEW x \in Flushes \cup Cleanups, JobCancelled(x)
      PROVE  UNCHANGED startupVars
  BY <1>9 DEF JobCancelled
<1>10. ASSUME NEW k \in Cleanups, CleanupEnds(k)
       PROVE  UNCHANGED startupVars
  BY <1>10 DEF CleanupEnds
<1>11. CASE View
  BY <1>11 DEF View, Viewing, EndView, vars
<1>12. CASE UNCHANGED allVars
  BY <1>12 DEF allVars, vars
<1> QED BY <1>1, <1>2, <1>3, <1>4, <1>5, <1>6, <1>7, <1>8, <1>9, <1>10, <1>11, <1>12
        DEF Next, ServerNext

LEMMA CloseType == ASSUME NEW stage, Close(stage) PROVE closing' \in Seq(Adapters)
<1>1. \A a, b, c \in Adapters : <<a, b, c>> \in Seq(Adapters)
  OBVIOUS
<1>2. \A a, b, c, d \in Adapters : <<a, b, c, d>> \in Seq(Adapters)
  OBVIOUS
<1>3. {"graph", "cache", "storage", "provider"} \subseteq Adapters
  BY DEF Adapters
<1>4. closing' \in {<<"cache", "graph", "storage">>, <<"storage", "graph", "cache">>,
                    <<"storage", "graph", "cache", "provider">>}
  BY DEF Close, ReleaseOrder
<1>5. /\ <<"cache", "graph", "storage">> \in Seq(Adapters)
      /\ <<"storage", "graph", "cache">> \in Seq(Adapters)
      /\ <<"storage", "graph", "cache", "provider">> \in Seq(Adapters)
  BY <1>1, <1>2, <1>3, Zenon
<1> QED BY <1>4, <1>5, Zenon

LEMMA CloseKeepsKnown ==
  ASSUME Known, NEW stage \in Stages \cup {"up"}, Close(stage),
         stage \in Building => "provider" \notin open
  PROVE  Known'
<1>1. closing' \in Seq(Adapters)
  BY CloseType
<1>2. /\ Before(<<"cache", "graph", "storage">>) = Adapters \ {"provider"}
      /\ Before(<<"storage", "graph", "cache", "provider">>) = Adapters
  BY DEF Before, Held, Adapters
<1>3. CASE phase' = "release"
  <2>1. open' = open /\ open \subseteq Before(closing')
    BY <1>2, <1>3 DEF Close, ReleaseOrder, Known
  <2> QED BY <1>1, <1>3, <2>1 DEF Known, NoLeak, Close
<1>4. CASE phase' = "finally"
  <2>1. /\ closing' = <<"storage", "graph", "cache">> /\ UNCHANGED <<config, open>>
        /\ config.viewer
    BY <1>4 DEF Close, ReleaseOrder
  <2> QED BY <1>1, <1>4, <2>1 DEF Known, NoLeak
<1> QED BY <1>3, <1>4 DEF Close

LEMMA StartingKeepsKnown == ASSUME Known, Starting PROVE Known'
<1>1. ASSUME NEW next \in Stages \cup {"up"}, NEW taken \in SUBSET Adapters, Opened(next, taken),
             phase \in Stages,
             next \in Building => phase \in Building /\ "provider" \notin taken
      PROVE  Known'
  BY <1>1 DEF Opened, Known, NoLeak
<1>2. ASSUME Close(phase), phase \in Stages
      PROVE  Known'
  BY <1>2, CloseKeepsKnown DEF Known
<1> USE DEF Adapters
<1>3. CASE OpenGraph
  BY <1>1, <1>2, <1>3 DEF OpenGraph
<1>4. CASE OpenCache
  BY <1>1, <1>4 DEF OpenCache
<1>5. CASE OpenStorage
  BY <1>1, <1>5 DEF OpenStorage
<1>6. CASE StartChecker
  BY <1>1, <1>6 DEF StartChecker
<1>7. CASE MakeOutbox
  BY <1>1, <1>2, <1>7 DEF MakeOutbox
<1>8. CASE MakeProvider
  BY <1>1, <1>8 DEF MakeProvider
<1>9. CASE Preload \/ CheckDimension
  BY <1>1, <1>9 DEF Preload, CheckDimension
<1>10. CASE MakePipeline
  BY <1>1, <1>10 DEF MakePipeline
<1>11. CASE Raises
  BY <1>2, <1>11 DEF Raises
<1> QED BY <1>3, <1>4, <1>5, <1>6, <1>7, <1>8, <1>9, <1>10, <1>11 DEF Starting

\* The head of what is to be released goes, and with the cache its checker.
LEMMA HeadGoes ==
  ASSUME NEW q \in Seq(Adapters), q # <<>>
  PROVE  Tail(q) \in Seq(Adapters) /\ Before(q) \subseteq Held(Head(q)) \cup Before(Tail(q))
<1>1. ASSUME NEW i \in DOMAIN q
      PROVE  q[i] = Head(q) \/ \E j \in DOMAIN Tail(q) : q[i] = Tail(q)[j]
  <2>1. CASE i = 1
    BY <2>1
  <2>2. CASE i # 1
    <3>1. i - 1 \in DOMAIN Tail(q) /\ Tail(q)[i - 1] = q[i]
      BY <2>2
    <3> QED BY <3>1
  <2> QED BY <2>1, <2>2
<1> QED BY <1>1 DEF Before

LEMMA ReleasingKeepsKnown == ASSUME Known, Releasing PROVE Known'
<1>1. CASE Dispose
  <2>1. /\ closing \in Seq(Adapters) /\ closing # <<>> /\ closing' = Tail(closing)
        /\ open' = open \ Held(Head(closing)) /\ UNCHANGED <<config, phase>>
        /\ phase \in {"release", "finally"}
    BY <1>1 DEF Dispose, Known
  <2>2. closing' \in Seq(Adapters) /\ open' \subseteq Adapters
    BY <2>1, HeadGoes DEF Known
  <2>3. phase = "release" => open' \subseteq Before(closing')
    BY <2>1, HeadGoes DEF Known
  <2>4. phase = "finally" => "storage" \notin open'
    BY <2>1 DEF Known, Held
  <2> QED BY <2>1, <2>2, <2>3, <2>4 DEF Known, NoLeak
<1>2. CASE DisposeRaises
  <2>1. "storage" \notin open' /\ open' \subseteq open /\ UNCHANGED <<config, phase>>
        /\ phase = "finally" /\ closing' = <<>>
    BY <1>2 DEF DisposeRaises, Known, Held
  <2> QED BY <2>1 DEF Known, NoLeak
<1>3. CASE Down
  <2>1. phase = "release" => open = {}
    BY <1>3 DEF Down, Known, Before
  <2>2. "storage" \notin open
    BY <1>3, <2>1 DEF Down, Known
  <2> QED BY <1>3, <2>1, <2>2 DEF Down, Known, NoLeak
<1> QED BY <1>1, <1>2, <1>3 DEF Releasing

LEMMA KnownInit == Init => Known
  BY DEF Init, StartupInit, Known, NoLeak

LEMMA KnownStep == ASSUME Known, [Next]_allVars PROVE Known'
<1>1. CASE UNCHANGED startupVars
  BY <1>1 DEF startupVars, Known, NoLeak
<1>2. CASE Goes
  BY <1>2 DEF Goes, Known, NoLeak
<1> QED BY <1>1, <1>2, StepChangesStart, StartingKeepsKnown, ReleasingKeepsKnown, CloseKeepsKnown
        DEF StartChange

\* A process that could not start, or was stopped, has released what it opened,
\* at whichever stage a call raised.
THEOREM NothingLeaks == Spec => []NoLeak
<1>1. Known => NoLeak
  BY DEF Known
<1> QED BY <1>1, KnownInit, KnownStep, PTL DEF Spec

-----------------------------------------------------------------------------
\* The stream of the dashboard.  StreamInOrder follows from the order of the line
\* of messages on their way to a client, those it received at its head: every step
\* appends the highest number, drops a message, or moves one along the line.  A
\* number stands in it no more than Copies times because its copies are appended
\* at once and never drift apart.
LEMMA Least == ASSUME NEW S \in SUBSET Nat, S # {} PROVE \E m \in S : \A n \in S : m <= n
<1> DEFINE Less == {ss \in Nat \X Nat : ss[1] < ss[2]}
<1>1. IsWellFoundedOn(Less, Nat)
  BY NatLessThanWellFounded DEF OpToRel
<1>2. \E m \in S : \A n \in S : ~ (<<n, m>> \in Less)
  <2> HIDE DEF Less
  <2> QED BY <1>1, WFMin
<1>3. \A n, m \in Nat : n < m => <<n, m>> \in Less
  OBVIOUS
<1> HIDE DEF Less
<1>4. PICK m \in S : \A n \in S : <<n, m>> \notin Less
  BY <1>2
<1>5. \A n \in S : ~(n < m)
  BY <1>3, <1>4
<1>6. \A n \in S : m <= n
  BY <1>5
<1> QED BY <1>6

\* Numbers less than w apart are no more than w.
LEMMA Narrow ==
  ASSUME NEW K \in SUBSET Nat, NEW w \in Nat \ {0}, \A i, j \in K : i < j => j - i < w
  PROVE  Cardinality(K) <= w
<1>1. CASE K = {}
  BY <1>1, FS_EmptySet
<1>2. CASE K # {}
  <2>1. PICK m \in K : \A n \in K : m <= n
    BY <1>2, Least
  <2>2. K \subseteq m..(m + w - 1)
    <3> SUFFICES ASSUME NEW k \in K PROVE k \in m..(m + w - 1)
      OBVIOUS
    <3> QED BY <2>1
  <2>3. IsFiniteSet(m..(m + w - 1)) /\ Cardinality(m..(m + w - 1)) = w
    <3>1. m \in Int /\ m + w - 1 \in Int /\ ~ (m > m + w - 1)
      BY <2>1
    <3> QED BY <3>1, FS_Interval
  <2> QED BY <2>2, <2>3, FS_Subset
<1> QED BY <1>1, <1>2

Ordered(s) ==
  \A i, j \in 1..Len(s) : i < j => s[i] <= s[j] /\ (s[i] = s[j] => j - i < Copies)

\* The order outlives a message that is dropped ...
LEMMA OrderedDrop ==
  ASSUME NEW s \in Seq(Nat), Ordered(s), NEW t \in Seq(Nat), NEW p \in Nat, Len(t) = Len(s) - 1,
         \A i \in 1..Len(t) : t[i] = IF i < p THEN s[i] ELSE s[i + 1]
  PROVE  Ordered(t)
<1>1. Copies \in Nat /\ Len(s) \in Nat /\ Len(t) \in Nat
  BY LogAssumption DEF LogAssumption
<1> SUFFICES ASSUME NEW i \in 1..Len(t), NEW j \in 1..Len(t), i < j
             PROVE  t[i] <= t[j] /\ (t[i] = t[j] => j - i < Copies)
  BY DEF Ordered
<1>2. i \in Nat /\ j \in Nat /\ i >= 1 /\ j <= Len(s) - 1 /\ Len(t) = Len(s) - 1
  BY <1>1
<1>3. \E a, b \in 1..Len(s) : a < b /\ j - i <= b - a /\ t[i] = s[a] /\ t[j] = s[b]
  <2>1. i \in 1..Len(s) /\ i + 1 \in 1..Len(s) /\ j \in 1..Len(s) /\ j + 1 \in 1..Len(s)
    BY <1>1, <1>2
  <2>0. /\ t[i] = IF i < p THEN s[i] ELSE s[i + 1]
        /\ t[j] = IF j < p THEN s[j] ELSE s[j + 1]
    OBVIOUS
  <2>2. CASE j < p
    <3>0. i < p
      BY <1>2, <2>2
    <3>1. t[i] = s[i] /\ t[j] = s[j]
      BY <2>0, <2>2, <3>0
    <3>2. i < j /\ j - i <= j - i
      BY <1>2
    <3> WITNESS i \in 1..Len(s), j \in 1..Len(s)
    <3> QED BY <3>1, <3>2
  <2>3. CASE ~(j < p) /\ i < p
    <3>1. t[i] = s[i] /\ t[j] = s[j + 1]
      BY <2>0, <2>3
    <3>2. i < j + 1 /\ j - i <= (j + 1) - i
      BY <1>2
    <3> WITNESS i \in 1..Len(s), j + 1 \in 1..Len(s)
    <3> QED BY <3>1, <3>2
  <2>4. CASE ~(i < p)
    <3>1. t[i] = s[i + 1] /\ t[j] = s[j + 1] /\ i + 1 < j + 1 /\ j - i <= (j + 1) - (i + 1)
      <4>1. ~(j < p) /\ i + 1 < j + 1 /\ j - i = (j + 1) - (i + 1)
        BY <1>2, <2>4
      <4>2. j - i <= j - i
        BY <1>2
      <4> QED BY <2>0, <2>4, <4>1, <4>2
    <3> WITNESS i + 1 \in 1..Len(s), j + 1 \in 1..Len(s)
    <3> QED BY <3>1
  <2> QED BY <2>2, <2>3, <2>4
<1>4. PICK a \in 1..Len(s), b \in 1..Len(s) : a < b /\ j - i <= b - a /\ t[i] = s[a] /\ t[j] = s[b]
  BY <1>3
<1>5. s[a] <= s[b] /\ (s[a] = s[b] => b - a < Copies)
  BY <1>4 DEF Ordered
<1> QED BY <1>1, <1>2, <1>4, <1>5

\* ... and the copies of a new one.
LEMMA OrderedExtend ==
  ASSUME NEW n \in Nat, NEW s \in Seq(1..n), Ordered(s)
  PROVE  Ordered(s \o Times(n + 1)) /\ Len(Times(n + 1)) = Copies /\ Times(n + 1) \in Seq(1..(n + 1))
<1>1. Copies \in Nat /\ Len(s) \in Nat
  BY LogAssumption DEF LogAssumption
<1> DEFINE new == Times(n + 1)
<1>2. new \in Seq(1..(n + 1)) /\ Len(new) = Copies /\ \A i \in 1..Copies : new[i] = n + 1
  BY <1>1 DEF Times
<1> DEFINE t == s \o new
<1>3. /\ Len(t) = Len(s) + Copies
      /\ \A i \in 1..Len(t) : t[i] = IF i <= Len(s) THEN s[i] ELSE n + 1
  <2> HIDE DEF new
  <2> QED BY <1>1, <1>2
<1>4. \A i \in 1..Len(s) : s[i] \in 1..n
  OBVIOUS
<1> HIDE DEF new, t
<1>5. ASSUME NEW i \in 1..Len(t), NEW j \in 1..Len(t), i < j
      PROVE  t[i] <= t[j] /\ (t[i] = t[j] => j - i < Copies)
  <2>1. CASE j <= Len(s)
    <3>1. i \in 1..Len(s) /\ j \in 1..Len(s) /\ t[i] = s[i] /\ t[j] = s[j]
      BY <1>1, <1>3, <1>5, <2>1
    <3> QED BY <1>5, <3>1 DEF Ordered
  <2>2. CASE i <= Len(s) /\ j > Len(s)
    BY <1>1, <1>3, <1>4, <1>5, <2>2
  <2>3. CASE i > Len(s)
    <3>1. i \in Nat /\ j \in Nat /\ j <= Len(s) + Copies
      BY <1>1, <1>3
    <3>2. t[i] = n + 1 /\ t[j] = n + 1
      BY <1>1, <1>3, <1>5, <2>3, <3>1
    <3>3. j - i < Copies
      BY <1>1, <2>3, <3>1
    <3> QED BY <3>2, <3>3
  <2> QED BY <1>1, <1>3, <1>5, <2>1, <2>2, <2>3
<1> QED BY <1>2, <1>5 DEF Ordered, new, t

LEMMA Associative == \A s, t, u \in Seq(Nat) : /\ (s \o t) \o u = s \o (t \o u)
                                             /\ s \o (t \o u) = (s \o t) \o u
<1> SUFFICES ASSUME NEW s \in Seq(Nat), NEW t \in Seq(Nat), NEW u \in Seq(Nat)
             PROVE  (s \o t) \o u = s \o (t \o u)
  BY Zenon
<1> QED BY ConcatAssociative

LEMMA HeadAndTail ==
  ASSUME NEW s \in Seq(Nat), s # <<>>
  PROVE  s = <<Head(s)>> \o Tail(s)
<1>1. /\ Head(s) \in Nat /\ Tail(s) \in Seq(Nat) /\ Len(Tail(s)) = Len(s) - 1 /\ Head(s) = s[1]
      /\ \A i \in 1..Len(Tail(s)) : Tail(s)[i] = s[i + 1]
      /\ Len(s) \in Nat /\ Len(s) >= 1
  BY HeadTailProperties
<1> DEFINE h == <<Head(s)>>
           l == Tail(s)
<1>2. h \in Seq(Nat) /\ Len(h) = 1 /\ h[1] = s[1]
  BY <1>1
<1> HIDE DEF h, l
<1>3. /\ h \o l \in Seq(Nat) /\ Len(h \o l) = Len(s)
      /\ \A i \in 1..Len(s) : (h \o l)[i] = IF i <= 1 THEN h[i] ELSE l[i - 1]
  <2>1. l \in Seq(Nat) /\ Len(l) = Len(s) - 1
    BY <1>1 DEF l
  <2>2. /\ h \o l \in Seq(Nat) /\ Len(h \o l) = Len(h) + Len(l)
        /\ \A i \in 1..(Len(h) + Len(l)) : (h \o l)[i] = IF i <= Len(h) THEN h[i] ELSE l[i - Len(h)]
    BY <1>2, <2>1, ConcatProperties, Zenon
  <2>3. Len(h) + Len(l) = Len(s)
    BY <1>1, <1>2, <2>1
  <2> QED BY <1>2, <2>2, <2>3
<1>4. ASSUME NEW i \in 1..Len(s) PROVE (h \o l)[i] = s[i]
  <2>1. CASE i = 1
    BY <1>2, <1>3, <2>1
  <2>2. CASE i # 1
    <3>1. i - 1 \in 1..Len(l) /\ (h \o l)[i] = l[i - 1] /\ (i - 1) + 1 = i
      BY <1>1, <1>3, <2>2 DEF l
    <3> QED BY <1>1, <3>1 DEF l
  <2> QED BY <2>1, <2>2
<1>5. h \o l = s
  BY <1>3, <1>4, SeqEqual
<1> QED BY <1>5 DEF h, l

\* The line of messages on their way to a client, rearranged by a delivery ...
LEMMA AppendedLine ==
  ASSUME NEW r \in Seq(Nat), NEW x \in Nat
  PROVE  Append(r, x) \o <<>> = r \o <<x>>
BY AppendProperties, AppendIsConcat, ConcatEmptySeq

\* ... by a take ...
LEMMA TakenLine ==
  ASSUME NEW r \in Seq(Nat), NEW q \in Seq(Nat), q # <<>>
  PROVE  (r \o <<>>) \o q = (r \o <<Head(q)>>) \o Tail(q)
<1>1. q = <<Head(q)>> \o Tail(q) /\ <<Head(q)>> \in Seq(Nat) /\ Tail(q) \in Seq(Nat)
  BY HeadAndTail, HeadTailProperties
<1>2. r \o (<<Head(q)>> \o Tail(q)) = (r \o <<Head(q)>>) \o Tail(q)
  BY <1>1, Associative, Zenon
<1>3. r \o <<>> = r
  BY ConcatEmptySeq
<1> QED BY <1>1, <1>2, <1>3

\* ... by a put ...
LEMMA PutLine ==
  ASSUME NEW r \in Seq(Nat), NEW q \in Seq(Nat), NEW p \in Seq(Nat), p # <<>>
  PROVE  (r \o q) \o p = (r \o Append(q, Head(p))) \o Tail(p)
<1>1. /\ p = <<Head(p)>> \o Tail(p) /\ <<Head(p)>> \in Seq(Nat) /\ Tail(p) \in Seq(Nat)
      /\ Append(q, Head(p)) = q \o <<Head(p)>>
  BY HeadAndTail, HeadTailProperties, AppendIsConcat
<1>2. r \o q \in Seq(Nat)
  BY ConcatProperties
<1>3. (r \o q) \o (<<Head(p)>> \o Tail(p)) = ((r \o q) \o <<Head(p)>>) \o Tail(p)
  BY <1>1, <1>2, Associative, Zenon
<1>4. (r \o q) \o <<Head(p)>> = r \o (q \o <<Head(p)>>)
  BY <1>1, Associative, Zenon
<1> QED BY <1>1, <1>3, <1>4, Zenon

\* ... and with a message less.
LEMMA FlightLost ==
  ASSUME NEW r \in Seq(Nat), NEW q \in Seq(Nat), NEW p \in Seq(Nat), NEW x \in Nat,
         Ordered(((r \o <<x>>) \o q) \o p)
  PROVE  Ordered(((r \o <<>>) \o q) \o p)
<1> DEFINE s == ((r \o <<x>>) \o q) \o p
           t == ((r \o <<>>) \o q) \o p
           k == Len(r) + 1
<1>1. /\ s \in Seq(Nat) /\ t \in Seq(Nat) /\ Len(t) = Len(s) - 1 /\ k \in Nat
      /\ Len(t) = Len(r) + Len(q) + Len(p)
  OBVIOUS
<1>2. \A i \in 1..Len(t) : t[i] = IF i < k THEN s[i] ELSE s[i + 1]
  OBVIOUS
<1> HIDE DEF s, t, k
<1>3. Ordered(t)
  BY <1>1, <1>2, OrderedDrop DEF s
<1> QED BY <1>3 DEF t

LEMMA OldestLost ==
  ASSUME NEW r \in Seq(Nat), NEW q \in Seq(Nat), NEW p \in Seq(Nat), q # <<>>,
         Ordered((r \o q) \o p)
  PROVE  Ordered((r \o Tail(q)) \o p)
<1> DEFINE s == (r \o q) \o p
           t == (r \o Tail(q)) \o p
           k == Len(r) + 1
<1>0. Tail(q) \in Seq(Nat) /\ Len(Tail(q)) = Len(q) - 1 /\ \A i \in 1..(Len(q) - 1) : Tail(q)[i] = q[i + 1]
      /\ Len(q) >= 1
  OBVIOUS
<1>1. /\ s \in Seq(Nat) /\ t \in Seq(Nat) /\ Len(t) = Len(s) - 1 /\ k \in Nat
  BY <1>0
<1>2. \A i \in 1..Len(t) : t[i] = IF i < k THEN s[i] ELSE s[i + 1]
  BY <1>0
<1> HIDE DEF s, t, k
<1>3. Ordered(t)
  BY <1>1, <1>2, OrderedDrop DEF s
<1> QED BY <1>3 DEF t

InFlight(c) == IF c \in awaiting THEN <<sending>> ELSE <<>>
Line(c) == ((received[c] \o InFlight(c)) \o queue) \o pending
Streaming ==
  /\ logged \in Nat /\ own \subseteq 1..logged /\ sending \in 0..logged
  /\ queue \in Seq(1..logged) /\ pending \in Seq(1..logged)
  /\ received \in [Clients -> Seq(1..logged)]
  /\ Len(queue) <= Capacity /\ Len(pending) <= logged * Copies
  /\ clients \subseteq Clients /\ awaiting \subseteq Clients
  /\ consumer \in {"off", "on", "stopped"}
  /\ sending = 0 <=> awaiting = {}
  /\ \A c \in Clients : Ordered(Line(c))

LEMMA NatSeq == ASSUME NEW n \in Nat, NEW s \in Seq(1..n) PROVE s \in Seq(Nat)
  BY SeqMonotonic

\* Everything on its way to a client is a number so far.
LEMMA LineType ==
  ASSUME Streaming, NEW c \in Clients
  PROVE  /\ Line(c) \in Seq(1..logged) /\ Ordered(Line(c))
         /\ received[c] \in Seq(Nat) /\ queue \in Seq(Nat) /\ pending \in Seq(Nat)
         /\ InFlight(c) \in Seq(Nat) /\ sending \in Nat
<1>1. /\ received[c] \in Seq(1..logged) /\ queue \in Seq(1..logged) /\ pending \in Seq(1..logged)
      /\ logged \in Nat /\ sending \in 0..logged
  BY DEF Streaming
<1>2. InFlight(c) \in Seq(1..logged)
  <2>1. CASE c \in awaiting
    BY <1>1, <2>1 DEF InFlight, Streaming
  <2>2. CASE c \notin awaiting
    BY <2>2 DEF InFlight
  <2> QED BY <2>1, <2>2
<1>3. Line(c) \in Seq(1..logged)
  BY <1>1, <1>2, ConcatProperties DEF Line
<1> QED BY <1>1, <1>2, <1>3, NatSeq DEF Streaming

LEMMA StreamingInit == ASSUME LogInit PROVE Streaming
<1>1. \A c \in Clients : Line(c) = <<>>
  BY DEF LogInit, Line, InFlight
<1>2. Ordered(<<>>)
  BY DEF Ordered
<1> QED BY <1>1, <1>2, LogAssumption DEF LogInit, Streaming, LogAssumption

\* A new record, or a warning of the queue, is the highest number.
LEMMA Grows == 
  ASSUME Streaming
  PROVE  /\ logged + 1 \in Nat /\ (logged + 1) * Copies = logged * Copies + Copies
         /\ logged * Copies <= (logged + 1) * Copies
         /\ \A s \in Seq(1..logged) : s \in Seq(1..(logged + 1))
         /\ received \in [Clients -> Seq(1..(logged + 1))]
<1>1. logged \in Nat /\ Copies \in Nat
  BY LogAssumption DEF Streaming, LogAssumption
<1>2. (logged + 1) * Copies = logged * Copies + Copies /\ logged * Copies \in Nat
  BY <1>1
<1>3. \A s \in Seq(1..logged) : s \in Seq(1..(logged + 1))
  BY <1>1, SeqMonotonic
<1> QED BY <1>1, <1>2, <1>3 DEF Streaming

LEMMA StreamingEmit == ASSUME Streaming, Emit PROVE Streaming'
<1>1. /\ logged' = logged + 1
      /\ UNCHANGED <<own, queue, consumer, clients, sending, awaiting, received>>
  BY DEF Emit
<1>2. /\ logged \in Nat /\ queue \in Seq(1..logged) /\ pending \in Seq(1..logged)
      /\ Len(pending) <= logged * Copies /\ Copies \in Nat
  BY LogAssumption DEF Streaming, LogAssumption
<1>3. \A c \in Clients : InFlight(c)' = InFlight(c) /\ received'[c] = received[c]
  BY <1>1 DEF InFlight
<1>4. CASE UNCHANGED pending
  <2>1. \A c \in Clients : Ordered(Line(c))'
    BY <1>1, <1>3, <1>4 DEF Line, Streaming
  <2>2. Len(pending') <= logged' * Copies
    BY <1>1, <1>2, <1>4, Grows
  <2> QED BY <1>1, <1>2, <1>4, <2>1, <2>2, Grows DEF Streaming
<1>5. CASE pending' = pending \o Times(logged + 1)
  <2>1. Times(logged + 1) \in Seq(1..(logged + 1)) /\ Len(Times(logged + 1)) = Copies
    <3>1. <<>> \in Seq(1..logged) /\ Ordered(<<>>)
      BY DEF Ordered
    <3> QED BY <1>2, <3>1, OrderedExtend
  <2>2. pending' \in Seq(1..(logged + 1)) /\ Len(pending') = Len(pending) + Copies
    <3>1. pending \in Seq(1..(logged + 1))
      BY <1>2, SeqMonotonic
    <3> QED BY <1>2, <1>5, <2>1, <3>1, ConcatProperties
  <2>3. ASSUME NEW c \in Clients PROVE Ordered(Line(c))'
    <3>1. Line(c)' = Line(c) \o Times(logged + 1)
      <4>1. Times(logged + 1) \in Seq(Nat)
        BY <1>2, <2>1, NatSeq, Grows
      <4>2. received[c] \o InFlight(c) \in Seq(Nat) /\ queue \in Seq(Nat) /\ pending \in Seq(Nat)
        BY LineType
      <4> DEFINE f == received[c] \o InFlight(c)
                 n == Times(logged + 1)
      <4>3. (f \o queue) \o (pending \o n) = ((f \o queue) \o pending) \o n
        <5> HIDE DEF f, n
        <5>1. f \in Seq(Nat) /\ n \in Seq(Nat) /\ 0 \in Nat
          BY <4>1, <4>2 DEF f, n
        <5>2. f \o queue \in Seq(Nat)
          BY <4>2, <5>1, ConcatProperties
        <5> QED BY <4>2, <5>1, <5>2, Associative, Zenon
      <4> QED BY <1>1, <1>3, <1>5, <4>3 DEF Line
    <3> QED BY <1>2, <3>1, LineType, OrderedExtend
  <2>4. Len(pending') <= logged' * Copies
    <3>1. Len(pending) \in Nat /\ logged * Copies \in Nat
      BY <1>2
    <3> QED BY <1>1, <1>2, <2>2, <3>1, Grows
  <2> QED BY <1>1, <1>2, <2>2, <2>3, <2>4, Grows DEF Streaming
<1> QED BY <1>4, <1>5 DEF Emit

LEMMA StreamingPut == ASSUME Streaming, Put PROVE Streaming'
<1> DEFINE F(c) == received[c] \o InFlight(c)
<1>1. /\ pending # <<>> /\ UNCHANGED <<consumer, clients, sending, awaiting, received>>
  BY DEF Put
<1>2. /\ logged \in Nat /\ queue \in Seq(1..logged) /\ pending \in Seq(1..logged)
      /\ Len(pending) <= logged * Copies /\ Copies \in Nat /\ logged * Copies \in Nat
      /\ Len(queue) <= Capacity /\ Capacity \in Nat \ {0}
  BY LogAssumption DEF Streaming, LogAssumption
<1>3. \A c \in Clients : InFlight(c)' = InFlight(c) /\ received'[c] = received[c]
  BY <1>1 DEF InFlight
<1>4. /\ Head(pending) \in 1..logged /\ Tail(pending) \in Seq(1..logged)
      /\ Len(Tail(pending)) = Len(pending) - 1
  BY <1>1, <1>2, HeadTailProperties
<1>5. ASSUME NEW c \in Clients
      PROVE  F(c) \in Seq(Nat) /\ F(c) \in Seq(1..logged) /\ queue \in Seq(Nat) /\ pending \in Seq(Nat)
  <2>1. received[c] \in Seq(1..logged) /\ InFlight(c) \in Seq(1..logged)
    <3>1. CASE c \in awaiting
      BY <1>2, <3>1 DEF Streaming, InFlight
    <3>2. CASE c \notin awaiting
      BY <3>2 DEF Streaming, InFlight
    <3> QED BY <3>1, <3>2
  <2> QED BY <1>2, <2>1, LineType, ConcatProperties, NatSeq
<1>6. CASE /\ Len(queue) < Capacity /\ queue' = Append(queue, Head(pending))
           /\ pending' = Tail(pending) /\ UNCHANGED <<logged, own>>
  <2>1. queue' \in Seq(1..logged) /\ Len(queue') = Len(queue) + 1
    BY <1>2, <1>4, <1>6, AppendProperties
  <2>2. ASSUME NEW c \in Clients PROVE Ordered(Line(c))'
    <3>1. Line(c)' = (F(c) \o Append(queue, Head(pending))) \o Tail(pending)
      BY <1>3, <1>6 DEF Line
    <3>2. Line(c) = (F(c) \o queue) \o pending
      BY DEF Line
    <3>3. (F(c) \o queue) \o pending = (F(c) \o Append(queue, Head(pending))) \o Tail(pending)
      <4> HIDE DEF F
      <4> QED BY <1>1, <1>5, PutLine
    <3>4. Line(c)' = Line(c)
      BY <3>1, <3>2, <3>3, Zenon
    <3> QED BY <3>4, LineType
  <2> HIDE DEF F
  <2>3. Len(queue') <= Capacity /\ Len(pending') <= logged' * Copies
    BY <1>2, <1>4, <1>6, <2>1
  <2> QED BY <1>1, <1>2, <1>4, <1>6, <2>1, <2>2, <2>3 DEF Streaming
<1>7. CASE /\ logged' = logged + 1 /\ own' = own \cup {logged + 1} /\ ~(Len(queue) < Capacity)
           /\ queue' = Append(Tail(queue), Head(pending))
           /\ pending' = Tail(pending) \o Times(logged + 1)
  <2> DEFINE new == Times(logged + 1)
  <2>1. new \in Seq(1..(logged + 1)) /\ Len(new) = Copies /\ new \in Seq(Nat)
    <3>1. <<>> \in Seq(1..logged) /\ Ordered(<<>>)
      BY DEF Ordered
    <3> QED BY <1>2, <3>1, OrderedExtend, NatSeq, Grows
  <2>2. queue # <<>> /\ Tail(queue) \in Seq(1..logged) /\ Len(Tail(queue)) = Len(queue) - 1
    <3>1. queue # <<>>
      BY <1>2, <1>7
    <3> QED BY <1>2, <3>1, HeadTailProperties
  <2> HIDE DEF new
  <2>3. queue' \in Seq(1..logged) /\ Len(queue') = Len(queue)
    <3>1. Len(queue) \in Nat
      BY <1>2
    <3> QED BY <1>2, <1>4, <1>7, <2>2, <3>1, AppendProperties
  <2>4. pending' \in Seq(1..(logged + 1)) /\ Len(pending') = Len(pending) - 1 + Copies
    <3>1. Tail(pending) \in Seq(1..(logged + 1))
      BY <1>2, <1>4, Grows
    <3> QED BY <1>4, <1>7, <2>1, <3>1, ConcatProperties DEF new
  <2>5. ASSUME NEW c \in Clients PROVE Ordered(Line(c))'
    <3> DEFINE rest == (F(c) \o Tail(queue)) \o pending
    <3>1. Line(c)' = (F(c) \o Append(Tail(queue), Head(pending))) \o (Tail(pending) \o new)
      BY <1>3, <1>7 DEF Line, new
    <3>2. /\ F(c) \in Seq(Nat) /\ Tail(queue) \in Seq(Nat) /\ Tail(pending) \in Seq(Nat)
          /\ Append(Tail(queue), Head(pending)) \in Seq(Nat) /\ queue \in Seq(Nat) /\ pending \in Seq(Nat)
      <4>1. Head(pending) \in Nat
        BY <1>2, <1>4
      <4> QED BY <1>2, <1>4, <1>5, <2>2, <4>1, NatSeq, AppendProperties
    <3>3. (F(c) \o Append(Tail(queue), Head(pending))) \o (Tail(pending) \o new)
            = ((F(c) \o Append(Tail(queue), Head(pending))) \o Tail(pending)) \o new
      <4> HIDE DEF F
      <4>1. F(c) \o Append(Tail(queue), Head(pending)) \in Seq(Nat)
        BY <3>2, ConcatProperties
      <4> QED BY <2>1, <3>2, <4>1, Associative, Zenon
    <3>4. (F(c) \o Append(Tail(queue), Head(pending))) \o Tail(pending) = rest
      <4> HIDE DEF F
      <4> QED BY <1>1, <3>2, PutLine
    <3>5. Ordered(rest)
      <4>1. Ordered((F(c) \o queue) \o pending)
        BY LineType DEF Line
      <4> HIDE DEF F
      <4> QED BY <2>2, <3>2, <4>1, OldestLost
    <3>6. rest \in Seq(1..logged)
      <4> HIDE DEF F
      <4> QED BY <1>2, <1>5, <2>2, ConcatProperties
    <3> HIDE DEF rest
    <3>7. Ordered(rest \o new)
      BY <1>2, <3>5, <3>6, OrderedExtend DEF new
    <3>8. Line(c)' = rest \o new
      BY <3>1, <3>3, <3>4, Zenon
    <3> QED BY <3>7, <3>8
  <2> HIDE DEF F
  <2>6. Len(pending') <= logged' * Copies /\ Len(queue') <= Capacity
    <3>1. Len(pending) \in Nat /\ Len(queue) \in Nat
      BY <1>2
    <3> QED BY <1>2, <1>7, <2>3, <2>4, <3>1, Grows
  <2>7. queue' \in Seq(1..(logged + 1)) /\ own' \subseteq 1..(logged + 1)
    BY <1>2, <1>7, <2>3, Grows DEF Streaming
  <2>8. logged' \in Nat /\ sending' \in 0..logged' /\ received' \in [Clients -> Seq(1..logged')]
    BY <1>1, <1>2, <1>7, Grows DEF Streaming
  <2>9. /\ clients' \subseteq Clients /\ awaiting' \subseteq Clients
        /\ consumer' \in {"off", "on", "stopped"} /\ (sending' = 0 <=> awaiting' = {})
    BY <1>1 DEF Streaming
  <2>10. own' \subseteq 1..logged' /\ queue' \in Seq(1..logged') /\ pending' \in Seq(1..logged')
    BY <1>7, <2>4, <2>7
  <2> QED BY <2>5, <2>6, <2>8, <2>9, <2>10 DEF Streaming
<1> QED BY <1>6, <1>7 DEF Put

\* Messages in the same line, or one less in it.
LEMMA FlightType == ASSUME Streaming, NEW c \in Clients
                    PROVE  received[c] \in Seq(Nat) /\ queue \in Seq(Nat) /\ pending \in Seq(Nat)
                           /\ sending \in Nat /\ Ordered(Line(c))
  BY LineType

LEMMA StreamingTake == ASSUME Streaming, Take PROVE Streaming'
<1>1. /\ sending = 0 /\ queue # <<>> /\ queue' = Tail(queue)
      /\ sending' = (IF clients = {} THEN 0 ELSE Head(queue)) /\ awaiting' = clients
      /\ UNCHANGED <<logged, own, pending, consumer, clients, received>>
  BY DEF Take
<1>2. /\ logged \in Nat /\ queue \in Seq(1..logged) /\ awaiting = {} /\ clients \subseteq Clients
  BY <1>1 DEF Streaming
<1>3. /\ Head(queue) \in 1..logged /\ Tail(queue) \in Seq(1..logged)
      /\ Len(Tail(queue)) = Len(queue) - 1 /\ Len(queue) \in Nat
  BY <1>1, <1>2, HeadTailProperties
<1>4. ASSUME NEW c \in Clients PROVE Ordered(Line(c))'
  <2>1. Line(c) = ((received[c] \o <<>>) \o queue) \o pending
    BY <1>2 DEF Line, InFlight
  <2>2. CASE c \in clients
    <3>1. Line(c)' = ((received[c] \o <<Head(queue)>>) \o Tail(queue)) \o pending
      BY <1>1, <2>2 DEF Line, InFlight
    <3>2. (received[c] \o <<>>) \o queue = (received[c] \o <<Head(queue)>>) \o Tail(queue)
      BY <1>1, FlightType, TakenLine
    <3>3. Line(c)' = Line(c)
      BY <2>1, <3>1, <3>2, Zenon
    <3> QED BY <3>3, FlightType
  <2>3. CASE c \notin clients
    <3>1. Line(c)' = ((received[c] \o <<>>) \o Tail(queue)) \o pending
      BY <1>1, <2>3 DEF Line, InFlight
    <3>2. received[c] \o <<>> \in Seq(Nat)
      BY FlightType, ConcatEmptySeq
    <3>3. Ordered(((received[c] \o <<>>) \o queue) \o pending)
      BY <2>1, FlightType
    <3> QED BY <1>1, <3>1, <3>2, <3>3, FlightType, OldestLost
  <2> QED BY <2>2, <2>3
<1>5. sending' \in 0..logged /\ (sending' = 0 <=> awaiting' = {})
  BY <1>1, <1>2, <1>3
<1>6. Len(queue') <= Capacity
  BY <1>1, <1>3, LogAssumption DEF Streaming, LogAssumption
<1> QED BY <1>1, <1>2, <1>3, <1>4, <1>5, <1>6 DEF Streaming

LEMMA StreamingSent == 
  ASSUME Streaming, NEW c \in awaiting, Sent(c), clients' \subseteq clients,
         UNCHANGED <<logged, own, pending, queue, consumer>>,
         received' = received \/ received' = [received EXCEPT ![c] = Append(@, sending)]
  PROVE  Streaming'
<1>1. /\ awaiting' = awaiting \ {c} /\ sending' = IF awaiting = {c} THEN 0 ELSE sending
      /\ c \in Clients /\ received \in [Clients -> Seq(1..logged)] /\ sending \in 1..logged
      /\ awaiting \subseteq Clients
  BY DEF Sent, Streaming
<1>2. ASSUME NEW d \in Clients, d # c PROVE Ordered(Line(d))'
  <2>1. received'[d] = received[d]
    BY <1>1, <1>2
  <2>2. InFlight(d)' = InFlight(d)
    <3>1. CASE d \in awaiting
      BY <1>1, <1>2, <3>1 DEF InFlight
    <3>2. CASE d \notin awaiting
      BY <1>1, <3>2 DEF InFlight
    <3> QED BY <3>1, <3>2
  <2>3. Line(d)' = Line(d)
    BY <2>1, <2>2 DEF Line
  <2> QED BY <2>3, FlightType
<1>3. Ordered(Line(c))'
  <2>0. c' = c
    OBVIOUS
  <2>1. Line(c) = ((received[c] \o <<sending>>) \o queue) \o pending
    BY DEF Line, InFlight
  <2>2. CASE received' = received
    <3>1. (Line(c))' = ((received[c] \o <<>>) \o queue) \o pending
      BY <1>1, <2>2 DEF Line, InFlight
    <3>2. Ordered(((received[c] \o <<sending>>) \o queue) \o pending)
      BY <1>1, <2>1, FlightType
    <3>3. Ordered(((received[c] \o <<>>) \o queue) \o pending)
      BY <1>1, <3>2, FlightType, FlightLost
    <3> QED BY <3>1, <3>3
  <2>3. CASE received' = [received EXCEPT ![c] = Append(@, sending)]
    <3>1. (Line(c))' = ((Append(received[c], sending) \o <<>>) \o queue) \o pending
      BY <1>1, <2>3 DEF Line, InFlight
    <3>2. Append(received[c], sending) \o <<>> = received[c] \o <<sending>>
      BY <1>1, FlightType, AppendedLine
    <3> QED BY <1>1, <2>1, <3>1, <3>2, FlightType
  <2> QED BY <2>2, <2>3
<1>4. received' \in [Clients -> Seq(1..logged)]
  <2>1. Append(received[c], sending) \in Seq(1..logged)
    BY <1>1, AppendProperties
  <2> QED BY <1>1, <2>1
<1>5. sending' \in 0..logged /\ (sending' = 0 <=> awaiting' = {})
  BY <1>1 DEF Streaming
<1> QED BY <1>1, <1>2, <1>3, <1>4, <1>5 DEF Streaming

LEMMA StreamingStill ==
  ASSUME Streaming, UNCHANGED <<logged, own, pending, queue, sending, awaiting, received>>,
         clients' \subseteq Clients, consumer' \in {"off", "on", "stopped"}
  PROVE  Streaming'
<1>1. ASSUME NEW c \in Clients PROVE Ordered(Line(c))'
  <2>1. Line(c)' = Line(c)
    BY DEF Line, InFlight
  <2> QED BY <2>1, FlightType
<1> QED BY <1>1 DEF Streaming

\* The consumer is cancelled: the message it was sending reaches no one else.
LEMMA StreamingStop == ASSUME Streaming, StopConsumer PROVE Streaming'
<1>1. /\ UNCHANGED <<logged, own, pending, queue, clients, received>>
      /\ sending' = 0 /\ awaiting' = {} /\ consumer' = "stopped"
  BY DEF StopConsumer
<1>2. ASSUME NEW c \in Clients PROVE Ordered(Line(c))'
  <2>1. (Line(c))' = ((received[c] \o <<>>) \o queue) \o pending
    BY <1>1 DEF Line, InFlight
  <2>2. CASE c \in awaiting
    <3>1. Ordered(((received[c] \o <<sending>>) \o queue) \o pending)
      BY <2>2, FlightType DEF Line, InFlight
    <3>2. Ordered(((received[c] \o <<>>) \o queue) \o pending)
      BY <3>1, FlightType, FlightLost
    <3> QED BY <2>1, <3>2
  <2>3. CASE c \notin awaiting
    <3>1. (Line(c))' = Line(c)
      BY <2>1, <2>3 DEF Line, InFlight
    <3> QED BY <3>1, FlightType
  <2> QED BY <2>2, <2>3
<1>3. 0 \in 0..logged
  BY DEF Streaming
<1> QED BY <1>1, <1>2, <1>3 DEF Streaming

LEMMA StreamingStep == ASSUME Streaming, LogStep PROVE Streaming'
<1>1. CASE Emit
  BY <1>1, StreamingEmit
<1>2. CASE StartConsumer
  BY <1>2, StreamingStill DEF StartConsumer, Streaming
<1>3. CASE Put
  BY <1>3, StreamingPut
<1>4. CASE Take
  BY <1>4, StreamingTake
<1>5. ASSUME NEW c \in Clients, Connect(c) PROVE Streaming'
  <2>1. clients' \subseteq Clients
    BY <1>5 DEF Connect, Streaming
  <2> QED BY <1>5, <2>1, StreamingStill DEF Connect, Streaming
<1>6. ASSUME NEW c \in Clients, Disconnect(c) PROVE Streaming'
  <2>1. clients' \subseteq Clients
    BY <1>6 DEF Disconnect, Streaming
  <2> QED BY <1>6, <2>1, StreamingStill DEF Disconnect, Streaming
<1>7. ASSUME NEW c \in Clients, Deliver(c) PROVE Streaming'
  BY <1>7, StreamingSent DEF Deliver
<1>8. ASSUME NEW c \in Clients, SendFails(c) PROVE Streaming'
  BY <1>8, StreamingSent DEF SendFails
<1> QED BY <1>1, <1>2, <1>3, <1>4, <1>5, <1>6, <1>7, <1>8 DEF LogStep

\* What a client received is the head of its line.
LEMMA StreamingSafe == ASSUME Streaming PROVE StreamInOrder
<1>1. Copies \in Nat \ {0}
  BY LogAssumption DEF LogAssumption
<1> SUFFICES ASSUME NEW c \in Clients PROVE
      \A i, j \in DOMAIN received[c] :
        /\ i < j => received[c][i] <= received[c][j]
        /\ Cardinality({k \in DOMAIN received[c] : received[c][k] = received[c][i]}) <= Copies
  BY DEF StreamInOrder
<1> DEFINE r == received[c]
<1>2. /\ r \in Seq(Nat) /\ queue \in Seq(Nat) /\ pending \in Seq(Nat) /\ InFlight(c) \in Seq(Nat)
      /\ Ordered(Line(c))
  BY LineType
<1>3. /\ Len(r) \in Nat /\ DOMAIN r = 1..Len(r) /\ 1..Len(r) \subseteq 1..Len(Line(c))
      /\ \A i \in 1..Len(r) : Line(c)[i] = r[i]
  <2> DEFINE f == InFlight(c)
             s == ((r \o f) \o queue) \o pending
  <2> HIDE DEF r, f
  <2>1. Len(r) \in Nat /\ DOMAIN r = 1..Len(r) /\ 1..Len(r) \subseteq 1..Len(s)
        /\ \A i \in 1..Len(r) : s[i] = r[i]
    BY <1>2 DEF f
  <2> QED BY <2>1 DEF Line, r, f
<1> HIDE DEF r
<1>4. \A i, j \in 1..Len(r) : i < j => r[i] <= r[j] /\ (r[i] = r[j] => j - i < Copies)
  BY <1>2, <1>3 DEF Ordered
<1>5. ASSUME NEW i \in 1..Len(r) PROVE Cardinality({k \in 1..Len(r) : r[k] = r[i]}) <= Copies
  <2> DEFINE K == {k \in 1..Len(r) : r[k] = r[i]}
  <2>1. K \in SUBSET Nat
    BY <1>3
  <2>2. \A a, b \in K : a < b => b - a < Copies
    BY <1>4
  <2> HIDE DEF K
  <2>3. Cardinality(K) <= Copies
    BY <1>1, <2>1, <2>2, Narrow
  <2> QED BY <2>3 DEF K
<1>6. \A i, j \in DOMAIN r : /\ i < j => r[i] <= r[j]
                            /\ Cardinality({k \in DOMAIN r : r[k] = r[i]}) <= Copies
  BY <1>3, <1>4, <1>5
<1> QED BY <1>6 DEF r

LEMMA StreamingNext == ASSUME Streaming, [Next]_allVars PROVE Streaming'
<1>1. CASE UNCHANGED logVars
  <2>1. clients' \subseteq Clients /\ consumer' \in {"off", "on", "stopped"}
    BY <1>1 DEF logVars, Streaming
  <2> QED BY <1>1, <2>1, StreamingStill DEF logVars
<1>2. CASE LogStep
  BY <1>2, StreamingStep
<1>3. CASE StopConsumer
  BY <1>3, StreamingStop
<1> QED BY <1>1, <1>2, <1>3 DEF Next, View, Viewing, allVars

\* The dashboard's clients see the log in order, no record more often than it was
\* handed to the queue, whatever the queue drops (log_collector.py,
\* websocket_manager.py) and for any number of clients and records.
THEOREM StreamKeepsOrder == Spec => []StreamInOrder
<1>1. Init => Streaming
  BY StreamingInit DEF Init
<1> QED BY <1>1, StreamingNext, StreamingSafe, PTL DEF Spec

-----------------------------------------------------------------------------
\* The types of the server: what an action cannot tell from its own guard is
\* that a call that asks for admission is a flush (Admitting) and that the table
\* of running tasks holds tasks (Entered).
AllPieces == UNION {Pieces(c) : c \in Calls}
CallTypes ==
  /\ left \in [Calls -> SUBSET AllPieces] /\ on \in [Calls -> SUBSET (AllPieces \X Tasks)]
  /\ \A c \in Calls : left[c] \subseteq Pieces(c) /\ on[c] \subseteq Pieces(c) \X Tasks
  /\ good \subseteq Calls /\ flushLock \in Flushes \cup {None}
BackTypes ==
  /\ raised \subseteq Tasks /\ cleanup \in [Cleanups -> {"new", "run", "over"}]
  /\ worker \in {"none", "created", "running", "over"} /\ stopSet \in BOOLEAN
  /\ asked \subseteq Calls \cup Cleanups

LEMMA TypedInit == ASSUME Init PROVE StartupTypeOK /\ CallTypes /\ BackTypes
<1>1. StartupTypeOK
  BY DEF Init, StartupInit, StartupTypeOK
<1>2. CallTypes
  BY DEF Init, ServerInit, CallTypes
<1>3. BackTypes
  BY DEF Init, ServerInit, BackTypes
<1> QED BY <1>1, <1>2, <1>3

LEMMA TypedStart == ASSUME StartupTypeOK, [Next]_allVars PROVE StartupTypeOK'
<1>1. CASE UNCHANGED startupVars
  BY <1>1 DEF startupVars, StartupTypeOK
<1>2. CASE Goes
  BY <1>2 DEF Goes, StartupTypeOK
<1>3. ASSUME NEW stage, Close(stage) PROVE StartupTypeOK'
  <2>1. phase' \in {"release", "finally"} /\ UNCHANGED <<config, open>>
    BY <1>3 DEF Close
  <2> QED BY <1>3, <2>1, CloseType DEF StartupTypeOK
<1>4. ASSUME NEW next \in Stages \cup {"up"}, NEW taken \in SUBSET Adapters, Opened(next, taken)
      PROVE  StartupTypeOK'
  BY <1>4 DEF Opened, StartupTypeOK
<1>5. CASE Starting
  <2> USE DEF Adapters
  <2>1. CASE OpenGraph \/ OpenCache \/ OpenStorage
    BY <1>3, <1>4, <2>1 DEF OpenGraph, OpenCache, OpenStorage
  <2>2. CASE StartChecker
    BY <1>4, <2>2 DEF StartChecker
  <2>3. CASE MakeOutbox \/ MakeProvider \/ Preload \/ CheckDimension
    BY <1>3, <1>4, <2>3 DEF MakeOutbox, MakeProvider, Preload, CheckDimension
  <2>4. CASE MakePipeline \/ Raises
    BY <1>3, <1>4, <2>4 DEF MakePipeline, Raises
  <2> QED BY <1>5, <2>1, <2>2, <2>3, <2>4 DEF Starting
<1>6. CASE Releasing
  <2>1. CASE Dispose
    <3>1. closing' \in Seq(Adapters) /\ open' \subseteq Adapters /\ UNCHANGED <<config, phase>>
      BY <2>1, HeadTailProperties DEF Dispose, StartupTypeOK
    <3> QED BY <3>1 DEF StartupTypeOK
  <2>2. CASE DisposeRaises
    BY <2>2 DEF DisposeRaises, StartupTypeOK
  <2>3. CASE Down
    BY <2>3 DEF Down, StartupTypeOK
  <2> QED BY <1>6, <2>1, <2>2, <2>3 DEF Releasing
<1> QED BY <1>1, <1>2, <1>3, <1>5, <1>6, StepChangesStart DEF StartChange

LEMMA CallTypesStep ==
  ASSUME CallTypes, Admitting, Entered, [Next]_allVars PROVE CallTypes'
<1> USE DEF callVars, serverVars
<1>0. CASE UNCHANGED <<left, on, good, flushLock>>
  BY <1>0 DEF CallTypes
<1>1. ASSUME NEW c \in Calls, Ingest(c), UNCHANGED <<on, good, flushLock>>
      PROVE  CallTypes'
  <2>1. CASE left' = [left EXCEPT ![c] = Pieces(c)]
    <3>1. Pieces(c) \subseteq AllPieces
      BY DEF AllPieces
    <3> QED BY <1>1, <2>1, <3>1 DEF CallTypes
  <2>2. CASE UNCHANGED left
    BY <1>1, <2>2 DEF CallTypes
  <2> QED BY <1>1, <2>1, <2>2 DEF Ingest
<1>2. ASSUME NEW c \in Calls, Unwind(c), UNCHANGED good
      PROVE  CallTypes'
  BY <1>2 DEF Unwind, CallTypes
<1>3. ASSUME NEW c \in Calls, CallStep(c)
      PROVE  CallTypes'
  <2>1. CASE Admit(c)
    <3>1. c \in Flushes /\ UNCHANGED <<left, on, good>> /\ flushLock' \in {flushLock, c}
      BY <2>1 DEF Admit, Admitting
    <3> QED BY <3>1 DEF CallTypes
  <2>2. CASE Register(c)
    BY <2>2 DEF Register, CallTypes
  <2>3. CASE Start(c)
    BY <1>1, <2>3 DEF Start
  <2>4. CASE Finish(c) \/ Notify(c)
    BY <1>0, <2>4 DEF Finish, Notify
  <2>5. ASSUME NEW i \in Pieces(c), Join(c, i) PROVE CallTypes'
    <3>1. UNCHANGED <<good, flushLock>> /\ left' = [left EXCEPT ![c] = @ \ {i}]
      BY <2>5 DEF Join
    <3>2. \E t \in Tasks : on' = [on EXCEPT ![c] = @ \cup {<<i, t>>}]
      <4>1. <<c, i>> \in Tasks
        BY DEF Tasks
      <4>2. memo[KeyOf(<<c, i>>)] \in Tasks \cup {None}
        BY <4>1, KeyOfTask DEF Entered
      <4> QED BY <2>5, <4>1, <4>2 DEF Join
    <3>3. PICK t \in Tasks : on' = [on EXCEPT ![c] = @ \cup {<<i, t>>}]
      BY <3>2
    <3>4. i \in AllPieces
      BY DEF AllPieces
    <3> QED BY <3>1, <3>3, <3>4 DEF CallTypes
  <2>6. ASSUME NEW w \in Pieces(c) \X Tasks, Answer(c, w) PROVE CallTypes'
    <3>1. /\ UNCHANGED <<left, flushLock>> /\ on' = [on EXCEPT ![c] = @ \ {w}]
          /\ good' \subseteq good \cup {c}
      BY <2>6 DEF Answer
    <3> QED BY <3>1 DEF CallTypes
  <2> QED BY <1>3, <2>1, <2>2, <2>3, <2>4, <2>5, <2>6 DEF CallStep
<1>4. ASSUME NEW c \in Calls, Save(c) \/ Flush(c) \/ Cancel(c)
      PROVE  CallTypes'
  BY <1>0, <1>1, <1>2, <1>4 DEF Save, Flush, Cancel
<1>5. ASSUME NEW x \in Flushes \cup Cleanups, JobCancelled(x)
      PROVE  CallTypes'
  BY <1>0, <1>2, <1>5 DEF JobCancelled, Calls
<1>6. CASE BootStep
  BY <1>0, <1>6 DEF BootStep, Ready
<1>7. CASE EndSession \/ Shutdown \/ WorkerBegins \/ WorkerReturns
  BY <1>0, <1>7 DEF EndSession, Shutdown, WorkerStopped, Drain, WorkerBegins, WorkerReturns
<1>8. ASSUME NEW t \in Tasks, TaskStep(t)
      PROVE  CallTypes'
  BY <1>0, <1>8 DEF TaskStep, Work, Leave
<1>9. ASSUME NEW k \in Cleanups, CleanupEnds(k)
      PROVE  CallTypes'
  BY <1>0, <1>9 DEF CleanupEnds
<1>10. CASE View \/ (Releasing /\ UNCHANGED serverVars) \/ UNCHANGED allVars
  BY <1>0, <1>10 DEF View, Viewing, vars, allVars
<1> QED BY <1>3, <1>4, <1>5, <1>6, <1>7, <1>8, <1>9, <1>10 DEF Next, ServerNext

LEMMA BackTypesStep == ASSUME BackTypes, [Next]_allVars PROVE BackTypes'
<1> USE DEF bgVars, taskVars, serverVars
<1>0. CASE UNCHANGED <<raised, cleanup, worker, stopSet, asked>>
  BY <1>0 DEF BackTypes
<1>1. Registered \subseteq Calls \cup Cleanups
  BY DEF Registered, Calls
<1>2. CASE BootStep
  BY <1>0, <1>2 DEF BootStep, Ready, BackTypes
<1>3. CASE EndSession \/ WorkerBegins \/ WorkerReturns
  BY <1>3 DEF EndSession, WorkerBegins, WorkerReturns, BackTypes
<1>4. CASE Shutdown
  <2>1. CASE WorkerStopped
    BY <2>1 DEF WorkerStopped, BackTypes
  <2>2. CASE Drain
    <3>1. UNCHANGED <<raised, cleanup, worker, stopSet>> /\ asked' \subseteq asked \cup Registered
      BY <2>2 DEF Drain, GoOn
    <3> QED BY <1>1, <3>1 DEF BackTypes
  <2> QED BY <1>4, <2>1, <2>2 DEF Shutdown
<1>5. ASSUME NEW c \in Calls, Save(c) \/ Flush(c)
      PROVE  BackTypes'
  BY <1>0, <1>5 DEF Save, Flush
<1>6. ASSUME NEW c \in Calls, Cancel(c)
      PROVE  BackTypes'
  <2>1. UNCHANGED <<raised, cleanup, worker, stopSet>> /\ asked' = asked \cup {c}
    BY <1>6 DEF Cancel
  <2> QED BY <2>1 DEF BackTypes
<1>7. ASSUME NEW c \in Calls, CallStep(c)
      PROVE  BackTypes'
  <2>1. CASE Admit(c) \/ Register(c) \/ Start(c) \/ Finish(c)
    BY <1>0, <2>1 DEF Admit, Register, Start, Finish
  <2>2. CASE Notify(c)
    BY <2>2 DEF Notify, BackTypes
  <2>3. ASSUME NEW i \in Pieces(c), Join(c, i) PROVE BackTypes'
    BY <1>0, <2>3 DEF Join
  <2>4. ASSUME NEW w \in Pieces(c) \X Tasks, Answer(c, w) PROVE BackTypes'
    BY <1>0, <2>4 DEF Answer
  <2> QED BY <1>7, <2>1, <2>2, <2>3, <2>4 DEF CallStep
<1>8. ASSUME NEW t \in Tasks, TaskStep(t)
      PROVE  BackTypes'
  BY <1>0, <1>8 DEF TaskStep, Work, Leave, BackTypes
<1>9. ASSUME NEW x \in Flushes \cup Cleanups, JobCancelled(x)
      PROVE  BackTypes'
  BY <1>9 DEF JobCancelled, BackTypes
<1>10. ASSUME NEW k \in Cleanups, CleanupEnds(k)
       PROVE  BackTypes'
  BY <1>10 DEF CleanupEnds, BackTypes
<1>11. CASE View \/ (Releasing /\ UNCHANGED serverVars) \/ UNCHANGED allVars
  BY <1>0, <1>11 DEF View, Viewing, vars, allVars
<1> QED BY <1>2, <1>3, <1>4, <1>5, <1>6, <1>7, <1>8, <1>9, <1>10, <1>11 DEF Next, ServerNext

\* Every variable of a process keeps its type, through start, work, shutdown and
\* the log stream: no adapter, call or task that is not one of the process.
THEOREM ProcessTyped == Spec => []TypeOK
<1> DEFINE Shape == StartupTypeOK /\ CallTypes /\ BackTypes /\ Admitting /\ Entered /\ Streaming
<1>1. Init => Shape
  <2>1. Init => Streaming
    BY StreamingInit DEF Init
  <2> QED BY <2>1, TypedInit, AdmittingInit, EnteredInit
<1>2. Shape /\ [Next]_allVars => Shape'
  BY TypedStart, CallTypesStep, BackTypesStep, AdmittingStep, EnteredStep, StreamingNext
<1>3. Shape => TypeOK
  <2>1. Streaming => LogTypeOK
    BY DEF Streaming, LogTypeOK
  <2>2. CallTypes /\ BackTypes /\ Admitting /\ Entered => ServerTypeOK
    BY DEF CallTypes, BackTypes, Admitting, Entered, Status, ServerTypeOK
  <2> QED BY <2>1, <2>2 DEF TypeOK
<1> QED BY <1>1, <1>2, <1>3, PTL DEF Spec
=============================================================================
