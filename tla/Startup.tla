------------------------------ MODULE Startup ------------------------------
(***************************************************************************)
(* Bringing a process up and taking it down: storage/factory.py opens the  *)
(* adapters one after the other, create_orchestrator (the server) or the   *)
(* lifespan of the dashboard (a viewer) goes on from there, and whatever   *)
(* fails on the way, or ends the process later, has to release what is     *)
(* open by then.  A stage is one awaited call; an adapter whose own        *)
(* constructor fails releases what it took itself and is never open.       *)
(***************************************************************************)
EXTENDS Sequences

CONSTANT Configs   \* the settings considered

\* The settings that decide what is opened.
Config == [backend : {"sqlite", "postgres", "supabase"}, cache : {"inmemory", "redis"},
           graph : BOOLEAN, outbox : BOOLEAN, viewer : BOOLEAN]

Adapters == {"graph", "cache", "storage", "checker", "provider"}
Building == {"graph", "cache", "storage", "checker", "outbox"}  \* in the factory
Stopping == {"stopWorker", "drain", "cancel", "cancelAgain"}   \* see Server
Stages == Building \cup {"provider", "preload", "dimension", "lifecycle", "pipeline"}

ASSUME StartupAssumption == Configs \subseteq Config

VARIABLES
  config,   \* the settings of the process
  phase,    \* the stage awaited, up, release, finally or down
  open,     \* the adapters held
  closing   \* the adapters still to release if open, in order

startupVars == <<config, phase, open, closing>>

StartupInit == config \in Configs /\ phase = "graph" /\ open = {} /\ closing = <<>>

\* Variant (seeded bug): the checks of the outbox stage close the storage only.
ReleaseOrderPartial(stage) ==
  IF stage = "outbox" THEN <<"storage">>
  ELSE IF stage \in Building THEN <<"cache", "graph", "storage">>
  ELSE IF config.viewer THEN <<"storage", "graph", "cache">>
  ELSE <<"storage", "graph", "cache", "provider">>

\* What the handler around a stage releases, and in which order.
ReleaseOrder(stage) ==
  IF stage \in Building THEN <<"cache", "graph", "storage">>
  ELSE IF config.viewer THEN <<"storage", "graph", "cache">>
  ELSE <<"storage", "graph", "cache", "provider">>

\* The dashboard's finally clause does not guard one release from another.
Close(stage) ==
  /\ phase' = IF config.viewer /\ stage \notin Building THEN "finally" ELSE "release"
  /\ closing' = ReleaseOrder(stage)
  /\ UNCHANGED <<config, open>>

\* The stage is over and has taken what it opens.
Opened(next, taken) ==
  /\ phase' = next
  /\ open' = open \cup taken
  /\ UNCHANGED <<config, closing>>

\* _create_graph_adapter; Neo4j beside Supabase needs the outbox.
OpenGraph ==
  /\ phase = "graph"
  /\ IF config.graph /\ config.backend = "supabase" /\ ~config.outbox THEN Close(phase)
     ELSE Opened("cache", IF config.graph THEN {"graph"} ELSE {})

OpenCache == phase = "cache" /\ Opened("storage", {"cache"})

\* Only SQLite can be opened read-only; the others become a no-op adapter.
OpenStorage ==
  /\ phase = "storage"
  /\ Opened("checker", IF config.viewer /\ config.backend # "sqlite" THEN {} ELSE {"storage"})

\* The coherence checker starts if the database file is there.
StartChecker ==
  /\ phase = "checker"
  /\ \E found \in IF config.viewer THEN BOOLEAN ELSE {TRUE} :
       Opened(IF config.viewer THEN "pipeline" ELSE "outbox",
              IF config.backend = "sqlite" /\ config.cache = "inmemory" /\ found
              THEN {"checker"} ELSE {})

\* create_storage_with_outbox: reader, writer and worker need a graph.
MakeOutbox ==
  /\ phase = "outbox"
  /\ IF config.outbox /\ ~config.graph THEN Close(phase) ELSE Opened("provider", {})

MakeProvider == phase = "provider" /\ Opened("preload", {"provider"})
Preload == phase = "preload" /\ Opened("dimension", {})
CheckDimension == phase = "dimension" /\ Opened("lifecycle", {})

\* start_lifecycle creates two tasks; nothing in it raises.
StartLifecycle == phase = "lifecycle" /\ Opened("up", {})

\* create_for_dashboard; a viewer does without a provider that cannot be made.
MakePipeline ==
  /\ phase = "pipeline"
  /\ \E taken \in {{}, {"provider"}} : Opened("up", taken)

\* The call of a stage raises: a file, the network, a model, a dimension.
Raises == phase \in Stages \ {"checker", "lifecycle"} /\ Close(phase)

\* The lifespan of a viewer ends.
EndView == phase = "up" /\ config.viewer /\ Close(phase)

\* Closing the cache stops its checker.
Held(a) == IF a = "cache" THEN {"cache", "checker"} ELSE {a}
Dispose ==
  /\ phase \in {"release", "finally"} /\ closing # <<>>
  /\ open' = open \ Held(Head(closing))
  /\ closing' = Tail(closing)
  /\ UNCHANGED <<config, phase>>

\* In a finally clause an error ends the releases.
DisposeRaises ==
  /\ phase = "finally" /\ closing # <<>> /\ Head(closing) \in open
  /\ open' = open \ Held(Head(closing))
  /\ closing' = <<>>
  /\ UNCHANGED <<config, phase>>

Down ==
  /\ phase \in {"release", "finally"} /\ closing = <<>>
  /\ phase' = "down"
  /\ UNCHANGED <<config, open, closing>>

Starting ==
  \/ OpenGraph \/ OpenCache \/ OpenStorage \/ StartChecker \/ MakeOutbox \/ MakeProvider
  \/ Preload \/ CheckDimension \/ MakePipeline \/ Raises
Releasing == Dispose \/ DisposeRaises \/ Down

-----------------------------------------------------------------------------
StartupTypeOK ==
  /\ config \in Configs
  /\ phase \in Stages \cup Stopping \cup {"up", "release", "finally", "down"}
  /\ open \subseteq Adapters /\ closing \in Seq(Adapters)

\* A process that could not start, or was stopped, holds no adapter, whichever
\* call failed.  A viewer may keep its provider, and all but its storage when
\* releasing an adapter raises.
NoLeak ==
  phase = "down" => /\ "storage" \notin open
                    /\ ~config.viewer => open = {}
=============================================================================
