----------------------------- MODULE Ingestion -----------------------------
(***************************************************************************)
(* Storing the chunks of a text (ingestion/pipeline.py, _process_chunk_core *)
(* with deduplicator.py and graph_linker.py) while other chunks are being  *)
(* stored by the same and by other servers.                                *)
(*                                                                         *)
(* All chunks are variants of one text, close enough to replace each other *)
(* (similarity >= REPLACE_THRESHOLD) and all in one project; chunks of the *)
(* same content have the highest similarity.  A chunk becomes one memory,  *)
(* named like the chunk.  The calls a chunk awaits are named by pc; each   *)
(* is one transaction of its database.  Requests that join a running task  *)
(* of the same memo key add nothing to the state and are not modelled, nor *)
(* are deletions by the user and by the clean-up.                          *)
(***************************************************************************)
EXTENDS FiniteSets

CONSTANTS
  Chunks,       \* chunks to store, each a run of _process_chunk_core
  Old,          \* memories stored before, of distinct contents
  Nodeless,     \* those of Old stored while graph_enabled was false
  None,         \* no memory
  Content,      \* the content hash of a chunk or an old memory
  Home,         \* the server that stores a chunk
  Referring,    \* chunks whose text holds a URL or a file path
  ForeignKeys,  \* the graph is SQLite's; Neo4j skips edges without a node
  Faulty,       \* calls that may raise
  Crashes       \* servers may stop in the middle

Memories == Chunks \cup Old
Servers == {Home[c] : c \in Chunks}

\* The calls under the content lock.
Calls == {"search", "archive", "save", "node", "recall", "relate", "edges",
          "undoNode", "undoMemory", "restore"}

ASSUME IngestionAssumption ==
  /\ Chunks \cap Old = {}
  /\ None \notin Memories
  /\ DOMAIN Content = Memories
  /\ \A m, n \in Old : Content[m] = Content[n] => m = n
  /\ DOMAIN Home = Chunks
  /\ Nodeless \subseteq Old /\ Referring \subseteq Chunks
  /\ ForeignKeys \in BOOLEAN /\ Crashes \in BOOLEAN
  /\ Faulty \subseteq Calls

VARIABLES
  memory,    \* a row of memories: absent, active or archived
  node,      \* memory_nodes
  pc,        \* what a chunk awaits: a call, or idle, stored, failed
  replaced,  \* supersedes_memory
  targets,   \* memories a chunk is about to draw edges to
  restored,  \* history: memories a rollback un-archived
  halfway    \* history: chunks that ended between a replacement's two halves

vars == <<memory, node, pc, replaced, targets, restored, halfway>>

Active == {m \in Memories : memory[m] = "active"}

\* The chunk goes on at the next call.
Goto(c, next) == pc' = [pc EXCEPT ![c] = next]

\* update_memory: archived_at of a memory that is there.
Mark(m, status) ==
  memory' = [memory EXCEPT ![m] = IF @ = "absent" THEN @ ELSE status]

\* What a call writes.
Effect(c) ==
  \/ pc[c] = "archive" /\ Mark(replaced[c], "archived") /\ UNCHANGED node
  \/ pc[c] = "save" /\ memory' = [memory EXCEPT ![c] = "active"] /\ UNCHANGED node
  \/ pc[c] = "node" /\ node' = node \cup {c} /\ UNCHANGED memory
  \/ pc[c] = "undoNode" /\ node' = node \ {c} /\ UNCHANGED memory
  \/ pc[c] = "undoMemory" /\ memory' = [memory EXCEPT ![c] = "absent"] /\ UNCHANGED node
  \/ pc[c] = "restore" /\ Mark(replaced[c], "active") /\ UNCHANGED node

\* Where an exception out of a call leads: save_memory and what precedes it are
\* outside the try block.
Handler(call) ==
  CASE call \in {"recall", "relate", "edges"} -> "undoNode"
    [] call \in {"node", "undoNode"} -> "undoMemory"
    [] OTHER -> "failed"

Init ==
  /\ memory = [m \in Memories |-> IF m \in Old THEN "active" ELSE "absent"]
  /\ node = Old \ Nodeless
  /\ pc = [c \in Chunks |-> "idle"]
  /\ replaced = [c \in Chunks |-> None]
  /\ targets = [c \in Chunks |-> {}]
  /\ restored = {} /\ halfway = {}

-----------------------------------------------------------------------------
\* Variant (seeded bug): no content lock.
LockUnchecked(c) ==
  /\ pc[c] = "idle"
  /\ Goto(c, "search")
  /\ UNCHANGED <<memory, node, replaced, targets, restored, halfway>>

\* The lock of the chunk's content hash, in its own server only.
Lock(c) ==
  /\ pc[c] = "idle"
  /\ \A d \in Chunks :
       Home[d] = Home[c] /\ Content[d] = Content[c] => pc[d] \notin Calls
  /\ Goto(c, "search")
  /\ UNCHANGED <<memory, node, replaced, targets, restored, halfway>>

\* The best match among the active memories.
Matches(c) ==
  LET same == {m \in Active : Content[m] = Content[c]}
  IN  IF same # {} THEN same ELSE Active

\* deduplicate: vector_search, and REPLACE if there is a match.
Search(c) ==
  /\ pc[c] = "search"
  /\ \/ \E m \in Matches(c) :
          /\ replaced' = [replaced EXCEPT ![c] = m]
          /\ Goto(c, "archive")
     \/ /\ Matches(c) = {}
        /\ Goto(c, "save")
        /\ UNCHANGED replaced
  /\ UNCHANGED <<memory, node, targets, restored, halfway>>

\* _archive_memory: the answer of update_memory is ignored.
Archive(c) ==
  /\ pc[c] = "archive"
  /\ Effect(c)
  /\ Goto(c, "save")
  /\ UNCHANGED <<replaced, targets, restored, halfway>>

Save(c) ==
  /\ pc[c] = "save"
  /\ Effect(c)
  /\ Goto(c, "node")
  /\ UNCHANGED <<replaced, targets, restored, halfway>>

CreateNode(c) ==
  /\ pc[c] = "node"
  /\ Effect(c)
  /\ Goto(c, "recall")
  /\ UNCHANGED <<replaced, targets, restored, halfway>>

\* _get_previous_memories: the last memory of the project, unless it is older
\* than two by now.
Recall(c) ==
  /\ pc[c] = "recall"
  /\ Goto(c, "relate")
  /\ \E previous \in {{}} \cup {{m} : m \in Active \ {c}} :
       targets' = [targets EXCEPT ![c] = previous]
  /\ UNCHANGED <<memory, node, replaced, restored, halfway>>

\* Variant (seeded bug): a supersedes edge whether or not a memory is replaced.
RelateUnchecked(c) ==
  /\ pc[c] = "relate"
  /\ Goto(c, "edges")
  /\ targets' = [targets EXCEPT ![c] = @ \cup (Active \ {c}) \cup {replaced[c]}]
  /\ UNCHANGED <<memory, node, replaced, restored, halfway>>

\* _build_semantic_edges and _build_supersedes_edges; chunk edges lead to stored
\* memories, too, and those have nodes.
Relate(c) ==
  /\ pc[c] = "relate"
  /\ Goto(c, "edges")
  /\ targets' =
       [targets EXCEPT ![c] = @ \cup (Active \ {c}) \cup ({replaced[c]} \ {None})]
  /\ UNCHANGED <<memory, node, replaced, restored, halfway>>

\* The edges can all be drawn: SQLite refuses the batch for one missing node,
\* and the node "url:..." of a reference is never there.
Drawable(c) ==
  ForeignKeys => c \notin Referring /\ targets[c] \cup {c} \subseteq node

CreateEdges(c) ==
  /\ pc[c] = "edges"
  /\ Drawable(c)
  /\ Goto(c, "stored")
  /\ targets' = [targets EXCEPT ![c] = {}]
  /\ UNCHANGED <<memory, node, replaced, restored, halfway>>

-----------------------------------------------------------------------------
(* Failures and the rollback.                                              *)

\* The chunk ends with the memory it replaces archived and its own not stored.
Abandons(c) ==
  /\ replaced[c] # None
  /\ memory'[c] = "absent"
  /\ memory'[replaced[c]] = "archived"

\* The memories a step un-archives.
Revived == {m \in Memories : memory[m] = "archived" /\ memory'[m] = "active"}

\* A call raises, before or after it took effect.
Raise(c) ==
  /\ pc[c] \in Faulty \/ (pc[c] = "edges" /\ ~Drawable(c))
  /\ Goto(c, Handler(pc[c]))
  /\ UNCHANGED <<memory, node>> \/ Effect(c)
  /\ targets' = [targets EXCEPT ![c] = {}]
  /\ halfway' = IF Handler(pc[c]) = "failed" /\ Abandons(c) THEN halfway \cup {c} ELSE halfway
  /\ restored' = restored \cup Revived
  /\ UNCHANGED replaced

UndoNode(c) ==
  /\ pc[c] = "undoNode"
  /\ Effect(c)
  /\ Goto(c, "undoMemory")
  /\ UNCHANGED <<replaced, targets, restored, halfway>>

\* Variant (seeded bug): the replaced memory is left archived.
UndoMemoryOnly(c) ==
  /\ pc[c] = "undoMemory"
  /\ Effect(c)
  /\ Goto(c, "failed")
  /\ UNCHANGED <<replaced, targets, restored, halfway>>

UndoMemory(c) ==
  /\ pc[c] = "undoMemory"
  /\ Effect(c)
  /\ Goto(c, IF replaced[c] = None THEN "failed" ELSE "restore")
  /\ UNCHANGED <<replaced, targets, restored, halfway>>

\* The replaced memory is un-archived, if it is still there.
Restore(c) ==
  /\ pc[c] = "restore"
  /\ Effect(c)
  /\ Goto(c, "failed")
  /\ restored' = restored \cup Revived
  /\ UNCHANGED <<replaced, targets, halfway>>

\* The server stops, or its event loop cancels what is left: nobody handles a
\* CancelledError.  The server may be started again.
Crash(s) ==
  LET lost == {c \in Chunks : Home[c] = s /\ pc[c] \in Calls}
  IN  /\ Crashes
      /\ lost # {}
      /\ pc' = [c \in Chunks |-> IF c \in lost THEN "failed" ELSE pc[c]]
      /\ targets' = [c \in Chunks |-> IF c \in lost THEN {} ELSE targets[c]]
      /\ UNCHANGED <<memory, node, replaced, restored>>
      /\ halfway' = halfway \cup {c \in lost : Abandons(c)}

-----------------------------------------------------------------------------
Store(c) ==
  \/ Lock(c) \/ Search(c) \/ Archive(c) \/ Save(c) \/ CreateNode(c)
  \/ Recall(c) \/ Relate(c) \/ CreateEdges(c)

Undo(c) == UndoNode(c) \/ UndoMemory(c) \/ Restore(c)

Next ==
  \/ \E c \in Chunks : Store(c) \/ Raise(c) \/ Undo(c)
  \/ \E s \in Servers : Crash(s)

Spec == Init /\ [][Next]_vars

-----------------------------------------------------------------------------
(* Properties.                                                             *)

TypeOK ==
  /\ memory \in [Memories -> {"absent", "active", "archived"}]
  /\ node \subseteq Memories
  /\ pc \in [Chunks -> {"idle", "stored", "failed"} \cup Calls]
  /\ replaced \in [Chunks -> Memories \cup {None}]
  /\ targets \in [Chunks -> SUBSET Memories]
  /\ restored \subseteq Memories
  /\ halfway \subseteq Chunks

\* Whatever chunks replace each other and fail in whatever order, the text is
\* not lost to searches: some variant of it is active once they are done, unless
\* a chunk broke off between the two halves of a replacement.
NeverEmptied ==
  (\A c \in Chunks : pc[c] \notin Calls) /\ Old # {} /\ halfway = {} => Active # {}

\* Two active memories that the content lock should have kept apart: equal
\* contents, which only one server stores.
Doubles ==
  {m \in Active : \E n \in Active \ {m} :
     /\ Content[m] = Content[n]
     /\ \A c, d \in Chunks :
          Content[c] = Content[m] /\ Content[d] = Content[m] => Home[c] = Home[d]}

\* The content lock makes equal contents replace each other, failures and
\* crashes included: only the rollback of another chunk doubles a memory.
DoubledByRollbackOnly == \A m \in Doubles : \E n \in restored : Content[n] = Content[m]

\* What a comment says of the rollback: it never leaves a content active twice (the
\* code does, when another chunk has stored the content meanwhile).
NoDoubles == Doubles = {}

\* With no call failing, every chunk is stored.
Accepted == Faulty = {} /\ ~Crashes => \A c \in Chunks : pc[c] # "failed"
=============================================================================
