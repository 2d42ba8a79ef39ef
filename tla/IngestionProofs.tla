--------------------------- MODULE IngestionProofs ---------------------------
(***************************************************************************)
(* Theorems about Ingestion for every set of chunks and servers, and for   *)
(* every assumption on what may fail.                                      *)
(***************************************************************************)
EXTENDS Ingestion, TLAPS

-----------------------------------------------------------------------------
(* Type correctness.                                                       *)

LEMMA EffectType ==
  ASSUME TypeOK, NEW c \in Chunks, Effect(c)
  PROVE  /\ memory' \in [Memories -> {"absent", "active", "archived"}]
         /\ node' \subseteq Memories
  BY DEF TypeOK, Effect, Mark, Memories

LEMMA HandlerType ==
  ASSUME NEW call \in Calls
  PROVE  Handler(call) \in {"undoNode", "undoMemory", "failed"}
  BY DEF Handler, Calls

LEMMA TypeStep ==
  ASSUME TypeOK, [Next]_vars
  PROVE  TypeOK'
  <1> USE DEF Goto, Calls
  <1>1. ASSUME NEW c \in Chunks, Lock(c) \/ Search(c)  PROVE TypeOK'
    BY <1>1 DEF TypeOK, Lock, Search, Matches, Active
  <1>2. ASSUME NEW c \in Chunks, Archive(c) \/ Save(c) \/ CreateNode(c)  PROVE TypeOK'
    <2>1. Effect(c)
      BY <1>2 DEF Archive, Save, CreateNode
    <2>2. QED  BY <1>2, <2>1, EffectType DEF TypeOK, Archive, Save, CreateNode
  <1>3. ASSUME NEW c \in Chunks, Recall(c) \/ Relate(c) \/ CreateEdges(c)  PROVE TypeOK'
    BY <1>3 DEF TypeOK, Recall, Relate, CreateEdges, Active
  <1>4. ASSUME NEW c \in Chunks, Raise(c)  PROVE TypeOK'
    <2>1. pc[c] \in Calls
      BY <1>4, IngestionAssumption DEF Raise
    <2>2. /\ memory' \in [Memories -> {"absent", "active", "archived"}]
          /\ node' \subseteq Memories
      BY <1>4, EffectType DEF TypeOK, Raise
    <2>3. halfway' \subseteq Chunks /\ restored' \subseteq Memories
      BY <1>4 DEF TypeOK, Raise, Revived
    <2>4. pc' \in [Chunks -> {"idle", "stored", "failed"} \cup Calls]
      BY <1>4, <2>1, HandlerType DEF TypeOK, Raise
    <2>5. QED  BY <1>4, <2>2, <2>3, <2>4 DEF TypeOK, Raise
  <1>5. ASSUME NEW c \in Chunks, Undo(c)  PROVE TypeOK'
    <2>1. Effect(c)
      BY <1>5 DEF Undo, UndoNode, UndoMemory, Restore
    <2>2. QED
      BY <1>5, <2>1, EffectType DEF TypeOK, Undo, UndoNode, UndoMemory, Restore, Revived
  <1>6. ASSUME NEW s \in Servers, Crash(s)  PROVE TypeOK'
    BY <1>6 DEF TypeOK, Crash
  <1>7. CASE UNCHANGED vars
    BY <1>7 DEF TypeOK, vars
  <1>8. QED
    BY <1>1, <1>2, <1>3, <1>4, <1>5, <1>6, <1>7 DEF Next, Store

\* Every variable keeps its type: what a chunk replaces, and what it draws edges
\* to, are memories.
THEOREM TypeCorrect == Spec => []TypeOK
  <1>1. Init => TypeOK
    BY IngestionAssumption DEF Init, TypeOK, Memories
  <1>2. QED  BY <1>1, TypeStep, PTL DEF Spec

-----------------------------------------------------------------------------
(* What keeps equal contents apart.                                        *)
(*                                                                         *)
(* A content that one server stores is in the hands of one chunk at a time *)
(* (the content lock).  That chunk sees the active memory of its content,  *)
(* if any, archives it, and then only its own memory can be active: the    *)
(* others may archive or delete memories, but only a rollback makes one    *)
(* active again.                                                           *)

OneServer(k) ==
  \A c, d \in Chunks : Content[c] = k /\ Content[d] = k => Home[c] = Home[d]

\* The contents the argument is about.
Kept(k) == OneServer(k) /\ \A n \in restored : Content[n] # k

ActiveOf(k) == {m \in Active : Content[m] = k}

AfterSave == {"node", "recall", "relate", "edges", "undoNode", "undoMemory"}

\* A content lock has one holder.
LockExclusive ==
  \A c, d \in Chunks :
    Home[c] = Home[d] /\ Content[c] = Content[d] /\ pc[c] \in Calls /\ pc[d] \in Calls
      => c = d

\* What may be active while the holder of the lock is at work.
HolderKnows ==
  \A c \in Chunks : Kept(Content[c]) =>
    /\ pc[c] = "archive" => ActiveOf(Content[c]) \subseteq {replaced[c]}
    /\ pc[c] = "save" => ActiveOf(Content[c]) = {}
    /\ pc[c] \in AfterSave => ActiveOf(Content[c]) \subseteq {c}

Single == \A k : Kept(k) => \A m, n \in ActiveOf(k) : m = n

Apart == LockExclusive /\ HolderKnows /\ Single

LEMMA ApartImplies == Apart => DoubledByRollbackOnly
  <1> SUFFICES ASSUME Apart, NEW m \in Doubles
               PROVE  \E n \in restored : Content[n] = Content[m]
    BY DEF DoubledByRollbackOnly
  <1>1. PICK n \in Active \ {m} : /\ Content[m] = Content[n]
                                  /\ OneServer(Content[m])
    BY DEF Doubles, OneServer
  <1>2. m \in ActiveOf(Content[m]) /\ n \in ActiveOf(Content[m]) /\ m # n
    BY <1>1 DEF Doubles, ActiveOf
  <1>3. ~Kept(Content[m])
    BY <1>2 DEF Apart, Single
  <1>4. QED  BY <1>1, <1>3 DEF Kept

LEMMA ApartInit == Init => Apart
  BY IngestionAssumption
  DEF Init, Apart, LockExclusive, HolderKnows, Single, Kept, ActiveOf, Active, Calls,
      AfterSave, Memories

\* A content that loses no guard and gains no active memory.
LEMMA NoGain ==
  ASSUME TypeOK, Apart, NEW k, Kept(k)', restored \subseteq restored',
         ActiveOf(k)' \subseteq ActiveOf(k)
  PROVE  /\ Kept(k)
         /\ \A m, n \in ActiveOf(k)' : m = n
  BY DEF Apart, Single, Kept, OneServer

\* Chunk c makes a step in its own part of the code, in which only its own memory
\* may become active, or one that a rollback un-archives.
LEMMA OwnStep ==
  ASSUME TypeOK, Apart, NEW c \in Chunks,
         \A d \in Chunks \ {c} : pc'[d] = pc[d] /\ replaced'[d] = replaced[d],
         pc[c] \in Calls,
         restored \subseteq restored',
         Active' \subseteq Active \cup {c} \cup restored',
         c \in Active' \ Active =>
           c \in restored' \/ (pc[c] = "save" /\ pc'[c] \notin {"archive", "save"}),
         Kept(Content[c])' => /\ pc'[c] = "archive" => ActiveOf(Content[c])' \subseteq {replaced'[c]}
                              /\ pc'[c] = "save" => ActiveOf(Content[c])' = {}
                              /\ pc'[c] \in AfterSave => ActiveOf(Content[c])' \subseteq {c}
  PROVE  Apart'
  <1>1. LockExclusive'
    BY DEF Apart, LockExclusive
  <1>2. ASSUME NEW k, Kept(k)'
        PROVE  /\ Kept(k)
               /\ ActiveOf(k)' \subseteq ActiveOf(k) \cup ({c} \cap (Active' \ Active))
    BY <1>2 DEF Kept, OneServer, ActiveOf, Active
  <1>3. ASSUME NEW k, Kept(k)', k # Content[c]
        PROVE  ActiveOf(k)' \subseteq ActiveOf(k)
    BY <1>2, <1>3 DEF ActiveOf
  <1>4. HolderKnows'
    <2> SUFFICES ASSUME NEW d \in Chunks, Kept(Content[d])', d # c
                 PROVE  /\ pc'[d] = "archive" => ActiveOf(Content[d])' \subseteq {replaced'[d]}
                        /\ pc'[d] = "save" => ActiveOf(Content[d])' = {}
                        /\ pc'[d] \in AfterSave => ActiveOf(Content[d])' \subseteq {d}
      BY DEF HolderKnows
    <2>1. CASE pc[d] \notin Calls
      BY <2>1 DEF Calls, AfterSave
    <2>2. CASE pc[d] \in Calls
      <3>1. Content[d] # Content[c]
        BY <2>2, <1>2 DEF Apart, LockExclusive, Kept, OneServer
      <3>2. QED  BY <1>2, <1>3, <3>1 DEF Apart, HolderKnows
    <2>3. QED  BY <2>1, <2>2
  <1>5. Single'
    <2> SUFFICES ASSUME NEW k, Kept(k)'
                 PROVE  \A m, n \in ActiveOf(k)' : m = n
      BY DEF Single
    <2>1. CASE ActiveOf(k)' \subseteq ActiveOf(k)
      BY <2>1, <1>2 DEF Apart, Single
    <2>2. CASE c \in Active' \ Active /\ k = Content[c]
      <3>1. pc[c] = "save"
        BY <2>2 DEF Kept
      <3>2. ActiveOf(k) = {}
        BY <1>2, <2>2, <3>1 DEF Apart, HolderKnows
      <3>3. QED  BY <1>2, <3>2
    <2>3. QED  BY <1>2, <1>3, <2>1, <2>2
  <1>6. QED  BY <1>1, <1>4, <1>5 DEF Apart

\* What a call may make active.
LEMMA EffectActive ==
  ASSUME TypeOK, NEW c \in Chunks, Effect(c) \/ UNCHANGED <<memory, node>>
  PROVE  /\ Active' \subseteq Active \cup {c} \cup Revived
         /\ pc[c] \notin {"save", "restore"} => Active' \subseteq Active
         /\ pc[c] = "archive" /\ Effect(c) => replaced[c] \notin Active'
  BY DEF TypeOK, Effect, Mark, Active, Revived, Memories

\* A chunk in its own part of the code.
LEMMA ChunkStep ==
  ASSUME TypeOK, TypeOK', Apart, NEW c \in Chunks,
         Search(c) \/ Archive(c) \/ Save(c) \/ CreateNode(c) \/ Recall(c)
           \/ Relate(c) \/ CreateEdges(c) \/ Raise(c) \/ Undo(c)
  PROVE  Apart'
  <1> DEFINE k == Content[c]
             Known == Kept(k)' =>
               /\ pc'[c] = "archive" => ActiveOf(k)' \subseteq {replaced'[c]}
               /\ pc'[c] = "save" => ActiveOf(k)' = {}
               /\ pc'[c] \in AfterSave => ActiveOf(k)' \subseteq {c}
  <1>1. ASSUME Kept(k)', restored \subseteq restored'
        PROVE  /\ Kept(k)
               /\ pc[c] = "archive" => ActiveOf(k) \subseteq {replaced[c]}
               /\ pc[c] = "save" => ActiveOf(k) = {}
               /\ pc[c] \in AfterSave => ActiveOf(k) \subseteq {c}
               /\ \A m, n \in ActiveOf(k) : m = n
    BY <1>1 DEF Kept, OneServer, Apart, HolderKnows, Single
  <1>2. CASE Search(c)
    <2>1. Known
      <3>1. CASE Matches(c) = {} /\ pc'[c] = "save"
        BY <1>2, <3>1 DEF Search, Matches, ActiveOf, Active, AfterSave
      <3>2. ASSUME NEW m \in Matches(c), replaced'[c] = m, pc'[c] = "archive", Kept(k)'
            PROVE  ActiveOf(k)' \subseteq {m}
        BY <1>1, <1>2, <3>2 DEF Search, Matches, ActiveOf, Active
      <3>3. QED  BY <1>2, <3>1, <3>2 DEF Search, Goto, TypeOK, AfterSave
    <2>2. QED
      BY <1>2, <2>1, OwnStep DEF Search, Goto, TypeOK, Calls, Active
  <1>3. CASE Archive(c) \/ Save(c) \/ CreateNode(c) \/ UndoNode(c) \/ UndoMemory(c)
    <2>1. Effect(c) /\ restored' = restored
      BY <1>3 DEF Archive, Save, CreateNode, UndoNode, UndoMemory
    <2>2. Known
      <3>1. CASE Archive(c)
        <4>1. pc[c] = "archive" /\ pc'[c] = "save"
          BY <3>1 DEF Archive, Goto, TypeOK
        <4>2. Kept(k)' => ActiveOf(k)' = {}
          BY <1>1, <2>1, <4>1, EffectActive DEF ActiveOf
        <4>3. QED  BY <4>1, <4>2 DEF AfterSave
      <3>2. CASE Save(c)
        <4>1. pc[c] = "save" /\ pc'[c] = "node" /\ memory' = [memory EXCEPT ![c] = "active"]
          BY <2>1, <3>2 DEF Save, Effect, Goto, TypeOK
        <4>2. Active' \subseteq Active \cup {c}
          BY <4>1 DEF Active, TypeOK
        <4>3. QED  BY <1>1, <2>1, <4>1, <4>2 DEF ActiveOf
      <3>3. CASE CreateNode(c) \/ UndoNode(c) \/ UndoMemory(c)
        <4>1. pc[c] \in {"node", "undoNode", "undoMemory"} /\ pc'[c] \notin {"archive", "save"}
          BY <3>3 DEF CreateNode, UndoNode, UndoMemory, Goto, TypeOK
        <4>2. Active' \subseteq Active
          BY <2>1, <4>1, EffectActive
        <4>3. QED  BY <1>1, <2>1, <4>1, <4>2 DEF ActiveOf, AfterSave
      <3>4. QED  BY <1>3, <3>1, <3>2, <3>3
    <2>3. /\ Active' \subseteq Active \cup {c}
          /\ c \in Active' \ Active => pc[c] = "save" /\ pc'[c] = "node"
      BY <1>3, <2>1, EffectActive
      DEF Archive, Save, CreateNode, UndoNode, UndoMemory, Goto, TypeOK, Effect, Active
    <2>4. QED
      BY <1>3, <2>1, <2>2, <2>3, OwnStep
      DEF Archive, Save, CreateNode, UndoNode, UndoMemory, Goto, TypeOK, Calls
  <1>4. CASE Recall(c) \/ Relate(c) \/ CreateEdges(c)
    <2>1. Known
      BY <1>1, <1>4
      DEF Recall, Relate, CreateEdges, Goto, TypeOK, ActiveOf, Active, AfterSave
    <2>2. QED
      BY <1>4, <2>1, OwnStep
      DEF Recall, Relate, CreateEdges, Goto, TypeOK, Calls, Active
  <1>5. CASE Raise(c)
    <2>1. /\ Effect(c) \/ UNCHANGED <<memory, node>>
          /\ restored' = restored \cup Revived /\ replaced' = replaced
          /\ pc[c] \in Calls /\ pc'[c] = Handler(pc[c])
      BY <1>5, IngestionAssumption DEF Raise, Goto, TypeOK, Calls
    <2>2. /\ pc'[c] \in {"undoNode", "undoMemory", "failed"}
          /\ pc'[c] # "failed" => pc[c] \in AfterSave
      BY <2>1, HandlerType DEF Handler, AfterSave
    <2>3. Known
      <3>1. CASE pc'[c] = "failed"
        BY <3>1 DEF AfterSave
      <3>2. CASE pc'[c] # "failed"
        BY <1>1, <2>1, <2>2, <3>2, EffectActive DEF AfterSave, ActiveOf
      <3>3. QED  BY <3>1, <3>2
    <2>4. /\ Active' \subseteq Active \cup {c} \cup restored'
          /\ c \in Active' \ Active => c \in restored' \/ pc[c] = "save"
      BY <2>1, EffectActive DEF Effect, Revived, Mark, TypeOK, Active
    <2>5. QED  BY <1>5, <2>1, <2>2, <2>3, <2>4, OwnStep DEF Raise, Goto, TypeOK
  <1>6. CASE Restore(c)
    <2>1. Known
      BY <1>6 DEF Restore, Goto, TypeOK, AfterSave
    <2>2. Active' \subseteq Active \cup restored'
      BY <1>6 DEF Restore, Effect, Mark, Revived, Active, TypeOK
    <2>3. QED
      BY <1>6, <2>1, <2>2, OwnStep DEF Restore, Goto, TypeOK, Calls
  <1>7. QED  BY <1>2, <1>3, <1>4, <1>5, <1>6 DEF Undo

LEMMA ApartStep ==
  ASSUME TypeOK, Apart, [Next]_vars
  PROVE  Apart'
  <1>1. TypeOK'
    BY TypeStep
  <1>2. ASSUME NEW c \in Chunks, Store(c) \/ Raise(c) \/ Undo(c), ~Lock(c)
        PROVE  Apart'
    BY <1>1, <1>2, ChunkStep DEF Store
  <1>3. ASSUME UNCHANGED <<memory, restored>>
        PROVE  /\ \A k : Kept(k)' <=> Kept(k)
               /\ \A k : ActiveOf(k)' = ActiveOf(k)
               /\ Single'
    BY <1>3 DEF Kept, ActiveOf, Active, Apart, Single
  <1>4. ASSUME NEW c \in Chunks, Lock(c)  PROVE Apart'
    <2>1. /\ pc[c] = "idle" /\ pc' = [pc EXCEPT ![c] = "search"]
          /\ UNCHANGED <<memory, restored, replaced>>
      BY <1>4 DEF Lock, Goto
    <2>2. LockExclusive'
      BY <1>4, <2>1 DEF Lock, TypeOK, Apart, LockExclusive
    <2>3. HolderKnows'
      BY <1>3, <2>1 DEF TypeOK, Apart, HolderKnows, AfterSave
    <2>4. QED  BY <1>3, <2>1, <2>2, <2>3 DEF Apart
  <1>5. ASSUME NEW s \in Servers, Crash(s)  PROVE Apart'
    <2>1. /\ UNCHANGED <<memory, restored, replaced>>
          /\ \A c \in Chunks : pc'[c] = pc[c] \/ pc'[c] = "failed"
      BY <1>5 DEF Crash
    <2>2. LockExclusive'
      BY <2>1 DEF Apart, LockExclusive, Calls
    <2>3. HolderKnows'
      BY <1>3, <2>1 DEF Apart, HolderKnows, AfterSave
    <2>4. QED  BY <1>3, <2>1, <2>2, <2>3 DEF Apart
  <1>6. CASE UNCHANGED vars
    <2>1. LockExclusive' /\ HolderKnows'
      BY <1>3, <1>6 DEF vars, Apart, LockExclusive, HolderKnows
    <2>2. QED  BY <1>3, <1>6, <2>1 DEF vars, Apart
  <1>7. QED
    BY <1>2, <1>4, <1>5, <1>6 DEF Next

\* However chunks of one server race, fail and crash, no content it alone stores
\* is active twice, unless a rollback un-archived a memory of that content.
THEOREM OnlyRollbackDoubles == Spec => []DoubledByRollbackOnly
  BY ApartInit, ApartStep, ApartImplies, TypeCorrect, PTL DEF Spec

-----------------------------------------------------------------------------
(* The text stays findable.                                                *)
(*                                                                         *)
(* An archived memory is owed by a chunk that replaced it: one that is     *)
(* still to store its own memory or to un-archive the old one, or whose    *)
(* memory is there.  Following the debts from one archived memory to the   *)
(* next must lead out of the archived ones, to an active memory or to a    *)
(* chunk at work.  That there is no way round in circles is said of every  *)
(* set of archived memories at once.                                       *)

Archived == {m \in Memories : memory[m] = "archived"}

Owes(c, m) ==
  replaced[c] = m /\ (pc[c] \in {"save", "restore"} \/ memory[c] # "absent")

Grounded ==
  halfway = {} =>
    \A A \in SUBSET Archived : A # {} => \E m \in A, c \in Chunks \ A : Owes(c, m)

\* A chunk's memory is not there before it is saved and after it is deleted.
Unsaved ==
  \A c \in Chunks :
    pc[c] \in {"idle", "search", "archive", "save", "restore"} => memory[c] = "absent"

OldStay == \A m \in Old : memory[m] # "absent"

Findable == Unsaved /\ OldStay /\ Grounded

LEMMA FindableInit == Init => Findable
  BY IngestionAssumption DEF Init, Findable, Unsaved, OldStay, Grounded, Archived, Memories

LEMMA FindableImplies ==
  ASSUME TypeOK, Findable
  PROVE  NeverEmptied
  <1> SUFFICES ASSUME \A c \in Chunks : pc[c] \notin Calls, Old # {}, halfway = {}
               PROVE  Active # {}
    BY DEF NeverEmptied
  <1>1. CASE Archived = {}
    BY <1>1 DEF TypeOK, Findable, OldStay, Archived, Active, Memories
  <1>2. CASE Archived # {}
    <2>1. PICK m \in Archived, c \in Chunks \ Archived : Owes(c, m)
      BY <1>2 DEF Findable, Grounded
    <2>2. memory[c] # "absent" /\ c \in Memories
      BY <2>1 DEF Owes, Calls, Memories
    <2>3. QED  BY <2>1, <2>2 DEF TypeOK, Archived, Active
  <1>3. QED  BY <1>1, <1>2

\* A step that drops no debt of an archived memory, and archives none without
\* somebody who owes it.
LEMMA GroundedStep ==
  ASSUME Grounded, halfway \subseteq halfway',
         halfway' = {} =>
           /\ \A c \in Chunks, m \in Archived \cap Archived' : Owes(c, m) => Owes(c, m)'
           /\ \A m \in Archived' \ Archived : \E c \in Chunks \ Archived' : Owes(c, m)'
  PROVE  Grounded'
  <1> SUFFICES ASSUME halfway' = {}, NEW A \in SUBSET Archived', A # {}
               PROVE  \E m \in A, c \in Chunks \ A : Owes(c, m)'
    BY DEF Grounded
  <1>1. CASE A \subseteq Archived
    <2>1. PICK m \in A, c \in Chunks \ A : Owes(c, m)
      BY <1>1 DEF Grounded
    <2>2. QED  BY <1>1, <2>1
  <1>2. CASE \E m \in A : m \notin Archived
    BY <1>2
  <1>3. QED  BY <1>1, <1>2

\* A chunk that only goes on, its memory being stored or not as before.
LEMMA QuietStep ==
  ASSUME TypeOK, Findable, NEW c \in Chunks, NEW next,
         Goto(c, next), UNCHANGED <<memory, halfway>>,
         \A d \in Chunks : Owes(d, replaced[d]) => replaced'[d] = replaced[d],
         pc[c] \notin {"save", "restore"},
         next \in {"idle", "search", "archive", "save", "restore"} => memory[c] = "absent"
  PROVE  Findable'
  <1>1. Unsaved' /\ OldStay'
    BY DEF TypeOK, Findable, Unsaved, OldStay, Goto
  <1>2. Archived' = Archived
    BY DEF Archived
  <1>3. \A d \in Chunks, m \in Archived : Owes(d, m) => Owes(d, m)'
    BY DEF Owes, Goto, TypeOK
  <1>4. QED  BY <1>1, <1>2, <1>3, GroundedStep DEF Findable

\* A chunk that archives, saves, or takes back what it stored.
LEMMA WritingStep ==
  ASSUME TypeOK, Findable, NEW c \in Chunks,
         Archive(c) \/ Save(c) \/ UndoMemory(c) \/ Restore(c)
  PROVE  Findable'
  <1> USE IngestionAssumption DEF TypeOK, Goto, Effect, Mark, Memories
  <1>1. Unsaved' /\ OldStay'
    BY DEF Archive, Save, UndoMemory, Restore, Findable, Unsaved, OldStay
  <1>2. CASE Archive(c)
    <2>1. memory[c] = "absent" /\ pc[c] = "archive" /\ pc'[c] = "save" /\ replaced' = replaced
      BY <1>2 DEF Archive, Findable, Unsaved
    <2>2. \A m \in Memories : memory'[m] = IF m = replaced[c] /\ memory[m] # "absent"
                                           THEN "archived" ELSE memory[m]
      BY <1>2, <2>1 DEF Archive
    <2>3. \A d \in Chunks, m \in Archived : Owes(d, m) => Owes(d, m)'
      BY <1>2, <2>1, <2>2 DEF Archive, Owes
    <2>4. \A m \in Archived' \ Archived : c \notin Archived' /\ Owes(c, m)'
      BY <2>1, <2>2 DEF Archived, Owes
    <2>5. QED
      BY <1>1, <1>2, <2>3, <2>4, GroundedStep DEF Archive, Findable
  <1>3. CASE Save(c)
    <2>1. Archived' \subseteq Archived
      BY <1>3 DEF Save, Archived
    <2>2. \A d \in Chunks, m \in Archived : Owes(d, m) => Owes(d, m)'
      BY <1>3 DEF Save, Owes
    <2>3. QED  BY <1>1, <1>3, <2>1, <2>2, GroundedStep DEF Save, Findable
  <1>4. CASE UndoMemory(c)
    <2>1. Archived' \subseteq Archived
      BY <1>4 DEF UndoMemory, Archived
    <2>2. \A d \in Chunks, m \in Archived : Owes(d, m) => Owes(d, m)'
      BY <1>4 DEF UndoMemory, Owes, Archived
    <2>3. QED  BY <1>1, <1>4, <2>1, <2>2, GroundedStep DEF UndoMemory, Findable
  <1>5. CASE Restore(c)
    <2>1. Archived' \subseteq Archived /\ replaced[c] \notin Archived'
      BY <1>5 DEF Restore, Archived
    <2>2. \A d \in Chunks, m \in Archived \cap Archived' : Owes(d, m) => Owes(d, m)'
      BY <1>5, <2>1 DEF Restore, Owes, Archived
    <2>3. QED  BY <1>1, <1>5, <2>1, <2>2, GroundedStep DEF Restore, Findable
  <1>6. QED  BY <1>2, <1>3, <1>4, <1>5

\* A chunk that ends with a debt leaves a trace in halfway.
LEMMA RaiseStep ==
  ASSUME TypeOK, TypeOK', Findable, NEW c \in Chunks, Raise(c)
  PROVE  Findable'
  <1>1. /\ Effect(c) \/ UNCHANGED <<memory, node>>
        /\ pc' = [pc EXCEPT ![c] = Handler(pc[c])]
        /\ pc[c] \in Calls /\ replaced' = replaced
        /\ halfway' = IF Handler(pc[c]) = "failed" /\ Abandons(c)
                      THEN halfway \cup {c} ELSE halfway
    BY IngestionAssumption DEF Raise, Goto, Calls
  <1>2. /\ Handler(pc[c]) \in {"undoNode", "undoMemory", "failed"}
        /\ pc[c] \in {"search", "archive", "save", "undoMemory", "restore"} => Handler(pc[c]) = "failed"
    BY <1>1, HandlerType DEF Handler
  <1>3. Unsaved' /\ OldStay'
    BY <1>1, <1>2, IngestionAssumption
    DEF TypeOK, Effect, Mark, Memories, Findable, Unsaved, OldStay
  <1>4. ASSUME Handler(pc[c]) = "failed", memory'[c] = "absent",
               replaced[c] \in Archived', replaced[c] \in Memories
        PROVE  halfway' # {}
    <2>1. Abandons(c)
      BY <1>4, IngestionAssumption DEF Abandons, Archived
    <2>2. QED  BY <1>1, <1>4, <2>1
  <1>5. ASSUME NEW m \in Archived' \ Archived  PROVE halfway' # {}
    <2>1. m = replaced[c] /\ pc[c] = "archive" /\ memory'[c] = "absent" /\ m \in Memories
      BY <1>1, <1>3, <1>5, IngestionAssumption
      DEF TypeOK, Effect, Mark, Memories, Archived, Findable, Unsaved
    <2>2. QED  BY <1>2, <1>4, <1>5, <2>1
  <1>6. ASSUME NEW d \in Chunks, NEW m \in Archived', Owes(d, m), halfway' = {}
        PROVE  Owes(d, m)'
    <2>1. CASE d # c
      <3>1. memory[d] # "absent" => memory'[d] # "absent"
        BY <1>1, <2>1 DEF TypeOK, Effect, Mark, Memories
      <3>2. QED  BY <1>1, <1>6, <2>1, <3>1 DEF TypeOK, Owes
    <2>2. CASE d = c /\ Handler(pc[c]) = "failed"
      <3>1. memory'[c] # "absent"
        BY <1>4, <1>6, <2>2 DEF Owes, Archived
      <3>2. QED  BY <1>1, <1>6, <2>2, <3>1 DEF Owes
    <2>3. CASE d = c /\ Handler(pc[c]) # "failed"
      <3>1. pc[c] \notin {"save", "restore", "undoMemory", "archive"}
        BY <1>2, <2>3
      <3>2. memory'[c] = memory[c]
        BY <1>1, <3>1 DEF Effect
      <3>3. QED  BY <1>1, <1>6, <2>3, <3>1, <3>2 DEF Owes
    <2>4. QED  BY <2>1, <2>2, <2>3
  <1>7. Grounded'
    <2>1. halfway \subseteq halfway'
      BY <1>1
    <2>2. QED  BY <1>5, <1>6, <2>1, GroundedStep DEF Findable
  <1>8. QED  BY <1>3, <1>7 DEF Findable

LEMMA CrashStep ==
  ASSUME TypeOK, Findable, NEW s \in Servers, Crash(s)
  PROVE  Findable'
  <1> DEFINE lost == {c \in Chunks : Home[c] = s /\ pc[c] \in Calls}
  <1>1. /\ UNCHANGED <<memory, replaced>>
        /\ pc' = [c \in Chunks |-> IF c \in lost THEN "failed" ELSE pc[c]]
        /\ halfway' = halfway \cup {c \in lost : Abandons(c)}
    BY DEF Crash
  <1>2. Unsaved' /\ OldStay'
    BY <1>1 DEF Findable, Unsaved, OldStay
  <1>3. Archived' = Archived
    BY <1>1 DEF Archived
  <1>4. ASSUME NEW d \in Chunks, NEW m \in Archived, Owes(d, m), halfway' = {}
        PROVE  Owes(d, m)'
    <2>1. CASE memory[d] # "absent" \/ d \notin lost
      BY <1>1, <1>4, <2>1 DEF Owes
    <2>2. CASE memory[d] = "absent" /\ d \in lost
      <3>1. Abandons(d)
        BY <1>1, <1>4, <2>2, IngestionAssumption DEF Abandons, Owes, Archived
      <3>2. QED  BY <1>1, <1>4, <2>2, <3>1
    <2>3. QED  BY <2>1, <2>2
  <1>5. halfway \subseteq halfway'
    BY <1>1
  <1>6. QED  BY <1>2, <1>3, <1>4, <1>5, GroundedStep DEF Findable

LEMMA FindableStep ==
  ASSUME TypeOK, Findable, [Next]_vars
  PROVE  Findable'
  <1>1. ASSUME NEW c \in Chunks, Lock(c)  PROVE Findable'
    BY <1>1, QuietStep DEF Lock, Findable, Unsaved
  <1>2. ASSUME NEW c \in Chunks, Search(c)  PROVE Findable'
    <2>1. /\ memory[c] = "absent" /\ pc[c] = "search"
          /\ \A d \in Chunks \ {c} : replaced'[d] = replaced[d]
          /\ ~Owes(c, replaced[c])
      BY <1>2 DEF Search, TypeOK, Findable, Unsaved, Owes
    <2>2. \E next \in {"archive", "save"} : Goto(c, next)
      BY <1>2 DEF Search
    <2>3. QED  BY <1>2, <2>1, <2>2, QuietStep DEF Search
  <1>3. ASSUME NEW c \in Chunks,
               CreateNode(c) \/ Recall(c) \/ Relate(c) \/ CreateEdges(c) \/ UndoNode(c)
        PROVE  Findable'
    <2>1. /\ \E next \in {"recall", "relate", "edges", "stored", "undoMemory"} : Goto(c, next)
          /\ pc[c] \notin {"save", "restore"}
          /\ UNCHANGED <<memory, halfway, replaced>>
      BY <1>3 DEF CreateNode, Recall, Relate, CreateEdges, UndoNode, Effect
    <2>2. QED  BY <2>1, QuietStep
  <1>4. ASSUME NEW c \in Chunks, Archive(c) \/ Save(c) \/ UndoMemory(c) \/ Restore(c)
        PROVE  Findable'
    BY <1>4, WritingStep
  <1>5. ASSUME NEW c \in Chunks, Raise(c)  PROVE Findable'
    BY <1>5, TypeStep, RaiseStep
  <1>6. ASSUME NEW s \in Servers, Crash(s)  PROVE Findable'
    BY <1>6, CrashStep
  <1>7. CASE UNCHANGED vars
    <2>1. Archived' = Archived /\ \A d, m : Owes(d, m)' <=> Owes(d, m)
      BY <1>7 DEF vars, Archived, Owes
    <2>2. Unsaved' /\ OldStay'
      BY <1>7 DEF vars, Findable, Unsaved, OldStay
    <2>3. Grounded'
      BY <1>7, <2>1 DEF vars, Findable, Grounded
    <2>4. QED  BY <2>2, <2>3 DEF Findable
  <1>8. QED
    BY <1>1, <1>2, <1>3, <1>4, <1>5, <1>6, <1>7 DEF Next, Store, Undo

\* Whatever chunks replace each other, fail and crash in whatever order, some
\* variant of the text is active once they are done, unless a chunk broke off
\* between the two halves of a replacement.
THEOREM StaysFindable == Spec => []NeverEmptied
  BY FindableInit, FindableStep, FindableImplies, TypeCorrect, PTL DEF Spec
=============================================================================
