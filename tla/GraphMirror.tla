---------------------------- MODULE GraphMirror ----------------------------
(***************************************************************************)
(* What graph synchronisation promises whatever the number of workers and  *)
(* whatever fails: the graph store only ever gains nodes of memories that  *)
(* were saved, and only ever loses nodes of memories that were deleted.  A *)
(* memory that is still stored and has reached the graph stays there.      *)
(*                                                                         *)
(* Outbox implements this specification with the same two variables.       *)
(***************************************************************************)
CONSTANT Memories

VARIABLES
  storage,  \* memory |-> "absent", "live" or "deleted"
  graph     \* the memories that have a node in the graph store

vars == <<storage, graph>>

Init ==
  /\ storage = [m \in Memories |-> "absent"]
  /\ graph = {}

\* A memory id is a fresh UUID: it is saved once and deleted at most once.
Save(m) ==
  /\ storage[m] = "absent"
  /\ storage' = [storage EXCEPT ![m] = "live"]
  /\ UNCHANGED graph

Delete(m) ==
  /\ storage[m] = "live"
  /\ storage' = [storage EXCEPT ![m] = "deleted"]
  /\ UNCHANGED graph

\* The mirror catches up, in batches of any size and possibly with old news.
Reflect(added, removed) ==
  /\ \A m \in added : storage[m] # "absent"
  /\ \A m \in removed : storage[m] = "deleted"
  /\ graph' = (graph \cup added) \ removed
  /\ UNCHANGED storage

Next ==
  \/ \E m \in Memories : Save(m) \/ Delete(m)
  \/ \E added, removed \in SUBSET Memories : Reflect(added, removed)

Spec == Init /\ [][Next]_vars
=============================================================================
