---------------------------- MODULE LifecycleMC ----------------------------
(* Small instances of Lifecycle for TLC. *)
EXTENDS Lifecycle

CONSTANTS p1, p2
=============================================================================
