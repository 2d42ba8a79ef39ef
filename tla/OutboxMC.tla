------------------------------ MODULE OutboxMC ------------------------------
(* Small instances of Outbox for TLC. *)
EXTENDS Outbox, TLC

CONSTANTS m1, m2, s1, s2, c1

Symmetry == Permutations(Memories) \cup Permutations(Servers)
=============================================================================
