---------------------------- MODULE IngestionMC ----------------------------
(* Small instances of Ingestion for TLC: two chunks x1, x2 of one content  *)
(* through one server, a chunk y of another content through another one,   *)
(* and an old memory z with the content of y.                              *)
EXTENDS Ingestion

CONSTANTS x1, x2, y, z, x, s1, s2

MCContent == [m \in Memories |-> IF m \in {x1, x2} THEN x ELSE y]
MCHome == [c \in Chunks |-> IF c = y THEN s2 ELSE s1]
=============================================================================
