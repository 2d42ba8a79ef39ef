------------------------------ MODULE SqliteMC ------------------------------
(* Small instances of Sqlite for TLC. *)
EXTENDS Sqlite

\* Three requests at one adapter, whose process starts beside another one that
\* may have a provider of another dimension.
Where == [r \in {"r1", "r2", "r3", "r4"} |-> IF r = "r4" THEN "q" ELSE "p"]
What == [r \in {"r1", "r2", "r3", "r4"} |->
           CASE r = "r2" -> "update" [] r = "r3" -> "read" [] OTHER -> "save"]
Differ == [p \in {"p", "q"} |-> IF p = "p" THEN 3 ELSE 4]
=============================================================================
