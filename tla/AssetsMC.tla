----------------------------- MODULE AssetsMC ------------------------------
(* A small instance of Assets for TLC. *)
EXTENDS Assets

\* Two Skills in one root, and a hook, which is a file that comes last.
Plan == <<"wrapper", "recall", "save">>
Places == [t \in Range(Plan) |-> IF t \in {"recall", "save"} THEN "skills" ELSE t]
=============================================================================
