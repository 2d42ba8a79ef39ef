---------------------------- MODULE RetrievalMC ----------------------------
(* Small instances of Retrieval for TLC. *)
EXTENDS Retrieval

Four == {"m1", "m2", "m3", "m4"}
Vectors == <<"m1", "m2", "m3", "m4">>
Keywords == <<"m4", "m2">>
Homes == [m \in Four |-> IF m = "m4" THEN "other" ELSE "here"]
Values == [m \in Four |-> IF m = "m4" THEN 2 ELSE 1]
Ages == [m \in Four |-> IF m = "m4" THEN 2 ELSE 0]
Sizes == [m \in Four |-> IF m = "m2" THEN 2 ELSE 1]

Edge(f, t, k) == [from |-> f, to |-> t, type |-> k]
\* A ring; m3 may have been replaced twice.
Possible == {Edge("m1", "m2", "RELATED"), Edge("m2", "m3", "SUPERSEDES"),
             Edge("m3", "m4", "RELATED"), Edge("m4", "m1", "RELATED"),
             Edge("m1", "m3", "SUPERSEDES")}
AllGraphs == SUBSET Possible

Ask(tool, project, k, tokens, error, causality) ==
  [tool |-> tool, project |-> project, topK |-> k, maxTokens |-> tokens,
   error |-> error, causality |-> causality, time |-> causality]
SomeRequests == {Ask("search", None, 1, None, FALSE, FALSE), Ask("search", "here", 2, None, FALSE, FALSE),
                 Ask("search", "here", 0, 3, FALSE, FALSE), Ask("graph", "here", 0, None, TRUE, FALSE),
                 Ask("graph", "here", 0, None, FALSE, TRUE), Ask("graph", "other", 0, None, TRUE, FALSE)}
=============================================================================
