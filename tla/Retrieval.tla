----------------------------- MODULE Retrieval -----------------------------
(***************************************************************************)
(* One search: the vector and the keyword search side by side, the graph   *)
(* walked from the best vector hits, the three lists fused into one score, *)
(* and the answer cut and counted (retrieval/*.py, the searches of         *)
(* storage/sqlite.py, traverse of storage/sqlite_graph.py).                *)
(*                                                                         *)
(* Each search may fail and the walk may time out; between its awaits      *)
(* memories are archived, brought back and deleted by others.  How well a  *)
(* text matches is given by two orders of the memories; scores are exact   *)
(* fractions.                                                              *)
(***************************************************************************)
EXTENDS Integers, Sequences, FiniteSets, SequencesExt

CONSTANTS
  Memories,
  Changing,     \* those that others archive, bring back or delete
  ByVector,     \* the memories, nearest first
  ByKeyword,    \* those that contain the words, best first
  Project,      \* memory |-> project
  Importance,   \* memory |-> importance_score, in halves
  Recency,      \* memory |-> time decay, in halves
  Tokens,       \* memory |-> estimated tokens
  Graphs,       \* the edges there may be: sets of [from, to, type]
  Requests,     \* what may be asked for, see Request
  MaxLogical,   \* graph_max_logical_depth
  MaxHops,      \* graph_max_physical_hops
  Unit,         \* a common multiple of the denominators of the ranks
  None

\* The tools memory_search (with the default strategy) and memory_search_graph
\* (which analyses the query); a project the caller did not name is None.
Request == [tool : {"search", "graph"}, project : Range(Project) \cup {None},
            topK : Int, maxTokens : Int \cup {None},
            error : BOOLEAN, causality : BOOLEAN, time : BOOLEAN]

RrfK == 60

\* A search names a memory once, and an edge joins two of them.
ASSUME RetrievalAssumption ==
  /\ IsFiniteSet(Memories) /\ Changing \subseteq Memories /\ None \notin Seq(Memories)
  /\ ByVector \in Seq(Memories) /\ IsInjective(ByVector) /\ Range(ByVector) = Memories
  /\ ByKeyword \in Seq(Memories) /\ IsInjective(ByKeyword)
  /\ Importance \in [Memories -> Nat] /\ Recency \in [Memories -> Nat]
  /\ Tokens \in [Memories -> Nat]
  /\ \A g \in Graphs : \A e \in g : e.from \in Memories /\ e.to \in Memories
  /\ Requests \subseteq Request
  /\ MaxLogical \in Nat /\ MaxHops \in Nat
  /\ Unit \in Nat /\ \A i \in 1..Cardinality(Memories) : Unit % (RrfK + i) = 0

VARIABLES
  edges,     \* the graph
  stored,    \* memories in storage
  archived,  \* those with archived_at set
  dormant,   \* history: those archived ever since the search began
  ask,       \* the request
  phase,     \* search, walk, resolve, rank, count or over
  lists,     \* source |-> its hits, or None while it is under way
  reached,   \* nodes the walk returned, in its order
  answer,
  counted    \* memories whose access was recorded

vars == <<edges, stored, archived, dormant, ask, phase, lists, reached, answer, counted>>

-----------------------------------------------------------------------------
(* The strategy, with weights in tenths, and the request after validation. *)

Weights(v, k, g, depth, time) == [vector |-> v, keyword |-> k, graph |-> g, depth |-> depth, time |-> time]

Analyze(r) ==
  IF r.error THEN Weights(2, 6, 2, 1, r.time)
  ELSE IF r.causality THEN Weights(2, 1, 7, 3, r.time)
  ELSE Weights(5, 2, 3, 2, r.time)

Strategy == IF ask.tool = "search" THEN Weights(5, 2, 3, 2, TRUE) ELSE Analyze(ask)
TopK == IF ask.tool = "graph" THEN 5 ELSE IF ask.topK < 1 THEN 10 ELSE ask.topK
MaxTokens == IF ask.tool = "graph" \/ ask.maxTokens = None \/ ask.maxTokens <= 0 THEN None
             ELSE ask.maxTokens

First(n, s) == SubSeq(s, 1, IF n < Len(s) THEN n ELSE Len(s))
Wanted == {m \in Memories : ask.project = None \/ Project[m] = ask.project}

\* Those of a list that are in S, in its order.
Kept(s, S) ==
  LET I == {i \in DOMAIN s : s[i] \in S}
  IN [n \in 1..Cardinality(I) |-> s[CHOOSE j \in I : Cardinality({i \in I : i < j}) = n - 1]]

-----------------------------------------------------------------------------
(* The walk over the graph: a recursive query over paths.                  *)

Depth == IF Strategy.depth < MaxLogical THEN Strategy.depth ELSE MaxLogical
Cost(e) == IF e.type = "SUPERSEDES" THEN 0 ELSE 1

\* Variant (seeded bug): following a SUPERSEDES edge consumes depth.
FollowCounted(row, e) ==
  /\ e.from = Last(row.path) /\ row.logical + 1 <= Depth
  /\ e.to \notin Range(row.path)

\* An edge is followed within the logical depth, and never back on the path.
Follow(row, e) ==
  /\ e.from = Last(row.path) /\ row.logical + Cost(e) <= Depth
  /\ e.to \notin Range(row.path)

\* The recursive part of the query: every row that extends one of these.
Longer(rows) ==
  {[path |-> Append(x[1].path, x[2].to), logical |-> x[1].logical + Cost(x[2])] :
     x \in {y \in rows \X edges : Follow(y[1], y[2])}}

\* The rows of the query after so many physical hops.
Rows(seeds) ==
  LET r[i \in 0..MaxHops] ==
        IF i = 0 THEN {[path |-> <<s>>, logical |-> 0] : s \in seeds} ELSE Longer(r[i - 1])
  IN r

Walk(seeds) == {Last(row.path) : row \in UNION {Rows(seeds)[i] : i \in 0..MaxHops}}
HopsTo(seeds, m) ==
  CHOOSE i \in 0..MaxHops :
    /\ \E row \in Rows(seeds)[i] : Last(row.path) = m
    /\ \A j \in 0..(i - 1) : \A row \in Rows(seeds)[j] : Last(row.path) # m

\* Nodes appear in the order of their first row, breadth first.
WalkOrders(seeds) ==
  {s \in SetToSeqs(Walk(seeds)) :
     \A i, j \in DOMAIN s : i < j => HopsTo(seeds, s[i]) <= HopsTo(seeds, s[j])}

-----------------------------------------------------------------------------
(* Fusion.                                                                 *)

\* Variant (seeded bug): a hit of rank zero counts as no hit.
ShareFalsy(w, m, s) ==
  LET i == {j \in 2..Len(s) : s[j] = m} IN
  IF i = {} THEN 0 ELSE w * (Unit \div (RrfK + (CHOOSE j \in i : TRUE)))

\* compute_rrf_score: what one source adds for a memory.
Share(w, m, s) ==
  LET i == {j \in DOMAIN s : s[j] = m} IN
  IF i = {} THEN 0 ELSE w * (Unit \div (RrfK + (CHOOSE j \in i : TRUE)))

\* final_score: five tenths for the ranks, normalised by the best there could
\* be, three for the decay, two for the importance.
Score(m) ==
  5 * (RrfK + 1) * (Share(Strategy.vector, m, lists.vector) + Share(Strategy.keyword, m, lists.keyword)
            + Share(Strategy.graph, m, lists.graph))
  + 15 * Unit * (IF Strategy.time THEN Recency[m] ELSE 2)
  + 10 * Unit * Importance[m]

\* Every memory once, in the order the sources name it.
Pool ==
  LET kw == Kept(lists.keyword, Memories \ Range(lists.vector))
      gr == Kept(lists.graph, Memories \ (Range(lists.vector) \cup Range(lists.keyword)))
  IN lists.vector \o kw \o gr

\* Highest score first; equals keep their order.
Sorted(s) ==
  LET Above(i, j) == Score(s[i]) > Score(s[j]) \/ (Score(s[i]) = Score(s[j]) /\ i < j)
  IN [n \in DOMAIN s |-> s[CHOOSE j \in DOMAIN s : Cardinality({i \in DOMAIN s : Above(i, j)}) = n - 1]]

\* The longest beginning that keeps to the limit.
Total(s) ==
  LET sum[n \in 0..Len(s)] == IF n = 0 THEN 0 ELSE sum[n - 1] + Tokens[s[n]]
  IN sum[Len(s)]
WithinTokens(s) ==
  IF MaxTokens = None THEN s
  ELSE First(CHOOSE n \in 0..Len(s) :
               /\ Total(First(n, s)) <= MaxTokens
               /\ n < Len(s) => Total(First(n + 1, s)) > MaxTokens, s)

\* Variant (seeded bug): the list is cut before the other projects are dropped.
ResultsCutFirst == WithinTokens(Kept(First(TopK, Sorted(Pool)), Wanted))

Results == WithinTokens(First(TopK, Kept(Sorted(Pool), Wanted)))

-----------------------------------------------------------------------------
Init ==
  /\ edges \in Graphs /\ ask \in Requests
  /\ stored = Memories /\ archived \in SUBSET Changing /\ dormant = archived
  /\ phase = "search" /\ reached = <<>> /\ answer = <<>> /\ counted = {}
  /\ lists = [s \in {"vector", "keyword", "graph"} |-> None]

\* What a storage search returns.
Hits(order) == First(TopK, Kept(order, (stored \ archived) \cap Wanted))

\* _safe_search: an error is an empty list; no weight of a strategy is zero.
SafeSearch(source, order) ==
  /\ phase = "search" /\ lists[source] = None
  /\ \E hits \in {Hits(order), <<>>} : lists' = [lists EXCEPT ![source] = hits]
  /\ UNCHANGED <<edges, stored, archived, dormant, ask, phase, reached, answer, counted>>

Gather ==
  /\ phase = "search" /\ lists.vector # None /\ lists.keyword # None
  /\ phase' = IF lists.vector = <<>> THEN "rank" ELSE "walk"
  /\ lists' = [lists EXCEPT !.graph = <<>>]
  /\ UNCHANGED <<edges, stored, archived, dormant, ask, reached, answer, counted>>

\* traverse from the best three: all of it, or what was read when the time ran
\* out; without a graph or a connection, nothing.
Traverse ==
  /\ phase = "walk"
  /\ LET all == WalkOrders(Range(First(3, lists.vector))) IN
     reached' \in UNION {Prefixes(s) : s \in all}
  /\ phase' = "resolve"
  /\ UNCHANGED <<edges, stored, archived, dormant, ask, lists, answer, counted>>

\* _resolve_graph_nodes: nodes without a memory are dropped; an error drops all.
Resolve ==
  /\ phase = "resolve"
  /\ \E hits \in {Kept(reached, stored), <<>>} :
       lists' = [lists EXCEPT !.graph = hits]
  /\ phase' = "rank"
  /\ UNCHANGED <<edges, stored, archived, dormant, ask, reached, answer, counted>>

\* Fused, filtered and cut.
Rank ==
  /\ phase = "rank"
  /\ answer' = Results
  /\ phase' = IF Results = <<>> THEN "over" ELSE "count"
  /\ UNCHANGED <<edges, stored, archived, dormant, ask, lists, reached, counted>>

\* Variant (seeded bug): every memory found counts as accessed.
AccessedAll == Range(Pool) \cap stored

\* The answer's memories that are still there.
Accessed == Range(answer) \cap stored

\* increment_memory_access_counts records all of them, or fails.
Count ==
  /\ phase = "count"
  /\ counted' \in {Accessed, {}}
  /\ phase' = "over"
  /\ UNCHANGED <<edges, stored, archived, dormant, ask, lists, reached, answer>>

\* Meanwhile: a clean-up or a newer memory archives one, a call deletes one.
Archive(m) ==
  /\ phase # "over" /\ m \in (stored \cap Changing) \ archived
  /\ archived' = archived \cup {m}
  /\ UNCHANGED <<edges, stored, dormant, ask, phase, lists, reached, answer, counted>>

\* An ingestion that fails brings back the one it has replaced.
Restore(m) ==
  /\ phase # "over" /\ m \in archived \cap Changing
  /\ archived' = archived \ {m} /\ dormant' = dormant \ {m}
  /\ UNCHANGED <<edges, stored, ask, phase, lists, reached, answer, counted>>

Delete(m) ==
  /\ phase # "over" /\ m \in stored \cap Changing
  /\ stored' = stored \ {m} /\ archived' = archived \ {m} /\ dormant' = dormant \ {m}
  /\ UNCHANGED <<edges, ask, phase, lists, reached, answer, counted>>

Next ==
  \/ SafeSearch("vector", ByVector) \/ SafeSearch("keyword", ByKeyword)
  \/ Gather \/ Traverse \/ Resolve \/ Rank \/ Count
  \/ \E m \in Memories : Archive(m) \/ Restore(m) \/ Delete(m)

Spec == Init /\ [][Next]_vars

-----------------------------------------------------------------------------
(* Properties.                                                             *)

\* The least depth consumed by a walk of at most i hops, or more than Depth.
Relaxed(depths) ==
  [m \in Memories |->
     LET c == {depths[m]} \cup {depths[e.from] + Cost(e) : e \in {f \in edges : f.to = m}}
     IN CHOOSE x \in c : \A y \in c : x <= y]
LeastDepth(seeds) ==
  LET least[i \in 0..MaxHops] ==
        IF i = 0 THEN [m \in Memories |-> IF m \in seeds THEN 0 ELSE Depth + 1]
        ELSE Relaxed(least[i - 1])
  IN least

\* However few edges the walk is given, it reaches exactly the memories some
\* walk reaches within both bounds, although it drops every path that returns
\* to itself and stops at the depth its strategy and the settings allow.
WalkExact ==
  phase = "walk" =>
    LET seeds == Range(First(3, lists.vector)) IN
    Walk(seeds) = {m \in Memories : LeastDepth(seeds)[MaxHops][m] <= Depth}

\* n is no worse than m wherever m was found, and as important and as recent.
RankIn(m, s) == CHOOSE i \in DOMAIN s : s[i] = m
Dominates(n, m) ==
  /\ \A s \in DOMAIN lists : m \in Range(lists[s]) =>
       n \in Range(lists[s]) /\ RankIn(n, lists[s]) < RankIn(m, lists[s])
  /\ Importance[n] >= Importance[m] /\ Recency[n] >= Recency[m]

\* The answer keeps to the request, names no memory twice, is cut short by a
\* limit only, and leaves nothing out for something it dominates.
AnswerSound ==
  phase \in {"count", "over"} =>
    LET pool == Range(Pool) \cap Wanted IN
    /\ Range(answer) \subseteq pool
    /\ IsInjective(answer) /\ Len(answer) <= TopK
    /\ MaxTokens # None => Total(answer) <= MaxTokens
    /\ MaxTokens = None => Len(answer) = TopK \/ Range(answer) = pool
    /\ MaxTokens = None =>
         \A m \in Range(answer), n \in pool \ Range(answer) : ~Dominates(n, m)

\* What has been archived all along is not in the answer (the code does not see
\* to it: the walk over the graph finds it, and its memory is read back as any).
ArchivedExcluded == phase \in {"count", "over"} => Range(answer) \cap dormant = {}

TypeOK ==
  /\ edges \in Graphs /\ ask \in Requests
  /\ archived \subseteq stored /\ stored \subseteq Memories /\ dormant \subseteq archived
  /\ phase \in {"search", "walk", "resolve", "rank", "count", "over"}
  /\ counted \subseteq Range(answer)
  /\ \A s \in DOMAIN lists : lists[s] = None \/ Range(lists[s]) \subseteq Memories
  /\ Range(reached) \cup Range(answer) \subseteq Memories
=============================================================================
