----------------------------- MODULE ProcessMC -----------------------------
(* Small instances of Process for TLC. *)
EXTENDS Process

\* A server with the graph written at once (chunks one by one), one with the
\* outbox (chunks in parallel), three that cannot start, and the dashboards.
Settings(backend, cache, graph, outbox, viewer) ==
  [backend |-> backend, cache |-> cache, graph |-> graph, outbox |-> outbox, viewer |-> viewer]
Some ==
  {Settings("sqlite", "inmemory", TRUE, FALSE, FALSE),
   Settings("postgres", "redis", TRUE, TRUE, FALSE),
   Settings("supabase", "redis", TRUE, FALSE, FALSE),
   Settings("sqlite", "inmemory", FALSE, TRUE, FALSE),
   Settings("sqlite", "inmemory", TRUE, FALSE, TRUE),
   Settings("postgres", "redis", TRUE, FALSE, TRUE)}

\* Two flushes share their chunk with a text being saved.
Texts == [c \in {"s", "f1", "f2"} |-> IF c = "f1" THEN <<"k1", "k2">> ELSE <<"k1">>]
=============================================================================
