----------------------------- MODULE LogFanout -----------------------------
(***************************************************************************)
(* The log stream of the dashboard: log_collector.py keeps the last records *)
(* and hands each to the event loop, where websocket_manager.py queues it  *)
(* for one consumer that broadcasts it to the connected clients.  Dropping *)
(* the oldest entry of a full queue is itself logged, through the same     *)
(* handler.  Messages are numbered in the order they are logged.           *)
(***************************************************************************)
EXTENDS Integers, Sequences, FiniteSets

CONSTANTS
  Clients,      \* websocket clients
  Capacity,     \* maxsize of the queue
  Copies,       \* handlers a record of context_store passes: its own and the root's
  MaxRecords,   \* records the program logs
  MaxWarnings   \* bound on the warnings the queue logs itself

ASSUME LogAssumption ==
  Capacity \in Nat \ {0} /\ Copies \in Nat \ {0} /\ MaxRecords \in Nat /\ MaxWarnings \in Nat

VARIABLES
  logged,      \* records logged so far, warnings of the queue included
  own,         \* those that are warnings of the queue
  pending,     \* callbacks of call_soon_threadsafe, in order
  queue,       \* _queue
  consumer,    \* off, on or stopped: the task of start_consumer
  clients,     \* _conns
  sending,     \* the message being broadcast, 0 for none
  awaiting,    \* the clients whose send_json is under way
  received     \* client |-> the messages it was sent

logVars == <<logged, own, pending, queue, consumer, clients, sending, awaiting,
             received>>

LogInit ==
  /\ logged = 0 /\ own = {} /\ pending = <<>> /\ queue = <<>>
  /\ consumer = "off" /\ clients = {} /\ sending = 0 /\ awaiting = {}
  /\ received = [c \in Clients |-> <<>>]

\* emit, once for each handler the record passes; without a loop it is only
\* buffered.
Times(n) == [i \in 1..Copies |-> n]
Program == Cardinality(1..logged \ own)
Emit ==
  /\ Program < MaxRecords
  /\ logged' = logged + 1
  /\ pending' = IF consumer = "on" THEN pending \o Times(logged + 1) ELSE pending
  /\ UNCHANGED <<own, queue, consumer, clients, sending, awaiting, received>>

StartConsumer ==
  /\ consumer = "off"
  /\ consumer' = "on"
  /\ UNCHANGED <<logged, own, pending, queue, clients, sending, awaiting, received>>

\* The lifespan cancels the task: what is queued stays there.
StopConsumer ==
  /\ consumer = "on"
  /\ consumer' = "stopped" /\ sending' = 0 /\ awaiting' = {}
  /\ UNCHANGED <<logged, own, pending, queue, clients, received>>

Connect(c) ==
  /\ consumer = "on" /\ c \notin clients /\ received[c] = <<>>
  /\ clients' = clients \cup {c}
  /\ UNCHANGED <<logged, own, pending, queue, consumer, sending, awaiting, received>>

\* The peer goes away: ws_logs leaves its loop.
Disconnect(c) ==
  /\ c \in clients
  /\ clients' = clients \ {c}
  /\ UNCHANGED <<logged, own, pending, queue, consumer, sending, awaiting, received>>

\* Variant (seeded bug): a full queue grows.
PutGrowing ==
  /\ pending # <<>>
  /\ queue' = Append(queue, Head(pending))
  /\ pending' = Tail(pending)
  /\ UNCHANGED <<logged, own, consumer, clients, sending, awaiting, received>>

\* put, on the loop.
Put ==
  /\ pending # <<>>
  /\ IF Len(queue) < Capacity
     THEN /\ queue' = Append(queue, Head(pending))
          /\ pending' = Tail(pending)
          /\ UNCHANGED <<logged, own>>
     ELSE /\ Cardinality(own) < MaxWarnings
          /\ logged' = logged + 1
          /\ own' = own \cup {logged + 1}
          /\ queue' = Append(Tail(queue), Head(pending))
          /\ pending' = Tail(pending) \o Times(logged + 1)
  /\ UNCHANGED <<consumer, clients, sending, awaiting, received>>

\* Variant (seeded bug): the newest message is taken.
TakeLast ==
  /\ consumer = "on" /\ sending = 0 /\ queue # <<>>
  /\ queue' = SubSeq(queue, 1, Len(queue) - 1)
  /\ sending' = IF clients = {} THEN 0 ELSE queue[Len(queue)]
  /\ awaiting' = clients
  /\ UNCHANGED <<logged, own, pending, consumer, clients, received>>

\* start_consumer takes a message; without clients broadcast returns at once.
Take ==
  /\ consumer = "on" /\ sending = 0 /\ queue # <<>>
  /\ queue' = Tail(queue)
  /\ sending' = IF clients = {} THEN 0 ELSE Head(queue)
  /\ awaiting' = clients
  /\ UNCHANGED <<logged, own, pending, consumer, clients, received>>

Sent(c) ==
  /\ awaiting' = awaiting \ {c}
  /\ sending' = IF awaiting = {c} THEN 0 ELSE sending

Deliver(c) ==
  /\ c \in awaiting
  /\ received' = [received EXCEPT ![c] = Append(@, sending)]
  /\ Sent(c)
  /\ UNCHANGED <<logged, own, pending, queue, consumer, clients>>

\* Variant (seeded bug): no timeout for a client that does not read.
SendFailsOnly(c) ==
  /\ c \in awaiting \ clients
  /\ Sent(c)
  /\ UNCHANGED <<logged, own, pending, queue, consumer, clients, received>>

\* send_json raises, or times out after a second: the client is disconnected.
SendFails(c) ==
  /\ c \in awaiting
  /\ clients' = clients \ {c}
  /\ Sent(c)
  /\ UNCHANGED <<logged, own, pending, queue, consumer, received>>

LogStep ==
  \/ Emit \/ StartConsumer \/ Put \/ Take
  \/ \E c \in Clients : Connect(c) \/ Disconnect(c) \/ Deliver(c) \/ SendFails(c)

-----------------------------------------------------------------------------
LogTypeOK ==
  /\ own \subseteq 1..logged
  /\ Len(queue) <= Capacity /\ Len(pending) <= logged * Copies
  /\ clients \subseteq Clients /\ awaiting \subseteq Clients
  /\ sending \in 0..logged
  /\ consumer \in {"off", "on", "stopped"}

\* Whatever is dropped and whoever comes and goes, a client sees the messages
\* in the order they were logged, each no more often than it was handed over.
StreamInOrder ==
  \A c \in Clients : \A i, j \in DOMAIN received[c] :
    /\ i < j => received[c][i] <= received[c][j]
    /\ Cardinality({k \in DOMAIN received[c] : received[c][k] = received[c][i]}) <= Copies

\* A client that does not read holds up a message for a while, never for good.
BroadcastEnds == sending # 0 ~> sending = 0
=============================================================================
