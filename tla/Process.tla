------------------------------ MODULE Process ------------------------------
(***************************************************************************)
(* A process of the system, from its start to its end: the MCP server, or  *)
(* the read-only dashboard with its log stream.                            *)
(***************************************************************************)
EXTENDS Server, LogFanout

allVars == <<vars, logVars>>

Init == StartupInit /\ ServerInit /\ LogInit

\* Between create_storage and the end of its lifespan a viewer streams logs;
\* ending it stops the consumer first.
Viewing(A) == phase = "up" /\ config.viewer /\ A /\ UNCHANGED vars
View ==
  \/ Viewing(LogStep)
  \/ EndView /\ consumer = "off" /\ UNCHANGED <<serverVars, logVars>>
  \/ EndView /\ StopConsumer /\ UNCHANGED serverVars

Next == (ServerNext /\ UNCHANGED logVars) \/ View

Spec == Init /\ [][Next]_allVars

\* The consumer and the callbacks of the loop go on, and a send times out.
FairSpec ==
  /\ Spec /\ ServerFairness
  /\ WF_allVars(Viewing(Put)) /\ WF_allVars(Viewing(Take))
  /\ \A c \in Clients : WF_allVars(Viewing(SendFails(c)))

\* The types of the three parts.
TypeOK == StartupTypeOK /\ ServerTypeOK /\ LogTypeOK
=============================================================================
