----------------------------- MODULE ConnService -----------------------------
(***************************************************************************)
(* What the worker pool promises to the acceptor of Server.Serve: every    *)
(* connection it accepts is served to the end, once, and no more than      *)
(* MaxInService of them are in service together; a connection that cannot  *)
(* be taken is refused at once and is never served.                        *)
(***************************************************************************)
EXTENDS Naturals, FiniteSets

CONSTANTS Conns, MaxInService

VARIABLE service

InService == {c \in Conns : service[c] = "accepted"}

Init == service = [c \in Conns |-> "new"]

Accept(c) ==
    /\ service[c] = "new"
    /\ Cardinality(InService) < MaxInService
    /\ service' = [service EXCEPT ![c] = "accepted"]

Refuse(c) ==
    /\ service[c] = "new"
    /\ service' = [service EXCEPT ![c] = "refused"]

\* The end of the service: the pool closed the connection, or its handler took
\* it over (errHijacked).
Complete(c) ==
    /\ service[c] = "accepted"
    /\ \E end \in {"closed", "hijacked"} :
          service' = [service EXCEPT ![c] = end]

Next == \E c \in Conns : Accept(c) \/ Refuse(c) \/ Complete(c)

Spec == Init /\ [][Next]_service /\ \A c \in Conns : WF_service(Complete(c))
=============================================================================
