----------------------------- MODULE MCScConnector -----------------------------
(***************************************************************************)
(* A small connector for TLC: a primary hub that is dialed again and a     *)
(* failover hub.                                                           *)
(***************************************************************************)
EXTENDS ScConnector

CONSTANTS h1, h2

MCMaxAttempts == [u \in Hubs |-> IF u = h1 THEN 2 ELSE 1]

-----------------------------------------------------------------------------
(***************************************************************************)
(* What the documents say and the code does not do: TLC violates each of   *)
(* these when a .cfg names it (README.md tells how).                       *)
(***************************************************************************)

\* A connection that was asked to close closes: on a reload "close them, and the
\* stack's own retry timer dials them again with the new ones"
\* (ScTransport.cpp:998-999).
RequestedCloseCompletes ==
  \A u \in Hubs :
    (HasWsi(u) /\ clients[u].closeRequest = "normal")
      ~> ~(HasWsi(u) /\ clients[u].closeRequest = "normal")

\* A connection that was never established is unknown to Send ("never
\* established, or already closed", ScTransport.cpp:1263).
OnlyEstablishedIsKnown == \A u \in Hubs : HasWsi(u) => sock[u] \in {"open", "closing"}

=============================================================================
