------------------------------ MODULE FramePath ------------------------------
(***************************************************************************)
(* From a peer's fragments to the stack: HandleIncomingFragment assembles  *)
(* them while Service() runs (RxAssembly), and the stack's Tick takes the  *)
(* frames from the same queue through the router, among the datagrams of   *)
(* the IP side (ScTransportRouter).  rxQueue holds the octets, sc their    *)
(* number and the length of the connection's string.                       *)
(***************************************************************************)
EXTENDS RxAssembly, ScTransportRouter

\* The ceiling is the size of the stack's input buffer (ScTransport.cpp:1651).
ASSUME PathAssumption ==
  /\ MaxQueue = MaxWaiting
  /\ kMaxIngressBytes <= MaxLength

VARIABLE name   \* the length of the connection string of the connection under way

pathVars == <<vars, routerVars, name>>

\* The frame the last fragment completes is queued, if it is not too large.
Completes(d) ==
  /\ phase = "service"
  /\ FinalFragment(d)
  /\ IF Overflows(d)
       THEN UNCHANGED routerVars
       ELSE FrameArrives([size |-> Len(Assembled(d)), name |-> name])
  /\ UNCHANGED name

PeerSends(d) ==
  \/ phase = "service" /\ Fragment(d) /\ UNCHANGED <<routerVars, name>>
  \/ Completes(d)

\* The next connection may be another device's, or go to another hub.
PeerReconnects ==
  /\ phase = "service"
  /\ NewConnection
  /\ name' \in NameLengths
  /\ UNCHANGED routerVars

\* One call of the stack: PopReceived runs when it gets to the SC side.
StackReceives ==
  /\ HandleReceiveMessage
  /\ IF Len(sc') < Len(sc) THEN PopReceived ELSE UNCHANGED vars
  /\ UNCHANGED name

PathInit == Init /\ RouterInit /\ name \in NameLengths

PathNext ==
  \/ \E d \in Fragments : PeerSends(d)
  \/ PeerReconnects
  \/ StackReceives
  \/ \E from \in Datagrams : DatagramArrives(from) /\ UNCHANGED <<vars, name>>
  \/ NextTick /\ UNCHANGED <<vars, name>>

\* As RouterFairSpec's: nothing is assumed of those who send.
PathFairness ==
  /\ WF_pathVars(StackReceives)
  /\ WF_pathVars(NextTick /\ UNCHANGED <<vars, name>>)

PathSpec == PathInit /\ [][PathNext]_pathVars /\ PathFairness

-----------------------------------------------------------------------------
\* A message the transport has assembled reaches the stack, whatever waits on the
\* other side: a frame leaves the queue only by being handed over, because it is empty,
\* or because its connection string is longer than the stack has room for - the length
\* of --sc-hub-uri is not bounded (ScTransportRouter.cpp:217-223).  The ceiling on
\* assembly is what keeps the router from dropping one for its size ("Should not happen -
\* ScTransport already enforces the 1600-byte ingress ceiling",
\* ScTransportRouter.cpp:209-211).
TakenIsHandedOver ==
  [][Len(rxQueue') < Len(rxQueue) =>
       /\ rxQueue' = Tail(rxQueue)
       /\ \/ given' = Len(Head(rxQueue))
          \/ Head(rxQueue) = <<>>
          \/ ~NameFits(Head(sc))]_pathVars

=============================================================================
