------------------------- MODULE MCScTransportRouter -------------------------
(***************************************************************************)
(* Model checking the router: receiving, with a transport that assembles   *)
(* frames (FramePath), and sending (RouterSending).  The two halves share  *)
(* only the last tool heard, so a behaviour is about one of them.          *)
(***************************************************************************)
EXTENDS FramePath, RouterSending

CONSTANTS x, y   \* octets

SmallFragments == {<<>>, <<x>>, <<y, x>>}

\* Broadcasts and forwarded ones, with and without addresses, of services that are
\* copied and ones that are not, and one of a single octet.
SmallFrames ==
  [function : {4, 10, 11}, to : {<<>>, <<<<>>>>, <<<<16, 0>>>>}, from : {<<>>, <<<<128, 7>>>>},
   network : BOOLEAN, pdu : {<<16, 0>>, <<16, 1>>, <<16, 8>>, <<0, 5, 1>>, <<32, 1, 0>>, <<16>>}]

VARIABLE half

halfVars == <<pathVars, routerSendVars, half>>

HalvesInit == half \in {"receiving", "sending"} /\ PathInit /\ RouterSendInit

HalvesNext ==
  \/ half = "receiving" /\ PathNext /\ UNCHANGED <<routerSendVars, half>>
  \/ half = "sending" /\ RouterSendNext /\ UNCHANGED <<pathVars, half>>

HalvesSpec == HalvesInit /\ [][HalvesNext]_halfVars /\ (half = "receiving" => PathFairness)

-----------------------------------------------------------------------------
(***************************************************************************)
(* What the documents say and the code does not do: TLC violates each of   *)
(* these when a .cfg names it (README.md tells how).                       *)
(***************************************************************************)

\* SC is served for ever: Tick returns again and again and Service() can run
\* ("a busy IP link cannot starve SC", ScTransportRouter.cpp:130).
ServiceKeepsRunning == half = "receiving" => []<>(phase = "service")

=============================================================================
