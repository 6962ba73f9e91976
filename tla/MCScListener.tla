----------------------------- MODULE MCScListener -----------------------------
(***************************************************************************)
(* A small listener for TLC: its sockets and accept URIs as model values.  *)
(***************************************************************************)
EXTENDS ScListener

CONSTANTS w1, w2, u1, u2

\* Sockets and URIs are interchangeable.
ListenerSymmetry == Permutations({w1, w2}) \cup Permutations({u1, u2})

-----------------------------------------------------------------------------
(***************************************************************************)
(* What the documents say and the code does not do: TLC violates each of   *)
(* these when a .cfg names it (README.md tells how).                       *)
(***************************************************************************)

\* A peer whose queue has overflowed is closed ("a peer that stops reading is
\* closed with 1008", sc_transport/README.md).
StalledPeerIsClosed ==
  \A w \in Sockets :
    (w \in DOMAIN peers /\ peers[w].closeRequest = "policy")
      ~> (w \notin DOMAIN peers \/ peers[w].closeRequest # "policy")

\* The stack is not handed a frame of a peer whose close it has been told of: it
\* "learns of a peer from its first frame" (sc_transport/README.md:39), and a close
\* it does not accept is one of a peer it "may never have registered"
\* (ScTransportRouter.cpp:91-95).
NoFrameAfterTheClose ==
  [][rx # <<>> /\ rx' = Tail(rx) => Head(rx) \notin told]_vars

=============================================================================
