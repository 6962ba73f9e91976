------------------------------ MODULE RxAssembly ------------------------------
(***************************************************************************)
(* HandleIncomingFragment (ScTransport.cpp), shared by accepted peers and  *)
(* hub connections: libwebsockets delivers a message in fragments of any   *)
(* size, empty ones included, and the transport assembles them under the   *)
(* ingress ceiling.                                                        *)
(***************************************************************************)
EXTENDS Naturals, Sequences

CONSTANTS Octets,
          Fragments,         \* the octet sequences one callback may carry
          kMaxIngressBytes,
          MaxMessage,        \* bound: octets in a message
          MaxQueue           \* bound: length of the receive queue

ASSUME AssemblyAssumption ==
  /\ Fragments \subseteq Seq(Octets)
  /\ kMaxIngressBytes \in Nat /\ MaxMessage \in Nat /\ MaxQueue \in Nat

VARIABLES
  rxAssembly,
  rxOverflow,
  rxQueue,    \* m_rxQueue, the data of the frames
  message,    \* history: what the peer has sent of the message under way
  connection, \* history: which connection that is, of the last two
  lastSize    \* history: the octets of the message that ended last

vars == <<rxAssembly, rxOverflow, rxQueue, message, connection, lastSize>>

\* A mutant: a message of exactly the ceiling is too large.
ReachesCeiling(d) == rxOverflow \/ Len(rxAssembly) + Len(d) >= kMaxIngressBytes

\* A mutant: one octet too many.
OneOver(d) == rxOverflow \/ Len(rxAssembly) + Len(d) > kMaxIngressBytes + 1

\* Whether the message has grown over the ceiling, with d or before.
Overflows(d) == rxOverflow \/ Len(rxAssembly) + Len(d) > kMaxIngressBytes

Assembled(d) == IF Overflows(d) THEN <<>> ELSE rxAssembly \o d

\* A fragment that is not the last of its message.
Fragment(d) ==
  /\ Len(message) + Len(d) <= MaxMessage
  /\ rxOverflow' = Overflows(d)
  /\ rxAssembly' = Assembled(d)
  /\ message' = message \o d
  /\ UNCHANGED <<rxQueue, connection, lastSize>>

\* A mutant: the overflow outlives its message.
FinalKeepsOverflow(d) ==
  /\ Len(message) + Len(d) <= MaxMessage
  /\ Len(rxQueue) < MaxQueue
  /\ rxQueue' = IF Overflows(d) THEN rxQueue ELSE Append(rxQueue, Assembled(d))
  /\ rxAssembly' = <<>>
  /\ rxOverflow' = Overflows(d)
  /\ message' = <<>> /\ lastSize' = Len(message) + Len(d)
  /\ UNCHANGED connection

\* The last fragment: the frame is queued, unless it is too large.
FinalFragment(d) ==
  /\ Len(message) + Len(d) <= MaxMessage
  /\ Len(rxQueue) < MaxQueue
  /\ rxQueue' = IF Overflows(d) THEN rxQueue ELSE Append(rxQueue, Assembled(d))
  /\ rxAssembly' = <<>>
  /\ rxOverflow' = FALSE
  /\ message' = <<>> /\ lastSize' = Len(message) + Len(d)
  /\ UNCHANGED connection

PopReceived ==
  /\ rxQueue # <<>>
  /\ rxQueue' = Tail(rxQueue)
  /\ UNCHANGED <<rxAssembly, rxOverflow, message, connection, lastSize>>

\* A text fragment closes the connection (1003), or it ends on its own; the next
\* connection starts with nothing assembled.
NewConnection ==
  /\ rxAssembly' = <<>>
  /\ rxOverflow' = FALSE
  /\ message' = <<>>
  /\ connection' = 1 - connection
  /\ UNCHANGED <<rxQueue, lastSize>>

Init ==
  /\ rxAssembly = <<>> /\ rxOverflow = FALSE /\ rxQueue = <<>>
  /\ message = <<>> /\ connection = 0 /\ lastSize = 0

Next ==
  \/ \E d \in Fragments : Fragment(d) \/ FinalFragment(d)
  \/ PopReceived
  \/ NewConnection

Spec == Init /\ [][Next]_vars

-----------------------------------------------------------------------------
(***************************************************************************)
(* Properties                                                              *)
(***************************************************************************)

\* Types, and the ceiling: what is assembled never outgrows the stack's buffer.
TypeOK ==
  /\ rxAssembly \in Seq(Octets) /\ Len(rxAssembly) <= kMaxIngressBytes
  /\ rxOverflow \in BOOLEAN
  /\ rxQueue \in Seq(Seq(Octets))
  /\ message \in Seq(Octets)
  /\ connection \in {0, 1} /\ lastSize \in Nat

Channel == INSTANCE FrameChannel WITH
  frames <- rxQueue, Ceiling <- kMaxIngressBytes

\* However a message is cut into fragments, the stack gets it whole, or not at
\* all when it is over the ceiling, and the next message is not affected.
ImplementsChannel == Channel!ChannelSpec

=============================================================================
