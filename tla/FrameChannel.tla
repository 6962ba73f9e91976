----------------------------- MODULE FrameChannel -----------------------------
(***************************************************************************)
(* What the stack may rely on for the frames of one connection: each       *)
(* message the peer sends is handed over whole and in order, or - when it  *)
(* is larger than the ingress ceiling - not at all, and a message that is  *)
(* dropped leaves no trace on the next one (sc_transport/README.md, fact   *)
(* 8).  Fragments do not appear in this specification.                     *)
(***************************************************************************)
EXTENDS Naturals, Sequences

CONSTANTS Fragments,    \* what one fragment may carry
          Ceiling       \* the largest message, in octets

VARIABLES message,     \* what the peer has sent of the message under way
          connection,  \* which connection it is sent on, of the last two
          lastSize,    \* the octets of the message that ended last
          frames       \* handed over and not yet taken by the stack

channelVars == <<message, connection, lastSize, frames>>

ChannelInit == message = <<>> /\ connection = 0 /\ lastSize = 0 /\ frames = <<>>

\* The peer sends more of its message.
Extend(d) == message' = message \o d /\ UNCHANGED <<connection, lastSize, frames>>

\* The peer ends its message.
Finish(d) ==
  /\ message' = <<>>
  /\ lastSize' = Len(message \o d)
  /\ frames' = IF Len(message \o d) <= Ceiling THEN Append(frames, message \o d) ELSE frames
  /\ UNCHANGED connection

Take == frames # <<>> /\ frames' = Tail(frames) /\ UNCHANGED <<message, connection, lastSize>>

\* The connection closes and another one takes its place: only then may a message
\* of a legal size be lost.
Reopen ==
  message' = <<>> /\ connection' = 1 - connection /\ UNCHANGED <<lastSize, frames>>

ChannelNext ==
  \/ \E d \in Fragments : Extend(d) \/ Finish(d)
  \/ Take \/ Reopen

ChannelSpec == ChannelInit /\ [][ChannelNext]_channelVars

=============================================================================
