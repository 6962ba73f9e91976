-------------------------- MODULE ScTransportRouter --------------------------
(***************************************************************************)
(* The receiving half of ScTransportRouter.cpp: one stack callback over    *)
(* two transports, the UDP socket of the optional BACnet/IP port and       *)
(* ScTransport.  The stack's Tick calls it until it answers 0              *)
(* (ScTransportRouter.cpp:131-132); Service() runs between Ticks.          *)
(*                                                                         *)
(* What waits on a side is a sequence: on the IP side the sender of each   *)
(* datagram (BoundPort for one from the hub's own UDP port number, Empty   *)
(* for one without octets), on the SC side the size of each frame and of   *)
(* the connection strings that come with it.                               *)
(***************************************************************************)
EXTENDS Naturals, Sequences

CONSTANTS
  BoundPort,   \* devices that send from the same UDP port number
  Empty,       \* an empty datagram, whoever sent it
  OtherPorts,  \* peers that send from another one, tools on this host
  IpEnabled,   \* --port was given and the socket is bound
  NameLengths, \* the lengths connection strings have: a hub's URI has any length
  MaxLength,   \* maxMessageLength, the stack's buffer
  maxConnectionStringLength,
  MaxWaiting,  \* bound: waiting on each side
  MaxPassed    \* bound: how far the history counts

ASSUME RouterAssumption ==
  /\ BoundPort # Empty /\ {BoundPort, Empty} \cap OtherPorts = {}
  /\ IpEnabled \in BOOLEAN
  /\ NameLengths \subseteq Nat /\ NameLengths # {}
  /\ MaxLength \in Nat \ {0} /\ maxConnectionStringLength \in 0 .. 255
  /\ MaxWaiting \in Nat /\ MaxPassed \in Nat \ {0}

VARIABLES
  ip,           \* datagrams in the UDP socket
  sc,           \* m_rxQueue of the transport
  pollIpFirst,  \* m_pollIpFirst
  peer,         \* m_peerIp and m_peerPort; BoundPort for no such peer
  given,        \* what the last call answered: the size handed over, 0 for nothing
  phase,        \* "tick" while the stack calls, "service" for the rest of the loop
  passed        \* history: handovers the head of a side has seen from the other side

routerVars == <<ip, sc, pollIpFirst, peer, given, phase, passed>>

Sides == {"ip", "sc"}
Senders == OtherPorts \cup {BoundPort}
Datagrams == Senders \cup {Empty}

\* A frame's octets, and those of the longer one of its two connection strings.
ScFrames == [size : 0 .. MaxLength + 1, name : NameLengths]

RouterInit ==
  /\ ip = <<>> /\ sc = <<>>
  /\ pollIpFirst = TRUE
  /\ peer = BoundPort
  /\ given = 0
  /\ phase = "tick"
  /\ passed = [s \in Sides |-> 0]

-----------------------------------------------------------------------------
(***************************************************************************)
(* HandleReceiveMessage                                                    *)
(***************************************************************************)

Fits(n) == n <= MaxLength

NameFits(f) == f.name <= maxConnectionStringLength

\* The socket is not read without room for an address and a port.
IpIsRead == IpEnabled /\ maxConnectionStringLength >= 6 /\ ip # <<>>

\* Whether each receive function would hand something over: a frame that is too
\* large, one whose connection string is too long, or one without octets on either
\* side, answers 0 like no frame at all.
IpHandsOver == IpIsRead /\ Head(ip) # Empty
ScHandsOver == sc # <<>> /\ Head(sc).size > 0 /\ Fits(Head(sc).size) /\ NameFits(Head(sc))

\* A mutant: a call that finds nothing on its first side does not flip.
FlipsWhenBusy == IF pollIpFirst = IpHandsOver THEN ~pollIpFirst ELSE pollIpFirst

\* The order of this call: flipped on every call.
PollsIpFirst == ~pollIpFirst

\* The sides this call polls: the second one when the first has handed nothing over.
Polled ==
  {s \in Sides : \/ s = "ip" /\ (PollsIpFirst \/ ~ScHandsOver)
                 \/ s = "sc" /\ (~PollsIpFirst \/ ~IpHandsOver)}

\* What the call hands over: a side, or nothing, which ends the stack's drain.
HandedOver ==
  CASE "ip" \in Polled /\ IpHandsOver -> "ip"
    [] "sc" \in Polled /\ ScHandsOver -> "sc"
    [] OTHER -> "nothing"

\* A peer on another port is remembered when its datagram is read.
ReceiveFromIp ==
  IF "ip" \in Polled /\ IpIsRead
    THEN /\ ip' = Tail(ip)
         /\ peer' = IF Head(ip) \in OtherPorts THEN Head(ip) ELSE peer
    ELSE UNCHANGED <<ip, peer>>

\* A frame that cannot be handed over is taken off the queue all the same.
ReceiveFromSc ==
  sc' = IF "sc" \in Polled /\ sc # <<>> THEN Tail(sc) ELSE sc

\* How often the head of a side has been passed over, after this call.
PassedAfter(s) ==
  LET waits == IF s = "ip" THEN IpIsRead ELSE sc # <<>>
  IN  CASE s \in Polled \/ ~waits -> 0
        [] OTHER -> IF passed[s] < MaxPassed THEN passed[s] + 1 ELSE MaxPassed

HandleReceiveMessage ==
  /\ phase = "tick"
  /\ pollIpFirst' = PollsIpFirst
  /\ ReceiveFromIp
  /\ ReceiveFromSc
  /\ \/ HandedOver = "ip" /\ given' \in 1 .. MaxLength
     \/ HandedOver = "sc" /\ given' = Head(sc).size
     \/ HandedOver = "nothing" /\ given' = 0
  /\ phase' = IF given' = 0 THEN "service" ELSE "tick"
  /\ passed' = [s \in Sides |-> PassedAfter(s)]

-----------------------------------------------------------------------------
(***************************************************************************)
(* The environment                                                         *)
(***************************************************************************)

\* A datagram for the UDP socket, at any time.
DatagramArrives(from) ==
  /\ Len(ip) < MaxWaiting
  /\ ip' = Append(ip, from)
  /\ UNCHANGED <<sc, pollIpFirst, peer, given, phase, passed>>

\* Service() queues a frame.
FrameArrives(frame) ==
  /\ phase = "service"
  /\ Len(sc) < MaxWaiting
  /\ sc' = Append(sc, frame)
  /\ UNCHANGED <<ip, pollIpFirst, peer, given, phase, passed>>

\* The loop comes round to the next Tick.
NextTick ==
  /\ phase = "service"
  /\ phase' = "tick"
  /\ UNCHANGED <<ip, sc, pollIpFirst, peer, given, passed>>

RouterNext ==
  \/ HandleReceiveMessage
  \/ \E from \in Datagrams : DatagramArrives(from)
  \/ \E frame \in ScFrames : FrameArrives(frame)
  \/ NextTick

RouterSpec == RouterInit /\ [][RouterNext]_routerVars

\* The stack keeps calling and the loop keeps turning; nothing is assumed of the
\* senders, who may keep a side busy for ever.
RouterFairSpec == RouterSpec /\ WF_routerVars(HandleReceiveMessage) /\ WF_routerVars(NextTick)

-----------------------------------------------------------------------------
(***************************************************************************)
(* Properties                                                              *)
(***************************************************************************)

\* Types of the router's members and of the queues; the stack is never given more
\* than its buffer holds.
RouterTypeOK ==
  /\ ip \in Seq(Datagrams) /\ Len(ip) <= MaxWaiting
  /\ sc \in Seq(ScFrames) /\ Len(sc) <= MaxWaiting
  /\ pollIpFirst \in BOOLEAN
  /\ peer \in Senders
  /\ given \in 0 .. MaxLength
  /\ phase \in {"tick", "service"}
  /\ passed \in [Sides -> 0 .. MaxPassed]

\* Neither side starves inside a Tick: what is at the head of a side is passed over
\* at most once ("so a busy IP link cannot starve SC (or vice versa)",
\* ScTransportRouter.cpp:130).
PassedOverOnce == \A s \in Sides : passed[s] <= 1

=============================================================================
