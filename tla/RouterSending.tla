---------------------------- MODULE RouterSending ----------------------------
(***************************************************************************)
(* The sending half of ScTransportRouter.cpp: where a frame of the stack   *)
(* goes, by the Network Port it is for and the connection string it has.   *)
(* An answer the stack broadcasts on BACnet/IP also goes to the last tool  *)
(* that asked from another UDP port of this host.                          *)
(*                                                                         *)
(* A frame is a record of what its octets say; FrameOctets lays it out     *)
(* (BVLC, then NPDU, then the service), and the router reads the octets.   *)
(***************************************************************************)
EXTENDS Integers, Sequences

CONSTANTS
  Frames,      \* frames of the stack: function is that of the BVLC, to and from are the
               \* addresses in the NPDU, as sequences of one or none, and pdu is what
               \* follows, a network layer message or an APDU
  Tools,       \* peers on another UDP port
  NoTool       \* m_hasPeer is FALSE

ASSUME SendingAssumption ==
  /\ \A f \in Frames :
       /\ f.function \in 0 .. 255 /\ f.network \in BOOLEAN
       /\ f.to \in Seq(Seq(0 .. 255)) /\ Len(f.to) <= 1
       /\ f.from \in Seq(Seq(0 .. 255)) /\ Len(f.from) <= 1
       /\ f.pdu \in Seq(0 .. 255)
  /\ NoTool \notin Tools

VARIABLES
  udpBound,    \* m_udpBound
  lastTool,    \* m_hasPeer, m_peerIp and m_peerPort
  sent         \* the call under way: its frame, its connection string, where it goes

routerSendVars == <<udpBound, lastTool, sent>>

NoFrame == [function |-> 0, to |-> <<>>, from |-> <<>>, network |-> FALSE, pdu |-> <<>>]
Quiet == [frame |-> NoFrame, string |-> "quiet", went |-> {}]

-----------------------------------------------------------------------------
(***************************************************************************)
(* IsStackChosenBroadcast                                                  *)
(***************************************************************************)

Address(a) == IF a = <<>> THEN <<>> ELSE <<255, 254, Len(a[1])>> \o a[1]
HopCount(f) == IF f.to = <<>> THEN <<>> ELSE <<255>>
Control(f) ==
  (IF f.network THEN 128 ELSE 0) + (IF f.to = <<>> THEN 0 ELSE 32) + (IF f.from = <<>> THEN 0 ELSE 8)

FrameOctets(f) ==
  <<129, f.function, 0, 0, 1, Control(f)>> \o Address(f.to) \o Address(f.from) \o HopCount(f)
    \o f.pdu

Has(octet, value) == (octet \div value) % 2 = 1

Unknown == -1

\* Past an address that begins at i, when the frame goes on to its length.
AfterAddress(octets, i) ==
  IF i = Unknown \/ i + 3 > Len(octets) THEN Unknown ELSE i + 3 + octets[i + 3]

AfterAddresses(octets) ==
  LET to == IF Has(octets[6], 32) THEN AfterAddress(octets, 6) ELSE 6
  IN  IF Has(octets[6], 8) THEN AfterAddress(octets, to) ELSE to

\* A mutant: the hop count is taken for the first octet of the service.
WithoutHopCount(octets) == AfterAddresses(octets)

\* Where the service begins.
ServiceOffset(octets) ==
  LET i == AfterAddresses(octets)
  IN  IF i # Unknown /\ Has(octets[6], 32) THEN i + 1 ELSE i

\* An unconfirmed I-Am or I-Have.
IsIAmOrIHave(octets, i) ==
  /\ i + 2 <= Len(octets)
  /\ octets[i + 1] \div 16 = 1
  /\ octets[i + 2] \in {0, 1}

IsStackChosenBroadcast(octets) ==
  /\ Len(octets) >= 6
  /\ octets[1] = 129 /\ octets[2] \in {10, 11} /\ octets[5] = 1
  /\ ServiceOffset(octets) # Unknown
  /\ \/ Has(octets[6], 128) \/ IsIAmOrIHave(octets, ServiceOffset(octets))

-----------------------------------------------------------------------------
(***************************************************************************)
(* HandleSendMessage                                                       *)
(***************************************************************************)

\* The connection string: none, too short for an address, or an address.
Strings == {"none", "short", "address"}

\* Where a frame for the IP port goes; no string is a broadcast on the subnet.
IpDestinations(f, string) ==
  IF ~udpBound \/ string = "short" THEN {}
  ELSE IF string = "address" THEN {"address"}
  ELSE {"broadcast"} \cup
       (IF lastTool # NoTool /\ IsStackChosenBroadcast(FrameOctets(f)) THEN {lastTool} ELSE {})

SendOnIp(f, string) ==
  /\ sent = Quiet
  /\ sent' = [frame |-> f, string |-> string, went |-> IpDestinations(f, string)]
  /\ UNCHANGED <<udpBound, lastTool>>

\* The SC port: ScTransport::Send takes the frame or does not.
SendOnSc(f) ==
  /\ sent = Quiet
  /\ \E ok \in BOOLEAN : sent' = [frame |-> f, string |-> "sc", went |-> IF ok THEN {"sc"} ELSE {}]
  /\ UNCHANGED <<udpBound, lastTool>>

CallReturns ==
  /\ sent # Quiet
  /\ sent' = Quiet
  /\ UNCHANGED <<udpBound, lastTool>>

\* A datagram of a tool is read (ReceiveFromIp).
HearFrom(tool) ==
  /\ udpBound
  /\ sent = Quiet
  /\ lastTool' = tool
  /\ UNCHANGED <<udpBound, sent>>

\* Start, when --port is given, binds the socket; without it the IP side is off.
RouterSendInit ==
  /\ udpBound \in BOOLEAN
  /\ lastTool = NoTool
  /\ sent = Quiet

RouterSendNext ==
  \/ \E f \in Frames : SendOnSc(f) \/ (\E s \in Strings : SendOnIp(f, s))
  \/ CallReturns
  \/ \E tool \in Tools : HearFrom(tool)

RouterSendSpec == RouterSendInit /\ [][RouterSendNext]_routerSendVars

-----------------------------------------------------------------------------
\* What the router copies to the tool is what the comment says: an answer the stack
\* addresses itself, that is a network layer message, I-Am or I-Have, in an original
\* unicast or broadcast and never a forwarded one, whatever addresses its NPDU has
\* (ScTransportRouter.cpp:242-247).
IsAnswer(f) ==
  /\ f.function \in {10, 11}
  /\ f.network \/ IsIAmOrIHave(f.pdu, 0)

OnlyAnswersAreCopied ==
  sent.string = "none" /\ udpBound =>
    sent.went =
      {"broadcast"} \cup (IF lastTool # NoTool /\ IsAnswer(sent.frame) THEN {lastTool} ELSE {})

=============================================================================
