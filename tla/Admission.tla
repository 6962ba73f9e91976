------------------------------ MODULE Admission ------------------------------
(***************************************************************************)
(* Who the hub has accepted, as the transport tells it from the frames it  *)
(* carries (ScTransport.cpp, the audit trail), and the connection limit's  *)
(* message (main.cpp).  The limit itself is the stack's: its hub function  *)
(* refuses a Connect-Request when its table is full.                       *)
(*                                                                         *)
(* The stack is external: it answers a Connect-Request with an Accept or a *)
(* NAK, for the limit or for a reason of its own, takes in no connection   *)
(* whose socket is gone, and gives one up by closing its socket or when it *)
(* is told that it is closed.                                              *)
(*                                                                         *)
(* Connections are numbered as m_nextClientId does.  Requests are octets,  *)
(* as far as BvlcPayloadOffset reads them; a device is told by its VMAC    *)
(* and UUID.                                                               *)
(***************************************************************************)
EXTENDS Integers, Sequences, FiniteSets, Functions

CONSTANTS
  Devices,           \* octets that tell the devices that connect apart
  Headers,           \* the BVLC-SC headers a request may have
  MaxHubConnections, \* g_scMaxHubConnections
  MaxTxFrames,       \* kMaxTxQueueFrames
  MaxPeers,          \* bound: connections in a behaviour
  MaxRequests        \* bound: Connect-Requests in a behaviour

\* A header option: a sequence of its data, or of nothing without a Header Data Flag.
Options == {option \in Seq(Seq(0 .. 255)) :
              option = <<>> \/ (Len(option) = 1 /\ Len(option[1]) < 65536)}

ASSUME AdmissionAssumption ==
  /\ Devices \subseteq 0 .. 99
  /\ Headers \subseteq [from : BOOLEAN, to : BOOLEAN,
                        toOptions : Seq(Options), dataOptions : Seq(Options)]
  /\ MaxHubConnections \in Nat \ {0} /\ MaxTxFrames \in Nat \ {0}
  /\ MaxPeers \in Nat /\ MaxRequests \in Nat

VARIABLES
  members,    \* m_peers
  nextMember, \* m_nextClientId
  requests,   \* m_rxQueue: the requests the stack has not read
  newRefusal, \* m_connectRequestsRefused > refusalsSeen
  message,    \* the last limit message: "never", "recent" (within a minute), "old"
  turn,       \* where the main loop is
  hub,        \* the stack: connections in its table
  received,   \* history: how many requests have arrived
  sentBy,     \* history: the devices each connection has named
  welcomed,   \* history: connections whose Connect-Accept was queued
  hubWasFull   \* history: a refusal for the limit since the last check

limit == <<newRefusal, message>>
past == <<received, sentBy, welcomed, hubWasFull>>
admissionVars == <<members, nextMember, requests, limit, turn, hub, past>>

Connections == 1 .. MaxPeers
Open == DOMAIN members

Bit(octet, value) == (octet \div value) % 2 = 1

-----------------------------------------------------------------------------
(***************************************************************************)
(* Connect-Requests as octets                                              *)
(***************************************************************************)

\* One option of a list.
OptionOctets(option, more) ==
  LET marker == 1 + (IF more THEN 128 ELSE 0)
  IN  IF option = <<>> THEN <<marker>>
      ELSE <<marker + 32, Len(option[1]) \div 256, Len(option[1]) % 256>> \o option[1]

\* The list from each option on, and from the first.
OptionTails(options) ==
  LET tail[i \in 1 .. Len(options) + 1] ==
        IF i > Len(options) THEN <<>>
        ELSE OptionOctets(options[i], i < Len(options)) \o tail[i + 1]
  IN  tail

OptionList(options) == OptionTails(options)[1]

Flag(present, value) == IF present THEN value ELSE 0
Vmac(present) == IF present THEN [i \in 1 .. 6 |-> 255] ELSE <<>>

HeaderOctets(h) ==
  <<6, Flag(h.from, 8) + Flag(h.to, 4) + Flag(h.toOptions # <<>>, 2) + Flag(h.dataOptions # <<>>, 1),
    0, 1>>
    \o Vmac(h.from) \o Vmac(h.to) \o OptionList(h.toOptions) \o OptionList(h.dataOptions)

\* VMAC, device UUID, maximum lengths.
Payload(device) ==
  [i \in 1 .. 26 |-> IF i <= 6 THEN device ELSE IF i <= 22 THEN 100 + device ELSE 5]

ConnectRequest(h, device) == HeaderOctets(h) \o Payload(device)

Identity(device) == [vmac |-> [i \in 1 .. 6 |-> device], uuid |-> [i \in 1 .. 16 |-> 100 + device]]
Nobody == [vmac |-> <<>>, uuid |-> <<>>]

-----------------------------------------------------------------------------
(***************************************************************************)
(* AuditReceivedFrame                                                      *)
(***************************************************************************)

OptionIsCutOff(frame, offset) ==
  offset >= Len(frame) \/ (Bit(frame[offset + 1], 32) /\ offset + 3 > Len(frame))

OptionEnd(frame, offset) ==
  offset + 1 + IF Bit(frame[offset + 1], 32)
               THEN 2 + 256 * frame[offset + 2] + frame[offset + 3] ELSE 0

\* Past the options that begin at each offset, or 0 when the frame ends before.
PastOptions(frame) ==
  LET skip[offset \in 0 .. Len(frame)] ==
        IF OptionIsCutOff(frame, offset) THEN 0
        ELSE LET next == OptionEnd(frame, offset)
             IN  IF ~Bit(frame[offset + 1], 128) THEN next
                 ELSE IF next >= Len(frame) THEN 0 ELSE skip[next]
  IN  skip

AfterOptions(frame, begin) == IF begin >= Len(frame) THEN 0 ELSE PastOptions(frame)[begin]

\* A mutant: one list of options for both.
OneOptionList(frame) ==
  IF Len(frame) < 4 THEN 0
  ELSE LET flags == frame[2]
           first == 4 + Flag(Bit(flags, 8), 6) + Flag(Bit(flags, 4), 6)
           after == IF flags % 4 # 0 THEN AfterOptions(frame, first) ELSE first
       IN  IF after <= Len(frame) THEN after ELSE 0

\* The offset of the payload, 0 for a malformed header.
BvlcPayloadOffset(frame) ==
  IF Len(frame) < 4 THEN 0
  ELSE LET flags == frame[2]
           first == 4 + Flag(Bit(flags, 8), 6) + Flag(Bit(flags, 4), 6)
           second == IF Bit(flags, 2) THEN AfterOptions(frame, first) ELSE first
           last == IF Bit(flags, 1) /\ second # 0 THEN AfterOptions(frame, second) ELSE second
       IN  IF last <= Len(frame) THEN last ELSE 0

\* What is recorded of a peer when a frame of it is queued: the newest identity of
\* one that is not accepted.
AuditReceivedFrame(p, frame) ==
  LET offset == BvlcPayloadOffset(frame)
  IN  IF p.accepted \/ offset = 0 \/ Len(frame) < offset + 22 THEN p.who
      ELSE [vmac |-> SubSeq(frame, offset + 1, offset + 6),
            uuid |-> SubSeq(frame, offset + 7, offset + 22)]

-----------------------------------------------------------------------------
(***************************************************************************)
(* Send: AuditSentFrame, then EnqueueFrame                                 *)
(***************************************************************************)

\* A frame to a closing peer goes nowhere; one too many closes it.
EnqueueFrame(p) ==
  IF p.closing THEN p
  ELSE IF p.frames >= MaxTxFrames THEN [p EXCEPT !.frames = 0, !.closing = TRUE]
  ELSE [p EXCEPT !.frames = @ + 1]

IsQueued(p) == ~p.closing /\ p.frames < MaxTxFrames

\* Only the answer to a recorded request is of interest.
AwaitsAnswer(p) == ~p.accepted /\ p.who # Nobody

AuditSentFrame(p, frame) ==
  [p EXCEPT !.accepted = @ \/ (AwaitsAnswer(p) /\ frame = "accept")]

CountsAsRefusal(p, frame) == AwaitsAnswer(p) /\ frame = "result"

\* A mutant: a frame that does not fit is dropped and the peer kept.
DropsWhenFull(c, frame) ==
  /\ members' = [members EXCEPT ![c] =
       IF IsQueued(@) THEN EnqueueFrame(AuditSentFrame(@, frame)) ELSE AuditSentFrame(@, frame)]
  /\ newRefusal' = (newRefusal \/ CountsAsRefusal(members[c], frame))
  /\ welcomed' = IF frame = "accept" /\ IsQueued(members[c]) THEN welcomed \cup {c} ELSE welcomed

Send(c, frame) ==
  /\ members' = [members EXCEPT ![c] = EnqueueFrame(AuditSentFrame(@, frame))]
  /\ newRefusal' = (newRefusal \/ CountsAsRefusal(members[c], frame))
  /\ welcomed' = IF frame = "accept" /\ IsQueued(members[c]) THEN welcomed \cup {c} ELSE welcomed

-----------------------------------------------------------------------------
(***************************************************************************)
(* Tick: the stack answers                                                 *)
(***************************************************************************)

FullHub == Cardinality(hub) >= MaxHubConnections

\* The stack takes a connection it has accepted into its table; whether it does when
\* the Accept could not be sent is its own affair.
StackAccepts(c) ==
  /\ Head(requests).whole
  /\ c \in hub \/ ~FullHub
  /\ Send(c, "accept")
  /\ hub' \in {hub \cup {c}} \cup (IF IsQueued(members[c]) THEN {} ELSE {hub})
  /\ UNCHANGED hubWasFull

StackRefuses(c) ==
  /\ Send(c, "result")
  /\ hubWasFull' = (hubWasFull \/ (Head(requests).whole /\ c \notin hub /\ FullHub))
  /\ UNCHANGED hub

\* A request is read; an answer to a connection that is gone goes nowhere.
StackReads ==
  /\ turn = "tick"
  /\ requests # <<>>
  /\ requests' = Tail(requests)
  /\ LET c == Head(requests).from
     IN  \/ c \in Open /\ (StackAccepts(c) \/ StackRefuses(c))
         \/ c \notin Open /\ UNCHANGED <<members, newRefusal, welcomed, hub, hubWasFull>>
  /\ UNCHANGED <<nextMember, message, turn, received, sentBy>>

\* Traffic of the hub function to a device in its table.
StackSends(c) ==
  /\ turn = "tick"
  /\ c \in hub \cap Open
  /\ Send(c, "traffic")
  /\ UNCHANGED <<nextMember, requests, message, turn, hub, received, sentBy, hubWasFull>>

\* The stack gives a connection up.
StackDisconnects(c) ==
  /\ turn = "tick"
  /\ c \in Open
  /\ members' = [members EXCEPT ![c].closing = TRUE]
  /\ hub' = hub \ {c}
  /\ UNCHANGED <<nextMember, requests, limit, turn, past>>

TickReturns ==
  /\ turn = "tick"
  /\ turn' = "service"
  /\ UNCHANGED <<members, nextMember, requests, limit, hub, past>>

-----------------------------------------------------------------------------
(***************************************************************************)
(* Service and the rest of the loop                                        *)
(***************************************************************************)

\* LWS_CALLBACK_ESTABLISHED
PeerConnects ==
  /\ turn = "service"
  /\ nextMember <= MaxPeers
  /\ members' = [c \in Open \cup {nextMember} |->
                   IF c = nextMember
                   THEN [who |-> Nobody, accepted |-> FALSE, closing |-> FALSE, frames |-> 0]
                   ELSE members[c]]
  /\ nextMember' = nextMember + 1
  /\ UNCHANGED <<requests, limit, turn, hub, past>>

\* LWS_CALLBACK_RECEIVE: a Connect-Request, whole or cut off.
RequestArrives(c, device, h, length) ==
  /\ turn = "service"
  /\ received < MaxRequests
  /\ LET request == ConnectRequest(h, device)
         frame == SubSeq(request, 1, length)
     IN  /\ members' = [members EXCEPT ![c].who = AuditReceivedFrame(members[c], frame)]
         /\ requests' = Append(requests, [from |-> c, whole |-> length = Len(request)])
         /\ sentBy' = sentBy \cup {[from |-> c, device |-> device]}
         /\ received' = received + 1
  /\ UNCHANGED <<nextMember, limit, turn, hub, welcomed, hubWasFull>>

\* LWS_CALLBACK_SERVER_WRITEABLE
FrameGoesOut(c) ==
  /\ turn = "service"
  /\ members[c].frames > 0
  /\ members' = [members EXCEPT ![c].frames = @ - 1]
  /\ UNCHANGED <<nextMember, requests, limit, turn, hub, past>>

\* LWS_CALLBACK_CLOSED: forgotten at once, reported at the next drain.
PeerCloses(c) ==
  /\ turn = "service"
  /\ members' = Restrict(members, Open \ {c})
  /\ UNCHANGED <<nextMember, requests, limit, turn, hub, past>>

ServiceReturns ==
  /\ turn = "service"
  /\ turn' = "drain"
  /\ UNCHANGED <<members, nextMember, requests, limit, hub, past>>

\* DrainStatusEvents: the stack learns of every close.
Drain ==
  /\ turn = "drain"
  /\ hub' = hub \cap Open
  /\ turn' = "check"
  /\ UNCHANGED <<members, nextMember, requests, limit, past>>

\* GetMetrics
AcceptedPeerCount == Cardinality({c \in Open : members[c].accepted})

MessageIsDue == newRefusal /\ AcceptedPeerCount >= MaxHubConnections /\ message # "recent"

CheckLimit ==
  /\ turn = "check"
  /\ newRefusal' = FALSE
  /\ message' = IF MessageIsDue THEN "recent" ELSE message
  /\ hubWasFull' = FALSE
  /\ turn' = "reload"
  /\ UNCHANGED <<members, nextMember, requests, hub, received, sentBy, welcomed>>

\* The turn ends; a reload closes every peer.
TurnEnds ==
  /\ turn = "reload"
  /\ members' \in {members, <<>>}
  /\ turn' = "tick"
  /\ UNCHANGED <<nextMember, requests, limit, hub, past>>

MinutePasses ==
  /\ message = "recent"
  /\ message' = "old"
  /\ UNCHANGED <<members, nextMember, requests, newRefusal, turn, hub, past>>

AdmissionInit ==
  /\ members = <<>> /\ nextMember = 1
  /\ requests = <<>>
  /\ newRefusal = FALSE /\ message = "never"
  /\ turn = "tick"
  /\ hub = {}
  /\ received = 0 /\ sentBy = {} /\ welcomed = {} /\ hubWasFull = FALSE

AdmissionNext ==
  \/ StackReads
  \/ \E c \in Open : \/ StackSends(c) \/ StackDisconnects(c) \/ FrameGoesOut(c) \/ PeerCloses(c)
                     \/ \E device \in Devices, h \in Headers :
                          \E length \in {Len(HeaderOctets(h)) + 21, Len(HeaderOctets(h)) + 26} \cup {5, 13} :
                            RequestArrives(c, device, h, length)
  \/ TickReturns \/ PeerConnects \/ ServiceReturns \/ Drain \/ CheckLimit \/ TurnEnds
  \/ MinutePasses

AdmissionSpec == AdmissionInit /\ [][AdmissionNext]_admissionVars

-----------------------------------------------------------------------------
(***************************************************************************)
(* Properties                                                              *)
(***************************************************************************)

\* The audit trail reads a peer's identity where the stack does, whatever headers a
\* Connect-Request has and wherever it is cut off: what is recorded of a peer is a
\* device it has named (ScTransport.cpp:1325-1335).
AuditNamesADevice ==
  \A c \in Open : members[c].who # Nobody =>
    \E s \in sentBy : s.from = c /\ members[c].who = Identity(s.device)

\* A peer counts as accepted before its Connect-Accept is queued
\* (ScTransport.cpp:1256-1257), and the count is still right.  Nobody counts who will
\* not be told: the Accept was queued, or the peer is being closed.  And when main
\* checks the limit (main.cpp:2540-2544) the count is never below the stack's table, so
\* that a refusal for the limit finds it reached, and above it only by peers that are
\* being closed.
CountMatchesTheHub ==
  /\ \A c \in Open : members[c].accepted => c \in welcomed \/ members[c].closing
  /\ turn = "check" =>
       /\ hub \subseteq {c \in Open : members[c].accepted}
       /\ \A c \in Open \ hub : members[c].accepted => members[c].closing

=============================================================================
