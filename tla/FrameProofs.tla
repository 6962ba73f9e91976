----------------------------- MODULE FrameProofs -----------------------------
(***************************************************************************)
(* The frames' ways in and out, for every ceiling, buffer, queue bound and *)
(* set of fragments and frames.  Assembly implements FrameChannel: what is *)
(* assembled is what has been sent of the message, or nothing once that is *)
(* over the ceiling.  The router passes neither side over twice, the two   *)
(* put together lose no frame but one whose connection string is too long  *)
(* for the stack, and only answers are copied to a tool.                   *)
(***************************************************************************)
EXTENDS FramePath, RouterSending, SequenceTheorems, TLAPS

AssemblyInv ==
  /\ TypeOK
  /\ rxOverflow <=> Len(message) > kMaxIngressBytes
  /\ rxAssembly = IF rxOverflow THEN <<>> ELSE message

\* The overflow test of a fragment is a test of the whole message.
LEMMA OverflowMeansTooLarge ==
  ASSUME AssemblyInv, NEW d \in Fragments
  PROVE  /\ message \o d \in Seq(Octets)
         /\ Overflows(d) <=> Len(message \o d) > kMaxIngressBytes
         /\ Assembled(d) = IF Overflows(d) THEN <<>> ELSE message \o d
<1>1. d \in Seq(Octets) /\ message \in Seq(Octets) /\ kMaxIngressBytes \in Nat
  BY AssemblyAssumption DEF AssemblyAssumption, AssemblyInv, TypeOK
<1>2. message \o d \in Seq(Octets) /\ Len(message \o d) = Len(message) + Len(d)
  BY <1>1, ConcatProperties
<1>3. Len(d) \in Nat /\ Len(message) \in Nat
  BY <1>1, LenProperties
<1>4. Overflows(d) <=> Len(message \o d) > kMaxIngressBytes
  <2>1. CASE rxOverflow
    BY <1>1, <1>2, <1>3, <2>1 DEF Overflows, AssemblyInv
  <2>2. CASE ~rxOverflow
    BY <1>1, <1>2, <1>3, <2>2 DEF Overflows, AssemblyInv
  <2> QED
    BY <2>1, <2>2
<1>5. Assembled(d) = IF Overflows(d) THEN <<>> ELSE message \o d
  BY DEF Assembled, Overflows, AssemblyInv
<1> QED
  BY <1>2, <1>4, <1>5

\* Nothing assembled of an empty message is a good state.
LEMMA NothingAssembled ==
  ASSUME rxAssembly = <<>>, rxOverflow = FALSE, message = <<>>, rxQueue \in Seq(Seq(Octets)),
         connection \in {0, 1}, lastSize \in Nat
  PROVE  AssemblyInv
<1>1. kMaxIngressBytes \in Nat /\ <<>> \in Seq(Octets) /\ Len(<<>>) = 0
  BY AssemblyAssumption DEF AssemblyAssumption
<1>2. ~(Len(message) > kMaxIngressBytes) /\ Len(rxAssembly) <= kMaxIngressBytes
  BY <1>1
<1> QED
  BY <1>1, <1>2 DEF AssemblyInv, TypeOK

\* A connection starts with nothing assembled.
LEMMA AssemblyInit == Init => AssemblyInv
<1>1. <<>> \in Seq(Seq(Octets)) /\ 0 \in {0, 1} /\ 0 \in Nat
  OBVIOUS
<1> SUFFICES ASSUME Init PROVE AssemblyInv
  OBVIOUS
<1>2. /\ rxAssembly = <<>> /\ rxOverflow = FALSE /\ message = <<>>
      /\ rxQueue \in Seq(Seq(Octets)) /\ connection \in {0, 1} /\ lastSize \in Nat
  BY <1>1 DEF Init
<1> QED
  BY <1>2, NothingAssembled

\* Every fragment, pop and new connection keeps the invariant.
LEMMA AssemblyStep == AssemblyInv /\ [Next]_vars => AssemblyInv'
<1> SUFFICES ASSUME AssemblyInv, [Next]_vars PROVE AssemblyInv'
  OBVIOUS
<1>1. /\ kMaxIngressBytes \in Nat /\ <<>> \in Seq(Octets) /\ Len(<<>>) = 0
      /\ rxQueue \in Seq(Seq(Octets)) /\ connection \in {0, 1} /\ lastSize \in Nat
  BY AssemblyAssumption DEF AssemblyAssumption, AssemblyInv, TypeOK
<1>2. ASSUME rxAssembly' = <<>>, rxOverflow' = FALSE, message' = <<>>,
             rxQueue' \in Seq(Seq(Octets)), connection' \in {0, 1}, lastSize' \in Nat
      PROVE  AssemblyInv'
  <2>1. ~(Len(message') > kMaxIngressBytes) /\ Len(rxAssembly') <= kMaxIngressBytes
    BY <1>1, <1>2
  <2> QED
    BY <1>1, <1>2, <2>1 DEF AssemblyInv, TypeOK
<1>3. ASSUME NEW d \in Fragments, Fragment(d) PROVE AssemblyInv'
  <2>1. rxOverflow' = Overflows(d) /\ rxAssembly' = Assembled(d)
        /\ message' = message \o d /\ rxQueue' = rxQueue /\ connection' = connection
        /\ lastSize' = lastSize
    BY <1>3 DEF Fragment
  <2>2. Overflows(d) \in BOOLEAN
    BY DEF Overflows, AssemblyInv, TypeOK
  <2>3. /\ message \o d \in Seq(Octets) /\ Len(message \o d) \in Nat
        /\ Overflows(d) <=> Len(message \o d) > kMaxIngressBytes
        /\ Assembled(d) = IF Overflows(d) THEN <<>> ELSE message \o d
    BY OverflowMeansTooLarge, LenProperties
  <2>4. Assembled(d) \in Seq(Octets) /\ Len(Assembled(d)) <= kMaxIngressBytes
    <3>1. CASE Overflows(d)
      BY <1>1, <2>3, <3>1
    <3>2. CASE ~Overflows(d)
      BY <1>1, <2>3, <3>2
    <3> QED
      BY <3>1, <3>2
  <2>5. TypeOK'
    BY <1>1, <2>1, <2>2, <2>3, <2>4 DEF TypeOK
  <2> QED
    BY <2>1, <2>3, <2>5 DEF AssemblyInv
<1>4. ASSUME NEW d \in Fragments, FinalFragment(d) PROVE AssemblyInv'
  <2>1. rxOverflow' = FALSE /\ rxAssembly' = <<>> /\ message' = <<>>
        /\ connection' = connection
        /\ rxQueue' = IF Overflows(d) THEN rxQueue ELSE Append(rxQueue, Assembled(d))
    BY <1>4 DEF FinalFragment
  <2>2. Assembled(d) \in Seq(Octets)
    BY <1>1, OverflowMeansTooLarge
  <2>3. rxQueue' \in Seq(Seq(Octets))
    BY <1>1, <2>1, <2>2, AppendProperties
  <2>4. lastSize' \in Nat
    <3>1. d \in Seq(Octets) /\ message \in Seq(Octets)
      BY AssemblyAssumption DEF AssemblyAssumption, AssemblyInv, TypeOK
    <3>2. Len(d) \in Nat /\ Len(message) \in Nat
      BY <3>1, LenProperties
    <3> QED
      BY <1>4, <3>2 DEF FinalFragment
  <2> QED
    BY <1>1, <1>2, <2>1, <2>3, <2>4
<1>5. CASE PopReceived
  <2>1. rxQueue' \in Seq(Seq(Octets))
    BY <1>1, <1>5, HeadTailProperties DEF PopReceived
  <2> QED
    BY <1>5, <2>1 DEF PopReceived, AssemblyInv, TypeOK
<1>6. CASE NewConnection
  <2>1. connection' \in {0, 1}
    BY <1>1, <1>6 DEF NewConnection
  <2> QED
    BY <1>1, <1>2, <1>6, <2>1 DEF NewConnection
<1>7. CASE UNCHANGED vars
  BY <1>7 DEF vars, AssemblyInv, TypeOK
<1> QED
  BY <1>3, <1>4, <1>5, <1>6, <1>7 DEF Next

\* What is assembled never outgrows the ceiling, whatever fragments arrive.
THEOREM TypeCorrect == Spec => []TypeOK
<1>1. AssemblyInv => TypeOK
  BY DEF AssemblyInv
<1> QED
  BY <1>1, AssemblyInit, AssemblyStep, PTL DEF Spec

\* Each callback is one step of the channel.
LEMMA StepIsChannelStep ==
  AssemblyInv /\ [Next]_vars => [Channel!ChannelNext]_(Channel!channelVars)
<1> SUFFICES ASSUME AssemblyInv, [Next]_vars
             PROVE  [Channel!ChannelNext]_(Channel!channelVars)
  OBVIOUS
<1>1. ASSUME NEW d \in Fragments, Fragment(d) PROVE Channel!Extend(d)
  BY <1>1 DEF Fragment, Channel!Extend
<1>2. ASSUME NEW d \in Fragments, FinalFragment(d) PROVE Channel!Finish(d)
  <2>1. kMaxIngressBytes \in Nat /\ Len(message \o d) \in Nat
    BY OverflowMeansTooLarge, LenProperties, AssemblyAssumption DEF AssemblyAssumption
  <2>2. ~Overflows(d) <=> Len(message \o d) <= kMaxIngressBytes
    BY <2>1, OverflowMeansTooLarge
  <2>3. Len(message \o d) = Len(message) + Len(d)
    <3>1. d \in Seq(Octets) /\ message \in Seq(Octets)
      BY AssemblyAssumption DEF AssemblyAssumption, AssemblyInv, TypeOK
    <3> QED
      BY <3>1, ConcatProperties
  <2> QED
    BY <1>2, <2>2, <2>3, OverflowMeansTooLarge DEF FinalFragment, Channel!Finish
<1>3. PopReceived => Channel!Take
  BY DEF PopReceived, Channel!Take
<1>4. NewConnection => Channel!Reopen
  BY DEF NewConnection, Channel!Reopen
<1>5. UNCHANGED vars => UNCHANGED Channel!channelVars
  BY DEF vars, Channel!channelVars
<1> QED
  BY <1>1, <1>2, <1>3, <1>4, <1>5 DEF Next, Channel!ChannelNext

\* HandleIncomingFragment delivers each message whole or, over the ceiling, not
\* at all, for every ceiling and however messages are cut.
THEOREM AssemblyImplementsChannel == Spec => ImplementsChannel
<1>1. Init => Channel!ChannelInit
  BY DEF Init, Channel!ChannelInit
<1> QED
  BY <1>1, AssemblyInit, AssemblyStep, StepIsChannelStep, PTL
  DEF Spec, ImplementsChannel, Channel!ChannelSpec

-----------------------------------------------------------------------------
(***************************************************************************)
(* The router                                                              *)
(***************************************************************************)

\* Every call and every arrival keeps the types.
LEMMA RouterTypeInductive ==
  /\ RouterInit => RouterTypeOK
  /\ RouterTypeOK /\ [RouterNext]_routerVars => RouterTypeOK'
<1>0. /\ MaxWaiting \in Nat /\ MaxLength \in Nat \ {0} /\ MaxPassed \in Nat \ {0}
      /\ BoundPort # Empty /\ {BoundPort, Empty} \cap OtherPorts = {}
  BY RouterAssumption
<1> USE DEF RouterTypeOK
<1>1. RouterInit => RouterTypeOK
  BY <1>0 DEF RouterInit, Senders
<1>2. ASSUME RouterTypeOK, HandleReceiveMessage PROVE RouterTypeOK'
  <2>1. ip' \in Seq(Datagrams) /\ Len(ip') <= MaxWaiting /\ peer' \in Senders
    <3>1. ip # <<>> => /\ Tail(ip) \in Seq(Datagrams) /\ Len(Tail(ip)) = Len(ip) - 1
      BY <1>2, HeadTailProperties
    <3>2. Len(ip) \in Nat /\ Len(ip) - 1 <= Len(ip)
      BY <1>2
    <3>3. ReceiveFromIp
      BY <1>2 DEF HandleReceiveMessage
    <3>4. /\ ip' = ip \/ (ip # <<>> /\ ip' = Tail(ip))
          /\ peer' \in Senders
      <4>1. CASE "ip" \in Polled /\ IpIsRead
        <5>1. ip # <<>> /\ ip' = Tail(ip) /\ (peer' = peer \/ peer' \in OtherPorts)
          BY <3>3, <4>1 DEF ReceiveFromIp, IpIsRead
        <5> QED
          BY <1>2, <5>1 DEF Senders
      <4>2. CASE ~("ip" \in Polled /\ IpIsRead)
        <5>1. ip' = ip /\ peer' = peer
          BY <3>3, <4>2 DEF ReceiveFromIp
        <5> QED
          BY <1>2, <5>1
      <4> QED
        BY <4>1, <4>2
    <3>5. CASE ip' = ip
      BY <1>2, <3>4, <3>5
    <3>6. CASE ip # <<>> /\ ip' = Tail(ip)
      <4>1. Len(ip') = Len(ip) - 1
        BY <3>1, <3>6
      <4>2. Len(ip') <= MaxWaiting
        BY <1>0, <1>2, <3>2, <4>1
      <4> QED
        BY <3>1, <3>4, <3>6, <4>2
    <3> QED
      BY <3>4, <3>5, <3>6
  <2>2. sc' \in Seq(ScFrames) /\ Len(sc') <= MaxWaiting
    <3>1. sc # <<>> => /\ Tail(sc) \in Seq(ScFrames) /\ Len(Tail(sc)) = Len(sc) - 1
      BY <1>2, HeadTailProperties
    <3>2. Len(sc) \in Nat /\ Len(sc) - 1 <= Len(sc)
      BY <1>2
    <3>3. sc' = sc \/ (sc # <<>> /\ sc' = Tail(sc))
      BY <1>2 DEF HandleReceiveMessage, ReceiveFromSc
    <3>4. CASE sc' = sc
      BY <1>2, <3>4
    <3>5. CASE sc # <<>> /\ sc' = Tail(sc)
      <4>1. Len(sc') = Len(sc) - 1
        BY <3>1, <3>5
      <4>2. Len(sc') <= MaxWaiting
        BY <1>0, <1>2, <3>2, <4>1
      <4> QED
        BY <3>1, <3>5, <4>2
    <3> QED
      BY <3>3, <3>4, <3>5
  <2>3. given' \in 0 .. MaxLength
    <3>1. CASE HandedOver = "sc"
      <4>1. sc # <<>> /\ Head(sc) \in ScFrames
        BY <1>2, <3>1 DEF HandedOver, ScHandsOver
      <4>2. Head(sc).size \in 0 .. MaxLength + 1
        BY <4>1 DEF ScFrames
      <4>3. Head(sc).size <= MaxLength
        BY <3>1 DEF HandedOver, ScHandsOver, Fits
      <4> QED
        BY <1>0, <1>2, <3>1, <4>2, <4>3 DEF HandleReceiveMessage
    <3>2. CASE HandedOver # "sc"
      BY <1>0, <1>2, <3>2 DEF HandleReceiveMessage
    <3> QED
      BY <3>1, <3>2
  <2>4. passed' \in [Sides -> 0 .. MaxPassed]
    <3>1. \A s \in Sides : PassedAfter(s) \in 0 .. MaxPassed
      BY <1>0, <1>2 DEF PassedAfter
    <3> QED
      BY <1>2, <3>1 DEF HandleReceiveMessage
  <2> QED
    BY <1>2, <2>1, <2>2, <2>3, <2>4 DEF HandleReceiveMessage, PollsIpFirst
<1>3. ASSUME RouterTypeOK, NEW from \in Datagrams, DatagramArrives(from)
      PROVE  RouterTypeOK'
  BY <1>0, <1>3, AppendProperties DEF DatagramArrives
<1>4. ASSUME RouterTypeOK, NEW frame \in ScFrames, FrameArrives(frame)
      PROVE  RouterTypeOK'
  BY <1>0, <1>4, AppendProperties DEF FrameArrives
<1>5. ASSUME RouterTypeOK, NextTick \/ UNCHANGED routerVars PROVE RouterTypeOK'
  BY <1>5 DEF NextTick, routerVars
<1> QED
  BY <1>1, <1>2, <1>3, <1>4, <1>5 DEF RouterNext

\* The stack is never given more than its buffer holds, whatever size a frame has.
THEOREM RouterTypeCorrect == RouterSpec => []RouterTypeOK
BY RouterTypeInductive, PTL DEF RouterSpec

\* The order flips on every call, so a side that was passed over is polled first.
FlipInv ==
  /\ passed["ip"] \in {0, 1} /\ passed["sc"] \in {0, 1}
  /\ passed["ip"] = 1 => ~pollIpFirst
  /\ passed["sc"] = 1 => pollIpFirst

\* A call passes a side over only if it polls the other one first, and then the next
\* call begins with it.
LEMMA FlipInductive ==
  /\ RouterInit => FlipInv
  /\ FlipInv /\ [RouterNext]_routerVars => FlipInv'
<1> USE DEF FlipInv
<1>1. RouterInit => FlipInv
  BY DEF RouterInit, Sides
<1>2. ASSUME FlipInv, HandleReceiveMessage PROVE FlipInv'
  <2>1. MaxPassed \in Nat /\ MaxPassed >= 1
    BY RouterAssumption
  <2>2. /\ passed' = [s \in Sides |-> PassedAfter(s)]
        /\ pollIpFirst' = ~pollIpFirst
    BY <1>2 DEF HandleReceiveMessage, PollsIpFirst
  <2>3. /\ "ip" \in Polled <=> ~pollIpFirst \/ ~ScHandsOver
        /\ "sc" \in Polled <=> pollIpFirst \/ ~IpHandsOver
    BY DEF Polled, Sides, PollsIpFirst
  <2>4. PassedAfter("ip") \in {0, 1} /\ (PassedAfter("ip") = 1 => pollIpFirst)
    BY <1>2, <2>1, <2>3 DEF PassedAfter
  <2>5. PassedAfter("sc") \in {0, 1} /\ (PassedAfter("sc") = 1 => ~pollIpFirst)
    BY <1>2, <2>1, <2>3 DEF PassedAfter
  <2> QED
    BY <2>2, <2>4, <2>5 DEF Sides
<1>3. ASSUME FlipInv, [RouterNext]_routerVars PROVE FlipInv'
  <2>1. UNCHANGED <<passed, pollIpFirst>> => FlipInv'
    BY <1>3
  <2> QED
    BY <1>2, <1>3, <2>1 DEF RouterNext, DatagramArrives, FrameArrives, NextTick, routerVars
<1> QED
  BY <1>1, <1>3

\* Neither the UDP socket nor the SC transport starves the other inside a Tick, for
\* every traffic.
THEOREM NeitherSideStarves == RouterSpec => []PassedOverOnce
<1>1. FlipInv => PassedOverOnce
  BY DEF FlipInv, PassedOverOnce, Sides
<1> QED
  BY <1>1, FlipInductive, PTL DEF RouterSpec

-----------------------------------------------------------------------------
(***************************************************************************)
(* The path                                                                *)
(***************************************************************************)

\* The router sees the size of each assembled frame.
SizesMatch ==
  /\ sc \in Seq(ScFrames) /\ Len(sc) = Len(rxQueue)
  /\ \A i \in 1 .. Len(rxQueue) : sc[i].size = Len(rxQueue[i])

\* No frame that was queued is larger than the ceiling.
NoneTooLarge == \A i \in 1 .. Len(rxQueue) : Len(rxQueue[i]) <= kMaxIngressBytes

PathInv == AssemblyInv /\ SizesMatch /\ NoneTooLarge /\ name \in NameLengths

\* What is assembled is a frame the router may see.
LEMMA MeasuredIsAFrame ==
  ASSUME PathInv, NEW d \in Fragments, Completes(d), ~Overflows(d)
  PROVE  /\ Assembled(d) \in Seq(Octets) /\ Len(Assembled(d)) \in Nat
         /\ Len(Assembled(d)) <= kMaxIngressBytes
         /\ [size |-> Len(Assembled(d)), name |-> name] \in ScFrames
<1>1. rxQueue \in Seq(Seq(Octets)) /\ kMaxIngressBytes \in Nat /\ MaxLength \in Nat
      /\ kMaxIngressBytes <= MaxLength
  BY AssemblyAssumption, RouterAssumption, PathAssumption DEF PathInv, AssemblyInv, TypeOK
<1>2. /\ Assembled(d) = message \o d /\ message \o d \in Seq(Octets)
      /\ ~(Len(message \o d) > kMaxIngressBytes)
  BY OverflowMeansTooLarge DEF PathInv
<1>3. Len(Assembled(d)) \in Nat /\ Len(Assembled(d)) <= kMaxIngressBytes
  BY <1>1, <1>2, LenProperties
<1>4. Len(Assembled(d)) \in 0 .. MaxLength + 1
  BY <1>1, <1>3
<1> QED
  BY <1>2, <1>3, <1>4 DEF PathInv, ScFrames

\* Each step of the path is a step of the assembly.
LEMMA PathStepsAssemble ==
  /\ PathInit => Init
  /\ [PathNext]_pathVars => [Next]_vars
<1>1. PathInit => Init
  BY DEF PathInit
<1>2. ASSUME [PathNext]_pathVars PROVE [Next]_vars
  <2>1. ASSUME NEW d \in Fragments, PeerSends(d) PROVE Next
    BY <2>1 DEF PeerSends, Completes, Next
  <2>2. PeerReconnects => Next
    BY DEF PeerReconnects, Next
  <2>3. StackReceives => Next \/ UNCHANGED vars
    BY DEF StackReceives, Next
  <2> QED
    BY <1>2, <2>1, <2>2, <2>3 DEF PathNext, pathVars
<1> QED
  BY <1>1, <1>2

\* What the stack takes off the queue is the frame the router has looked at.
LEMMA TakenIsTheHead ==
  ASSUME PathInv, StackReceives
  PROVE  /\ SizesMatch' /\ NoneTooLarge'
         /\ Len(rxQueue') < Len(rxQueue) =>
              /\ rxQueue' = Tail(rxQueue)
              /\ \/ given' = Len(Head(rxQueue))
                 \/ Head(rxQueue) = <<>>
                 \/ ~NameFits(Head(sc))
<1>1. rxQueue \in Seq(Seq(Octets)) /\ kMaxIngressBytes \in Nat
  BY AssemblyAssumption DEF PathInv, AssemblyInv, TypeOK
<1>2. /\ Len(rxQueue) \in Nat
      /\ \A i \in 1 .. Len(rxQueue) : rxQueue[i] \in Seq(Octets) /\ Len(rxQueue[i]) \in Nat
  BY <1>1
<1>3. /\ sc \in Seq(ScFrames) /\ Len(sc) = Len(rxQueue)
      /\ \A i \in 1 .. Len(rxQueue) : sc[i].size = Len(rxQueue[i])
  BY DEF PathInv, SizesMatch
<1>4. CASE "sc" \in Polled /\ sc # <<>>
  <2>1. sc' = Tail(sc) /\ HandleReceiveMessage
    BY <1>4 DEF StackReceives, HandleReceiveMessage, ReceiveFromSc
  <2>2. /\ Len(sc') = Len(sc) - 1
        /\ \A i \in 1 .. Len(sc') : sc'[i] = sc[i + 1]
        /\ sc' \in Seq(ScFrames)
    BY <1>3, <1>4, <2>1, HeadTailProperties
  <2>3. rxQueue # <<>> /\ rxQueue' = Tail(rxQueue)
    BY <1>2, <1>3, <2>2 DEF StackReceives, PopReceived
  <2>4. /\ Len(rxQueue') = Len(rxQueue) - 1
        /\ \A i \in 1 .. Len(rxQueue') : rxQueue'[i] = rxQueue[i + 1]
    BY <1>1, <2>3, HeadTailProperties
  <2>5. \A i \in 1 .. Len(rxQueue') : i + 1 \in 1 .. Len(rxQueue) /\ i \in 1 .. Len(sc')
    BY <1>2, <1>3, <2>2, <2>4
  <2>6. SizesMatch'
    <3>1. ASSUME NEW i \in 1 .. Len(rxQueue') PROVE sc'[i].size = Len(rxQueue'[i])
      <4>1. sc'[i] = sc[i + 1] /\ rxQueue'[i] = rxQueue[i + 1]
        BY <2>2, <2>4, <2>5
      <4>2. sc[i + 1].size = Len(rxQueue[i + 1])
        BY <1>3, <2>5
      <4> QED
        BY <4>1, <4>2
    <3>2. Len(sc') = Len(rxQueue')
      BY <1>3, <2>2, <2>4
    <3> QED
      BY <2>2, <3>1, <3>2 DEF SizesMatch
  <2>7. NoneTooLarge'
    BY <2>4, <2>5 DEF PathInv, NoneTooLarge
  <2>8. Head(sc).size = Len(Head(rxQueue)) /\ Len(Head(rxQueue)) <= kMaxIngressBytes
        /\ Head(rxQueue) \in Seq(Octets)
    <3>1. Len(rxQueue) >= 1 /\ 1 \in 1 .. Len(rxQueue)
      BY <1>1, <1>2, <2>3, EmptySeq
    <3>2. Head(rxQueue) = rxQueue[1] /\ Head(sc) = sc[1]
      BY <1>1, <1>3, <1>4, <2>3
    <3> QED
      BY <1>2, <1>3, <3>1, <3>2 DEF PathInv, NoneTooLarge
  <2>9. PICK n \in Nat : n = Len(Head(rxQueue))
    BY <2>8, LenProperties
  <2>10. CASE n > 0 /\ NameFits(Head(sc))
    <3>1. ScHandsOver
      <4>1. n <= MaxLength
        BY <1>1, <2>8, <2>9, PathAssumption, RouterAssumption
      <4> QED
        BY <1>4, <2>8, <2>9, <2>10, <4>1 DEF ScHandsOver, Fits
    <3>2. HandedOver = "sc"
      BY <1>4, <3>1 DEF HandedOver, Polled
    <3>3. given' = Head(sc).size
      BY <2>1, <3>2 DEF HandleReceiveMessage
    <3> QED
      BY <2>3, <2>6, <2>7, <2>8, <3>3
  <2>11. CASE ~(n > 0)
    <3>1. Head(rxQueue) = <<>>
      BY <2>8, <2>9, <2>11, EmptySeq, LenProperties
    <3> QED
      BY <2>3, <2>6, <2>7, <3>1
  <2>12. CASE ~NameFits(Head(sc))
    BY <2>3, <2>6, <2>7, <2>12
  <2> QED
    BY <2>10, <2>11, <2>12
<1>5. CASE ~("sc" \in Polled /\ sc # <<>>)
  <2>1. sc' = sc
    BY <1>5 DEF StackReceives, HandleReceiveMessage, ReceiveFromSc
  <2>2. UNCHANGED vars
    BY <1>2, <1>3, <2>1 DEF StackReceives
  <2> QED
    BY <1>2, <2>1, <2>2 DEF vars, PathInv, SizesMatch, NoneTooLarge
<1> QED
  BY <1>4, <1>5

\* A frame that is queued has been measured.
LEMMA CompletedIsMeasured ==
  ASSUME PathInv, NEW d \in Fragments, Completes(d)
  PROVE  SizesMatch' /\ NoneTooLarge'
<1>1. rxQueue \in Seq(Seq(Octets)) /\ Len(rxQueue) \in Nat
  BY DEF PathInv, AssemblyInv, TypeOK
<1>2. CASE Overflows(d)
  BY <1>2 DEF Completes, FinalFragment, routerVars, PathInv, SizesMatch, NoneTooLarge
<1>3. CASE ~Overflows(d)
  <2> DEFINE f == [size |-> Len(Assembled(d)), name |-> name]
  <2>1. rxQueue' = Append(rxQueue, Assembled(d)) /\ sc' = Append(sc, f)
    BY <1>3 DEF Completes, FinalFragment, FrameArrives
  <2>2. /\ Assembled(d) \in Seq(Octets) /\ Len(Assembled(d)) <= kMaxIngressBytes
        /\ f \in ScFrames /\ f.size = Len(Assembled(d))
    BY <1>3, MeasuredIsAFrame
  <2> HIDE DEF f
  <2>3. /\ Len(rxQueue') = Len(rxQueue) + 1
        /\ \A i \in 1 .. Len(rxQueue) : rxQueue'[i] = rxQueue[i]
        /\ rxQueue'[Len(rxQueue) + 1] = Assembled(d)
    BY <1>1, <2>1, <2>2, AppendProperties
  <2>4. /\ sc \in Seq(ScFrames) /\ Len(sc) = Len(rxQueue)
        /\ \A i \in 1 .. Len(rxQueue) : sc[i].size = Len(rxQueue[i])
    BY DEF PathInv, SizesMatch
  <2>5. /\ Len(sc') = Len(rxQueue) + 1 /\ sc' \in Seq(ScFrames)
        /\ \A i \in 1 .. Len(rxQueue) : sc'[i] = sc[i]
        /\ sc'[Len(rxQueue) + 1] = f
    BY <2>1, <2>2, <2>4, AppendProperties
  <2>6. \A i \in 1 .. Len(rxQueue') : i \in 1 .. Len(rxQueue) \/ i = Len(rxQueue) + 1
    BY <1>1, <2>3
  <2>7. SizesMatch'
    <3>1. ASSUME NEW i \in 1 .. Len(rxQueue') PROVE sc'[i].size = Len(rxQueue'[i])
      <4>1. CASE i \in 1 .. Len(rxQueue)
        BY <2>3, <2>4, <2>5, <4>1
      <4>2. CASE i = Len(rxQueue) + 1
        BY <2>2, <2>3, <2>5, <4>2
      <4> QED
        BY <2>6, <4>1, <4>2
    <3> QED
      BY <2>3, <2>5, <3>1 DEF SizesMatch
  <2>8. NoneTooLarge'
    BY <2>2, <2>3, <2>6 DEF PathInv, NoneTooLarge
  <2> QED
    BY <2>7, <2>8
<1> QED
  BY <1>2, <1>3

\* The two queues agree through every step.
LEMMA PathInductive ==
  /\ PathInit => PathInv
  /\ PathInv /\ [PathNext]_pathVars => PathInv'
<1>1. PathInit => PathInv
  BY AssemblyInit DEF PathInit, Init, RouterInit, PathInv, SizesMatch, NoneTooLarge
<1>2. ASSUME PathInv, [PathNext]_pathVars PROVE PathInv'
  <2>0. AssemblyInv'
    BY <1>2, PathStepsAssemble, AssemblyStep DEF PathInv
  <2>n. name' \in NameLengths
    BY <1>2 DEF PathInv, PathNext, pathVars, PeerSends, Completes, PeerReconnects, StackReceives
  <2> SUFFICES SizesMatch' /\ NoneTooLarge'
    BY <2>0, <2>n DEF PathInv
  <2>q. UNCHANGED <<rxQueue, sc>> => SizesMatch' /\ NoneTooLarge'
    BY <1>2 DEF PathInv, SizesMatch, NoneTooLarge
  <2>1. ASSUME NEW d \in Fragments, PeerSends(d) PROVE SizesMatch' /\ NoneTooLarge'
    BY <1>2, <2>1, <2>q, CompletedIsMeasured DEF PeerSends, Fragment, routerVars
  <2>2. CASE PeerReconnects
    BY <2>2, <2>q DEF PeerReconnects, NewConnection, routerVars
  <2>3. CASE StackReceives
    BY <1>2, <2>3, TakenIsTheHead
  <2>4. ASSUME NEW from, DatagramArrives(from) \/ NextTick, UNCHANGED vars
        PROVE  SizesMatch' /\ NoneTooLarge'
    BY <2>4, <2>q DEF DatagramArrives, NextTick, vars
  <2>5. CASE UNCHANGED pathVars
    BY <2>5, <2>q DEF pathVars, vars, routerVars
  <2> QED
    BY <1>2, <2>1, <2>2, <2>3, <2>4, <2>5 DEF PathNext
<1> QED
  BY <1>1, <1>2

\* Each step of the path is a step of the router: what is assembled is a frame the
\* router may see.
LEMMA PathStepsRoute ==
  PathInv /\ [PathNext]_pathVars => [RouterNext]_routerVars
<1> SUFFICES ASSUME PathInv, [PathNext]_pathVars PROVE [RouterNext]_routerVars
  OBVIOUS
<1>1. ASSUME NEW d \in Fragments, PeerSends(d) PROVE [RouterNext]_routerVars
  <2>1. CASE ~(Completes(d) /\ ~Overflows(d))
    BY <1>1, <2>1 DEF PeerSends, Completes
  <2>2. CASE Completes(d) /\ ~Overflows(d)
    <3> DEFINE f == [size |-> Len(Assembled(d)), name |-> name]
    <3>1. f \in ScFrames
      BY <2>2, MeasuredIsAFrame
    <3>2. FrameArrives(f)
      BY <2>2 DEF Completes
    <3> QED
      BY <3>1, <3>2 DEF RouterNext
  <2> QED
    BY <2>1, <2>2
<1>2. PeerReconnects => UNCHANGED routerVars
  BY DEF PeerReconnects
<1>3. StackReceives => RouterNext
  BY DEF StackReceives, RouterNext
<1> QED
  BY <1>1, <1>2, <1>3 DEF PathNext, RouterNext, pathVars

\* The transport and the router together implement the channel: neither the router's
\* alternation nor the IP side's datagrams lose, reorder or repeat a message.
THEOREM PathImplementsChannel == PathSpec => ImplementsChannel
<1>1. PathSpec => Spec
  BY PathStepsAssemble, PTL DEF PathSpec, Spec
<1> QED
  BY <1>1, AssemblyImplementsChannel

\* The path is a router among others, so neither side starves on it.
THEOREM PathRoutes == PathSpec => RouterSpec
<1>1. PathInit => RouterInit
  BY DEF PathInit
<1> QED
  BY <1>1, PathInductive, PathStepsRoute, PTL DEF PathSpec, RouterSpec

\* A frame leaves the transport's queue only by being handed to the stack, because it is
\* empty, or because its connection string is too long for the stack's buffer: the router
\* never drops one for its size, and none whose string fits.
THEOREM EveryTakenFrameIsHandedOver == PathSpec => TakenIsHandedOver
<1> DEFINE Taken == Len(rxQueue') < Len(rxQueue) =>
                      /\ rxQueue' = Tail(rxQueue)
                      /\ \/ given' = Len(Head(rxQueue))
                         \/ Head(rxQueue) = <<>>
                         \/ ~NameFits(Head(sc))
<1>1. PathInv /\ [PathNext]_pathVars => [Taken]_pathVars
  <2> SUFFICES ASSUME PathInv, PathNext, Len(rxQueue') < Len(rxQueue)
               PROVE  /\ rxQueue' = Tail(rxQueue)
                      /\ \/ given' = Len(Head(rxQueue))
                         \/ Head(rxQueue) = <<>>
                         \/ ~NameFits(Head(sc))
    OBVIOUS
  <2>1. rxQueue \in Seq(Seq(Octets))
    BY DEF PathInv, AssemblyInv, TypeOK
  <2>2. rxQueue' # rxQueue
    BY <2>1
  <2>3. ASSUME NEW d \in Fragments PROVE ~PeerSends(d)
    <3>1. ASSUME FinalFragment(d), ~Overflows(d) PROVE ~(Len(rxQueue') < Len(rxQueue))
      <4>1. Assembled(d) \in Seq(Octets)
        BY <3>1, OverflowMeansTooLarge DEF PathInv
      <4> QED
        BY <2>1, <3>1, <4>1, AppendProperties DEF FinalFragment
    <3> QED
      BY <2>2, <3>1 DEF PeerSends, Completes, Fragment, FinalFragment
  <2>4. StackReceives
    BY <2>2, <2>3 DEF PathNext, PeerReconnects, NewConnection, vars
  <2> QED
    BY <2>4, TakenIsTheHead
<1> QED
  BY <1>1, PathInductive, PTL DEF PathSpec, TakenIsHandedOver

-----------------------------------------------------------------------------
(***************************************************************************)
(* What the router sends                                                   *)
(***************************************************************************)

\* A sequence of octets is a sequence of numbers.
LEMMA OctetsAreNumbers ==
  ASSUME NEW q \in Seq(0 .. 255)
  PROVE  q \in Seq(Nat) /\ Len(q) \in Nat
<1>1. q \in [1 .. Len(q) -> 0 .. 255] /\ Len(q) \in Nat
  BY LenProperties
<1>2. q = [i \in 1 .. Len(q) |-> q[i]] /\ \A i \in 1 .. Len(q) : q[i] \in 0 .. 255
  BY <1>1
<1>3. \A i \in 1 .. Len(q) : q[i] \in Nat
  <2>1. 0 .. 255 \subseteq Nat
    OBVIOUS
  <2> QED
    BY <1>2, <2>1, Zenon
<1>4. q \in [1 .. Len(q) -> Nat]
  BY <1>2, <1>3
<1> QED
  BY <1>1, <1>4, SeqDef

\* Where the octets of two joined sequences are.
LEMMA JoinedAt ==
  ASSUME NEW s \in Seq(Nat), NEW t \in Seq(Nat), NEW m \in Nat, Len(s) = m
  PROVE  /\ s \o t \in Seq(Nat)
         /\ Len(t) \in Nat
         /\ Len(s \o t) = m + Len(t)
         /\ \A i \in 1 .. m : (s \o t)[i] = s[i]
         /\ \A i \in 1 .. Len(t) : (s \o t)[m + i] = t[i]
<1>1. Len(t) \in Nat
  BY LenProperties
<1>2. /\ s \o t \in Seq(Nat) /\ Len(s \o t) = m + Len(t)
      /\ \A i \in 1 .. m + Len(t) : (s \o t)[i] = IF i <= m THEN s[i] ELSE t[i - m]
  BY ConcatProperties
<1>3. ASSUME NEW i \in 1 .. m PROVE (s \o t)[i] = s[i]
  BY <1>1, <1>2
<1>4. ASSUME NEW i \in 1 .. Len(t) PROVE (s \o t)[m + i] = t[i]
  <2>1. m + i \in 1 .. m + Len(t) /\ ~(m + i <= m) /\ m + i - m = i
    BY <1>1
  <2> QED
    BY <1>2, <2>1
<1> QED
  BY <1>1, <1>2, <1>3, <1>4

\* An address takes two octets of network, one of length and its own.
LEMMA AddressLayout ==
  ASSUME NEW a \in Seq(Seq(0 .. 255)), Len(a) <= 1
  PROVE  /\ Address(a) \in Seq(Nat)
         /\ a = <<>> => Len(Address(a)) = 0
         /\ a # <<>> => /\ Len(a[1]) \in Nat
                        /\ Len(Address(a)) = 3 + Len(a[1])
                        /\ Address(a)[3] = Len(a[1])
<1>1. CASE a = <<>>
  BY <1>1 DEF Address
<1>2. CASE a # <<>>
  <2> DEFINE own == a[1]
             head == <<255, 254, Len(own)>>
             m == 3
  <2>1. own \in Seq(0 .. 255)
    BY <1>2
  <2> HIDE DEF own
  <2>2. own \in Seq(Nat) /\ Len(own) \in Nat
    BY <2>1, OctetsAreNumbers
  <2>3. head \in Seq(Nat) /\ Len(head) = m /\ head[3] = Len(own) /\ m = 3 /\ m \in Nat
    BY <2>2
  <2>4. Address(a) = head \o own
    BY <1>2 DEF Address, own
  <2> HIDE DEF head, m
  <2>5. /\ head \o own \in Seq(Nat)
        /\ Len(head \o own) = m + Len(own)
        /\ \A i \in 1 .. m : (head \o own)[i] = head[i]
    BY <2>2, <2>3, JoinedAt
  <2>6. (head \o own)[3] = Len(own)
    BY <2>3, <2>5
  <2> QED
    BY <1>2, <2>2, <2>3, <2>4, <2>5, <2>6 DEF own
<1> QED
  BY <1>1, <1>2

\* Where the router finds what it looks at in the octets of a frame.
LEMMA FrameLayout ==
  ASSUME NEW f \in Frames
  PROVE  LET o == FrameOctets(f)
             to == Len(Address(f.to))
             from == Len(Address(f.from))
             hops == Len(HopCount(f))
         IN  /\ to \in Nat /\ from \in Nat /\ hops \in Nat /\ Len(f.pdu) \in Nat
             /\ Len(o) = 6 + to + from + hops + Len(f.pdu)
             /\ o[1] = 129 /\ o[2] = f.function /\ o[5] = 1 /\ o[6] = Control(f)
             /\ f.to # <<>> => o[9] = Address(f.to)[3]
             /\ f.from # <<>> => o[9 + to] = Address(f.from)[3]
             /\ \A i \in 1 .. Len(f.pdu) : o[6 + to + from + hops + i] = f.pdu[i]
<1> DEFINE head == <<129, f.function, 0, 0, 1, Control(f)>>
           to == Address(f.to)
           from == Address(f.from)
           hops == HopCount(f)
<1>1. /\ f.function \in Nat /\ f.pdu \in Seq(Nat)
      /\ f.to \in Seq(Seq(0 .. 255)) /\ Len(f.to) <= 1
      /\ f.from \in Seq(Seq(0 .. 255)) /\ Len(f.from) <= 1
  <2>1. f.function \in 0 .. 255 /\ f.pdu \in Seq(0 .. 255)
    BY SendingAssumption
  <2> QED
    <3>1. f.pdu \in Seq(Nat)
      BY <2>1, OctetsAreNumbers, Zenon
    <3>2. f.function \in Nat
      <4>1. f.function \in 0 .. 255
        BY <2>1
      <4> QED
        BY <4>1
    <3> QED
      BY <3>1, <3>2, SendingAssumption
<1>2. to \in Seq(Nat) /\ Len(to) \in Nat /\ (f.to # <<>> => Len(to) >= 3)
  <2>1. to \in Seq(Nat) /\ Len(to) \in Nat
    BY <1>1, AddressLayout, LenProperties
  <2> QED
    BY <1>1, <2>1, AddressLayout
<1>3. from \in Seq(Nat) /\ Len(from) \in Nat /\ (f.from # <<>> => Len(from) >= 3)
  <2>1. from \in Seq(Nat) /\ Len(from) \in Nat
    BY <1>1, AddressLayout, LenProperties
  <2> QED
    BY <1>1, <2>1, AddressLayout
<1>4. hops \in Seq(Nat) /\ Len(hops) \in Nat
  BY DEF HopCount
<1>5. /\ head \in Seq(Nat) /\ Len(head) = 6
      /\ head[1] = 129 /\ head[2] = f.function /\ head[5] = 1 /\ head[6] = Control(f)
  BY <1>1 DEF Control
<1>6. FrameOctets(f) = head \o to \o from \o hops \o f.pdu
  BY DEF FrameOctets
<1> DEFINE m0 == 6
           m1 == m0 + Len(to)
           m2 == m1 + Len(from)
           n == m2 + Len(hops)
           o1 == head \o to
           o2 == o1 \o from
           o3 == o2 \o hops
           o == o3 \o f.pdu
<1> HIDE DEF head, to, from, hops
<1>m. m0 = 6 /\ m1 = m0 + Len(to) /\ m2 = m1 + Len(from) /\ n = m2 + Len(hops)
  OBVIOUS
<1> HIDE DEF m0, m1, m2, n
<1>n. m0 \in Nat /\ m1 \in Nat /\ m2 \in Nat /\ n \in Nat /\ m1 >= 6 /\ m2 >= m1 /\ n >= m2
  BY <1>2, <1>3, <1>4, <1>m
<1>7. /\ o1 \in Seq(Nat) /\ Len(o1) = m1
      /\ \A i \in 1 .. m0 : o1[i] = head[i]
      /\ \A i \in 1 .. Len(to) : o1[m0 + i] = to[i]
  <2>1. Len(head) = m0
    BY <1>5, <1>m
  <2>2. /\ o1 \in Seq(Nat) /\ Len(o1) = m0 + Len(to)
        /\ \A i \in 1 .. m0 : o1[i] = head[i]
        /\ \A i \in 1 .. Len(to) : o1[m0 + i] = to[i]
    <3>1. to \in Seq(Nat) /\ head \in Seq(Nat) /\ m0 \in Nat
      BY <1>2, <1>5, <1>n
    <3> QED
      BY <2>1, <3>1, JoinedAt
  <2> QED
    BY <1>m, <2>2
<1> HIDE DEF o1
<1>8. /\ o2 \in Seq(Nat) /\ Len(o2) = m2
      /\ \A i \in 1 .. m1 : o2[i] = o1[i]
      /\ \A i \in 1 .. Len(from) : o2[m1 + i] = from[i]
  <2>1. /\ o2 \in Seq(Nat) /\ Len(o2) = m1 + Len(from)
        /\ \A i \in 1 .. m1 : o2[i] = o1[i]
        /\ \A i \in 1 .. Len(from) : o2[m1 + i] = from[i]
    BY <1>3, <1>7, <1>n, JoinedAt, Zenon
  <2> QED
    BY <1>m, <2>1
<1> HIDE DEF o2
<1>9. /\ o3 \in Seq(Nat) /\ Len(o3) = n
      /\ \A i \in 1 .. m2 : o3[i] = o2[i]
  BY <1>4, <1>8, <1>m, <1>n, JoinedAt
<1> HIDE DEF o3
<1>10. /\ Len(o) = n + Len(f.pdu) /\ Len(f.pdu) \in Nat
       /\ \A i \in 1 .. n : o[i] = o3[i]
       /\ \A i \in 1 .. Len(f.pdu) : o[n + i] = f.pdu[i]
  BY <1>1, <1>9, <1>n, JoinedAt, SMTT(60)
<1>11. o = FrameOctets(f)
  BY <1>6 DEF o1, o2, o3
<1> HIDE DEF o
<1>12. \A i \in 1 .. m1 : i \in 1 .. m2 /\ i \in 1 .. n /\ o[i] = o1[i]
  <2>1. ASSUME NEW i \in 1 .. m1 PROVE i \in 1 .. m2 /\ i \in 1 .. n
    BY <1>m, <1>n
  <2> QED
    BY <2>1, <1>8, <1>9, <1>10
<1>13. /\ o[1] = 129 /\ o[2] = f.function /\ o[5] = 1 /\ o[6] = Control(f)
  <2>1. \A i \in {1, 2, 5, 6} : i \in 1 .. 6 /\ i \in 1 .. m1
    BY <1>m, <1>n
  <2> QED
    BY <2>1, <1>5, <1>7, <1>12, <1>m, SMTT(60)
<1>14. f.to # <<>> => o[9] = to[3]
  <2>1. f.to # <<>> => 3 \in 1 .. Len(to) /\ 9 \in 1 .. m1 /\ m0 + 3 = 9
    BY <1>2, <1>m
  <2> QED
    BY <2>1, <1>7, <1>12
<1>15. f.from # <<>> => o[9 + Len(to)] = from[3]
  <2>1. f.from # <<>> => /\ 3 \in 1 .. Len(from) /\ m1 + 3 = 9 + Len(to)
                         /\ m1 + 3 \in 1 .. m2 /\ m1 + 3 \in 1 .. n
    BY <1>2, <1>3, <1>m, <1>n
  <2> QED
    BY <2>1, <1>8, <1>9, <1>10
<1>16. \A i \in 1 .. Len(f.pdu) : o[6 + Len(to) + Len(from) + Len(hops) + i] = f.pdu[i]
  BY <1>10, <1>m
<1>17. Len(o) = 6 + Len(to) + Len(from) + Len(hops) + Len(f.pdu)
  BY <1>10, <1>m
<1> QED
  BY <1>2, <1>3, <1>4, <1>10, <1>11, <1>13, <1>14, <1>15, <1>16, <1>17 DEF to, from, hops

\* The bits of the control octet say which parts of the NPDU there are.
LEMMA ControlBits ==
  ASSUME NEW f, f.network \in BOOLEAN
  PROVE  /\ Has(Control(f), 128) <=> f.network
         /\ Has(Control(f), 32) <=> f.to # <<>>
         /\ Has(Control(f), 8) <=> f.from # <<>>
<1>1. CASE f.network
  <2>1. CASE f.to = <<>> /\ f.from = <<>>
    BY <1>1, <2>1 DEF Control, Has
  <2>2. CASE f.to = <<>> /\ f.from # <<>>
    BY <1>1, <2>2 DEF Control, Has
  <2>3. CASE f.to # <<>> /\ f.from = <<>>
    BY <1>1, <2>3 DEF Control, Has
  <2>4. CASE f.to # <<>> /\ f.from # <<>>
    BY <1>1, <2>4 DEF Control, Has
  <2> QED
    BY <2>1, <2>2, <2>3, <2>4
<1>2. CASE ~f.network
  <2>1. CASE f.to = <<>> /\ f.from = <<>>
    BY <1>2, <2>1 DEF Control, Has
  <2>2. CASE f.to = <<>> /\ f.from # <<>>
    BY <1>2, <2>2 DEF Control, Has
  <2>3. CASE f.to # <<>> /\ f.from = <<>>
    BY <1>2, <2>3 DEF Control, Has
  <2>4. CASE f.to # <<>> /\ f.from # <<>>
    BY <1>2, <2>4 DEF Control, Has
  <2> QED
    BY <2>1, <2>2, <2>3, <2>4
<1> QED
  BY <1>1, <1>2

\* Whatever addresses the NPDU has, the router looks for the service where it is.
LEMMA ServiceIsFound ==
  ASSUME NEW f \in Frames
  PROVE  ServiceOffset(FrameOctets(f)) = Len(FrameOctets(f)) - Len(f.pdu)
<1> DEFINE o == FrameOctets(f)
           to == Len(Address(f.to))
           from == Len(Address(f.from))
           hops == Len(HopCount(f))
<1>1. /\ f.network \in BOOLEAN
      /\ f.to \in Seq(Seq(0 .. 255)) /\ Len(f.to) <= 1
      /\ f.from \in Seq(Seq(0 .. 255)) /\ Len(f.from) <= 1
  BY SendingAssumption
<1>2. /\ to \in Nat /\ from \in Nat /\ hops \in Nat /\ Len(f.pdu) \in Nat
      /\ Len(o) = 6 + to + from + hops + Len(f.pdu)
      /\ o[6] = Control(f)
      /\ f.to # <<>> => o[9] = Address(f.to)[3]
      /\ f.from # <<>> => o[9 + to] = Address(f.from)[3]
  BY FrameLayout
<1>3. /\ f.to = <<>> => to = 0
      /\ f.to # <<>> => Address(f.to)[3] = to - 3 /\ to >= 3
  BY <1>1, <1>2, AddressLayout, SMTT(60)
<1>4. /\ f.from = <<>> => from = 0
      /\ f.from # <<>> => Address(f.from)[3] = from - 3 /\ from >= 3
  BY <1>1, <1>2, AddressLayout, SMTT(60)
<1>5. hops = IF f.to = <<>> THEN 0 ELSE 1
  BY DEF HopCount
<1>6. (Has(o[6], 32) <=> f.to # <<>>) /\ (Has(o[6], 8) <=> f.from # <<>>)
  BY <1>1, <1>2, ControlBits
<1> HIDE DEF o, to, from, hops
<1>7. ASSUME f.to # <<>> PROVE AfterAddress(o, 6) = 6 + to
  <2>1. o[9] = to - 3 /\ to >= 3
    BY <1>2, <1>3, <1>7
  <2>2. ~(9 > Len(o)) /\ 6 + 3 = 9 /\ 9 + (to - 3) = 6 + to
    <3>1. PICK rest \in Nat : rest = Len(f.pdu)
      BY <1>2
    <3>2. Len(o) = 6 + to + from + hops + rest
      BY <1>2, <3>1
    <3>3. to \in Nat /\ from \in Nat /\ hops \in Nat /\ to >= 3
      BY <1>2, <2>1
    <3> QED
      BY <3>2, <3>3
  <2>3. 6 # Unknown
    BY DEF Unknown
  <2> QED
    BY <2>1, <2>2, <2>3 DEF AfterAddress
<1>8. ASSUME f.from # <<>> PROVE AfterAddress(o, 6 + to) = 6 + to + from
  <2>1. o[9 + to] = from - 3 /\ from >= 3
    BY <1>2, <1>4, <1>8
  <2>2. 6 + to + 3 = 9 + to /\ 9 + to + (from - 3) = 6 + to + from
    BY <1>2
  <2>3. ~(9 + to > Len(o))
    <3>1. PICK rest \in Nat : rest = Len(f.pdu)
      BY <1>2
    <3>2. Len(o) = 6 + to + from + hops + rest
      BY <1>2, <3>1
    <3>3. to \in Nat /\ from \in Nat /\ hops \in Nat /\ from >= 3
      BY <1>2, <2>1
    <3> QED
      BY <3>2, <3>3
  <2>4. 6 + to # Unknown
    BY <1>2 DEF Unknown
  <2> QED
    BY <2>1, <2>2, <2>3, <2>4 DEF AfterAddress
<1>9. AfterAddresses(o) = 6 + to + from
  BY <1>2, <1>3, <1>4, <1>6, <1>7, <1>8 DEF AfterAddresses
<1>10. ServiceOffset(o) = 6 + to + from + hops
  BY <1>2, <1>5, <1>6, <1>9 DEF ServiceOffset, Unknown
<1> QED
  BY <1>2, <1>10 DEF o

\* The octets the router copies are those of an answer, and all of those.
LEMMA ChosenIsAnswer ==
  ASSUME NEW f \in Frames
  PROVE  IsStackChosenBroadcast(FrameOctets(f)) <=> IsAnswer(f)
<1> DEFINE o == FrameOctets(f)
           n == 6 + Len(Address(f.to)) + Len(Address(f.from)) + Len(HopCount(f))
<1>0. n \in Nat /\ n >= 6 /\ Len(f.pdu) \in Nat
  <2>1. /\ Len(Address(f.to)) \in Nat /\ Len(Address(f.from)) \in Nat
        /\ Len(HopCount(f)) \in Nat /\ Len(f.pdu) \in Nat
    BY FrameLayout
  <2> QED
    BY <2>1
<1>1. /\ Len(o) = n + Len(f.pdu)
      /\ o[1] = 129 /\ o[2] = f.function /\ o[5] = 1 /\ o[6] = Control(f)
      /\ \A i \in 1 .. Len(f.pdu) : o[n + i] = f.pdu[i]
  BY FrameLayout, Zenon
<1> HIDE DEF o, n
<1>2. ServiceOffset(o) = n
  <2>1. ServiceOffset(o) = Len(o) - Len(f.pdu)
    BY ServiceIsFound DEF o
  <2> QED
    BY <1>0, <1>1, <2>1
<1>3. Has(o[6], 128) <=> f.network
  BY <1>1, SendingAssumption, ControlBits
<1>4. IsIAmOrIHave(o, n) <=> IsIAmOrIHave(f.pdu, 0)
  <2>1. CASE Len(f.pdu) >= 2
    <3>1. o[n + 1] = f.pdu[1] /\ o[n + 2] = f.pdu[2]
      BY <1>0, <1>1, <2>1
    <3> QED
      BY <1>0, <1>1, <2>1, <3>1 DEF IsIAmOrIHave
  <2>2. CASE ~(Len(f.pdu) >= 2)
    BY <1>0, <1>1, <2>2 DEF IsIAmOrIHave
  <2> QED
    BY <2>1, <2>2
<1>5. IsStackChosenBroadcast(o) <=> IsAnswer(f)
  BY <1>0, <1>1, <1>2, <1>3, <1>4 DEF IsStackChosenBroadcast, IsAnswer, Unknown
<1> QED
  BY <1>5 DEF o

\* A frame of a call under way is one of the stack's, and it went where the code sends it.
SendInv ==
  sent.string = "none" => sent.frame \in Frames /\ sent.went = IpDestinations(sent.frame, "none")

\* Every call keeps that: no tool is heard from while one is under way.
LEMMA SendInductive ==
  /\ RouterSendInit => SendInv
  /\ SendInv /\ [RouterSendNext]_routerSendVars => SendInv'
<1>1. RouterSendInit => SendInv
  BY DEF RouterSendInit, SendInv, Quiet
<1>2. ASSUME SendInv, [RouterSendNext]_routerSendVars PROVE SendInv'
  <2>1. ASSUME NEW f \in Frames, NEW s \in Strings, SendOnIp(f, s) PROVE SendInv'
    BY <2>1 DEF SendOnIp, SendInv, IpDestinations
  <2>2. ASSUME NEW f \in Frames, SendOnSc(f) PROVE SendInv'
    BY <2>2 DEF SendOnSc, SendInv
  <2>3. CASE CallReturns
    BY <2>3 DEF CallReturns, SendInv, Quiet
  <2>4. ASSUME NEW tool \in Tools, HearFrom(tool) PROVE SendInv'
    BY <2>4 DEF HearFrom, SendInv, Quiet
  <2>5. CASE UNCHANGED routerSendVars
    BY <1>2, <2>5 DEF routerSendVars, SendInv, IpDestinations
  <2> QED
    BY <1>2, <2>1, <2>2, <2>3, <2>4, <2>5 DEF RouterSendNext
<1> QED
  BY <1>1, <1>2

\* A tool on another port gets a copy of each answer the stack addresses itself and of
\* nothing else, whatever addresses and octets the stack's frames have.
THEOREM CopiesAreAnswers == RouterSendSpec => []OnlyAnswersAreCopied
<1>1. SendInv => OnlyAnswersAreCopied
  BY ChosenIsAnswer DEF SendInv, OnlyAnswersAreCopied, IpDestinations
<1> QED
  BY <1>1, SendInductive, PTL DEF RouterSendSpec

=============================================================================
