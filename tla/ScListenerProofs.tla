--------------------------- MODULE ScListenerProofs ---------------------------
(***************************************************************************)
(* Proofs about ScListener for any sockets, URIs, queue limit and frames:  *)
(* where the hub listens, which peer a connection string names, that       *)
(* nothing waits for a turn nobody asked for, that nothing is lost before  *)
(* a normal close, and that the stack is told of every close once.         *)
(***************************************************************************)
EXTENDS ScListener, FiniteSetTheorems, SequenceTheorems, TLAPS

\* What ScTransport remembers of the listener, whatever happens to its peers.  A
\* destruction is in progress only while the stack is in Tick.
Listening ==
  /\ wanted = asked
  /\ wanted \in Uris \cup {None}
  /\ listener \in Uris \cup {None}
  /\ nextId \in Nat
  /\ phase \in {"tick", "service", "drain", "reload"}
  /\ job = None \/ job \in [next : {asked}, stage : {"flush", "pump"}]
  /\ job # None => phase = "tick" /\ listener # None
  /\ job = None => listener \in {None, asked}

\* Attempts leave the numbers alone and end with the URI or without a listener.
LEMMA Attempts ==
  ASSUME NEW u, NEW held, TryListen(u, held)
  PROVE  nextId' = nextId /\ listener' \in {u, None}
BY DEF TryListen, ListenOutcome

\* None is no URI, and no job.
LEMMA InitListening == Init => Listening
BY DEF Init, Listening

\* Every step keeps what is remembered of the listener.
LEMMA ListeningStep == Listening /\ [Next]_vars => Listening'
<1> SUFFICES ASSUME Listening, [Next]_vars PROVE Listening'
  OBVIOUS
<1>1. ASSUME NEW u \in Uris, StackStartsListening(u) PROVE Listening'
  <2>1. /\ job = None /\ phase = "tick" /\ phase' = phase
        /\ wanted' = u /\ asked' = u
    BY <1>1 DEF StackStartsListening, InTick, StartListening
  <2>2. u # None
    BY ListenerAssumption
  <2>3. CASE listener = u /\ UNCHANGED <<listener, hold, nextId, job>>
    BY <2>1, <2>2, <2>3 DEF Listening
  <2>4. CASE listener = None /\ TryListen(u, hold) /\ UNCHANGED job
    BY <2>1, <2>2, <2>4, Attempts DEF Listening
  <2>5. CASE /\ listener \notin {u, None}
             /\ job' = [next |-> u, stage |-> "flush"]
             /\ UNCHANGED <<listener, hold, nextId>>
    BY <2>1, <2>2, <2>5, ListenerAssumption DEF Listening
  <2> QED
    BY <1>1, <2>3, <2>4, <2>5 DEF StackStartsListening, StartListening
<1>2. ASSUME NEW u \in Uris, StopListening(u) PROVE Listening'
  <2>1. /\ job = None /\ phase = "tick" /\ phase' = phase
        /\ UNCHANGED <<listener, nextId>>
        /\ wanted' = IF wanted = u THEN None ELSE wanted
        /\ asked' = IF asked = u THEN None ELSE asked
    BY <1>2 DEF StopListening, InTick, WantedAfterStop
  <2>2. u # None /\ wanted = u /\ asked = u
    BY <1>2, <2>1, ListenerAssumption DEF StopListening, Listening
  <2>3. job' = IF listener = u THEN [next |-> None, stage |-> "flush"] ELSE None
    BY <1>2 DEF StopListening
  <2> QED
    BY <2>1, <2>2, <2>3, ListenerAssumption DEF Listening
<1>3. ASSUME NEW s \in minted, Send(s) \/ Disconnect(s) PROVE Listening'
  BY <1>3 DEF Send, Disconnect, Listening, config, history
<1>4. ASSUME PopReceived PROVE Listening'
  BY <1>4 DEF PopReceived, Listening, config, history
<1>5. ASSUME NEW w \in Sockets, Established(w) PROVE Listening'
  BY <1>5 DEF Established, Listening
<1>6. ASSUME NEW w \in Sockets, Receive(w) \/ Writeable(w) \/ Closed(w) PROVE Listening'
  BY <1>6 DEF Receive, Writeable, Closed, Listening, config, history
<1>7. ASSUME NEW w \in Sockets, NEW code \in {1000, 1002}, PeerInitiatedClose(w, code)
      PROVE  Listening'
  BY <1>7 DEF PeerInitiatedClose, Listening, config, history
<1>8. ASSUME Service PROVE Listening'
  <2>1. /\ job = None /\ phase' = "service" /\ asked' = asked
    BY <1>8 DEF Service, InTick, history
  <2>2. CASE listener = None /\ wanted # None
    <3>1. StartListening(wanted)
      BY <1>8, <2>2 DEF Service, RetryListener
    <3>2. wanted' = wanted /\ TryListen(wanted, hold) /\ job' = job
      BY <2>2, <3>1 DEF StartListening
    <3> QED
      BY <2>1, <3>2, Attempts DEF Listening
  <2>3. CASE UNCHANGED <<wanted, listener, hold, nextId, job>>
    BY <2>1, <2>3 DEF Listening
  <2> QED
    BY <1>8, <2>2, <2>3 DEF Service, RetryListener
<1>9. ASSUME ServiceReturns \/ DrainStatusEvents \/ NothingToReload PROVE Listening'
  BY <1>9 DEF ServiceReturns, DrainStatusEvents, NothingToReload, Listening, config, history
<1>10. ASSUME ReloadCredentials PROVE Listening'
  <2>1. /\ job = None /\ phase' = "tick"
        /\ wanted # None
        /\ UNCHANGED <<wanted, asked>>
    BY <1>10 DEF ReloadCredentials, Listening, history
  <2>2. CASE listener = None /\ TryListen(wanted, FALSE) /\ UNCHANGED job
    BY <2>1, <2>2, Attempts DEF Listening
  <2>3. CASE listener # None /\ job' = [next |-> wanted, stage |-> "flush"]
             /\ UNCHANGED <<listener, nextId>>
    BY <2>1, <2>3, ListenerAssumption DEF Listening
  <2> QED
    BY <1>10, <2>2, <2>3 DEF ReloadCredentials
<1>11. ASSUME FlushTurn \/ FlushTurnEnds PROVE Listening'
  <2>1. /\ UNCHANGED <<wanted, listener, nextId, phase, asked>>
        /\ job # None
        /\ job' = [job EXCEPT !.stage = "pump"] \/ job' = [job EXCEPT !.stage = "flush"]
    BY <1>11 DEF FlushTurn, FlushTurnEnds, history
  <2>2. job' \in [next : {asked}, stage : {"flush", "pump"}]
    BY <2>1 DEF Listening
  <2> QED
    BY <2>1, <2>2, ListenerAssumption DEF Listening
<1>12. ASSUME DestroyListenerContext PROVE Listening'
  <2>1. /\ UNCHANGED <<wanted, phase, asked>> /\ job' = None
        /\ job # None /\ job.next = asked
    BY <1>12 DEF DestroyListenerContext, Listening, history
  <2>2. nextId' = nextId /\ listener' \in {None, asked}
    BY <1>12, <2>1, Attempts DEF DestroyListenerContext
  <2> QED
    BY <2>1, <2>2 DEF Listening
<1>13. ASSUME Environment PROVE Listening'
  BY <1>13 DEF Environment, RetryIntervalOver, FilesOrPortChange, ReadingChanges,
               Listening, config, history
<1>14. ASSUME UNCHANGED vars PROVE Listening'
  BY <1>14 DEF vars, Listening, config, history
<1> QED
  BY <1>1, <1>2, <1>3, <1>4, <1>5, <1>6, <1>7, <1>8, <1>9, <1>10, <1>11, <1>12, <1>13, <1>14
  DEF Next, StackCall, Callback, MainLoop

\* Listening is an invariant.
LEMMA AlwaysListening == Spec => []Listening
BY InitListening, ListeningStep, PTL DEF Spec

\* Outside a stop, a rebind or a reload the hub listens only where the stack last
\* asked it to (StartListening, StopListening, ReloadCredentials, Service).
THEOREM HubListensWhereWanted == Spec => []ListensWhereWanted
<1>1. Listening => ListensWhereWanted
  BY DEF Listening, ListensWhereWanted
<1> QED
  BY <1>1, AlwaysListening, PTL

-----------------------------------------------------------------------------
(***************************************************************************)
(* The peers                                                               *)
(***************************************************************************)

PeerRecord ==
  [conn : [uri : Uris, client : Nat], txQueue : Seq(Nat),
   closeRequest : {"no", "normal", "policy"}, lastCloseCode : Nat,
   sent : Nat, wrote : Seq(Nat)]

SocketStates == CloseCauses \cup {"open"}

\* A peer p whose socket is in state k: what it has to do is announced, and frames
\* go out in the order they were accepted, with none missing unless it is closed for
\* a full queue or a failed write.
InOrder(p) ==
  /\ p.sent = Len(p.wrote) + Len(p.txQueue)
  /\ \A i \in 1..Len(p.txQueue) : p.txQueue[i] = Len(p.wrote) + i

PeerOK(p, k, isArmed) ==
  /\ p \in PeerRecord
  /\ k \in SocketStates
  /\ k = "open" /\ (p.txQueue # <<>> \/ p.closeRequest # "no") => isArmed
  /\ \A i \in 1..Len(p.wrote) : p.wrote[i] = i
  /\ p.closeRequest # "policy" /\ k # "failed" => InOrder(p)
  /\ p.closeRequest = "policy" => p.txQueue = <<>>
  /\ k = "normal" => p.closeRequest = "normal" /\ p.txQueue = <<>>

\* Peers, sockets and connection strings fit together; the numbers of peers were all
\* handed out by m_nextClientId.
PeersInv ==
  /\ peers \in [DOMAIN peers -> PeerRecord]
  /\ sock \in [DOMAIN peers -> SocketStates]
  /\ index \in [DOMAIN index -> DOMAIN peers]
  /\ \A w \in DOMAIN peers : PeerOK(peers[w], sock[w], w \in armed)
  /\ \A w \in DOMAIN peers : peers[w].conn.client < nextId
  /\ \A w \in DOMAIN peers : index[peers[w].conn] = w
  /\ StringsNameTheirPeers

\* A fresh listener has no peers.
LEMMA NoPeers ==
  ASSUME peers = <<>>, sock = <<>>, index = <<>>
  PROVE  PeersInv
BY DEF PeersInv, StringsNameTheirPeers, Live

\* A step that changes one peer and keeps its connection string keeps the others.
LEMMA ChangedPeer ==
  ASSUME PeersInv, UNCHANGED <<index, nextId>>, NEW w \in DOMAIN peers,
         NEW p \in PeerRecord, NEW k \in SocketStates,
         peers' = [peers EXCEPT ![w] = p], p.conn = peers[w].conn,
         sock' = [sock EXCEPT ![w] = k],
         armed \ {w} \subseteq armed',
         PeerOK(p, k, w \in armed')
  PROVE  PeersInv'
<1>1. /\ DOMAIN peers' = DOMAIN peers
      /\ peers'[w] = p
      /\ \A v \in DOMAIN peers \ {w} : peers'[v] = peers[v]
      /\ peers' \in [DOMAIN peers' -> PeerRecord]
  BY DEF PeersInv
<1>2. /\ sock' \in [DOMAIN peers' -> SocketStates]
      /\ sock'[w] = k
      /\ \A v \in DOMAIN peers \ {w} : sock'[v] = sock[v]
  BY <1>1 DEF PeersInv
<1>3. \A v \in DOMAIN peers' : peers'[v].conn = peers[v].conn
  BY <1>1
<1>4. \A v \in DOMAIN peers' : PeerOK(peers'[v], sock'[v], v \in armed')
  <2> TAKE v \in DOMAIN peers'
  <2>1. CASE v = w
    BY <2>1, <1>1, <1>2
  <2>2. CASE v # w
    <3>1. peers'[v] = peers[v] /\ sock'[v] = sock[v]
      BY <2>2, <1>1, <1>2
    <3>2. PeerOK(peers[v], sock[v], v \in armed) /\ (v \in armed => v \in armed')
      BY <2>2, <1>1 DEF PeersInv
    <3> QED
      BY <3>1, <3>2 DEF PeerOK
  <2> QED
    BY <2>1, <2>2
<1>5. StringsNameTheirPeers'
  BY <1>1, <1>3 DEF PeersInv, StringsNameTheirPeers, Live
<1>6. \A v \in DOMAIN peers' : peers'[v].conn.client < nextId'
  BY <1>1, <1>3 DEF PeersInv
<1>7. \A v \in DOMAIN peers' : index'[peers'[v].conn] = v
  BY <1>1, <1>3 DEF PeersInv
<1> QED
  BY <1>1, <1>2, <1>4, <1>5, <1>6, <1>7 DEF PeersInv

\* A step that only adds requests for WRITEABLE keeps the peers.
LEMMA SamePeers ==
  ASSUME PeersInv, UNCHANGED <<peers, index, sock, nextId>>, armed \subseteq armed'
  PROVE  PeersInv'
<1>1. \A v \in DOMAIN peers : PeerOK(peers[v], sock[v], v \in armed')
  BY DEF PeersInv, PeerOK
<1> QED
  BY <1>1 DEF PeersInv, StringsNameTheirPeers, Live

\* The fields of a peer.
LEMMA PeerFields ==
  ASSUME NEW p \in PeerRecord
  PROVE  /\ p.conn \in [uri : Uris, client : Nat]
         /\ p.txQueue \in Seq(Nat) /\ p.wrote \in Seq(Nat)
         /\ p.closeRequest \in {"no", "normal", "policy"}
         /\ p.lastCloseCode \in Nat
         /\ p.sent \in Nat
BY DEF PeerRecord

\* p is the peer q with this queue, request, number of frames and frames written.
Differs(p, q, t, r, n, v) ==
  /\ p \in PeerRecord
  /\ p.conn = q.conn
  /\ p.txQueue = t /\ p.closeRequest = r /\ p.sent = n /\ p.wrote = v

\* A peer of the same connection.
Changed(q, t, r, l, n, v) ==
  [conn |-> q.conn, txQueue |-> t, closeRequest |-> r, lastCloseCode |-> l, sent |-> n,
   wrote |-> v]

\* It has the fields it is given.
LEMMA ChangedDiffers ==
  ASSUME NEW q \in PeerRecord, NEW t \in Seq(Nat), NEW r \in {"no", "normal", "policy"},
         NEW l \in Nat, NEW n \in Nat, NEW v \in Seq(Nat)
  PROVE  Differs(Changed(q, t, r, l, n, v), q, t, r, n, v)
<1>1. Changed(q, t, r, l, n, v) \in PeerRecord
  BY DEF Changed, PeerRecord
<1>2. /\ Changed(q, t, r, l, n, v).conn = q.conn
      /\ Changed(q, t, r, l, n, v).txQueue = t
      /\ Changed(q, t, r, l, n, v).closeRequest = r
      /\ Changed(q, t, r, l, n, v).sent = n
      /\ Changed(q, t, r, l, n, v).wrote = v
  BY DEF Changed
<1> QED
  BY <1>1, <1>2 DEF Differs

\* The fields of a peer, all of them.
LEMMA PeerShape ==
  ASSUME NEW q \in PeerRecord
  PROVE  /\ DOMAIN q = {"conn", "txQueue", "closeRequest", "lastCloseCode", "sent", "wrote"}
         /\ q = [f \in DOMAIN q |-> q[f]]
BY DEF PeerRecord

\* A change of the queue,
LEMMA QueueChange ==
  ASSUME NEW q \in PeerRecord, NEW t \in Seq(Nat)
  PROVE  Differs([q EXCEPT !.txQueue = t], q, t, q.closeRequest, q.sent, q.wrote)
<1>1. [q EXCEPT !.txQueue = t] = Changed(q, t, q.closeRequest, q.lastCloseCode, q.sent, q.wrote)
  BY PeerShape DEF Changed
<1>2. Differs(Changed(q, t, q.closeRequest, q.lastCloseCode, q.sent, q.wrote), q, t, q.closeRequest, q.sent, q.wrote)
  BY PeerFields, ChangedDiffers
<1> QED
  BY <1>1, <1>2

\* of the request,
LEMMA RequestChange ==
  ASSUME NEW q \in PeerRecord, NEW r \in {"no", "normal", "policy"}
  PROVE  Differs([q EXCEPT !.closeRequest = r], q, q.txQueue, r, q.sent, q.wrote)
<1>1. [q EXCEPT !.closeRequest = r] = Changed(q, q.txQueue, r, q.lastCloseCode, q.sent, q.wrote)
  BY PeerShape DEF Changed
<1>2. Differs(Changed(q, q.txQueue, r, q.lastCloseCode, q.sent, q.wrote), q, q.txQueue, r, q.sent, q.wrote)
  BY PeerFields, ChangedDiffers
<1> QED
  BY <1>1, <1>2

\* of the close code,
LEMMA CodeChange ==
  ASSUME NEW q \in PeerRecord, NEW l \in Nat
  PROVE  Differs([q EXCEPT !.lastCloseCode = l], q, q.txQueue, q.closeRequest, q.sent, q.wrote)
<1>1. [q EXCEPT !.lastCloseCode = l] = Changed(q, q.txQueue, q.closeRequest, l, q.sent, q.wrote)
  BY PeerShape DEF Changed
<1>2. Differs(Changed(q, q.txQueue, q.closeRequest, l, q.sent, q.wrote), q, q.txQueue, q.closeRequest, q.sent, q.wrote)
  BY PeerFields, ChangedDiffers
<1> QED
  BY <1>1, <1>2

\* of the count
LEMMA CountChange ==
  ASSUME NEW q \in PeerRecord, NEW n \in Nat
  PROVE  Differs([q EXCEPT !.sent = n], q, q.txQueue, q.closeRequest, n, q.wrote)
<1>1. [q EXCEPT !.sent = n] = Changed(q, q.txQueue, q.closeRequest, q.lastCloseCode, n, q.wrote)
  BY PeerShape DEF Changed
<1>2. Differs(Changed(q, q.txQueue, q.closeRequest, q.lastCloseCode, n, q.wrote), q, q.txQueue, q.closeRequest, n, q.wrote)
  BY PeerFields, ChangedDiffers
<1> QED
  BY <1>1, <1>2

\* and of the frames written is one.
LEMMA WrittenChange ==
  ASSUME NEW q \in PeerRecord, NEW v \in Seq(Nat)
  PROVE  Differs([q EXCEPT !.wrote = v], q, q.txQueue, q.closeRequest, q.sent, v)
<1>1. [q EXCEPT !.wrote = v] = Changed(q, q.txQueue, q.closeRequest, q.lastCloseCode, q.sent, v)
  BY PeerShape DEF Changed
<1>2. Differs(Changed(q, q.txQueue, q.closeRequest, q.lastCloseCode, q.sent, v), q, q.txQueue, q.closeRequest, q.sent, v)
  BY PeerFields, ChangedDiffers
<1> QED
  BY <1>1, <1>2

\* See QueueChange and RequestChange.
LEMMA QueueAndRequest ==
  ASSUME NEW q \in PeerRecord, NEW t \in Seq(Nat), NEW r \in {"no", "normal", "policy"}
  PROVE  Differs([[q EXCEPT !.txQueue = t] EXCEPT !.closeRequest = r], q, t, r, q.sent, q.wrote)
<1>1. PICK e : e = [q EXCEPT !.txQueue = t]
  OBVIOUS
<1>2. Differs(e, q, t, q.closeRequest, q.sent, q.wrote)
  BY <1>1, QueueChange
<1>3. /\ e \in PeerRecord /\ e.conn = q.conn /\ e.txQueue = t /\ e.sent = q.sent
      /\ e.closeRequest = q.closeRequest /\ e.wrote = q.wrote
  BY <1>2 DEF Differs
<1>4. PICK p : p = [e EXCEPT !.closeRequest = r]
  OBVIOUS
<1>5. Differs(p, e, e.txQueue, r, e.sent, e.wrote)
  BY <1>3, <1>4, RequestChange
<1>6. Differs(p, q, t, r, q.sent, q.wrote)
  BY <1>3, <1>5 DEF Differs
<1> QED
  BY <1>1, <1>4, <1>6

\* See QueueChange and CountChange.
LEMMA QueueAndCount ==
  ASSUME NEW q \in PeerRecord, NEW t \in Seq(Nat), NEW n \in Nat
  PROVE  Differs([[q EXCEPT !.txQueue = t] EXCEPT !.sent = n], q, t, q.closeRequest, n, q.wrote)
<1>1. PICK e : e = [q EXCEPT !.txQueue = t]
  OBVIOUS
<1>2. Differs(e, q, t, q.closeRequest, q.sent, q.wrote)
  BY <1>1, QueueChange
<1>3. /\ e \in PeerRecord /\ e.conn = q.conn /\ e.txQueue = t /\ e.sent = q.sent
      /\ e.closeRequest = q.closeRequest /\ e.wrote = q.wrote
  BY <1>2 DEF Differs
<1>4. PICK p : p = [e EXCEPT !.sent = n]
  OBVIOUS
<1>5. Differs(p, e, e.txQueue, e.closeRequest, n, e.wrote)
  BY <1>3, <1>4, CountChange
<1>6. Differs(p, q, t, q.closeRequest, n, q.wrote)
  BY <1>3, <1>5 DEF Differs
<1> QED
  BY <1>1, <1>4, <1>6

\* See QueueChange and WrittenChange.
LEMMA QueueAndWritten ==
  ASSUME NEW q \in PeerRecord, NEW t \in Seq(Nat), NEW v \in Seq(Nat)
  PROVE  Differs([[q EXCEPT !.txQueue = t] EXCEPT !.wrote = v], q, t, q.closeRequest, q.sent, v)
<1>1. PICK e : e = [q EXCEPT !.txQueue = t]
  OBVIOUS
<1>2. Differs(e, q, t, q.closeRequest, q.sent, q.wrote)
  BY <1>1, QueueChange
<1>3. /\ e \in PeerRecord /\ e.conn = q.conn /\ e.txQueue = t /\ e.sent = q.sent
      /\ e.closeRequest = q.closeRequest /\ e.wrote = q.wrote
  BY <1>2 DEF Differs
<1>4. PICK p : p = [e EXCEPT !.wrote = v]
  OBVIOUS
<1>5. Differs(p, e, e.txQueue, e.closeRequest, e.sent, v)
  BY <1>3, <1>4, WrittenChange
<1>6. Differs(p, q, t, q.closeRequest, q.sent, v)
  BY <1>3, <1>5 DEF Differs
<1> QED
  BY <1>1, <1>4, <1>6

\* A sequence that counts.
LEMMA Counting ==
  ASSUME NEW s \in Seq(Nat), \A i \in 1..Len(s) : s[i] = i
  PROVE  s = [i \in 1..Len(s) |-> i]
OBVIOUS

\* Two sequences that count on are one that counts.
LEMMA CountingOn ==
  ASSUME NEW s \in Seq(Nat), NEW t \in Seq(Nat),
         \A i \in 1..Len(s) : s[i] = i, \A i \in 1..Len(t) : t[i] = Len(s) + i
  PROVE  s \o t = [i \in 1..(Len(s) + Len(t)) |-> i]
<1>1. s \o t \in Seq(Nat) /\ Len(s \o t) = Len(s) + Len(t) /\ Len(s) \in Nat /\ Len(t) \in Nat
  OBVIOUS
<1>2. \A i \in 1..Len(s \o t) : (s \o t)[i] = i
  <2> TAKE i \in 1..Len(s \o t)
  <2>1. CASE i <= Len(s)
    BY <1>1, <2>1
  <2>2. CASE i > Len(s)
    <3>1. (s \o t)[i] = t[i - Len(s)] /\ i - Len(s) \in 1..Len(t)
      BY <1>1, <2>2
    <3> QED
      BY <1>1, <2>2, <3>1
  <2> QED
    BY <1>1, <2>1, <2>2
<1> QED
  BY <1>1, <1>2, Counting

\* A queue that counts on from n still does with the next number at its end, and
\* without its head from n + 1.
LEMMA QueueGrows ==
  ASSUME NEW n \in Nat, NEW t \in Seq(Nat), \A i \in 1..Len(t) : t[i] = n + i,
         NEW m \in Nat, m = n + Len(t) + 1
  PROVE  /\ Len(Append(t, m)) = Len(t) + 1
         /\ \A i \in 1..(Len(t) + 1) : Append(t, m)[i] = n + i
OBVIOUS

\* See QueueGrows.
LEMMA QueueShrinks ==
  ASSUME NEW n \in Nat, NEW t \in Seq(Nat), t # <<>>, \A i \in 1..Len(t) : t[i] = n + i
  PROVE  /\ Head(t) = n + 1
         /\ Tail(t) \in Seq(Nat)
         /\ Len(Tail(t)) = Len(t) - 1
         /\ \A i \in 1..(Len(t) - 1) : Tail(t)[i] = n + 1 + i
OBVIOUS
\* What Send does to a peer that is not closing: with a full queue,
LEMMA OverflowedPeer ==
  ASSUME NEW q \in PeerRecord, NEW k, NEW a, PeerOK(q, k, a), q.closeRequest = "no",
         NEW p, Differs(p, q, <<>>, "policy", q.sent, q.wrote)
  PROVE  PeerOK(p, k, TRUE)
BY DEF PeerOK, Differs

\* and with room for another frame; and what Disconnect does to it.
LEMMA RequestedPeer ==
  ASSUME NEW q \in PeerRecord, NEW k, NEW a, PeerOK(q, k, a), q.closeRequest = "no",
         NEW p, Differs(p, q, q.txQueue, "normal", q.sent, q.wrote)
  PROVE  PeerOK(p, k, TRUE)
BY DEF PeerOK, Differs, InOrder

\* See OverflowedPeer.
LEMMA QueuedPeer ==
  ASSUME NEW q \in PeerRecord, NEW k, NEW a, PeerOK(q, k, a), q.closeRequest = "no",
         NEW p, Differs(p, q, Append(q.txQueue, q.sent + 1), q.closeRequest, q.sent + 1, q.wrote)
  PROVE  PeerOK(p, k, TRUE)
<1>1. /\ q.sent \in Nat /\ q.txQueue \in Seq(Nat) /\ q.wrote \in Seq(Nat)
      /\ Len(q.txQueue) \in Nat /\ Len(q.wrote) \in Nat
  BY PeerFields
<1>2. PICK n \in Nat : n = q.sent + 1
  BY <1>1
<1>3. PICK t : t = Append(q.txQueue, n)
  OBVIOUS
<1>4. /\ p \in PeerRecord /\ p.sent = n /\ p.wrote = q.wrote
      /\ p.closeRequest = "no" /\ p.txQueue = t
  BY <1>2, <1>3 DEF Differs
<1>5. k \in SocketStates /\ k # "normal" /\ \A i \in 1..Len(q.wrote) : q.wrote[i] = i
  BY DEF PeerOK
<1>6. ASSUME k # "failed" PROVE InOrder(p)
  <2>1. PICK x \in Nat, y \in Nat : x = Len(q.wrote) /\ y = Len(q.txQueue)
    BY <1>1
  <2>2. q.sent = x + y /\ \A i \in 1..y : q.txQueue[i] = x + i
    BY <1>6, <2>1 DEF PeerOK, InOrder
  <2>3. n = x + y + 1
    BY <1>1, <1>2, <2>2
  <2>4. Len(t) = y + 1 /\ \A i \in 1..(y + 1) : t[i] = x + i
    <3>1. /\ n = x + Len(q.txQueue) + 1
          /\ \A i \in 1..Len(q.txQueue) : q.txQueue[i] = x + i
      BY <2>1, <2>2, <2>3
    <3>2. /\ Len(Append(q.txQueue, n)) = Len(q.txQueue) + 1
          /\ \A i \in 1..(Len(q.txQueue) + 1) : Append(q.txQueue, n)[i] = x + i
      BY <1>1, <3>1, QueueGrows
    <3> QED
      BY <1>3, <2>1, <3>2
  <2>5. n = x + (y + 1)
    BY <2>3
  <2>6. p.sent = Len(p.wrote) + Len(p.txQueue)
    BY <1>4, <2>1, <2>4, <2>5
  <2>7. \A i \in 1..Len(p.txQueue) : p.txQueue[i] = Len(p.wrote) + i
    BY <1>4, <2>1, <2>4
  <2> QED
    BY <2>6, <2>7 DEF InOrder
<1> QED
  BY <1>4, <1>5, <1>6 DEF PeerOK

\* A frame of an open peer that was written,
LEMMA SentPeer ==
  ASSUME NEW q \in PeerRecord, PeerOK(q, "open", TRUE),
         q.txQueue # <<>>, q.closeRequest # "policy",
         NEW b \in BOOLEAN, Tail(q.txQueue) # <<>> \/ q.closeRequest # "no" => b,
         NEW p, Differs(p, q, Tail(q.txQueue), q.closeRequest, q.sent,
                        Append(q.wrote, Head(q.txQueue)))
  PROVE  PeerOK(p, "open", b)
<1>1. /\ q.sent \in Nat /\ q.txQueue \in Seq(Nat) /\ q.wrote \in Seq(Nat)
      /\ Len(q.txQueue) \in Nat /\ Len(q.wrote) \in Nat
  BY PeerFields
<1>2. PICK x \in Nat, y \in Nat : x = Len(q.wrote) /\ y = Len(q.txQueue)
  BY <1>1
<1>3. /\ q.sent = x + y
      /\ \A i \in 1..y : q.txQueue[i] = x + i
      /\ \A i \in 1..x : q.wrote[i] = i
  BY <1>2 DEF PeerOK, InOrder
<1>4. PICK t : t = Tail(q.txQueue)
  OBVIOUS
<1>5. Head(q.txQueue) = x + 1 /\ Len(t) = y - 1 /\ \A i \in 1..(y - 1) : t[i] = x + 1 + i
  <2>1. /\ Head(q.txQueue) = x + 1
        /\ Len(Tail(q.txQueue)) = y - 1
        /\ \A i \in 1..(y - 1) : Tail(q.txQueue)[i] = x + 1 + i
    BY <1>1, <1>2, <1>3, QueueShrinks
  <2> QED
    BY <1>4, <2>1
<1>6. PICK v : v = Append(q.wrote, x + 1)
  OBVIOUS
<1>7. Len(v) = x + 1 /\ \A i \in 1..(x + 1) : v[i] = i
  <2>1. x + 1 \in Nat
    OBVIOUS
  <2>2. /\ Len(Append(q.wrote, x + 1)) = x + 1
        /\ \A i \in 1..(x + 1) : Append(q.wrote, x + 1)[i] = i
    BY <1>1, <1>2, <1>3, <2>1
  <2> QED
    BY <1>6, <2>2
<1>8. /\ p \in PeerRecord /\ p.sent = q.sent /\ p.wrote = v
      /\ p.closeRequest = q.closeRequest /\ p.txQueue = t
  BY <1>4, <1>5, <1>6 DEF Differs
<1>9. InOrder(p)
  <2>1. x + y = (x + 1) + (y - 1)
    OBVIOUS
  <2>2. p.sent = Len(p.wrote) + Len(p.txQueue)
    BY <1>3, <1>5, <1>7, <1>8, <2>1
  <2>3. \A i \in 1..Len(p.txQueue) : p.txQueue[i] = Len(p.wrote) + i
    BY <1>5, <1>7, <1>8
  <2> QED
    BY <2>2, <2>3 DEF InOrder
<1>10. \A i \in 1..Len(p.wrote) : p.wrote[i] = i
  BY <1>7, <1>8
<1>11. p.txQueue # <<>> \/ p.closeRequest # "no" => b
  BY <1>4, <1>8
<1> QED
  BY <1>8, <1>9, <1>10, <1>11 DEF PeerOK, SocketStates

\* and one that was not.
LEMMA FailedPeer ==
  ASSUME NEW q \in PeerRecord, PeerOK(q, "open", TRUE), q.closeRequest # "policy",
         NEW b \in BOOLEAN, NEW t, NEW p, Differs(p, q, t, q.closeRequest, q.sent, q.wrote)
  PROVE  PeerOK(p, "failed", b)
BY DEF PeerOK, Differs, SocketStates, CloseCauses

\* A peer that has closed with a code of its own.
LEMMA LeavingPeer ==
  ASSUME NEW q \in PeerRecord, NEW a, PeerOK(q, "open", a), NEW b \in BOOLEAN,
         NEW p, Differs(p, q, q.txQueue, q.closeRequest, q.sent, q.wrote)
  PROVE  PeerOK(p, "peer", b)
BY DEF PeerOK, Differs, InOrder, SocketStates, CloseCauses

\* A peer that was just accepted.
LEMMA AcceptedStep ==
  ASSUME Listening, PeersInv, NEW w \in Sockets, Established(w)
  PROVE  PeersInv'
<1> DEFINE s == [uri |-> listener, client |-> nextId]
           p == [conn |-> s, txQueue |-> <<>>, closeRequest |-> "no",
                 lastCloseCode |-> 0, sent |-> 0, wrote |-> <<>>]
<1>1. /\ w \notin DOMAIN peers
      /\ peers' = With(peers, w, p) /\ index' = With(index, s, w)
      /\ sock' = With(sock, w, "open")
      /\ nextId' = nextId + 1 /\ armed' = armed
  BY DEF Established, PeersInv
<1>2. listener \in Uris /\ nextId \in Nat
  BY DEF Established, LwsRuns, Listening
<1>3. p \in PeerRecord /\ p.conn = s /\ s.client = nextId
  BY <1>2 DEF PeerRecord
<1>4. PeerOK(p, "open", w \in armed')
  BY <1>3 DEF PeerOK, InOrder, SocketStates
<1> HIDE DEF p
<1>5. /\ DOMAIN peers' = DOMAIN peers \cup {w}
      /\ peers'[w] = p
      /\ \A v \in DOMAIN peers : peers'[v] = peers[v]
      /\ peers' \in [DOMAIN peers' -> PeerRecord]
  BY <1>1, <1>3 DEF With, PeersInv
<1>6. /\ sock' \in [DOMAIN peers' -> SocketStates]
      /\ sock'[w] = "open"
      /\ \A v \in DOMAIN peers : sock'[v] = sock[v]
  BY <1>1, <1>5 DEF With, PeersInv, SocketStates
<1>7. \A v \in DOMAIN peers' : PeerOK(peers'[v], sock'[v], v \in armed')
  <2> TAKE v \in DOMAIN peers'
  <2>1. CASE v = w
    BY <2>1, <1>4, <1>5, <1>6
  <2>2. CASE v \in DOMAIN peers
    BY <2>2, <1>1, <1>5, <1>6 DEF PeersInv
  <2> QED
    BY <2>1, <2>2, <1>5
<1>8. \A v \in DOMAIN peers' : peers'[v].conn.client < nextId'
  <2> TAKE v \in DOMAIN peers'
  <2>1. CASE v = w
    BY <2>1, <1>1, <1>2, <1>3, <1>5
  <2>2. CASE v \in DOMAIN peers
    <3>1. peers[v].conn.client \in Nat /\ peers[v].conn.client < nextId
      BY <2>2 DEF PeersInv, PeerRecord
    <3> QED
      BY <2>2, <3>1, <1>1, <1>2, <1>5
  <2> QED
    BY <2>1, <2>2, <1>5
<1>9. \A v \in DOMAIN peers : peers[v].conn # s
  BY <1>2, <1>3 DEF PeersInv, PeerRecord
<1> HIDE DEF s
<1>10. /\ DOMAIN index' = DOMAIN index \cup {s}
       /\ index'[s] = w
       /\ \A t \in DOMAIN index \ {s} : index'[t] = index[t]
       /\ index' \in [DOMAIN index' -> DOMAIN peers']
  BY <1>1, <1>5 DEF With, PeersInv
<1>11. StringsNameTheirPeers'
  <2>1. DOMAIN index = {peers[v].conn : v \in DOMAIN peers}
        /\ \A t \in DOMAIN index : index[t] \in DOMAIN peers /\ peers[index[t]].conn = t
    BY DEF PeersInv, StringsNameTheirPeers, Live
  <2>2. DOMAIN index' = {peers'[v].conn : v \in DOMAIN peers'}
    BY <2>1, <1>3, <1>5, <1>10
  <2>3. \A t \in DOMAIN index' : index'[t] \in DOMAIN peers' /\ peers'[index'[t]].conn = t
    BY <2>1, <1>3, <1>5, <1>10
  <2> QED
    BY <2>2, <2>3 DEF StringsNameTheirPeers, Live
<1>12. \A v \in DOMAIN peers' : index'[peers'[v].conn] = v
  <2> TAKE v \in DOMAIN peers'
  <2>1. CASE v = w
    BY <2>1, <1>3, <1>5, <1>10
  <2>2. CASE v \in DOMAIN peers
    <3>1. peers[v].conn \in DOMAIN index \ {s} /\ index[peers[v].conn] = v
      BY <2>2, <1>9 DEF PeersInv, StringsNameTheirPeers, Live
    <3> QED
      BY <2>2, <3>1, <1>5, <1>10
  <2> QED
    BY <2>1, <2>2, <1>5
<1> QED
  BY <1>5, <1>6, <1>7, <1>8, <1>10, <1>11, <1>12 DEF PeersInv

\* A peer that has gone takes its connection string with it, and no other.
LEMMA ClosedStep ==
  ASSUME PeersInv, NEW w \in Sockets, Closed(w)
  PROVE  PeersInv'
<1> DEFINE s == peers[w].conn
<1>1. /\ w \in DOMAIN peers
      /\ peers' = Without(peers, w) /\ sock' = Without(sock, w)
      /\ index' = Without(index, s)
      /\ armed' = armed \ {w} /\ nextId' = nextId
  BY DEF Closed, IndexWithout, config
<1>2. DOMAIN index = {peers[v].conn : v \in DOMAIN peers}
      /\ \A t \in DOMAIN index : index[t] \in DOMAIN peers /\ peers[index[t]].conn = t
  BY DEF PeersInv, StringsNameTheirPeers, Live
<1>3. /\ DOMAIN peers' = DOMAIN peers \ {w}
      /\ \A v \in DOMAIN peers' : peers'[v] = peers[v] /\ sock'[v] = sock[v]
      /\ peers' \in [DOMAIN peers' -> PeerRecord]
      /\ sock' \in [DOMAIN peers' -> SocketStates]
  BY <1>1 DEF Without, PeersInv
<1>4. /\ DOMAIN index' = DOMAIN index \ {s}
      /\ \A t \in DOMAIN index' : index'[t] = index[t]
  BY <1>1 DEF Without, PeersInv
<1>5. index[s] = w /\ \A v \in DOMAIN peers : peers[v].conn = s => v = w
  BY <1>1 DEF PeersInv
<1> HIDE DEF s
<1>6. \A t \in DOMAIN index' : index'[t] \in DOMAIN peers'
  BY <1>2, <1>3, <1>4, <1>5 DEF s
<1>7. index' \in [DOMAIN index' -> DOMAIN peers']
  BY <1>1, <1>4, <1>6 DEF Without
<1>8. StringsNameTheirPeers'
  <2>1. DOMAIN index' = {peers'[v].conn : v \in DOMAIN peers'}
    BY <1>2, <1>3, <1>4, <1>5 DEF s
  <2>2. \A t \in DOMAIN index' : peers'[index'[t]].conn = t
    BY <1>2, <1>3, <1>4, <1>6
  <2> QED
    BY <1>6, <2>1, <2>2 DEF StringsNameTheirPeers, Live
<1>9. \A v \in DOMAIN peers' : index'[peers'[v].conn] = v
  BY <1>2, <1>3, <1>4, <1>5 DEF PeersInv
<1>10. \A v \in DOMAIN peers' : PeerOK(peers'[v], sock'[v], v \in armed')
  <2> TAKE v \in DOMAIN peers'
  <2>1. PeerOK(peers[v], sock[v], v \in armed) /\ (v \in armed' <=> v \in armed)
    BY <1>1, <1>3 DEF PeersInv
  <2> QED
    BY <1>3, <2>1
<1>11. \A v \in DOMAIN peers' : peers'[v].conn.client < nextId'
  BY <1>1, <1>3 DEF PeersInv
<1> QED
  BY <1>3, <1>7, <1>8, <1>9, <1>10, <1>11 DEF PeersInv

\* A close request is announced, and changes nothing else.
LEMMA DisconnectStep ==
  ASSUME PeersInv, NEW s, Disconnect(s)
  PROVE  PeersInv'
<1> DEFINE w == index[s]
<1>1. /\ w \in DOMAIN peers /\ RequestClose(w, "normal")
      /\ UNCHANGED <<index, nextId, sock>>
  BY DEF Disconnect, config
<1> HIDE DEF w
<1>2. PICK q \in PeerRecord : q = peers[w]
  BY <1>1 DEF PeersInv
<1>3. /\ sock[w] \in SocketStates /\ sock' = [sock EXCEPT ![w] = sock[w]]
      /\ PeerOK(q, sock[w], w \in armed)
  BY <1>1, <1>2 DEF PeersInv
<1>4. CASE q.closeRequest = "no"
  <2>1. peers' = [peers EXCEPT ![w] = [q EXCEPT !.closeRequest = "normal"]]
        /\ armed' = armed \cup {w}
    BY <1>1, <1>2, <1>4 DEF RequestClose
  <2>2. PICK p : p = [q EXCEPT !.closeRequest = "normal"] /\ peers' = [peers EXCEPT ![w] = p]
    BY <2>1
  <2>3. Differs(p, q, q.txQueue, "normal", q.sent, q.wrote)
    <3>1. "normal" \in {"no", "normal", "policy"}
      OBVIOUS
    <3>2. Differs([q EXCEPT !.closeRequest = "normal"], q, q.txQueue, "normal", q.sent, q.wrote)
      BY <3>1, RequestChange
    <3> QED
      BY <2>2, <3>2
  <2>4. p \in PeerRecord /\ p.conn = q.conn
    BY <2>3 DEF Differs
  <2>5. PeerOK(p, sock[w], TRUE)
    BY <1>3, <1>4, <2>3, RequestedPeer
  <2>6. w \in armed' /\ armed \ {w} \subseteq armed'
    BY <2>1
  <2>7. PeerOK(p, sock[w], w \in armed')
    BY <2>5, <2>6 DEF PeerOK
  <2> QED
    BY <1>1, <1>2, <1>3, <2>2, <2>4, <2>6, <2>7, ChangedPeer
<1>5. CASE q.closeRequest # "no"
  <2>1. armed' = armed /\ peers' = [peers EXCEPT ![w].closeRequest = q.closeRequest]
    BY <1>1, <1>2, <1>5 DEF RequestClose
  <2>2. [q EXCEPT !.closeRequest = q.closeRequest] = q
    BY PeerShape
  <2>3. peers' = peers
    BY <1>1, <1>2, <2>1, <2>2 DEF PeersInv
  <2> QED
    BY <1>1, <2>1, <2>3, SamePeers
<1> QED
  BY <1>4, <1>5

\* A frame is queued behind the others, or the full queue is given up.
LEMMA SendStep ==
  ASSUME PeersInv, NEW s, Send(s)
  PROVE  PeersInv'
<1> DEFINE w == index[s]
<1>1. /\ w \in DOMAIN peers /\ peers[w].closeRequest = "no"
      /\ UNCHANGED <<index, nextId, sock>>
      /\ armed' = armed \cup {w}
  BY DEF Send, config
<1>2. PICK q \in PeerRecord : q = peers[w]
  BY <1>1 DEF PeersInv
<1>3. /\ sock[w] \in SocketStates /\ sock' = [sock EXCEPT ![w] = sock[w]]
      /\ PeerOK(q, sock[w], w \in armed)
  BY <1>1, <1>2 DEF PeersInv
<1>4. \/ peers' = [peers EXCEPT ![w] =
           [[q EXCEPT !.txQueue = <<>>] EXCEPT !.closeRequest = "policy"]]
      \/ peers' = [peers EXCEPT ![w] =
           [[q EXCEPT !.txQueue = Append(q.txQueue, q.sent + 1)] EXCEPT !.sent = q.sent + 1]]
  <2>1. CASE FullQueue(peers[w].txQueue)
    BY <1>2, <2>1 DEF Send
  <2>2. CASE ~FullQueue(peers[w].txQueue)
    BY <1>2, <2>2 DEF Send
  <2> QED
    BY <2>1, <2>2
<1> HIDE DEF w
<1>5. /\ <<>> \in Seq(Nat) /\ "policy" \in {"no", "normal", "policy"}
      /\ q.sent + 1 \in Nat /\ q.wrote \in Seq(Nat)
      /\ Append(q.txQueue, q.sent + 1) \in Seq(Nat)
  <2>1. q.sent \in Nat /\ q.txQueue \in Seq(Nat) /\ q.wrote \in Seq(Nat)
    BY PeerFields
  <2>2. q.sent + 1 \in Nat
    BY <2>1
  <2> QED
    BY <2>1, <2>2
<1>6. /\ Differs([[q EXCEPT !.txQueue = <<>>] EXCEPT !.closeRequest = "policy"], q,
                 <<>>, "policy", q.sent, q.wrote)
      /\ Differs([[q EXCEPT !.txQueue = Append(q.txQueue, q.sent + 1)]
                    EXCEPT !.sent = q.sent + 1], q,
                 Append(q.txQueue, q.sent + 1), q.closeRequest, q.sent + 1, q.wrote)
  BY <1>5, QueueAndRequest, QueueAndCount
<1>7. \E p : /\ peers' = [peers EXCEPT ![w] = p]
             /\ \/ Differs(p, q, <<>>, "policy", q.sent, q.wrote)
                \/ Differs(p, q, Append(q.txQueue, q.sent + 1), q.closeRequest,
                           q.sent + 1, q.wrote)
  BY <1>4, <1>6
<1>11. PICK p : /\ peers' = [peers EXCEPT ![w] = p]
                /\ \/ Differs(p, q, <<>>, "policy", q.sent, q.wrote)
                   \/ Differs(p, q, Append(q.txQueue, q.sent + 1), q.closeRequest,
                              q.sent + 1, q.wrote)
  BY <1>7
<1>12. p \in PeerRecord /\ p.conn = q.conn
  BY <1>11 DEF Differs
<1>10. PeerOK(p, sock[w], TRUE)
  BY <1>1, <1>2, <1>3, <1>11, OverflowedPeer, QueuedPeer
<1>8. w \in armed' /\ armed \ {w} \subseteq armed'
  BY <1>1
<1>9. PeerOK(p, sock[w], w \in armed')
  BY <1>8, <1>10 DEF PeerOK
<1> QED
  BY <1>1, <1>2, <1>3, <1>8, <1>9, <1>11, <1>12, ChangedPeer

\* A peer that has sent text is closing.
LEMMA ReceiveStep ==
  ASSUME PeersInv, NEW w \in Sockets, Receive(w)
  PROVE  PeersInv'
<1>1. w \in DOMAIN peers /\ sock[w] = "open" /\ UNCHANGED <<peers, index, nextId, armed>>
  BY DEF Receive, config
<1>2. PICK q \in PeerRecord : q = peers[w]
  BY <1>1 DEF PeersInv
<1>3. PeerOK(q, "open", w \in armed')
  BY <1>1, <1>2 DEF PeersInv
<1>4. CASE sock' = sock
  BY <1>1, <1>4, SamePeers
<1>5. CASE sock' = [sock EXCEPT ![w] = "text"]
  <2>1. peers' = [peers EXCEPT ![w] = q] /\ "text" \in SocketStates
    BY <1>1, <1>2 DEF PeersInv, SocketStates, CloseCauses
  <2>2. PeerOK(q, "text", w \in armed')
    BY <1>3 DEF PeerOK, SocketStates, CloseCauses
  <2>3. UNCHANGED <<index, nextId>> /\ armed \ {w} \subseteq armed'
    BY <1>1
  <2> QED
    BY <1>1, <1>2, <1>5, <2>1, <2>2, <2>3, ChangedPeer
<1> QED
  BY <1>4, <1>5 DEF Receive

\* So is one that has sent a close frame.
LEMMA PeerCloseStep ==
  ASSUME PeersInv, NEW w \in Sockets, NEW code \in Nat, PeerInitiatedClose(w, code)
  PROVE  PeersInv'
<1>1. w \in DOMAIN peers /\ sock[w] = "open" /\ UNCHANGED <<index, nextId>>
      /\ sock' = [sock EXCEPT ![w] = "peer"]
  BY DEF PeerInitiatedClose, config
<1>2. PICK q \in PeerRecord : q = peers[w]
  BY <1>1 DEF PeersInv
<1>3. armed' = armed /\ PeerOK(q, "open", w \in armed')
  BY <1>1, <1>2 DEF PeersInv, PeerInitiatedClose
<1>4. PICK p : p = [q EXCEPT !.lastCloseCode = code] /\ peers' = [peers EXCEPT ![w] = p]
  BY <1>2 DEF PeerInitiatedClose
<1>5. Differs(p, q, q.txQueue, q.closeRequest, q.sent, q.wrote)
  <2>1. Differs([q EXCEPT !.lastCloseCode = code], q, q.txQueue, q.closeRequest, q.sent, q.wrote)
    BY CodeChange
  <2> QED
    BY <1>4, <2>1
<1>6. p \in PeerRecord /\ p.conn = q.conn
  BY <1>5 DEF Differs
<1>7. (w \in armed') \in BOOLEAN /\ "peer" \in SocketStates /\ armed \ {w} \subseteq armed'
  BY <1>3 DEF SocketStates, CloseCauses
<1>8. PeerOK(p, "peer", w \in armed')
  BY <1>3, <1>5, <1>7, LeavingPeer
<1> QED
  BY <1>1, <1>2, <1>4, <1>6, <1>7, <1>8, ChangedPeer

\* In a WRITEABLE callback the requested close is made, or the oldest frame goes out
\* and another turn is asked for while there is something left to do.
LEMMA WriteableStep ==
  ASSUME PeersInv, NEW w \in Sockets, Writeable(w)
  PROVE  PeersInv'
<1>1. w \in DOMAIN peers /\ sock[w] = "open" /\ w \in armed /\ UNCHANGED <<index, nextId>>
  BY DEF Writeable, config
<1>2. PICK q \in PeerRecord : q = peers[w]
  BY <1>1 DEF PeersInv
<1>3. PeerOK(q, "open", TRUE) /\ q.closeRequest \in {"no", "normal", "policy"}
  <2>1. PeerOK(q, "open", w \in armed)
    BY <1>1, <1>2 DEF PeersInv
  <2>3. PeerOK(q, "open", TRUE)
    BY <1>1, <2>1, Zenon DEF PeerOK
  <2> QED
    BY <2>3, PeerFields
<1>4. /\ peers = [peers EXCEPT ![w] = q] /\ sock = [sock EXCEPT ![w] = "open"]
      /\ "open" \in SocketStates /\ "failed" \in SocketStates
  BY <1>1, <1>2 DEF PeersInv, SocketStates, CloseCauses
<1>5. CASE CloseFromWriteable(w)
  <2>1. /\ peers' = [peers EXCEPT ![w] = q] /\ armed' = armed \ {w}
        /\ sock' = [sock EXCEPT ![w] = q.closeRequest]
        /\ q.closeRequest = "policy" \/ (q.closeRequest = "normal" /\ q.txQueue = <<>>)
    BY <1>2, <1>4, <1>5 DEF CloseFromWriteable, ApplyRequestedClose
  <2>2. PeerOK(q, q.closeRequest, w \in armed') /\ q.closeRequest \in SocketStates
    BY <1>3, <2>1 DEF PeerOK, SocketStates, CloseCauses
  <2> QED
    BY <1>1, <1>2, <2>1, <2>2, ChangedPeer
<1>6. CASE NothingToWrite(w)
  <2>1. /\ peers' = [peers EXCEPT ![w] = q] /\ sock' = [sock EXCEPT ![w] = "open"]
        /\ armed' = armed \ {w} /\ q.txQueue = <<>> /\ q.closeRequest = "no"
    BY <1>2, <1>3, <1>4, <1>6 DEF NothingToWrite, ApplyRequestedClose
  <2>2. PeerOK(q, "open", w \in armed')
    BY <1>3, <2>1 DEF PeerOK, SocketStates
  <2> QED
    BY <1>1, <1>2, <1>4, <2>1, <2>2, ChangedPeer
<1>7. CASE FlushOneQueuedFrame(w)
  <2>1. q.txQueue # <<>> /\ q.closeRequest # "policy"
    BY <1>2, <1>7 DEF FlushOneQueuedFrame, ApplyRequestedClose
  <2>2. /\ Tail(q.txQueue) \in Seq(Nat) /\ q.sent \in Nat
        /\ Append(q.wrote, Head(q.txQueue)) \in Seq(Nat) /\ q.wrote \in Seq(Nat)
    <3>1. q.txQueue \in Seq(Nat) /\ q.wrote \in Seq(Nat) /\ q.sent \in Nat
      BY PeerFields
    <3>2. Tail(q.txQueue) \in Seq(Nat) /\ Head(q.txQueue) \in Nat
      BY <2>1, <3>1
    <3> QED
      BY <3>1, <3>2
  <2>3. Differs([[q EXCEPT !.txQueue = Tail(q.txQueue)]
                   EXCEPT !.wrote = Append(q.wrote, Head(q.txQueue))], q,
                Tail(q.txQueue), q.closeRequest, q.sent, Append(q.wrote, Head(q.txQueue)))
    BY <2>2, QueueAndWritten
  <2>4. Differs([q EXCEPT !.txQueue = Tail(q.txQueue)], q,
                Tail(q.txQueue), q.closeRequest, q.sent, q.wrote)
    BY <2>2, QueueChange
  <2>5. CASE /\ peers' = [peers EXCEPT ![w] = [[q EXCEPT !.txQueue = Tail(q.txQueue)]
                            EXCEPT !.wrote = Append(q.wrote, Head(q.txQueue))]]
             /\ armed' = IF Tail(q.txQueue) # <<>> \/ q.closeRequest # "no"
                         THEN armed ELSE armed \ {w}
             /\ sock' = sock
    <3>1. PICK p : /\ peers' = [peers EXCEPT ![w] = p]
                   /\ Differs(p, q, Tail(q.txQueue), q.closeRequest, q.sent,
                              Append(q.wrote, Head(q.txQueue)))
      BY <2>3, <2>5
    <3>2. /\ Tail(q.txQueue) # <<>> \/ q.closeRequest # "no" => w \in armed'
          /\ (w \in armed') \in BOOLEAN /\ armed \ {w} \subseteq armed'
          /\ sock' = [sock EXCEPT ![w] = "open"]
      BY <1>1, <1>4, <2>5
    <3>3. p \in PeerRecord /\ p.conn = q.conn
      BY <3>1 DEF Differs
    <3>4. PeerOK(p, "open", w \in armed')
      BY <1>3, <2>1, <3>1, <3>2, SentPeer
    <3> QED
      BY <1>1, <1>2, <1>4, <3>1, <3>2, <3>3, <3>4, ChangedPeer
  <2>6. CASE /\ peers' = [peers EXCEPT ![w] = [q EXCEPT !.txQueue = Tail(q.txQueue)]]
             /\ sock' = [sock EXCEPT ![w] = "failed"]
             /\ armed' = armed \ {w}
    <3>1. PICK p : /\ peers' = [peers EXCEPT ![w] = p]
                   /\ Differs(p, q, Tail(q.txQueue), q.closeRequest, q.sent, q.wrote)
      BY <2>4, <2>6
    <3>2. (w \in armed') \in BOOLEAN /\ armed \ {w} \subseteq armed'
      BY <2>6
    <3>3. p \in PeerRecord /\ p.conn = q.conn
      BY <3>1 DEF Differs
    <3>4. PeerOK(p, "failed", w \in armed')
      BY <1>3, <2>1, <3>1, <3>2, FailedPeer
    <3> QED
      BY <1>1, <1>2, <1>4, <2>6, <3>1, <3>2, <3>3, <3>4, ChangedPeer
  <2>7. \/ /\ peers' = [peers EXCEPT ![w] = [[q EXCEPT !.txQueue = Tail(q.txQueue)]
                            EXCEPT !.wrote = Append(q.wrote, Head(q.txQueue))]]
           /\ armed' = IF Tail(q.txQueue) # <<>> \/ q.closeRequest # "no"
                       THEN armed ELSE armed \ {w}
           /\ sock' = sock
        \/ /\ peers' = [peers EXCEPT ![w] = [q EXCEPT !.txQueue = Tail(q.txQueue)]]
           /\ sock' = [sock EXCEPT ![w] = "failed"]
           /\ armed' = armed \ {w}
    BY <1>2, <1>7 DEF FlushOneQueuedFrame, AsksAgain
  <2> QED
    BY <2>5, <2>6, <2>7
<1> QED
  BY <1>5, <1>6, <1>7 DEF Writeable

\* Every step keeps the peers.
LEMMA PeersStep == Listening /\ PeersInv /\ [Next]_vars => PeersInv'
<1> SUFFICES ASSUME Listening, PeersInv, [Next]_vars PROVE PeersInv'
  OBVIOUS
<1>1. ASSUME NEW u \in Uris, StackStartsListening(u) PROVE PeersInv'
  <2>1. UNCHANGED <<peers, index, sock, armed>>
    BY <1>1 DEF StackStartsListening, lws
  <2>2. nextId' = nextId
    BY <1>1, Attempts DEF StackStartsListening, StartListening
  <2> QED
    BY <2>1, <2>2, SamePeers
<1>2. ASSUME NEW u \in Uris, StopListening(u) PROVE PeersInv'
  BY <1>2, SamePeers DEF StopListening, lws
<1>3. ASSUME NEW s \in minted, Send(s) \/ Disconnect(s) PROVE PeersInv'
  BY <1>3, SendStep, DisconnectStep
<1>4. ASSUME PopReceived PROVE PeersInv'
  BY <1>4, SamePeers DEF PopReceived, lws, config
<1>5. ASSUME NEW w \in Sockets, Established(w) PROVE PeersInv'
  BY <1>5, AcceptedStep
<1>6. ASSUME NEW w \in Sockets, Writeable(w) PROVE PeersInv'
  BY <1>6, WriteableStep
<1>7. ASSUME NEW w \in Sockets, Closed(w) PROVE PeersInv'
  BY <1>7, ClosedStep
<1>8. ASSUME NEW w \in Sockets, Receive(w) PROVE PeersInv'
  BY <1>8, ReceiveStep
<1>16. ASSUME NEW w \in Sockets, NEW code \in {1000, 1002}, PeerInitiatedClose(w, code)
       PROVE  PeersInv'
  <2>1. code \in Nat
    OBVIOUS
  <2> QED
    BY <1>16, <2>1, PeerCloseStep
<1>9. ASSUME Service PROVE PeersInv'
  <2>1. UNCHANGED <<peers, index, sock, armed>>
    BY <1>9 DEF Service, lws
  <2>2. CASE listener = None /\ wanted # None
    <3>1. TryListen(wanted, hold)
      BY <1>9, <2>2 DEF Service, RetryListener, StartListening
    <3> QED
      BY <2>1, <3>1, Attempts, SamePeers
  <2>3. CASE ~(listener = None /\ wanted # None)
    BY <1>9, <2>1, <2>3, SamePeers DEF Service, RetryListener
  <2> QED
    BY <2>2, <2>3
<1>10. ASSUME ServiceReturns \/ DrainStatusEvents \/ NothingToReload PROVE PeersInv'
  BY <1>10, SamePeers DEF ServiceReturns, DrainStatusEvents, NothingToReload, lws, config
<1>11. ASSUME ReloadCredentials PROVE PeersInv'
  <2>1. UNCHANGED <<peers, index, sock, armed>>
    BY <1>11 DEF ReloadCredentials, lws
  <2>2. nextId' = nextId
    BY <1>11, Attempts DEF ReloadCredentials
  <2> QED
    BY <2>1, <2>2, SamePeers
<1>12. ASSUME FlushTurn \/ FlushTurnEnds PROVE PeersInv'
  BY <1>12, SamePeers DEF FlushTurn, FlushTurnEnds, lws
<1>13. ASSUME DestroyListenerContext PROVE PeersInv'
  <2>1. peers' = <<>> /\ sock' = <<>> /\ index' = <<>>
    BY <1>13 DEF DestroyListenerContext
  <2> QED
    BY <2>1, NoPeers DEF PeersInv, StringsNameTheirPeers, Live
<1>14. ASSUME Environment PROVE PeersInv'
  BY <1>14, SamePeers DEF Environment, RetryIntervalOver, FilesOrPortChange, ReadingChanges,
                          lws, config
<1>15. ASSUME UNCHANGED vars PROVE PeersInv'
  BY <1>15, SamePeers DEF vars, lws, config
<1> QED
  BY <1>1, <1>2, <1>3, <1>4, <1>5, <1>6, <1>7, <1>8, <1>9, <1>10, <1>11, <1>12, <1>13, <1>14,
     <1>15, <1>16
  DEF Next, StackCall, Callback, MainLoop

\* The peers stay as they should be.
LEMMA PeersInvariant == Spec => []PeersInv
<1>1. Init => PeersInv
  BY NoPeers DEF Init
<1> QED
  BY <1>1, PeersStep, AlwaysListening, PTL DEF Spec

\* A frame or a close for a connection string can only reach the peer it was made for
\* (m_connStringToWsi against m_peers).
THEOREM StringsReachTheirPeers == Spec => []StringsNameTheirPeers
<1>1. PeersInv => StringsNameTheirPeers
  BY DEF PeersInv
<1> QED
  BY <1>1, PeersInvariant, PTL

\* An open socket with a frame to send or a close to make has asked for WRITEABLE.
THEOREM WakeupsAreAskedFor == Spec => []NoLostWakeup
<1>1. PeersInv => NoLostWakeup
  BY DEF PeersInv, PeerOK, NoLostWakeup
<1> QED
  BY <1>1, PeersInvariant, PTL

\* Frames leave in the order Send took them, and a normal close comes after all of
\* them (EnqueueFrame, FlushOneQueuedFrame, ApplyRequestedClose).
THEOREM FramesLeaveInOrder == Spec => []NothingIsLostBeforeANormalClose
<1>1. PeersInv => NothingIsLostBeforeANormalClose
  <2> SUFFICES ASSUME PeersInv, NEW w \in DOMAIN peers
               PROVE  LET p == peers[w]
                      IN  /\ p.wrote = [i \in 1..Len(p.wrote) |-> i]
                          /\ p.closeRequest # "policy" /\ sock[w] # "failed"
                               => p.wrote \o p.txQueue = [i \in 1..p.sent |-> i]
                          /\ sock[w] = "normal" => Len(p.wrote) = p.sent
    BY DEF NothingIsLostBeforeANormalClose
  <2> DEFINE p == peers[w]
             n == Len(p.wrote)
             m == Len(p.txQueue)
  <2>1. p \in PeerRecord /\ PeerOK(p, sock[w], w \in armed)
    BY DEF PeersInv
  <2>2. /\ p.wrote \in Seq(Nat) /\ p.txQueue \in Seq(Nat)
        /\ n \in Nat /\ m \in Nat /\ p.sent \in Nat
    BY <2>1, PeerFields
  <2>3. \A i \in 1..n : p.wrote[i] = i
    BY <2>1 DEF PeerOK
  <2>4. p.wrote = [i \in 1..n |-> i]
    BY <2>2, <2>3, Counting
  <2>5. ASSUME p.closeRequest # "policy", sock[w] # "failed"
        PROVE  p.wrote \o p.txQueue = [i \in 1..p.sent |-> i]
    <3>1. p.sent = n + m /\ \A i \in 1..m : p.txQueue[i] = n + i
      BY <2>1, <2>5 DEF PeerOK, InOrder
    <3> QED
      BY <2>2, <2>3, <3>1, CountingOn
  <2>6. ASSUME sock[w] = "normal" PROVE n = p.sent
    <3>1. p.closeRequest = "normal" /\ p.txQueue = <<>> /\ InOrder(p)
      BY <2>1, <2>6 DEF PeerOK
    <3>2. m = 0
      BY <3>1
    <3> QED
      BY <2>2, <3>1, <3>2 DEF InOrder
  <2> QED
    BY <2>4, <2>5, <2>6
<1> QED
  BY <1>1, PeersInvariant, PTL

-----------------------------------------------------------------------------
(***************************************************************************)
(* Every close is reported once                                            *)
(***************************************************************************)

String == [uri : Uris, client : Nat]
Event == [uri : String, status : {3, 4}]

\* Every connection string is below m_nextClientId, and is a live peer's, waits in the
\* status queue, once, or has been reported to the stack.
ReportInv ==
  /\ IsFiniteSet(DOMAIN peers)
  /\ status \in Seq(Event)
  /\ \A i, j \in 1..Len(status) : status[i].uri = status[j].uri => i = j
  /\ minted \subseteq String
  /\ \A s \in minted : s.client < nextId
  /\ minted = Live \cup Queued \cup told
  /\ Live \cap Queued = {} /\ Live \cap told = {} /\ Queued \cap told = {}

\* What waits is one string for each event.
LEMMA QueuedByPosition ==
  ASSUME status \in Seq(Event)
  PROVE  Queued = {status[i].uri : i \in 1..Len(status)}
BY DEF Queued

\* A step that accepts, closes and reports nobody.
LEMMA NothingToReport ==
  ASSUME ReportInv, UNCHANGED <<status, told, minted, nextId>>,
         DOMAIN peers' = DOMAIN peers, \A w \in DOMAIN peers : peers'[w].conn = peers[w].conn
  PROVE  ReportInv'
<1>1. Live' = Live /\ Queued' = Queued
  BY DEF Live, Queued
<1> QED
  BY <1>1 DEF ReportInv

\* One peer is given a new string.
LEMMA AcceptedIsNew ==
  ASSUME Listening, PeersInv, ReportInv, NEW w \in Sockets, Established(w)
  PROVE  ReportInv'
<1> DEFINE s == [uri |-> listener, client |-> nextId]
<1>1. /\ w \notin DOMAIN peers
      /\ DOMAIN peers' = DOMAIN peers \cup {w}
      /\ peers'[w].conn = s
      /\ \A v \in DOMAIN peers : peers'[v] = peers[v]
      /\ minted' = minted \cup {s} /\ nextId' = nextId + 1
      /\ status' = status /\ told' = told
  BY DEF Established, PeersInv, With
<1>2. nextId \in Nat /\ s.client = nextId /\ s \in String
  BY DEF Listening, Established, LwsRuns, String
<1>3. s \notin minted
  BY <1>2 DEF ReportInv
<1>4. \A t \in minted' : t.client < nextId'
  <2>1. \A t \in minted : t.client \in Nat /\ t.client < nextId
    BY DEF ReportInv, String
  <2> HIDE DEF s
  <2> QED
    BY <1>1, <1>2, <2>1
<1> HIDE DEF s
<1>5. Live' = Live \cup {s} /\ Queued' = Queued
  BY <1>1 DEF Live, Queued
<1>6. IsFiniteSet(DOMAIN peers')
  BY <1>1, FS_AddElement DEF ReportInv
<1> QED
  BY <1>1, <1>2, <1>3, <1>4, <1>5, <1>6 DEF ReportInv

\* A string moves from its peer to the end of the status queue.
LEMMA ClosedIsQueued ==
  ASSUME PeersInv, ReportInv, NEW w \in Sockets, Closed(w)
  PROVE  ReportInv'
<1> DEFINE s == peers[w].conn
           e == CloseEvent(peers[w])
<1>1. /\ w \in DOMAIN peers /\ DOMAIN peers' = DOMAIN peers \ {w}
      /\ \A v \in DOMAIN peers' : peers'[v] = peers[v]
      /\ status' = Append(status, e)
      /\ UNCHANGED <<told, minted, nextId>>
  BY DEF Closed, Without, config, history
<1>2. e \in Event /\ e.uri = s
  <2>1. s \in String
    BY <1>1 DEF PeersInv, PeerRecord, String
  <2> QED
    BY <2>1 DEF CloseEvent, Event
<1>3. \A v \in DOMAIN peers : peers[v].conn = s => v = w
  BY <1>1 DEF PeersInv
<1> HIDE DEF e, s
<1>4. Live' = Live \ {s} /\ s \in Live
  BY <1>1, <1>3 DEF Live, s
<1>5. PICK n \in Nat : n = Len(status)
  BY DEF ReportInv
<1>6. /\ status' \in Seq(Event) /\ Len(status') = n + 1
      /\ \A i \in 1..n : status'[i] = status[i]
      /\ status'[n + 1] = e
  BY <1>1, <1>2, <1>5, AppendProperties DEF ReportInv
<1>7. 1..Len(status') = (1..n) \cup {n + 1} /\ n + 1 \notin 1..n
  BY <1>6
<1>8. Queued' = Queued \cup {s}
  <2>1. Queued = {status[i].uri : i \in 1..n}
    BY <1>5, QueuedByPosition DEF ReportInv
  <2>2. Queued' = {status'[i].uri : i \in 1..Len(status')}
    BY <1>6 DEF Queued
  <2> QED
    BY <1>2, <1>6, <1>7, <2>1, <2>2
<1>9. \A i, j \in 1..Len(status') : status'[i].uri = status'[j].uri => i = j
  <2>1. \A i \in 1..n : status'[i].uri # s
    <3>1. \A i \in 1..n : status[i].uri \in Queued
      BY <1>5, QueuedByPosition DEF ReportInv
    <3> QED
      BY <1>4, <1>6, <3>1 DEF ReportInv
  <2>2. \A i, j \in 1..n : status'[i].uri = status'[j].uri => i = j
    BY <1>5, <1>6 DEF ReportInv
  <2> QED
    BY <1>2, <1>6, <1>7, <2>1, <2>2
<1>10. IsFiniteSet(DOMAIN peers')
  BY <1>1, FS_RemoveElement DEF ReportInv
<1> QED
  BY <1>1, <1>4, <1>6, <1>8, <1>9, <1>10 DEF ReportInv

\* An order of a finite set names every element of it, each once.
LEMMA OrdersNameAll ==
  ASSUME NEW S, IsFiniteSet(S), NEW order \in SetToSeqs(S)
  PROVE  \E n \in Nat :
           /\ order \in [1..n -> S]
           /\ \A i, j \in 1..n : order[i] = order[j] => i = j
           /\ \A x \in S : \E i \in 1..n : order[i] = x
<1>1. PICK n \in Nat : n = Cardinality(S)
  BY FS_CardinalityType
<1>2. /\ order \in [1..n -> S]
      /\ \A i, j \in 1..n : order[i] = order[j] => i = j
  BY <1>1 DEF SetToSeqs
<1>3. order \in Injection(1..n, S)
  BY <1>2 DEF Injection, IsInjective
<1>4. IsFiniteSet(1..n) /\ Cardinality(1..n) = n
  <2>1. 1 \in Int /\ n \in Int /\ (IF 1 > n THEN 0 ELSE n - 1 + 1) = n
    OBVIOUS
  <2> QED
    BY <2>1, FS_Interval
<1>5. order \in Surjection(1..n, S)
  BY <1>1, <1>3, <1>4, FS_Injection
<1> QED
  BY <1>2, <1>5 DEF Surjection

\* Every peer of a listener that is destroyed is queued, once.
LEMMA DestroyedAreQueued ==
  ASSUME PeersInv, ReportInv, DestroyListenerContext, UNCHANGED nextId
  PROVE  ReportInv'
<1>1. /\ peers' = <<>> /\ UNCHANGED <<told, minted>>
      /\ \E events \in CloseEvents : status' = status \o events
  BY DEF DestroyListenerContext, history
<1>e. PICK events \in CloseEvents : status' = status \o events
  BY <1>1
<1>2. PICK order \in SetToSeqs(DOMAIN peers) :
        events = [i \in DOMAIN order |-> CloseEvent(peers[order[i]])]
  BY <1>e DEF CloseEvents
<1>3. PICK m \in Nat :
        /\ order \in [1..m -> DOMAIN peers]
        /\ \A i, j \in 1..m : order[i] = order[j] => i = j
        /\ \A w \in DOMAIN peers : \E i \in 1..m : order[i] = w
  BY OrdersNameAll DEF ReportInv
<1>4. \A w \in DOMAIN peers : CloseEvent(peers[w]) \in Event /\ CloseEvent(peers[w]).uri = peers[w].conn
  <2> SUFFICES ASSUME NEW w \in DOMAIN peers
               PROVE  CloseEvent(peers[w]) \in Event /\ CloseEvent(peers[w]).uri = peers[w].conn
    OBVIOUS
  <2>1. peers[w].conn \in String
    BY DEF PeersInv, PeerRecord, String
  <2> QED
    BY <2>1 DEF CloseEvent, Event
<1>5. /\ events \in [1..m -> Event]
      /\ \A i \in 1..m : events[i].uri = peers[order[i]].conn
  BY <1>2, <1>3, <1>4
<1>6. events \in Seq(Event) /\ Len(events) = m
  BY <1>5
<1>7. PICK n \in Nat : n = Len(status)
  BY DEF ReportInv
<1>8. /\ status' \in Seq(Event) /\ Len(status') = n + m
      /\ \A i \in 1..n + m : status'[i] = IF i <= n THEN status[i] ELSE events[i - n]
  <2>1. status \in Seq(Event)
    BY DEF ReportInv
  <2>2. /\ status \o events \in Seq(Event) /\ Len(status \o events) = n + m
        /\ \A i \in 1..n + m :
             (status \o events)[i] = IF i <= n THEN status[i] ELSE events[i - n]
    BY <1>6, <1>7, <2>1, ConcatProperties
  <2> QED
    BY <1>e, <2>2
<1>9. /\ \A i \in 1..n : i \in 1..n + m /\ status'[i] = status[i]
      /\ \A i \in 1..m : n + i \in 1..n + m /\ status'[n + i] = events[i]
      /\ \A i \in 1..n + m : i \in 1..n \/ \E j \in 1..m : i = n + j
  <2>1. \A i \in 1..n : i \in 1..n + m /\ i <= n
    OBVIOUS
  <2>2. \A i \in 1..m : n + i \in 1..n + m /\ ~(n + i <= n) /\ n + i - n = i
    OBVIOUS
  <2>3. \A i \in 1..n + m : i \in 1..n \/ (i - n \in 1..m /\ i = n + (i - n))
    OBVIOUS
  <2>4. \A i \in 1..m : status'[n + i] = events[i]
    <3> SUFFICES ASSUME NEW i \in 1..m PROVE status'[n + i] = events[i]
      OBVIOUS
    <3>1. PICK k \in 1..n + m : k = n + i /\ ~(k <= n) /\ k - n = i
      BY <2>2
    <3>2. status'[k] = events[k - n]
      BY <1>8, <3>1, Zenon
    <3> QED
      BY <3>1, <3>2, Zenon
  <2> QED
    BY <1>8, <2>1, <2>2, <2>3, <2>4, Zenon
<1>10. Queued = {status[i].uri : i \in 1..n}
  BY <1>7, QueuedByPosition DEF ReportInv
<1>11. \A w \in DOMAIN peers : peers[w].conn \in Live
  BY DEF Live
<1>12. Queued' = Queued \cup Live
  <2>1. Queued' = {status'[i].uri : i \in 1..n + m}
    <3>1. DOMAIN status' = 1..n + m
      BY <1>8
    <3> QED
      BY <3>1, Zenon DEF Queued
  <2>2. Live = {peers[order[i]].conn : i \in 1..m}
    BY <1>3 DEF Live
  <2>3. \A i \in 1..n : status'[i].uri = status[i].uri
    BY <1>9
  <2>4. \A i \in 1..m : status'[n + i].uri = peers[order[i]].conn
    BY <1>5, <1>9
  <2>5. ASSUME NEW i \in 1..n + m PROVE status'[i].uri \in Queued \cup Live
    <3>1. CASE i \in 1..n
      BY <1>10, <2>3, <3>1, Zenon
    <3>2. CASE i \notin 1..n
      <4>1. PICK j \in 1..m : i = n + j
        BY <1>9, <3>2, Zenon
      <4> QED
        BY <2>2, <2>4, <4>1, Zenon
    <3> QED
      BY <3>1, <3>2
  <2>6. Queued \cup Live \subseteq Queued'
    BY <1>9, <1>10, <2>1, <2>2, <2>3, <2>4, Zenon
  <2> QED
    BY <2>1, <2>5, <2>6
<1>13. ASSUME NEW i \in 1..n + m, NEW j \in 1..n + m, status'[i].uri = status'[j].uri
       PROVE  i = j
  <2>1. \A k \in 1..n : status'[k].uri \in Queued
    BY <1>9, <1>10
  <2>2. \A k \in 1..m : order[k] \in DOMAIN peers /\ status'[n + k].uri = peers[order[k]].conn
    BY <1>3, <1>5, <1>9
  <2>3. \A k \in 1..m : status'[n + k].uri \in Live
    BY <1>11, <2>2, Zenon
  <2>4. Queued \cap Live = {}
    BY DEF ReportInv
  <2>5. CASE i \in 1..n /\ j \in 1..n
    <3>1. status[i].uri = status[j].uri
      BY <1>9, <1>13, <2>5, Zenon
    <3> QED
      BY <1>7, <2>5, <3>1, Zenon DEF ReportInv
  <2>6. CASE i \in 1..n /\ j \notin 1..n
    BY <1>9, <1>13, <2>1, <2>3, <2>4, <2>6
  <2>7. CASE i \notin 1..n /\ j \in 1..n
    BY <1>9, <1>13, <2>1, <2>3, <2>4, <2>7
  <2>8. CASE i \notin 1..n /\ j \notin 1..n
    <3>1. PICK a \in 1..m, b \in 1..m : i = n + a /\ j = n + b
      BY <1>9, <2>8, Zenon
    <3>2. peers[order[a]].conn = peers[order[b]].conn
      BY <1>13, <2>2, <3>1, Zenon
    <3>3. order[a] = order[b]
      BY <2>2, <3>2, Zenon DEF PeersInv
    <3> QED
      BY <1>3, <3>1, <3>3, Zenon
  <2> QED
    BY <2>5, <2>6, <2>7, <2>8, Zenon
<1>14. Live' = {} /\ DOMAIN peers' = {} /\ IsFiniteSet({})
  BY <1>1, FS_EmptySet DEF Live
<1> QED
  BY <1>1, <1>8, <1>12, <1>13, <1>14 DEF ReportInv

\* The stack is told of what waits.
LEMMA ToldOfAll == ReportInv /\ DrainStatusEvents => ReportInv'
<1> SUFFICES ASSUME ReportInv, DrainStatusEvents PROVE ReportInv'
  OBVIOUS
<1>1. /\ told' = told \cup Queued /\ status' = <<>>
      /\ UNCHANGED <<peers, minted, nextId>>
  BY DEF DrainStatusEvents, config
<1>2. /\ status' \in Seq(Event) /\ Len(status') = 0 /\ Queued' = {}
  BY <1>1 DEF Queued
<1>3. Live' = Live
  BY <1>1 DEF Live
<1> QED
  BY <1>1, <1>2, <1>3 DEF ReportInv

\* A change of one peer that leaves it its string leaves every peer its own.
Kept == /\ DOMAIN peers' = DOMAIN peers
        /\ \A w \in DOMAIN peers : peers'[w].conn = peers[w].conn

LEMMA ChangeKeeps ==
  ASSUME NEW w \in DOMAIN peers, NEW p, peers' = [peers EXCEPT ![w] = p], p.conn = peers[w].conn,
         PeersInv
  PROVE  Kept
<1>1. peers = [x \in DOMAIN peers |-> peers[x]]
  BY DEF PeersInv
<1> QED
  BY <1>1 DEF Kept

LEMMA SendKeeps ==
  ASSUME PeersInv, NEW s, Send(s)
  PROVE  Kept
<1>1. PICK w \in DOMAIN peers : w = index[s]
  BY DEF Send
<1>2. PICK q \in PeerRecord : q = peers[w]
  BY DEF PeersInv
<1>3. CASE FullQueue(peers[w].txQueue)
  <2>1. peers' = [peers EXCEPT ![w] = [[q EXCEPT !.txQueue = <<>>] EXCEPT !.closeRequest = "policy"]]
    BY <1>1, <1>2, <1>3 DEF Send
  <2>2. <<>> \in Seq(Nat) /\ "policy" \in {"no", "normal", "policy"}
    OBVIOUS
  <2>3. PICK p : /\ peers' = [peers EXCEPT ![w] = p]
                 /\ Differs(p, q, <<>>, "policy", q.sent, q.wrote)
    BY <2>1, <2>2, QueueAndRequest
  <2>4. p.conn = q.conn
    BY <2>3 DEF Differs
  <2> QED
    BY <1>2, <2>3, <2>4, ChangeKeeps
<1>4. CASE ~FullQueue(peers[w].txQueue)
  <2>1. peers' = [peers EXCEPT ![w] = [[q EXCEPT !.txQueue = Append(q.txQueue, q.sent + 1)]
                                         EXCEPT !.sent = q.sent + 1]]
    BY <1>1, <1>2, <1>4 DEF Send
  <2>2. q.sent + 1 \in Nat /\ Append(q.txQueue, q.sent + 1) \in Seq(Nat)
    <3>1. q.sent \in Nat /\ q.txQueue \in Seq(Nat)
      BY PeerFields
    <3>2. q.sent + 1 \in Nat
      BY <3>1
    <3> QED
      BY <3>1, <3>2
  <2>3. PICK p : /\ peers' = [peers EXCEPT ![w] = p]
                 /\ Differs(p, q, Append(q.txQueue, q.sent + 1), q.closeRequest,
                            q.sent + 1, q.wrote)
    BY <2>1, <2>2, QueueAndCount
  <2>4. p.conn = q.conn
    BY <2>3 DEF Differs
  <2> QED
    BY <1>2, <2>3, <2>4, ChangeKeeps
<1> QED
  BY <1>3, <1>4

LEMMA WriteableKeeps ==
  ASSUME PeersInv, NEW w \in Sockets, Writeable(w)
  PROVE  Kept
<1>1. w \in DOMAIN peers
  BY DEF Writeable
<1>2. PICK q \in PeerRecord : q = peers[w]
  BY <1>1 DEF PeersInv
<1>3. CASE CloseFromWriteable(w) \/ NothingToWrite(w)
  BY <1>3 DEF CloseFromWriteable, NothingToWrite, Kept
<1>4. CASE FlushOneQueuedFrame(w)
  <2>1. q.txQueue # <<>>
    BY <1>2, <1>4 DEF FlushOneQueuedFrame
  <2>2. /\ Tail(q.txQueue) \in Seq(Nat)
        /\ Append(q.wrote, Head(q.txQueue)) \in Seq(Nat)
    <3>1. q.txQueue \in Seq(Nat) /\ q.wrote \in Seq(Nat)
      BY PeerFields
    <3>2. Tail(q.txQueue) \in Seq(Nat) /\ Head(q.txQueue) \in Nat
      BY <2>1, <3>1
    <3> QED
      BY <3>1, <3>2
  <2>3. \/ peers' = [peers EXCEPT ![w] = [[q EXCEPT !.txQueue = Tail(q.txQueue)]
                                    EXCEPT !.wrote = Append(q.wrote, Head(q.txQueue))]]
        \/ peers' = [peers EXCEPT ![w] = [q EXCEPT !.txQueue = Tail(q.txQueue)]]
    BY <1>2, <1>4 DEF FlushOneQueuedFrame
  <2>4. \/ \E p : /\ peers' = [peers EXCEPT ![w] = p]
                  /\ Differs(p, q, Tail(q.txQueue), q.closeRequest, q.sent,
                             Append(q.wrote, Head(q.txQueue)))
        \/ \E p : /\ peers' = [peers EXCEPT ![w] = p]
                  /\ Differs(p, q, Tail(q.txQueue), q.closeRequest, q.sent, q.wrote)
    BY <2>2, <2>3, QueueAndWritten, QueueChange
  <2>5. PICK p : peers' = [peers EXCEPT ![w] = p] /\ p.conn = q.conn
    BY <2>4 DEF Differs
  <2> QED
    BY <1>1, <1>2, <2>5, ChangeKeeps
<1> QED
  BY <1>3, <1>4 DEF Writeable

\* Calls and callbacks that change a peer leave it its string.
LEMMA StringsAreKept ==
  ASSUME PeersInv, ReportInv,
         \/ \E s \in minted : Send(s) \/ Disconnect(s)
         \/ \E w \in Sockets : Receive(w) \/ Writeable(w)
         \/ \E w \in Sockets, code \in {1000, 1002} : PeerInitiatedClose(w, code)
  PROVE  ReportInv'
<1> DEFINE Rest == UNCHANGED <<status, told, minted, nextId>>
<1>1. \A w \in DOMAIN peers : peers[w] \in PeerRecord
  BY DEF PeersInv
<1>2. ASSUME NEW s \in minted, Send(s) PROVE Kept /\ Rest
  <2>1. Kept
    BY <1>2, SendKeeps
  <2>2. Rest
    BY <1>2 DEF Send, config, history
  <2> QED
    BY <2>1, <2>2
<1>3. ASSUME NEW s \in minted, Disconnect(s) PROVE Kept /\ Rest
  <2>1. PICK w \in DOMAIN peers : w = index[s] /\ RequestClose(w, "normal")
    BY <1>3 DEF Disconnect
  <2>2. Kept
    BY <1>1, <2>1 DEF RequestClose, PeersInv, PeerRecord, Kept
  <2>3. Rest
    BY <1>3 DEF Disconnect, config, history
  <2> QED
    BY <2>2, <2>3
<1>4. ASSUME NEW w \in Sockets, Receive(w) PROVE Kept /\ Rest
  BY <1>4 DEF Receive, Kept, config, history
<1>5. ASSUME NEW w \in Sockets, Writeable(w) PROVE Kept /\ Rest
  <2>1. Kept
    BY <1>5, WriteableKeeps
  <2>2. Rest
    BY <1>5 DEF Writeable, config, history
  <2> QED
    BY <2>1, <2>2
<1>6. ASSUME NEW w \in Sockets, NEW code \in {1000, 1002}, PeerInitiatedClose(w, code)
      PROVE  Kept /\ Rest
  <2>1. Kept
    BY <1>1, <1>6 DEF PeerInitiatedClose, PeersInv, PeerRecord, Kept
  <2>2. Rest
    BY <1>6 DEF PeerInitiatedClose, config, history
  <2> QED
    BY <2>1, <2>2
<1>7. Kept /\ Rest
  BY <1>2, <1>3, <1>4, <1>5, <1>6
<1>8. /\ DOMAIN peers' = DOMAIN peers
      /\ \A w \in DOMAIN peers : peers'[w].conn = peers[w].conn
  BY <1>7 DEF Kept
<1> QED
  BY <1>7, <1>8, NothingToReport

LEMMA ReportStep == Listening /\ PeersInv /\ ReportInv /\ [Next]_vars => ReportInv'
<1> SUFFICES ASSUME Listening, PeersInv, ReportInv, [Next]_vars PROVE ReportInv'
  OBVIOUS
<1>1. ASSUME NEW u \in Uris, StackStartsListening(u) \/ StopListening(u) PROVE ReportInv'
  <2>1. UNCHANGED <<peers, status, told, minted>>
    BY <1>1 DEF StackStartsListening, StopListening
  <2>2. nextId' = nextId
    BY <1>1, Attempts DEF StackStartsListening, StartListening, StopListening
  <2> QED
    BY <2>1, <2>2, NothingToReport
<1>2. ASSUME NEW s \in minted, Send(s) \/ Disconnect(s) PROVE ReportInv'
  BY <1>2, StringsAreKept
<1>3. CASE PopReceived
  BY <1>3, NothingToReport DEF PopReceived, config, history
<1>4. ASSUME NEW w \in Sockets, Established(w) PROVE ReportInv'
  BY <1>4, AcceptedIsNew
<1>5. ASSUME NEW w \in Sockets, Receive(w) \/ Writeable(w) PROVE ReportInv'
  BY <1>5, StringsAreKept
<1>6. ASSUME NEW w \in Sockets, NEW code \in {1000, 1002}, PeerInitiatedClose(w, code)
      PROVE  ReportInv'
  BY <1>6, StringsAreKept
<1>7. ASSUME NEW w \in Sockets, Closed(w) PROVE ReportInv'
  BY <1>7, ClosedIsQueued
<1>8. CASE Service
  <2>1. UNCHANGED <<peers, status, told, minted>>
    BY <1>8 DEF Service, history
  <2>2. nextId' = nextId
    <3>1. CASE listener = None /\ wanted # None
      <4>1. TryListen(wanted, hold)
        BY <1>8, <3>1 DEF Service, RetryListener, StartListening
      <4> QED
        BY <4>1, Attempts
    <3>2. CASE ~(listener = None /\ wanted # None)
      BY <1>8, <3>2 DEF Service, RetryListener
    <3> QED
      BY <3>1, <3>2
  <2> QED
    BY <2>1, <2>2, NothingToReport
<1>9. CASE ServiceReturns \/ NothingToReload
  BY <1>9, NothingToReport DEF ServiceReturns, NothingToReload, config, history
<1>10. CASE DrainStatusEvents
  BY <1>10, ToldOfAll
<1>11. CASE ReloadCredentials
  <2>1. UNCHANGED <<peers, status, told, minted>>
    BY <1>11 DEF ReloadCredentials, history
  <2>2. nextId' = nextId
    BY <1>11, Attempts DEF ReloadCredentials
  <2> QED
    BY <2>1, <2>2, NothingToReport
<1>12. CASE FlushTurn \/ FlushTurnEnds
  BY <1>12, NothingToReport DEF FlushTurn, FlushTurnEnds, history
<1>13. CASE DestroyListenerContext
  <2>1. nextId' = nextId
    BY <1>13, Attempts DEF DestroyListenerContext
  <2> QED
    BY <1>13, <2>1, DestroyedAreQueued
<1>14. CASE Environment
  BY <1>14, NothingToReport DEF Environment, RetryIntervalOver, FilesOrPortChange, ReadingChanges,
                                config, history
<1>15. CASE UNCHANGED vars
  BY <1>15, NothingToReport DEF vars, config, history
<1> QED
  BY <1>1, <1>2, <1>3, <1>4, <1>5, <1>6, <1>7, <1>8, <1>9, <1>10, <1>11, <1>12, <1>13, <1>14, <1>15
  DEF Next, StackCall, Callback, MainLoop

LEMMA ReportInvariant == Spec => []ReportInv
<1>1. Init => ReportInv
  <2> SUFFICES ASSUME Init PROVE ReportInv
    OBVIOUS
  <2>1. /\ DOMAIN peers = {} /\ status \in Seq(Event) /\ Len(status) = 0
        /\ minted = {} /\ told = {} /\ Live = {} /\ Queued = {}
    BY DEF Init, Live, Queued
  <2> QED
    BY <2>1, FS_EmptySet DEF ReportInv
<1> QED
  BY <1>1, ReportStep, PeersInvariant, AlwaysListening, PTL DEF Spec

\* As many values as there are places, when no two places have the same.
LEMMA OneForEach ==
  ASSUME NEW S, IsFiniteSet(S), NEW f, NEW T, T = {f[x] : x \in S}, DOMAIN f = S,
         \A x, y \in S : f[x] = f[y] => x = y
  PROVE  Cardinality(T) = Cardinality(S)
<1> DEFINE g == [x \in S |-> f[x]]
<1>1. g \in [S -> T] /\ (\A x, y \in S : g[x] = g[y] => x = y)
      /\ (\A t \in T : \E x \in S : g[x] = t)
  OBVIOUS
<1> HIDE DEF g
<1>2. g \in Bijection(S, T)
  BY <1>1 DEF Bijection, Injection, Surjection, IsInjective
<1>3. ExistsBijection(S, T)
  BY <1>2 DEF ExistsBijection
<1> QED
  BY <1>3, FS_Bijection

\* Every accepted peer's close is reported to the stack once, under a string no other
\* peer has, across stops, rebinds, reloads and listeners that do not come back
\* (ScTransport.cpp:920-923).
THEOREM ClosesAreReportedOnce == Spec => []EveryPeerIsReportedOnce
<1>1. PeersInv /\ ReportInv => EveryPeerIsReportedOnce
  <2> SUFFICES ASSUME PeersInv, ReportInv PROVE EveryPeerIsReportedOnce
    OBVIOUS
  <2>1. Cardinality(Live) = Cardinality(DOMAIN peers)
    <3> DEFINE f == [w \in DOMAIN peers |-> peers[w].conn]
    <3>1. /\ Live = {f[w] : w \in DOMAIN peers} /\ DOMAIN f = DOMAIN peers
          /\ \A v, w \in DOMAIN peers : f[v] = f[w] => v = w
      BY DEF Live, PeersInv
    <3> HIDE DEF f
    <3> QED
      BY <3>1, OneForEach DEF ReportInv
  <2>2. Cardinality(Queued) = Len(status)
    <3> DEFINE f == [i \in 1..Len(status) |-> status[i].uri]
    <3>1. Len(status) \in Nat
      BY DEF ReportInv
    <3>2. /\ Queued = {f[i] : i \in 1..Len(status)} /\ DOMAIN f = 1..Len(status)
          /\ \A i, j \in 1..Len(status) : f[i] = f[j] => i = j
      BY QueuedByPosition DEF ReportInv
    <3>3. IsFiniteSet(1..Len(status)) /\ Cardinality(1..Len(status)) = Len(status)
      <4>1. PICK n \in Nat : n = Len(status)
        BY <3>1
      <4>2. 1 \in Int /\ n \in Int /\ (IF 1 > n THEN 0 ELSE n - 1 + 1) = n
        OBVIOUS
      <4>3. IsFiniteSet(1..n) /\ Cardinality(1..n) = n
        BY <4>2, FS_Interval
      <4> QED
        BY <4>1, <4>3
    <3> HIDE DEF f
    <3> QED
      BY <3>2, <3>3, OneForEach
  <2> QED
    BY <2>1, <2>2 DEF EveryPeerIsReportedOnce, ReportInv
<1> QED
  BY <1>1, ReportInvariant, PeersInvariant, PTL

=============================================================================
