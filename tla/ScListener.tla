------------------------------ MODULE ScListener ------------------------------
(***************************************************************************)
(* The listener half of ScTransport.cpp, with the parts of                 *)
(* ScTransportRouter.cpp and of the main loop that drive it: starting,     *)
(* stopping and reloading the listener, the accepted peers with their      *)
(* transmit queues and close requests, and the two queues to the stack.    *)
(*                                                                         *)
(* One thread runs everything.  A turn of the main loop is the stack's     *)
(* Tick ("tick": the stack calls in), Service ("service": libwebsockets    *)
(* calls back), DrainStatusEvents ("drain") and, when asked for, a         *)
(* ReloadCredentials ("reload").  Destroying the listener runs             *)
(* libwebsockets too (FlushQueuedFrames), so callbacks also come in the    *)
(* middle of a stop, a rebind or a reload: that is "job".                  *)
(*                                                                         *)
(* libwebsockets is external: it may call back for any open socket in any  *)
(* order, calls WRITEABLE only for a socket that asked for it and whose    *)
(* peer is reading, and reports CLOSED for every socket it has             *)
(* established.  Its sockets are pointers, so a closed one may come back   *)
(* as another peer's.  A frame is its number among those Send accepted on  *)
(* its connection.  Certificate files and the port are right or wrong as   *)
(* the environment likes (trouble).                                        *)
(***************************************************************************)
EXTENDS Naturals, Sequences, FiniteSets, SequencesExt

CONSTANTS Sockets,         \* lws* of accepted connections
          Uris,            \* accept URIs the stack may configure
          None,            \* no URI, no job
          kMaxTxQueueFrames,
          MayStall,        \* whether a peer may stop reading
          MaxClients,      \* bound: connections accepted in a behaviour
          MaxFrames,       \* bound: frames sent on one connection
          MaxReceived      \* bound: length of the receive queue

ASSUME ListenerAssumption ==
  /\ None \notin Uris \cup [next : Uris \cup {None}, stage : {"flush", "pump"}]
  /\ kMaxTxQueueFrames \in Nat \ {0}
  /\ MayStall \in BOOLEAN
  /\ MaxClients \in Nat /\ MaxFrames \in Nat /\ MaxReceived \in Nat

VARIABLES
  wanted,    \* m_wantedListenUri
  listener,  \* m_listenUri: None when there is no listener context
  hold,      \* lws_create_context failed less than kListenRetryInterval ago
  nextId,    \* m_nextClientId
  peers,     \* m_peers: a function on the sockets that are accepted peers
  index,     \* m_connStringToWsi
  sock,      \* lws: why it is closing an established socket, or "open"
  armed,     \* lws: sockets that asked for a WRITEABLE callback
  stalled,   \* environment: peers that are not reading
  trouble,   \* environment: what keeps the listener down: "none", "files", "port"
  rx,        \* m_rxQueue: the connection string of each received frame
  status,    \* m_statusQueue
  phase,     \* where the main loop is
  job,       \* a listener being destroyed and the URI to start next, or None
  told,      \* history: connection strings whose close the stack was told of
  minted,    \* history: connection strings given to accepted peers
  asked      \* history: the URI the stack has last asked for and not stopped

config == <<wanted, listener, hold, nextId, job>>
lws == <<sock, armed>>
history == <<told, minted, asked>>
vars == <<config, peers, index, lws, stalled, trouble, rx, status, phase, history>>

ConnectionStrings == [uri : Uris, client : 1..MaxClients]

\* closeRequest: "no", "normal" (1000, Disconnect) or "policy" (1008, a full queue).
\* lastCloseCode: 0, 1000 or another code.  sent and wrote are history: how many
\* frames Send has accepted, and the frames written to the socket.
Peer == [conn : ConnectionStrings, txQueue : Seq(1..MaxFrames),
         closeRequest : {"no", "normal", "policy"}, lastCloseCode : {0, 1000, 1002},
         sent : 0..MaxFrames, wrote : Seq(1..MaxFrames)]

\* Why a socket is closing: the close code the hub has set, a failed write, or
\* the peer.
CloseCauses == {"normal", "policy", "text", "failed", "peer"}

Without(f, x) == [y \in DOMAIN f \ {x} |-> f[y]]
With(f, x, v) == [y \in DOMAIN f \cup {x} |-> IF y = x THEN v ELSE f[y]]

Live == {peers[w].conn : w \in DOMAIN peers}
Queued == {status[i].uri : i \in DOMAIN status}

-----------------------------------------------------------------------------
(***************************************************************************)
(* StartListening                                                          *)
(***************************************************************************)

\* The files are checked on every attempt, lws_create_context is called at most
\* once per kListenRetryInterval.
ListenOutcome(u, held) ==
  /\ listener' = IF trouble = "none" /\ ~held THEN u ELSE None
  /\ hold' = IF trouble = "files" \/ held THEN held ELSE trouble = "port"

\* A mutant: client numbers start again with every listener.
RestartsClientIds(u, held) ==
  /\ ListenOutcome(u, held)
  /\ nextId' = IF listener' = u THEN 1 ELSE nextId

\* An attempt to create the listener.  m_nextClientId is not reset.
TryListen(u, held) == ListenOutcome(u, held) /\ UNCHANGED nextId

\* A listener on u is left alone; one on another URI is destroyed first.
StartListening(u) ==
  /\ wanted' = u
  /\ \/ listener = u /\ UNCHANGED <<listener, hold, nextId, job>>
     \/ listener = None /\ TryListen(u, hold) /\ UNCHANGED job
     \/ /\ listener \notin {u, None}
        /\ job' = [next |-> u, stage |-> "flush"]
        /\ UNCHANGED <<listener, hold, nextId>>

-----------------------------------------------------------------------------
(***************************************************************************)
(* The stack's calls, during Tick                                          *)
(***************************************************************************)

InTick == phase = "tick" /\ job = None

StackStartsListening(u) ==
  /\ InTick
  /\ StartListening(u)
  /\ asked' = u
  /\ UNCHANGED <<peers, index, lws, stalled, trouble, rx, status, phase, told, minted>>

\* A mutant: the URI stays wanted.
StillWanted(u) == wanted

WantedAfterStop(u) == IF wanted = u THEN None ELSE wanted

StopListening(u) ==
  /\ InTick
  /\ u \in {wanted, listener}
  /\ wanted' = WantedAfterStop(u)
  /\ job' = IF listener = u THEN [next |-> None, stage |-> "flush"] ELSE None
  /\ asked' = IF asked = u THEN None ELSE asked
  /\ UNCHANGED <<listener, hold, nextId, peers, index, lws, stalled, trouble, rx, status,
                 phase, told, minted>>

\* A mutant: the close waits for a WRITEABLE nobody asked for.
RequestWithoutWakeup(w, code) ==
  /\ peers' = [peers EXCEPT ![w].closeRequest = IF @ = "no" THEN code ELSE @]
  /\ UNCHANGED armed

\* A no-op once a close is requested.
RequestClose(w, code) ==
  /\ peers' = [peers EXCEPT ![w].closeRequest = IF @ = "no" THEN code ELSE @]
  /\ armed' = IF peers[w].closeRequest = "no" THEN armed \cup {w} ELSE armed

Disconnect(s) ==
  /\ InTick
  /\ s \in DOMAIN index
  /\ index[s] \in DOMAIN peers
  /\ RequestClose(index[s], "normal")
  /\ UNCHANGED <<config, index, sock, stalled, trouble, rx, status, phase, history>>

FullQueue(queue) == Len(queue) >= kMaxTxQueueFrames

\* Send to a live peer that is not closing: queued, or the queue is full.
Send(s) ==
  /\ InTick
  /\ s \in DOMAIN index
  /\ index[s] \in DOMAIN peers
  /\ LET w == index[s]
         p == peers[w]
     IN  /\ p.closeRequest = "no"
         /\ p.sent < MaxFrames
         /\ IF FullQueue(p.txQueue)
            THEN /\ peers' = [peers EXCEPT ![w].txQueue = <<>>,
                                           ![w].closeRequest = "policy"]
                 /\ armed' = armed \cup {w}
            ELSE /\ peers' = [peers EXCEPT ![w].txQueue = Append(@, p.sent + 1),
                                           ![w].sent = @ + 1]
                 /\ armed' = armed \cup {w}
  /\ UNCHANGED <<config, index, sock, stalled, trouble, rx, status, phase, history>>

PopReceived ==
  /\ InTick
  /\ rx # <<>>
  /\ rx' = Tail(rx)
  /\ UNCHANGED <<config, peers, index, lws, stalled, trouble, status, phase, history>>

-----------------------------------------------------------------------------
(***************************************************************************)
(* libwebsockets' callbacks: HandleServerCallback                          *)
(***************************************************************************)

\* lws_service is running for the listener.
LwsRuns ==
  /\ listener # None
  /\ IF job = None THEN phase = "service" ELSE job.stage = "pump"

\* LWS_CALLBACK_ESTABLISHED for the accepted subprotocol.
Established(w) ==
  /\ LwsRuns
  /\ w \notin DOMAIN sock
  /\ nextId <= MaxClients
  /\ LET s == [uri |-> listener, client |-> nextId]
     IN  /\ peers' = With(peers, w, [conn |-> s, txQueue |-> <<>>, closeRequest |-> "no",
                                     lastCloseCode |-> 0, sent |-> 0, wrote |-> <<>>])
         /\ index' = With(index, s, w)
         /\ minted' = minted \cup {s}
  /\ nextId' = nextId + 1
  /\ sock' = With(sock, w, "open")
  /\ UNCHANGED <<wanted, listener, hold, job, armed, stalled, trouble, rx, status, phase,
                 told, asked>>

\* LWS_CALLBACK_RECEIVE: a complete frame of a legal size, or a text message.
\* Fragments and oversized frames change nothing here.
Receive(w) ==
  /\ LwsRuns
  /\ w \in DOMAIN peers
  /\ sock[w] = "open"
  /\ \/ /\ Len(rx) < MaxReceived
        /\ rx' = Append(rx, peers[w].conn)
        /\ UNCHANGED sock
     \/ sock' = [sock EXCEPT ![w] = "text"] /\ UNCHANGED rx
  /\ UNCHANGED <<config, peers, index, armed, stalled, trouble, status, phase, history>>

\* A mutant: a normal close does not wait for the queue.
ClosesAtOnce(p) == p.closeRequest # "no"

\* Whether a requested close happens in this WRITEABLE callback.
ApplyRequestedClose(p) ==
  \/ p.closeRequest = "policy"
  \/ p.closeRequest = "normal" /\ p.txQueue = <<>>

CloseFromWriteable(w) ==
  /\ ApplyRequestedClose(peers[w])
  /\ sock' = [sock EXCEPT ![w] = peers[w].closeRequest]
  /\ armed' = armed \ {w}
  /\ UNCHANGED peers

NothingToWrite(w) ==
  /\ ~ApplyRequestedClose(peers[w])
  /\ peers[w].txQueue = <<>>
  /\ armed' = armed \ {w}
  /\ UNCHANGED <<sock, peers>>

\* A mutant: one frame, and no request for another turn while a close waits.
AsksAgainForFrames(p) == Tail(p.txQueue) # <<>>

\* Whether the callback asks for another turn after it has written a frame.
AsksAgain(p) == Tail(p.txQueue) # <<>> \/ p.closeRequest # "no"

\* One frame goes out, or the write fails and the hub closes.
FlushOneQueuedFrame(w) ==
  /\ ~ApplyRequestedClose(peers[w])
  /\ peers[w].txQueue # <<>>
  /\ \/ /\ peers' = [peers EXCEPT ![w].txQueue = Tail(@),
                                  ![w].wrote = Append(@, Head(peers[w].txQueue))]
        /\ armed' = IF AsksAgain(peers[w]) THEN armed ELSE armed \ {w}
        /\ UNCHANGED sock
     \/ /\ peers' = [peers EXCEPT ![w].txQueue = Tail(@)]
        /\ sock' = [sock EXCEPT ![w] = "failed"]
        /\ armed' = armed \ {w}

\* LWS_CALLBACK_SERVER_WRITEABLE.
Writeable(w) ==
  /\ LwsRuns
  /\ w \in DOMAIN peers \cap armed
  /\ w \notin stalled
  /\ sock[w] = "open"
  /\ CloseFromWriteable(w) \/ NothingToWrite(w) \/ FlushOneQueuedFrame(w)
  /\ UNCHANGED <<config, index, stalled, trouble, rx, status, phase, history>>

\* LWS_CALLBACK_WS_PEER_INITIATED_CLOSE: the peer's close frame and its code.
PeerInitiatedClose(w, code) ==
  /\ LwsRuns
  /\ w \in DOMAIN peers
  /\ sock[w] = "open"
  /\ peers' = [peers EXCEPT ![w].lastCloseCode = code]
  /\ sock' = [sock EXCEPT ![w] = "peer"]
  /\ UNCHANGED <<config, index, armed, stalled, trouble, rx, status, phase, history>>

\* The event LWS_CALLBACK_CLOSED queues for a peer: Disconnected(3) or Error(4).
CloseEvent(p) ==
  [uri |-> p.conn, status |-> IF p.lastCloseCode \in {0, 1000} THEN 3 ELSE 4]

\* A mutant: the connection string keeps its socket.
RemembersConnection(s) == index

IndexWithout(s) == Without(index, s)

\* LWS_CALLBACK_CLOSED, after a close handshake or without one (a dropped
\* connection, a time-out).
Closed(w) ==
  /\ LwsRuns
  /\ w \in DOMAIN peers
  /\ status' = Append(status, CloseEvent(peers[w]))
  /\ index' = IndexWithout(peers[w].conn)
  /\ peers' = Without(peers, w)
  /\ sock' = Without(sock, w)
  /\ armed' = armed \ {w}
  /\ stalled' = stalled \ {w}
  /\ UNCHANGED <<config, trouble, rx, phase, history>>

-----------------------------------------------------------------------------
(***************************************************************************)
(* DestroyListenerContext: up to kFlushBeforeClose for queued frames, then *)
(* lws_context_destroy closes every socket, each with its CLOSED callback, *)
(* and a rebind or a reload goes on to StartListening.                     *)
(***************************************************************************)

FlushTurn ==
  /\ job # None
  /\ job.stage = "flush"
  /\ \E w \in DOMAIN peers : peers[w].txQueue # <<>>
  /\ armed' = armed \cup {w \in DOMAIN peers : peers[w].txQueue # <<>>}
  /\ job' = [job EXCEPT !.stage = "pump"]
  /\ UNCHANGED <<wanted, listener, hold, nextId, peers, index, sock, stalled, trouble, rx,
                 status, phase, history>>

FlushTurnEnds ==
  /\ job # None
  /\ job.stage = "pump"
  /\ job' = [job EXCEPT !.stage = "flush"]
  /\ UNCHANGED <<wanted, listener, hold, nextId, peers, index, lws, stalled, trouble, rx,
                 status, phase, history>>

\* A mutant: the peers are forgotten before the context is destroyed.
NoCloseEvents == {<<>>}

\* The events of the CLOSED callbacks, in any order.
CloseEvents ==
  {[i \in DOMAIN order |-> CloseEvent(peers[order[i]])] : order \in SetToSeqs(DOMAIN peers)}

\* Nothing is left to flush, or the time for it is over.
DestroyListenerContext ==
  /\ job # None
  /\ job.stage = "flush"
  /\ \E events \in CloseEvents : status' = status \o events
  /\ peers' = <<>> /\ index' = <<>> /\ sock' = <<>>
  /\ armed' = {} /\ stalled' = {}
  /\ IF job.next = None
     THEN listener' = None /\ UNCHANGED <<hold, nextId>>
     ELSE TryListen(job.next, hold)
  /\ job' = None
  /\ UNCHANGED <<wanted, trouble, rx, phase, history>>

-----------------------------------------------------------------------------
(***************************************************************************)
(* The main loop                                                           *)
(***************************************************************************)

\* A mutant: only the stack starts the listener.
NoRetry == UNCHANGED <<wanted, listener, hold, nextId, job>>

\* A listener that is wanted and down is retried on every turn.
RetryListener ==
  IF listener = None /\ wanted # None
  THEN StartListening(wanted)
  ELSE UNCHANGED <<wanted, listener, hold, nextId, job>>

Service ==
  /\ InTick
  /\ RetryListener
  /\ phase' = "service"
  /\ UNCHANGED <<peers, index, lws, stalled, trouble, rx, status, history>>

ServiceReturns ==
  /\ phase = "service"
  /\ phase' = "drain"
  /\ UNCHANGED <<config, peers, index, lws, stalled, trouble, rx, status, history>>

\* The stack is told of every close.
DrainStatusEvents ==
  /\ phase = "drain"
  /\ told' = told \cup Queued
  /\ status' = <<>>
  /\ phase' = "reload"
  /\ UNCHANGED <<config, peers, index, lws, stalled, trouble, rx, minted, asked>>

NothingToReload ==
  /\ phase = "reload"
  /\ phase' = "tick"
  /\ UNCHANGED <<config, peers, index, lws, stalled, trouble, rx, status, history>>

\* The listener is destroyed if it is up, and started again if it is wanted,
\* without waiting for kListenRetryInterval.
ReloadCredentials ==
  /\ phase = "reload"
  /\ phase' = "tick"
  /\ wanted # None
  /\ IF listener = None
     THEN TryListen(wanted, FALSE) /\ UNCHANGED job
     ELSE /\ job' = [next |-> wanted, stage |-> "flush"]
          /\ hold' = FALSE
          /\ UNCHANGED <<listener, nextId>>
  /\ UNCHANGED <<wanted, peers, index, lws, stalled, trouble, rx, status, history>>

-----------------------------------------------------------------------------
(***************************************************************************)
(* The environment                                                         *)
(***************************************************************************)

RetryIntervalOver ==
  /\ hold
  /\ hold' = FALSE
  /\ UNCHANGED <<wanted, listener, nextId, job, peers, index, lws, stalled, trouble, rx,
                 status, phase, history>>

FilesOrPortChange ==
  /\ InTick
  /\ trouble' \in {"none", "files", "port"} \ {trouble}
  /\ UNCHANGED <<config, peers, index, lws, stalled, rx, status, phase, history>>

ReadingChanges(w) ==
  /\ MayStall
  /\ LwsRuns
  /\ w \in DOMAIN peers
  /\ stalled' = IF w \in stalled THEN stalled \ {w} ELSE stalled \cup {w}
  /\ UNCHANGED <<config, peers, index, lws, trouble, rx, status, phase, history>>

-----------------------------------------------------------------------------
Init ==
  /\ wanted = None /\ listener = None /\ hold = FALSE /\ nextId = 1 /\ job = None
  /\ peers = <<>> /\ index = <<>> /\ sock = <<>> /\ armed = {} /\ stalled = {}
  /\ trouble \in {"none", "files", "port"}
  /\ rx = <<>> /\ status = <<>> /\ phase = "tick"
  /\ told = {} /\ minted = {} /\ asked = None

StackCall ==
  \/ \E u \in Uris : StackStartsListening(u) \/ StopListening(u)
  \/ \E s \in minted : Send(s) \/ Disconnect(s)
  \/ PopReceived

Callback ==
  \E w \in Sockets :
    \/ Established(w) \/ Receive(w) \/ Writeable(w) \/ Closed(w)
    \/ \E code \in {1000, 1002} : PeerInitiatedClose(w, code)

MainLoop ==
  \/ Service \/ ServiceReturns \/ DrainStatusEvents
  \/ NothingToReload \/ ReloadCredentials
  \/ FlushTurn \/ FlushTurnEnds \/ DestroyListenerContext

Environment ==
  RetryIntervalOver \/ FilesOrPortChange \/ \E w \in Sockets : ReadingChanges(w)

Next == StackCall \/ Callback \/ MainLoop \/ Environment

Spec == Init /\ [][Next]_vars

(***************************************************************************)
(* The main loop runs for ever: Tick, Service and a flush all return       *)
(* (strong fairness where a call or a callback may come in between), and   *)
(* libwebsockets calls WRITEABLE for a socket that asked for it and can    *)
(* take data, and CLOSED for one it is closing, in some turn.  Peers and   *)
(* the stack owe nothing.                                                  *)
(***************************************************************************)
Fairness ==
  /\ SF_vars(Service)
  /\ WF_vars(ServiceReturns)
  /\ WF_vars(DrainStatusEvents)
  /\ WF_vars(NothingToReload \/ ReloadCredentials)
  /\ WF_vars(FlushTurnEnds)
  /\ SF_vars(DestroyListenerContext)
  /\ WF_vars(RetryIntervalOver)
  /\ \A w \in Sockets :
       /\ SF_vars(Writeable(w))
       /\ SF_vars(w \in DOMAIN sock /\ sock[w] # "open" /\ Closed(w))

FairSpec == Spec /\ Fairness

-----------------------------------------------------------------------------
(***************************************************************************)
(* Properties                                                              *)
(***************************************************************************)

\* Types of ScTransport's members and of the environment.
TypeOK ==
  /\ wanted \in Uris \cup {None}
  /\ listener \in Uris \cup {None}
  /\ hold \in BOOLEAN
  /\ nextId \in 1..(MaxClients + 1)
  /\ DOMAIN peers \subseteq Sockets
  /\ \A w \in DOMAIN peers :
       peers[w] \in Peer /\ Len(peers[w].txQueue) <= kMaxTxQueueFrames
  /\ DOMAIN index \subseteq ConnectionStrings
  /\ Range(index) \subseteq Sockets
  /\ Range(sock) \subseteq CloseCauses \cup {"open"}
  /\ armed \subseteq Sockets
  /\ stalled \subseteq Sockets
  /\ Range(rx) \subseteq ConnectionStrings
  /\ phase \in {"tick", "service", "drain", "reload"}
  /\ job = None \/ job \in [next : Uris \cup {None}, stage : {"flush", "pump"}]

\* Each connection string is one peer's for good, and the stack is told of its
\* close once: it is either a live peer's, or in the status queue, or one the
\* stack has been told of - across rebinds, reloads and listeners that failed to
\* come back ("a connection string is never reused", ScTransport.cpp:920-923).
EveryPeerIsReportedOnce ==
  /\ minted = Live \cup Queued \cup told
  /\ Live \cap Queued = {} /\ Live \cap told = {} /\ Queued \cap told = {}
  /\ Cardinality(Live) = Cardinality(DOMAIN peers)
  /\ Cardinality(Queued) = Len(status)

\* A frame or a close for a connection string can only reach the peer it was made
\* for, though libwebsockets reuses its sockets, and reaches every live peer
\* (m_connStringToWsi against m_peers).
StringsNameTheirPeers ==
  /\ DOMAIN index = Live
  /\ \A s \in DOMAIN index : index[s] \in DOMAIN peers /\ peers[index[s]].conn = s

\* Frames leave in the order Send took them, none twice; until a write fails or
\* the queue overflows none is missing; and a hub that closes with 1000 has sent
\* everything it had accepted (ScTransport.h: "a frame the stack sent just before
\* asking for the close ... still reaches the peer").
NothingIsLostBeforeANormalClose ==
  \A w \in DOMAIN peers :
    LET p == peers[w]
    IN  /\ p.wrote = [i \in 1..Len(p.wrote) |-> i]
        /\ p.closeRequest # "policy" /\ sock[w] # "failed"
             => p.wrote \o p.txQueue = [i \in 1..p.sent |-> i]
        /\ sock[w] = "normal" => Len(p.wrote) = p.sent

\* An open socket with a frame to send or a close to make has asked for a
\* WRITEABLE callback: nothing waits for a turn that nobody requested.
NoLostWakeup ==
  \A w \in DOMAIN peers :
    sock[w] = "open" /\ (peers[w].txQueue # <<>> \/ peers[w].closeRequest # "no")
      => w \in armed

\* Outside a stop, a rebind or a reload the hub listens only where the stack last
\* asked it to, and on nothing once the stack has asked it to stop.
ListensWhereWanted ==
  listener # None /\ job = None => listener = asked

\* A requested close is made and reported, whatever else the peer and the stack
\* do meanwhile, unless the peer stops reading.
RequestedCloseCompletes ==
  \A w \in Sockets :
    (w \in DOMAIN peers /\ peers[w].closeRequest # "no")
      ~> (w \notin DOMAIN peers \/ peers[w].closeRequest = "no" \/ w \in stalled)

\* A wanted listener comes back when the files and the port are right again, also
\* after a reload that failed ("Service() can bring it back after a failed
\* restart", ScTransport.h).
ListenerComesBack ==
  \A u \in Uris :
    <>[](wanted = u /\ trouble = "none") => []<>(listener = u)

=============================================================================
