------------------------------ MODULE ScConnector ------------------------------
(***************************************************************************)
(* The connector half of ScTransport.cpp: the outbound connections the     *)
(* stack dials to other hubs, one per URI.  The turn of the main loop is   *)
(* the one of ScListener: "tick", "service", "drain", "reload".  Received  *)
(* frames go to the same receive queue as the listener's and change        *)
(* nothing here.                                                           *)
(*                                                                         *)
(* libwebsockets is external: a dial ends in ESTABLISHED or in             *)
(* CONNECTION_ERROR, an established connection in CLOSED.  WRITEABLE is    *)
(* called only once established, and the handshake, which waits for the    *)
(* same socket to become writable, may use up a request made before.  The  *)
(* stack dials a URI at most once a Tick (its retry timer).                *)
(***************************************************************************)
EXTENDS Naturals, Sequences, FiniteSets, SequencesExt

CONSTANTS Hubs,              \* the URIs of other hubs
          kMaxTxQueueFrames,
          MaxAttempts,       \* bound: the dials of each URI
          MaxFrames          \* bound: frames sent in one attempt

ASSUME ConnectorAssumption ==
  kMaxTxQueueFrames \in Nat \ {0} /\ MaxAttempts \in [Hubs -> Nat] /\ MaxFrames \in Nat

VARIABLES
  clients,   \* m_clients: a function on the URIs that have an entry
  sock,      \* lws: the connection of the latest attempt
  armed,     \* lws: connections that asked for a WRITEABLE callback
  status,    \* m_statusQueue
  phase,     \* where the main loop is
  attempt,   \* history: how often each URI was dialed
  dialed,    \* the URIs dialed in this Tick
  told       \* history: the attempts whose outcome the stack was told

vars == <<clients, sock, armed, status, phase, attempt, dialed, told>>

\* wsi: whether ClientConnection::wsi is set.  sent: the frames queued so far.
Client == [wsi : BOOLEAN, txQueue : Seq(1..MaxFrames),
           closeRequest : {"no", "normal", "policy"}, sent : 0..MaxFrames]

NewClient == [wsi |-> TRUE, txQueue |-> <<>>, closeRequest |-> "no", sent |-> 0]

Connected == 2
Disconnected == 3
Error == 4
Event(u, s) == [uri |-> u, status |-> s, attempt |-> attempt[u]]

HasWsi(u) == u \in DOMAIN clients /\ clients[u].wsi

-----------------------------------------------------------------------------
(***************************************************************************)
(* The stack's calls, during Tick                                          *)
(***************************************************************************)

\* A mutant: the old attempt's CLIENT_CLOSED callback still finds its connection.
TearDownReportsClose(u) ==
  IF sock[u] = "none" THEN <<>> ELSE <<Event(u, Disconnected)>>

\* The events of destroying the attempt a new Connect replaces: it is detached first.
TearDownEvents(u) == <<>>

Forget(u) == [v \in DOMAIN clients \ {u} |-> clients[v]]

\* Connect: refused before anything is touched (files, key pair, URI); or the old
\* attempt goes and lws fails to start the new one, with or without calling
\* CONNECTION_ERROR on the way; or the new attempt is under way.
Connect(u) ==
  /\ phase = "tick"
  /\ u \notin dialed
  /\ attempt[u] < MaxAttempts[u]
  /\ dialed' = dialed \cup {u}
  /\ \/ UNCHANGED <<clients, sock, armed, status, attempt>>
     \/ /\ attempt' = [attempt EXCEPT ![u] = @ + 1]
        /\ armed' = armed \ {u}
        /\ \/ /\ clients' = Forget(u)
              /\ sock' = [sock EXCEPT ![u] = "none"]
              /\ \E e \in {<<>>, <<[Event(u, Error) EXCEPT !.attempt = @ + 1]>>} :
                   status' = status \o TearDownEvents(u) \o e
           \/ /\ clients' = [v \in DOMAIN clients \cup {u} |->
                              IF v = u THEN NewClient ELSE clients[v]]
              /\ sock' = [sock EXCEPT ![u] = "dialing"]
              /\ status' = status \o TearDownEvents(u)
  /\ UNCHANGED <<phase, told>>

FullQueue(queue) == Len(queue) >= kMaxTxQueueFrames

\* Send: to any attempt whose wsi is set.
Send(u) ==
  /\ phase = "tick"
  /\ HasWsi(u)
  /\ clients[u].closeRequest = "no"
  /\ clients[u].sent < MaxFrames
  /\ clients' =
       IF FullQueue(clients[u].txQueue)
       THEN [clients EXCEPT ![u].txQueue = <<>>, ![u].closeRequest = "policy"]
       ELSE [clients EXCEPT ![u].txQueue = Append(@, clients[u].sent + 1), ![u].sent = @ + 1]
  /\ armed' = armed \cup {u}
  /\ UNCHANGED <<sock, status, phase, attempt, dialed, told>>

\* Disconnect of a set of connections; a no-op for one that is already closing.
RequestClose(us) ==
  /\ clients' = [u \in DOMAIN clients |->
                   IF u \in us /\ clients[u].closeRequest = "no"
                   THEN [clients[u] EXCEPT !.closeRequest = "normal"] ELSE clients[u]]
  /\ armed' = armed \cup {u \in us : clients[u].closeRequest = "no"}

Disconnect(u) ==
  /\ phase = "tick"
  /\ HasWsi(u)
  /\ RequestClose({u})
  /\ UNCHANGED <<sock, status, phase, attempt, dialed, told>>

-----------------------------------------------------------------------------
(***************************************************************************)
(* libwebsockets' callbacks: HandleClientCallback                          *)
(***************************************************************************)

\* A WRITEABLE is asked for at ESTABLISHED when frames wait.
Rearmed(u) == IF clients[u].txQueue # <<>> THEN {u} ELSE {}

ClientEstablished(u) ==
  /\ phase = "service"
  /\ sock[u] = "dialing"
  /\ sock' = [sock EXCEPT ![u] = "open"]
  /\ clients' = [clients EXCEPT ![u].wsi = TRUE]
  /\ status' = Append(status, Event(u, Connected))
  /\ \E kept \in {armed, armed \ {u}} : armed' = kept \cup Rearmed(u)
  /\ UNCHANGED <<phase, attempt, dialed, told>>

\* A mutant: a failed dial is only logged.
NoErrorEvent(u) == status

StatusAfterError(u) == Append(status, Event(u, Error))

ClientConnectionError(u) ==
  /\ phase = "service"
  /\ sock[u] = "dialing"
  /\ sock' = [sock EXCEPT ![u] = "none"]
  /\ armed' = armed \ {u}
  /\ clients' = [clients EXCEPT ![u].wsi = FALSE]
  /\ status' = StatusAfterError(u)
  /\ UNCHANGED <<phase, attempt, dialed, told>>

\* The hub at the other end starts a close, or sends a text message.
ClientStartsClosing(u) ==
  /\ phase = "service"
  /\ sock[u] = "open"
  /\ sock' = [sock EXCEPT ![u] = "closing"]
  /\ UNCHANGED <<clients, armed, status, phase, attempt, dialed, told>>

CloseIsDue(c) ==
  \/ c.closeRequest = "policy"
  \/ c.closeRequest = "normal" /\ c.txQueue = <<>>

\* LWS_CALLBACK_CLIENT_WRITEABLE: the requested close, or one frame, or a failed
\* write.
ClientWriteable(u) ==
  /\ phase = "service"
  /\ sock[u] = "open"
  /\ u \in armed
  /\ LET c == clients[u]
         rest == IF c.txQueue = <<>> THEN <<>> ELSE Tail(c.txQueue)
     IN  \/ /\ CloseIsDue(c)
            /\ sock' = [sock EXCEPT ![u] = "closing"]
            /\ armed' = armed \ {u}
            /\ UNCHANGED clients
         \/ /\ ~CloseIsDue(c)
            /\ clients' = [clients EXCEPT ![u].txQueue = rest]
            /\ armed' = IF rest # <<>> \/ c.closeRequest # "no" THEN armed ELSE armed \ {u}
            /\ UNCHANGED sock
         \/ /\ ~CloseIsDue(c)
            /\ c.txQueue # <<>>
            /\ clients' = [clients EXCEPT ![u].txQueue = rest]
            /\ sock' = [sock EXCEPT ![u] = "closing"]
            /\ armed' = armed \ {u}
  /\ UNCHANGED <<status, phase, attempt, dialed, told>>

\* A mutant: the closed socket stays in the connection.
KeepsWsi(u) == clients

WithoutWsi(u) == [clients EXCEPT ![u].wsi = FALSE]

ClientClosed(u) ==
  /\ phase = "service"
  /\ sock[u] \in {"open", "closing"}
  /\ sock' = [sock EXCEPT ![u] = "none"]
  /\ armed' = armed \ {u}
  /\ clients' = WithoutWsi(u)
  /\ status' = Append(status, Event(u, Disconnected))
  /\ UNCHANGED <<phase, attempt, dialed, told>>

-----------------------------------------------------------------------------
(***************************************************************************)
(* The main loop                                                           *)
(***************************************************************************)

Service ==
  /\ phase = "tick"
  /\ phase' = "service"
  /\ dialed' = {}
  /\ UNCHANGED <<clients, sock, armed, status, attempt, told>>

ServiceReturns ==
  /\ phase = "service"
  /\ phase' = "drain"
  /\ UNCHANGED <<clients, sock, armed, status, attempt, dialed, told>>

DrainStatusEvents ==
  /\ phase = "drain"
  /\ told' = told \cup {[uri |-> e.uri, attempt |-> e.attempt] : e \in Range(status)}
  /\ status' = <<>>
  /\ phase' = "reload"
  /\ UNCHANGED <<clients, sock, armed, attempt, dialed>>

NothingToReload ==
  /\ phase = "reload"
  /\ phase' = "tick"
  /\ UNCHANGED <<clients, sock, armed, status, attempt, dialed, told>>

\* Every connection that has a socket is asked to close.
ReloadCredentials ==
  /\ phase = "reload"
  /\ phase' = "tick"
  /\ RequestClose({u \in Hubs : HasWsi(u)})
  /\ UNCHANGED <<sock, status, attempt, dialed, told>>

Init ==
  /\ clients = <<>>
  /\ sock = [u \in Hubs |-> "none"]
  /\ armed = {} /\ status = <<>> /\ phase = "tick"
  /\ attempt = [u \in Hubs |-> 0]
  /\ dialed = {} /\ told = {}

Next ==
  \/ \E u \in Hubs :
       \/ Connect(u) \/ Send(u) \/ Disconnect(u)
       \/ ClientEstablished(u) \/ ClientConnectionError(u) \/ ClientStartsClosing(u)
       \/ ClientWriteable(u) \/ ClientClosed(u)
  \/ Service \/ ServiceReturns \/ DrainStatusEvents \/ NothingToReload \/ ReloadCredentials

Spec == Init /\ [][Next]_vars

(***************************************************************************)
(* The main loop runs for ever; a dial ends one way or the other           *)
(* (libwebsockets times it out), an established connection gets the        *)
(* WRITEABLE it asked for and a closing one its CLOSED.                    *)
(***************************************************************************)
LoopFairness ==
  /\ WF_vars(Service) /\ WF_vars(ServiceReturns) /\ WF_vars(DrainStatusEvents)
  /\ WF_vars(NothingToReload \/ ReloadCredentials)

DialFairness ==
  \A u \in Hubs : SF_vars(ClientEstablished(u) \/ ClientConnectionError(u))

ConnectionFairness ==
  \A u \in Hubs :
    SF_vars(ClientWriteable(u)) /\ SF_vars(sock[u] = "closing" /\ ClientClosed(u))

DialSpec == Spec /\ LoopFairness /\ DialFairness

FairSpec == DialSpec /\ ConnectionFairness

-----------------------------------------------------------------------------
(***************************************************************************)
(* Properties                                                              *)
(***************************************************************************)

\* Types of the connector's part of ScTransport.
TypeOK ==
  /\ DOMAIN clients \subseteq Hubs
  /\ \A u \in DOMAIN clients :
       clients[u] \in Client /\ Len(clients[u].txQueue) <= kMaxTxQueueFrames
  /\ sock \in [Hubs -> {"none", "dialing", "open", "closing"}]
  /\ armed \subseteq Hubs
  /\ Range(status) \subseteq
       [uri : Hubs, status : {Connected, Disconnected, Error}, attempt : Nat]
  /\ phase \in {"tick", "service", "drain", "reload"}
  /\ \A u \in Hubs : attempt[u] \in 0..MaxAttempts[u]
  /\ dialed \subseteq Hubs

\* ClientConnection::wsi is set exactly while libwebsockets has the connection:
\* Send, Disconnect and a reload never use a socket that is gone, and a live one
\* is never out of reach.  What was queued through it, before or after the
\* connection is established, has a WRITEABLE callback coming.
WsiIsLive ==
  \A u \in Hubs :
    /\ HasWsi(u) <=> sock[u] # "none"
    /\ sock[u] = "open" /\ clients[u].txQueue # <<>> => u \in armed

\* An event the stack is told is about the attempt it has under way: replacing an
\* attempt never reports the old one under the same URI ("could abort it or
\* double-count a failover", ScTransport.cpp:1087-1091).
EventsAreOfThisAttempt ==
  \A i \in DOMAIN status : status[i].attempt = attempt[status[i].uri]

\* Every dial that Connect() started is answered: the stack hears Connected or
\* Error for it, or has dialed again ("watch for a queued Connected(2)/Error(4)
\* ScStatusEvent", ScTransport.h:232).
DialsAreAnswered ==
  \A u \in Hubs : \A n \in 1..MaxAttempts[u] :
    (attempt[u] = n /\ sock[u] = "dialing")
      ~> ([uri |-> u, attempt |-> n] \in told \/ attempt[u] > n)

=============================================================================
