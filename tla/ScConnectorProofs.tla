--------------------------- MODULE ScConnectorProofs ---------------------------
(***************************************************************************)
(* Proofs about ScConnector for any hubs, queue limit, dials and frames:   *)
(* ClientConnection::wsi is set exactly while libwebsockets has the        *)
(* connection, and an event the stack will be told is about the attempt    *)
(* that is under way.                                                      *)
(***************************************************************************)
EXTENDS ScConnector, TLAPS

StatusEvent == [uri : Hubs, status : {Connected, Disconnected, Error}, attempt : Nat]

Connection == [wsi : BOOLEAN, txQueue : Seq(Nat),
               closeRequest : {"no", "normal", "policy"}, sent : Nat]

\* TypeOK with the status queue as a sequence and without the bounds.
ConnectorTypeOK ==
  /\ DOMAIN clients \subseteq Hubs
  /\ clients \in [DOMAIN clients -> Connection]
  /\ sock \in [Hubs -> {"none", "dialing", "open", "closing"}]
  /\ armed \subseteq Hubs
  /\ status \in Seq(StatusEvent)
  /\ attempt \in [Hubs -> Nat]
  /\ phase \in {"tick", "service", "drain", "reload"}

\* An event that waits while the stack is called comes from a dial of this Tick,
\* and a URI is dialed once a Tick: the dial that would make it stale is not made.
WaitingEventsAreDialed ==
  /\ phase = "tick" => \A i \in DOMAIN status : status[i].uri \in dialed
  /\ phase = "reload" => status = <<>>

ConnectorInv ==
  /\ ConnectorTypeOK
  /\ WsiIsLive
  /\ EventsAreOfThisAttempt
  /\ WaitingEventsAreDialed

-----------------------------------------------------------------------------

\* An event added at the end is the only one that is new.
LEMMA AppendedEvent ==
  ASSUME NEW s \in Seq(StatusEvent), NEW e \in StatusEvent
  PROVE  /\ Append(s, e) \in Seq(StatusEvent)
         /\ \A i \in DOMAIN Append(s, e) :
              \/ i \in DOMAIN s /\ Append(s, e)[i] = s[i]
              \/ Append(s, e)[i] = e
BY DEF StatusEvent

\* The first state has no connection, no socket and no event.
LEMMA InitConnector == Init => ConnectorInv
BY DEF Init, ConnectorInv, ConnectorTypeOK, WsiIsLive, EventsAreOfThisAttempt,
       WaitingEventsAreDialed, HasWsi

\* A dial replaces the attempt, its socket and its WRITEABLE request together.
LEMMA ConnectStep ==
  ASSUME ConnectorInv, NEW u \in Hubs, Connect(u)
  PROVE  ConnectorInv'
<1>1. CASE UNCHANGED <<clients, sock, armed, status, attempt>>
  BY <1>1 DEF ConnectorInv, ConnectorTypeOK, Connection, WsiIsLive, EventsAreOfThisAttempt,
              WaitingEventsAreDialed, HasWsi, Connect
<1>2. CASE attempt' # attempt \/ ~UNCHANGED <<clients, sock, armed, status>>
  <2>1. /\ attempt' = [attempt EXCEPT ![u] = @ + 1]
        /\ armed' = armed \ {u}
        /\ phase = "tick" /\ phase' = "tick"
        /\ u \notin dialed /\ dialed' = dialed \cup {u}
    BY <1>2 DEF Connect
  <2>2. attempt' \in [Hubs -> Nat] /\ attempt'[u] = attempt[u] + 1
    BY <2>1 DEF ConnectorInv, ConnectorTypeOK, Connection
  <2>3. DOMAIN status = 1..Len(status) /\ status \in Seq(StatusEvent)
    BY DEF ConnectorInv, ConnectorTypeOK, Connection
  <2>4. \A i \in DOMAIN status : status[i] \in StatusEvent /\ status[i].uri # u
    BY <2>1, <2>3 DEF ConnectorInv, WaitingEventsAreDialed
  <2>5. \A i \in DOMAIN status : status[i].attempt = attempt'[status[i].uri]
    BY <2>1, <2>4 DEF ConnectorInv, ConnectorTypeOK, Connection, EventsAreOfThisAttempt, StatusEvent
  <2>6. CASE /\ clients' = Forget(u)
             /\ sock' = [sock EXCEPT ![u] = "none"]
             /\ \E e \in {<<>>, <<[Event(u, Error) EXCEPT !.attempt = @ + 1]>>} :
                  status' = status \o TearDownEvents(u) \o e
    <3>9. [uri |-> u, status |-> Error, attempt |-> attempt[u] + 1] \in StatusEvent
      BY <2>2 DEF StatusEvent, Error, Connected, Disconnected, ConnectorInv, ConnectorTypeOK
    <3>8. status' = status
          \/ status' = Append(status, [uri |-> u, status |-> Error, attempt |-> attempt[u] + 1])
      <4>1. [Event(u, Error) EXCEPT !.attempt = @ + 1]
              = [uri |-> u, status |-> Error, attempt |-> attempt[u] + 1]
        BY DEF Event
      <4>2. PICK e \in {<<>>, <<[Event(u, Error) EXCEPT !.attempt = @ + 1]>>} :
              status' = status \o TearDownEvents(u) \o e
        BY <2>6
      <4>3. status \o TearDownEvents(u) = status
        BY <2>3 DEF TearDownEvents
      <4>4. CASE e = <<>>
        BY <4>2, <4>3, <4>4, <2>3
      <4>5. CASE e = <<[uri |-> u, status |-> Error, attempt |-> attempt[u] + 1]>>
        <5> DEFINE ev == [uri |-> u, status |-> Error, attempt |-> attempt[u] + 1]
        <5>1. status' = status \o <<ev>>
          BY <4>2, <4>3, <4>5
        <5>2. ev \in StatusEvent
          BY <3>9
        <5> HIDE DEF ev
        <5>3. status' = Append(status, ev)
          BY <5>1, <5>2, <2>3
        <5> QED
          BY <5>3 DEF ev
      <4> QED
        BY <4>1, <4>2, <4>4, <4>5
    <3>1. ConnectorTypeOK' /\ WsiIsLive'
      <4>1. DOMAIN clients' = DOMAIN clients \ {u}
            /\ \A v \in DOMAIN clients' : clients'[v] = clients[v]
        BY <2>6 DEF Forget
      <4>2. WsiIsLive'
        BY <4>1, <2>6, <2>1 DEF ConnectorInv, ConnectorTypeOK, Connection, WsiIsLive, HasWsi
      <4>3. status' \in Seq(StatusEvent)
        BY <3>8, <3>9, <2>3
      <4>4. clients' \in [DOMAIN clients' -> Connection]
        BY <2>6, <4>1 DEF Forget, ConnectorInv, ConnectorTypeOK, Connection
      <4> QED
        BY <4>1, <4>2, <4>3, <4>4, <2>1, <2>2, <2>6 DEF ConnectorInv, ConnectorTypeOK, Connection
    <3>2. \A i \in DOMAIN status' : \/ i \in DOMAIN status /\ status'[i] = status[i]
                                    \/ status'[i].uri = u /\ status'[i].attempt = attempt'[u]
      BY <3>8, <3>9, <2>2, <2>3, AppendedEvent
    <3>3. EventsAreOfThisAttempt'
      BY <3>2, <2>5 DEF EventsAreOfThisAttempt
    <3>4. WaitingEventsAreDialed'
      BY <3>2, <2>1 DEF ConnectorInv, WaitingEventsAreDialed
    <3> QED
      BY <3>1, <3>3, <3>4 DEF ConnectorInv
  <2>7. CASE /\ clients' = [v \in DOMAIN clients \cup {u} |->
                             IF v = u THEN NewClient ELSE clients[v]]
             /\ sock' = [sock EXCEPT ![u] = "dialing"]
             /\ status' = status \o TearDownEvents(u)
    <3>1. status' = status
      BY <2>7, <2>3 DEF TearDownEvents
    <3>2. /\ DOMAIN clients' = DOMAIN clients \cup {u}
          /\ clients'[u] = NewClient
          /\ \A v \in DOMAIN clients \ {u} : clients'[v] = clients[v]
      BY <2>7
    <3>3. ConnectorTypeOK'
      <4>1. NewClient \in Connection
        BY DEF NewClient, Connection
      <4>2. clients' \in [DOMAIN clients' -> Connection]
        BY <2>7, <3>2, <4>1 DEF ConnectorInv, ConnectorTypeOK, Connection
      <4> QED
        BY <4>2, <3>1, <3>2, <2>1, <2>2, <2>7 DEF ConnectorInv, ConnectorTypeOK, Connection
    <3>4. WsiIsLive'
      BY <3>2, <2>7, <2>1 DEF ConnectorInv, ConnectorTypeOK, Connection, WsiIsLive, HasWsi, NewClient
    <3>5. EventsAreOfThisAttempt' /\ WaitingEventsAreDialed'
      BY <3>1, <2>5, <2>1 DEF ConnectorInv, EventsAreOfThisAttempt, WaitingEventsAreDialed
    <3> QED
      BY <3>3, <3>4, <3>5 DEF ConnectorInv
  <2> QED
    BY <1>2, <2>6, <2>7 DEF Connect
<1> QED
  BY <1>1, <1>2 DEF Connect

\* A step that leaves the sockets, the events and the place in the main loop alone
\* and sets no wsi keeps the invariant when what it queues is announced.
LEMMA QueueStep ==
  ASSUME ConnectorInv, UNCHANGED <<sock, status, phase, attempt, dialed>>,
         DOMAIN clients' = DOMAIN clients,
         clients' \in [DOMAIN clients' -> Connection],
         \A u \in DOMAIN clients : clients'[u].wsi = clients[u].wsi,
         armed' \subseteq Hubs, armed \subseteq armed',
         \A u \in DOMAIN clients :
           clients'[u].txQueue = clients[u].txQueue \/ u \in armed'
  PROVE  ConnectorInv'
<1>1. ConnectorTypeOK'
  BY DEF ConnectorInv, ConnectorTypeOK, Connection
<1>2. WsiIsLive'
  BY DEF ConnectorInv, ConnectorTypeOK, Connection, WsiIsLive, HasWsi
<1>3. EventsAreOfThisAttempt' /\ WaitingEventsAreDialed'
  BY DEF ConnectorInv, EventsAreOfThisAttempt, WaitingEventsAreDialed
<1> QED
  BY <1>1, <1>2, <1>3 DEF ConnectorInv

\* What changes one connection keeps the others.
LEMMA OneConnection ==
  ASSUME ConnectorTypeOK, NEW u \in DOMAIN clients, NEW c \in Connection,
         clients' = [clients EXCEPT ![u] = c]
  PROVE  /\ DOMAIN clients' = DOMAIN clients
         /\ clients'[u] = c
         /\ \A v \in DOMAIN clients \ {u} : clients'[v] = clients[v]
         /\ clients' \in [DOMAIN clients' -> Connection]
BY DEF ConnectorTypeOK

\* A connection stays one when a field changes, and keeps its wsi.
LEMMA ChangedField ==
  ASSUME NEW c \in Connection
  PROVE  /\ \A q \in Seq(Nat) :
              [c EXCEPT !.txQueue = q] \in Connection /\ [c EXCEPT !.txQueue = q].wsi = c.wsi
         /\ \A r \in {"no", "normal", "policy"} :
              /\ [c EXCEPT !.closeRequest = r] \in Connection
              /\ [c EXCEPT !.closeRequest = r].wsi = c.wsi
         /\ \A n \in Nat :
              [c EXCEPT !.sent = n] \in Connection /\ [c EXCEPT !.sent = n].wsi = c.wsi
BY DEF Connection

\* A frame that is queued, or the refusal of one, asks for a WRITEABLE.
LEMMA SendStep ==
  ASSUME ConnectorInv, NEW u \in Hubs, Send(u)
  PROVE  ConnectorInv'
<1>1. u \in DOMAIN clients /\ clients[u].sent \in Nat /\ clients[u].txQueue \in Seq(Nat)
  BY DEF ConnectorInv, ConnectorTypeOK, Connection, Send, HasWsi
<1>2. clients[u].sent + 1 \in Nat
  BY <1>1
<1>3. Append(clients[u].txQueue, clients[u].sent + 1) \in Seq(Nat)
  BY <1>1, <1>2
<1>4. \E c \in Connection : clients' = [clients EXCEPT ![u] = c] /\ c.wsi = clients[u].wsi
  <2>1. clients[u] \in Connection
    BY <1>1 DEF ConnectorInv, ConnectorTypeOK
  <2>2. CASE FullQueue(clients[u].txQueue)
    <3> DEFINE c == [clients[u] EXCEPT !.txQueue = <<>>]
               d == [c EXCEPT !.closeRequest = "policy"]
    <3>1. c \in Connection /\ c.wsi = clients[u].wsi
      <4>1. <<>> \in Seq(Nat)
        OBVIOUS
      <4> QED
        BY <2>1, <4>1, ChangedField
    <3>2. d \in Connection /\ d.wsi = c.wsi
      <4> HIDE DEF c
      <4> QED
        BY <3>1, ChangedField
    <3>3. clients' = [clients EXCEPT ![u] = d]
      BY <2>2 DEF Send
    <3> QED
      BY <3>1, <3>2, <3>3
  <2>3. CASE ~FullQueue(clients[u].txQueue)
    <3> DEFINE c == [clients[u] EXCEPT
                       !.txQueue = Append(clients[u].txQueue, clients[u].sent + 1)]
               d == [c EXCEPT !.sent = clients[u].sent + 1]
    <3>1. c \in Connection /\ c.wsi = clients[u].wsi
      BY <2>1, <1>3, ChangedField
    <3>2. d \in Connection /\ d.wsi = c.wsi
      <4> HIDE DEF c
      <4> QED
        BY <3>1, <1>2, ChangedField
    <3>3. clients' = [clients EXCEPT ![u] = d]
      BY <2>3 DEF Send
    <3> QED
      BY <3>1, <3>2, <3>3
  <2> QED
    BY <2>2, <2>3
<1>5. /\ DOMAIN clients' = DOMAIN clients
      /\ \A v \in DOMAIN clients \ {u} : clients'[v] = clients[v]
      /\ clients'[u].wsi = clients[u].wsi
      /\ clients' \in [DOMAIN clients' -> Connection]
  BY <1>1, <1>4, OneConnection DEF ConnectorInv
<1>7. armed' = armed \cup {u} /\ armed' \subseteq Hubs
  BY DEF Send, ConnectorInv, ConnectorTypeOK
<1>8. UNCHANGED <<sock, status, phase, attempt, dialed>>
  BY DEF Send
<1> QED
  BY <1>5, <1>7, <1>8, QueueStep

\* A close request leaves queues and sockets alone.
LEMMA ClosingConnections ==
  ASSUME ConnectorInv, NEW us \in SUBSET Hubs, RequestClose(us)
  PROVE  /\ DOMAIN clients' = DOMAIN clients
         /\ \A v \in DOMAIN clients : /\ clients'[v].wsi = clients[v].wsi
                                      /\ clients'[v].txQueue = clients[v].txQueue
         /\ clients' \in [DOMAIN clients' -> Connection]
         /\ armed' \subseteq Hubs /\ armed \subseteq armed'
<1>1. \A v \in DOMAIN clients : clients[v] \in Connection
  BY DEF ConnectorInv, ConnectorTypeOK
<1>2. \A v \in DOMAIN clients :
        [clients[v] EXCEPT !.closeRequest = "normal"] \in Connection
  BY <1>1 DEF Connection
<1>3. /\ DOMAIN clients' = DOMAIN clients
      /\ \A v \in DOMAIN clients :
           \/ clients'[v] = clients[v]
           \/ clients'[v] = [clients[v] EXCEPT !.closeRequest = "normal"]
  BY DEF RequestClose
<1>4. clients' = [v \in DOMAIN clients' |-> clients'[v]]
  BY DEF RequestClose
<1>5. \A v \in DOMAIN clients' : clients'[v] \in Connection
  BY <1>1, <1>2, <1>3
<1>6. clients' \in [DOMAIN clients' -> Connection]
  BY <1>4, <1>5
<1>7. \A v \in DOMAIN clients : /\ clients'[v].wsi = clients[v].wsi
                               /\ clients'[v].txQueue = clients[v].txQueue
  <2> TAKE v \in DOMAIN clients
  <2> QED
    BY <1>1, <1>3 DEF Connection
<1>8. armed' \subseteq Hubs /\ armed \subseteq armed'
  BY DEF RequestClose, ConnectorInv, ConnectorTypeOK
<1> QED
  BY <1>3, <1>6, <1>7, <1>8

\* So a close asked for by the stack keeps the invariant.
LEMMA CloseStep ==
  ASSUME ConnectorInv, NEW us \in SUBSET Hubs, us \subseteq DOMAIN clients,
         RequestClose(us), UNCHANGED <<sock, status, phase, attempt, dialed>>
  PROVE  ConnectorInv'
BY ClosingConnections, QueueStep

-----------------------------------------------------------------------------
(***************************************************************************)
(* libwebsockets' callbacks                                                *)
(***************************************************************************)

\* A callback that ends or establishes the connection reports it with the attempt
\* of now.
LEMMA ReportStep ==
  ASSUME ConnectorInv, phase = "service", UNCHANGED <<phase, attempt>>,
         NEW u \in Hubs, NEW s \in {Connected, Disconnected, Error},
         status' = Append(status, Event(u, s)),
         NEW w \in BOOLEAN, u \in DOMAIN clients,
         clients' = [clients EXCEPT ![u].wsi = w],
         NEW k \in {"none", "dialing", "open", "closing"},
         sock' = [sock EXCEPT ![u] = k],
         w <=> k # "none",
         armed' \subseteq Hubs, armed \ {u} \subseteq armed',
         k = "open" /\ clients[u].txQueue # <<>> => u \in armed'
  PROVE  ConnectorInv'
<1>1. Event(u, s) \in StatusEvent /\ Event(u, s).uri = u /\ Event(u, s).attempt = attempt[u]
  BY DEF Event, StatusEvent, ConnectorInv, ConnectorTypeOK
<1>2. status \in Seq(StatusEvent)
  BY DEF ConnectorInv, ConnectorTypeOK
<1>3. /\ DOMAIN clients' = DOMAIN clients
      /\ clients'[u].wsi = w /\ clients'[u].txQueue = clients[u].txQueue
      /\ \A v \in DOMAIN clients \ {u} : clients'[v] = clients[v]
      /\ clients' \in [DOMAIN clients' -> Connection]
  BY ZenonT(60) DEF ConnectorInv, ConnectorTypeOK, Connection
<1>4. ConnectorTypeOK'
  BY <1>1, <1>2, <1>3, AppendedEvent DEF ConnectorInv, ConnectorTypeOK
<1>5. WsiIsLive'
  BY <1>3 DEF ConnectorInv, ConnectorTypeOK, WsiIsLive, HasWsi
<1>6. EventsAreOfThisAttempt'
  BY <1>1, <1>2, AppendedEvent DEF ConnectorInv, EventsAreOfThisAttempt
<1>7. WaitingEventsAreDialed'
  BY DEF WaitingEventsAreDialed
<1> QED
  BY <1>4, <1>5, <1>6, <1>7 DEF ConnectorInv

\* Whoever is called back has an entry.
LEMMA LiveHasEntry ==
  ASSUME ConnectorInv, NEW u \in Hubs, sock[u] # "none"
  PROVE  u \in DOMAIN clients /\ clients[u].wsi = TRUE
BY DEF ConnectorInv, ConnectorTypeOK, Connection, WsiIsLive, HasWsi

\* ESTABLISHED asks for a WRITEABLE again when frames wait.
LEMMA EstablishedStep ==
  ASSUME ConnectorInv, NEW u \in Hubs, ClientEstablished(u)
  PROVE  ConnectorInv'
<1>1. u \in DOMAIN clients
  BY LiveHasEntry DEF ClientEstablished
<1>2. armed' \subseteq Hubs /\ armed \ {u} \subseteq armed'
      /\ (clients[u].txQueue # <<>> => u \in armed')
  BY DEF ClientEstablished, Rearmed, ConnectorInv, ConnectorTypeOK
<1> QED
  BY <1>1, <1>2, ReportStep DEF ClientEstablished

\* A dial that failed gives up the socket and reports it.
LEMMA ErrorStep ==
  ASSUME ConnectorInv, NEW u \in Hubs, ClientConnectionError(u)
  PROVE  ConnectorInv'
<1>1. u \in DOMAIN clients
  BY LiveHasEntry DEF ClientConnectionError
<1>2. armed' \subseteq Hubs /\ armed \ {u} \subseteq armed'
  BY DEF ClientConnectionError, ConnectorInv, ConnectorTypeOK
<1> QED
  BY <1>1, <1>2, ReportStep DEF ClientConnectionError, StatusAfterError

\* So does a connection that closed.
LEMMA ClosedStep ==
  ASSUME ConnectorInv, NEW u \in Hubs, ClientClosed(u)
  PROVE  ConnectorInv'
<1>1. u \in DOMAIN clients
  BY LiveHasEntry DEF ClientClosed
<1>2. armed' \subseteq Hubs /\ armed \ {u} \subseteq armed'
  BY DEF ClientClosed, ConnectorInv, ConnectorTypeOK
<1> QED
  BY <1>1, <1>2, ReportStep DEF ClientClosed, WithoutWsi

\* A connection that starts to close keeps its socket.
LEMMA StartsClosingStep ==
  ASSUME ConnectorInv, NEW u \in Hubs, ClientStartsClosing(u)
  PROVE  ConnectorInv'
<1>1. ConnectorTypeOK'
  BY DEF ConnectorInv, ConnectorTypeOK, ClientStartsClosing
<1>2. WsiIsLive'
  BY DEF ConnectorInv, ConnectorTypeOK, WsiIsLive, HasWsi, ClientStartsClosing
<1>3. EventsAreOfThisAttempt' /\ WaitingEventsAreDialed'
  BY DEF ConnectorInv, EventsAreOfThisAttempt, WaitingEventsAreDialed, ClientStartsClosing
<1> QED
  BY <1>1, <1>2, <1>3 DEF ConnectorInv

\* WRITEABLE is asked for again as long as frames wait, or the connection closes.
LEMMA WriteableStep ==
  ASSUME ConnectorInv, NEW u \in Hubs, ClientWriteable(u)
  PROVE  ConnectorInv'
<1> DEFINE queue == clients[u].txQueue
           rest == IF queue = <<>> THEN <<>> ELSE Tail(queue)
<1>1. u \in DOMAIN clients /\ sock[u] = "open" /\ u \in armed
  BY LiveHasEntry DEF ClientWriteable
<1>2. queue \in Seq(Nat) /\ rest \in Seq(Nat)
  BY <1>1 DEF ConnectorInv, ConnectorTypeOK, Connection
<1>3. UNCHANGED <<status, phase, attempt, dialed>>
  BY DEF ClientWriteable
<1>4. \/ clients' = clients /\ sock' = [sock EXCEPT ![u] = "closing"]
      \/ /\ clients' = [clients EXCEPT ![u].txQueue = rest]
         /\ armed' = armed \/ rest = <<>>
         /\ sock' = sock
      \/ /\ clients' = [clients EXCEPT ![u].txQueue = rest]
         /\ sock' = [sock EXCEPT ![u] = "closing"]
  BY DEF ClientWriteable
<1>5. armed' = armed \/ armed' = armed \ {u}
  BY DEF ClientWriteable
<1>6. /\ DOMAIN clients' = DOMAIN clients
      /\ clients'[u].wsi = clients[u].wsi
      /\ clients' = clients \/ clients'[u].txQueue = rest
      /\ \A v \in DOMAIN clients \ {u} : clients'[v] = clients[v]
      /\ clients' \in [DOMAIN clients' -> Connection]
  <2>1. CASE clients' = clients
    BY <2>1 DEF ConnectorInv, ConnectorTypeOK
  <2>2. CASE clients' = [clients EXCEPT ![u].txQueue = rest]
    <3> DEFINE c == [clients[u] EXCEPT !.txQueue = rest]
    <3>1. clients[u] \in Connection
      BY <1>1 DEF ConnectorInv, ConnectorTypeOK
    <3>2. c \in Connection /\ c.wsi = clients[u].wsi /\ c.txQueue = rest
      BY <1>2, <3>1 DEF Connection
    <3>3. clients' = [clients EXCEPT ![u] = c]
      BY <2>2
    <3> QED
      BY <1>1, <3>2, <3>3, OneConnection DEF ConnectorInv
  <2> QED
    BY <1>4, <2>1, <2>2
<1>7. ConnectorTypeOK'
  BY <1>3, <1>4, <1>5, <1>6 DEF ConnectorInv, ConnectorTypeOK
<1>8. WsiIsLive'
  <2> SUFFICES ASSUME NEW v \in Hubs
               PROVE  /\ HasWsi(v)' <=> sock'[v] # "none"
                      /\ sock'[v] = "open" /\ clients'[v].txQueue # <<>> => v \in armed'
    BY DEF WsiIsLive, HasWsi
  <2>1. /\ HasWsi(v) <=> sock[v] # "none"
        /\ sock[v] = "open" /\ clients[v].txQueue # <<>> => v \in armed
    BY DEF ConnectorInv, WsiIsLive
  <2>2. HasWsi(v)' <=> HasWsi(v)
    BY <1>6 DEF HasWsi
  <2>3. sock[v] # "none" <=> sock'[v] # "none"
    BY <1>1, <1>4 DEF ConnectorInv, ConnectorTypeOK
  <2>4. CASE v = u
    <3>1. sock'[u] = "closing" \/ (sock'[u] = "open" /\ clients'[u].txQueue = rest
                                  /\ (armed' = armed \/ rest = <<>>))
      <4>1. CASE sock' = [sock EXCEPT ![u] = "closing"]
        BY <4>1 DEF ConnectorInv, ConnectorTypeOK
      <4>2. CASE sock' = sock /\ clients' = [clients EXCEPT ![u].txQueue = rest]
        BY <1>1, <1>4, <4>2 DEF ConnectorInv, ConnectorTypeOK, Connection
      <4> QED
        BY <1>4, <4>1, <4>2
    <3> QED
      BY <1>1, <2>1, <2>2, <2>3, <2>4, <3>1
  <2>5. CASE v # u
    <3>1. sock'[v] = sock[v] /\ (v \in armed' <=> v \in armed)
      BY <1>4, <1>5, <2>5 DEF ConnectorInv, ConnectorTypeOK
    <3>2. sock[v] = "open" => clients'[v] = clients[v]
      BY <1>6, <2>1, <2>5 DEF HasWsi
    <3> QED
      BY <2>1, <2>2, <2>3, <3>1, <3>2
  <2> QED
    BY <2>4, <2>5
<1>9. EventsAreOfThisAttempt' /\ WaitingEventsAreDialed'
  BY <1>3 DEF ConnectorInv, EventsAreOfThisAttempt, WaitingEventsAreDialed
<1> QED
  BY <1>7, <1>8, <1>9 DEF ConnectorInv

-----------------------------------------------------------------------------

\* The main loop goes to the stack only after every event was taken.
LEMMA LoopStep ==
  ASSUME ConnectorInv, Service \/ ServiceReturns \/ DrainStatusEvents \/ NothingToReload
  PROVE  ConnectorInv'
<1>1. UNCHANGED <<clients, sock, armed, attempt>>
  BY DEF Service, ServiceReturns, DrainStatusEvents, NothingToReload
<1>2. /\ status' = status \/ status' = <<>>
      /\ phase' \in {"tick", "service", "drain", "reload"}
  BY DEF Service, ServiceReturns, DrainStatusEvents, NothingToReload
<1>6. status' \in Seq(StatusEvent)
  <2>1. status \in Seq(StatusEvent) /\ <<>> \in Seq(StatusEvent)
    BY DEF ConnectorInv, ConnectorTypeOK
  <2> QED
    BY <1>2, <2>1
<1>4. ConnectorTypeOK'
  BY <1>1, <1>2, <1>6 DEF ConnectorInv, ConnectorTypeOK
<1>5. WsiIsLive'
  BY <1>1 DEF ConnectorInv, WsiIsLive, HasWsi
<1>3. EventsAreOfThisAttempt' /\ WaitingEventsAreDialed'
  BY <1>1 DEF ConnectorInv, EventsAreOfThisAttempt, WaitingEventsAreDialed, Service,
              ServiceReturns, DrainStatusEvents, NothingToReload
<1> QED
  BY <1>3, <1>4, <1>5 DEF ConnectorInv

\* A reload is not followed by a stale event either: the queue is empty there.
LEMMA ReloadStep ==
  ASSUME ConnectorInv, ReloadCredentials
  PROVE  ConnectorInv'
<1> DEFINE us == {u \in Hubs : HasWsi(u)}
<1>1. /\ DOMAIN clients' = DOMAIN clients
      /\ \A v \in DOMAIN clients : /\ clients'[v].wsi = clients[v].wsi
                                   /\ clients'[v].txQueue = clients[v].txQueue
      /\ clients' \in [DOMAIN clients' -> Connection]
      /\ armed' \subseteq Hubs /\ armed \subseteq armed'
  <2>1. us \in SUBSET Hubs /\ RequestClose(us)
    BY DEF ReloadCredentials
  <2> QED
    BY <2>1, ClosingConnections
<1>3. UNCHANGED <<sock, status, attempt>> /\ phase = "reload" /\ phase' = "tick"
  BY DEF ReloadCredentials
<1>4. ConnectorTypeOK'
  BY <1>1, <1>3 DEF ConnectorInv, ConnectorTypeOK
<1>5. WsiIsLive'
  BY <1>1, <1>3 DEF ConnectorInv, ConnectorTypeOK, WsiIsLive, HasWsi
<1>6. EventsAreOfThisAttempt' /\ WaitingEventsAreDialed'
  BY <1>3 DEF ConnectorInv, EventsAreOfThisAttempt, WaitingEventsAreDialed
<1> QED
  BY <1>4, <1>5, <1>6 DEF ConnectorInv

\* Every step keeps the invariant.
LEMMA ConnectorInvariant == Spec => []ConnectorInv
<1>1. Init => ConnectorInv
  BY InitConnector
<1>2. ConnectorInv /\ [Next]_vars => ConnectorInv'
  <2> SUFFICES ASSUME ConnectorInv, [Next]_vars PROVE ConnectorInv'
    OBVIOUS
  <2>1. ASSUME NEW u \in Hubs, Connect(u) PROVE ConnectorInv'
    BY <2>1, ConnectStep
  <2>2. ASSUME NEW u \in Hubs, Send(u) PROVE ConnectorInv'
    BY <2>2, SendStep
  <2>3. ASSUME NEW u \in Hubs, Disconnect(u) PROVE ConnectorInv'
    <3>1. {u} \in SUBSET Hubs /\ {u} \subseteq DOMAIN clients
      BY <2>3 DEF Disconnect, HasWsi
    <3>2. RequestClose({u}) /\ UNCHANGED <<sock, status, phase, attempt, dialed>>
      BY <2>3 DEF Disconnect
    <3> QED
      BY <3>1, <3>2, CloseStep
  <2>4. ASSUME NEW u \in Hubs, ClientEstablished(u) PROVE ConnectorInv'
    BY <2>4, EstablishedStep
  <2>5. ASSUME NEW u \in Hubs, ClientConnectionError(u) PROVE ConnectorInv'
    BY <2>5, ErrorStep
  <2>6. ASSUME NEW u \in Hubs, ClientStartsClosing(u) PROVE ConnectorInv'
    BY <2>6, StartsClosingStep
  <2>7. ASSUME NEW u \in Hubs, ClientWriteable(u) PROVE ConnectorInv'
    BY <2>7, WriteableStep
  <2>8. ASSUME NEW u \in Hubs, ClientClosed(u) PROVE ConnectorInv'
    BY <2>8, ClosedStep
  <2>9. CASE Service \/ ServiceReturns \/ DrainStatusEvents \/ NothingToReload
    BY <2>9, LoopStep
  <2>10. CASE ReloadCredentials
    BY <2>10, ReloadStep
  <2>11. CASE UNCHANGED vars
    BY <2>11 DEF vars, ConnectorInv, ConnectorTypeOK, WsiIsLive, HasWsi,
                 EventsAreOfThisAttempt, WaitingEventsAreDialed
  <2> QED
    BY <2>1, <2>2, <2>3, <2>4, <2>5, <2>6, <2>7, <2>8, <2>9, <2>10, <2>11 DEF Next
<1> QED
  BY <1>1, <1>2, PTL DEF Spec

\* ClientConnection::wsi is set exactly while libwebsockets has the connection
\* (Connect, CLIENT_ESTABLISHED, CLIENT_CONNECTION_ERROR, CLIENT_CLOSED), and frames
\* queued on an established connection have a WRITEABLE coming.
THEOREM SocketsAreLive == Spec => []WsiIsLive
<1>1. ConnectorInv => WsiIsLive
  BY DEF ConnectorInv
<1> QED
  BY <1>1, ConnectorInvariant, PTL

\* What DrainStatusEvents hands the stack is about the attempt under way, however
\* often a URI is dialed: Connect detaches the attempt it replaces.
THEOREM EventsFollowTheAttempt == Spec => []EventsAreOfThisAttempt
<1>1. ConnectorInv => EventsAreOfThisAttempt
  BY DEF ConnectorInv
<1> QED
  BY <1>1, ConnectorInvariant, PTL

=============================================================================
