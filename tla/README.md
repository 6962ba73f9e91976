# TLA+ models of BACnetExampleBSCHUB

BACnetExampleBSCHUB is a BACnet/SC hub: one process that terminates TLS
WebSockets for BACnet/SC devices, keeps its certificates in File objects that
can be replaced over BACnet while it runs, and hands every frame to the (closed
source) CAS BACnet Stack. This folder holds TLA+ modules of its own logic, the
TLC configurations that check them and the proofs that TLAPS checks.

Paths in this file are relative to `src/` unless they name a module.

## 1. The system

One thread runs almost everything. `main.cpp:2509-2617` is a loop: the stack's
`Tick` (which calls back into the application), `ScTransport::Service`
(libwebsockets calls back), `DrainStatusEvents`, the check of the revocation
list, and a deferred reload of the TLS credentials. The one other thread copies
the console to the log file. So interleaving comes from the *order of callbacks*
inside `Tick` and `Service`, from crashes between file operations, and from the
copier thread.

| Part | State | Operations | What makes it hard | Correct when |
|---|---|---|---|---|
| Certificate store (`cert_store.cpp`) | three certificate files, key, pending key, CSR; staged copies and a flag in memory | AtomicWriteFile, File_Size, DISCARD, ReinitializeDevice, GENERATE_CSR_FILE, ReconcilePendingKey | an activation is several renames, then a key swap; the process or a rename may stop in the middle; slot 2 serves slot 1 until it has a file | the hub always owns the key of its certificate; what was validated is what ends up on disk |
| TLS credentials (`main.cpp`) | trusted-issuer bundle, which trust file is configured, reload request, what the listener has loaded | start-up, the end of ReinitializeDevice, CRL check, reload | the reload is deferred while activations go on | the listener runs on the last activation, with both issuers |
| SC listener (`ScTransport.cpp`) | peers, their transmit queues and close requests, index from socket to peer, received frames, status events | StartListening, StopListening, Send, Disconnect, ReloadCredentials, Service and the libwebsockets callbacks | sockets are reused; destroying the listener runs callbacks; a close waits for queued frames | each peer is reported once; a string names one peer; nothing queued before a normal close is lost; a wake-up is never forgotten |
| SC connector (`ScTransport.cpp`) | outbound connections by URI | Connect, Send, Disconnect, reload, client callbacks | a dial may be replaced by another while its callbacks are still to come | events belong to the current dial; a socket is never used after it is gone |
| Reassembly (`ScTransport.cpp:1636`) | a buffer and an overflow flag per connection | a fragment, the end of a message | the ceiling may be passed in any fragment | whole messages or nothing, in order |
| Rate limit (`ScTransport.cpp:750`) | a token bucket per address in a bounded table, and one for the listener | AllowNewConnectionAttempt | the table forgets addresses | limits hold over every window |
| Audit trail and connection limit (`ScTransport.cpp`, `main.cpp:2530`) | what each peer has said it is, who is accepted, refusals counted, when the last message was shown | AuditReceivedFrame, AuditSentFrame, GetMetrics, the check in the loop | identities are read out of octets the peer chose; counts are compared with peers of another moment | a peer is recorded as what it said; nobody counts who is not in the hub's table or on the way out |
| Router (`ScTransportRouter.cpp`) | which side is polled first; the last tool heard on another UDP port | the stack's receive and send callbacks, DrainStatusEvents | two sides share one callback that is called until it answers 0; one broadcast is told from another by its octets | neither side starves; only the stack's own answers are copied to the tool |
| Log file (`log_file.cpp`) | a pipe, the kept descriptors, the copier thread | Start, CopyLoop, Stop | two threads; Stop must make the copier's read end | no line is lost, doubled or reordered; Stop ends |
| Start-up (`main.cpp`, `cert_layout.cpp`, `KeyPassword.cpp`, `EnsureHubRequest`) | the hub's folder, key, request, password, request zip | once at every start | key, request and zip are written in place and one after the other, by starts that may stop anywhere and may have another device instance | no start takes a key away; what goes to the authority is for a key the hub has |
| Command line (`main.cpp:1500-2000`) | options | checked in one walk, then searched for each option | two readers of one argv | both see the same options |
| Commissioning (`cert_tool.cpp`, `cari.cpp`) | writes certificates in place | ImportCariResponse, ReadZip, WriteZip | no staging; a zip made by any tool, possibly damaged | an import the hub can run on, or none |
| Revocation list (`main.cpp:2550`, `ScTransport.cpp`) | a fingerprint of the file, what the listener has loaded | a look every few seconds, reload | the file is copied into place while it is looked at and loaded, and may be loaded before the first look | revoked devices are dropped in the end |
| Device clock (`main.cpp:635-940`) | a correction to the host's clock, UTC_Offset, Daylight_Savings_Status | both time synchronizations, two property writes | zone and time are written in any order | UTC follows the last synchronization |
| Other objects and callbacks (`main.cpp`) | configuration | property getters | - | - |
| CAS BACnet Stack, libwebsockets | external | call back | in any order | - |

How they interact: the stack's callbacks write the store and call the
transport; `ReinitializeDevice` only *requests* a reload, which the main loop
makes after `Tick`; the transport keeps two queues, received frames (taken by
the stack in `Tick` through the router) and status events (drained by the main
loop right after `Service`), since no stack function may be called from a
callback (`sc_transport/README.md`, fact 6).

## 2. The modules

| Module | Models | Variables and actions against the code |
|---|---|---|
| `HubIdentity` | abstract: the hub's key, certificate and requested key change in one step | what `cert_store.h:24-31` promises |
| `CertStore` | `cert_store.cpp`, ReinitializeDevice | `disk`, `key`, `pendingKey`, `csr` are the files, `staged` is `g_staged`, `promotes` is `g_commitPromotesPendingKey`; one step per rename, `Crash` between any two; `MayFail` says which file operations may fail |
| `HubCredentials` | EXTENDS `CertStore` with `main.cpp` around it | `bundle`, `caPath`, `reload` and `tls` (what the listener has loaded); each step of the store happens here too |
| `CariZip` | `cari.cpp`: the tree, WriteZip and ReadZip | a zip is a sequence of cells (a header with its name, a field, a piece of contents); offsets and sizes count cells; `Pack` is the writing loop for any tool's layout, of which WriteZip's is one |
| `CariZipProofs` | theorems about `CariZip` | |
| `Commissioning` | EXTENDS `HubCredentials` and `CariZip` with `--import-cari` of `cert_tool.cpp` | `Deliveries` are the zips an authority's answer may arrive as, `ResponseIn` is what ReadCariResponse takes from one, passing over issuers that are not named `iss-*`; `writing` and `opened` are how far `WriteFile` has come with the files of `ImportCariResponse`; `response` and `turnedAway` are histories; imports only while the hub is down |
| `CommissioningProofs` | theorems about `Commissioning` | |
| `CommandLine` | `ValidateCommandLine`, the `Parse...` functions and what `main` refuses | `argv`; `Walk` is where the check stops, `config` the `g_` variables that the searches set |
| `HubRequest` | ResolveHubCertPaths, KeyPassword::Prepare, ReconcilePendingKey (keys only), EnsureHubRequest, over any number of starts | `startUp` is how far `main` has come; `keyFile`, `csrFile` are the files of each `device-<n>` folder; `Open...`/`Write...` are the two halves of WriteFile; `newKey` is the key in memory |
| `Clock` | the Device's clock, its zone and the run limit | `clockOffset`, `utcOffset`, `daylight` are the `g_` variables, `host` is `time(NULL)`, `steady` is steady_clock; `asked` is a history |
| `StartUpProofs` | theorems about `HubRequest`, `Clock`, `CommandLine` and `LogFile` | |
| `Revocation` | the CRL file, the look at it and the contexts that load it | `crl`, `written` are the file and its time, `running` says that main is in its loop, `fingerprint` is `crlFingerprint`, `loaded` what the listener checks devices against; `EnterLoop` is the first look, `StartListening` may come before it; `missed` is a history |
| `HubCredentialsProofs` | theorems about `CertStore` and `HubCredentials` | |
| `ScListener` | the accepting half of `ScTransport.cpp`, the drains of the router and the turn of the main loop | `peers` is `m_peers`, `index` is `m_connStringToWsi`, `wanted` is `m_wantedListenUri`, `phase` is where the main loop is, `job` a stop, rebind or reload that is destroying the listener |
| `ScListenerProofs` | theorems about `ScListener` | |
| `ScConnector` | the dialing half | `clients` is `m_clients`; `attempt` tells the dials of a URI apart |
| `ScConnectorProofs` | theorems about `ScConnector` | |
| `FrameChannel` | abstract: a connection hands over whole messages | `sc_transport/README.md`, fact 8 |
| `RxAssembly` | `HandleIncomingFragment`, `PopReceived` | `rxAssembly`, `rxOverflow`, the receive queue |
| `RateLimit` | `AllowNewConnectionAttempt`, `TakeToken` | `buckets`, `total`; `now` is `steady_clock` in units of 1/`Second` s; `accepted`, `inAll`, `seen` and `unlimited` are histories over a window that begins at any time |
| `Admission` | AuditReceivedFrame, AuditSentFrame, GetMetrics and the limit message, with the stack's hub function around them | `members` is `m_peers` with `who`, `accepted`, `closing` and the length of the queue; `hub` is the stack's table; Connect-Requests are octets; `PastOptions` is where `BvlcPayloadOffset` gets from each offset |
| `AdmissionProofs` | theorems about `Admission` and `RateLimit` | |
| `ScTransportRouter` | the receiving half of the router | `pollIpFirst`, what waits on both sides (of a frame its size and the length of its connection string), `phase` |
| `FramePath` | EXTENDS `RxAssembly` and `ScTransportRouter` over one receive queue | fragments arrive in `Service`, the stack takes frames in `Tick` among the datagrams of the IP side; `name` is the length of the connection's string |
| `RouterSending` | HandleSendMessage, IsStackChosenBroadcast and the tool on this host | frames are laid out as octets by `FrameOctets`, which the model's router then reads as the code does; `lastTool` is `m_hasPeer` with its address |
| `FrameProofs` | theorems about `RxAssembly`, `ScTransportRouter`, `FramePath` and `RouterSending` | |
| `LogFile` | `log_file.cpp` | `main` and `copier` are the two threads' places, `ends` the open write ends of the pipe |
| `MC...` | the small instances for TLC | values of the constants, and at their end what the documents say and the code does not do |

Definitions whose comment begins "A mutant" are not used by any specification:
they are plausible mistakes in the operator that follows, and replacing that
operator by them makes a run fail (the list is in `PROJECT.json`).

Composition: `HubCredentials` is the store together with start-up, activation,
bundle and reload, over one state; `Commissioning` puts imports, and the zips they
come in, around it. `FramePath` is reassembly and router over the same queue.
`MCStartUp`, `MCRateLimit` and `MCScTransportRouter` hold modules that share no
state: a variable `part` (or `half`) says which of them a behaviour is about, so
that one run checks them side by side without multiplying their states. `ScListener` and `ScConnector` each include
the loop, the drain of the status events and the reload. That the two halves of
the transport can be taken apart is read from the code: they share the context,
the status queue (whose events name one connection) and the receive queue.

### What is abstracted

* A certificate is the key it certifies, the key that signed it and its role;
  one per file. Validity periods are left out (no clock moves certificates
  through the code's checks except at the moment of validation). A certificate
  signing request is the key it is for, a password the key it unlocks, a
  revocation list the devices it revokes.
* A half-written or zero-filled file is `Garbage`; a partial AtomicWriteFile and
  a File_Size that cuts or extends are the two ways the code gets there.
* A frame in the transport is its number among those of its connection; in the
  reassembly, a sequence of octets; in the router, its size and the length of the
  longer of its two connection strings.
* libwebsockets may call back for any open socket in any order, WRITEABLE only
  if it was asked for; the stack may call anything at any time inside `Tick`.
* Received frames that arrive while a listener is flushed inside `Tick`
  (`FlushQueuedFrames`) are in `ScListener`, not in `ScTransportRouter`.
* A zip is cells instead of octets, deflate is undone by inflate, and a check sum
  is as good as the contents it is of. "zip64" and "encrypted" are one flag,
  both being refused at the same place. Names in the central directory have no check
  sum in the format, so the damages of the environment (`Damaged`) are a zip cut off,
  a cell lost, a cell overwritten, and something before or behind it.
* Tokens of the command line are strings, and tables say what strtol, ParseOnOff
  and the UTF-8 check answer to each.
* Calendar fields are seconds since 1970 in `Clock`; whether a date is valid is
  the stack's check before the callback.
* In `Revocation` the file is not written twice within one second and never put
  back with its old time, which a fingerprint of size and time cannot see. The
  stack may start the listener from inside `AddBACnetSCAcceptUri`, before main
  first looks at the file (`main.cpp:1184-1185`, 2321, 2510), from any `Tick`, or
  not at all; a device gets in only in the loop, which is what calls `Service`.
* Names of files in a zip are model strings with an order (`Rank`). `IssuerNames`
  stands for the names that begin with `iss-`, `StrayNames` for others an authority
  may give its issuers.
* Text, logging and wording are left out.

## 3. The runs

| Run | Shows |
|---|---|
| `hub_credentials` | store and credentials together, with a crash between any two file operations and failing temp files and requests: the hub keeps its certificate's key (`CertificateHasKey`), runs with a matching pair (`RunsWithMatchingPair`), activations leave usable files (`ActivatedFilesAreUsable`), the whole implements `HubIdentity` (`ImplementsIdentity`), the listener serves the last activation (`ListenerServesActivated`) and trusts both slots (`BundleTrustsBothSlots`) |
| `hub_failures` | the same with *every* file operation failing: nothing unchecked on disk (`OnlyCheckedFilesOnDisk`), a commit that failed half way can be activated again (`FailedCommitCanBeRetried`), the listener never runs on half of one (`ListenerIsCoherent`) |
| `hub_reachable` | liveness: once the process stops crashing, a hub with a complete set of files gets its listener up |
| `commissioning` | responses of an authority imported between runs of the hub, cut off between or inside any two files, with renewals over BACnet and key swaps before and after: after a complete import the listener presents the imported certificate and trusts the response's issuers that are named `iss-*` and nobody else (`ImportReplacesTrust`); a response arrives as any of several zips - packed by three kinds of tool, whole, cut off, with a cell lost or overwritten, with something before or behind - and is taken with the certificate and the `iss-*` issuers it was sent with, whatever else stands beside them, or turned away, and never turned away when it arrived whole (`ResponseIsTakenAsSent`) |
| `sc_listener` | every peer reported exactly once, strings name their peers across reused sockets, nothing lost before a normal close, no lost wake-up, listening only where wanted |
| `sc_listener_live` | a requested close is made; a wanted listener comes back |
| `sc_connector` | the socket of a connection is set exactly while it is live, events are of the current dial, queued frames have a wake-up, every dial is answered |
| `sc_connector_reload` | **violated**, see section 6 |
| `rate_limit` | `part = "attempts"`: no address and not the listener gets more than its limit in any window; few addresses cannot use up the listener's. `part = "devices"`: the audit trail names the devices that were there, whatever headers a Connect-Request has and wherever it is cut off (`AuditNamesADevice`); when the loop checks the limit, the accepted peers are those of the hub's table and ones being closed (`CountMatchesTheHub`) |
| `sc_router` | `half = "receiving"`: the two sides alternate, however busy one of them is (`PassedOverOnce`); with the router behind it the reassembly still implements a channel of whole messages (`ImplementsChannel`), and what it has assembled leaves its queue only into the stack, unless it is empty or its connection string is longer than the stack takes (`TakenIsHandedOver`). `half = "sending"`: exactly the stack's own answers are copied to the tool, wherever the NPDU's addresses put the service (`OnlyAnswersAreCopied`) |
| `start_up` | `part = "command"`: the searches of argv see what its walk has seen (`OptionsAreWhatWasGiven`). `part = "request"`: no start writes over a key, what goes into the request zip has its key, the password kept is that of the key loaded (`KeyIsNeverReplaced`, `RequestHasItsKey`, `PasswordFitsTheKey`). `part = "clock"`: `UtcFollowsSync`. `part = "revocation"`: once the list is left alone, the devices it revokes are dropped and stay out, unless it was replaced between the first listen and the first look and no context was made since (`RevokedDevicesAreDropped`, liveness). `part = "log"`: console order (`ConsoleKeepsOrder`), a complete log up to what a kill may lose (`LogIsComplete`), `Stop` ends (`StopReturns`, liveness) |
| `revocation_at_start` | **violated**, see section 6 |

### Bounds

* **Certificates.** `hub_credentials`: three keys (the one in use, a pending one
  and one that overwrites it), two authorities, so both issuers can be replaced;
  slot 1 takes either, slot 2 the new one or what it reads from slot 1.
  `hub_failures` and `hub_reachable`: two keys and one authority, which is what a
  renewal needs; `hub_failures` also uploads a
  self-signed CA certificate of the hub's own key, which must be refused. Slots
  hold any mixture of nothing, empty, garbage and certificates.
* **Commissioning.** Two keys, a renewal by the first authority over BACnet, and
  five responses of the second for the new key: with one issuer, with two of
  which the second has signed, with three, which the hub refuses, with the first
  authority's as `ca.pem` beside the signer, and with the signer as `ca.pem` alone,
  which the hub refuses too. The shortest
  response after the longest one is what could leave an old issuer behind. Names, folders and requests of other
  devices stand in the zips, so that a wrong one could be chosen. The limits on
  size and number of entries are larger than any zip of the run: they are modelled,
  and not reached.
* **Listener.** Two sockets, two accept URIs, two connections accepted in a
  behaviour (so a socket is reused by the second), a queue of two frames and
  three frames sent (so it overflows), one received frame at a time; all peers
  read, since one that does not only takes behaviours away. Liveness: peers that
  stop reading and start again, one socket and one queued frame, which is the
  shortest queue that overflows.
* **Connector.** A primary hub dialed twice, so that a dial is replaced in each
  of its states, and a failover hub dialed once; a queue of one frame and two
  frames sent, so it overflows.
* **Reassembly and router.** Two different octets (to see a mix-up), fragments of
  0 to 2 octets, a ceiling of 2 and messages of up to 3: the ceiling is met exactly,
  passed in the middle and passed in the last fragment. The receive queue has
  no limit in the code; 2 are kept, and 2 datagrams on the IP side. The history
  `lastSize` is what makes a dropped message of legal size visible: without it the
  drop could be taken for that of a longer one. A connection string fits the
  stack's buffer exactly or is one octet too long.
* **Sending.** All combinations of three BVLC functions, no, empty and two-octet
  addresses, and six services, of which two are copied and one is a single octet.
* **Rate limit.** Three addresses against a table of two, so that one is
  forgotten and one finds the table full; limits of 1 and 2 a second, seven
  ticks of 1/3 s, which is more than two refills.
* **Admission.** A hub of one device, two connections, three requests of two
  devices, a queue of one frame; four kinds of headers, with both lists of
  options, of data of no, one and two octets; requests whole, cut off one
  octet before the end of the identity, and in the header.
* **Start-up.** Up to three of 26 phrases on the command line, every option at
  least once, with values in range and not, empty, missing, and looking like an
  option or a switch. Two device instances and three keys, with any number of
  starts, each stopped anywhere: the third key is one that replaces another. Three
  zones, two instants (one is the error value of CalendarToSeconds), four offsets
  around the legal ones. Two devices and two lists of the *same size*, so that
  only the time tells them apart, and two seconds between looks.
* **Log.** Six lines through a pipe of three and a buffer of two.

`MaxClients`, `MaxFrames`, `MaxReceived`, `MaxAttempts`, `MaxMessage`,
`MaxQueue`, `MaxTime`, `MaxWaiting`, `MaxPassed`, `MaxLines`, `MaxPeers`,
`MaxRequests`, `MaxPhrases` and `MaxSecond` bound the behaviours and stand in the guards; the code has no such limits.
`kMaxTxQueueFrames`, `kMaxTrackedAddresses`, `kMaxIngressBytes`, `PipeSize` and
`BufferSize` are the code's (or the system's), made small.

`CHECK_DEADLOCK FALSE` is set for `start_up` and `revocation_at_start`, where the device
stops at its run limit and the process of the log file exits.

The type invariants (`TypeOK` of `ScListener`, `ScConnector`, `LogFile`,
`RateLimit`, `RxAssembly`; `RouterTypeOK`, `ClockTypeOK`, `CommissionTypeOK`) are
not listed in the `.cfg` files where something stronger is checked; naming one
there shows that it holds.
Everywhere else a deadlock would be reported.

### Fairness

* **Main loop** (`HubFairness`, `Fairness` of the listener, `LoopFairness` of
  the connector): weak fairness of the steps of the loop, since `main` loops
  without conditions; strong fairness where a step competes with callbacks of the
  same turn, because every turn reaches it (`Service`, `StartListening`,
  `ReloadCredentials`). It does rest on `Tick` returning: see `sc_router` in
  section 6.
* **libwebsockets**: a socket that asked for WRITEABLE and whose peer reads gets
  it, a closing one gets CLOSED, a dial ends in ESTABLISHED or
  CONNECTION_ERROR (libwebsockets times it out). Peers that have stopped reading
  are never given a WRITEABLE, and no property relies on one.
* **Restart**: a process that stops is started again (`StartUp`); crashes
  themselves are not fair, and `StaysReachable` is about behaviours with finitely
  many of them.
* **Log file**: both threads are scheduled; a terminal that is held back
  (`ConsoleSticks`) is let go each time it is held, though it may be held again,
  so the copier's write needs strong fairness. `Stop` cannot end while the user
  holds the terminal, and the property does not say when it ends.
* **Revocation**: main reaches its loop, the loop turns, and time passes
  (`RevocationFairness`); the stack need not listen.
* **Clients, devices, operators and certificate authorities** owe nothing.

## 4. What is proved

For every value of the constants that satisfies the named assumptions, with
`tlapm`:

| Theorem | Assumes | States |
|---|---|---|
| `HubCredentialsProofs!TypeCorrect` | `ConstantsAssumption` | `[]TypeOK`, whatever fails |
| `HubCredentialsProofs!KeyIsNeverLost` | + `NoRenameFails` | `[]CertificateHasKey` |
| `HubCredentialsProofs!PairAlwaysMatches` | + `NoRenameFails` | `[]RunsWithMatchingPair` |
| `HubCredentialsProofs!ActivationIsFaithful` | + `NoRenameFails` | `[]ActivatedFilesAreUsable` |
| `HubCredentialsProofs!StoreImplementsIdentity` | + `NoRenameFails` | `CertStore` implements `HubIdentity` |
| `HubCredentialsProofs!OnlyCheckedFilesAreInstalled`, `FailedCommitKeepsItsStage` | `ConstantsAssumption` | `[]OnlyCheckedFilesOnDisk` and `FailedCommitCanBeRetried`, whatever fails |
| `HubCredentialsProofs!HubRunsTheStore` | | `HubSpec => Spec`: what is proved of the store holds of the hub |
| `HubCredentialsProofs!ListenerStaysCoherent` | `ConstantsAssumption` | `[]ListenerIsCoherent`, whatever fails |
| `HubCredentialsProofs!ListenerFollowsActivation` | + `NoRenameFails` | `[]ListenerServesActivated` |
| `HubCredentialsProofs!ListenerTrustsActivatedIssuers` | + `NoRenameFails`, `NoBundleFails` | `[]BundleTrustsBothSlots` |
| `CariZipProofs!DamagedZipsAreRefusedOrWhole`, `WholeZipsAreRead` | `LimitsAssumption` | whatever `Pack` made of any entries in any layout, ReadZip refuses what was damaged of it or reads every entry, and reads what arrives whole if it is within the limits and its paths are legal |
| `CariZipProofs!WrittenTreesAreRead` | + `RankAssumption` | `ReadZip(WriteZip(tree)) = tree`, for any tree within the limits that holds the folders of its paths |
| `CommissioningProofs!ResponsesAreTakenAsSent` | + `ConstantsAssumption`, `ResponsesAssumption`, `NamesAssumption`, `LayoutsAssumption` | `[]ResponseIsTakenAsSent`, whatever fails, for any issuers named `iss-*` and any files beside them |
| `CommissioningProofs!ImportIsInForce` | + `NoBundleFails` | `[]ImportReplacesTrust` |
| `FrameProofs!TypeCorrect`, `AssemblyImplementsChannel` | `AssemblyAssumption` | the reassembly is typed and implements `FrameChannel` |
| `FrameProofs!RouterTypeCorrect`, `NeitherSideStarves` | `RouterAssumption` | `[]RouterTypeOK` and `[]PassedOverOnce`, for any traffic |
| `FrameProofs!PathImplementsChannel`, `PathRoutes`, `EveryTakenFrameIsHandedOver` | + `PathAssumption` | the path implements `FrameChannel` and is a router; `TakenIsHandedOver` |
| `FrameProofs!CopiesAreAnswers` | `SendingAssumption` | `[]OnlyAnswersAreCopied`, for frames with any addresses and octets |
| `AdmissionProofs!TypeCorrect`, `AddressNeverExceedsLimit`, `ListenerNeverExceedsLimit`, `FewAddressesNeverReachTotal` | `RateAssumption` | the limits hold over any window; `[]FewAddressesNeverHitTotal` |
| `AdmissionProofs!AuditNeverMisnames`, `CountFollowsTheHub` | `AdmissionAssumption` | `[]AuditNamesADevice` and `[]CountMatchesTheHub`, for any header options, devices and limits |
| `StartUpProofs!DeviceKeepsUtc` | `ClockAssumption` | `[]UtcFollowsSync`, for any zones, offsets and steps of the host's clock |
| `StartUpProofs!StartsKeepTheKey`, `RequestsHaveKeys`, `PasswordsFit` | `RequestAssumption` | `KeyIsNeverReplaced`, `RequestHasItsKey` and `[]PasswordFitsTheKey`, for any number of keys, device instances and starts |
| `StartUpProofs!OptionsFollowTheCommandLine` | `CommandAssumption` | `[]OptionsAreWhatWasGiven`, for command lines of any length and tokens |
| `StartUpProofs!ConsoleIsInOrder`, `LogHoldsWhatWasPrinted` | `SizesAssumption`, `MaxLinesAssumption` | `[]ConsoleKeepsOrder` and `[]LogIsComplete`, for any pipe, buffer and number of lines |
| `ScConnectorProofs!SocketsAreLive`, `EventsFollowTheAttempt` | `ConnectorAssumption` | `[]WsiIsLive` and `[]EventsAreOfThisAttempt`, for any hubs, dials, frames and queue limit |
| `ScListenerProofs!HubListensWhereWanted`, `StringsReachTheirPeers`, `WakeupsAreAskedFor`, `FramesLeaveInOrder`, `ClosesAreReportedOnce` | `ListenerAssumption` | `[]ListensWhereWanted`, `[]StringsNameTheirPeers`, `[]NoLostWakeup`, `[]NothingIsLostBeforeANormalClose` and `[]EveryPeerIsReportedOnce`, for any sockets, URIs, clients, frames and queue limit |

`NoRenameFails` is needed: when the rename of the pending key fails,
`CertificateHasKey` is false (section 6), and a File object may hold a certificate
that no reload follows. `NoBundleFails` is needed because a bundle that could not be
written leaves the old one in use, which main.cpp logs and goes on with.
The other assumptions say what kind of thing the constants are. Some of them carry
something of the code or of what reaches it: `PathAssumption` that the reassembly's ceiling is no more than
the stack's input buffer (`ScTransport.cpp:1651`), `AdmissionAssumption` and
`SendingAssumption` what a frame looks like (lengths in one or two octets, at most one
address of each kind), `CommandAssumption` that no word for on or off begins
with two dashes (`main.cpp:1628`), `LayoutsAssumption` that an answer to a request is
within the limits of ReadZip (4 MiB, 4096 entries and 16 MiB unpacked, for a tree of a few
small files), and `NamesAssumption` that the names in it are legal, those of the issuers
are in alphabetical order and no name is of two kinds. Which names begin with `iss-` is a
constant (`IssuerNames`); an authority may use any others as well (`StrayNames`).

**Certificate store.** `CertificateHasKey` is not inductive: a commit that is
about to rename the operational certificate is safe only because validation tied
that certificate to the key that the commit will promote. `KeyInv` therefore adds
that keys are made once (`KeysAreKnown`); that inside a commit the staged view
still validates and the flag is the one this validation computes
(`CommitIsValidated`); and that while the certificate has still to be renamed
the old one is for the key in use (`OldCertificateMatches`). The central lemma is
`RenameIsInvisible`: a rename does not change what any File object serves, since
the file it replaces was hidden by the staged copy that replaces it - slot 2's
fallback to slot 1 included. So a validation stays true through every rename.
`ActivationIsFaithful` adds `IntactFilesAreUsable`. The refinement maps the
rename of a certificate for the pending key to the abstract `Adopt`, so that the
key swap and its repair after a crash are stutters.

What must hold when renames fail is `CheckedInv`: a commit only ever puts files in
place that its validation has read (`CommitIsValidated`, over the files already
renamed too), so a certificate on disk is a checked one, and because a failing rename
changes neither disk nor stage the validation passes again.

**Credentials.** Every step of the hub is a step of the store or leaves it alone
(`HubStepsAreStoreSteps`), so the store's invariants are at hand. `ServesFileOne` by
itself is lost by an activation; `UpToDate` says when it has to hold: with the
listener up, no reload or bundle outstanding and no commit under way. That a commit
leaves one of these flags set whenever it has touched a file is the case that matters.
`TrustInv` does the same for the issuers, in two stages: the bundle follows the files
(`BundleFollowsFiles`) and the listener follows the bundle (`TrustFollowsFiles`). A
process whose start found no issuer is left out by the property itself (section 6).

**Zip.** The lemmas follow the two loops. Writing: what an entry adds stays where it is
put (`WrittenGrows`, `PiecesStay`), so that `PackIsPacked` says where every member, header and
the end record of a zip stand, for any entries and any layout. Reading: `DirectoryIsRead`
says which headers the loop of ReadZip collects, up to the first cell that is not one;
`EndIsFound` that no record but the last is taken for the end. Of the damages, a cut leaves
no end record (`NoEnd`), something in front leaves no local header at the start, and with a
cell lost the directory does not fit in front of the end record any more
(`LossIsNoticed`). What is left is junk in place of cells, or behind the end (`HasJunk`): a
zip that is taken in spite of it has all its headers and every body with its check sum, so the
junk stands where nothing is read (`JunkIsNoticed`).
A zip that arrives whole passes every check (`WholeZipsAreRead`). What order the entries are in
does not matter, since `IsTreeOf` speaks of the tree by what it holds; that `InOrder` lists
every path once is `InOrderEnumerates`, from the order of paths being strict.

**Import.** First the answer. `AnswerIsComplete` says what the tree of an authority holds,
`AnswersAreSmall` that it is within the limits, so that a delivery is refused or holds exactly
that tree (`DeliveriesAreAnswers`); `IssuersKeepTheirOrder` that listing the paths of
the issuers named `iss-*` gives them back in the order of the response, with none of the stray
files among them; `AnswersAreTakenAsSent` that ReadCariResponse then answers the response
itself without its strays (`Signed`), wherever the certificate was put. So `TakenInv`: while an
import writes, the response is one for this hub, the files in front are the response's
(`WrittenSoFar`), and no response was wrongly refused. `ResponseIsTakenAsSent` follows.

`ImportInv` adds what comes after: all three files are the response's, a
process that starts finds an issuer among them and configures the bundle, and every
bundle and every context it makes is made from them (`Imported`), until an activation
replaces one. Renames may fail here: a key swap that failed leaves a hub whose listener
does not come up.

**Reassembly.** `AssemblyInv`: the overflow flag is set exactly when the message
sent so far is over the ceiling, and without it the buffer is that message. The
mapping is then the identity on the queue, one abstract step for each concrete one.

**Path.** `PathSpec` implies the specifications of both its parts, step by step
(`PathStepsAssemble`, `PathStepsRoute`), so that what is proved of each holds of
the two together. That no frame is dropped between them needs an invariant of both:
what waits was assembled, so it is within the ceiling, and the ceiling is within
the stack's buffer. That leaves the other check of the router, of the connection strings,
which nothing in the code keeps within bounds: the property names it as an exception.

**Router.** That neither side is passed over twice is an invariant of the flag
`pollIpFirst` and the history of what was passed over. For the copies, the frame's
octets are worked out once (the length and the position of every field, and what
IsStackChosenBroadcast reads at each), for any addresses and payload.

**Rate limit.** `RateInv` is a potential argument: what an address was granted in
the window plus what its bucket would hold now never exceeds its allowance. The
two lemmas it needs are that a take costs a whole token (`TakeCosts`) and that a
bucket idle for a second is full (`IdleIsFull`), which is why forgetting it loses
nothing.

`FewAddressesNeverHitTotal` compares the listener's bucket with a *sum* over the
addresses. `Debts` is that sum, as the size of a set with one element for each token
part an address has taken and not got back; `FewInv` says that the listener's bucket
with the debts is never less than full. The lemmas (`Pile...`) are what happens to such
a size when one column grows and when all shrink with time: the listener's refill is
at least as fast as all the debts of few addresses.

**Admission.** Two parts. First what `BvlcPayloadOffset` computes: `OptionListIsSkipped`,
by induction from the last option of a list to its first, says that the walk which begins
where a list of options does ends where the list does, whatever octets the options
hold and whatever follows; with `RequestLayout` this gives the identity in a whole
request, and nothing from one that is cut off (`AuditedIdentity`). Then `AdmissionInv`:
who has sent a request that the stack can accept is recorded before the stack
reads it (`RequestsAreRecorded`), since both happen in the order of the receive queue,
and accepted peers outside the hub's table are being closed (`AcceptedAreInTheHub`),
through the send queue, the disconnects and the drain of the status events, in the
order of the main loop.

**Command line.** `WalkSeesOptions`: if the walk of ValidateCommandLine reaches the end,
then every token that looks like an option is a place of the walk, since it
takes a second token only where that one does not look like an option. By induction
from the end of the command line. So the searches, which look at every token, find
the same places; the rest is what each Parse function does with none and with one.

**Start-up.** `KeyIsNeverReplaced` alone says nothing about where a start stands when
it opens the key file. `RequestInv` adds what the checks of EnsureHubRequest have
found and nothing has changed since (`NothingToLose`), that all files are in one
folder and a running hub uses it (`FilesInOneFolder`, `UsesTheFolder` - this is what
`ResolveHubCertPaths` gives when `--deviceID` changes), that a request on disk is for a key
on disk (`Matched`, which a stop inside GENERATE_CSR_FILE breaks), and that a
protected key file is complete and the password kept unlocks it (`PasswordUnlocks`).

**Clock.** `UtcFollowsSync` is inductive with `ClockTypeOK`: both synchronizations go
through the same zone back and forth, and nothing else moves `clockOffset`.

**Log file.** The lines are numbers, and everything that holds some of them is a
run `Lines(a, b)`; the lemmas say how runs are joined and split. `LogInv`: the
console is the run up to `Shown`, the log the run up to `Saved`, and the copier's
buffer and the pipe go on where the console ends (`OnItsWay`; while the copier is
saving, its buffer is the end of the console instead). `Threads` ties the places of
the two threads together: lines go into the pipe only while the copier runs, and
directly to the console again only after the copier has ended, which it does on an
empty pipe that no write end keeps open. After a kill only that the console is in order and the log
behind it by no more than the buffer is left.

**Connector.** `ConnectorInv`. That a new dial leaves no event of the old one
behind does not follow from `Connect` alone, which does not look at the queue of
status events. It holds because the queue is drained between `Service` and the
next `Tick`, so that an event which waits while the stack is in `Tick` comes from
a dial of this `Tick` (`WaitingEventsAreDialed`), and a URI is dialed once in a
`Tick`; the last is how the model's stack calls `Connect` (`dialed`). The replaced
socket is detached before the new one is stored, which is what `WsiIsLive` needs.

**Listener.** Two invariants, of what does not depend on the peers and of the
peers. `Listening`: what the transport wants is what the stack asked for, and a
destruction in progress (`job`) is inside a `Tick` and ends where the stack asked.
`PeersInv` is a condition on each peer (`PeerOK`) and the fit of the tables:
connection strings are made of a number below `m_nextClientId` and their index is
the inverse of the peers' `conn`, so a socket used again gets a new string. `PeerOK`
numbers the frames of a peer: what was written is 1, 2, 3, ... and the queue goes on
there (`InOrder`), until a full queue or a failed write ends the connection; a
socket that is closing normally has an empty queue. One lemma (`ChangedPeer`) shows
that a step which changes one peer has to keep only that peer's condition.

That closes are reported once is `ReportInv`: the strings given out are those of
live peers, those of events that wait, and those the stack was told of, no string in
two of these sets and none in two events. A close moves one string on; the destruction of
a listener moves all of them, in whatever order libwebsockets calls back
(`DestroyedAreQueued`). The property itself compares numbers of events and strings, which
follows because positions and strings correspond one to one (`OneForEach`).

**Recursion.** Six functions of the models are recursive over octets, tokens or entries
(`OptionTails`, `PastOptions`, `Walk`, `Written`, `Directory`, `TotalSize`). They are written
as recursive functions, whose existence is itself a lemma (`ForwardRecursion`,
`ListRecursion`, `WalkRecursion`, `Recursion`), and what they compute is shown by induction on
the naturals for a *set* of them (`EveryNatural`, `AllNaturals`, from the well-foundedness of
`<`), since the library's induction theorems take an operator.

TLC only: liveness (`StaysReachable`, `RequestedCloseCompletes`, `ListenerComesBack`,
`DialsAreAnswered`, `StopReturns`, `RevokedDevicesAreDropped`), since TLAPS has no
rule for fairness of actions. Every other property of a passing run is one of the theorems.

## 5. What is not modelled

| Part | Why |
|---|---|
| `Validate`, `ListCsrs`, `WriteToDir`, `ReadFromDir` of `cari.cpp` | the program never calls them; `cari.cpp` serves other examples of the series too |
| the expiry date in the choice of a certificate (`cert_tool.cpp`) | no clock in `Commissioning` |
| writes that fail on a full disk (`WriteFile`) | the code does not look at them, so nothing can be promised |
| registration of the stack's objects, the other property getters | a list of calls, constants or one variable answered to the stack |
| wording of log lines | text |
| most of `common/` | vendored in every example of the series: the hub uses its console, ParseDeviceIdArg (`CommandLine`) and the UDP socket (`ScTransportRouter`, `RouterSending`), and not its own UDP bindings, simulated values and option parsers, which are about half of the lines that no module maps |
| URI parsing, TLS options of the contexts, websocket headers | handed to libwebsockets and OpenSSL as they are |
| the stack, libwebsockets, OpenSSL | external: environment of the models |
| tests, tools, certificates | read as documentation |

## 6. Disagreements between the code and what is said of it

Two have runs of their own that TLC must find violated:

* `sc_connector_reload` (`RequestedCloseCompletes`): a reload while a connection
  is being dialed requests a close that nobody asks a WRITEABLE for again when
  the dial succeeds (`ScTransport.cpp:1721` asks only when frames wait), so it
  stays up under the old certificates; the comment at `ScTransport.cpp:998-999`
  says it is closed.
* `revocation_at_start` (`ListReplacedAtStartIsUsed`): the stack may listen inside
  `AddBACnetSCAcceptUri` (`main.cpp:1184-1185`, 2321), and the context loads the
  revocation list; the first fingerprint is taken at `main.cpp:2510`. A list
  replaced in between is taken for the one in use: until the next context is made
  (the file changes again, certificates are activated, the process restarts) a
  device it revokes connects and stays, although "a new, changed or removed
  certificate revocation list" is to "reload TLS so it is used"
  (`main.cpp:2554-2555`). `RevokedDevicesAreDropped` has this case as its one
  exception, and holds in every other.

The others were found the same way. The properties named below are at the end
of the `MC` modules (or are those of the run with other constants); naming one in
a `.cfg` with the constants given shows the trace.

| Property | Constants | What happens | What is said |
|---|---|---|---|
| `ListenerTrustsBothSlots` in `MCHubCredentials` | `hub_credentials` with `MayFail = {}` | a process that found no issuer at start-up is configured with `iss-1.pem` for its whole life (`main.cpp:2142`); when both slots are then written over BACnet, the bundle is written but never configured, so slot 2 is not trusted until a restart | `main.cpp:2136`: "TLS trusts every issuer in both slots" |
| `CsrHasItsKey` in `MCHubCredentials` | `hub_credentials` with `MayFail = {}` | GENERATE_CSR_FILE renames the new pending key and then the request; a stop between leaves the request of an overwritten key | `cert_store.cpp:632`: "a CSR on disk without its key could never be used" |
| `CertificateHasKey` | `hub_credentials` with `MayFail = {"rename"}` | the rename of the pending key fails after the certificate was replaced and the stage dropped; the next GENERATE_CSR_FILE overwrites the pending key, and the certificate's key is gone | `cert_store.h:30-31`: "the hub never runs with a key that has no certificate" |
| `EveryIssuerIsInstalled` in `MCCommissioning` | `commissioning` | ReadCariResponse passes over every file in `cert1/issuer/` whose name does not begin with `iss-` (`cert_tool.cpp:364`): a second issuer under another name is lost without a word, a signer under another name has the whole response refused (`cert_tool.cpp:373-386`) | the request's notes, which is what the authority reads, ask for "your issuer certificate(s) in cert1/issuer/" under no particular name (`cert_tool.cpp:275-276`) |
| `StalledPeerIsClosed` in `MCScListener` | `sc_listener_live`, with `FairSpec` | a peer that stopped reading for good never gets the WRITEABLE in which its 1008 close is made | `sc_transport/README.md:51-52`: "a peer that stops reading is closed with 1008" |
| `NoFrameAfterTheClose` in `MCScListener` | `sc_listener_live` | a close is told right after `Service`, the peer's first frame waits for the next `Tick`: the stack hears of the close of a peer it does not know and then of the peer | `sc_transport/README.md:39`: "the stack learns of a peer from its first frame" |
| `OnlyEstablishedIsKnown` in `MCScConnector` | `sc_connector` | `Connect` stores the socket while the dial runs, so `Send` queues for a connection that is not up | `ScTransport.h:311`: "null before ESTABLISHED" |
| `KeylessHubGetsKey` in `MCStartUp` | `start_up` | a hub without a key starts up without getting one when the request is there and its key is not, or when a stop left an empty request or an empty zip, which count as made | `main.cpp:2127`: "A hub with no key at all also gets a new key and CSR" |
| `EveryValueIsChecked` in `MCStartUp` | `start_up` | a bad `--deviceID` only warns; an empty value of the options that take a number is as if the option were not there | `main.cpp:1957-1958`: "a bad one stops the start" |
| `ListOnDiskIsInUse` in `MCStartUp` | `start_up` | a list that comes and goes between two looks, and was loaded in between, stays in use | `main.cpp:370-371`: "reloads TLS when it appears, changes or disappears" |
| `RefusalIsExplained` in `MCRateLimit` | `rate_limit` | an accepted peer leaves between a refusal for the limit and the check in the same turn: the count is below the limit again, and no message is shown | `main.cpp:2538`: "this says why, at most once a minute" |
| `MessageIsAboutTheLimit` in `MCRateLimit` | `rate_limit` | the stack refuses for another reason while the hub is full, or a closing peer still counts: the message names the limit | the same |
| `ServiceKeepsRunning` in `MCScTransportRouter` | `sc_router` | while datagrams keep coming the receive callback never answers 0, `Tick` does not return and `Service` does not run | `ScTransportRouter.cpp:130`: "so a busy IP link cannot starve SC" |
| `StopReturns` | `start_up` with `DupFails = TRUE` | `Start` goes on when the original stderr could not be duplicated, `Stop` leaves that write end open and joins for ever | `log_file.cpp:147`: "so the copy thread reads end-of-file and finishes" |

One is stated as an exception of a property: the router drops a frame it has
already taken off the queue, and answers 0, when the frame's connection string is
longer than the stack's buffer for it (`ScTransportRouter.cpp:217-223`). For a hub
connection that string is the URI given by `--sc-hub-uri` or `--sc-failover-uri`, whose length nothing in this code
bounds, so with a long one every frame from that hub is lost with a line on stderr, and each
loss ends the stack's drain for this `Tick`. `TakenIsHandedOver` without its last disjunct
is violated in `sc_router`.

One more has no property: `Write` takes the staged copy of a file *before* it
checks position and size (`cert_store.cpp:379`). `RejectWrite` models it. A
refused write to issuer slot 2 thus stages slot 1's contents for slot 2, and the
next activation gives slot 2 a file of its own, although `README.md:251` says it
has one only "once written".

Smaller ones seen on the way, all in `CommandLine`: an option given twice counts
once and silently, the first time it stands there; and a *value* `-h`, as in
`--device-name -h`, passes the walk and then prints the help.

## 7. Plan

1. *(done)* Certificate store, its identity, the hub's credentials; proofs of the
   store.
2. *(done)* Listener, connector, reassembly; proof of the reassembly.
3. *(done)* Rate limit and its proofs.
4. *(done)* Log file; receiving half of the router.
5. *(done)* Commissioning: request, response, zip, import; start-up with the first
   key, and its proofs.
6. *(done)* The sending half of the router; reassembly and router as one path;
   admission and the limit message; command line; clock, and its proof; revocation.
7. *(done)* Proofs of the log file, of the connector and of the listener.
8. *(done)* Proofs of the hub's credentials, of the router and the path, of few
   addresses, of admission, of the command line, and of `EveryPeerIsReportedOnce`.
9. *(done)* Proofs of the zip, of what is taken from an answer, and with them of
   `ImportReplacesTrust` without a hypothesis about zips.
10. Left: the composition of router, listener and loop, which shows frames and status
    events of one connection side by side; a listener that shares its context with
    `Revocation`.

## 8. Running

```
tlc -workers 2 -config HubCredentials.cfg MCHubCredentials
tlapm HubCredentialsProofs.tla
```

The module of each `.cfg` is listed in `PROJECT.json`. The longest runs are
`hub_credentials`, `hub_failures` and `hub_reachable`, one and a half to two minutes
each with two workers; the proofs take about a quarter of an hour together.
