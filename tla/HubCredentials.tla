--------------------------- MODULE HubCredentials ---------------------------
(***************************************************************************)
(* main.cpp around CertStore: start-up, ReinitializeDevice with the        *)
(* trusted-issuer bundle, the deferred TLS reload of the main loop, and    *)
(* the credentials the listener (ScTransport) has loaded.  The certificate *)
(* store is EXTENDed; each of its steps happens here too, with what        *)
(* main.cpp adds to it.                                                    *)
(***************************************************************************)
EXTENDS CertStore

CONSTANT Closed   \* the listener is not up

VARIABLES
  bundle,   \* trusted-issuers.pem: the certificates in it, {} when there is no file
  caPath,   \* the file ScTlsFiles.caCertPath names: "bundle" or "slot 1"
  refresh,  \* inside ReinitializeDevice: committed, the bundle not yet written
  reload,   \* g_scReloadCredentialsRequested
  tls       \* what the listener runs with: certificate, key and trusted issuers

hubVars == <<bundle, caPath, refresh, reload, tls>>
allVars == <<vars, hubVars>>

\* WriteTrustedIssuerBundle: every issuer that parses, from both slots.
TrustedIssuers == EffectiveIssuers \ {Garbage}

\* A mutant: only slot 1 goes into the bundle.
BundleOfSlotOne(ok) ==
  /\ ok => Effective(Issuer1) \in Certificate
  /\ ~ok => Effective(Issuer1) \notin Certificate \/ "bundle" \in MayFail
  /\ bundle' = IF ok THEN {Effective(Issuer1)} ELSE bundle

\* ok is the function's result; with no issuer, or on a write error, an existing
\* bundle stays.
WriteTrustedIssuerBundle(ok) ==
  /\ ok => TrustedIssuers # {}
  /\ ~ok => TrustedIssuers = {} \/ "bundle" \in MayFail
  /\ bundle' = IF ok THEN TrustedIssuers ELSE bundle

HubInit ==
  /\ Init
  /\ bundle = {}
  /\ caPath = "bundle"
  /\ refresh = FALSE
  /\ reload = FALSE
  /\ tls = Closed

\* Start-up (main.cpp:2117-2147): the key swap is finished, then the bundle is
\* written and caCertPath chosen, once for the life of the process.
StartUp ==
  /\ ReconcilePendingKey
  /\ \E ok \in BOOLEAN :
       /\ WriteTrustedIssuerBundle(ok)
       /\ caPath' = IF ok THEN "bundle" ELSE "slot 1"
  /\ UNCHANGED <<refresh, reload, tls>>

StopProcess ==
  /\ Crash
  /\ refresh' = FALSE
  /\ reload' = FALSE
  /\ tls' = Closed
  /\ UNCHANGED <<bundle, caPath>>

-----------------------------------------------------------------------------
(***************************************************************************)
(* The stack's callbacks: the store's own steps                            *)
(***************************************************************************)

StoreRequest ==
  /\ ~refresh
  /\ \/ \E f \in Slots : \/ \E c \in Uploads[f] \cup {Garbage} : Write(f, c)
                         \/ \E c \in {Empty, Garbage, Effective(f)} : Resize(f, c)
                         \/ RejectWrite(f)
     \/ DiscardStaged
     \/ ActivateRefused \/ CommitStaged \/ ReplaceWithTemp \/ ReplaceFails
     \/ \E k \in Keys : GenerateKeyAndCsr(k)
     \/ ReplaceCsr
  /\ UNCHANGED hubVars

\* CommitStaged returns; only a commit that succeeded goes on to the bundle.
Committed ==
  /\ CommitFinished
  /\ refresh' = ~promotes'
  /\ UNCHANGED <<bundle, caPath, reload, tls>>

\* A mutant: the activation does not ask for a reload.
RefreshWithoutReload ==
  /\ refresh
  /\ \E ok \in BOOLEAN : WriteTrustedIssuerBundle(ok)
  /\ refresh' = FALSE
  /\ UNCHANGED <<vars, caPath, reload, tls>>

\* The rest of ReinitializeDevice: a bundle that cannot be written is only logged.
RefreshTrust ==
  /\ refresh
  /\ \E ok \in BOOLEAN : WriteTrustedIssuerBundle(ok)
  /\ refresh' = FALSE
  /\ reload' = TRUE
  /\ UNCHANGED <<vars, caPath, tls>>

-----------------------------------------------------------------------------
(***************************************************************************)
(* The main loop, outside the stack's callbacks                            *)
(***************************************************************************)

InMainLoop == pc = "idle" /\ ~refresh

TrustFile == IF caPath = "bundle" THEN bundle ELSE {disk[Issuer1]} \cap Certificate

\* A mutant: a private key that is not the certificate's is not noticed.
FilesLoadWithoutPairCheck ==
  disk[Operational] \in Certificate /\ TrustFile # {}

\* StartListening gets past its file checks and lws_create_context loads them.
FilesLoad ==
  /\ disk[Operational] \in Certificate
  /\ disk[Operational].key = key
  /\ TrustFile # {}

LoadedCredentials ==
  [cert |-> disk[Operational], key |-> key, trust |-> TrustFile]

\* The stack starts the hub function, or Service() retries a listener that is down.
StartListening ==
  /\ InMainLoop
  /\ tls = Closed
  /\ FilesLoad
  /\ tls' = LoadedCredentials
  /\ UNCHANGED <<vars, bundle, caPath, refresh, reload>>

\* A new, changed or removed revocation list.
CrlChanged ==
  /\ InMainLoop
  /\ ~reload
  /\ reload' = TRUE
  /\ UNCHANGED <<vars, bundle, caPath, refresh, tls>>

\* The listener is destroyed and started again with the files of now.
ReloadCredentials ==
  /\ InMainLoop
  /\ reload
  /\ reload' = FALSE
  /\ tls' = IF FilesLoad THEN LoadedCredentials ELSE Closed
  /\ UNCHANGED <<vars, bundle, caPath, refresh>>

HubNext ==
  \/ StartUp \/ StopProcess
  \/ StoreRequest \/ Committed \/ RefreshTrust
  \/ StartListening \/ CrlChanged \/ ReloadCredentials

HubSpec == HubInit /\ [][HubNext]_allVars

(***************************************************************************)
(* The main loop runs for ever, so a callback that has begun ends, and a   *)
(* process that stops is started again.  Every turn of the loop ends with  *)
(* Service(), which retries a listener that is down, and the reload check, *)
(* however many requests Tick() handled before: strong fairness for those  *)
(* two.  Clients owe nothing.                                              *)
(***************************************************************************)
HubFairness ==
  /\ WF_allVars(StartUp)
  /\ WF_allVars(StoreRequest /\ pc # "idle")
  /\ WF_allVars(Committed)
  /\ WF_allVars(RefreshTrust)
  /\ SF_allVars(StartListening)
  /\ SF_allVars(ReloadCredentials)

FairHubSpec == HubSpec /\ HubFairness

-----------------------------------------------------------------------------
(***************************************************************************)
(* Properties                                                              *)
(***************************************************************************)

\* Types of main.cpp's globals and of the loaded credentials.
HubTypeOK ==
  /\ TypeOK
  /\ bundle \in SUBSET Certificate
  /\ caPath \in {"bundle", "slot 1"}
  /\ refresh \in BOOLEAN
  /\ reload \in BOOLEAN
  /\ tls = Closed \/ tls \in [cert : Certificate, key : Keys, trust : SUBSET Certificate]

EffectiveIssuersOnDisk ==
  {IF disk[f] = NoFile THEN disk[Issuer1] ELSE disk[f] : f \in IssuerInstances}
    \cap Certificate

Settled == tls # Closed /\ InMainLoop /\ ~reload

\* With no reload outstanding the listener presents the certificate File 1 holds
\* on disk, with its key: nothing is loaded half way through an activation and no
\* activation, crash or retry leaves an older certificate in use.
ListenerServesActivated ==
  Settled => tls.cert = disk[Operational] /\ tls.key = tls.cert.key

\* Whatever fails and however an activation was cut short, a listener that is up
\* presents a certificate that was checked, with the key it is for, and trusts
\* somebody: half of an activation never gets into use (LogCertificateDiagnostics
\* and lws_create_context refuse it).
ListenerIsCoherent ==
  tls # Closed =>
    /\ tls.cert.role = "hub" /\ tls.cert.key = tls.key /\ tls.key \in made
    /\ tls.trust # {}

\* The same for a process that found an issuer when it started.
BundleTrustsBothSlots ==
  Settled /\ caPath = "bundle" => tls.trust = EffectiveIssuersOnDisk

\* If the process stops crashing, a hub with a complete set of certificates gets
\* its listener up: no sequence of activations, discards, key requests and
\* reloads leaves files the listener cannot load.
StaysReachable ==
  <>[][~StopProcess]_allVars
    => ((intact /\ caPath = "bundle") ~> (tls # Closed \/ ~intact))

=============================================================================
