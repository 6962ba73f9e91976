----------------------------- MODULE Revocation -----------------------------
(***************************************************************************)
(* The certificate revocation list, issuer-crl.pem: the operator copies it *)
(* into place and removes it while the hub runs; main's loop looks at the  *)
(* file's size and time every few seconds and has the listener rebuilt,    *)
(* and a new TLS context loads what the file holds then (ScTransport).     *)
(* Contexts are made at other times too: after new certificates, at a      *)
(* retry, and when the stack first listens, which can be while main still  *)
(* starts up and has not yet looked at the file.                           *)
(*                                                                         *)
(* A list is whom it revokes.  Connections of the connector are left out:  *)
(* what a reload does to them is in ScConnector.                           *)
(***************************************************************************)
EXTENDS Naturals

CONSTANTS
  Devices,
  Lists,          \* what the file can hold, besides
  Broken,         \* no list at all: it is being written, or not PEM
  Absent,         \* no file
  Down,           \* the listener is not up
  Revokes,        \* Revokes[l]: the devices list l revokes
  Size,           \* Size[l]: the octets of list l, or of Broken
  CheckInterval,  \* seconds between two looks at the file
  MaxSecond       \* bound: the seconds in which the file is written

ASSUME RevocationAssumption ==
  /\ Broken \notin Lists /\ Absent \notin Lists \cup {Broken} /\ Down \notin Lists \cup {Broken, Absent}
  /\ Revokes \in [Lists -> SUBSET Devices]
  /\ Size \in [Lists \cup {Broken} -> Nat]
  /\ \A l \in Lists : Size[l] # Size[Broken]
  /\ CheckInterval \in Nat \ {0} /\ MaxSecond \in Nat

VARIABLES
  crl,         \* the file
  written,     \* its time of modification
  second,      \* the clock files are stamped with
  running,     \* main is in its loop
  unchecked,   \* seconds since lastCrlCheck
  fingerprint, \* crlFingerprint
  reload,      \* g_scReloadCredentialsRequested
  loaded,      \* what the listener's context checks devices against, or Down
  peers,       \* the devices connected to it
  missed       \* history: the file was replaced between the load and the first look

crlFile == <<crl, written>>
looks == <<running, unchecked, fingerprint>>
revocationVars == <<crlFile, second, looks, reload, loaded, peers, missed>>

-----------------------------------------------------------------------------
\* A mutant: a list of the same size is not seen to be another.
SizeOfFile == IF crl = Absent THEN <<>> ELSE <<Size[crl]>>

FileFingerprint == IF crl = Absent THEN <<>> ELSE <<Size[crl], written>>

\* With X509_V_FLAG_CRL_CHECK or, without a file, without.
Accepts(list, d) == list = Absent \/ (list \in Lists /\ d \notin Revokes[list])

\* LoadRevocationList: a file that holds no list fails the context.  The certificates
\* may fail it as well.
NewContext ==
  /\ missed' = FALSE
  /\ \/ crl # Broken /\ loaded' = crl
     \/ loaded' = Down

RevocationInit ==
  /\ crl \in Lists \cup {Broken, Absent}
  /\ written = 0 /\ second = 0
  /\ running = FALSE /\ unchecked = 0 /\ fingerprint = <<>>
  /\ reload = FALSE
  /\ loaded = Down
  /\ peers = {}
  /\ missed = FALSE

-----------------------------------------------------------------------------
(***************************************************************************)
(* The hub                                                                 *)
(***************************************************************************)

\* The stack starts the hub function, within AddBACnetSCAcceptUri or at a Tick, or
\* Service retries.
StartListening ==
  /\ loaded = Down
  /\ NewContext
  /\ UNCHANGED <<crlFile, second, looks, reload, peers>>

\* The first look at the file.
EnterLoop ==
  /\ ~running
  /\ running' = TRUE
  /\ fingerprint' = FileFingerprint
  /\ missed' = (loaded \notin {Down, crl})
  /\ UNCHANGED <<crlFile, second, unchecked, reload, loaded, peers>>

\* Only the loop calls Service.
Connect(d) ==
  /\ running
  /\ loaded # Down
  /\ Accepts(loaded, d)
  /\ peers' = peers \cup {d}
  /\ UNCHANGED <<crlFile, second, looks, reload, loaded, missed>>

Leave(d) ==
  /\ d \in peers
  /\ peers' = peers \ {d}
  /\ UNCHANGED <<crlFile, second, looks, reload, loaded, missed>>

\* ReinitializeDevice with new certificates.
ActivateCertificates ==
  /\ running /\ ~reload
  /\ reload' = TRUE
  /\ UNCHANGED <<crlFile, second, looks, loaded, peers, missed>>

CheckFile ==
  /\ running /\ unchecked >= CheckInterval
  /\ unchecked' = 0
  /\ fingerprint' = FileFingerprint
  /\ reload' = (reload \/ FileFingerprint # fingerprint)
  /\ UNCHANGED <<crlFile, second, running, loaded, peers, missed>>

\* Every device is dropped with the context.
ReloadCrl ==
  /\ reload
  /\ reload' = FALSE
  /\ peers' = {}
  /\ NewContext
  /\ UNCHANGED <<crlFile, second, looks>>

\* The process ends, and another one starts up.
RestartProcess ==
  /\ running
  /\ running' = FALSE /\ unchecked' = 0 /\ fingerprint' = <<>>
  /\ reload' = FALSE
  /\ loaded' = Down
  /\ peers' = {}
  /\ missed' = FALSE
  /\ UNCHANGED <<crlFile, second>>

-----------------------------------------------------------------------------
(***************************************************************************)
(* The operator, and the time                                              *)
(***************************************************************************)

\* A copy empties the file and then fills it, not twice in the same second.
BeginCopy ==
  /\ second > written
  /\ crl' = Broken
  /\ written' = second
  /\ UNCHANGED <<second, looks, reload, loaded, peers, missed>>

FinishCopy(l) ==
  /\ crl = Broken
  /\ crl' = l
  /\ written' = second
  /\ UNCHANGED <<second, looks, reload, loaded, peers, missed>>

RemoveFile ==
  /\ crl # Absent
  /\ crl' = Absent
  /\ UNCHANGED <<written, second, looks, reload, loaded, peers, missed>>

TimePasses ==
  /\ unchecked' = IF running /\ unchecked < CheckInterval THEN unchecked + 1 ELSE unchecked
  /\ second' = IF second < MaxSecond THEN second + 1 ELSE second
  /\ UNCHANGED <<crlFile, running, fingerprint, reload, loaded, peers, missed>>

RevocationNext ==
  \/ StartListening \/ EnterLoop \/ ActivateCertificates \/ CheckFile \/ ReloadCrl \/ RestartProcess
  \/ \E d \in Devices : Connect(d) \/ Leave(d)
  \/ BeginCopy \/ RemoveFile \/ TimePasses
  \/ \E l \in Lists : FinishCopy(l)

\* main reaches its loop, the loop keeps turning and time passes; devices and operators
\* owe nothing.
RevocationFairness ==
  /\ WF_revocationVars(EnterLoop)
  /\ WF_revocationVars(TimePasses)
  /\ WF_revocationVars(CheckFile)
  /\ WF_revocationVars(ReloadCrl)

RevocationSpec == RevocationInit /\ [][RevocationNext]_revocationVars /\ RevocationFairness

-----------------------------------------------------------------------------
(***************************************************************************)
(* Properties                                                              *)
(***************************************************************************)

\* Once the file is left alone, only devices the list in it accepts stay connected -
\* none when it holds no list - whatever made the contexts of before and however the
\* copy, the looks at the file and the reloads fell: "how an open connection from a
\* revoked device is closed" (main.cpp:2557).  One case is out: the stack listened
\* before main took its first look (main.cpp:1184-1185, 2510) and the file was replaced
\* in between; main then knows the new list and nothing has loaded it, until the next
\* context.
RevokedDevicesAreDropped == <>[](missed \/ \A d \in peers : Accepts(crl, d))

\* "A new, changed or removed certificate revocation list: reload TLS so it is used"
\* (main.cpp:2554-2555), the list that is replaced during the start included.
ListReplacedAtStartIsUsed == <>[](\A d \in peers : Accepts(crl, d))

=============================================================================
