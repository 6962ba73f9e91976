----------------------------- MODULE HubRequest -----------------------------
(***************************************************************************)
(* What main does with the hub's own key and request at every start: it    *)
(* looks for the hub's folder in the CARI tree (cert_layout.cpp), asks for *)
(* the password of a protected key (KeyPassword.cpp), finishes a key swap, *)
(* and makes what is missing of key, certificate signing request and       *)
(* request zip (EnsureHubRequest, cert_tool.cpp), in place and one file    *)
(* after the other.  Starts follow each other with any --deviceID; the     *)
(* process may stop between any two file operations, and the operator may  *)
(* tidy up while it is down.                                               *)
(*                                                                         *)
(* A request is the key it was made for.  Certificates are in CertStore    *)
(* and Commissioning.                                                      *)
(***************************************************************************)
EXTENDS Naturals

CONSTANTS
  Instances,     \* device instances: of folders, and what --deviceID may say
  Keys,          \* the keys that can be generated, each once
  NoFile,        \* no such file; also: no password
  Empty,         \* a file that was created and not written
  kMaxAttempts

ASSUME RequestAssumption ==
  /\ NoFile \notin Keys /\ Empty \notin Keys /\ NoFile # Empty
  /\ kMaxAttempts \in Nat \ {0} /\ Instances # {}

VARIABLES
  ports,      \* the instances with a cert1/device-<i>/port-2/hub/
  keyFile,    \* key-hub.pem in the folder of each instance
  csrFile,    \* csr-hub.pem in it
  locked,     \* the instances whose key-hub.pem is protected by a password
  pendingKey, \* key-hub-pending.pem
  zip,        \* hub-cari-request.zip
  startUp,    \* how far this start has come
  port,       \* the folder in use: g_certPaths
  password,   \* g_password: the key it unlocks
  attempts,   \* passwords typed at this start
  newKey,     \* the key this start has made, in memory
  generated,  \* history: the keys made so far
  cutShort    \* history: a GENERATE_CSR_FILE was cut off between key and request

files == <<ports, keyFile, csrFile, locked, pendingKey, zip>>
session == <<port, password, attempts, newKey>>
run == <<startUp, session>>
history == <<generated, cutShort>>
requestVars == <<files, run, history>>

-----------------------------------------------------------------------------
(***************************************************************************)
(* Where the files are                                                     *)
(***************************************************************************)

\* ResolveHubCertPaths: the folder of this instance, or of any other the tree has.
FoldersFor(instance) ==
  IF ports = {} \/ instance \in ports THEN {instance} ELSE ports

StartHub(instance) ==
  /\ startUp = "down"
  /\ port' \in FoldersFor(instance)
  /\ startUp' = "password"
  /\ attempts' = 0
  /\ UNCHANGED <<files, password, newKey, history>>

-----------------------------------------------------------------------------
(***************************************************************************)
(* KeyPassword::Prepare                                                    *)
(***************************************************************************)

IsEncrypted == port \in locked

\* A mutant: what was typed is taken without trying it.
TakenAsTyped(k) == TRUE

Unlocks(k) == k = keyFile[port]

\* A password is typed, the one of key k or of nothing; each start asks three times.
TypePassword(k) ==
  /\ startUp = "password" /\ IsEncrypted
  /\ attempts < kMaxAttempts
  /\ attempts' = attempts + 1
  /\ IF Unlocks(k)
     THEN password' = k /\ startUp' = "reconcile"
     ELSE startUp' = startUp /\ UNCHANGED password
  /\ UNCHANGED <<files, port, newKey, history>>

\* The key needs none, or the input is closed, or the attempts are used up: the
\* start goes on without a password.
NoPassword ==
  /\ startUp = "password"
  /\ startUp' = "reconcile"
  /\ UNCHANGED <<files, session, history>>

-----------------------------------------------------------------------------
(***************************************************************************)
(* CertStore's part, as far as keys go                                     *)
(***************************************************************************)

\* ReconcilePendingKey: when the certificate is for the pending key, it takes its place.
Reconcile ==
  /\ startUp = "reconcile"
  /\ startUp' = "request"
  /\ \/ UNCHANGED files
     \/ /\ pendingKey # NoFile
        /\ keyFile' = [keyFile EXCEPT ![port] = pendingKey]
        /\ locked' = locked \ {port}
        /\ pendingKey' = NoFile
        /\ UNCHANGED <<ports, csrFile, zip>>
  /\ UNCHANGED <<session, history>>

\* GENERATE_CSR_FILE while the hub runs: first the key, then its request.
GenerateKey(k) ==
  /\ startUp = "up" /\ port \in ports
  /\ k \notin generated
  /\ generated' = generated \cup {k}
  /\ pendingKey' = k
  /\ startUp' = "generate"
  /\ UNCHANGED <<ports, keyFile, csrFile, locked, zip, session, cutShort>>

GenerateCsr ==
  /\ startUp = "generate"
  /\ csrFile' = [csrFile EXCEPT ![port] = pendingKey]
  /\ startUp' = "up"
  /\ UNCHANGED <<ports, keyFile, locked, pendingKey, zip, session, history>>

-----------------------------------------------------------------------------
(***************************************************************************)
(* EnsureHubRequest                                                        *)
(***************************************************************************)

Exists(file) == file # NoFile

\* A mutant: only the request is looked for.
NoRequestYet == ~Exists(csrFile[port])

\* A new key is made only when the hub has none at all.
NeedsNewKey == ~Exists(csrFile[port]) /\ ~Exists(keyFile[port]) /\ ~Exists(pendingKey)

\* What is next: a new key, the zip of the request that is there, or nothing.
EnsureHubRequest ==
  /\ startUp = "request"
  /\ startUp' = IF Exists(zip) THEN "up"
                ELSE IF NeedsNewKey THEN "folder"
                ELSE IF csrFile[port] \in Keys THEN "zip" ELSE "up"
  /\ UNCHANGED <<files, session, history>>

\* Key and request are made in memory, and the folder for them.
MakeKey(k) ==
  /\ startUp = "folder"
  /\ k \notin generated
  /\ generated' = generated \cup {k}
  /\ newKey' = k
  /\ ports' = ports \cup {port}
  /\ startUp' = "key"
  /\ UNCHANGED <<keyFile, csrFile, locked, pendingKey, zip, port, password, attempts, cutShort>>

\* WriteFile creates the file or empties it, and then writes it.
OpenKey ==
  /\ startUp = "key" /\ keyFile[port] # Empty
  /\ keyFile' = [keyFile EXCEPT ![port] = Empty]
  /\ locked' = locked \ {port}
  /\ UNCHANGED <<ports, csrFile, pendingKey, zip, run, history>>

WriteKey ==
  /\ startUp = "key" /\ keyFile[port] = Empty
  /\ keyFile' = [keyFile EXCEPT ![port] = newKey]
  /\ startUp' = "csr"
  /\ UNCHANGED <<ports, csrFile, locked, pendingKey, zip, session, history>>

OpenCsr ==
  /\ startUp = "csr" /\ csrFile[port] # Empty
  /\ csrFile' = [csrFile EXCEPT ![port] = Empty]
  /\ UNCHANGED <<ports, keyFile, locked, pendingKey, zip, run, history>>

WriteCsr ==
  /\ startUp = "csr" /\ csrFile[port] = Empty
  /\ csrFile' = [csrFile EXCEPT ![port] = newKey]
  /\ startUp' = "zip"
  /\ UNCHANGED <<ports, keyFile, locked, pendingKey, zip, session, history>>

OpenZip ==
  /\ startUp = "zip" /\ zip # Empty
  /\ zip' = Empty
  /\ UNCHANGED <<ports, keyFile, csrFile, locked, pendingKey, run, history>>

\* HubRequestZip: the request on disk, with the folder it belongs to.
WriteZip ==
  /\ startUp = "zip" /\ zip = Empty
  /\ zip' = csrFile[port]
  /\ startUp' = "up"
  /\ UNCHANGED <<ports, keyFile, csrFile, locked, pendingKey, session, history>>

\* A mutant: the key cannot be created, and its request is made all the same.
GoesOnWithoutKey == IF startUp = "key" THEN "csr" ELSE "up"

AfterFailure == "up"

\* A file that cannot be created ends it; the hub starts without.
CreateFails ==
  /\ \/ startUp = "key" /\ ~Exists(keyFile[port])
     \/ startUp = "csr" /\ ~Exists(csrFile[port])
     \/ startUp = "zip" /\ ~Exists(zip)
  /\ startUp' = AfterFailure
  /\ UNCHANGED <<files, session, history>>

-----------------------------------------------------------------------------
(***************************************************************************)
(* The process stops; the operator                                         *)
(***************************************************************************)

\* At any point: killed, crashed, or at its end.
StopHub ==
  /\ startUp # "down"
  /\ startUp' = "down"
  /\ password' = NoFile /\ newKey' = NoFile
  /\ cutShort' = (cutShort \/ startUp = "generate")
  /\ UNCHANGED <<files, port, attempts, generated>>

\* "delete it to make a new one" (main.cpp:1872)
DeleteZip ==
  /\ Exists(zip)
  /\ zip' = NoFile
  /\ UNCHANGED <<ports, keyFile, csrFile, locked, pendingKey, run, history>>

\* A key without a request: "Move the key away ... and restart" (cert_tool.cpp:433).
MoveKeyAway ==
  /\ startUp = "down"
  /\ port \in ports /\ ~Exists(csrFile[port])
  /\ keyFile' = [keyFile EXCEPT ![port] = NoFile]
  /\ locked' = locked \ {port}
  /\ pendingKey' = IF Exists(keyFile[port]) THEN pendingKey ELSE NoFile
  /\ UNCHANGED <<ports, csrFile, zip, run, history>>

ProtectKey(i) ==
  /\ startUp = "down"
  /\ keyFile[i] \in Keys
  /\ locked' = locked \cup {i}
  /\ UNCHANGED <<ports, keyFile, csrFile, pendingKey, zip, run, history>>

Moved(f, i, j) == [f EXCEPT ![i] = NoFile, ![j] = f[i]]

\* "rename the folder to device-<n> to match" (cert_layout.cpp:109-110)
RenameFolder(i, j) ==
  /\ startUp = "down"
  /\ i \in ports /\ j \notin ports
  /\ ports' = (ports \ {i}) \cup {j}
  /\ keyFile' = Moved(keyFile, i, j)
  /\ csrFile' = Moved(csrFile, i, j)
  /\ locked' = IF i \in locked THEN (locked \ {i}) \cup {j} ELSE locked \ {j}
  /\ UNCHANGED <<pendingKey, zip, run, history>>

Operator ==
  \/ DeleteZip
  \/ MoveKeyAway
  \/ \E i \in Instances : ProtectKey(i)
  \/ \E i, j \in Instances : RenameFolder(i, j)

-----------------------------------------------------------------------------
\* An empty certificate folder.
RequestInit ==
  /\ ports = {}
  /\ keyFile = [i \in Instances |-> NoFile]
  /\ csrFile = [i \in Instances |-> NoFile]
  /\ locked = {} /\ pendingKey = NoFile /\ zip = NoFile
  /\ startUp = "down" /\ password = NoFile /\ attempts = 0 /\ newKey = NoFile
  /\ port = CHOOSE i \in Instances : TRUE
  /\ generated = {} /\ cutShort = FALSE

RequestNext ==
  \/ \E i \in Instances : StartHub(i)
  \/ \E k \in Keys \cup {NoFile} : TypePassword(k)
  \/ NoPassword
  \/ Reconcile
  \/ \E k \in Keys : GenerateKey(k) \/ MakeKey(k)
  \/ GenerateCsr
  \/ EnsureHubRequest
  \/ OpenKey \/ WriteKey \/ OpenCsr \/ WriteCsr \/ OpenZip \/ WriteZip
  \/ CreateFails
  \/ StopHub
  \/ Operator

RequestSpec == RequestInit /\ [][RequestNext]_requestVars

-----------------------------------------------------------------------------
(***************************************************************************)
(* Properties                                                              *)
(***************************************************************************)

\* The start-up never takes a key away: a complete key file
\* changes only by the key swap or by the operator, whatever
\* an earlier start left behind when it stopped ("THE PRIVATE KEY IS NEVER
\* REPLACED", cert_tool.cpp:422).
KeyIsNeverReplaced ==
  [][\A i \in Instances :
       keyFile[i] \in Keys /\ keyFile'[i] # keyFile[i] => startUp \in {"reconcile", "down"}]_requestVars

\* A request zip is made only for a key the hub has, in its folder or pending -
\* wherever earlier starts stopped, unless that was inside GENERATE_CSR_FILE.
RequestHasItsKey ==
  [][zip' \in Keys /\ zip' # zip =>
       cutShort \/ zip' = keyFile[port] \/ zip' = pendingKey]_requestVars

\* The password the hub keeps unlocks the key it loads: asking before the key swap
\* (main.cpp:2096-2119) does no harm.
PasswordFitsTheKey ==
  startUp \in {"up", "generate"} /\ password # NoFile /\ IsEncrypted =>
    password = keyFile[port]

=============================================================================
