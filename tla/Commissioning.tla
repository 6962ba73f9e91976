---------------------------- MODULE Commissioning ----------------------------
(***************************************************************************)
(* cert_tool.cpp around HubCredentials: the request a Certificate          *)
(* Authority gets, and --import-cari, which installs its answer while the  *)
(* hub is down.  The answer is a zip (CariZip) that any tool may have made *)
(* and that may arrive damaged.  The import writes the store's files in    *)
(* place, one after the other, and may be cut off at any point.            *)
(*                                                                         *)
(* A response is the certificate in it, its issuer certificates in the     *)
(* order of the zip, as far as they have the names CARI gives them, and    *)
(* what else is with them.  The folder has a key and a request already:    *)
(* HubRequest has the start that makes them.  Left out are an import next  *)
(* to a running hub ("Restart the hub to use it") and the expiry date.     *)
(***************************************************************************)
EXTENDS HubCredentials, CariZip

CONSTANTS Responses,   \* what Certificate Authorities send
          IssuerNames, \* names that begin with "iss-", in alphabetical order
          StrayNames,  \* other names for issuer certificates: nothing tells an authority "iss-"
          Layouts,     \* how their zip tools pack it
          NoResponse

ASSUME ResponsesAssumption ==
  /\ Responses \subseteq [leaf : Certificate, issuers : Seq(Certificate),
                          others : UNION {[names -> Certificate] : names \in SUBSET StrayNames}]
  /\ NoResponse \notin Responses
  /\ \A r \in Responses : r.leaf.by \in CAs /\ Len(r.issuers) <= Len(IssuerNames)

\* The names of certificates for a device, and the other names in the zips.
DeviceNames == {"opr-hub.pem", "opr-2.pem", "opr-3.pem"}
OtherNames == {"cert1", "device-1", "device-2", "port-2", "hub", "issuer", "csr-hub.pem", "request-notes.txt"}

ASSUME NamesAssumption ==
  /\ IssuerNames \in Seq(DOMAIN Rank) /\ DeviceNames \cup OtherNames \subseteq DOMAIN Rank
  /\ \A i, j \in DOMAIN IssuerNames : i < j => Rank[IssuerNames[i]] < Rank[IssuerNames[j]]
  /\ StrayNames \subseteq DOMAIN Rank /\ IsFiniteSet(StrayNames)
  /\ Range(IssuerNames) \cap (StrayNames \cup DeviceNames \cup OtherNames) = {}
  /\ StrayNames \cap (DeviceNames \cup OtherNames) = {}
  /\ IllegalNames \cap (Range(IssuerNames) \cup StrayNames \cup DeviceNames \cup OtherNames) = {}

\* The files and folders of an answer, at most.
MostEntries == 10 + Len(IssuerNames) + Cardinality(StrayNames)

\* It is well below the limits of ReadZip: 4 MiB, 4096 entries, 16 MiB unpacked.
ASSUME LayoutsAssumption ==
  /\ Layouts \subseteq [method : {"store", "deflate"}, extra : Nat, descriptor : Nat]
  /\ MostEntries <= MAX_ENTRIES /\ MostEntries <= MAX_TOTAL_UNCOMPRESSED
  /\ \A layout \in Layouts :
       MostEntries * (3 + 2 * layout.extra + layout.descriptor) + 1 <= MAX_ZIP_BYTES

VARIABLES
  writing,    \* the files a running import has still to write, each with its contents
  opened,     \* whether the first of them has been opened, and so emptied
  response,   \* history: the response whose files are on disk, whole and unchanged
  turnedAway  \* history: a response for this hub that arrived whole was refused

importVars == <<writing, opened, response, turnedAway>>
commissionVars == <<allVars, importVars>>

CommissionInit ==
  /\ HubInit
  /\ writing = <<>>
  /\ opened = FALSE
  /\ response = NoResponse
  /\ turnedAway = FALSE

StartHub ==
  /\ writing = <<>>
  /\ StartUp
  /\ UNCHANGED importVars

\* The running hub; what an activation renames is not the response's any more.
HubRuns ==
  /\ \/ StopProcess \/ StoreRequest \/ Committed \/ RefreshTrust
     \/ StartListening \/ CrlChanged \/ ReloadCredentials
  /\ response' = IF disk' = disk THEN response ELSE NoResponse
  /\ UNCHANGED <<writing, opened, turnedAway>>

-----------------------------------------------------------------------------
(***************************************************************************)
(* The request, and the response on its way                                *)
(***************************************************************************)

PortFolder == <<"cert1", "device-1", "port-2">>
IssuerFolder == <<"cert1", "issuer">>
OwnCertificate == PortFolder \o <<"opr-hub.pem">>

CsrFor(k) == <<[request |-> k]>>
Notes == <<[text |-> "notes"]>>

\* HubRequestZip: the request, an empty folder for the hub, and the notes.
HubRequestZip(k) ==
  LET csrOnly == AddFile(EmptyTree, PortFolder \o <<"csr-hub.pem">>, CsrFor(k))
      port == AddFolder(csrOnly, PortFolder \o <<"hub">>)
  IN  WriteZip(AddFile(port, <<"cert1", "request-notes.txt">>, Notes))

IssuerFile(i) == IssuerFolder \o <<IssuerNames[i]>>
StrayFile(name) == IssuerFolder \o <<name>>

\* "this tree plus opr-hub.pem next to the CSR and your issuer certificate(s) in
\* cert1/issuer/" (cert_tool.cpp:275-276): some put it elsewhere, and all add another
\* device's.
Answer(r, place) ==
  LET bystander == AddFile(ReadZip(HubRequestZip(r.leaf.key)), <<"cert1", "device-2", "opr-2.pem">>,
                           <<[r.leaf EXCEPT !.key = r.leaf.by]>>)
      signed == AddFile(bystander, place, <<r.leaf>>)
      strays == [path \in {StrayFile(name) : name \in DOMAIN r.others} |-> <<r.others[Last(path)]>>]
      named(path) == CHOOSE i \in DOMAIN r.issuers : IssuerFile(i) = path
  IN  AddFiles(AddFiles(signed, strays),
               [path \in {IssuerFile(i) : i \in DOMAIN r.issuers} |-> <<r.issuers[named(path)]>>])

Places == {OwnCertificate, <<"cert1", "device-2", "opr-3.pem">>}

\* Zip tools need not list folders, and list files in any order.
Packed(tree, layout) ==
  {Pack(FileEntries(tree), layout), Pack(Reverse(FileEntries(tree)) \o FolderEntries(tree), layout)}

ZipsOf(r) == UNION {Packed(Answer(r, place), layout) : place \in Places, layout \in Layouts}

\* What arrives of a zip, as the hub reads it.
Arrivals(r, zip) ==
  {[sent |-> r, whole |-> TRUE, tree |-> ReadZip(zip)]}
    \cup {[sent |-> r, whole |-> FALSE, tree |-> ReadZip(z)] : z \in Damaged(zip)}

Deliveries == UNION {UNION {Arrivals(r, zip) : zip \in ZipsOf(r)} : r \in Responses}

-----------------------------------------------------------------------------
(***************************************************************************)
(* ImportCariResponse                                                      *)
(***************************************************************************)

IsCertificate(contents) == Len(contents) = 1 /\ contents[1] \in Certificate

\* The files that hold a certificate for the request on disk.
ForThisKey(tree) ==
  {p \in DOMAIN tree.files :
     Last(p) \in DeviceNames /\ IsCertificate(tree.files[p]) /\ tree.files[p][1].key = csr}

\* The one in the hub's own folder, or else the first.
HubCertificateIn(tree) ==
  IF OwnCertificate \in ForThisKey(tree) THEN OwnCertificate ELSE InOrder(ForThisKey(tree))[1]

\* cert1/issuer/iss-*: a file with another name is passed over.
IssuersIn(tree) ==
  LET paths == InOrder({p \in DOMAIN tree.files :
                          IsPrefix(IssuerFolder, p) /\ Last(p) \in Range(IssuerNames)})
  IN  [i \in DOMAIN paths |-> tree.files[paths[i]]]

Signs(issuer, leaf) == issuer.role = "ca" /\ leaf.by = issuer.key

\* The certificate is for the request on disk, and one of at most two issuers signed it.
ForThisHub(r) ==
  /\ r.leaf.key = csr
  /\ Len(r.issuers) \in 1..2
  /\ \E issuer \in Range(r.issuers) : Signs(issuer, r.leaf)

\* ReadCariResponse
ResponseIn(tree) ==
  [leaf |-> tree.files[HubCertificateIn(tree)][1],
   issuers |-> [i \in DOMAIN IssuersIn(tree) |-> IssuersIn(tree)[i][1]]]

IsTaken(tree) ==
  /\ tree # Refused
  /\ ForThisKey(tree) # {}
  /\ \A i \in DOMAIN IssuersIn(tree) : IsCertificate(IssuersIn(tree)[i])
  /\ ForThisHub(ResponseIn(tree))

\* The first issuer that signed the certificate goes to slot 1, the others keep
\* their order.
SignerFirst(r) ==
  LET signer == CHOOSE i \in DOMAIN r.issuers :
                  /\ Signs(r.issuers[i], r.leaf)
                  /\ \A j \in 1..(i - 1) : ~Signs(r.issuers[j], r.leaf)
  IN  <<r.issuers[signer]>> \o RemoveAt(r.issuers, signer)

\* A mutant: slot 2 is only written when there is a second issuer.
LeavesSecondSlot(r) ==
  LET issuers == SignerFirst(r)
  IN  <<[file |-> Operational, to |-> r.leaf], [file |-> Issuer1, to |-> issuers[1]]>>
        \o IF Len(issuers) > 1 THEN <<[file |-> Issuer2, to |-> issuers[2]]>> ELSE <<>>

\* The three files in the order they are written; one issuer fills both slots.
FilesOf(r) ==
  LET issuers == SignerFirst(r)
  IN  <<[file |-> Operational, to |-> r.leaf],
        [file |-> Issuer1, to |-> issuers[1]],
        [file |-> Issuer2, to |-> Last(issuers)]>>

\* A response that is not for this hub is refused and nothing is written.
ImportCariResponse(d) ==
  /\ pc = "down"
  /\ writing = <<>>
  /\ d.sent.leaf.key \in made
  /\ IF IsTaken(d.tree)
     THEN writing' = FilesOf(ResponseIn(d.tree)) /\ response' = d.sent /\ UNCHANGED turnedAway
     ELSE turnedAway' = (turnedAway \/ (d.whole /\ ForThisHub(d.sent))) /\ UNCHANGED <<writing, response>>
  /\ UNCHANGED <<allVars, opened>>

\* WriteFile opens with trunc, then writes.
OpenFile ==
  /\ writing # <<>>
  /\ ~opened
  /\ opened' = TRUE
  /\ disk' = [disk EXCEPT ![Head(writing).file] = Empty]
  /\ intact' = FALSE
  /\ UNCHANGED <<key, pendingKey, csr, made, staged, promotes, pc, todo, hubVars>>
  /\ UNCHANGED <<writing, response, turnedAway>>

\* The last file makes a complete set, if the hub still owns its request's key.
WriteFile ==
  /\ writing # <<>>
  /\ opened
  /\ opened' = FALSE
  /\ disk' = [disk EXCEPT ![Head(writing).file] = Head(writing).to]
  /\ writing' = Tail(writing)
  /\ intact' = (writing' = <<>> /\ csr \in {key, pendingKey})
  /\ UNCHANGED <<key, pendingKey, csr, made, staged, promotes, pc, todo, hubVars>>
  /\ UNCHANGED <<response, turnedAway>>

\* The import is cut off, or cannot create a file.
ImportStops ==
  /\ writing # <<>>
  /\ writing' = <<>>
  /\ opened' = FALSE
  /\ response' = NoResponse
  /\ UNCHANGED <<allVars, turnedAway>>

-----------------------------------------------------------------------------
CommissionNext ==
  \/ StartHub \/ HubRuns
  \/ \E d \in Deliveries : ImportCariResponse(d)
  \/ OpenFile \/ WriteFile \/ ImportStops

CommissionSpec == CommissionInit /\ [][CommissionNext]_commissionVars

-----------------------------------------------------------------------------
(***************************************************************************)
(* Properties                                                              *)
(***************************************************************************)

\* Types of the import's progress.
CommissionTypeOK ==
  /\ HubTypeOK
  /\ writing \in Seq([file : Slots, to : Certificate]) /\ Len(writing) <= 3
  /\ opened \in BOOLEAN
  /\ response \in Responses \cup {NoResponse}
  /\ turnedAway \in BOOLEAN

\* A hub that serves what an import installed trusts the issuers of the response that
\* are named as CARI names them ("iss-1.pem, iss-2.pem", cari.h:21) and nobody else ("so a
\* stale second issuer is not left trusted", cert_tool.cpp:489-490), and presents its
\* certificate.
ImportReplacesTrust ==
  response # NoResponse /\ intact /\ Settled
    => tls.cert = response.leaf /\ tls.trust = Range(response.issuers)

\* A response for this hub whose issuers are named iss-* is taken, whatever tool packed
\* it, wherever in the zip the certificate is and whatever else is with the issuers; and
\* however a zip was damaged on its way, what is installed is the response that was sent,
\* and one for this hub ("checks sizes, entry counts, compression methods and every
\* path", cari.h:24-26): none of the issuers named iss-* gets lost.  Others are passed
\* over (EveryIssuerIsInstalled in MCCommissioning).
ResponseIsTakenAsSent ==
  /\ ~turnedAway
  /\ writing # <<>> => ForThisHub(response) /\ IsSuffix(writing, FilesOf(response))

=============================================================================
