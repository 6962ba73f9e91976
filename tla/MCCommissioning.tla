--------------------------- MODULE MCCommissioning ---------------------------
(***************************************************************************)
(* A small hub that is commissioned by import and renewed over BACnet: its *)
(* old and its new key, a first authority and the one of the responses.    *)
(***************************************************************************)
EXTENDS Commissioning

CONSTANTS k1, k2, a, b

HubCert(k, ca) == [key |-> k, by |-> ca, role |-> "hub"]
RootCert(ca) == [key |-> ca, by |-> ca, role |-> "ca"]

\* Over BACnet: a renewal under the new key, and nothing but garbage for slot 2.
MCUploads ==
  [f \in Slots |-> IF f = Operational THEN {HubCert(k1, a), HubCert(k2, a)}
                   ELSE IF f = Issuer1 THEN {RootCert(a)} ELSE {}]

\* For the new key: with the signer alone, with the signer as second issuer, with one
\* issuer more than the hub holds, and with an issuer that is not named as CARI names it,
\* the signer or another.
MCResponses ==
  {[leaf |-> HubCert(k2, b), issuers |-> issuers, others |-> <<>>] :
     issuers \in {<<RootCert(b)>>, <<RootCert(a), RootCert(b)>>, <<RootCert(b), RootCert(a), RootCert(b)>>}}
  \cup {[leaf |-> HubCert(k2, b), issuers |-> <<RootCert(b)>>, others |-> [n \in StrayNames |-> RootCert(a)]],
        [leaf |-> HubCert(k2, b), issuers |-> <<>>, others |-> [n \in StrayNames |-> RootCert(b)]]}

MCIssuerNames == <<"iss-1.pem", "iss-2.pem", "iss-3.pem">>

\* The names in the zips, in alphabetical order.
SmallNames ==
  <<"ca.pem", "cert1", "csr-hub.pem", "device-1", "device-2", "hub", "iss-1.pem", "iss-2.pem", "iss-3.pem",
    "issuer", "opr-2.pem", "opr-3.pem", "opr-hub.pem", "port-2", "request-notes.txt">>

MCRank == [name \in Range(SmallNames) |-> CHOOSE i \in DOMAIN SmallNames : SmallNames[i] = name]

\* A plain tool, one that stores with extra fields, one that streams.
MCLayouts ==
  {[method |-> "deflate", extra |-> 0, descriptor |-> 0], [method |-> "store", extra |-> 1, descriptor |-> 0],
   [method |-> "deflate", extra |-> 1, descriptor |-> 1]}

-----------------------------------------------------------------------------
(***************************************************************************)
(* What the documents say and the code does not do: TLC violates it when   *)
(* a .cfg names it (README.md tells how).                                  *)
(***************************************************************************)

\* "Return a CARI response: this tree plus opr-hub.pem next to the CSR and your issuer
\* certificate(s) in cert1/issuer/" (cert_tool.cpp:275-276): what is there is installed,
\* under any name.
EveryIssuerIsInstalled ==
  response # NoResponse /\ intact /\ Settled
    => tls.trust = Range(response.issuers) \cup Range(response.others)

=============================================================================
