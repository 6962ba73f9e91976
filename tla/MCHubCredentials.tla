--------------------------- MODULE MCHubCredentials ---------------------------
(***************************************************************************)
(* A small hub for TLC: its own keys, two authorities, a certificate under *)
(* each, both roots for issuer slot 1 and the new one for slot 2, which    *)
(* serves slot 1's contents besides.                                       *)
(***************************************************************************)
EXTENDS HubCredentials

CONSTANTS k1, k2, a, b

HubCert(k, ca) == [key |-> k, by |-> ca, role |-> "hub"]
RootCert(ca) == [key |-> ca, by |-> ca, role |-> "ca"]

MCUploads ==
  [f \in Slots |-> IF f = Operational
                   THEN {HubCert(k1, a), HubCert(k2, b)}
                   ELSE IF f = Issuer1 THEN {RootCert(a), RootCert(b)}
                   ELSE {RootCert(b)}]

\* For liveness: a renewal under the new key, one authority, and nothing but
\* garbage for slot 2.
RenewalUploads ==
  [f \in Slots |-> IF f = Operational THEN {HubCert(k1, a), HubCert(k2, a)}
                   ELSE IF f = Issuer1 THEN {RootCert(a)} ELSE {}]

\* For failures: a self-signed CA certificate of the hub's new key as well, which
\* must be refused.
FailureUploads ==
  [RenewalUploads EXCEPT ![Operational] = @ \cup {[key |-> k2, by |-> k2, role |-> "ca"]}]

-----------------------------------------------------------------------------
(***************************************************************************)
(* What the documents say and the code does not do: TLC violates each of   *)
(* these when a .cfg names it (README.md tells how).                       *)
(***************************************************************************)

\* With no reload outstanding the listener trusts exactly the issuers of both
\* slots ("TLS trusts every issuer in both slots", main.cpp:2136).
ListenerTrustsBothSlots ==
  Settled => tls.trust = EffectiveIssuersOnDisk

\* Outside GENERATE_CSR_FILE a request on disk belongs to a key the hub owns ("a
\* CSR on disk without its key could never be used", cert_store.cpp:632).
CsrHasItsKey == pc # "csr" => csr \in {key, pendingKey}

=============================================================================
