----------------------------- MODULE HubIdentity -----------------------------
(***************************************************************************)
(* What the certificate procedures promise about the hub's identity        *)
(* (cert_store.h, lines 24-31), without files, staging or crashes: the     *)
(* hub owns one key and, once commissioned, one certificate for that key.  *)
(* It may also own a requested key, whose signing request is out at the    *)
(* Certificate Authority.  A certificate for the requested key replaces    *)
(* certificate and key together, in one step; nothing else changes the     *)
(* key.  CertStore implements this with two files that are renamed one     *)
(* after the other and may be cut off between the two.                     *)
(***************************************************************************)
CONSTANTS Keys,     \* every key pair the hub may ever generate
          NoKey     \* "there is no such key file"

VARIABLES ownKey,     \* the key the hub's certificate is for
          certified,  \* the key named by the certificate; NoKey before one exists
          requested   \* the key behind the outstanding request, or NoKey

identityVars == <<ownKey, certified, requested>>

IdentityTypeOK ==
  /\ ownKey \in Keys
  /\ certified \in Keys \cup {NoKey}
  /\ requested \in Keys \cup {NoKey}

IdentityInit ==
  /\ ownKey \in Keys
  /\ certified \in {ownKey, NoKey}
  /\ requested = NoKey

\* GENERATE_CSR_FILE: a new key is requested, the identity stays.
Request(k) ==
  /\ k \notin {ownKey, certified, requested}
  /\ requested' = k
  /\ UNCHANGED <<ownKey, certified>>

\* A certificate for the current key becomes the hub's certificate.
Certify ==
  /\ certified' = ownKey
  /\ UNCHANGED <<ownKey, requested>>

\* A certificate for the requested key: certificate and key change at once.
Adopt ==
  /\ requested \in Keys
  /\ ownKey' = requested
  /\ certified' = requested
  /\ requested' = NoKey

IdentityNext == Certify \/ Adopt \/ \E k \in Keys : Request(k)

IdentitySpec == IdentityInit /\ [][IdentityNext]_identityVars

=============================================================================
