------------------------------ MODULE CertStore ------------------------------
(***************************************************************************)
(* cert_store.cpp: the certificate File objects of the hub, the staging of *)
(* AtomicWriteFile, the validation and the commit that ReinitializeDevice  *)
(* (main.cpp) runs, GENERATE_CSR_FILE with its pending key, DISCARD, and   *)
(* what a restart does about a commit that was cut off.                    *)
(*                                                                         *)
(* A file is what parsing it tells the code apart: a certificate, an empty *)
(* file, or bytes that are not only PEM certificates ("Garbage": a half    *)
(* written upload, zero octets from an extended File_Size).  A certificate *)
(* is the key it certifies, the key that signed it and its role: "ca",     *)
(* "hub" (an end entity good for both TLS purposes) or "other" (an end     *)
(* entity that is not).  One certificate per file.                         *)
(*                                                                         *)
(* The hub is one thread, so only a crash can come between two file        *)
(* operations: each rename is a step of its own and Crash is enabled       *)
(* between them.  A rename is atomic and durable, as the code assumes.     *)
(***************************************************************************)
EXTENDS Naturals, FiniteSets

CONSTANTS Keys,       \* key pairs the hub may generate
          CAs,        \* key pairs of certificate authorities
          Uploads,    \* Uploads[f]: the certificates clients write to File f
          MayFail,    \* the file operations that may fail: see FailPoints
          NoKey, NoFile, Empty, Garbage, NotStaged

(***************************************************************************)
(* File object instances (main.cpp:317-320).  std::map visits them in      *)
(* ascending order, which is the order a commit renames them in.           *)
(***************************************************************************)
Operational == 1
Issuer1 == 3
Issuer2 == 4
Slots == {Operational, Issuer1, Issuer2}
IssuerInstances == {Issuer1, Issuer2}

Certificate == [key : Keys \cup CAs, by : Keys \cup CAs, role : {"ca", "hub", "other"}]
Contents == Certificate \cup {Empty, Garbage}

\* "temp": writing a .tmp file; "rename": a commit's renames, the key swap's included;
\* "csr": the rename of a new request; "bundle": the trusted-issuer bundle.
FailPoints == {"temp", "rename", "csr", "bundle"}

ASSUME ConstantsAssumption ==
  /\ Keys \cap CAs = {}
  /\ NoKey \notin Keys \cup CAs
  /\ Uploads \in [Slots -> SUBSET Certificate]
  /\ MayFail \subseteq FailPoints
  /\ {NoFile, Empty, Garbage, NotStaged} \cap Certificate = {}
  /\ NoFile \notin {Empty, Garbage, NotStaged}
  /\ Empty \notin {Garbage, NotStaged}
  /\ Garbage # NotStaged

VARIABLES
  disk,        \* disk[f]: the file behind File object f
  key,         \* key-hub.pem: the key in use
  pendingKey,  \* the pending key of GENERATE_CSR_FILE, or NoKey
  csr,         \* the key the Certificate Signing Request file is for
  made,        \* every key the hub has made so far
  staged,      \* g_staged: staged[f], or NotStaged
  promotes,    \* g_commitPromotesPendingKey
  pc,          \* "down", "idle", inside a "commit", inside a "csr" generation
  todo,        \* the files a commit has still to rename
  intact       \* history: the certificate files are one complete commit's

vars == <<disk, key, pendingKey, csr, made, staged, promotes, pc, todo, intact>>
diskVars == <<disk, key, pendingKey, csr, made>>

StagedSlots == {f \in Slots : staged[f] # NotStaged}

-----------------------------------------------------------------------------
(***************************************************************************)
(* Reading                                                                 *)
(***************************************************************************)

\* The File object whose contents f serves: slot 2 serves slot 1 while it has
\* neither a staged copy nor a file.
FallbackInstance(f) ==
  IF f = Issuer2 /\ staged[f] = NotStaged /\ disk[f] = NoFile THEN Issuer1 ELSE f

OwnContents(f) == IF staged[f] # NotStaged THEN staged[f] ELSE disk[f]

\* A mutant: the fallback serves the other slot's file, not its staged copy.
ReadFallbackFromDisk(f) ==
  IF staged[f] # NotStaged THEN staged[f] ELSE disk[FallbackInstance(f)]

Read(f) == OwnContents(FallbackInstance(f))

\* A missing file counts as empty.
Effective(f) == IF Read(f) = NoFile THEN Empty ELSE Read(f)

-----------------------------------------------------------------------------
(***************************************************************************)
(* ValidateStaged                                                          *)
(***************************************************************************)

\* The leaf is signed by a CA certificate of the set, which is self-signed or
\* is signed by a self-signed one of the set.
ChainsToIssuers(leaf, issuers) ==
  \E c, root \in issuers \cap Certificate :
    /\ c.role = "ca" /\ root.role = "ca"
    /\ leaf.by = c.key /\ c.by = root.key /\ root.by = root.key

EffectiveIssuers == {Effective(f) : f \in IssuerInstances} \ {Empty}

\* A mutant: an issuer file that is not a certificate is not looked at.
ParsesOperationalOnly ==
  EffectiveIssuers # {} /\ Effective(Operational) \in Certificate

\* The part of ValidateStaged before the key check; a set that fails here
\* leaves g_commitPromotesPendingKey as it was.
Parses ==
  /\ Garbage \notin EffectiveIssuers
  /\ EffectiveIssuers # {}
  /\ Effective(Operational) \in Certificate

MatchesKey == Effective(Operational).key = key
MatchesPendingKey == Effective(Operational).key = pendingKey

ValidateStaged ==
  /\ Parses
  /\ MatchesKey \/ MatchesPendingKey
  /\ Effective(Operational).role = "hub"
  /\ ChainsToIssuers(Effective(Operational), EffectiveIssuers)

\* A mutant: the flag is never cleared, as without the reset at line 458.
PromotesNeverCleared == promotes \/ (Parses /\ ~MatchesKey /\ MatchesPendingKey)

\* The flag ValidateStaged leaves behind.
PromotesAfterValidation ==
  IF Parses THEN ~MatchesKey /\ MatchesPendingKey ELSE promotes

-----------------------------------------------------------------------------
(***************************************************************************)
(* The process                                                             *)
(***************************************************************************)

NothingStaged == [f \in Slots |-> NotStaged]

\* A certificate set a hub can be running with: its own certificate and the
\* issuer's, or no certificate file at all before commissioning.
UsableFiles(d, k) ==
  LET issuers == {IF f = Issuer2 /\ d[f] = NoFile THEN d[Issuer1] ELSE d[f] :
                    f \in IssuerInstances} \ {Empty, NoFile}
  IN  /\ d[Operational] \in Certificate
      /\ d[Operational].key = k
      /\ d[Operational].role = "hub"
      /\ issuers \subseteq Certificate
      /\ ChainsToIssuers(d[Operational], issuers)

\* EnsureHubRequest has run once, so the key and its request exist.
Init ==
  /\ key \in Keys
  /\ disk \in [Slots -> (UNION {Uploads[f] : f \in Slots}) \cup {NoFile}]
  /\ \/ \A f \in Slots : disk[f] = NoFile
     \/ UsableFiles(disk, key)
  /\ intact = (disk[Operational] # NoFile)
  /\ pendingKey = NoKey
  /\ csr = key
  /\ made = {key}
  /\ staged = NothingStaged
  /\ promotes = FALSE
  /\ pc = "down"
  /\ todo = {}

\* The process stops: memory is lost, files stay as they are.
Crash ==
  /\ pc # "down"
  /\ pc' = "down"
  /\ staged' = NothingStaged
  /\ promotes' = FALSE
  /\ todo' = {}
  /\ intact' = IF pc = "commit" /\ todo # StagedSlots THEN todo = {} ELSE intact
  /\ UNCHANGED diskVars

\* A mutant: a start that does not finish an interrupted key swap.
NoReconcile ==
  /\ pc = "down"
  /\ pc' = "idle"
  /\ UNCHANGED <<diskVars, staged, promotes, todo, intact>>

SwapUnfinished ==
  /\ pendingKey # NoKey
  /\ disk[Operational] \in Certificate
  /\ disk[Operational].key = pendingKey
  /\ disk[Operational].key # key

PromotePendingKey == key' = pendingKey /\ pendingKey' = NoKey

\* Start-up: SetLayout empties the stage, ReconcilePendingKey finishes the swap.
\* A failed swap is only logged.
ReconcilePendingKey ==
  /\ pc = "down"
  /\ pc' = "idle"
  /\ \/ SwapUnfinished /\ PromotePendingKey
     \/ SwapUnfinished /\ "rename" \in MayFail /\ UNCHANGED <<key, pendingKey>>
     \/ ~SwapUnfinished /\ UNCHANGED <<key, pendingKey>>
  /\ UNCHANGED <<disk, csr, made, staged, promotes, todo, intact>>

-----------------------------------------------------------------------------
(***************************************************************************)
(* Staging                                                                 *)
(***************************************************************************)

\* One accepted AtomicWriteFile chunk: the copy now reads as the whole
\* certificate or is still partial.  Nobody has a certificate for a key the hub
\* has not made.
Write(f, c) ==
  /\ pc = "idle"
  /\ c \in Certificate => c.key \in made \cup CAs
  /\ staged' = [staged EXCEPT ![f] = c]
  /\ UNCHANGED <<diskVars, promotes, pc, todo, intact>>

\* A refused AtomicWriteFile (a hole, a bad start, over MAX_FILE_BYTES): Stage()
\* has already made the staged copy.
RejectWrite(f) ==
  /\ pc = "idle"
  /\ staged' = [staged EXCEPT ![f] = Effective(f)]
  /\ UNCHANGED <<diskVars, promotes, pc, todo, intact>>

\* WriteProperty File_Size: truncated to nothing, cut or zero-extended, or the
\* same size again.  Over MAX_FILE_BYTES nothing happens.
Resize(f, c) ==
  /\ pc = "idle"
  /\ staged' = [staged EXCEPT ![f] = c]
  /\ UNCHANGED <<diskVars, promotes, pc, todo, intact>>

DiscardStaged ==
  /\ pc = "idle"
  /\ StagedSlots # {}
  /\ staged' = NothingStaged
  /\ promotes' = FALSE
  /\ UNCHANGED <<diskVars, pc, todo, intact>>

-----------------------------------------------------------------------------
(***************************************************************************)
(* ReinitializeDevice: HasStagedChanges, ValidateStaged, CommitStaged.     *)
(* With nothing staged it answers true and changes nothing.                *)
(***************************************************************************)

\* Validation or a temp file fails: the stage is kept, no file is replaced.
ActivateRefused ==
  /\ pc = "idle"
  /\ StagedSlots # {}
  /\ ~ValidateStaged \/ "temp" \in MayFail
  /\ promotes' = PromotesAfterValidation
  /\ UNCHANGED <<diskVars, staged, pc, todo, intact>>

\* Every staged file is in its temp file.
CommitStaged ==
  /\ pc = "idle"
  /\ StagedSlots # {}
  /\ ValidateStaged
  /\ promotes' = PromotesAfterValidation
  /\ pc' = "commit"
  /\ todo' = StagedSlots
  /\ UNCHANGED <<diskVars, staged, intact>>

FirstToRename == CHOOSE f \in todo : \A g \in todo : f <= g

ReplaceWithTemp ==
  /\ pc = "commit"
  /\ todo # {}
  /\ disk' = [disk EXCEPT ![FirstToRename] = staged[FirstToRename]]
  /\ todo' = todo \ {FirstToRename}
  /\ UNCHANGED <<key, pendingKey, csr, made, staged, promotes, pc, intact>>

\* A mutant: the stage goes with the failed commit.
FailureDropsStage ==
  /\ "rename" \in MayFail
  /\ pc = "commit"
  /\ todo # {}
  /\ pc' = "idle"
  /\ todo' = {}
  /\ staged' = NothingStaged
  /\ intact' = (intact /\ todo = StagedSlots)
  /\ UNCHANGED <<diskVars, promotes>>

\* A rename fails: the stage is kept, what was renamed stays renamed.
ReplaceFails ==
  /\ "rename" \in MayFail
  /\ pc = "commit"
  /\ todo # {}
  /\ pc' = "idle"
  /\ todo' = {}
  /\ intact' = (intact /\ todo = StagedSlots)
  /\ UNCHANGED <<diskVars, staged, promotes>>

\* All renamed: the stage goes, then the pending key is swapped in.  A failed
\* swap answers an error with the stage already gone and the flag still set.
CommitFinished ==
  /\ pc = "commit"
  /\ todo = {}
  /\ pc' = "idle"
  /\ staged' = NothingStaged
  /\ intact' = TRUE
  /\ \/ promotes /\ PromotePendingKey /\ promotes' = FALSE
     \/ promotes /\ "rename" \in MayFail /\ UNCHANGED <<key, pendingKey, promotes>>
     \/ ~promotes /\ UNCHANGED <<key, pendingKey, promotes>>
  /\ UNCHANGED <<disk, csr, made, todo>>

-----------------------------------------------------------------------------
(***************************************************************************)
(* GENERATE_CSR_FILE                                                       *)
(***************************************************************************)

\* A mutant: the new key replaces the key in use.
GenerateOverwritesKey(k) ==
  /\ pc = "idle"
  /\ StagedSlots = {}
  /\ disk[Operational] \in Certificate
  /\ k \in Keys \ made
  /\ made' = made \cup {k}
  /\ key' = k
  /\ pc' = "csr"
  /\ UNCHANGED <<disk, pendingKey, csr, staged, promotes, todo, intact>>

\* Both temp files are written and the new key has replaced the pending key.  A
\* failure before that changes nothing.
GenerateKeyAndCsr(k) ==
  /\ pc = "idle"
  /\ StagedSlots = {}
  /\ disk[Operational] \in Certificate
  /\ k \in Keys \ made
  /\ made' = made \cup {k}
  /\ pendingKey' = k
  /\ pc' = "csr"
  /\ UNCHANGED <<disk, key, csr, staged, promotes, todo, intact>>

\* The request follows its key, unless its rename fails.
ReplaceCsr ==
  /\ pc = "csr"
  /\ pc' = "idle"
  /\ \/ csr' = pendingKey
     \/ "csr" \in MayFail /\ csr' = csr
  /\ UNCHANGED <<disk, key, pendingKey, made, staged, promotes, todo, intact>>

-----------------------------------------------------------------------------
Next ==
  \/ Crash
  \/ ReconcilePendingKey
  \/ \E f \in Slots : \/ \E c \in Uploads[f] \cup {Garbage} : Write(f, c)
                      \/ \E c \in {Empty, Garbage, Effective(f)} : Resize(f, c)
                      \/ RejectWrite(f)
  \/ DiscardStaged
  \/ ActivateRefused \/ CommitStaged
  \/ ReplaceWithTemp \/ ReplaceFails \/ CommitFinished
  \/ \E k \in Keys : GenerateKeyAndCsr(k)
  \/ ReplaceCsr

Spec == Init /\ [][Next]_vars

-----------------------------------------------------------------------------
(***************************************************************************)
(* Properties                                                              *)
(***************************************************************************)

\* Types of the files and of the store's memory (cert_store.cpp:44-54).
TypeOK ==
  /\ disk \in [Slots -> Contents \cup {NoFile}]
  /\ key \in Keys
  /\ pendingKey \in Keys \cup {NoKey}
  /\ csr \in Keys
  /\ made \in SUBSET Keys
  /\ staged \in [Slots -> Contents \cup {NotStaged}]
  /\ promotes \in BOOLEAN
  /\ pc \in {"down", "idle", "commit", "csr"}
  /\ todo \in SUBSET Slots
  /\ intact \in BOOLEAN

\* Whatever is renamed and wherever the process stops, the hub still owns the
\* key its certificate on disk is for (the swap in CommitStaged and its repair in
\* ReconcilePendingKey).
CertificateHasKey ==
  disk[Operational] \in Certificate => disk[Operational].key \in {key, pendingKey}

\* Between requests the hub's key file is the one its certificate is for, so TLS
\* can always be reloaded ("the hub never runs with a key that has no
\* certificate", cert_store.h:30).
RunsWithMatchingPair ==
  pc \in {"idle", "csr"} /\ disk[Operational] \in Certificate
    => disk[Operational].key = key

\* Once the hub has certificates, every activation that was not cut short leaves
\* files it can run on - what ValidateStaged checked on the staged view, slot 2's
\* fallback included, is what the renames left on disk.
ActivatedFilesAreUsable ==
  intact /\ pc \in {"idle", "csr"} => UsableFiles(disk, key)

\* Whatever fails, what is not a certificate never replaces a certificate file, and
\* the hub's own certificate, once it has one, is one for a key the hub has made
\* and good for TLS: ReinitializeDevice checks the set it is about to rename,
\* which slot 2 may share with slot 1.
OnlyCheckedFilesOnDisk ==
  /\ \A f \in Slots : disk[f] # Garbage
  /\ disk[Operational] # NoFile
       => /\ disk[Operational] \in Certificate
          /\ disk[Operational].role = "hub"
          /\ disk[Operational].key \in made

\* A commit that fails between two renames can be asked for again ("keeps the
\* stage, so activating again retries", cert_store.cpp:523): what is still
\* staged passes the same checks, over the files already replaced.
FailedCommitCanBeRetried ==
  [][pc = "commit" /\ todo # {} /\ pc' = "idle"
       => StagedSlots' # {} /\ ValidateStaged']_vars

(***************************************************************************)
(* The key an observer would call the hub's own: the pending one from the  *)
(* moment its certificate has replaced the old one.                        *)
(***************************************************************************)
CertifiedKey == IF disk[Operational] \in Certificate THEN disk[Operational].key ELSE NoKey

Identity == INSTANCE HubIdentity WITH
  ownKey <- IF SwapUnfinished THEN pendingKey ELSE key,
  certified <- CertifiedKey,
  requested <- IF SwapUnfinished THEN NoKey ELSE pendingKey

\* The two renames, the crashes between them and the repair at the next start
\* implement an atomic change of identity.
ImplementsIdentity == Identity!IdentitySpec

=============================================================================
