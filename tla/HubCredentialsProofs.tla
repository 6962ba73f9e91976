------------------------- MODULE HubCredentialsProofs -------------------------
(***************************************************************************)
(* What holds of the certificate store, and of the hub that runs it, for   *)
(* every set of keys, authorities and uploads.                             *)
(*                                                                         *)
(* CertStoreInv is the store's inductive invariant: besides the properties *)
(* it says what is true in the middle of a commit, when some files are new *)
(* and some are old.  Every step of the hub is a step of the store or      *)
(* leaves it alone, so that every theorem about the store holds of the     *)
(* hub; and the listener's credentials follow the files through            *)
(* activations, crashes and retries.                                       *)
(***************************************************************************)
EXTENDS HubCredentials, TLAPS

NoRenameFails == "rename" \notin MayFail

\* Keys are made once: the pending key is neither the key in use nor unknown.
KeysAreKnown ==
  /\ key \in made
  /\ pendingKey # NoKey => pendingKey \in made /\ pendingKey # key

\* In a commit the staged view is valid, the flag is the one validation of this
\* view computes, and a file is either still to be renamed or already new.
CommitIsValidated ==
  pc = "commit" =>
    /\ ValidateStaged
    /\ promotes = (~MatchesKey /\ MatchesPendingKey)
    /\ todo \subseteq StagedSlots
    /\ \A f \in StagedSlots \ todo : disk[f] = staged[f]

\* While the operational certificate has still to be renamed, or is not part of
\* the commit, the one on disk is for the key in use.
OldCertificateMatches ==
  pc = "commit" /\ (Operational \in todo \/ staged[Operational] = NotStaged)
    /\ disk[Operational] \in Certificate
    => disk[Operational].key = key

CertStoreInv ==
  /\ TypeOK
  /\ KeysAreKnown
  /\ CertificateHasKey
  /\ RunsWithMatchingPair
  /\ CommitIsValidated
  /\ OldCertificateMatches

\* Nothing has been renamed since the files were last one complete commit's.
FilesUntouched == pc = "commit" => todo = StagedSlots

IntactFilesAreUsable ==
  intact /\ FilesUntouched => UsableFiles(disk, disk[Operational].key)

-----------------------------------------------------------------------------
\* The next file of a commit is one of the files still to be renamed.
LEMMA FirstIsToDo ==
  ASSUME todo \in SUBSET Slots, todo # {}
  PROVE  FirstToRename \in todo
<1>1. todo \subseteq {1, 3, 4}
  BY DEF Slots, Operational, Issuer1, Issuer2
<1>2. \E f \in todo : \A g \in todo : f <= g
  <2>1. CASE 1 \in todo
    <3>1. \A g \in todo : 1 <= g
      BY <1>1
    <3> QED
      BY <2>1, <3>1
  <2>2. CASE 1 \notin todo /\ 3 \in todo
    <3>1. \A g \in todo : 3 <= g
      BY <1>1, <2>2
    <3> QED
      BY <2>2, <3>1
  <2>3. CASE 1 \notin todo /\ 3 \notin todo
    <3>1. todo = {4}
      BY <1>1, <2>3
    <3> QED
      BY <3>1
  <2> QED
    BY <2>1, <2>2, <2>3
<1> QED
  BY <1>2 DEF FirstToRename

\* What a File object serves is a file's contents.
LEMMA EffectiveType ==
  ASSUME TypeOK, NEW f \in Slots
  PROVE  Effective(f) \in Contents
<1>1. FallbackInstance(f) \in Slots
  BY DEF FallbackInstance, Slots, Issuer1, Issuer2
<1>2. Read(f) \in Contents \cup {NoFile}
  BY <1>1 DEF Read, OwnContents, TypeOK
<1> QED
  BY <1>2 DEF Effective, Contents

\* A commit renames staged copies only, so no file becomes "not staged"; a key is
\* put in its place only while there is one.
Bookkeeping ==
  /\ pc # "commit" => todo = {}
  /\ todo \subseteq StagedSlots
  /\ pc = "csr" => pendingKey \in Keys
  /\ pc = "commit" /\ promotes => pendingKey \in Keys

TypeInv == TypeOK /\ Bookkeeping

\* The types hold at the start and are kept by every step.
LEMMA TypeInductive ==
  /\ Init => TypeInv
  /\ TypeInv /\ [Next]_vars => TypeInv'
<1>1. Init => TypeInv
  <2> SUFFICES ASSUME Init PROVE TypeInv
    BY DEF TypeInv
  <2>1. disk \in [Slots -> Contents \cup {NoFile}]
    <3>1. UNION {Uploads[f] : f \in Slots} \subseteq Certificate
      BY ConstantsAssumption
    <3> QED
      BY <3>1 DEF Init, Contents
  <2>2. staged \in [Slots -> Contents \cup {NotStaged}]
    BY DEF Init, NothingStaged
  <2>3. Bookkeeping
    BY DEF Init, Bookkeeping
  <2> QED
    BY <2>1, <2>2, <2>3 DEF Init, TypeOK, TypeInv
<1>2. TypeInv /\ [Next]_vars => TypeInv'
  <2> SUFFICES ASSUME TypeInv, [Next]_vars PROVE TypeInv'
    OBVIOUS
  <2>0. TypeOK /\ Bookkeeping
    BY DEF TypeInv
  <2> USE DEF TypeInv, TypeOK, Bookkeeping, StagedSlots, diskVars
  <2>1. CASE Crash
    BY <2>0, <2>1 DEF Crash, NothingStaged
  <2>2. CASE ReconcilePendingKey
    BY <2>0, <2>2 DEF ReconcilePendingKey, PromotePendingKey, SwapUnfinished
  <2>3. ASSUME NEW f \in Slots, NEW c \in Uploads[f] \cup {Garbage}, Write(f, c)
        PROVE  TypeInv'
    <3>1. c \in Contents
      BY ConstantsAssumption DEF Contents
    <3> QED
      BY <2>0, <2>3, <3>1 DEF Write
  <2>4. ASSUME NEW f \in Slots, NEW c \in {Empty, Garbage, Effective(f)}, Resize(f, c)
        PROVE  TypeInv'
    <3>1. c \in Contents
      BY <2>0, EffectiveType DEF Contents
    <3> QED
      BY <2>0, <2>4, <3>1 DEF Resize
  <2>5. ASSUME NEW f \in Slots, RejectWrite(f) PROVE TypeInv'
    BY <2>0, <2>5, EffectiveType DEF RejectWrite
  <2>6. CASE DiscardStaged
    BY <2>0, <2>6 DEF DiscardStaged, NothingStaged
  <2>7. PromotesAfterValidation \in BOOLEAN
    BY <2>0 DEF PromotesAfterValidation, MatchesKey, MatchesPendingKey
  <2>8. CASE ActivateRefused
    BY <2>0, <2>8, <2>7 DEF ActivateRefused
  <2>9. CASE CommitStaged
    <3>1. Effective(Operational) \in Certificate
      BY <2>9 DEF CommitStaged, ValidateStaged, Parses
    <3>2. MatchesPendingKey => pendingKey \in Keys
      BY <2>0, <3>1, ConstantsAssumption DEF MatchesPendingKey, Certificate
    <3>3. promotes' => MatchesPendingKey
      BY <2>9 DEF CommitStaged, PromotesAfterValidation, ValidateStaged
    <3> QED
      BY <2>0, <2>9, <2>7, <3>2, <3>3 DEF CommitStaged
  <2>10. CASE ReplaceWithTemp
    <3>1. FirstToRename \in todo /\ FirstToRename \in Slots
      BY <2>0, <2>10, FirstIsToDo DEF ReplaceWithTemp
    <3>2. staged[FirstToRename] \in Contents
      BY <2>0, <3>1
    <3>3. disk' \in [Slots -> Contents \cup {NoFile}]
      BY <2>0, <2>10, <3>1, <3>2 DEF ReplaceWithTemp
    <3>4. todo' \subseteq todo
      BY <2>10 DEF ReplaceWithTemp
    <3> QED
      BY <2>0, <2>10, <3>3, <3>4 DEF ReplaceWithTemp
  <2>11. CASE ReplaceFails
    BY <2>0, <2>11 DEF ReplaceFails
  <2>12. CASE CommitFinished
    BY <2>0, <2>12 DEF CommitFinished, PromotePendingKey, NothingStaged
  <2>13. ASSUME NEW k \in Keys, GenerateKeyAndCsr(k) PROVE TypeInv'
    BY <2>0, <2>13 DEF GenerateKeyAndCsr
  <2>14. CASE ReplaceCsr
    BY <2>0, <2>14 DEF ReplaceCsr
  <2>15. CASE UNCHANGED vars
    BY <2>0, <2>15 DEF vars
  <2> QED
    BY <2>1, <2>2, <2>3, <2>4, <2>5, <2>6, <2>8, <2>9, <2>10, <2>11, <2>12, <2>13,
       <2>14, <2>15 DEF Next
<1> QED
  BY <1>1, <1>2

\* Every variable keeps its type: the files hold contents of files whatever is
\* uploaded, renamed or cut off.
THEOREM TypeCorrect == Spec => []TypeOK
<1>1. TypeInv => TypeOK
  BY DEF TypeInv
<1> QED
  BY <1>1, TypeInductive, PTL DEF Spec

-----------------------------------------------------------------------------
\* A rename does not change what a File object serves: the file it replaces is
\* hidden by the staged copy that replaces it.
LEMMA RenameIsInvisible ==
  ASSUME TypeInv, ReplaceWithTemp, NEW f \in Slots
  PROVE  Effective(f)' = Effective(f)
<1>1. FirstToRename \in todo /\ FirstToRename \in StagedSlots
  BY FirstIsToDo DEF TypeInv, TypeOK, Bookkeeping, ReplaceWithTemp
<1>2. staged' = staged
  BY DEF ReplaceWithTemp
<1>3. \A g \in Slots : staged[g] = NotStaged => disk'[g] = disk[g]
  BY <1>1 DEF TypeInv, TypeOK, ReplaceWithTemp, StagedSlots
<1>4. \A g \in Slots : OwnContents(g)' = OwnContents(g)
  BY <1>2, <1>3 DEF OwnContents
<1>5. FallbackInstance(f)' = FallbackInstance(f)
  BY <1>2, <1>3 DEF FallbackInstance
<1>6. FallbackInstance(f) \in Slots
  BY DEF FallbackInstance, Slots, Issuer1, Issuer2
<1> QED
  BY <1>4, <1>5, <1>6 DEF Effective, Read

\* A step that leaves files and stage alone leaves what is served alone.
LEMMA SameFilesSameView ==
  ASSUME disk' = disk, staged' = staged
  PROVE  \A f : Effective(f)' = Effective(f)
BY DEF Effective, Read, OwnContents, FallbackInstance

\* The verdict of a validation depends on what is served and on the two keys.
LEMMA SameViewSameVerdict ==
  ASSUME \A f \in Slots : Effective(f)' = Effective(f),
         key' = key, pendingKey' = pendingKey
  PROVE  /\ ValidateStaged' = ValidateStaged
         /\ MatchesKey' = MatchesKey
         /\ MatchesPendingKey' = MatchesPendingKey
<1>1. EffectiveIssuers' = EffectiveIssuers
  BY DEF EffectiveIssuers, IssuerInstances, Slots
<1>2. Effective(Operational)' = Effective(Operational)
  BY DEF Slots
<1> QED
  BY <1>1, <1>2 DEF ValidateStaged, Parses, MatchesKey, MatchesPendingKey, ChainsToIssuers

\* A certificate that File 1 serves is the staged copy or the file.
LEMMA ServedCertificate ==
  ASSUME TypeOK, Effective(Operational) \in Certificate
  PROVE  Effective(Operational) = OwnContents(Operational)
<1>1. Empty \notin Certificate
  BY ConstantsAssumption
<1>2. FallbackInstance(Operational) = Operational
  BY DEF FallbackInstance, Operational, Issuer2
<1> QED
  BY <1>1, <1>2 DEF Effective, Read

-----------------------------------------------------------------------------
\* Everything the key properties need, with the types.
KeyInv == TypeInv /\ CertStoreInv

\* Before the first rename the certificate on disk is for the key in use, and the
\* flag is the one this validation has computed.
LEMMA CommitKeepsKeyInv ==
  ASSUME KeyInv, TypeInv', CommitStaged
  PROVE  CertStoreInv'
<1> USE DEF KeyInv, TypeInv, CertStoreInv, CommitStaged, diskVars
<1>1. \A f : Effective(f)' = Effective(f)
  BY SameFilesSameView
<1>2. ValidateStaged' /\ MatchesKey' = MatchesKey /\ MatchesPendingKey' = MatchesPendingKey
  BY <1>1, SameViewSameVerdict
<1>3. promotes' = (~MatchesKey /\ MatchesPendingKey)
  BY DEF PromotesAfterValidation, ValidateStaged
<1>4. StagedSlots' = StagedSlots
  BY DEF StagedSlots
<1>5. CommitIsValidated'
  BY <1>2, <1>3, <1>4 DEF CommitIsValidated
<1>6. CertificateHasKey' /\ RunsWithMatchingPair' /\ KeysAreKnown'
  BY DEF CertificateHasKey, RunsWithMatchingPair, KeysAreKnown
<1>7. OldCertificateMatches'
  BY DEF OldCertificateMatches, RunsWithMatchingPair
<1> QED
  BY <1>5, <1>6, <1>7

\* A rename of a commit: the verdict stands, and the operational certificate is
\* either still the old one or the one that was validated.
LEMMA ReplaceKeepsKeyInv ==
  ASSUME KeyInv, TypeInv', ReplaceWithTemp
  PROVE  CertStoreInv'
<1> USE DEF KeyInv, TypeInv, CertStoreInv
<1>1. FirstToRename \in todo /\ FirstToRename \in StagedSlots
  BY FirstIsToDo DEF TypeOK, Bookkeeping, ReplaceWithTemp
<1>2. /\ ValidateStaged' = ValidateStaged
      /\ MatchesKey' = MatchesKey
      /\ MatchesPendingKey' = MatchesPendingKey
  BY RenameIsInvisible, SameViewSameVerdict DEF ReplaceWithTemp
<1>3. StagedSlots' = StagedSlots
  BY DEF StagedSlots, ReplaceWithTemp
<1>4. CommitIsValidated'
  <2>1. \A f \in StagedSlots \ todo' : disk'[f] = staged[f]
    BY <1>1 DEF ReplaceWithTemp, CommitIsValidated, TypeOK, StagedSlots
  <2> QED
    BY <1>2, <1>3, <2>1 DEF ReplaceWithTemp, CommitIsValidated
<1>5. CASE FirstToRename = Operational
  <2>1. disk'[Operational] = Effective(Operational)
    <3>1. Effective(Operational) = OwnContents(Operational)
      BY ServedCertificate DEF CommitIsValidated, ValidateStaged, Parses, ReplaceWithTemp
    <3> QED
      BY <1>1, <1>5, <3>1 DEF OwnContents, ReplaceWithTemp, TypeOK, StagedSlots
  <2>2. disk'[Operational].key \in {key, pendingKey}
    BY <2>1 DEF CommitIsValidated, ValidateStaged, ReplaceWithTemp, MatchesKey,
                MatchesPendingKey
  <2>3. CertificateHasKey' /\ RunsWithMatchingPair' /\ KeysAreKnown'
    BY <2>2 DEF CertificateHasKey, RunsWithMatchingPair, KeysAreKnown, ReplaceWithTemp
  <2>4. OldCertificateMatches'
    BY <1>1, <1>5 DEF OldCertificateMatches, ReplaceWithTemp, StagedSlots
  <2> QED
    BY <1>4, <2>3, <2>4
<1>6. CASE FirstToRename # Operational
  <2>1. disk'[Operational] = disk[Operational]
    BY <1>6 DEF ReplaceWithTemp, TypeOK, Slots
  <2>2. CertificateHasKey' /\ RunsWithMatchingPair' /\ KeysAreKnown'
    BY <2>1 DEF CertificateHasKey, RunsWithMatchingPair, KeysAreKnown, ReplaceWithTemp
  <2>3. OldCertificateMatches'
    BY <2>1, <1>6 DEF OldCertificateMatches, ReplaceWithTemp
  <2> QED
    BY <1>4, <2>2, <2>3
<1> QED
  BY <1>5, <1>6

\* The end of a commit: the key that follows is the validated certificate's.
LEMMA FinishKeepsKeyInv ==
  ASSUME NoRenameFails, KeyInv, TypeInv', CommitFinished
  PROVE  CertStoreInv'
<1> USE DEF KeyInv, TypeInv, CertStoreInv
<1>1. promotes = (~MatchesKey /\ MatchesPendingKey) /\ (MatchesKey \/ MatchesPendingKey)
  BY DEF CommitIsValidated, CommitFinished, ValidateStaged
<1>2. Effective(Operational) \in Certificate
      /\ Effective(Operational) = OwnContents(Operational)
  BY ServedCertificate DEF CommitIsValidated, CommitFinished, ValidateStaged, Parses
<1>3. staged[Operational] # NotStaged => disk[Operational] = Effective(Operational)
  BY <1>2 DEF CommitIsValidated, CommitFinished, OwnContents, StagedSlots, Slots
<1>4. staged[Operational] = NotStaged => disk[Operational] = Effective(Operational)
  BY <1>2 DEF OwnContents
<1>5. key' = disk[Operational].key
  <2>1. CASE promotes
    BY <2>1, <1>1, <1>3, <1>4 DEF CommitFinished, PromotePendingKey, NoRenameFails,
                                 MatchesPendingKey
  <2>2. CASE ~promotes
    BY <2>2, <1>1, <1>3, <1>4 DEF CommitFinished, MatchesKey
  <2> QED
    BY <2>1, <2>2
<1>6. disk' = disk /\ pc' = "idle" /\ made' = made
  BY DEF CommitFinished
<1>7. KeysAreKnown'
  BY <1>6, ConstantsAssumption
  DEF KeysAreKnown, CommitFinished, PromotePendingKey, Bookkeeping
<1>8. CertificateHasKey' /\ RunsWithMatchingPair'
  BY <1>5, <1>6 DEF CertificateHasKey, RunsWithMatchingPair
<1>9. CommitIsValidated' /\ OldCertificateMatches'
  BY <1>6 DEF CommitIsValidated, OldCertificateMatches
<1> QED
  BY <1>7, <1>8, <1>9

\* A start finishes the swap or finds nothing to finish.
LEMMA ReconcileKeepsKeyInv ==
  ASSUME NoRenameFails, KeyInv, TypeInv', ReconcilePendingKey
  PROVE  CertStoreInv'
<1> USE DEF KeyInv, TypeInv, CertStoreInv
<1>1. disk' = disk /\ made' = made /\ pc' = "idle"
  BY DEF ReconcilePendingKey
<1>2. CASE SwapUnfinished
  <2>1. key' = pendingKey /\ pendingKey' = NoKey
    BY <1>2 DEF ReconcilePendingKey, PromotePendingKey, NoRenameFails
  <2>2. disk[Operational].key = key'
    BY <1>2, <2>1 DEF SwapUnfinished
  <2> QED
    BY <1>1, <1>2, <2>1, <2>2 DEF SwapUnfinished, KeysAreKnown, CertificateHasKey,
       RunsWithMatchingPair, CommitIsValidated, OldCertificateMatches
<1>3. CASE ~SwapUnfinished
  <2>1. key' = key /\ pendingKey' = pendingKey
    BY <1>3 DEF ReconcilePendingKey
  <2>2. disk[Operational] \in Certificate => disk[Operational].key = key
    <3>1. disk[Operational] \in Certificate => disk[Operational].key # NoKey
      BY ConstantsAssumption DEF Certificate
    <3> QED
      BY <1>3, <3>1 DEF SwapUnfinished, CertificateHasKey
  <2> QED
    BY <1>1, <2>1, <2>2 DEF KeysAreKnown, CertificateHasKey, RunsWithMatchingPair,
       CommitIsValidated, OldCertificateMatches
<1> QED
  BY <1>2, <1>3

\* Without failing renames CertStoreInv is inductive.
LEMMA KeyInductive ==
  ASSUME NoRenameFails
  PROVE  /\ Init => KeyInv
         /\ KeyInv /\ [Next]_vars => KeyInv'
<1>1. Init => KeyInv
  <2> SUFFICES ASSUME Init PROVE KeyInv
    OBVIOUS
  <2>1. TypeInv
    BY TypeInductive
  <2>2. disk[Operational] \in Certificate => disk[Operational].key = key
    BY ConstantsAssumption DEF Init, UsableFiles, Slots
  <2> QED
    BY <2>1, <2>2 DEF Init, KeyInv, TypeInv, CertStoreInv, KeysAreKnown,
       CertificateHasKey, RunsWithMatchingPair, CommitIsValidated, OldCertificateMatches
<1>2. KeyInv /\ [Next]_vars => KeyInv'
  <2> SUFFICES ASSUME KeyInv, [Next]_vars PROVE CertStoreInv'
    BY TypeInductive DEF KeyInv
  <2>0. TypeInv /\ TypeInv' /\ CertStoreInv
    BY TypeInductive DEF KeyInv
  <2>q. ASSUME UNCHANGED diskVars, pc # "commit", pc' # "commit", pc' = pc \/ pc' = "down"
        PROVE  CertStoreInv'
    BY <2>0, <2>q DEF diskVars, TypeInv, CertStoreInv, KeysAreKnown, CertificateHasKey,
       RunsWithMatchingPair, CommitIsValidated, OldCertificateMatches
  <2>1. CASE Crash
    BY <2>0, <2>1 DEF Crash, diskVars, TypeInv, CertStoreInv, KeysAreKnown,
       CertificateHasKey, RunsWithMatchingPair, CommitIsValidated, OldCertificateMatches
  <2>2. CASE ReconcilePendingKey
    BY <2>0, <2>2, ReconcileKeepsKeyInv
  <2>3. ASSUME NEW f \in Slots, NEW c, Write(f, c) \/ Resize(f, c) \/ RejectWrite(f)
        PROVE  CertStoreInv'
    BY <2>3, <2>q DEF Write, Resize, RejectWrite
  <2>4. CASE DiscardStaged \/ ActivateRefused
    BY <2>4, <2>q DEF DiscardStaged, ActivateRefused
  <2>5. CASE CommitStaged
    BY <2>0, <2>5, CommitKeepsKeyInv
  <2>6. CASE ReplaceWithTemp
    BY <2>0, <2>6, ReplaceKeepsKeyInv
  <2>7. CASE ReplaceFails
    BY <2>7 DEF ReplaceFails, NoRenameFails
  <2>8. CASE CommitFinished
    BY <2>0, <2>8, FinishKeepsKeyInv
  <2>9. ASSUME NEW k \in Keys, GenerateKeyAndCsr(k) PROVE CertStoreInv'
    <3>1. k # key
      BY <2>0, <2>9 DEF GenerateKeyAndCsr, CertStoreInv, KeysAreKnown
    <3>2. disk[Operational].key = key
      BY <2>0, <2>9 DEF GenerateKeyAndCsr, CertStoreInv, RunsWithMatchingPair
    <3> QED
      BY <2>0, <2>9, <3>1, <3>2 DEF GenerateKeyAndCsr, TypeInv, CertStoreInv,
         KeysAreKnown, CertificateHasKey, RunsWithMatchingPair, CommitIsValidated,
         OldCertificateMatches
  <2>10. CASE ReplaceCsr
    BY <2>0, <2>10 DEF ReplaceCsr, TypeInv, CertStoreInv, KeysAreKnown,
       CertificateHasKey, RunsWithMatchingPair, CommitIsValidated, OldCertificateMatches
  <2>11. CASE UNCHANGED vars
    <3>1. /\ ValidateStaged' = ValidateStaged
          /\ MatchesKey' = MatchesKey
          /\ MatchesPendingKey' = MatchesPendingKey
      BY <2>11, SameFilesSameView, SameViewSameVerdict DEF vars
    <3> QED
      BY <2>0, <2>11, <3>1 DEF vars, TypeInv, CertStoreInv, KeysAreKnown,
         CertificateHasKey, RunsWithMatchingPair, CommitIsValidated,
         OldCertificateMatches, StagedSlots
  <2> QED
    BY <2>1, <2>2, <2>3, <2>4, <2>5, <2>6, <2>7, <2>8, <2>9, <2>10, <2>11 DEF Next
<1> QED
  BY <1>1, <1>2

\* With renames that do not fail, a stop anywhere leaves the hub the key of the
\* certificate on disk.
THEOREM KeyIsNeverLost ==
  ASSUME NoRenameFails
  PROVE  Spec => []CertificateHasKey
<1>1. KeyInv => CertificateHasKey
  BY DEF KeyInv, CertStoreInv
<1> QED
  BY <1>1, KeyInductive, PTL DEF Spec

\* With renames that do not fail, a running hub's certificate and key agree
\* between any two requests.
THEOREM PairAlwaysMatches ==
  ASSUME NoRenameFails
  PROVE  Spec => []RunsWithMatchingPair
<1>1. KeyInv => RunsWithMatchingPair
  BY DEF KeyInv, CertStoreInv
<1> QED
  BY <1>1, KeyInductive, PTL DEF Spec

-----------------------------------------------------------------------------
\* When every rename of a commit is done, the files are the set that was validated
\* on the staged view, the fallback of slot 2 included.
LEMMA CompleteCommitIsUsable ==
  ASSUME TypeInv, CommitIsValidated, pc = "commit", todo = {}
  PROVE  UsableFiles(disk, disk[Operational].key)
<1> DEFINE OnDisk(f) == IF f = Issuer2 /\ disk[f] = NoFile THEN disk[Issuer1] ELSE disk[f]
<1> DEFINE issuers == {OnDisk(f) : f \in IssuerInstances} \ {Empty, NoFile}
<1> USE DEF TypeInv
<1>1. \A f \in Slots : OwnContents(f) = disk[f]
  BY DEF CommitIsValidated, StagedSlots, OwnContents
<1>2. ValidateStaged
  BY DEF CommitIsValidated
<1>3. disk[Operational] = Effective(Operational)
  BY <1>1, <1>2, ServedCertificate DEF ValidateStaged, Parses, Slots
<1>4. \A f \in IssuerInstances : Effective(f) = IF OnDisk(f) = NoFile THEN Empty ELSE OnDisk(f)
  <2>1. \A f \in IssuerInstances : Read(f) = OnDisk(f)
    <3>1. \A f \in Slots : staged[f] # NotStaged => disk[f] # NoFile
      BY ConstantsAssumption DEF TypeOK, CommitIsValidated, StagedSlots, Contents
    <3>2. \A f \in IssuerInstances : FallbackInstance(f) \in Slots
      BY DEF FallbackInstance, IssuerInstances, Slots
    <3> QED
      BY <1>1, <3>1, <3>2 DEF Read, FallbackInstance, IssuerInstances, Slots
  <2> QED
    BY <2>1 DEF Effective
<1>5. issuers = EffectiveIssuers
  <2>1. \A f \in IssuerInstances : OnDisk(f) \notin {Empty, NoFile} => Effective(f) = OnDisk(f)
    BY <1>4
  <2>2. \A f \in IssuerInstances : Effective(f) # Empty => Effective(f) = OnDisk(f)
    BY <1>4
  <2>3. \A f \in IssuerInstances : Effective(f) # Empty => OnDisk(f) \notin {Empty, NoFile}
    BY <1>4
  <2> HIDE DEF OnDisk
  <2> QED
    BY <2>1, <2>2, <2>3, ConstantsAssumption DEF EffectiveIssuers
<1>6. EffectiveIssuers \subseteq Certificate
  <2>1. EffectiveIssuers \subseteq Contents
    BY EffectiveType DEF EffectiveIssuers, IssuerInstances, Slots
  <2> QED
    BY <1>2, <2>1 DEF EffectiveIssuers, Contents, ValidateStaged, Parses
<1>7. UsableFiles(disk, disk[Operational].key) <=>
        /\ disk[Operational] \in Certificate
        /\ disk[Operational].role = "hub"
        /\ issuers \subseteq Certificate
        /\ ChainsToIssuers(disk[Operational], issuers)
  BY DEF UsableFiles
<1> HIDE DEF issuers
<1> QED
  BY <1>2, <1>3, <1>5, <1>6, <1>7 DEF ValidateStaged, Parses

\* Files that are one complete commit's stay so until a rename, and are so again
\* when the last rename is done.
LEMMA IntactInductive ==
  ASSUME NoRenameFails
  PROVE  /\ Init => IntactFilesAreUsable
         /\ KeyInv /\ IntactFilesAreUsable /\ [Next]_vars => IntactFilesAreUsable'
<1>1. Init => IntactFilesAreUsable
  BY DEF Init, IntactFilesAreUsable, UsableFiles, Slots
<1>2. ASSUME KeyInv, IntactFilesAreUsable, [Next]_vars PROVE IntactFilesAreUsable'
  <2>0. TypeInv /\ CommitIsValidated
    BY <1>2 DEF KeyInv, CertStoreInv
  <2>u. ASSUME disk' = disk PROVE UsableFiles(disk, disk[Operational].key)' <=>
                                  UsableFiles(disk, disk[Operational].key)
    BY <2>u DEF UsableFiles
  <2>q. ASSUME UNCHANGED <<disk, intact>>, pc # "commit"
        PROVE  IntactFilesAreUsable'
    BY <1>2, <2>q, <2>u DEF IntactFilesAreUsable, FilesUntouched
  <2>1. CASE Crash
    <3>1. disk' = disk /\ pc' = "down"
      BY <2>1 DEF Crash, diskVars
    <3>2. CASE pc = "commit" /\ todo # StagedSlots
      <4>1. intact' => UsableFiles(disk, disk[Operational].key)
        BY <2>0, <2>1, <3>2, CompleteCommitIsUsable DEF Crash
      <4> QED
        BY <3>1, <2>u, <4>1 DEF IntactFilesAreUsable
    <3>3. CASE ~(pc = "commit" /\ todo # StagedSlots)
      BY <1>2, <2>1, <3>1, <3>3, <2>u DEF Crash, IntactFilesAreUsable, FilesUntouched
    <3> QED
      BY <3>2, <3>3
  <2>2. CASE ReconcilePendingKey
    BY <2>2, <2>q DEF ReconcilePendingKey
  <2>3. ASSUME NEW f \in Slots, NEW c, Write(f, c) \/ Resize(f, c) \/ RejectWrite(f)
        PROVE  IntactFilesAreUsable'
    BY <2>3, <2>q DEF Write, Resize, RejectWrite, diskVars
  <2>4. CASE DiscardStaged \/ ActivateRefused \/ CommitStaged
    BY <2>4, <2>q DEF DiscardStaged, ActivateRefused, CommitStaged, diskVars
  <2>5. CASE ReplaceWithTemp
    <3>1. FirstToRename \in todo /\ FirstToRename \in StagedSlots
      BY <2>0, <2>5, FirstIsToDo DEF TypeInv, TypeOK, Bookkeeping, ReplaceWithTemp
    <3>2. todo' # StagedSlots'
      BY <2>5, <3>1 DEF ReplaceWithTemp, StagedSlots
    <3> QED
      BY <2>5, <3>2 DEF IntactFilesAreUsable, FilesUntouched, ReplaceWithTemp
  <2>6. CASE ReplaceFails
    BY <2>6 DEF ReplaceFails, NoRenameFails
  <2>7. CASE CommitFinished
    <3>1. UsableFiles(disk, disk[Operational].key)
      BY <2>0, <2>7, CompleteCommitIsUsable DEF CommitFinished
    <3> QED
      BY <2>7, <3>1, <2>u DEF IntactFilesAreUsable, CommitFinished
  <2>8. ASSUME NEW k \in Keys, GenerateKeyAndCsr(k) PROVE IntactFilesAreUsable'
    BY <2>8, <2>q DEF GenerateKeyAndCsr
  <2>9. CASE ReplaceCsr
    BY <2>9, <2>q DEF ReplaceCsr
  <2>10. CASE UNCHANGED vars
    BY <1>2, <2>10, <2>u DEF vars, IntactFilesAreUsable, FilesUntouched, StagedSlots
  <2> QED
    BY <1>2, <2>1, <2>2, <2>3, <2>4, <2>5, <2>6, <2>7, <2>8, <2>9, <2>10 DEF Next
<1> QED
  BY <1>1, <1>2

\* With renames that do not fail, every activation that was not cut short leaves
\* files the hub can run on: CommitStaged puts on disk what ValidateStaged checked.
THEOREM ActivationIsFaithful ==
  ASSUME NoRenameFails
  PROVE  Spec => []ActivatedFilesAreUsable
<1> DEFINE Inv == KeyInv /\ IntactFilesAreUsable
<1>1. Init => Inv
  BY KeyInductive, IntactInductive
<1>2. Inv /\ [Next]_vars => Inv'
  BY KeyInductive, IntactInductive
<1>3. Inv => ActivatedFilesAreUsable
  BY DEF KeyInv, CertStoreInv, RunsWithMatchingPair, IntactFilesAreUsable,
     FilesUntouched, ActivatedFilesAreUsable, UsableFiles
<1> QED
  BY <1>1, <1>2, <1>3, PTL DEF Spec

-----------------------------------------------------------------------------
\* The first rename of a commit that changes File 1 is the change of identity: it
\* certifies the key in use, or adopts the requested one.
LEMMA ReplaceRefinesIdentity ==
  ASSUME KeyInv, KeyInv', ReplaceWithTemp
  PROVE  [Identity!IdentityNext]_(Identity!identityVars)
<1> USE DEF KeyInv, TypeInv, CertStoreInv
<1>0. key' = key /\ pendingKey' = pendingKey
  BY DEF ReplaceWithTemp
<1>1. CASE FirstToRename # Operational
  <2>1. disk'[Operational] = disk[Operational]
    BY <1>1 DEF ReplaceWithTemp, TypeOK, Slots
  <2> QED
    BY <1>0, <2>1 DEF Identity!identityVars, SwapUnfinished, CertifiedKey
<1>2. CASE FirstToRename = Operational
  <2>1. Operational \in todo /\ staged[Operational] # NotStaged
    BY <1>2, FirstIsToDo DEF TypeOK, Bookkeeping, ReplaceWithTemp, StagedSlots
  <2>2. ~SwapUnfinished
    BY <2>1 DEF OldCertificateMatches, ReplaceWithTemp, SwapUnfinished
  <2>3. disk'[Operational] = Effective(Operational)
    <3>1. Effective(Operational) = OwnContents(Operational)
      BY ServedCertificate DEF CommitIsValidated, ValidateStaged, Parses, ReplaceWithTemp
    <3> QED
      BY <1>2, <2>1, <3>1 DEF OwnContents, ReplaceWithTemp, TypeOK, Slots
  <2>4. /\ disk'[Operational] \in Certificate
        /\ disk'[Operational].key \in {key, pendingKey}
    BY <2>3 DEF CommitIsValidated, ValidateStaged, Parses, MatchesKey, MatchesPendingKey,
               ReplaceWithTemp
  <2>5. CertifiedKey' = disk'[Operational].key
    BY <2>4 DEF CertifiedKey
  <2>6. CASE disk'[Operational].key = key
    <3>1. ~SwapUnfinished'
      BY <1>0, <2>6 DEF SwapUnfinished
    <3> QED
      BY <1>0, <2>2, <2>5, <2>6, <3>1 DEF Identity!IdentityNext, Identity!Certify
  <2>7. CASE disk'[Operational].key # key
    <3>1. disk'[Operational].key = pendingKey /\ pendingKey \in Keys
      BY <2>4, <2>7, ConstantsAssumption DEF TypeOK, Certificate
    <3>2. SwapUnfinished'
      BY <1>0, <2>4, <2>7, <3>1, ConstantsAssumption DEF SwapUnfinished
    <3> QED
      BY <1>0, <2>2, <2>5, <3>1, <3>2 DEF Identity!IdentityNext, Identity!Adopt
  <2> QED
    BY <2>6, <2>7
<1> QED
  BY <1>1, <1>2

\* Putting the pending key in its place changes files only: the identity is the
\* certificate's key before and after.
LEMMA SwapIsInvisible ==
  ASSUME SwapUnfinished, PromotePendingKey, disk' = disk
  PROVE  UNCHANGED Identity!identityVars
<1>1. ~SwapUnfinished'
  BY DEF SwapUnfinished, PromotePendingKey
<1>2. CertifiedKey' = CertifiedKey
  BY DEF CertifiedKey
<1> QED
  BY <1>1, <1>2 DEF Identity!identityVars, PromotePendingKey

\* The end of a commit that promotes the pending key finishes an unfinished swap.
LEMMA FinishRefinesIdentity ==
  ASSUME NoRenameFails, KeyInv, CommitFinished
  PROVE  UNCHANGED Identity!identityVars
<1> USE DEF KeyInv, TypeInv, CertStoreInv
<1>1. CASE ~promotes
  BY <1>1 DEF CommitFinished, Identity!identityVars, SwapUnfinished, CertifiedKey
<1>2. CASE promotes
  <2>1. ~MatchesKey /\ MatchesPendingKey /\ ValidateStaged
    BY <1>2 DEF CommitIsValidated, CommitFinished
  <2>2. disk[Operational] = Effective(Operational) /\ disk[Operational] \in Certificate
    BY <2>1, ServedCertificate DEF ValidateStaged, Parses, OwnContents, CommitIsValidated,
       CommitFinished, StagedSlots, Slots
  <2>3. SwapUnfinished
    BY <1>2, <2>1, <2>2, ConstantsAssumption DEF SwapUnfinished, MatchesKey,
       MatchesPendingKey, Bookkeeping, CommitFinished
  <2> QED
    BY <1>2, <2>3, SwapIsInvisible DEF CommitFinished, NoRenameFails
<1> QED
  BY <1>1, <1>2

\* The two files that are renamed one after the other, cut off at any point and
\* repaired at the next start, implement the atomic change of HubIdentity.
THEOREM StoreImplementsIdentity ==
  ASSUME NoRenameFails
  PROVE  Spec => ImplementsIdentity
<1>1. Init => Identity!IdentityInit
  <2> SUFFICES ASSUME Init PROVE Identity!IdentityInit
    OBVIOUS
  <2>1. ~SwapUnfinished
    BY DEF Init, SwapUnfinished
  <2>2. CertifiedKey \in {key, NoKey}
    BY ConstantsAssumption DEF Init, UsableFiles, CertifiedKey, Slots
  <2> QED
    BY <2>1, <2>2 DEF Init, Identity!IdentityInit
<1>2. KeyInv /\ KeyInv' /\ [Next]_vars => [Identity!IdentityNext]_(Identity!identityVars)
  <2> SUFFICES ASSUME KeyInv, KeyInv', [Next]_vars
               PROVE  [Identity!IdentityNext]_(Identity!identityVars)
    OBVIOUS
  <2>q. ASSUME UNCHANGED <<disk, key, pendingKey>>
        PROVE  UNCHANGED Identity!identityVars
    BY <2>q DEF Identity!identityVars, SwapUnfinished, CertifiedKey
  <2>1. CASE Crash
    BY <2>1, <2>q DEF Crash, diskVars
  <2>2. CASE ReconcilePendingKey
    BY <2>2, <2>q, SwapIsInvisible DEF ReconcilePendingKey
  <2>3. ASSUME NEW f \in Slots, NEW c, Write(f, c) \/ Resize(f, c) \/ RejectWrite(f)
        PROVE  UNCHANGED Identity!identityVars
    BY <2>3, <2>q DEF Write, Resize, RejectWrite, diskVars
  <2>4. CASE DiscardStaged \/ ActivateRefused \/ CommitStaged
    BY <2>4, <2>q DEF DiscardStaged, ActivateRefused, CommitStaged, diskVars
  <2>5. CASE ReplaceWithTemp
    BY <2>5, ReplaceRefinesIdentity
  <2>6. CASE ReplaceFails
    BY <2>6, <2>q DEF ReplaceFails, diskVars
  <2>7. CASE CommitFinished
    BY <2>7, FinishRefinesIdentity
  <2>8. ASSUME NEW k \in Keys, GenerateKeyAndCsr(k)
        PROVE  Identity!Request(k)
    <3>1. /\ k # key /\ k # pendingKey /\ k # NoKey
          /\ disk[Operational] \in Certificate /\ disk[Operational].key = key
      BY <2>8, ConstantsAssumption DEF GenerateKeyAndCsr, KeyInv, TypeInv, TypeOK,
         CertStoreInv, KeysAreKnown, RunsWithMatchingPair
    <3>2. ~SwapUnfinished /\ ~SwapUnfinished' /\ CertifiedKey = key /\ CertifiedKey' = key
      BY <2>8, <3>1 DEF GenerateKeyAndCsr, SwapUnfinished, CertifiedKey
    <3> QED
      BY <2>8, <3>1, <3>2 DEF GenerateKeyAndCsr, Identity!Request
  <2>9. CASE ReplaceCsr
    BY <2>9, <2>q DEF ReplaceCsr
  <2>10. CASE UNCHANGED vars
    BY <2>10, <2>q DEF vars
  <2> QED
    BY <2>1, <2>2, <2>3, <2>4, <2>5, <2>6, <2>7, <2>8, <2>9, <2>10
    DEF Next, Identity!IdentityNext
<1> QED
  BY <1>1, <1>2, KeyInductive, PTL DEF Spec, ImplementsIdentity, Identity!IdentitySpec

-----------------------------------------------------------------------------
(***************************************************************************)
(* Whatever fails: what follows does not need renames that succeed.        *)
(***************************************************************************)

\* What is on disk was checked, and so is what a commit is about to put there.
CheckedInv ==
  /\ TypeInv
  /\ KeysAreKnown
  /\ CommitIsValidated
  /\ OnlyCheckedFilesOnDisk

\* A staged copy is what its File object serves.
LEMMA StagedIsServed ==
  ASSUME TypeOK, NEW f \in StagedSlots
  PROVE  Effective(f) = staged[f]
<1>1. FallbackInstance(f) = f /\ OwnContents(f) = staged[f]
  BY DEF FallbackInstance, OwnContents, StagedSlots
<1>2. staged[f] \in Contents /\ NoFile \notin Contents
  BY ConstantsAssumption DEF TypeOK, StagedSlots, Contents
<1> QED
  BY <1>1, <1>2 DEF Effective, Read

\* A rename of a commit puts a checked file in place of the old one: no garbage, and
\* as the hub's certificate one for a key the hub has made.
LEMMA ReplaceKeepsFilesChecked ==
  ASSUME CheckedInv, ReplaceWithTemp
  PROVE  OnlyCheckedFilesOnDisk'
<1> USE DEF CheckedInv, TypeInv
<1>1. FirstToRename \in todo /\ FirstToRename \in StagedSlots /\ FirstToRename \in Slots
  BY FirstIsToDo DEF TypeOK, Bookkeeping, ReplaceWithTemp
<1>2. /\ disk'[FirstToRename] = Effective(FirstToRename)
      /\ \A f \in Slots \ {FirstToRename} : disk'[f] = disk[f]
      /\ made' = made
  BY <1>1, StagedIsServed DEF ReplaceWithTemp, TypeOK
<1>3. ValidateStaged
  BY DEF CommitIsValidated, ReplaceWithTemp
<1>4. Garbage \notin Certificate /\ NoKey \notin Keys \cup CAs
  BY ConstantsAssumption
<1>5. CASE FirstToRename = Operational
  <2>1. /\ disk'[Operational] \in Certificate
        /\ disk'[Operational].role = "hub"
        /\ disk'[Operational].key \in {key, pendingKey}
    BY <1>2, <1>3, <1>5 DEF ValidateStaged, Parses, MatchesKey, MatchesPendingKey
  <2>2. disk'[Operational].key \in made
    BY <1>4, <2>1 DEF KeysAreKnown, Certificate
  <2> QED
    BY <1>2, <1>4, <1>5, <2>1, <2>2 DEF OnlyCheckedFilesOnDisk
<1>6. CASE FirstToRename # Operational
  <2>1. FirstToRename \in IssuerInstances
    BY <1>1, <1>6 DEF IssuerInstances, Slots
  <2>2. Effective(FirstToRename) # Garbage
    BY <1>3, <2>1, ConstantsAssumption DEF ValidateStaged, Parses, EffectiveIssuers
  <2>3. Operational \in Slots
    BY DEF Slots
  <2> QED
    BY <1>2, <1>6, <2>2, <2>3 DEF OnlyCheckedFilesOnDisk
<1> QED
  BY <1>5, <1>6

\* A rename of a commit leaves the verdict of its validation as it was.
LEMMA ReplaceKeepsVerdict ==
  ASSUME CheckedInv, ReplaceWithTemp
  PROVE  CommitIsValidated'
<1> USE DEF CheckedInv, TypeInv
<1>1. FirstToRename \in todo /\ FirstToRename \in StagedSlots
  BY FirstIsToDo DEF TypeOK, Bookkeeping, ReplaceWithTemp
<1>2. /\ ValidateStaged' = ValidateStaged
      /\ MatchesKey' = MatchesKey
      /\ MatchesPendingKey' = MatchesPendingKey
  BY RenameIsInvisible, SameViewSameVerdict DEF ReplaceWithTemp
<1>3. StagedSlots' = StagedSlots
  BY DEF StagedSlots, ReplaceWithTemp
<1>4. \A f \in StagedSlots \ todo' : disk'[f] = staged[f]
  BY <1>1 DEF ReplaceWithTemp, CommitIsValidated, TypeOK, StagedSlots
<1> QED
  BY <1>2, <1>3, <1>4 DEF ReplaceWithTemp, CommitIsValidated

\* Checked files stay on disk through every step, failing or not.
LEMMA CheckedInductive ==
  /\ Init => CheckedInv
  /\ CheckedInv /\ [Next]_vars => CheckedInv'
<1>1. Init => CheckedInv
  <2> SUFFICES ASSUME Init PROVE CheckedInv
    OBVIOUS
  <2>1. ASSUME \A f \in Slots : disk[f] = NoFile PROVE OnlyCheckedFilesOnDisk
    <3>1. disk[Operational] = NoFile
      BY <2>1 DEF Slots
    <3>2. NoFile # Garbage
      BY ConstantsAssumption
    <3> QED
      BY <2>1, <3>1, <3>2 DEF OnlyCheckedFilesOnDisk
  <2>2. ASSUME UsableFiles(disk, key) PROVE OnlyCheckedFilesOnDisk
    <3>1. UNION {Uploads[f] : f \in Slots} \subseteq Certificate
      BY ConstantsAssumption
    <3>2. \A f \in Slots : disk[f] \in Certificate \cup {NoFile}
      BY <3>1 DEF Init
    <3>3. Garbage \notin Certificate \cup {NoFile}
      BY ConstantsAssumption
    <3>4. \A f \in Slots : disk[f] # Garbage
      BY <3>2, <3>3
    <3> QED
      BY <2>2, <3>4 DEF UsableFiles, OnlyCheckedFilesOnDisk, Init
  <2> QED
    BY <2>1, <2>2, TypeInductive DEF Init, CheckedInv, KeysAreKnown, CommitIsValidated
<1>2. CheckedInv /\ [Next]_vars => CheckedInv'
  <2> SUFFICES ASSUME CheckedInv, [Next]_vars PROVE CheckedInv'
    OBVIOUS
  <2>0. TypeInv /\ TypeInv'
    BY TypeInductive DEF CheckedInv
  <2>q. ASSUME UNCHANGED diskVars, pc' # "commit" PROVE CheckedInv'
    BY <2>0, <2>q DEF diskVars, CheckedInv, KeysAreKnown, CommitIsValidated,
       OnlyCheckedFilesOnDisk
  <2>1. CASE Crash
    BY <2>1, <2>q DEF Crash
  <2>2. CASE ReconcilePendingKey
    BY <2>0, <2>2, ConstantsAssumption DEF ReconcilePendingKey, PromotePendingKey, SwapUnfinished,
       CheckedInv, KeysAreKnown, CommitIsValidated, OnlyCheckedFilesOnDisk
  <2>3. ASSUME NEW f \in Slots, NEW c, Write(f, c) \/ Resize(f, c) \/ RejectWrite(f)
        PROVE  CheckedInv'
    BY <2>3, <2>q DEF Write, Resize, RejectWrite
  <2>4. CASE DiscardStaged \/ ActivateRefused \/ ReplaceFails
    BY <2>4, <2>q DEF DiscardStaged, ActivateRefused, ReplaceFails
  <2>5. CASE CommitStaged
    <3>1. \A f : Effective(f)' = Effective(f)
      BY <2>5, SameFilesSameView DEF CommitStaged, diskVars
    <3>2. ValidateStaged' /\ MatchesKey' = MatchesKey /\ MatchesPendingKey' = MatchesPendingKey
      BY <2>5, <3>1, SameViewSameVerdict DEF CommitStaged, diskVars
    <3>3. promotes' = (~MatchesKey /\ MatchesPendingKey)
      BY <2>5 DEF CommitStaged, PromotesAfterValidation, ValidateStaged
    <3>4. StagedSlots' = StagedSlots
      BY <2>5 DEF CommitStaged, StagedSlots
    <3>5. CommitIsValidated'
      BY <2>5, <3>2, <3>3, <3>4 DEF CommitIsValidated, CommitStaged
    <3> QED
      BY <2>0, <2>5, <3>5 DEF CommitStaged, diskVars, CheckedInv, KeysAreKnown,
         OnlyCheckedFilesOnDisk
  <2>6. CASE ReplaceWithTemp
    BY <2>0, <2>6, ReplaceKeepsFilesChecked, ReplaceKeepsVerdict
    DEF ReplaceWithTemp, CheckedInv, KeysAreKnown
  <2>7. CASE CommitFinished
    BY <2>0, <2>7, ConstantsAssumption DEF CommitFinished, PromotePendingKey, Bookkeeping,
       TypeInv, CheckedInv, KeysAreKnown, CommitIsValidated, OnlyCheckedFilesOnDisk
  <2>8. ASSUME NEW k \in Keys, GenerateKeyAndCsr(k) PROVE CheckedInv'
    BY <2>0, <2>8 DEF GenerateKeyAndCsr, CheckedInv, KeysAreKnown, CommitIsValidated,
       OnlyCheckedFilesOnDisk
  <2>9. CASE ReplaceCsr
    BY <2>0, <2>9 DEF ReplaceCsr, CheckedInv, KeysAreKnown, CommitIsValidated,
       OnlyCheckedFilesOnDisk
  <2>10. CASE UNCHANGED vars
    <3>1. /\ ValidateStaged' = ValidateStaged
          /\ MatchesKey' = MatchesKey
          /\ MatchesPendingKey' = MatchesPendingKey
      BY <2>10, SameFilesSameView, SameViewSameVerdict DEF vars
    <3> QED
      BY <2>0, <2>10, <3>1 DEF vars, CheckedInv, KeysAreKnown, CommitIsValidated,
         OnlyCheckedFilesOnDisk, StagedSlots
  <2> QED
    BY <2>1, <2>2, <2>3, <2>4, <2>5, <2>6, <2>7, <2>8, <2>9, <2>10 DEF Next
<1> QED
  BY <1>1, <1>2

\* Whatever fails and wherever the process stops, a certificate file on disk is never
\* replaced by what is none, and the hub's own is for a key it has made.
THEOREM OnlyCheckedFilesAreInstalled == Spec => []OnlyCheckedFilesOnDisk
<1>1. CheckedInv => OnlyCheckedFilesOnDisk
  BY DEF CheckedInv
<1> QED
  BY <1>1, CheckedInductive, PTL DEF Spec

\* A commit that fails between two renames keeps its stage, and what is staged, over
\* the files already replaced, passes the validation it has passed before.
THEOREM FailedCommitKeepsItsStage == Spec => FailedCommitCanBeRetried
<1> DEFINE Retried == pc = "commit" /\ todo # {} /\ pc' = "idle"
                        => StagedSlots' # {} /\ ValidateStaged'
<1>1. CheckedInv /\ [Next]_vars => [Retried]_vars
  <2> SUFFICES ASSUME CheckedInv, Next, pc = "commit", todo # {}, pc' = "idle"
               PROVE  StagedSlots' # {} /\ ValidateStaged'
    OBVIOUS
  <2>1. ReplaceFails
    BY DEF Next, Crash, ReconcilePendingKey, Write, Resize, RejectWrite, DiscardStaged,
       ActivateRefused, CommitStaged, ReplaceWithTemp, CommitFinished, GenerateKeyAndCsr, ReplaceCsr
  <2>2. ValidateStaged' = ValidateStaged
    BY <2>1, SameFilesSameView, SameViewSameVerdict DEF ReplaceFails, diskVars
  <2>3. StagedSlots' = StagedSlots
    BY <2>1 DEF ReplaceFails, StagedSlots
  <2> QED
    BY <2>2, <2>3 DEF CheckedInv, CommitIsValidated
<1> QED
  BY <1>1, CheckedInductive, PTL DEF Spec, FailedCommitCanBeRetried

-----------------------------------------------------------------------------
(***************************************************************************)
(* The hub                                                                 *)
(***************************************************************************)

NoBundleFails == "bundle" \notin MayFail


-----------------------------------------------------------------------------
\* Each step of the hub is a step of the store or leaves it alone.
LEMMA HubStepsAreStoreSteps ==
  /\ HubInit => Init
  /\ [HubNext]_allVars => [Next]_vars
<1>1. HubInit => Init
  BY DEF HubInit
<1>2. ASSUME [HubNext]_allVars PROVE [Next]_vars
  <2>1. CASE StartUp
    BY <2>1 DEF StartUp, Next
  <2>2. CASE StopProcess
    BY <2>2 DEF StopProcess, Next
  <2>3. CASE StoreRequest
    BY <2>3 DEF StoreRequest, Next
  <2>4. CASE Committed
    BY <2>4 DEF Committed, Next
  <2>5. CASE RefreshTrust \/ StartListening \/ CrlChanged \/ ReloadCredentials
    BY <2>5 DEF RefreshTrust, StartListening, CrlChanged, ReloadCredentials
  <2>6. CASE UNCHANGED allVars
    BY <2>6 DEF allVars
  <2> QED
    BY <1>2, <2>1, <2>2, <2>3, <2>4, <2>5, <2>6 DEF HubNext
<1> QED
  BY <1>1, <1>2

\* main.cpp drives the store and never goes around it: whatever is shown above
\* of the store holds while the bundle, the listener and the reload run.
THEOREM HubRunsTheStore == HubSpec => Spec
BY HubStepsAreStoreSteps, PTL DEF HubSpec, Spec

-----------------------------------------------------------------------------
(***************************************************************************)
(* Whatever fails                                                          *)
(***************************************************************************)

CoherentInv == CheckedInv /\ ListenerIsCoherent

\* What lws_create_context has loaded passed the checks of an activation.
LEMMA LoadedIsCoherent ==
  ASSUME CheckedInv, FilesLoad, tls' = LoadedCredentials, made' = made
  PROVE  ListenerIsCoherent'
<1>1. disk[Operational] \in Certificate /\ disk[Operational] # NoFile
  BY ConstantsAssumption DEF FilesLoad
<1>2. disk[Operational].role = "hub" /\ disk[Operational].key \in made
  BY <1>1 DEF CheckedInv, OnlyCheckedFilesOnDisk
<1> QED
  BY <1>2 DEF FilesLoad, LoadedCredentials, ListenerIsCoherent

\* Every step keeps the listener coherent, failing or not.
LEMMA CoherentInductive ==
  /\ HubInit => CoherentInv
  /\ CoherentInv /\ [HubNext]_allVars => CoherentInv'
<1>1. HubInit => CoherentInv
  BY CheckedInductive DEF HubInit, CoherentInv, ListenerIsCoherent
<1>2. ASSUME CoherentInv, [HubNext]_allVars PROVE CoherentInv'
  <2>0. CheckedInv /\ CheckedInv'
    BY <1>2, HubStepsAreStoreSteps, CheckedInductive DEF CoherentInv
  <2> SUFFICES ListenerIsCoherent'
    BY <2>0 DEF CoherentInv
  <2>q. ASSUME tls' = tls PROVE ListenerIsCoherent'
    <3>1. made \subseteq made'
      <4>1. [Next]_vars
        BY <1>2, HubStepsAreStoreSteps
      <4>2. CASE Next
        BY <4>2 DEF Next, diskVars, Crash, ReconcilePendingKey, Write, Resize, RejectWrite,
           DiscardStaged, ActivateRefused, CommitStaged, ReplaceWithTemp, ReplaceFails,
           CommitFinished, GenerateKeyAndCsr, ReplaceCsr
      <4> QED
        BY <4>1, <4>2 DEF vars
    <3> QED
      BY <1>2, <2>q, <3>1 DEF CoherentInv, ListenerIsCoherent
  <2>1. CASE StartUp \/ StoreRequest \/ Committed \/ RefreshTrust \/ CrlChanged
             \/ UNCHANGED allVars
    BY <2>1, <2>q DEF StartUp, StoreRequest, Committed, RefreshTrust, CrlChanged,
       allVars, hubVars
  <2>2. CASE StopProcess
    BY <2>2 DEF StopProcess, ListenerIsCoherent
  <2>3. CASE StartListening
    BY <2>0, <2>3, LoadedIsCoherent DEF StartListening, vars
  <2>4. CASE ReloadCredentials
    <3>1. CASE FilesLoad
      BY <2>0, <2>4, <3>1, LoadedIsCoherent DEF ReloadCredentials, vars
    <3>2. CASE ~FilesLoad
      BY <2>4, <3>2 DEF ReloadCredentials, ListenerIsCoherent
    <3> QED
      BY <3>1, <3>2
  <2> QED
    BY <1>2, <2>1, <2>2, <2>3, <2>4 DEF HubNext
<1> QED
  BY <1>1, <1>2

\* Whatever fails and however an activation was cut short, a listener that is up
\* presents a checked certificate with the key it is for, and trusts somebody.
THEOREM ListenerStaysCoherent == HubSpec => []ListenerIsCoherent
<1>1. CoherentInv => ListenerIsCoherent
  BY DEF CoherentInv
<1> QED
  BY <1>1, CoherentInductive, PTL DEF HubSpec

-----------------------------------------------------------------------------
(***************************************************************************)
(* With renames that do not fail                                           *)
(***************************************************************************)

\* A process that is down has no listener and nothing pending in memory; between a
\* commit and its bundle there is no other request.
ProcessState ==
  /\ pc = "down" => tls = Closed /\ ~refresh /\ ~reload /\ staged = NothingStaged
  /\ refresh => pc = "idle"

\* No reload is outstanding and no activation is under way.
UpToDate == tls # Closed /\ ~reload /\ ~refresh /\ pc # "commit"

\* What was loaded last is what File 1 holds.
ServesFileOne == UpToDate => tls.cert = disk[Operational] /\ tls.key = tls.cert.key

\* Every step keeps the first part, failing renames or not.
LEMMA ProcessStateInductive ==
  /\ HubInit => ProcessState
  /\ ProcessState /\ [HubNext]_allVars => ProcessState'
<1> USE DEF ProcessState
<1>1. HubInit => ProcessState
  BY DEF HubInit, Init
<1>2. ASSUME ProcessState, [HubNext]_allVars PROVE ProcessState'
  <2>1. CASE StartUp
    BY <1>2, <2>1 DEF StartUp, ReconcilePendingKey
  <2>2. CASE StopProcess
    BY <2>2 DEF StopProcess, Crash
  <2>3. CASE StoreRequest
    <3>1. pc # "down" /\ pc' # "down" /\ ~refresh'
      BY <2>3 DEF StoreRequest, Write, Resize, RejectWrite, DiscardStaged, ActivateRefused,
         CommitStaged, ReplaceWithTemp, ReplaceFails, ReplaceCsr, GenerateKeyAndCsr, hubVars
    <3> QED
      BY <3>1
  <2>4. CASE Committed
    BY <2>4 DEF Committed, CommitFinished
  <2>5. CASE RefreshTrust \/ CrlChanged \/ StartListening \/ ReloadCredentials
    BY <1>2, <2>5 DEF RefreshTrust, CrlChanged, StartListening, ReloadCredentials,
       InMainLoop, vars
  <2>6. CASE UNCHANGED allVars
    BY <1>2, <2>6 DEF allVars, hubVars, vars
  <2> QED
    BY <1>2, <2>1, <2>2, <2>3, <2>4, <2>5, <2>6 DEF HubNext
<1> QED
  BY <1>1, <1>2

ServedInv == TypeInv /\ ProcessState /\ ServesFileOne

\* Without failing renames a commit that ends puts files in place and asks for the
\* bundle and the reload, and nothing else ever replaces a file.
LEMMA ServedInductive ==
  ASSUME NoRenameFails
  PROVE  /\ HubInit => ServedInv
         /\ ServedInv /\ [HubNext]_allVars => ServedInv'
<1>1. HubInit => ServedInv
  BY TypeInductive, ProcessStateInductive DEF HubInit, ServedInv, ServesFileOne, UpToDate
<1>2. ASSUME ServedInv, [HubNext]_allVars PROVE ServedInv'
  <2>0. TypeInv /\ TypeInv' /\ ProcessState /\ ProcessState' /\ ServesFileOne
    BY <1>2, HubStepsAreStoreSteps, TypeInductive, ProcessStateInductive DEF ServedInv
  <2> SUFFICES ServesFileOne'
    BY <2>0 DEF ServedInv
  <2> USE DEF ServesFileOne, UpToDate
  <2>1. CASE StartUp
    BY <2>0, <2>1 DEF StartUp, ReconcilePendingKey, ProcessState
  <2>2. CASE StopProcess
    BY <2>2 DEF StopProcess, Crash
  <2>3. ASSUME NEW f \in Slots, NEW c, Write(f, c) \/ Resize(f, c) \/ RejectWrite(f),
               UNCHANGED hubVars, ~refresh
        PROVE  ServesFileOne'
    BY <2>0, <2>3 DEF Write, Resize, RejectWrite, diskVars, hubVars
  <2>4. ASSUME DiscardStaged \/ ActivateRefused \/ CommitStaged \/ ReplaceWithTemp
                 \/ ReplaceCsr \/ \E k \in Keys : GenerateKeyAndCsr(k),
               UNCHANGED hubVars, ~refresh
        PROVE  ServesFileOne'
    BY <2>0, <2>4 DEF DiscardStaged, ActivateRefused, CommitStaged, ReplaceWithTemp,
       ReplaceCsr, GenerateKeyAndCsr, diskVars, hubVars
  <2>5. CASE StoreRequest
    BY <2>3, <2>4, <2>5 DEF StoreRequest, ReplaceFails, NoRenameFails
  <2>6. CASE Committed
    <3>1. promotes' = FALSE /\ pc' = "idle"
      BY <2>0, <2>6 DEF Committed, CommitFinished, NoRenameFails, TypeInv, TypeOK
    <3> QED
      BY <2>6, <3>1 DEF Committed
  <2>7. CASE RefreshTrust
    BY <2>0, <2>7 DEF RefreshTrust, vars
  <2>8. CASE CrlChanged
    BY <2>0, <2>8 DEF CrlChanged, InMainLoop, vars
  <2>9. CASE StartListening \/ ReloadCredentials
    BY <2>0, <2>9 DEF StartListening, ReloadCredentials, InMainLoop, LoadedCredentials,
       FilesLoad, vars
  <2>10. CASE UNCHANGED allVars
    BY <2>0, <2>10 DEF allVars, hubVars, vars
  <2> QED
    BY <1>2, <2>1, <2>2, <2>5, <2>6, <2>7, <2>8, <2>9, <2>10 DEF HubNext
<1> QED
  BY <1>1, <1>2

\* With no reload outstanding the listener presents the certificate File 1 holds, with
\* its key: the deferred reload misses no activation.
THEOREM ListenerFollowsActivation ==
  ASSUME NoRenameFails
  PROVE  HubSpec => []ListenerServesActivated
<1>1. ServedInv => ListenerServesActivated
  BY DEF ServedInv, ServesFileOne, UpToDate, ListenerServesActivated, Settled, InMainLoop
<1> QED
  BY <1>1, ServedInductive, PTL DEF HubSpec

-----------------------------------------------------------------------------
\* With nothing staged the bundle gets exactly the issuers of the files, slot 2's
\* fallback included.
LEMMA NothingStagedServesFiles ==
  ASSUME TypeOK, staged = NothingStaged
  PROVE  TrustedIssuers = EffectiveIssuersOnDisk
<1> DEFINE OnDisk(f) == IF disk[f] = NoFile THEN disk[Issuer1] ELSE disk[f]
<1>1. \A f \in Slots : staged[f] = NotStaged /\ disk[f] \in Contents \cup {NoFile}
  BY DEF NothingStaged, TypeOK
<1>2. \A f \in IssuerInstances : f \in Slots /\ FallbackInstance(f) \in Slots
  BY DEF FallbackInstance, IssuerInstances, Slots
<1>3. \A f \in IssuerInstances : Read(f) = OnDisk(f)
  BY <1>1, <1>2 DEF Read, OwnContents, FallbackInstance, IssuerInstances
<1>4. Issuer1 \in Slots
  BY DEF Slots
<1>5. \A f \in IssuerInstances : OnDisk(f) \in Contents \cup {NoFile}
  BY <1>1, <1>2, <1>4
<1>6. \A f \in IssuerInstances : Effective(f) \in Certificate <=> OnDisk(f) \in Certificate
  BY <1>3, ConstantsAssumption DEF Effective
<1>7. \A f \in IssuerInstances : OnDisk(f) \in Certificate => Effective(f) = OnDisk(f)
  BY <1>3, ConstantsAssumption DEF Effective
<1>8. \A f \in IssuerInstances : Effective(f) \notin {Empty, Garbage}
                                   <=> Effective(f) \in Certificate
  BY <1>2, EffectiveType, ConstantsAssumption DEF Contents
<1>9. EffectiveIssuersOnDisk = {OnDisk(f) : f \in IssuerInstances} \cap Certificate
  BY DEF EffectiveIssuersOnDisk
<1> HIDE DEF OnDisk
<1> QED
  BY <1>6, <1>7, <1>8, <1>9 DEF TrustedIssuers, EffectiveIssuers

\* A set a hub can run with names an issuer.
LEMMA UsableFilesHaveIssuer ==
  ASSUME NEW k, UsableFiles(disk, k)
  PROVE  EffectiveIssuersOnDisk # {}
<1> DEFINE OnDisk(f) == IF f = Issuer2 /\ disk[f] = NoFile THEN disk[Issuer1] ELSE disk[f]
<1>1. PICK c \in {OnDisk(f) : f \in IssuerInstances} \cap Certificate : TRUE
  BY DEF UsableFiles, ChainsToIssuers
<1>2. PICK f \in IssuerInstances : c = OnDisk(f)
  BY <1>1
<1>3. OnDisk(f) = IF disk[f] = NoFile THEN disk[Issuer1] ELSE disk[f]
  BY <1>2 DEF IssuerInstances, Issuer1, Issuer2
<1> QED
  BY <1>1, <1>2, <1>3 DEF EffectiveIssuersOnDisk

\* The bundle is written from the files between a commit and the next request, so it
\* holds their issuers, and the listener trusts it.
RefreshIsClean ==
  refresh => staged = NothingStaged /\ UsableFiles(disk, disk[Operational].key)

BundleFollowsFiles ==
  caPath = "bundle" /\ pc \notin {"down", "commit"} /\ ~refresh
    => bundle = EffectiveIssuersOnDisk

TrustFollowsFiles ==
  caPath = "bundle" /\ UpToDate => tls.trust = EffectiveIssuersOnDisk

TrustInv ==
  /\ KeyInv
  /\ ProcessState
  /\ RefreshIsClean
  /\ BundleFollowsFiles
  /\ TrustFollowsFiles

\* A start that finds an issuer writes the bundle from the files; the others keep
\* using slot 1's file.
LEMMA StartUpKeepsTrust ==
  ASSUME TrustInv, StartUp
  PROVE  RefreshIsClean' /\ BundleFollowsFiles' /\ TrustFollowsFiles'
<1> USE DEF TrustInv, ProcessState
<1>1. /\ pc = "down" /\ tls' = Closed /\ ~refresh'
      /\ EffectiveIssuersOnDisk' = EffectiveIssuersOnDisk
  BY DEF StartUp, ReconcilePendingKey, EffectiveIssuersOnDisk
<1>2. TrustedIssuers = EffectiveIssuersOnDisk
  BY <1>1, NothingStagedServesFiles DEF KeyInv, TypeInv
<1>3. caPath' = "bundle" => bundle' = EffectiveIssuersOnDisk
  BY <1>2 DEF StartUp, WriteTrustedIssuerBundle
<1> QED
  BY <1>1, <1>3 DEF RefreshIsClean, BundleFollowsFiles, TrustFollowsFiles, UpToDate

\* The end of ReinitializeDevice: there is an issuer, so the bundle is written.
LEMMA RefreshKeepsTrust ==
  ASSUME NoBundleFails, TrustInv, RefreshTrust
  PROVE  RefreshIsClean' /\ BundleFollowsFiles' /\ TrustFollowsFiles'
<1> USE DEF TrustInv, ProcessState
<1>1. refresh /\ ~refresh' /\ reload' /\ UNCHANGED vars
  BY DEF RefreshTrust
<1>2. TrustedIssuers = EffectiveIssuersOnDisk /\ EffectiveIssuersOnDisk # {}
  BY <1>1, NothingStagedServesFiles, UsableFilesHaveIssuer
  DEF RefreshIsClean, KeyInv, TypeInv
<1>3. bundle' = EffectiveIssuersOnDisk
  BY <1>2 DEF RefreshTrust, WriteTrustedIssuerBundle, NoBundleFails
<1>4. EffectiveIssuersOnDisk' = EffectiveIssuersOnDisk
  BY <1>1 DEF vars, EffectiveIssuersOnDisk
<1> QED
  BY <1>1, <1>3, <1>4 DEF RefreshIsClean, BundleFollowsFiles, TrustFollowsFiles, UpToDate

\* Trust follows the files through every step.
LEMMA TrustInductive ==
  ASSUME NoRenameFails, NoBundleFails
  PROVE  /\ HubInit => TrustInv
         /\ TrustInv /\ [HubNext]_allVars => TrustInv'
<1>1. HubInit => TrustInv
  BY KeyInductive DEF HubInit, Init, TrustInv, ProcessState, RefreshIsClean,
     BundleFollowsFiles, TrustFollowsFiles, UpToDate
<1>2. ASSUME TrustInv, [HubNext]_allVars PROVE TrustInv'
  <2>0. KeyInv /\ KeyInv' /\ TypeInv
    BY <1>2, HubStepsAreStoreSteps, KeyInductive DEF TrustInv, KeyInv
  <2>p. ProcessState'
    BY <1>2, ProcessStateInductive DEF TrustInv
  <2> SUFFICES RefreshIsClean' /\ BundleFollowsFiles' /\ TrustFollowsFiles'
    BY <2>0, <2>p DEF TrustInv
  <2>q. ASSUME UNCHANGED <<disk, bundle, caPath, refresh, tls>>,
               refresh => UNCHANGED staged,
               pc \notin {"down", "commit"} \/ pc' = "commit",
               reload => reload'
        PROVE  RefreshIsClean' /\ BundleFollowsFiles' /\ TrustFollowsFiles'
    BY <1>2, <2>q DEF TrustInv, RefreshIsClean, BundleFollowsFiles, TrustFollowsFiles,
       UpToDate, EffectiveIssuersOnDisk, UsableFiles
  <2>1. CASE StartUp
    BY <1>2, <2>1, StartUpKeepsTrust
  <2>2. CASE StopProcess
    BY <2>2 DEF StopProcess, Crash, RefreshIsClean, BundleFollowsFiles, TrustFollowsFiles,
       UpToDate
  <2>3. ASSUME NEW f \in Slots, NEW c, Write(f, c) \/ Resize(f, c) \/ RejectWrite(f),
               UNCHANGED hubVars, ~refresh
        PROVE  RefreshIsClean' /\ BundleFollowsFiles' /\ TrustFollowsFiles'
    BY <2>3, <2>q DEF Write, Resize, RejectWrite, diskVars, hubVars
  <2>4. ASSUME DiscardStaged \/ ActivateRefused \/ CommitStaged
                 \/ ReplaceCsr \/ \E k \in Keys : GenerateKeyAndCsr(k),
               UNCHANGED hubVars, ~refresh
        PROVE  RefreshIsClean' /\ BundleFollowsFiles' /\ TrustFollowsFiles'
    BY <2>4, <2>q DEF DiscardStaged, ActivateRefused, CommitStaged, ReplaceCsr,
       GenerateKeyAndCsr, diskVars, hubVars
  <2>5. ASSUME ReplaceWithTemp, UNCHANGED hubVars, ~refresh
        PROVE  RefreshIsClean' /\ BundleFollowsFiles' /\ TrustFollowsFiles'
    BY <2>5 DEF ReplaceWithTemp, hubVars, RefreshIsClean, BundleFollowsFiles,
       TrustFollowsFiles, UpToDate
  <2>6. CASE StoreRequest
    BY <2>3, <2>4, <2>5, <2>6 DEF StoreRequest, ReplaceFails, NoRenameFails
  <2>7. CASE Committed
    <3>0. promotes' = FALSE
      BY <2>0, <2>7 DEF Committed, CommitFinished, NoRenameFails, TypeInv, TypeOK
    <3>1. refresh' /\ staged' = NothingStaged /\ disk' = disk
      BY <2>7, <3>0 DEF Committed, CommitFinished
    <3>2. UsableFiles(disk, disk[Operational].key)
      BY <2>0, <2>7, CompleteCommitIsUsable DEF Committed, CommitFinished, KeyInv,
         CertStoreInv
    <3>3. UsableFiles(disk, disk[Operational].key)'
      BY <3>1, <3>2 DEF UsableFiles
    <3> QED
      BY <3>1, <3>3 DEF RefreshIsClean, BundleFollowsFiles, TrustFollowsFiles, UpToDate
  <2>8. CASE RefreshTrust
    BY <1>2, <2>8, RefreshKeepsTrust
  <2>9. CASE CrlChanged
    BY <2>9, <2>q DEF CrlChanged, InMainLoop, vars
  <2>10. CASE StartListening \/ ReloadCredentials
    <3>1. /\ UNCHANGED <<vars, bundle, caPath, refresh>>
          /\ ~refresh /\ pc = "idle"
          /\ tls' # Closed => tls'.trust = TrustFile
      BY <2>10 DEF StartListening, ReloadCredentials, InMainLoop, LoadedCredentials
    <3>2. caPath = "bundle" => TrustFile = EffectiveIssuersOnDisk
      BY <1>2, <3>1 DEF TrustInv, BundleFollowsFiles, TrustFile
    <3>3. EffectiveIssuersOnDisk' = EffectiveIssuersOnDisk
      BY <3>1 DEF vars, EffectiveIssuersOnDisk
    <3>4. BundleFollowsFiles' /\ RefreshIsClean'
      BY <1>2, <3>1, <3>3 DEF TrustInv, BundleFollowsFiles, RefreshIsClean, vars
    <3> QED
      BY <3>1, <3>2, <3>3, <3>4 DEF TrustFollowsFiles, UpToDate
  <2>11. CASE UNCHANGED allVars
    BY <1>2, <2>11 DEF allVars, hubVars, vars, TrustInv, RefreshIsClean, BundleFollowsFiles,
       TrustFollowsFiles, UpToDate, EffectiveIssuersOnDisk, UsableFiles
  <2> QED
    BY <1>2, <2>1, <2>2, <2>6, <2>7, <2>8, <2>9, <2>10, <2>11 DEF HubNext
<1> QED
  BY <1>1, <1>2

\* With no reload outstanding, a process that found an issuer at its start trusts
\* exactly the issuers of both slots: each activation's bundle reaches the listener.
THEOREM ListenerTrustsActivatedIssuers ==
  ASSUME NoRenameFails, NoBundleFails
  PROVE  HubSpec => []BundleTrustsBothSlots
<1>1. TrustInv => BundleTrustsBothSlots
  BY DEF TrustInv, TrustFollowsFiles, UpToDate, BundleTrustsBothSlots, Settled, InMainLoop
<1> QED
  BY <1>1, TrustInductive, PTL DEF HubSpec

=============================================================================
