---------------------------- MODULE StartUpProofs ----------------------------
(***************************************************************************)
(* The process, from its command line to its last log line.  The hub's own *)
(* key and request over any number of starts, for any keys and device      *)
(* instances: there is never a second folder, no start takes a key away,   *)
(* and what is sent to the Certificate Authority is for a key the hub has. *)
(* Its clock: the device's UTC follows the last synchronization, for every *)
(* zone, every instant asked for and every step of the host's clock.  Its  *)
(* command line: what the searches find in it is what the walk has         *)
(* checked, by induction along its tokens.  And its log: console and file  *)
(* keep the order of printing, for a pipe and a buffer of any size, since  *)
(* what is shown, in the copier's buffer and in the pipe are runs of       *)
(* lines, each of which begins where the one before ends.                  *)
(***************************************************************************)
EXTENDS HubRequest, Clock, CommandLine, LogFile, SequenceTheorems, WellFoundedInduction, TLAPS

(***************************************************************************)
(* Starts                                                                  *)
(***************************************************************************)

RequestTypeOK ==
  /\ ports \subseteq Instances
  /\ keyFile \in [Instances -> Keys \cup {NoFile, Empty}]
  /\ csrFile \in [Instances -> Keys \cup {NoFile, Empty}]
  /\ pendingKey \in Keys \cup {NoFile}
  /\ port \in Instances
  /\ startUp \in {"down", "password", "reconcile", "request", "folder", "key", "csr", "zip",
                  "up", "generate"}
  /\ cutShort \in BOOLEAN

\* A start that makes a key has found none.
NothingToLose ==
  startUp \in {"folder", "key"} =>
    csrFile[port] = NoFile /\ pendingKey = NoFile /\ keyFile[port] \notin Keys

\* The files are in the one folder there is, and a running hub uses it.
FilesInOneFolder ==
  /\ \A i, j \in ports : i = j
  /\ \A i \in Instances : i \notin ports => keyFile[i] = NoFile /\ csrFile[i] = NoFile
  /\ pendingKey # NoFile => ports # {}

UsesTheFolder ==
  /\ startUp # "down" => ports = {} \/ port \in ports
  /\ startUp \in {"key", "csr", "generate"} => port \in ports
  /\ startUp = "key" => newKey \in Keys
  /\ startUp = "csr" => pendingKey = NoFile /\ newKey \in Keys /\ newKey = keyFile[port]
  /\ startUp = "generate" => pendingKey # NoFile

\* A request's key is in the folder or pending, and a pending key has its request.
Matched ==
  cutShort \/ startUp = "generate" \/
    /\ \A i \in Instances : csrFile[i] \in Keys => csrFile[i] \in {keyFile[i], pendingKey}
    /\ pendingKey # NoFile => \A i \in ports : csrFile[i] = pendingKey

\* A password was tried on the key it is kept for, and every start asks again.
PasswordUnlocks ==
  /\ \A i \in Instances : i \in locked => keyFile[i] \in Keys
  /\ startUp \in {"down", "password"} => password = NoFile
  /\ password # NoFile /\ port \in locked => password = keyFile[port]

RequestInv ==
  RequestTypeOK /\ NothingToLose /\ FilesInOneFolder /\ UsesTheFolder /\ Matched /\ PasswordUnlocks

\* The empty folder of the first start.
LEMMA InitRequestInv == RequestInit => RequestInv
BY RequestAssumption
   DEF RequestInit, RequestInv, RequestTypeOK, NothingToLose, FilesInOneFolder, UsesTheFolder, Matched,
       PasswordUnlocks

\* One step of a start, of the running hub or of the operator keeps the invariant.
LEMMA RequestStep == RequestInv /\ [RequestNext]_requestVars => RequestInv'
<1>. SUFFICES ASSUME RequestInv, [RequestNext]_requestVars
             PROVE  RequestInv'
  OBVIOUS
<1>. USE RequestAssumption DEF RequestInv, RequestTypeOK, NothingToLose, FilesInOneFolder, UsesTheFolder,
                               Matched, PasswordUnlocks, files, run, session, history
<1>1. ASSUME NEW i \in Instances, StartHub(i)
       PROVE  RequestInv'
  BY <1>1 DEF StartHub, FoldersFor
<1>2. ASSUME NEW k \in Keys \cup {NoFile}, TypePassword(k)
       PROVE  RequestInv'
  BY <1>2 DEF TypePassword, Unlocks, IsEncrypted
<1>3. CASE NoPassword
  BY <1>3 DEF NoPassword
<1>4. CASE Reconcile
  BY <1>4 DEF Reconcile
<1>5. ASSUME NEW k \in Keys, GenerateKey(k)
       PROVE  RequestInv'
  BY <1>5 DEF GenerateKey
<1>6. CASE GenerateCsr
  BY <1>6 DEF GenerateCsr
<1>7. CASE EnsureHubRequest
  BY <1>7 DEF EnsureHubRequest, NeedsNewKey, Exists
<1>8. ASSUME NEW k \in Keys, MakeKey(k)
       PROVE  RequestInv'
  BY <1>8 DEF MakeKey
<1>9. CASE OpenKey
  BY <1>9 DEF OpenKey
<1>10. CASE WriteKey
  BY <1>10 DEF WriteKey
<1>11. CASE OpenCsr
  BY <1>11 DEF OpenCsr
<1>12. CASE WriteCsr
  BY <1>12 DEF WriteCsr
<1>13. CASE OpenZip
  BY <1>13 DEF OpenZip
<1>14. CASE WriteZip
  BY <1>14 DEF WriteZip
<1>15. CASE CreateFails
  BY <1>15 DEF CreateFails, AfterFailure
<1>16. CASE StopHub
  BY <1>16 DEF StopHub
<1>17. CASE DeleteZip
  BY <1>17 DEF DeleteZip
<1>18. CASE MoveKeyAway
  BY <1>18 DEF MoveKeyAway, Exists
<1>19. ASSUME NEW i \in Instances, ProtectKey(i)
       PROVE  RequestInv'
  BY <1>19 DEF ProtectKey
<1>20. ASSUME NEW i \in Instances, NEW j \in Instances, RenameFolder(i, j)
       PROVE  RequestInv'
  BY <1>20 DEF RenameFolder, Moved
<1>21. CASE UNCHANGED requestVars
  BY <1>21 DEF requestVars
<1>22. QED
  BY <1>1, <1>2, <1>3, <1>4, <1>5, <1>6, <1>7, <1>8, <1>9, <1>10, <1>11, <1>12, <1>13, <1>14,
     <1>15, <1>16, <1>17, <1>18, <1>19, <1>20, <1>21 DEF RequestNext, Operator

\* The invariant holds at every point of every start, whatever stopped the earlier ones.
THEOREM RequestInvariant == RequestSpec => []RequestInv
BY InitRequestInv, RequestStep, PTL DEF RequestSpec

-----------------------------------------------------------------------------
\* A complete key file is written over only by the key swap or the operator: OpenKey
\* and WriteKey are reached only when NothingToLose (cert_tool.cpp:431).
THEOREM StartsKeepTheKey == RequestSpec => KeyIsNeverReplaced
<1> DEFINE Kept == \A i \in Instances :
                     keyFile[i] \in Keys /\ keyFile'[i] # keyFile[i] => startUp \in {"reconcile", "down"}
<1>1. ASSUME RequestInv, [RequestNext]_requestVars, NEW i \in Instances,
             keyFile[i] \in Keys, keyFile'[i] # keyFile[i]
      PROVE  startUp \in {"reconcile", "down"}
  <2>1. NothingToLose /\ port \in Instances /\ keyFile \in [Instances -> Keys \cup {NoFile, Empty}]
    BY <1>1 DEF RequestInv, RequestTypeOK
  <2>2. CASE Reconcile \/ \E j \in Instances : StartHub(j)
    BY <1>1, <2>2 DEF Reconcile, StartHub, files
  <2>3. CASE OpenKey \/ WriteKey
    BY <1>1, <2>1, <2>3, RequestAssumption DEF OpenKey, WriteKey, NothingToLose
  <2>4. CASE Operator
    BY <1>1, <2>4 DEF Operator, DeleteZip, MoveKeyAway, ProtectKey, RenameFolder, run
  <2>5. ASSUME keyFile' = keyFile
        PROVE  FALSE
    BY <1>1, <2>5
  <2>6. QED
    BY <1>1, <2>2, <2>3, <2>4, <2>5
    DEF RequestNext, requestVars, files, TypePassword, NoPassword, GenerateKey, GenerateCsr,
        EnsureHubRequest, MakeKey, OpenCsr, WriteCsr, OpenZip, WriteZip, CreateFails, StopHub
<1>2. RequestInv /\ [RequestNext]_requestVars => [Kept]_requestVars
  BY <1>1
<1>3. QED
  BY <1>2, RequestInvariant, PTL DEF RequestSpec, KeyIsNeverReplaced

\* What is sent to the Certificate Authority is for a key in the hub's folder or pending,
\* unless the process stopped inside GENERATE_CSR_FILE: WriteZip copies a Matched request.
THEOREM RequestsHaveKeys == RequestSpec => RequestHasItsKey
<1> DEFINE Has == zip' \in Keys /\ zip' # zip => cutShort \/ zip' = keyFile[port] \/ zip' = pendingKey
<1>1. ASSUME RequestInv, [RequestNext]_requestVars, zip' \in Keys, zip' # zip
      PROVE  cutShort \/ zip' = keyFile[port] \/ zip' = pendingKey
  <2>1. Matched /\ port \in Instances
    BY <1>1 DEF RequestInv, RequestTypeOK
  <2>2. WriteZip
    BY <1>1, RequestAssumption
    DEF RequestNext, requestVars, files, run, session, StartHub, TypePassword, NoPassword, Reconcile, GenerateKey,
        GenerateCsr, WriteKey, EnsureHubRequest, MakeKey, OpenKey, OpenCsr, WriteCsr, OpenZip,
        CreateFails, StopHub, Operator, DeleteZip, MoveKeyAway, ProtectKey, RenameFolder
  <2>3. QED
    BY <1>1, <2>1, <2>2 DEF WriteZip, Matched
<1>2. RequestInv /\ [RequestNext]_requestVars => [Has]_requestVars
  BY <1>1
<1>3. QED
  BY <1>2, RequestInvariant, PTL DEF RequestSpec, RequestHasItsKey

\* The password in use was tried on the key the hub loads, the key swap after the
\* question included (main.cpp:2107-2134).
THEOREM PasswordsFit == RequestSpec => []PasswordFitsTheKey
<1>1. RequestInv => PasswordFitsTheKey
  BY DEF RequestInv, PasswordUnlocks, PasswordFitsTheKey, IsEncrypted
<1>2. QED
  BY <1>1, RequestInvariant, PTL

-----------------------------------------------------------------------------
(***************************************************************************)
(* The clock                                                               *)
(***************************************************************************)

\* Out of any host zone the start-up makes a legal one (main.cpp:733-764).
LEMMA StartsInALegalZone ==
  ASSUME ClockInit
  PROVE  utcOffset \in Int /\ IsUtcOffset(utcOffset) /\ daylight \in BOOLEAN
<1>1. PICK z \in HostZones, known \in BOOLEAN : ZoneFromHost(known, z)
  BY DEF ClockInit
<1>2. CASE known /\ IsUtcOffset(QuartersWest(z.east))
  <2>1. utcOffset = QuartersWest(z.east) /\ daylight = z.isdst
    BY <1>1, <1>2 DEF ZoneFromHost
  <2>2. IsUtcOffset(utcOffset)
    BY <1>2, <2>1
  <2>3. utcOffset \in Int
    BY <2>2 DEF IsUtcOffset
  <2>4. z.isdst \in BOOLEAN
    BY ClockAssumption
  <2>5. daylight \in BOOLEAN
    BY <2>1, <2>4, Zenon
  <2>6. QED
    BY <2>2, <2>3, <2>5
<1>3. CASE ~(known /\ IsUtcOffset(QuartersWest(z.east)))
  <2>1. utcOffset = 0 /\ daylight = FALSE
    BY <1>1, <1>3 DEF ZoneFromHost
  <2>2. utcOffset \in Int /\ IsUtcOffset(utcOffset)
    BY <2>1 DEF IsUtcOffset
  <2>3. daylight \in BOOLEAN
    BY <2>1, Zenon
  <2>4. QED
    BY <2>2, <2>3
<1>4. QED
  BY <1>2, <1>3

\* What local time is ahead of UTC is a whole number of seconds in every zone.
LEMMA AheadIsInt ==
  ASSUME ClockTypeOK
  PROVE  LocalAhead \in Int
BY DEF ClockTypeOK, LocalAhead

\* A synchronization of either service keeps types, and the new UTC is the one
\* that was asked for.
LEMMA SyncStep ==
  ASSUME ClockTypeOK, NEW local \in Int, NEW utc \in Int,
         SetSystemTime(local, utc), utc = UtcOf(local)
  PROVE  ClockTypeOK' /\ UtcFollowsSync'
<1>1. LocalAhead \in Int
  BY AheadIsInt
<1>2. UtcOf(local) \in Int
  BY <1>1 DEF UtcOf
<1>3. clockOffset' \in Int /\ asked' = [utc |-> utc, host |-> host]
  BY <1>2 DEF SetSystemTime, ClockTypeOK
<1>4. ClockTypeOK'
  BY <1>3 DEF SetSystemTime, ClockTypeOK, IsUtcOffset, zone
<1>5. UtcFollowsSync'
  BY <1>2, <1>3 DEF SetSystemTime, ClockTypeOK, UtcFollowsSync, GetClock, zone
<1>6. QED
  BY <1>4, <1>5

\* One step keeps the types and the device's UTC where the last synchronization
\* put it.
LEMMA ClockStep ==
  ASSUME ClockTypeOK, UtcFollowsSync, [ClockNext]_clockVars
  PROVE  ClockTypeOK' /\ UtcFollowsSync'
<1>1. ASSUME NEW t \in SyncTimes, Synchronize(t)
      PROVE  ClockTypeOK' /\ UtcFollowsSync'
  <2>1. t \in Int /\ UtcOf(t) \in Int
    BY AheadIsInt, ClockAssumption DEF UtcOf
  <2>2. QED
    BY <1>1, <2>1, SyncStep DEF Synchronize
<1>2. ASSUME NEW t \in SyncTimes, UtcSynchronize(t)
      PROVE  ClockTypeOK' /\ UtcFollowsSync'
  <2>1. t \in Int /\ LocalAhead \in Int
    BY AheadIsInt, ClockAssumption
  <2>2. LocalSecondsFromUtc(t) \in Int /\ t = UtcOf(LocalSecondsFromUtc(t))
    BY <2>1 DEF LocalSecondsFromUtc, UtcOf
  <2>3. QED
    BY <1>2, <2>1, <2>2, SyncStep DEF UtcSynchronize
<1>3. ASSUME NEW m \in Offsets, WriteUtcOffset(m)
      PROVE  ClockTypeOK' /\ UtcFollowsSync'
  BY <1>3, ClockAssumption
     DEF WriteUtcOffset, ClockTypeOK, UtcFollowsSync, GetClock, IsUtcOffset
<1>4. ASSUME NEW s \in BOOLEAN, WriteDaylight(s)
      PROVE  ClockTypeOK' /\ UtcFollowsSync'
  BY <1>4 DEF WriteDaylight, ClockTypeOK, UtcFollowsSync, GetClock, IsUtcOffset
<1>5. CASE CheckRunLimit
  BY <1>5 DEF CheckRunLimit, ClockTypeOK, UtcFollowsSync, GetClock, IsUtcOffset, zone
<1>6. CASE EndTurn
  BY <1>6 DEF EndTurn, ClockTypeOK, UtcFollowsSync, GetClock, IsUtcOffset, zone
<1>7. CASE SecondPasses
  BY <1>7, ClockAssumption
     DEF SecondPasses, ClockTypeOK, UtcFollowsSync, GetClock, IsUtcOffset, zone
<1>8. ASSUME NEW t \in HostTimes, HostClockIsSet(t)
      PROVE  ClockTypeOK' /\ UtcFollowsSync'
  BY <1>8, ClockAssumption
     DEF HostClockIsSet, ClockTypeOK, UtcFollowsSync, GetClock, IsUtcOffset, zone
<1>9. CASE UNCHANGED clockVars
  BY <1>9 DEF clockVars, zone, ClockTypeOK, UtcFollowsSync, GetClock, IsUtcOffset
<1>10. QED
  BY <1>1, <1>2, <1>3, <1>4, <1>5, <1>6, <1>7, <1>8, <1>9 DEF ClockNext

\* The device's UTC is the last one asked for plus what the host's clock has moved
\* since, in every reachable state and for every value of the constants: neither
\* the zone nor its writes take part (main.cpp:680-704, 772-810).
THEOREM DeviceKeepsUtc == ClockSpec => [](ClockTypeOK /\ UtcFollowsSync)
<1>1. ClockInit => ClockTypeOK /\ UtcFollowsSync
  <2>1. ASSUME ClockInit PROVE ClockTypeOK /\ UtcFollowsSync
    <3>1. host \in Int
      BY <2>1, ClockAssumption DEF ClockInit
    <3>2. QED
      BY <2>1, <3>1, StartsInALegalZone, ClockAssumption
         DEF ClockInit, ClockTypeOK, UtcFollowsSync, GetClock
  <2>2. QED
    BY <2>1
<1>2. ClockTypeOK /\ UtcFollowsSync /\ [ClockNext]_clockVars
        => (ClockTypeOK /\ UtcFollowsSync)'
  BY ClockStep
<1>3. QED
  BY <1>1, <1>2, PTL DEF ClockSpec

-----------------------------------------------------------------------------
(***************************************************************************)
(* The command line                                                        *)
(***************************************************************************)

\* Induction on the naturals, for a set of them.
LEMMA EveryNatural ==
  ASSUME NEW T, T \subseteq Nat, 0 \in T, \A n \in T : n + 1 \in T
  PROVE  T = Nat
<1> DEFINE R == {ss \in Nat \X Nat : ss[1] < ss[2]}
           U == Nat \ T
<1>1. IsWellFoundedOn(R, Nat)
  BY NatLessThanWellFounded DEF OpToRel
<1>2. \A x, y \in Nat : x < y => <<x, y>> \in R
  OBVIOUS
<1> SUFFICES ASSUME U # {} PROVE FALSE
  OBVIOUS
<1> HIDE DEF R
<1>3. PICK x \in U : \A y \in U : ~(<<y, x>> \in R)
  <2> U \subseteq Nat
    OBVIOUS
  <2> HIDE DEF U
  <2> QED
    BY <1>1, WFMin
<1>4. x \in Nat \ {0} /\ x - 1 \in Nat /\ x - 1 < x
  OBVIOUS
<1>5. x - 1 \in T
  BY <1>2, <1>3, <1>4
<1> QED
  BY <1>4, <1>5

\* A walk from a place takes the place and goes on after the tokens it took there,
\* unless it took none.
IsWalkOf(f, n, step) ==
  f = [i \in 1 .. n + 1 |-> {i} \cup (IF i > n \/ step[i] = 0 THEN {} ELSE f[i + step[i]])]

LEMMA WalkRecursion ==
  ASSUME NEW n \in Nat, NEW step \in [1 .. n -> Nat], \A i \in 1 .. n : i + step[i] <= n + 1
  PROVE  \E f : IsWalkOf(f, n, step)
<1> DEFINE From(k) == {i \in 1 .. n + 1 : i + k > n}
           Stops(i) == i > n \/ step[i] = 0
           T == {k \in Nat :
                  \E f : f = [i \in From(k) |-> {i} \cup (IF Stops(i) THEN {} ELSE f[i + step[i]])]}
<1>1. 0 \in T
  <2> DEFINE f == [i \in From(0) |-> {i}]
  <2>1. \A i \in From(0) : Stops(i)
    OBVIOUS
  <2>2. f = [i \in From(0) |-> {i} \cup (IF Stops(i) THEN {} ELSE f[i + step[i]])]
    <3> HIDE DEF Stops
    <3> QED
      BY <2>1
  <2> QED
    BY <2>2
<1>2. ASSUME NEW k \in T PROVE k + 1 \in T
  <2>1. PICK f : f = [i \in From(k) |-> {i} \cup (IF Stops(i) THEN {} ELSE f[i + step[i]])]
    OBVIOUS
  <2> DEFINE g == [i \in From(k + 1) |-> {i} \cup (IF Stops(i) THEN {} ELSE f[i + step[i]])]
  <2>2. ASSUME NEW i \in From(k + 1), ~Stops(i)
        PROVE  f[i + step[i]] = g[i + step[i]]
    <3>1. i + step[i] \in From(k) /\ i + step[i] \in From(k + 1)
      BY <2>2
    <3>2. PICK j : j = i + step[i]
      OBVIOUS
    <3> HIDE DEF From, Stops
    <3>3. f[j] = {j} \cup (IF Stops(j) THEN {} ELSE f[j + step[j]])
      BY <2>1, <3>1, <3>2, Zenon
    <3>4. g[j] = {j} \cup (IF Stops(j) THEN {} ELSE f[j + step[j]])
      BY <3>1, <3>2, Zenon
    <3> QED
      BY <3>2, <3>3, <3>4, Zenon
  <2>3. g = [i \in From(k + 1) |-> {i} \cup (IF Stops(i) THEN {} ELSE g[i + step[i]])]
    <3> HIDE DEF From, Stops
    <3>1. \A i \in From(k + 1) : (IF Stops(i) THEN {} ELSE f[i + step[i]])
                                  = (IF Stops(i) THEN {} ELSE g[i + step[i]])
      <4> HIDE DEF g
      <4> QED BY <2>2, Zenon
    <3> QED
      BY <3>1
  <2> HIDE DEF g, From, Stops
  <2> QED
    BY <2>3
<1>3. n \in T
  <2>1. T \subseteq Nat
    OBVIOUS
  <2> HIDE DEF T
  <2> QED
    BY <1>1, <1>2, <2>1, EveryNatural
<1>4. From(n) = 1 .. n + 1
  OBVIOUS
<1> HIDE DEF From
<1> QED
  BY <1>3, <1>4 DEF IsWalkOf

\* The walk stays inside the command line.
LEMMA TakenFits ==
  ASSUME NEW a \in Seq(STRING), NEW i \in 1 .. Len(a)
  PROVE  Taken(a, i) \in Nat /\ i + Taken(a, i) <= Len(a) + 1 /\ Taken(a, i) <= 2
<1>1. PICK n \in Nat : n = Len(a)
  OBVIOUS
<1>2. i \in Int /\ i <= n
  BY <1>1
<1>3. Taken(a, i) = 0 \/ Taken(a, i) = 1 \/ (Taken(a, i) = 2 /\ i < Len(a))
  BY DEF Taken, HasValue
<1> QED
  BY <1>1, <1>2, <1>3

\* What is behind an option and taken with it is no option.
LEMMA ValuesAreNotDashed ==
  ASSUME NEW a, NEW i, Taken(a, i) = 2, CommandAssumption
  PROVE  ~IsDashed(a[i + 1])
<1>1. 0 # 2 /\ 1 # 2
  OBVIOUS
<1> QED
  BY <1>1, Zenon DEF Taken, HasValue, CommandAssumption

LEMMA WalkUnfolds ==
  ASSUME NEW a \in Seq(STRING)
  PROVE  \E f : /\ IsWalkOf(f, Len(a), [i \in 1 .. Len(a) |-> Taken(a, i)])
                /\ Walk(a) = f[1]
<1> DEFINE n == Len(a)
           step == [i \in 1 .. n |-> Taken(a, i)]
           W(f) == f = [i \in 1 .. Len(a) + 1 |->
                          {i} \cup (IF i > Len(a) \/ Taken(a, i) = 0 THEN {} ELSE f[i + Taken(a, i)])]
<1>1. n \in Nat /\ step \in [1 .. n -> Nat] /\ \A i \in 1 .. n : i + step[i] <= n + 1
  BY TakenFits
<1>2. \E f : IsWalkOf(f, n, step)
  <2> HIDE DEF n, step
  <2> QED BY <1>1, WalkRecursion
<1>3. ASSUME NEW f PROVE W(f) <=> IsWalkOf(f, n, step)
  <2>1. \A i \in 1 .. n + 1 : ~(i > n) => step[i] = Taken(a, i)
    OBVIOUS
  <2>2. \A i \in 1 .. n + 1 :
          {i} \cup (IF i > Len(a) \/ Taken(a, i) = 0 THEN {} ELSE f[i + Taken(a, i)])
          = {i} \cup (IF i > n \/ step[i] = 0 THEN {} ELSE f[i + step[i]])
    <3> HIDE DEF step
    <3> QED BY <2>1, Zenon
  <2> QED
    BY <2>2 DEF IsWalkOf
<1>4. Walk(a) = (CHOOSE f : W(f))[1]
  BY Zenon DEF Walk
<1> HIDE DEF W, n, step
<1>5. W(CHOOSE f : W(f))
  BY <1>2, <1>3
<1> QED
  BY <1>3, <1>4, <1>5 DEF n, step

\* From every place from which the walk reaches the end, what looks like an option is
\* a place of the walk, and an option or a switch there takes what it needs.
LEMMA WalkSeesOptions ==
  ASSUME NEW a \in Seq(STRING), ValidateCommandLine(a), CommandAssumption
  PROVE  /\ Walk(a) \subseteq 1 .. Len(a) + 1
         /\ \A m \in 1 .. Len(a) :
              (IsDashed(a[m]) => m \in Walk(a)) /\ (m \in Walk(a) => Taken(a, m) # 0)
<1> DEFINE Step == [i \in 1 .. Len(a) |-> Taken(a, i)]
<1>1. PICK n \in Nat : n = Len(a)
  OBVIOUS
<1>2. PICK step \in [1 .. n -> Nat] :
        /\ \A i \in 1 .. n : step[i] = Taken(a, i) /\ i + step[i] <= n + 1 /\ step[i] <= 2
        /\ step = Step
  BY <1>1, TakenFits
<1>3. PICK f : IsWalkOf(f, n, step) /\ Walk(a) = f[1]
  <2>1. \E f : IsWalkOf(f, Len(a), Step) /\ Walk(a) = f[1]
    BY WalkUnfolds
  <2> HIDE DEF Step
  <2> QED
    BY <1>1, <1>2, <2>1, Zenon
<1> HIDE DEF Step
<1> DEFINE Seen(i, m) == (IsDashed(a[m]) => m \in f[i]) /\ (m \in f[i] => step[m] # 0)
           Sound(i) ==
             f[i] \subseteq i .. n + 1 /\ (n + 1 \in f[i] => \A m \in i .. n : Seen(i, m))
           T == {k \in Nat : \A i \in 1 .. n + 1 : i + k > n => Sound(i)}
<1>4. \A i \in 1 .. n + 1 : f[i] = {i} \cup (IF i > n \/ step[i] = 0 THEN {} ELSE f[i + step[i]])
  BY <1>3 DEF IsWalkOf
<1>5. 0 \in T
  <2> SUFFICES ASSUME NEW i \in 1 .. n + 1, i > n PROVE Sound(i)
    OBVIOUS
  <2>1. f[i] = {i} /\ i = n + 1
    BY <1>4
  <2> QED
    BY <2>1
<1>6. ASSUME NEW k \in T PROVE k + 1 \in T
  <2> SUFFICES ASSUME NEW i \in 1 .. n + 1, i + (k + 1) > n PROVE Sound(i)
    OBVIOUS
  <2>1. CASE i > n
    <3>1. f[i] = {i} /\ i = n + 1
      BY <1>4, <2>1
    <3> QED
      BY <3>1
  <2>2. CASE ~(i > n) /\ step[i] = 0
    <3>1. f[i] = {i} /\ i # n + 1
      BY <1>4, <2>2
    <3> QED
      BY <3>1
  <2>3. CASE ~(i > n) /\ step[i] # 0
    <3> HIDE DEF T, Seen, Sound
    <3>1. i \in 1 .. n /\ step[i] \in Nat /\ step[i] # 0 /\ step[i] <= 2 /\ i + step[i] <= n + 1
      <4>1. i \in 1 .. n
        BY <2>3
      <4> QED
        BY <1>2, <2>3, <4>1, Zenon
    <3>0. k \in Nat /\ \A h \in 1 .. n + 1 : h + k > n => Sound(h)
      BY DEF T
    <3>2. PICK j \in 1 .. n + 1 : j = i + step[i] /\ j + k > n /\ j > i /\ (j = i + 1 \/ j = i + 2)
      BY <3>0, <3>1
    <3>3. Sound(j)
      BY <3>0, <3>2, Zenon
    <3>4. f[i] = {i} \cup f[j]
      BY <1>4, <2>3, <3>2
    <3>5. ASSUME j = i + 2 PROVE ~IsDashed(a[i + 1])
      <4>1. step[i] = 2
        BY <3>1, <3>2, <3>5
      <4>2. Taken(a, i) = 2
        BY <1>2, <3>1, <4>1
      <4> QED
        BY <4>2, ValuesAreNotDashed
    <3>8. f[j] \subseteq j .. n + 1
      BY <3>3 DEF Sound
    <3>6. f[i] \subseteq i .. n + 1
      BY <3>2, <3>4, <3>8
    <3>7. ASSUME n + 1 \in f[i], NEW m \in i .. n
          PROVE  Seen(i, m)
      <4>1. n + 1 \in f[j]
        BY <3>1, <3>4, <3>7
      <4>2. m = i \/ (m = i + 1 /\ j = i + 2) \/ m \in j .. n
        <5>1. j = i + 1 \/ j = i + 2
          BY <3>2
        <5> QED
          BY <5>1
      <4>3. CASE m = i
        BY <2>3, <3>4, <4>3 DEF Seen
      <4>4. CASE m = i + 1 /\ j = i + 2
        <5>1. m \notin f[i]
          BY <3>2, <3>4, <3>8, <4>4
        <5> QED
          BY <3>5, <4>4, <5>1 DEF Seen
      <4>5. CASE m \in j .. n
        <5>1. Seen(j, m)
          BY <3>3, <4>1, <4>5, Zenon DEF Sound
        <5>2. m # i
          BY <3>2, <4>5
        <5> QED
          BY <3>4, <5>1, <5>2 DEF Seen
      <4> QED
        BY <4>2, <4>3, <4>4, <4>5
    <3> QED
      BY <3>6, <3>7 DEF Sound
  <2> QED
    BY <2>1, <2>2, <2>3
<1>7. n \in T
  <2>1. T \subseteq Nat
    OBVIOUS
  <2> HIDE DEF T
  <2> QED
    BY <1>5, <1>6, <2>1, EveryNatural
<1>8. Sound(1)
  <2>1. 1 \in 1 .. n + 1 /\ 1 + n > n
    OBVIOUS
  <2> HIDE DEF Sound
  <2> QED
    BY <1>7, <2>1
<1>9. n + 1 \in f[1]
  BY <1>1, <1>3 DEF ValidateCommandLine
<1> QED
  BY <1>1, <1>2, <1>3, <1>8, <1>9

\* So the places a search finds an option at are those the operator gave it at.
LEMMA SearchesSeeTheWalk ==
  ASSUME NEW a \in Seq(STRING), ValidateCommandLine(a), CommandAssumption,
         NEW o \in ValueOptions \cup OnOffSwitches
  PROVE  /\ {i \in 1 .. Len(a) : a[i] = o} = {i \in Walk(a) : i <= Len(a) /\ a[i] = o}
         /\ o \in ValueOptions =>
              \A i \in 1 .. Len(a) : a[i] = o => i \in 1 .. Len(a) - 1
<1>1. IsDashed(o) /\ (o \in ValueOptions => o \notin OnOffSwitches /\ o \notin Switches)
  BY DEF IsDashed, ValueOptions, NumberOptions, TextOptions, OnOffSwitches, Switches, HelpSwitches
<1>2. \A i \in Walk(a) : i \in 1 .. Len(a) + 1
  BY WalkSeesOptions
<1>3. \A m \in 1 .. Len(a) : a[m] = o => m \in Walk(a) /\ Taken(a, m) # 0
  BY <1>1, WalkSeesOptions
<1>4. ASSUME o \in ValueOptions, NEW i \in 1 .. Len(a), a[i] = o PROVE i < Len(a)
  <2>1. o \notin OnOffSwitches /\ o \notin Switches
    BY <1>1, <1>4
  <2>2. Taken(a, i) # 0
    BY <1>3, <1>4
  <2> QED
    BY <1>4, <2>1, <2>2 DEF Taken, HasValue
<1> QED
  BY <1>2, <1>3, <1>4

\* The variable of each option.
LEMMA ConfigByKind ==
  ASSUME NEW a
  PROVE  /\ \A o \in NumberOptions : ConfigOf(a)[o] = NumberOf(a, o)
         /\ \A o \in TextOptions : ConfigOf(a)[o] = TextOf(a, o)
         /\ \A o \in {"--deviceID"} : ConfigOf(a)[o] = DeviceId(a)
         /\ \A o \in OnOffSwitches : ConfigOf(a)[o] = SwitchIsOn(a, o)
<1>1. \A o \in ValueOptions \cup OnOffSwitches :
        ConfigOf(a)[o] = CASE o \in NumberOptions -> NumberOf(a, o)
                           [] o \in TextOptions -> TextOf(a, o)
                           [] o = "--deviceID" -> DeviceId(a)
                           [] o \in OnOffSwitches -> SwitchIsOn(a, o)
  BY Zenon DEF ConfigOf
<1>2. \A o : \/ o \in NumberOptions /\ o \notin TextOptions /\ o # "--deviceID" /\ o \notin OnOffSwitches
             \/ o \notin NumberOptions /\ o \in TextOptions /\ o # "--deviceID" /\ o \notin OnOffSwitches
             \/ o \notin NumberOptions /\ o \notin TextOptions /\ o = "--deviceID" /\ o \notin OnOffSwitches
             \/ o \notin NumberOptions /\ o \notin TextOptions /\ o # "--deviceID"
  BY DEF NumberOptions, TextOptions, OnOffSwitches
<1>3. \A o \in NumberOptions \cup TextOptions \cup {"--deviceID"} : o \in ValueOptions
  BY DEF ValueOptions
<1>4. ASSUME NEW o \in NumberOptions PROVE ConfigOf(a)[o] = NumberOf(a, o)
  BY <1>1, <1>2, <1>3
<1>5. ASSUME NEW o \in TextOptions PROVE ConfigOf(a)[o] = TextOf(a, o)
  BY <1>1, <1>2, <1>3
<1>6. ASSUME NEW o \in {"--deviceID"} PROVE ConfigOf(a)[o] = DeviceId(a)
  BY <1>1, <1>2, <1>3
<1>7. ASSUME NEW o \in OnOffSwitches PROVE ConfigOf(a)[o] = SwitchIsOn(a, o)
  BY <1>1, <1>2, <1>3
<1> QED
  BY <1>4, <1>5, <1>6, <1>7

\* An option that no token names has its default.
LEMMA SearchesFindNothing ==
  ASSUME NEW a, NEW o, {i \in 1 .. Len(a) : a[i] = o} = {}, Len(a) \in Nat
  PROVE  /\ ~HasFlag(a, o) /\ ParseStringArg(a, o) = "" /\ SwitchIsOn(a, o) = FALSE
         /\ o = "--deviceID" => DeviceId(a) = DefaultInstance
<1>1. ~HasFlag(a, o)
  BY DEF HasFlag
<1>2. \A i \in 1 .. Len(a) - 1 : i \in 1 .. Len(a) /\ a[i] # o
  OBVIOUS
<1>3. ParseStringArg(a, o) = ""
  BY <1>2 DEF ParseStringArg
<1>4. o = "--deviceID" => DeviceId(a) = DefaultInstance
  BY <1>2 DEF DeviceId
<1> QED
  BY <1>1, <1>3, <1>4 DEF SwitchIsOn

LEMMA UnnamedOptions ==
  ASSUME NEW a \in Seq(STRING), NEW o \in ValueOptions \cup OnOffSwitches,
         {i \in 1 .. Len(a) : a[i] = o} = {}
  PROVE  ConfigOf(a)[o] = ConfigOf(<<>>)[o]
<1>1. Len(a) \in Nat /\ Len(<<>>) = 0
  OBVIOUS
<1>2. /\ ~HasFlag(a, o) /\ ParseStringArg(a, o) = "" /\ SwitchIsOn(a, o) = FALSE
      /\ o = "--deviceID" => DeviceId(a) = DefaultInstance
  BY <1>1, SearchesFindNothing
<1>3. {i \in 1 .. Len(<<>>) : <<>>[i] = o} = {} /\ Len(<<>>) \in Nat
  BY <1>1
<1>4. /\ ~HasFlag(<<>>, o) /\ ParseStringArg(<<>>, o) = "" /\ SwitchIsOn(<<>>, o) = FALSE
      /\ o = "--deviceID" => DeviceId(<<>>) = DefaultInstance
  BY <1>3, SearchesFindNothing
<1>5. NumberOf(a, o) = NumberOf(<<>>, o)
  BY <1>2, <1>4, Zenon DEF NumberOf
<1>6. TextOf(a, o) = TextOf(<<>>, o)
  BY <1>2, <1>4, Zenon DEF TextOf
<1>7. o \in NumberOptions \/ o \in TextOptions \/ o \in {"--deviceID"} \/ o \in OnOffSwitches
  BY DEF ValueOptions
<1> QED
  BY <1>2, <1>4, <1>5, <1>6, <1>7, ConfigByKind, ZenonT(60)

\* An option that one token names has the value behind it.
LEMMA SearchesFindOne ==
  ASSUME NEW a, NEW o, NEW i \in 1 .. Len(a), {j \in 1 .. Len(a) : a[j] = o} = {i},
         Len(a) \in Nat, i < Len(a)
  PROVE  /\ HasFlag(a, o) /\ ParseStringArg(a, o) = a[i + 1]
         /\ o = "--deviceID" =>
              DeviceId(a) = IF IsInstance(a[i + 1]) THEN Number[a[i + 1]] ELSE DefaultInstance
<1> DEFINE at == {j \in 1 .. Len(a) - 1 : a[j] = o}
           valid == {j \in 1 .. Len(a) - 1 : a[j] = o /\ IsInstance(a[j + 1])}
<1>1. i \in 1 .. Len(a) - 1 /\ \A j \in 1 .. Len(a) - 1 : j \in 1 .. Len(a)
  OBVIOUS
<1>2. at = {i}
  BY <1>1
<1>3. First({i}) = i
  BY DEF First
<1>4. ParseStringArg(a, o) = a[i + 1]
  <2>1. ParseStringArg(a, o) = IF at = {} THEN "" ELSE a[First(at) + 1]
    BY Zenon DEF ParseStringArg
  <2> QED
    BY <1>2, <1>3, <2>1, Zenon
<1>5. valid = IF IsInstance(a[i + 1]) THEN {i} ELSE {}
  <2>1. \A j : j \in at <=> j = i
    BY <1>2
  <2>2. \A j : j \in valid <=> j \in at /\ IsInstance(a[j + 1])
    OBVIOUS
  <2> HIDE DEF at, valid
  <2>3. i \in valid <=> IsInstance(a[i + 1])
    BY <2>1, <2>2
  <2>4. \A j \in valid : j = i
    BY <2>1, <2>2
  <2> QED
    BY <2>3, <2>4, Zenon
<1>6. ASSUME o = "--deviceID"
      PROVE  DeviceId(a) = IF IsInstance(a[i + 1]) THEN Number[a[i + 1]] ELSE DefaultInstance
  <2>1. DeviceId(a) = IF valid = {} THEN DefaultInstance ELSE Number[a[First(valid) + 1]]
    BY <1>6, Zenon DEF DeviceId
  <2> HIDE DEF valid
  <2> QED
    BY <1>3, <1>5, <2>1, Zenon
<1> QED
  BY <1>4, <1>6 DEF HasFlag

LEMMA NamedOptions ==
  ASSUME NEW a, Len(a) \in Nat, NEW limit, IsChecked(a, limit),
         NEW o \in ValueOptions, NEW i \in 1 .. Len(a), {j \in 1 .. Len(a) : a[j] = o} = {i},
         i < Len(a), a[i + 1] # ""
  PROVE  ConfigOf(a)[o] = Meant(o, a[i + 1])
<1>1. /\ HasFlag(a, o) /\ ParseStringArg(a, o) = a[i + 1]
      /\ o = "--deviceID" =>
           DeviceId(a) = IF IsInstance(a[i + 1]) THEN Number[a[i + 1]] ELSE DefaultInstance
  BY SearchesFindOne
<1>2. CASE o \in NumberOptions
  <2>1. NumberIsFine(a, o)
    BY <1>1, <1>2, Zenon DEF IsChecked
  <2>2. a[i + 1] \in DOMAIN Number
    BY <1>1, <2>1, Zenon DEF NumberIsFine, IsIn
  <2>3. NumberOf(a, o) = Number[a[i + 1]]
    BY <1>1, Zenon DEF NumberOf
  <2>4. Meant(o, a[i + 1]) = Number[a[i + 1]]
    <3>1. o # "--deviceID"
      BY <1>2 DEF NumberOptions
    <3> QED
      BY <1>2, <2>2, <3>1 DEF Meant
  <2> QED
    BY <1>2, <2>3, <2>4, ConfigByKind, Zenon
<1>3. CASE o \in TextOptions
  <2>1. TextOf(a, o) = a[i + 1]
    BY <1>1, Zenon DEF TextOf
  <2>2. o \notin NumberOptions /\ o # "--deviceID"
    BY <1>3 DEF NumberOptions, TextOptions
  <2>3. Meant(o, a[i + 1]) = a[i + 1]
    BY <2>2 DEF Meant
  <2> QED
    BY <1>3, <2>1, <2>3, ConfigByKind, Zenon
<1>4. CASE o = "--deviceID"
  <2>1. o \notin NumberOptions
    BY <1>4 DEF NumberOptions
  <2>2. Meant(o, a[i + 1]) = IF IsInstance(a[i + 1]) THEN Number[a[i + 1]] ELSE DefaultInstance
    BY <1>4, <2>1 DEF Meant
  <2>3. ConfigOf(a)[o] = DeviceId(a)
    BY <1>4, ConfigByKind
  <2> QED
    BY <1>1, <1>4, <2>2, <2>3, Zenon
<1> QED
  BY <1>2, <1>3, <1>4 DEF ValueOptions

\* Once main has gone on, the command line was checked and its searches have been made.
CommandInv ==
  /\ argv \in Seq(STRING)
  /\ outcome \in {"import", "started"} =>
       ValidateCommandLine(argv) /\ IsChecked(argv, testLimit) /\ config = ConfigOf(argv)

LEMMA CommandStep == CommandInv /\ [CommandNext]_commandVars => CommandInv'
<1> SUFFICES ASSUME CommandInv, [CommandNext]_commandVars PROVE CommandInv'
  OBVIOUS
<1>1. ASSUME NEW phrase \in Phrases, Type(phrase) PROVE CommandInv'
  <2>1. phrase \in Seq(STRING)
    BY CommandAssumption
  <2>2. argv' \in Seq(STRING) /\ outcome' = "typing"
    BY <1>1, <2>1 DEF Type, CommandInv
  <2> QED
    BY <2>2 DEF CommandInv
<1>2. CASE RunMain
  <2>1. UNCHANGED <<argv, testLimit>>
    BY <1>2 DEF RunMain
  <2>2. ASSUME outcome' \in {"import", "started"}
        PROVE  ValidateCommandLine(argv) /\ IsChecked(argv, testLimit) /\ config' = ConfigOf(argv)
    BY <1>2, <2>2 DEF RunMain
  <2>3. argv \in Seq(STRING)
    BY DEF CommandInv
  <2> QED
    BY <2>1, <2>2, <2>3 DEF CommandInv
<1>3. CASE NextProcess
  <2>1. argv' = <<>> /\ outcome' = "typing"
    BY <1>3 DEF NextProcess
  <2> QED
    BY <2>1 DEF CommandInv
<1>4. CASE UNCHANGED commandVars
  BY <1>4 DEF commandVars, CommandInv
<1> QED
  BY <1>1, <1>2, <1>3, <1>4 DEF CommandNext

\* An option given once has its value, and one that was not given its default: for
\* command lines of any length, the searches find what the walk has seen
\* (main.cpp:1645-1684, 1753-1765).
THEOREM OptionsFollowTheCommandLine == CommandSpec => []OptionsAreWhatWasGiven
<1>1. CommandInit => CommandInv
  BY DEF CommandInit, CommandInv
<1>2. CommandInv => OptionsAreWhatWasGiven
  <2> SUFFICES ASSUME CommandInv, outcome \in {"import", "started"}
               PROVE  /\ \A o \in ValueOptions \cup OnOffSwitches :
                           GivenAt(o) = {} => config[o] = ConfigOf(<<>>)[o]
                      /\ \A o \in ValueOptions, i \in 1 .. Len(argv) :
                           GivenAt(o) = {i} /\ argv[i + 1] # "" => config[o] = Meant(o, argv[i + 1])
    BY DEF OptionsAreWhatWasGiven
  <2>1. /\ argv \in Seq(STRING) /\ ValidateCommandLine(argv) /\ IsChecked(argv, testLimit)
        /\ config = ConfigOf(argv)
    BY DEF CommandInv
  <2>2. \A o \in ValueOptions \cup OnOffSwitches :
          /\ {i \in 1 .. Len(argv) : argv[i] = o} = GivenAt(o)
          /\ o \in ValueOptions => \A i \in 1 .. Len(argv) : argv[i] = o => i \in 1 .. Len(argv) - 1
    BY <2>1, SearchesSeeTheWalk, CommandAssumption, Zenon DEF GivenAt
  <2>3. ASSUME NEW o \in ValueOptions \cup OnOffSwitches, GivenAt(o) = {}
        PROVE  config[o] = ConfigOf(<<>>)[o]
    <3>1. {i \in 1 .. Len(argv) : argv[i] = o} = {}
      BY <2>2, <2>3, Zenon
    <3>2. ConfigOf(argv)[o] = ConfigOf(<<>>)[o]
      BY <2>1, <3>1, UnnamedOptions
    <3> QED
      BY <2>1, <3>2, Zenon
  <2>4. ASSUME NEW o \in ValueOptions, NEW i \in 1 .. Len(argv), GivenAt(o) = {i}, argv[i + 1] # ""
        PROVE  config[o] = Meant(o, argv[i + 1])
    <3>1. {j \in 1 .. Len(argv) : argv[j] = o} = {i}
      BY <2>2, <2>4, Zenon
    <3>2. i < Len(argv)
      <4>1. argv[i] = o
        BY <3>1
      <4>2. i \in 1 .. Len(argv) - 1
        BY <2>2, <4>1, Zenon
      <4>3. Len(argv) \in Nat
        BY <2>1
      <4> QED
        BY <4>2, <4>3
    <3>3. Len(argv) \in Nat
      BY <2>1
    <3>4. ConfigOf(argv)[o] = Meant(o, argv[i + 1])
      BY <2>1, <2>4, <3>1, <3>2, <3>3, NamedOptions
    <3> QED
      BY <2>1, <3>4, Zenon
  <2> QED
    BY <2>3, <2>4
<1> QED
  BY <1>1, <1>2, CommandStep, PTL DEF CommandSpec

-----------------------------------------------------------------------------
(***************************************************************************)
(* Lines of the log                                                        *)
(***************************************************************************)

\* The lines after line a, up to line b.
Lines(a, b) == [i \in 1 .. b - a |-> a + i]

\* A run of lines is a sequence of its length.
LEMMA LinesLength ==
  ASSUME NEW a \in Nat, NEW b \in Nat, a <= b
  PROVE  Lines(a, b) \in Seq(Nat) /\ Len(Lines(a, b)) = b - a
<1>1. b - a \in Nat /\ \A i \in 1 .. b - a : a + i \in Nat
  OBVIOUS
<1>2. Lines(a, b) \in [1 .. b - a -> Nat]
  BY <1>1 DEF Lines
<1> QED
  BY <1>1, <1>2, SeqDef, LenProperties DEF Lines

\* Runs that follow each other are one.
LEMMA LinesConcat ==
  ASSUME NEW a \in Nat, NEW b \in Nat, NEW c \in Nat, a <= b, b <= c
  PROVE  Lines(a, b) \o Lines(b, c) = Lines(a, c)
<1>1. Lines(a, b) \in Seq(Nat) /\ Len(Lines(a, b)) = b - a
  BY LinesLength
<1>2. Lines(b, c) \in Seq(Nat) /\ Len(Lines(b, c)) = c - b
  BY LinesLength
<1>3. Lines(a, c) \in Seq(Nat) /\ Len(Lines(a, c)) = c - a
  <2>1. a <= c
    OBVIOUS
  <2> QED
    BY <2>1, LinesLength
<1>4. Lines(a, b) \o Lines(b, c) \in Seq(Nat)
  BY <1>1, <1>2, ConcatProperties
<1>5. Len(Lines(a, b) \o Lines(b, c)) = Len(Lines(a, b)) + Len(Lines(b, c))
  BY <1>1, <1>2, ConcatProperties
<1>6. Len(Lines(a, b) \o Lines(b, c)) = c - a
  BY <1>1, <1>2, <1>5
<1>7. ASSUME NEW i \in 1 .. c - a
      PROVE  (Lines(a, b) \o Lines(b, c))[i] = Lines(a, c)[i]
  <2>1. i \in 1 .. Len(Lines(a, b)) + Len(Lines(b, c))
    BY <1>1, <1>2
  <2>2. (Lines(a, b) \o Lines(b, c))[i] =
          IF i <= Len(Lines(a, b)) THEN Lines(a, b)[i] ELSE Lines(b, c)[i - Len(Lines(a, b))]
    BY <1>1, <1>2, <2>1, ConcatProperties
  <2>3. (Lines(a, b) \o Lines(b, c))[i] = a + i
    <3>1. (Lines(a, b) \o Lines(b, c))[i] =
            IF i <= b - a THEN Lines(a, b)[i] ELSE Lines(b, c)[i - (b - a)]
      BY <1>1, <2>2
    <3>2. i <= b - a => Lines(a, b)[i] = a + i
      BY DEF Lines
    <3>3. ~(i <= b - a) => Lines(b, c)[i - (b - a)] = a + i
      <4>1. ~(i <= b - a) => i - (b - a) \in 1 .. c - b /\ b + (i - (b - a)) = a + i
        OBVIOUS
      <4> QED
        BY <4>1 DEF Lines
    <3> QED
      BY <3>1, <3>2, <3>3
  <2> QED
    BY <2>3 DEF Lines
<1> QED
  BY <1>3, <1>4, <1>6, <1>7, SeqEqual

\* One more line.
LEMMA LinesAppend ==
  ASSUME NEW a \in Nat, NEW b \in Nat, a <= b
  PROVE  Append(Lines(a, b), b + 1) = Lines(a, b + 1)
<1>1. Lines(a, b) \in Seq(Nat) /\ Len(Lines(a, b)) = b - a
  BY LinesLength
<1>2. Lines(b, b + 1) = <<b + 1>>
  BY DEF Lines
<1>3. Append(Lines(a, b), b + 1) = Lines(a, b) \o <<b + 1>>
  BY <1>1, AppendIsConcat
<1>4. b + 1 \in Nat /\ b <= b + 1
  OBVIOUS
<1>5. Lines(a, b) \o Lines(b, b + 1) = Lines(a, b + 1)
  BY <1>4, LinesConcat
<1> QED
  BY <1>2, <1>3, <1>5

\* The first n lines of a run, and the rest.
LEMMA LinesSplit ==
  ASSUME NEW a \in Nat, NEW b \in Nat, a <= b, NEW n \in Nat, n <= b - a
  PROVE  /\ SubSeq(Lines(a, b), 1, n) = Lines(a, a + n)
         /\ SubSeq(Lines(a, b), n + 1, b - a) = Lines(a + n, b)
<1>1. Lines(a, b) \in Seq(Nat) /\ Len(Lines(a, b)) = b - a
  BY LinesLength
<1>2. SubSeq(Lines(a, b), 1, n) = [i \in 1 .. n |-> a + i]
  BY <1>1 DEF Lines
<1>3. SubSeq(Lines(a, b), n + 1, b - a) = [i \in 1 .. (b - a) - n |-> a + n + i]
  BY <1>1 DEF Lines
<1>4. a + n - a = n /\ (b - a) - n = b - (a + n)
  OBVIOUS
<1> QED
  BY <1>2, <1>3, <1>4 DEF Lines

\* A shorter run from the same line is a prefix.
LEMMA LinesPrefix ==
  ASSUME NEW a \in Nat, NEW b \in Nat, a <= b
  PROVE  IsPrefix(Lines(0, a), Lines(0, b))
<1>1. Len(Lines(0, a)) = a /\ Len(Lines(0, b)) = b
  BY LinesLength
<1>2. SubSeq(Lines(0, b), 1, a) = Lines(0, 0 + a) /\ SubSeq(Lines(0, a), 1, a) = Lines(0, 0 + a)
  BY LinesSplit
<1> QED
  BY <1>1, <1>2 DEF IsPrefix

\* Nothing.
LEMMA NoLines == \A a \in Nat : Lines(a, a) = <<>>
BY DEF Lines

-----------------------------------------------------------------------------
(***************************************************************************)
(* The invariant                                                           *)
(***************************************************************************)

Shown == Len(console)
Saved == Len(file)
Held == Len(chunk)

LogTypeOK ==
  /\ main \in {"start", "running", "stopping", "joining", "exiting", "exited", "killed"}
  /\ copier \in {"none", "reading", "showing", "saving", "ended"}
  /\ output \in {"console", "pipe"}
  /\ printed \in Nat /\ loggedTo \in Nat
  /\ Shown \in Nat /\ Saved \in Nat /\ Held \in Nat
  /\ Saved <= Shown /\ Shown <= printed

\* What has been shown and saved is the beginning of what was printed.
InOrderOfPrinting == console = Lines(0, Shown) /\ file = Lines(0, Saved)

\* What is in the copier's buffer and in the pipe goes on where the console ends.
OnItsWay ==
  /\ copier \in {"none", "reading", "ended"} => chunk = <<>> /\ pipe = Lines(Shown, printed)
  /\ copier = "showing" =>
       /\ Shown + Held <= printed
       /\ chunk = Lines(Shown, Shown + Held) /\ pipe = Lines(Shown + Held, printed)
  /\ copier = "saving" =>
       /\ Held <= Shown
       /\ chunk = Lines(Shown - Held, Shown) /\ pipe = Lines(Shown, printed)

\* The log is behind the console by the buffer at most.
LogFollows == Saved = IF copier = "saving" THEN Shown - Held ELSE Shown

\* The copier runs from Start() to the end of the pipe, and Stop() waits for it.
Threads ==
  /\ main = "start" => output = "console" /\ copier = "none" /\ printed = 0 /\ loggedTo = 0
  /\ main = "running" /\ output = "console" => copier = "none" /\ loggedTo = 0
  /\ output = "pipe" => main = "running" /\ copier \in {"reading", "showing", "saving"} /\ ends = Ends
  /\ main \in {"stopping", "joining"} => copier # "none" /\ loggedTo = printed
  /\ main \in {"exiting", "exited"} /\ copier # "none" => copier = "ended"
  /\ copier = "none" => printed = Shown /\ loggedTo = 0
  /\ copier = "ended" => printed = Shown /\ ends = {}

Alive ==
  /\ OnItsWay
  /\ Threads
  /\ output = "pipe" \/ main \in {"stopping", "joining"} => LogFollows
  /\ main \in {"exiting", "exited"} /\ loggedTo > 0 => Saved = loggedTo

LogInv ==
  /\ LogTypeOK
  /\ InOrderOfPrinting
  /\ main # "killed" => Alive
  /\ main = "killed" => copier = "none"
  /\ output = "pipe" \/ main \in {"stopping", "joining"} => Shown - Saved <= Held

\* Before the first line.
LEMMA InitLogInv == Init => LogInv
<1>1. <<>> = Lines(0, 0) /\ Len(<<>>) = 0
  BY NoLines
<1> QED
  BY <1>1
  DEF Init, LogInv, LogTypeOK, InOrderOfPrinting, Alive, OnItsWay, Threads, LogFollows, Shown, Saved, Held

\* Where the threads are is all that changes.
LEMMA QuietStep ==
  ASSUME LogInv,
         \/ Start \/ StartFails \/ StopWithoutLog \/ Stop \/ CloseWriteEnd \/ Joined \/ Exit
         \/ Kill \/ ConsoleSticks \/ UNCHANGED vars
  PROVE  LogInv'
<1> USE DEF LogInv, LogTypeOK, InOrderOfPrinting, Alive, OnItsWay, Threads, LogFollows, Shown, Saved, Held,
            mainVars, copierVars
<1>1. CASE Start
  BY <1>1 DEF Start, Ends
<1>2. CASE StartFails
  BY <1>2 DEF StartFails
<1>3. CASE StopWithoutLog
  BY <1>3 DEF StopWithoutLog
<1>4. CASE Stop
  BY <1>4 DEF Stop, RestoreConsole
<1>5. CASE CloseWriteEnd
  BY <1>5 DEF CloseWriteEnd
<1>6. CASE Joined
  BY <1>6 DEF Joined, CopierHasEnded
<1>7. CASE Exit
  BY <1>7 DEF Exit
<1>8. CASE Kill
  BY <1>8 DEF Kill
<1>9. CASE ConsoleSticks
  BY <1>9 DEF ConsoleSticks
<1>10. CASE UNCHANGED vars
  BY <1>10 DEF vars
<1> QED
  BY <1>1, <1>2, <1>3, <1>4, <1>5, <1>6, <1>7, <1>8, <1>9, <1>10

\* A line goes to the end of the pipe, or to a console the copier has left.
LEMMA PrintStep == LogInv /\ PrintLine => LogInv'
<1> SUFFICES ASSUME LogInv, PrintLine PROVE LogInv'
  OBVIOUS
<1>1. /\ main \in {"running", "exiting"} /\ printed' = printed + 1
      /\ UNCHANGED <<main, loggedTo, output, ends, copier, chunk, file>>
  BY DEF PrintLine, copierVars
<1>2. /\ printed \in Nat /\ Shown \in Nat /\ Held \in Nat /\ Shown <= printed
      /\ OnItsWay /\ Threads /\ copier \in {"none", "reading", "showing", "saving", "ended"}
  BY <1>1 DEF LogInv, LogTypeOK, Alive
<1>3. CASE output = "pipe"
  <2>1. pipe' = Append(pipe, printed + 1) /\ console' = console
    BY <1>1, <1>3 DEF PrintLine
  <2>2. \A n \in Nat : n <= printed => Append(Lines(n, printed), printed + 1) = Lines(n, printed + 1)
    BY <1>2, LinesAppend
  <2>3. /\ copier = "reading" => pipe' = Lines(Shown, printed + 1)
        /\ copier = "showing" => pipe' = Lines(Shown + Held, printed + 1)
        /\ copier = "saving" => pipe' = Lines(Shown, printed + 1)
    BY <1>2, <2>1, <2>2 DEF OnItsWay
  <2> QED
    BY <1>1, <1>3, <2>1, <2>3
    DEF LogInv, LogTypeOK, InOrderOfPrinting, Alive, OnItsWay, Threads, LogFollows, Shown, Saved, Held
<1>4. CASE output = "console"
  <2>1. console' = Append(console, printed + 1) /\ pipe' = pipe
    BY <1>1, <1>4 DEF PrintLine
  <2>2. copier \in {"none", "ended"} /\ printed = Shown
    BY <1>1, <1>2, <1>4 DEF Threads
  <2>3. console = Lines(0, printed) /\ pipe = Lines(printed, printed)
    BY <1>2, <2>2 DEF LogInv, InOrderOfPrinting, OnItsWay
  <2>4. /\ 0 \in Nat /\ 0 <= printed /\ printed + 1 \in Nat /\ 0 <= printed + 1
        /\ printed + 1 - 0 = printed + 1
    BY <1>2
  <2>5. console' = Lines(0, printed + 1)
    BY <1>2, <2>1, <2>3, <2>4, LinesAppend
  <2>6. Len(Lines(0, printed + 1)) = printed + 1 - 0
    BY <2>4, LinesLength
  <2>7. Len(console') = printed + 1
    BY <2>4, <2>5, <2>6
  <2>8. pipe' = Lines(printed + 1, printed + 1)
    BY <1>2, <2>1, <2>3, <2>4, NoLines
  <2> QED
    BY <1>1, <1>4, <2>2, <2>5, <2>7, <2>8
    DEF LogInv, LogTypeOK, InOrderOfPrinting, Alive, OnItsWay, Threads, LogFollows, Shown, Saved, Held
<1> QED
  BY <1>3, <1>4 DEF LogInv, LogTypeOK

\* The copier takes lines out of the pipe, or finds its end.
LEMMA ReadStep == LogInv /\ ReadPipe => LogInv'
<1> SUFFICES ASSUME LogInv, ReadPipe PROVE LogInv'
  OBVIOUS
<1>1. /\ copier = "reading" /\ main # "killed"
      /\ UNCHANGED <<main, printed, loggedTo, output, ends, console, file>>
  BY DEF ReadPipe, mainVars, LogInv
<1>2. /\ printed \in Nat /\ Shown \in Nat /\ Shown <= printed
      /\ pipe = Lines(Shown, printed) /\ Threads
  BY <1>1 DEF LogInv, LogTypeOK, Alive, OnItsWay
<1>3. Len(pipe) = printed - Shown
  BY <1>2, LinesLength
<1>4. CASE EndOfFile /\ copier' = "ended" /\ UNCHANGED <<pipe, chunk>>
  <2>1. Len(pipe) = 0 /\ ends = {}
    BY <1>4 DEF EndOfFile
  <2>2. printed = Shown
    BY <1>2, <1>3, <2>1
  <2>3. output # "pipe"
    BY <1>2, <2>1 DEF Threads, Ends
  <2> QED
    BY <1>1, <1>4, <2>1, <2>2, <2>3
    DEF LogInv, LogTypeOK, InOrderOfPrinting, Alive, OnItsWay, Threads, LogFollows, Shown, Saved, Held
<1>5. ASSUME NEW n \in 1 .. ReadSize, n <= Len(pipe), copier' = "showing",
             chunk' = SubSeq(pipe, 1, n), pipe' = SubSeq(pipe, n + 1, Len(pipe))
      PROVE  LogInv'
  <2>1. n \in Nat /\ n <= printed - Shown
    BY <1>3, <1>5, SizesAssumption DEF ReadSize
  <2>2. chunk' = SubSeq(Lines(Shown, printed), 1, n)
        /\ pipe' = SubSeq(Lines(Shown, printed), n + 1, printed - Shown)
    BY <1>2, <1>3, <1>5
  <2>3. chunk' = Lines(Shown, Shown + n) /\ pipe' = Lines(Shown + n, printed)
    BY <1>2, <2>1, <2>2, LinesSplit
  <2>4. Shown + n \in Nat /\ Shown <= Shown + n /\ Shown + n - Shown = n /\ Shown + n <= printed
    BY <1>2, <2>1
  <2>5. Len(Lines(Shown, Shown + n)) = Shown + n - Shown
    BY <1>2, <2>4, LinesLength, SMTT(60)
  <2>6. Len(chunk') = n
    BY <2>3, <2>4, <2>5
  <2>7. Shown' = Shown /\ Saved' = Saved /\ Held' = n
    BY <1>1, <2>6 DEF Shown, Saved, Held
  <2>8. LogTypeOK' /\ InOrderOfPrinting'
    BY <1>1, <1>5, <2>1, <2>7 DEF LogInv, LogTypeOK, InOrderOfPrinting
  <2>9. OnItsWay'
    BY <1>1, <1>5, <2>3, <2>4, <2>7 DEF OnItsWay
  <2>10. Threads'
    BY <1>1, <1>2, <1>5, <2>7 DEF Threads
  <2>11. output' = "pipe" \/ main' \in {"stopping", "joining"} => LogFollows' /\ Shown' - Saved' <= Held'
    BY <1>1, <1>2, <1>5, <2>1, <2>7 DEF LogInv, Alive, LogFollows
  <2> QED
    BY <1>1, <1>5, <2>7, <2>8, <2>9, <2>10, <2>11 DEF LogInv, Alive
<1> QED
  BY <1>4, <1>5 DEF ReadPipe

\* What the copier has read is what follows on the console.
LEMMA ShowStep == LogInv /\ ShowOnConsole => LogInv'
<1> SUFFICES ASSUME LogInv, ShowOnConsole PROVE LogInv'
  OBVIOUS
<1>1. /\ copier = "showing" /\ copier' = "saving" /\ main # "killed"
      /\ console' = console \o chunk
      /\ UNCHANGED <<main, printed, loggedTo, output, ends, pipe, chunk, file>>
  BY DEF ShowOnConsole, mainVars, LogInv
<1>2. /\ Shown \in Nat /\ Held \in Nat /\ 0 \in Nat
      /\ console = Lines(0, Shown) /\ chunk = Lines(Shown, Shown + Held)
  BY <1>1 DEF LogInv, LogTypeOK, InOrderOfPrinting, Alive, OnItsWay
<1>3. /\ 0 <= Shown /\ Shown <= Shown + Held /\ Shown + Held \in Nat /\ 0 <= Shown + Held
      /\ Shown + Held - 0 = Shown + Held /\ Shown + Held - Held = Shown
  BY <1>2
<1>4. console' = Lines(0, Shown + Held)
  BY <1>1, <1>2, <1>3, LinesConcat
<1>5. Len(Lines(0, Shown + Held)) = Shown + Held - 0
  BY <1>2, <1>3, LinesLength
<1>6. Len(console') = Shown + Held
  BY <1>3, <1>4, <1>5
<1> QED
  BY <1>1, <1>2, <1>3, <1>4, <1>6
  DEF LogInv, LogTypeOK, InOrderOfPrinting, Alive, OnItsWay, Threads, LogFollows, Shown, Saved, Held

\* What the console has shown last is what follows in the file.
LEMMA SaveStep == LogInv /\ SaveToFile => LogInv'
<1> SUFFICES ASSUME LogInv, SaveToFile PROVE LogInv'
  OBVIOUS
<1>1. /\ copier = "saving" /\ copier' = "reading" /\ main # "killed"
      /\ file' = file \o chunk /\ chunk' = <<>>
      /\ UNCHANGED <<main, printed, loggedTo, output, ends, pipe, console>>
  BY DEF SaveToFile, Save, mainVars, LogInv
<1>2. output = "pipe" \/ main \in {"stopping", "joining"}
  BY <1>1 DEF LogInv, LogTypeOK, Alive, Threads
<1>3. /\ Saved \in Nat /\ Shown \in Nat /\ 0 \in Nat /\ Saved <= Shown /\ 0 <= Saved
      /\ Saved = Shown - Held /\ chunk = Lines(Saved, Shown)
      /\ file = Lines(0, Saved) /\ console = Lines(0, Shown)
  BY <1>1, <1>2 DEF LogInv, LogTypeOK, InOrderOfPrinting, Alive, OnItsWay, LogFollows
<1>4. file' = Lines(0, Shown)
  BY <1>1, <1>3, LinesConcat
<1>5. Len(file') = Shown
  BY <1>3, <1>4 DEF Shown
<1>6. Shown' = Shown /\ Saved' = Shown /\ Held' = 0
  BY <1>1, <1>5 DEF Shown, Saved, Held
<1>7. LogTypeOK' /\ InOrderOfPrinting'
  BY <1>1, <1>3, <1>4, <1>6 DEF LogInv, LogTypeOK, InOrderOfPrinting
<1>8. OnItsWay' /\ Threads'
  BY <1>1, <1>6 DEF LogInv, Alive, OnItsWay, Threads
<1> QED
  BY <1>1, <1>2, <1>3, <1>6, <1>7, <1>8 DEF LogInv, Alive, LogFollows, Threads

\* The invariant holds at every point of both threads.
LEMMA LogInvariant == Spec => []LogInv
<1>1. LogInv /\ [Next]_vars => LogInv'
  BY QuietStep, PrintStep, ReadStep, ShowStep, SaveStep DEF Next, MainNext, CopierNext
<1> QED
  BY <1>1, InitLogInv, PTL DEF Spec

-----------------------------------------------------------------------------
\* Nothing is shown out of order or twice, and what is not shown yet is on its way,
\* for a pipe and a buffer of any size (log_file.cpp:145-154).
THEOREM ConsoleIsInOrder == Spec => []ConsoleKeepsOrder
<1>1. ASSUME LogInv PROVE ConsoleKeepsOrder
  <2>1. \A n \in Nat : Upto(n) = Lines(0, n)
    BY DEF Upto, Lines
  <2>2. Shown \in Nat /\ printed \in Nat /\ Shown <= printed /\ console = Lines(0, Shown)
    BY <1>1 DEF LogInv, LogTypeOK, InOrderOfPrinting
  <2>3. IsPrefix(console, Upto(printed))
    BY <2>1, <2>2, LinesPrefix
  <2>4. ASSUME main # "killed" PROVE InFlight = Lines(Shown, printed)
    <3>1. CASE copier = "showing"
      <4>1. /\ Shown + Held \in Nat /\ Shown <= Shown + Held /\ Shown + Held <= printed
            /\ chunk = Lines(Shown, Shown + Held) /\ pipe = Lines(Shown + Held, printed)
        BY <1>1, <2>2, <2>4, <3>1 DEF LogInv, LogTypeOK, Alive, OnItsWay
      <4> QED
        BY <2>2, <3>1, <4>1, LinesConcat DEF InFlight
    <3>2. CASE copier # "showing"
      <4>1. pipe = Lines(Shown, printed)
        BY <1>1, <2>4, <3>2 DEF LogInv, LogTypeOK, Alive, OnItsWay
      <4>2. pipe \in Seq(Nat)
        BY <2>2, <4>1, LinesLength
      <4>3. <<>> \o pipe = pipe
        BY <4>2, ConcatEmptySeq
      <4> QED
        BY <3>2, <4>1, <4>3 DEF InFlight
    <3> QED
      BY <3>1, <3>2
  <2>5. Lines(0, Shown) \o Lines(Shown, printed) = Lines(0, printed)
    <3>1. 0 <= Shown /\ 0 \in Nat
      BY <2>2
    <3> QED
      BY <2>2, <3>1, LinesConcat
  <2> QED
    BY <2>1, <2>2, <2>3, <2>4, <2>5 DEF ConsoleKeepsOrder
<1> QED
  BY <1>1, LogInvariant, PTL

\* After Stop() the log holds everything that was printed before it, and at any time,
\* after a kill too, it is behind the console by the copier's buffer at most
\* (log_file.h:9, log_file.cpp:55).
THEOREM LogHoldsWhatWasPrinted == Spec => []LogIsComplete
<1>1. ASSUME LogInv PROVE LogIsComplete
  <2>1. \A n \in Nat : Upto(n) = Lines(0, n)
    BY DEF Upto, Lines
  <2>2. /\ Shown \in Nat /\ Saved \in Nat /\ loggedTo \in Nat /\ Saved <= Shown
        /\ console = Lines(0, Shown) /\ file = Lines(0, Saved)
    BY <1>1 DEF LogInv, LogTypeOK, InOrderOfPrinting
  <2>3. IsPrefix(file, console)
    BY <2>2, LinesPrefix
  <2>4. main \in {"exiting", "exited"} /\ loggedTo > 0 => file = Upto(loggedTo)
    BY <1>1, <2>1, <2>2 DEF LogInv, Alive
  <2> QED
    BY <1>1, <2>3, <2>4 DEF LogInv, LogIsComplete, Shown, Saved, Held
<1> QED
  BY <1>1, LogInvariant, PTL

=============================================================================
