------------------------- MODULE CommissioningProofs -------------------------
(***************************************************************************)
(* What holds of Commissioning for every set of responses, authority and   *)
(* zip tool.                                                               *)
(*                                                                         *)
(* The first half is about the answer to a request: the tree an authority  *)
(* packs is within the limits of ReadZip, what arrives of it is refused or *)
(* complete (CariZipProofs), and ReadCariResponse finds in it the          *)
(* certificate and, since the names of issuers are in order, the issuers   *)
(* that are named iss-* as they were sent, whatever other names stand next *)
(* to them (AnswersAreTakenAsSent).  The second half follows the import:   *)
(* TakenInv says what is being installed and how far it has come, and      *)
(* ImportInv that the hub runs on it once it is complete.                  *)
(***************************************************************************)
EXTENDS Commissioning, HubCredentialsProofs, CariZipProofs

-----------------------------------------------------------------------------
(***************************************************************************)
(* The answer to a request                                                 *)
(***************************************************************************)

RequestPath == <<"cert1", "device-1", "port-2", "csr-hub.pem">>
NotesPath == <<"cert1", "request-notes.txt">>
BystanderPath == <<"cert1", "device-2", "opr-2.pem">>

IssuerPaths(n) == {IssuerFile(i) : i \in 1 .. n}
StrayPaths(names) == {StrayFile(name) : name \in names}

AnswerFolders ==
  {<<"cert1">>, <<"cert1", "device-1">>, <<"cert1", "device-1", "port-2">>,
   <<"cert1", "device-1", "port-2", "hub">>, <<"cert1", "device-2">>, <<"cert1", "issuer">>}

\* Sequences by their elements.
LEMMA ShortSequences ==
  ASSUME NEW S, NEW q \in Seq(S)
  PROVE  /\ Len(q) = 1 => q = <<q[1]>>
         /\ Len(q) = 2 => q = <<q[1], q[2]>>
         /\ Len(q) = 3 => q = <<q[1], q[2], q[3]>>
         /\ Len(q) = 4 => q = <<q[1], q[2], q[3], q[4]>>
  OBVIOUS

\* A folder with a name behind it.
LEMMA NameInFolder ==
  ASSUME NEW a, NEW b, NEW c, NEW d
  PROVE  <<a, b, c>> \o <<d>> = <<a, b, c, d>> /\ <<a, b>> \o <<c>> = <<a, b, c>>
<1> DEFINE S == {a, b, c, d}
           p == <<a, b, c>> \o <<d>>
           q == <<a, b>> \o <<c>>
<1>1. /\ <<a, b, c>> \in Seq(S) /\ <<d>> \in Seq(S) /\ <<a, b>> \in Seq(S) /\ <<c>> \in Seq(S)
      /\ Len(<<a, b, c>>) = 3 /\ Len(<<d>>) = 1 /\ Len(<<a, b>>) = 2 /\ Len(<<c>>) = 1
  OBVIOUS
<1>2. /\ p \in Seq(S) /\ Len(p) = 4
      /\ \A i \in 1 .. 4 : p[i] = IF i <= 3 THEN <<a, b, c>>[i] ELSE <<d>>[i - 3]
  BY <1>1, ConcatProperties
<1>3. /\ q \in Seq(S) /\ Len(q) = 3
      /\ \A i \in 1 .. 3 : q[i] = IF i <= 2 THEN <<a, b>>[i] ELSE <<c>>[i - 2]
  BY <1>1, ConcatProperties
<1> HIDE DEF p, q
<1>4. p[1] = a /\ p[2] = b /\ p[3] = c /\ p[4] = d
  BY <1>2
<1>5. q[1] = a /\ q[2] = b /\ q[3] = c
  BY <1>3
<1>6. p = <<p[1], p[2], p[3], p[4]>>
  BY <1>2, ShortSequences
<1>7. q = <<q[1], q[2], q[3]>>
  BY <1>3, ShortSequences
<1>8. p = <<a, b, c, d>> /\ q = <<a, b, c>>
  BY <1>4, <1>5, <1>6, <1>7
<1> QED
  BY <1>8 DEF p, q

\* The paths in full.
LEMMA PathsInFull ==
  /\ PortFolder \o <<"csr-hub.pem">> = RequestPath
  /\ PortFolder \o <<"hub">> = <<"cert1", "device-1", "port-2", "hub">>
  /\ OwnCertificate = <<"cert1", "device-1", "port-2", "opr-hub.pem">>
  /\ \A i \in DOMAIN IssuerNames : IssuerFile(i) = <<"cert1", "issuer", IssuerNames[i]>>
  /\ \A name \in StrayNames : StrayFile(name) = <<"cert1", "issuer", name>>
<1>1. PortFolder \o <<"csr-hub.pem">> = RequestPath
  BY NameInFolder DEF PortFolder, RequestPath
<1>2. PortFolder \o <<"hub">> = <<"cert1", "device-1", "port-2", "hub">>
  BY NameInFolder DEF PortFolder
<1>3. OwnCertificate = <<"cert1", "device-1", "port-2", "opr-hub.pem">>
  BY NameInFolder DEF PortFolder, OwnCertificate
<1>4. ASSUME NEW i \in DOMAIN IssuerNames
      PROVE  IssuerFile(i) = <<"cert1", "issuer", IssuerNames[i]>>
  BY NameInFolder DEF IssuerFile, IssuerFolder
<1>5. ASSUME NEW name \in StrayNames
      PROVE  StrayFile(name) = <<"cert1", "issuer", name>>
  BY NameInFolder DEF StrayFile, IssuerFolder
<1> QED
  BY <1>1, <1>2, <1>3, <1>4, <1>5

\* The first names of a path.
LEMMA FirstNames ==
  ASSUME NEW S, NEW q \in Seq(S)
  PROVE  /\ Len(q) >= 1 => SubSeq(q, 1, 1) = <<q[1]>>
         /\ Len(q) >= 2 => SubSeq(q, 1, 2) = <<q[1], q[2]>>
         /\ Len(q) >= 3 => SubSeq(q, 1, 3) = <<q[1], q[2], q[3]>>
<1>1. ASSUME NEW n \in 1 .. 3, n <= Len(q)
      PROVE  /\ SubSeq(q, 1, n) \in Seq(S) /\ Len(SubSeq(q, 1, n)) = n
             /\ \A i \in 1 .. n : SubSeq(q, 1, n)[i] = q[i]
  <2>1. \A i \in 1 .. n : q[i] \in S
    BY <1>1
  <2>2. /\ SubSeq(q, 1, n) \in Seq(S) /\ Len(SubSeq(q, 1, n)) = (n - 1) + 1
        /\ \A i \in 1 .. (n - 1) + 1 : SubSeq(q, 1, n)[i] = q[(1 + i) - 1]
    BY <2>1, SubSeqProperties
  <2>3. (n - 1) + 1 = n /\ \A i \in 1 .. n : (1 + i) - 1 = i
    OBVIOUS
  <2> QED
    BY <2>2, <2>3
<1>2. ASSUME Len(q) >= 1 PROVE SubSeq(q, 1, 1) = <<q[1]>>
  <2>1. SubSeq(q, 1, 1) \in Seq(S) /\ Len(SubSeq(q, 1, 1)) = 1 /\ SubSeq(q, 1, 1)[1] = q[1]
    BY <1>1, <1>2
  <2> QED
    BY <2>1, ShortSequences
<1>3. ASSUME Len(q) >= 2 PROVE SubSeq(q, 1, 2) = <<q[1], q[2]>>
  <2>1. /\ SubSeq(q, 1, 2) \in Seq(S) /\ Len(SubSeq(q, 1, 2)) = 2
        /\ SubSeq(q, 1, 2)[1] = q[1] /\ SubSeq(q, 1, 2)[2] = q[2]
    BY <1>1, <1>3
  <2> QED
    BY <2>1, ShortSequences
<1>4. ASSUME Len(q) >= 3 PROVE SubSeq(q, 1, 3) = <<q[1], q[2], q[3]>>
  <2>1. /\ SubSeq(q, 1, 3) \in Seq(S) /\ Len(SubSeq(q, 1, 3)) = 3
        /\ SubSeq(q, 1, 3)[1] = q[1] /\ SubSeq(q, 1, 3)[2] = q[2] /\ SubSeq(q, 1, 3)[3] = q[3]
    BY <1>1, <1>4
  <2> QED
    BY <2>1, ShortSequences
<1> QED
  BY <1>2, <1>3, <1>4

\* The folders on the way to a path.
LEMMA ParentsInFull ==
  /\ \A a : Parents(<<a>>) = {}
  /\ \A a, b : Parents(<<a, b>>) = {<<a>>}
  /\ \A a, b, c : Parents(<<a, b, c>>) = {<<a>>, <<a, b>>}
  /\ \A a, b, c, d : Parents(<<a, b, c, d>>) = {<<a>>, <<a, b>>, <<a, b, c>>}
<1>1. \A a : Parents(<<a>>) = {}
  <2> TAKE a
  <2>1. 1 .. Len(<<a>>) - 1 = {}
    OBVIOUS
  <2> QED
    BY <2>1 DEF Parents
<1>2. \A a, b : Parents(<<a, b>>) = {<<a>>}
  <2> TAKE a, b
  <2> DEFINE S == {a, b}
  <2> DEFINE q == <<a, b>>
  <2>1. q \in Seq(S) /\ Len(q) = 2 /\ q[1] = a
    OBVIOUS
  <2> HIDE DEF q, S
  <2>2. SubSeq(q, 1, 1) = <<a>>
    BY <2>1, FirstNames
  <2>3. 1 .. Len(q) - 1 = {1}
    BY <2>1
  <2>4. Parents(q) = {SubSeq(q, 1, n) : n \in {1}}
    BY <2>3 DEF Parents
  <2>5. \A n \in {1} : SubSeq(q, 1, n) = <<a>>
    BY <2>2
  <2>6. Parents(q) = {<<a>>}
    BY <2>4, <2>5
  <2> QED
    BY <2>6 DEF q
<1>3. \A a, b, c : Parents(<<a, b, c>>) = {<<a>>, <<a, b>>}
  <2> TAKE a, b, c
  <2> DEFINE S == {a, b, c}
  <2> DEFINE q == <<a, b, c>>
  <2>1. q \in Seq(S) /\ Len(q) = 3 /\ q[1] = a /\ q[2] = b
    OBVIOUS
  <2> HIDE DEF q, S
  <2>2. SubSeq(q, 1, 1) = <<a>> /\ SubSeq(q, 1, 2) = <<a, b>>
    BY <2>1, FirstNames
  <2>3. 1 .. Len(q) - 1 = {1, 2}
    BY <2>1
  <2>4. Parents(q) = {<<a>>, <<a, b>>}
    BY <2>2, <2>3 DEF Parents
  <2> QED
    BY <2>4 DEF q
<1>4. \A a, b, c, d : Parents(<<a, b, c, d>>) = {<<a>>, <<a, b>>, <<a, b, c>>}
  <2> TAKE a, b, c, d
  <2> DEFINE S == {a, b, c, d}
  <2> DEFINE q == <<a, b, c, d>>
  <2>1. q \in Seq(S) /\ Len(q) = 4 /\ q[1] = a /\ q[2] = b /\ q[3] = c
    OBVIOUS
  <2> HIDE DEF q, S
  <2>2. SubSeq(q, 1, 1) = <<a>> /\ SubSeq(q, 1, 2) = <<a, b>> /\ SubSeq(q, 1, 3) = <<a, b, c>>
    <3>1. Len(q) >= 1 /\ Len(q) >= 2 /\ Len(q) >= 3
      BY <2>1
    <3>2. /\ SubSeq(q, 1, 1) = <<q[1]>> /\ SubSeq(q, 1, 2) = <<q[1], q[2]>>
          /\ SubSeq(q, 1, 3) = <<q[1], q[2], q[3]>>
      BY <2>1, <3>1, FirstNames
    <3> QED
      BY <2>1, <3>2
  <2>3. 1 .. Len(q) - 1 = {1, 2, 3}
    BY <2>1
  <2>4. Parents(q) = {<<a>>, <<a, b>>, <<a, b, c>>}
    BY <2>2, <2>3 DEF Parents
  <2> QED
    BY <2>4 DEF q
<1> QED
  BY <1>1, <1>2, <1>3, <1>4

\* A set of no more than n elements.
IsFew(S, n) == IsFiniteSet(S) /\ Cardinality(S) <= n

LEMMA OneMore ==
  ASSUME NEW S, NEW x, NEW n \in Nat, IsFew(S, n)
  PROVE  IsFew(S \cup {x}, n + 1)
<1>1. Cardinality(S) \in Nat /\ IsFiniteSet(S) /\ Cardinality(S) <= n
  BY FS_CardinalityType DEF IsFew
<1> QED
  BY <1>1, FS_AddElement DEF IsFew

\* Six elements, some of them the same.
LEMMA AtMostSix ==
  ASSUME NEW a, NEW b, NEW c, NEW d, NEW e, NEW f
  PROVE  IsFew({a, b, c, d}, 4) /\ IsFew({a, b, c, d, e, f}, 6)
<1>1. IsFew({a}, 1)
  BY FS_Singleton DEF IsFew
<1> DEFINE S2 == {a} \cup {b}
           S3 == S2 \cup {c}
           S4 == S3 \cup {d}
           S5 == S4 \cup {e}
           S6 == S5 \cup {f}
<1>2. S4 = {a, b, c, d} /\ S6 = {a, b, c, d, e, f}
  OBVIOUS
<1>3. 1 + 1 = 2 /\ 2 + 1 = 3 /\ 3 + 1 = 4 /\ 4 + 1 = 5 /\ 5 + 1 = 6
  OBVIOUS
<1>4. IsFew(S2, 2)
  <2>1. IsFew({a} \cup {b}, 1 + 1)
    BY <1>1, OneMore
  <2> QED
    BY <1>3, <2>1
<1> HIDE DEF S2
<1>5. IsFew(S3, 3)
  <2>1. IsFew(S2 \cup {c}, 2 + 1)
    BY <1>4, OneMore
  <2> QED
    BY <1>3, <2>1
<1> HIDE DEF S3
<1>6. IsFew(S4, 4)
  <2>1. IsFew(S3 \cup {d}, 3 + 1)
    BY <1>5, OneMore
  <2> QED
    BY <1>3, <2>1
<1> HIDE DEF S4
<1>7. IsFew(S5, 5)
  <2>1. IsFew(S4 \cup {e}, 4 + 1)
    BY <1>6, OneMore
  <2> QED
    BY <1>3, <2>1
<1> HIDE DEF S5
<1>8. IsFew(S6, 6)
  <2>1. IsFew(S5 \cup {f}, 5 + 1)
    BY <1>7, OneMore
  <2> QED
    BY <1>3, <2>1
<1> HIDE DEF S6
<1> QED
  BY <1>2, <1>6, <1>8

\* The names in an answer, as they are checked.
AnswerNames == DeviceNames \cup OtherNames \cup Range(IssuerNames) \cup StrayNames

\* Paths of these names.
LEMMA NamedPaths ==
  ASSUME NEW a \in AnswerNames, NEW b \in AnswerNames, NEW c \in AnswerNames, NEW d \in AnswerNames,
         NEW p \in {<<a>>, <<a, b>>, <<a, b, c>>, <<a, b, c, d>>}
  PROVE  p \in Path /\ IsSafeZipPath(p)
<1>1. AnswerNames \subseteq DOMAIN Rank /\ AnswerNames \cap IllegalNames = {}
  <2>1. Range(IssuerNames) \subseteq DOMAIN Rank
    BY NamesAssumption DEF Range
  <2> QED
    BY <2>1, NamesAssumption DEF AnswerNames
<1>2. p \in Path
  <2> DEFINE D == DOMAIN Rank
  <2>1. a \in D /\ b \in D /\ c \in D /\ d \in D
    BY <1>1
  <2> HIDE DEF D
  <2>2. <<a>> \in Seq(D) /\ <<a, b>> \in Seq(D) /\ <<a, b, c>> \in Seq(D) /\ <<a, b, c, d>> \in Seq(D)
    BY <2>1
  <2>3. p \in Seq(D)
    BY <2>2
  <2> QED
    BY <2>3 DEF D, Path
<1>3. Range(p) \subseteq {a, b, c, d} /\ p # <<>>
  BY DEF Range
<1> QED
  BY <1>1, <1>2, <1>3 DEF IsSafeZipPath

\* The folders of an answer: their names, and those on the way to them.
LEMMA FoldersOfAnswers ==
  /\ AnswerFolders \subseteq Path
  /\ \A p \in AnswerFolders : IsSafeZipPath(p) /\ Parents(p) \subseteq AnswerFolders
  /\ IsFew(AnswerFolders, 6)
<1>1. {"cert1", "device-1", "device-2", "port-2", "hub", "issuer"} \subseteq AnswerNames
  BY DEF OtherNames, AnswerNames
<1> DEFINE p1 == <<"cert1">>
           p2 == <<"cert1", "device-1">>
           p3 == <<"cert1", "device-1", "port-2">>
           p4 == <<"cert1", "device-1", "port-2", "hub">>
           p5 == <<"cert1", "device-2">>
           p6 == <<"cert1", "issuer">>
<1>a. AnswerFolders = {p1, p2, p3, p4, p5, p6}
  BY DEF AnswerFolders
<1>b. /\ p1 \in Path /\ p2 \in Path /\ p3 \in Path /\ p4 \in Path /\ p5 \in Path /\ p6 \in Path
      /\ IsSafeZipPath(p1) /\ IsSafeZipPath(p2) /\ IsSafeZipPath(p3) /\ IsSafeZipPath(p4)
      /\ IsSafeZipPath(p5) /\ IsSafeZipPath(p6)
  <2>1. "cert1" \in AnswerNames /\ "device-1" \in AnswerNames /\ "device-2" \in AnswerNames
    BY <1>1
  <2>2. "port-2" \in AnswerNames /\ "hub" \in AnswerNames /\ "issuer" \in AnswerNames
    BY <1>1
  <2>3. p1 \in Path /\ p2 \in Path /\ IsSafeZipPath(p1) /\ IsSafeZipPath(p2)
    BY <2>1, NamedPaths
  <2>4. p5 \in Path /\ p6 \in Path /\ IsSafeZipPath(p5) /\ IsSafeZipPath(p6)
    BY <2>1, <2>2, NamedPaths
  <2>5. p3 \in Path /\ IsSafeZipPath(p3)
    BY <2>1, <2>2, NamedPaths
  <2>6. p4 \in Path /\ IsSafeZipPath(p4)
    BY <2>1, <2>2, NamedPaths
  <2> QED
    BY <2>3, <2>4, <2>5, <2>6
<1>c. /\ Parents(p1) = {} /\ Parents(p2) = {p1} /\ Parents(p3) = {p1, p2}
      /\ Parents(p4) = {p1, p2, p3} /\ Parents(p5) = {p1} /\ Parents(p6) = {p1}
  <2>1. Parents(p1) = {} /\ Parents(p2) = {p1} /\ Parents(p5) = {p1} /\ Parents(p6) = {p1}
    BY ParentsInFull
  <2>2. Parents(p3) = {p1, p2}
    BY ParentsInFull
  <2>3. Parents(p4) = {p1, p2, p3}
    BY ParentsInFull
  <2> QED
    BY <2>1, <2>2, <2>3
<1> HIDE DEF p1, p2, p3, p4, p5, p6
<1>4. AnswerFolders \subseteq Path /\ \A p \in AnswerFolders : IsSafeZipPath(p)
  BY <1>a, <1>b
<1>5. \A p \in AnswerFolders : Parents(p) \subseteq AnswerFolders
  BY <1>a, <1>c
<1>6. IsFew(AnswerFolders, 6)
  BY AtMostSix DEF AnswerFolders
<1> QED
  BY <1>4, <1>5, <1>6

\* Two sets together.
LEMMA FewTogether ==
  ASSUME NEW S, NEW T, NEW m \in Nat, NEW n \in Nat, IsFew(S, m), IsFew(T, n)
  PROVE  IsFew(S \cup T, m + n)
<1>1. /\ IsFiniteSet(S \cup T)
      /\ Cardinality(S \cup T) = Cardinality(S) + Cardinality(T) - Cardinality(S \cap T)
      /\ IsFiniteSet(S \cap T)
  BY FS_Union, FS_Intersection DEF IsFew
<1>2. Cardinality(S) \in Nat /\ Cardinality(T) \in Nat /\ Cardinality(S \cap T) \in Nat
  BY <1>1, FS_CardinalityType DEF IsFew
<1> QED
  BY <1>1, <1>2 DEF IsFew

LEMMA FewIssuerPaths ==
  ASSUME NEW n \in Nat
  PROVE  IsFew(IssuerPaths(n), n)
<1> DEFINE f == [i \in 1 .. n |-> IssuerFile(i)]
<1>1. f \in Surjection(1 .. n, IssuerPaths(n))
  BY DEF Surjection, IssuerPaths
<1>2. IsFiniteSet(1 .. n) /\ Cardinality(1 .. n) = n
  BY FS_Interval
<1> HIDE DEF f
<1> QED
  BY <1>1, <1>2, FS_Surjection DEF IsFew

LEMMA FewStrayPaths == IsFew(StrayPaths(StrayNames), Cardinality(StrayNames))
<1> DEFINE f == [name \in StrayNames |-> StrayFile(name)]
<1>1. f \in Surjection(StrayNames, StrayPaths(StrayNames))
  BY DEF Surjection, StrayPaths
<1>2. IsFiniteSet(StrayNames)
  BY NamesAssumption
<1> HIDE DEF f
<1> QED
  BY <1>1, <1>2, FS_Surjection DEF IsFew

\* The entries of an answer are a number of their own.
LEMMA EntriesAreCounted ==
  /\ Cardinality(StrayNames) \in Nat /\ Len(IssuerNames) \in Nat /\ MostEntries \in Nat
  /\ \A n \in Nat : n <= Len(IssuerNames) => 4 + n + Cardinality(StrayNames) + 6 <= MostEntries
<1>1. PICK c \in Nat : c = Cardinality(StrayNames)
  BY NamesAssumption, FS_CardinalityType
<1>2. PICK l \in Nat : l = Len(IssuerNames)
  BY NamesAssumption
<1>3. MostEntries = 10 + l + c
  BY <1>1, <1>2 DEF MostEntries
<1>4. \A n \in Nat : n <= l => 4 + n + c + 6 <= 10 + l + c
  OBVIOUS
<1> QED
  BY <1>1, <1>2, <1>3, <1>4

\* Tuples differ in their length or in an element.
LEMMA TuplesDiffer ==
  /\ \A a, b, c, d, e : <<a, b>> # <<c, d, e>>
  /\ \A a, b, c, d, e, f : <<a, b>> # <<c, d, e, f>>
  /\ \A a, b, c, d, e, f, g : <<a, b, c>> # <<d, e, f, g>>
  /\ \A a, b, c, d, e, f : <<a, b, c>> = <<d, e, f>> => b = e /\ c = f
  /\ \A a, b, c, d, e, f, g, h : <<a, b, c, d>> = <<e, f, g, h>> => d = h
  OBVIOUS

\* The files of an answer: their names, the folders on the way to them, and that none is
\* another.
LEMMA FilesOfAnswers ==
  ASSUME NEW place \in Places, NEW n \in Nat, n <= Len(IssuerNames)
  PROVE  LET known == {RequestPath, NotesPath, BystanderPath, place}
             strays == StrayPaths(StrayNames)
             all == known \cup IssuerPaths(n) \cup strays
         IN  /\ all \subseteq Path
             /\ \A p \in all : IsSafeZipPath(p) /\ Parents(p) \subseteq AnswerFolders
             /\ IsFew(all, 4 + n + Cardinality(StrayNames))
             /\ known \cap IssuerPaths(n) = {}
             /\ strays \cap (known \cup IssuerPaths(n)) = {}
             /\ RequestPath # NotesPath /\ RequestPath # BystanderPath /\ RequestPath # place
             /\ NotesPath # BystanderPath /\ NotesPath # place /\ BystanderPath # place
             /\ \A i, j \in 1 .. n : IssuerFile(i) = IssuerFile(j) => i = j
<1> DEFINE known == {RequestPath, NotesPath, BystanderPath, place}
           strays == StrayPaths(StrayNames)
           all == known \cup IssuerPaths(n) \cup strays
           Fine(p) == p \in Path /\ IsSafeZipPath(p) /\ Parents(p) \subseteq AnswerFolders
<1>1. /\ {"cert1", "device-1", "device-2", "port-2", "issuer"} \subseteq AnswerNames
      /\ {"csr-hub.pem", "request-notes.txt", "opr-hub.pem", "opr-2.pem", "opr-3.pem"} \subseteq AnswerNames
  BY DEF AnswerNames, OtherNames, DeviceNames
<1>2. /\ "cert1" \in AnswerNames /\ "device-1" \in AnswerNames /\ "device-2" \in AnswerNames
      /\ "port-2" \in AnswerNames /\ "issuer" \in AnswerNames /\ "csr-hub.pem" \in AnswerNames
      /\ "request-notes.txt" \in AnswerNames /\ "opr-hub.pem" \in AnswerNames
      /\ "opr-2.pem" \in AnswerNames /\ "opr-3.pem" \in AnswerNames
  BY <1>1
<1>3. \A name \in AnswerNames : /\ Fine(<<"cert1", "device-1", "port-2", name>>)
                                /\ Fine(<<"cert1", "device-2", name>>)
                                /\ Fine(<<"cert1", "issuer", name>>)
                                /\ Fine(<<"cert1", name>>)
  <2> TAKE name \in AnswerNames
  <2>1. Fine(<<"cert1", "device-1", "port-2", name>>)
    <3>1. Parents(<<"cert1", "device-1", "port-2", name>>) \subseteq AnswerFolders
      BY ParentsInFull DEF AnswerFolders
    <3> QED
      BY <1>2, <3>1, NamedPaths
  <2>2. Fine(<<"cert1", "device-2", name>>)
    <3>1. Parents(<<"cert1", "device-2", name>>) \subseteq AnswerFolders
      BY ParentsInFull DEF AnswerFolders
    <3> QED
      BY <1>2, <3>1, NamedPaths
  <2>3. Fine(<<"cert1", "issuer", name>>)
    <3>1. Parents(<<"cert1", "issuer", name>>) \subseteq AnswerFolders
      BY ParentsInFull DEF AnswerFolders
    <3> QED
      BY <1>2, <3>1, NamedPaths
  <2>4. Fine(<<"cert1", name>>)
    <3>1. Parents(<<"cert1", name>>) \subseteq AnswerFolders
      BY ParentsInFull DEF AnswerFolders
    <3> QED
      BY <1>2, <3>1, NamedPaths
  <2> QED
    BY <2>1, <2>2, <2>3, <2>4
<1>4. place = <<"cert1", "device-1", "port-2", "opr-hub.pem">> \/ place = <<"cert1", "device-2", "opr-3.pem">>
  BY PathsInFull DEF Places
<1>5. Fine(RequestPath) /\ Fine(NotesPath) /\ Fine(BystanderPath) /\ Fine(place)
  BY <1>2, <1>3, <1>4 DEF RequestPath, NotesPath, BystanderPath
<1>6. \A i \in 1 .. n : /\ i \in DOMAIN IssuerNames /\ IssuerNames[i] \in AnswerNames
                        /\ IssuerFile(i) = <<"cert1", "issuer", IssuerNames[i]>>
  <2>1. DOMAIN IssuerNames = 1 .. Len(IssuerNames) /\ Len(IssuerNames) \in Nat
    BY NamesAssumption
  <2> QED
    BY <2>1, PathsInFull DEF AnswerNames, Range
<1>7. \A p \in IssuerPaths(n) : Fine(p)
  BY <1>3, <1>6 DEF IssuerPaths
<1>s. \A name \in StrayNames : /\ name \in AnswerNames
                              /\ StrayFile(name) = <<"cert1", "issuer", name>>
                              /\ name \notin Range(IssuerNames)
  BY PathsInFull, NamesAssumption DEF AnswerNames
<1>t. \A p \in strays : Fine(p)
  BY <1>3, <1>s DEF StrayPaths
<1>8. \A p \in all : Fine(p)
  BY <1>5, <1>7, <1>t
<1>9. IsFew(all, 4 + n + Cardinality(StrayNames))
  <2>1. IsFew(known \cup IssuerPaths(n), 4 + n)
    BY AtMostSix, FewIssuerPaths, FewTogether
  <2> DEFINE A == known \cup IssuerPaths(n)
             m == 4 + n
             c == Cardinality(StrayNames)
  <2>2. m \in Nat /\ c \in Nat
    BY EntriesAreCounted
  <2>3. IsFew(A, m) /\ IsFew(strays, c)
    BY <2>1, FewStrayPaths
  <2>4. all = A \cup strays
    OBVIOUS
  <2> HIDE DEF A, m, c, strays
  <2>5. IsFew(A \cup strays, m + c)
    BY <2>2, <2>3, FewTogether
  <2> QED
    BY <2>4, <2>5 DEF m, c
<1>10. known \cap IssuerPaths(n) = {}
  <2>1. ASSUME NEW i \in 1 .. n PROVE IssuerFile(i) \notin known
    BY <1>4, <1>6, TuplesDiffer DEF RequestPath, NotesPath, BystanderPath
  <2> QED
    BY <2>1 DEF IssuerPaths
<1>u. strays \cap (known \cup IssuerPaths(n)) = {}
  <2>1. ASSUME NEW name \in StrayNames PROVE StrayFile(name) \notin known
    BY <1>4, <1>s, TuplesDiffer DEF RequestPath, NotesPath, BystanderPath
  <2>2. ASSUME NEW name \in StrayNames, NEW i \in 1 .. n PROVE StrayFile(name) # IssuerFile(i)
    <3>1. IssuerNames[i] # name
      BY <1>6, <1>s DEF Range
    <3> QED
      BY <1>6, <1>s, <3>1, TuplesDiffer
  <2> QED
    BY <2>1, <2>2 DEF StrayPaths, IssuerPaths
<1>11. /\ RequestPath # NotesPath /\ RequestPath # BystanderPath /\ RequestPath # place
       /\ NotesPath # BystanderPath /\ NotesPath # place /\ BystanderPath # place
  BY <1>4, TuplesDiffer DEF RequestPath, NotesPath, BystanderPath
<1>12. \A i, j \in 1 .. n : IssuerFile(i) = IssuerFile(j) => i = j
  <2> TAKE i, j \in 1 .. n
  <2> HAVE IssuerFile(i) = IssuerFile(j)
  <2>1. IssuerNames[i] = IssuerNames[j]
    BY <1>6, TuplesDiffer
  <2>2. /\ \A k, l \in DOMAIN IssuerNames : k < l => Rank[IssuerNames[k]] < Rank[IssuerNames[l]]
        /\ \A k \in DOMAIN IssuerNames : Rank[IssuerNames[k]] \in Nat
    BY NamesAssumption, RankAssumption
  <2>3. ~(i < j) /\ ~(j < i)
    BY <1>6, <2>1, <2>2
  <2> QED
    BY <2>3
<1> QED
  BY <1>8, <1>9, <1>10, <1>11, <1>12, <1>u

\* The files of a request.
AreOfRequest(files, k) ==
  /\ files = [p \in {RequestPath, NotesPath} |-> files[p]]
  /\ files[RequestPath] = CsrFor(k) /\ files[NotesPath] = Notes

\* The files of an answer.
AreOfAnswer(files, r, place) ==
  /\ files = [p \in {RequestPath, NotesPath, BystanderPath, place} \cup IssuerPaths(Len(r.issuers))
                     \cup StrayPaths(DOMAIN r.others) |-> files[p]]
  /\ files[RequestPath] = CsrFor(r.leaf.key) /\ files[NotesPath] = Notes
  /\ files[BystanderPath] = <<[r.leaf EXCEPT !.key = r.leaf.by]>>
  /\ files[place] = <<r.leaf>>
  /\ \A i \in 1 .. Len(r.issuers) : files[IssuerFile(i)] = <<r.issuers[i]>>
  /\ \A name \in DOMAIN r.others : files[StrayFile(name)] = <<r.others[name]>>

\* A tree t that is another one with files added.
HasAlso(t, tree, files) ==
  /\ t = [files |-> t.files, folders |-> t.folders]
  /\ t.files = [p \in DOMAIN files \cup DOMAIN tree.files |-> t.files[p]]
  /\ \A p \in DOMAIN files : t.files[p] = files[p]
  /\ \A p \in DOMAIN tree.files \ DOMAIN files : t.files[p] = tree.files[p]
  /\ t.folders = tree.folders \cup UNION {Parents(p) : p \in DOMAIN files}

LEMMA AddFilesAdds ==
  ASSUME NEW tree, NEW files
  PROVE  HasAlso(AddFiles(tree, files), tree, files)
<1> DEFINE f == [p \in DOMAIN files \cup DOMAIN tree.files |-> IF p \in DOMAIN files THEN files[p] ELSE tree.files[p]]
           g == tree.folders \cup UNION {Parents(p) : p \in DOMAIN files}
<1>1. AddFiles(tree, files) = [files |-> f, folders |-> g]
  BY DEF AddFiles
<1>2. /\ f = [p \in DOMAIN files \cup DOMAIN tree.files |-> f[p]]
      /\ \A p \in DOMAIN files : f[p] = files[p]
      /\ \A p \in DOMAIN tree.files \ DOMAIN files : f[p] = tree.files[p]
  OBVIOUS
<1>3. g = tree.folders \cup UNION {Parents(p) : p \in DOMAIN files}
  OBVIOUS
<1> HIDE DEF f, g
<1>4. [files |-> f, folders |-> g].files = f /\ [files |-> f, folders |-> g].folders = g
  OBVIOUS
<1> QED
  BY <1>1, <1>2, <1>3, <1>4 DEF HasAlso

\* One file more.
HasAlsoFile(t, tree, path, contents) ==
  /\ t = [files |-> t.files, folders |-> t.folders]
  /\ t.files = [p \in {path} \cup DOMAIN tree.files |-> t.files[p]]
  /\ t.files[path] = contents
  /\ \A p \in DOMAIN tree.files \ {path} : t.files[p] = tree.files[p]
  /\ t.folders = tree.folders \cup Parents(path)

LEMMA AddFileAdds ==
  ASSUME NEW tree, NEW path, NEW contents
  PROVE  HasAlsoFile(AddFile(tree, path, contents), tree, path, contents)
<1> DEFINE files == [p \in {path} |-> contents]
           t == AddFiles(tree, files)
<1>1. DOMAIN files = {path} /\ files[path] = contents
  OBVIOUS
<1>2. AddFile(tree, path, contents) = t
  BY DEF AddFile
<1>3. HasAlso(t, tree, files)
  BY AddFilesAdds
<1> HIDE DEF files, t
<1>4. UNION {Parents(p) : p \in {path}} = Parents(path)
  OBVIOUS
<1>5. HasAlsoFile(t, tree, path, contents)
  BY <1>1, <1>3, <1>4 DEF HasAlso, HasAlsoFile
<1> QED
  BY <1>2, <1>5

\* There is room for an answer, and for a request, which is smaller.
LEMMA RoomForAnswers ==
  ASSUME NEW layout \in Layouts
  PROVE  /\ layout \in Layout /\ HasRoom(MostEntries, layout)
         /\ [method |-> "deflate", extra |-> 0, descriptor |-> 0] \in Layout
         /\ HasRoom(MostEntries, [method |-> "deflate", extra |-> 0, descriptor |-> 0])
<1> DEFINE plain == [method |-> "deflate", extra |-> 0, descriptor |-> 0]
<1>1. layout \in Layout /\ plain \in Layout
  BY LayoutsAssumption DEF Layout
<1>3. PICK n \in Nat : n = MostEntries
  BY EntriesAreCounted
<1>4. /\ n <= MAX_ENTRIES /\ n <= MAX_TOTAL_UNCOMPRESSED
      /\ n * (3 + 2 * layout.extra + layout.descriptor) + 1 <= MAX_ZIP_BYTES
  BY <1>3, LayoutsAssumption
<1>5. HasRoom(n, layout)
  BY <1>4 DEF HasRoom
<1>6. PICK c \in Nat : c = 3 + 2 * layout.extra + layout.descriptor /\ 3 <= c
  <2>1. PICK x \in Nat : x = layout.extra
    BY <1>1 DEF Layout
  <2>2. PICK k \in Nat : k = layout.descriptor
    BY <1>1 DEF Layout
  <2>3. 3 + 2 * x + k \in Nat /\ 3 <= 3 + 2 * x + k
    OBVIOUS
  <2> QED
    BY <2>1, <2>2, <2>3
<1>7. n * 3 <= n * c
  BY <1>6, TimesGrows
<1>8. n * 3 + 1 <= MAX_ZIP_BYTES
  <2>1. n * c + 1 <= MAX_ZIP_BYTES
    BY <1>4, <1>6
  <2>2. MAX_ZIP_BYTES \in Nat
    BY LimitsAssumption
  <2>3. n * 3 \in Nat /\ n * c \in Nat
    OBVIOUS
  <2> QED
    BY <1>7, <2>1, <2>2, <2>3
<1>9. 3 + 2 * plain.extra + plain.descriptor = 3
  OBVIOUS
<1>10. HasRoom(n, plain)
  <2> HIDE DEF plain
  <2> QED
    BY <1>4, <1>8, <1>9 DEF HasRoom
<1> QED
  BY <1>1, <1>3, <1>5, <1>10

\* A tree of such files and folders is small enough.
LEMMA AnswersAreSmall ==
  ASSUME NEW V, NEW layout, HasRoom(MostEntries, layout),
         NEW tree, tree.folders \in SUBSET AnswerFolders,
         tree.files = [p \in DOMAIN tree.files |-> tree.files[p]],
         NEW place \in Places, NEW n \in Nat, n <= Len(IssuerNames),
         DOMAIN tree.files # {},
         DOMAIN tree.files \subseteq {RequestPath, NotesPath, BystanderPath, place} \cup IssuerPaths(n)
                                      \cup StrayPaths(StrayNames),
         \A p \in DOMAIN tree.files : tree.files[p] \in Seq(V) /\ Len(tree.files[p]) <= 1
  PROVE  IsSmall(tree, layout, V)
<1> DEFINE all == {RequestPath, NotesPath, BystanderPath, place} \cup IssuerPaths(n)
                    \cup StrayPaths(StrayNames)
           files == DOMAIN tree.files
           folders == tree.folders
<1>1. /\ all \subseteq Path /\ \A p \in all : IsSafeZipPath(p)
      /\ IsFew(all, 4 + n + Cardinality(StrayNames))
  BY FilesOfAnswers
<1>m. PICK m \in Nat : m = 4 + n + Cardinality(StrayNames) /\ m + 6 <= MostEntries
  BY EntriesAreCounted
<1>2. files \subseteq all
  OBVIOUS
<1>3. IsFiniteSet(files) /\ Cardinality(files) <= m /\ Cardinality(files) \in Nat
  <2> HIDE DEF all, files
  <2>1. Cardinality(all) \in Nat /\ Cardinality(all) <= m /\ IsFiniteSet(all)
    BY <1>1, <1>m, FS_CardinalityType DEF IsFew
  <2>2. IsFiniteSet(files) /\ Cardinality(files) <= Cardinality(all)
    BY <1>2, <2>1, FS_Subset
  <2>3. Cardinality(files) \in Nat
    BY <2>2, FS_CardinalityType
  <2> QED
    BY <2>1, <2>2, <2>3
<1>4. IsFiniteSet(folders) /\ Cardinality(folders) <= 6 /\ Cardinality(folders) \in Nat
  <2>1. Cardinality(AnswerFolders) \in Nat /\ Cardinality(AnswerFolders) <= 6 /\ IsFiniteSet(AnswerFolders)
    BY FoldersOfAnswers, FS_CardinalityType DEF IsFew
  <2>2. IsFiniteSet(folders) /\ Cardinality(folders) <= Cardinality(AnswerFolders)
    BY <2>1, FS_Subset
  <2>3. Cardinality(folders) \in Nat
    BY <2>2, FS_CardinalityType
  <2> QED
    BY <2>1, <2>2, <2>3
<1>5. Cardinality(files) + Cardinality(folders) <= MostEntries
  <2>1. PICK c \in Nat : c = Cardinality(files) /\ c <= m
    BY <1>3
  <2>2. PICK d \in Nat : d = Cardinality(folders) /\ d <= 6
    BY <1>4
  <2>3. PICK e \in Nat : e = MostEntries
    BY EntriesAreCounted
  <2>4. c + d <= e
    BY <1>m, <2>1, <2>2, <2>3
  <2> QED
    BY <2>1, <2>2, <2>3, <2>4
<1>6. MostEntries \in Nat
  BY EntriesAreCounted
<1>7. folders \subseteq Path /\ \A p \in folders : IsSafeZipPath(p)
  BY FoldersOfAnswers
<1>8. IsTree(tree, V)
  BY <1>1, <1>2, <1>3, <1>4, <1>7 DEF IsTree
<1>9. \A p \in files \cup folders : IsSafeZipPath(p)
  BY <1>1, <1>2, <1>7
<1> QED
  BY <1>5, <1>6, <1>8, <1>9 DEF IsSmall

\* What the files of a request or an answer hold.
Pieces(r) == Certificate \cup {[request |-> r.leaf.key], [text |-> "notes"]}

LEMMA OnePiece ==
  ASSUME NEW V, NEW x \in V
  PROVE  <<x>> \in Seq(V) /\ Len(<<x>>) <= 1
  OBVIOUS

\* The authority reads the request as the hub wrote it.
LEMMA RequestArrives ==
  ASSUME NEW r \in Responses, NEW layout \in Layouts
  PROVE  LET t == ReadZip(HubRequestZip(r.leaf.key))
         IN  AreOfRequest(t.files, r.leaf.key) /\ t.folders \in SUBSET AnswerFolders
<1> DEFINE k == r.leaf.key
           csrOnly == AddFile(EmptyTree, RequestPath, CsrFor(k))
           port == AddFolder(csrOnly, <<"cert1", "device-1", "port-2", "hub">>)
           tree == AddFile(port, NotesPath, Notes)
           plain == [method |-> "deflate", extra |-> 0, descriptor |-> 0]
           entries == FolderEntries(tree) \o FileEntries(tree)
           t == ReadZip(HubRequestZip(k))
<1>1. HubRequestZip(k) = Pack(entries, plain)
  BY PathsInFull DEF HubRequestZip, WriteZip, NotesPath
<1>2. RequestPath # NotesPath
  BY TuplesDiffer DEF RequestPath, NotesPath
<1>3. /\ csrOnly.files = [p \in {RequestPath} |-> csrOnly.files[p]]
      /\ csrOnly.files[RequestPath] = CsrFor(k)
      /\ csrOnly.folders = Parents(RequestPath)
  <2>1. EmptyTree.folders = {} /\ DOMAIN EmptyTree.files = {}
    BY DEF EmptyTree
  <2>2. HasAlsoFile(csrOnly, EmptyTree, RequestPath, CsrFor(k))
    BY AddFileAdds
  <2> HIDE DEF csrOnly
  <2>3. {RequestPath} \cup DOMAIN EmptyTree.files = {RequestPath}
    BY <2>1
  <2> QED
    BY <2>1, <2>2, <2>3 DEF HasAlsoFile
<1>4. /\ port.files = csrOnly.files
      /\ port.folders = csrOnly.folders \cup Parents(<<"cert1", "device-1", "port-2", "hub">>)
                          \cup {<<"cert1", "device-1", "port-2", "hub">>}
  <2>1. csrOnly = [files |-> csrOnly.files, folders |-> csrOnly.folders]
    BY DEF AddFile, AddFiles
  <2> HIDE DEF csrOnly
  <2> QED
    BY <2>1 DEF AddFolder
<1>5. /\ tree.files = [p \in {RequestPath, NotesPath} |-> tree.files[p]]
      /\ tree.files[RequestPath] = CsrFor(k) /\ tree.files[NotesPath] = Notes
      /\ tree.folders = port.folders \cup Parents(NotesPath)
  <2> HIDE DEF csrOnly, port
  <2>1. DOMAIN port.files = {RequestPath} /\ port.files[RequestPath] = CsrFor(k)
    BY <1>3, <1>4
  <2>2. /\ tree.files = [p \in {NotesPath} \cup DOMAIN port.files |-> tree.files[p]]
        /\ tree.files[NotesPath] = Notes
        /\ \A p \in DOMAIN port.files \ {NotesPath} : tree.files[p] = port.files[p]
        /\ tree.folders = port.folders \cup Parents(NotesPath)
    <3>1. HasAlsoFile(tree, port, NotesPath, Notes)
      BY AddFileAdds
    <3> HIDE DEF tree
    <3> QED
      BY <3>1 DEF HasAlsoFile
  <2> HIDE DEF tree
  <2>3. {NotesPath} \cup DOMAIN port.files = {RequestPath, NotesPath}
    BY <2>1
  <2> QED
    BY <1>2, <2>1, <2>2, <2>3
<1>6. PICK place : place \in Places
  BY DEF Places
<1>7. 0 <= Len(IssuerNames) /\ 0 \in Nat /\ IssuerPaths(0) = {}
  BY NamesAssumption DEF IssuerPaths
<1>8. \A p \in {RequestPath, NotesPath} : Parents(p) \subseteq AnswerFolders
  BY <1>6, <1>7, FilesOfAnswers
<1>9. tree.folders \in SUBSET AnswerFolders
  <2>1. <<"cert1", "device-1", "port-2", "hub">> \in AnswerFolders
    BY DEF AnswerFolders
  <2>2. Parents(<<"cert1", "device-1", "port-2", "hub">>) \subseteq AnswerFolders
    BY <2>1, FoldersOfAnswers
  <2> HIDE DEF csrOnly, port, tree
  <2> QED
    BY <1>3, <1>4, <1>5, <1>8, <2>1, <2>2
<1>10. \A p \in {RequestPath, NotesPath} : tree.files[p] \in Seq(Pieces(r)) /\ Len(tree.files[p]) <= 1
  <2>1. [request |-> k] \in Pieces(r) /\ [text |-> "notes"] \in Pieces(r)
    BY DEF Pieces
  <2> HIDE DEF csrOnly, port, tree, k
  <2> QED
    BY <1>5, <2>1, OnePiece DEF CsrFor, Notes
<1> HIDE DEF csrOnly, port, tree, plain, entries, k
<1>11. DOMAIN tree.files = {RequestPath, NotesPath}
  BY <1>5
<1>12. plain \in Layout /\ HasRoom(MostEntries, plain)
  BY RoomForAnswers DEF plain
<1>13. IsSmall(tree, plain, Pieces(r))
  <2>1. tree.files = [p \in DOMAIN tree.files |-> tree.files[p]] /\ DOMAIN tree.files # {}
    BY <1>5, <1>11
  <2>2. DOMAIN tree.files \subseteq {RequestPath, NotesPath, BystanderPath, place} \cup IssuerPaths(0)
                                      \cup StrayPaths(StrayNames)
    BY <1>11
  <2>3. \A p \in DOMAIN tree.files : tree.files[p] \in Seq(Pieces(r)) /\ Len(tree.files[p]) <= 1
    BY <1>10, <1>11
  <2> QED
    BY <1>6, <1>7, <1>9, <1>12, <2>1, <2>2, <2>3, AnswersAreSmall
<1>14. IsListing(entries, tree, Pieces(r))
  BY <1>13, ListingsOfATree DEF IsSmall, entries
<1>15. t.files = tree.files /\ IsTreeOf(t, entries)
  BY <1>1, <1>12, <1>13, <1>14, SmallTreesArrive
<1>16. AreOfRequest(t.files, k)
  BY <1>5, <1>15 DEF AreOfRequest
<1>17. t.folders \in SUBSET AnswerFolders
  <2>1. PICK folders \in SUBSET tree.folders : Lists(entries, tree.files, folders, Pieces(r))
    BY <1>14 DEF IsListing
  <2>2. FolderPaths(entries) \subseteq AnswerFolders /\ FilePaths(entries) = {RequestPath, NotesPath}
    BY <1>9, <1>11, <2>1 DEF Lists
  <2>3. \A p \in FolderPaths(entries) \cup FilePaths(entries) : Parents(p) \subseteq AnswerFolders
    BY <1>8, <2>2, FoldersOfAnswers
  <2>4. t.folders = FolderPaths(entries) \cup (UNION {Parents(p) : p \in FolderPaths(entries)})
                      \cup (UNION {Parents(p) : p \in FilePaths(entries)})
    BY <1>15 DEF IsTreeOf
  <2> HIDE DEF t
  <2> QED
    BY <2>2, <2>3, <2>4
<1> QED
  BY <1>16, <1>17 DEF k

\* The last name of a path, and whether it is in the issuers' folder.
EndsWith(path, first, second, last) ==
  /\ Last(path) = last
  /\ IsPrefix(IssuerFolder, path) <=> first = "cert1" /\ second = "issuer"

LEMMA EndsOfPaths ==
  /\ \A a, b : EndsWith(<<a, b>>, a, b, b)
  /\ \A a, b, c : EndsWith(<<a, b, c>>, a, b, c)
  /\ \A a, b, c, d : EndsWith(<<a, b, c, d>>, a, b, d)
<1>1. ASSUME NEW S, NEW q \in Seq(S), Len(q) >= 2
      PROVE  EndsWith(q, q[1], q[2], q[Len(q)])
  <2>1. SubSeq(q, 1, 2) = <<q[1], q[2]>>
    BY <1>1, FirstNames
  <2> DEFINE f == IssuerFolder
  <2>2. f \in Seq({"cert1", "issuer"}) /\ Len(f) = 2 /\ f[1] = "cert1" /\ f[2] = "issuer"
    BY DEF IssuerFolder
  <2> HIDE DEF f
  <2>3. SubSeq(f, 1, 2) = <<"cert1", "issuer">>
    BY <2>2, FirstNames
  <2>4. IsPrefix(f, q) <=> <<"cert1", "issuer">> = <<q[1], q[2]>>
    BY <1>1, <2>1, <2>2, <2>3 DEF IsPrefix
  <2> QED
    BY <2>4 DEF f, EndsWith, Last
<1>2. \A a, b : EndsWith(<<a, b>>, a, b, b)
  <2> TAKE a, b
  <2> DEFINE q == <<a, b>>
  <2>1. q \in Seq({a, b}) /\ Len(q) = 2 /\ q[1] = a /\ q[2] = b
    OBVIOUS
  <2> HIDE DEF q
  <2>2. EndsWith(q, a, b, b)
    <3>1. EndsWith(q, q[1], q[2], q[Len(q)])
      <4>1. Len(q) >= 2
        BY <2>1
      <4> QED
        BY <1>1, <2>1, <4>1
    <3> QED
      BY <2>1, <3>1
  <2> QED
    BY <2>2 DEF q
<1>3. \A a, b, c : EndsWith(<<a, b, c>>, a, b, c)
  <2> TAKE a, b, c
  <2> DEFINE q == <<a, b, c>>
  <2>1. q \in Seq({a, b, c}) /\ Len(q) = 3 /\ q[1] = a /\ q[2] = b /\ q[3] = c
    OBVIOUS
  <2> HIDE DEF q
  <2>2. EndsWith(q, a, b, c)
    <3>1. EndsWith(q, q[1], q[2], q[Len(q)])
      <4>1. Len(q) >= 2
        BY <2>1
      <4> QED
        BY <1>1, <2>1, <4>1
    <3> QED
      BY <2>1, <3>1
  <2> QED
    BY <2>2 DEF q
<1>4. \A a, b, c, d : EndsWith(<<a, b, c, d>>, a, b, d)
  <2> TAKE a, b, c, d
  <2> DEFINE q == <<a, b, c, d>>
  <2>1. q \in Seq({a, b, c, d}) /\ Len(q) = 4 /\ q[1] = a /\ q[2] = b /\ q[4] = d
    OBVIOUS
  <2> HIDE DEF q
  <2>2. EndsWith(q, a, b, d)
    <3>1. EndsWith(q, q[1], q[2], q[Len(q)])
      <4>1. Len(q) >= 2
        BY <2>1
      <4> QED
        BY <1>1, <2>1, <4>1
    <3> QED
      BY <2>1, <3>1
  <2> QED
    BY <2>2 DEF q
<1> QED
  BY <1>2, <1>3, <1>4

\* The files of an answer, and its folders.
LEMMA AnswerIsComplete ==
  ASSUME NEW r \in Responses, NEW place \in Places, NEW layout \in Layouts
  PROVE  LET t == Answer(r, place)
         IN  AreOfAnswer(t.files, r, place) /\ t.folders \in SUBSET AnswerFolders
<1> DEFINE k == r.leaf.key
           n == Len(r.issuers)
           request == ReadZip(HubRequestZip(k))
           other == <<[r.leaf EXCEPT !.key = r.leaf.by]>>
           bystander == AddFile(request, BystanderPath, other)
           signed == AddFile(bystander, place, <<r.leaf>>)
           strays == [path \in {StrayFile(name) : name \in DOMAIN r.others} |-> <<r.others[Last(path)]>>]
           more == AddFiles(signed, strays)
           named(path) == CHOOSE i \in DOMAIN r.issuers : IssuerFile(i) = path
           issuers == [path \in {IssuerFile(i) : i \in DOMAIN r.issuers} |-> <<r.issuers[named(path)]>>]
           t == AddFiles(more, issuers)
<1>1. Answer(r, place) = t
  BY DEF Answer, BystanderPath
<1>2. n \in Nat /\ n <= Len(IssuerNames) /\ DOMAIN r.issuers = 1 .. n
      /\ DOMAIN r.others \subseteq StrayNames
  BY ResponsesAssumption
<1>3. AreOfRequest(request.files, k) /\ request.folders \in SUBSET AnswerFolders
  BY RequestArrives
<1>4. /\ \A p \in {RequestPath, NotesPath, BystanderPath, place} \cup IssuerPaths(n)
                  \cup StrayPaths(StrayNames) : Parents(p) \subseteq AnswerFolders
      /\ StrayPaths(StrayNames)
           \cap ({RequestPath, NotesPath, BystanderPath, place} \cup IssuerPaths(n)) = {}
      /\ {RequestPath, NotesPath, BystanderPath, place} \cap IssuerPaths(n) = {}
      /\ RequestPath # NotesPath /\ RequestPath # BystanderPath /\ RequestPath # place
      /\ NotesPath # BystanderPath /\ NotesPath # place /\ BystanderPath # place
      /\ \A i, j \in 1 .. n : IssuerFile(i) = IssuerFile(j) => i = j
  <2> HIDE DEF n
  <2> QED
    BY <1>2, FilesOfAnswers
<1>5. HasAlsoFile(bystander, request, BystanderPath, other)
  BY AddFileAdds
<1>6. HasAlsoFile(signed, bystander, place, <<r.leaf>>)
  BY AddFileAdds
<1>m. HasAlso(more, signed, strays)
  BY AddFilesAdds
<1>7. HasAlso(t, more, issuers)
  BY AddFilesAdds
<1>8. DOMAIN issuers = IssuerPaths(n) /\ DOMAIN strays = StrayPaths(DOMAIN r.others)
  BY <1>2 DEF IssuerPaths, StrayPaths
<1>s. \A name \in DOMAIN r.others : strays[StrayFile(name)] = <<r.others[name]>>
  <2> TAKE name \in DOMAIN r.others
  <2>1. StrayFile(name) \in DOMAIN strays
    BY <1>8 DEF StrayPaths
  <2>2. Last(StrayFile(name)) = name
    <3>1. StrayFile(name) = <<"cert1", "issuer", name>>
      BY <1>2, PathsInFull
    <3> QED
      BY <3>1, EndsOfPaths DEF EndsWith
  <2> QED
    BY <2>1, <2>2
<1>9. \A i \in 1 .. n : issuers[IssuerFile(i)] = <<r.issuers[i]>>
  <2> TAKE i \in 1 .. n
  <2>1. IssuerFile(i) \in DOMAIN issuers
    BY <1>8 DEF IssuerPaths
  <2>2. named(IssuerFile(i)) = i
    BY <1>2, <1>4
  <2> QED
    BY <2>1, <2>2
<1> HIDE DEF request, bystander, signed, strays, more, issuers, t, n, k, other
<1>10. /\ DOMAIN request.files = {RequestPath, NotesPath}
       /\ request.files[RequestPath] = CsrFor(k) /\ request.files[NotesPath] = Notes
  BY <1>3 DEF AreOfRequest
<1>11. /\ DOMAIN bystander.files = {RequestPath, NotesPath, BystanderPath}
       /\ bystander.files[RequestPath] = CsrFor(k) /\ bystander.files[NotesPath] = Notes
       /\ bystander.files[BystanderPath] = other
  <2>1. DOMAIN bystander.files = {BystanderPath} \cup DOMAIN request.files
    BY <1>5 DEF HasAlsoFile
  <2>2. DOMAIN bystander.files = {RequestPath, NotesPath, BystanderPath}
    BY <1>10, <2>1
  <2> QED
    BY <1>4, <1>5, <1>10, <2>2 DEF HasAlsoFile
<1>12. /\ DOMAIN signed.files = {RequestPath, NotesPath, BystanderPath, place}
       /\ signed.files[RequestPath] = CsrFor(k) /\ signed.files[NotesPath] = Notes
       /\ signed.files[BystanderPath] = other /\ signed.files[place] = <<r.leaf>>
  <2>1. DOMAIN signed.files = {place} \cup DOMAIN bystander.files
    BY <1>6 DEF HasAlsoFile
  <2>2. DOMAIN signed.files = {RequestPath, NotesPath, BystanderPath, place}
    BY <1>11, <2>1
  <2> QED
    BY <1>4, <1>6, <1>11, <2>2 DEF HasAlsoFile
<1>n. /\ DOMAIN more.files = {RequestPath, NotesPath, BystanderPath, place} \cup StrayPaths(DOMAIN r.others)
      /\ \A p \in {RequestPath, NotesPath, BystanderPath, place} : more.files[p] = signed.files[p]
      /\ \A name \in DOMAIN r.others : more.files[StrayFile(name)] = <<r.others[name]>>
  <2>1. DOMAIN more.files = DOMAIN strays \cup DOMAIN signed.files
    BY <1>m DEF HasAlso
  <2>2. \A p \in {RequestPath, NotesPath, BystanderPath, place} : p \notin DOMAIN strays
    BY <1>2, <1>4, <1>8 DEF StrayPaths
  <2>3. \A name \in DOMAIN r.others : StrayFile(name) \in DOMAIN strays
    BY <1>8 DEF StrayPaths
  <2>4. \A p \in {RequestPath, NotesPath, BystanderPath, place} : more.files[p] = signed.files[p]
    BY <1>m, <1>12, <2>2 DEF HasAlso
  <2>5. \A name \in DOMAIN r.others : more.files[StrayFile(name)] = strays[StrayFile(name)]
    BY <1>m, <2>3 DEF HasAlso
  <2> QED
    BY <1>8, <1>12, <1>s, <2>1, <2>4, <2>5
<1>13. t.files = [p \in {RequestPath, NotesPath, BystanderPath, place} \cup IssuerPaths(n)
                      \cup StrayPaths(DOMAIN r.others) |-> t.files[p]]
  <2>1. DOMAIN issuers \cup DOMAIN more.files
          = {RequestPath, NotesPath, BystanderPath, place} \cup IssuerPaths(n)
              \cup StrayPaths(DOMAIN r.others)
    BY <1>8, <1>n
  <2>2. t.files = [p \in DOMAIN issuers \cup DOMAIN more.files |-> t.files[p]]
    BY <1>7 DEF HasAlso
  <2> QED
    BY <2>1, <2>2
<1>14. \A p \in {RequestPath, NotesPath, BystanderPath, place} : t.files[p] = signed.files[p]
  <2>1. \A p \in {RequestPath, NotesPath, BystanderPath, place} :
          p \in DOMAIN more.files \ DOMAIN issuers
    BY <1>4, <1>8, <1>n
  <2>2. \A p \in {RequestPath, NotesPath, BystanderPath, place} : t.files[p] = more.files[p]
    BY <1>7, <2>1 DEF HasAlso
  <2> QED
    BY <1>n, <2>2
<1>o. \A name \in DOMAIN r.others : t.files[StrayFile(name)] = <<r.others[name]>>
  <2> TAKE name \in DOMAIN r.others
  <2>1. StrayFile(name) \in StrayPaths(DOMAIN r.others) /\ StrayFile(name) \in StrayPaths(StrayNames)
    BY <1>2 DEF StrayPaths
  <2>2. StrayFile(name) \in DOMAIN more.files \ DOMAIN issuers
    BY <1>4, <1>8, <1>n, <2>1
  <2>3. t.files[StrayFile(name)] = more.files[StrayFile(name)]
    BY <1>7, <2>2 DEF HasAlso
  <2> QED
    BY <1>n, <2>3
<1>15. \A i \in 1 .. n : t.files[IssuerFile(i)] = <<r.issuers[i]>>
  <2> TAKE i \in 1 .. n
  <2>1. IssuerFile(i) \in DOMAIN issuers
    BY <1>8 DEF IssuerPaths
  <2>2. t.files[IssuerFile(i)] = issuers[IssuerFile(i)]
    BY <1>7, <2>1 DEF HasAlso
  <2> QED
    BY <1>9, <2>2
<1>16. AreOfAnswer(t.files, r, place)
  BY <1>12, <1>13, <1>14, <1>15, <1>o DEF AreOfAnswer, n, k, other
<1>17. t.folders \in SUBSET AnswerFolders
  <2>1. bystander.folders \subseteq AnswerFolders
    BY <1>3, <1>4, <1>5 DEF HasAlsoFile
  <2>2. signed.folders \subseteq AnswerFolders
    BY <1>4, <1>6, <2>1 DEF HasAlsoFile
  <2>3. /\ t.folders = more.folders \cup UNION {Parents(p) : p \in IssuerPaths(n)}
        /\ more.folders = signed.folders \cup UNION {Parents(p) : p \in StrayPaths(DOMAIN r.others)}
    BY <1>7, <1>8, <1>m DEF HasAlso
  <2>4. \A p \in IssuerPaths(n) \cup StrayPaths(DOMAIN r.others) : Parents(p) \subseteq AnswerFolders
    <3>1. StrayPaths(DOMAIN r.others) \subseteq StrayPaths(StrayNames)
      BY <1>2 DEF StrayPaths
    <3> QED
      BY <1>4, <3>1
  <2> QED
    BY <2>2, <2>3, <2>4
<1> QED
  BY <1>1, <1>16, <1>17

\* What is read of an answer's zip, if it is not refused, is the files of the answer; and
\* one that arrived whole is not refused.
LEMMA DeliveriesAreAnswers ==
  ASSUME NEW d \in Deliveries
  PROVE  /\ d.sent \in Responses
         /\ d.whole => d.tree # Refused
         /\ d.tree # Refused => \E place \in Places : AreOfAnswer(d.tree.files, d.sent, place)
<1>1. PICK r \in Responses : \E zip \in ZipsOf(r) : d \in Arrivals(r, zip)
  BY DEF Deliveries
<1>2. PICK zip \in ZipsOf(r) : d \in Arrivals(r, zip)
  BY <1>1
<1>3. PICK place \in Places, layout \in Layouts : zip \in Packed(Answer(r, place), layout)
  BY <1>2 DEF ZipsOf
<1> DEFINE t == Answer(r, place)
           n == Len(r.issuers)
           strays == StrayPaths(DOMAIN r.others)
           all == {RequestPath, NotesPath, BystanderPath, place} \cup IssuerPaths(n) \cup strays
<1>4. AreOfAnswer(t.files, r, place) /\ t.folders \in SUBSET AnswerFolders
  BY AnswerIsComplete
<1>5. /\ n \in Nat /\ n <= Len(IssuerNames) /\ r.leaf \in Certificate
      /\ r.issuers \in Seq(Certificate) /\ DOMAIN r.issuers = 1 .. n
      /\ DOMAIN r.others \subseteq StrayNames
      /\ \A name \in DOMAIN r.others : r.others[name] \in Certificate
  BY ResponsesAssumption
<1>6. \A p \in all : t.files[p] \in Seq(Pieces(r)) /\ Len(t.files[p]) <= 1
  <2>1. /\ [request |-> r.leaf.key] \in Pieces(r) /\ [text |-> "notes"] \in Pieces(r)
        /\ \A c \in Certificate : c \in Pieces(r)
    BY DEF Pieces
  <2>2. [r.leaf EXCEPT !.key = r.leaf.by] \in Certificate
    BY <1>5 DEF Certificate
  <2>3. \A i \in 1 .. n : r.issuers[i] \in Certificate
    BY <1>5
  <2> HIDE DEF t, n
  <2>4. \A p \in {RequestPath, NotesPath, BystanderPath, place} : \E x \in Pieces(r) : t.files[p] = <<x>>
    <3>1. t.files[RequestPath] = <<[request |-> r.leaf.key]>> /\ t.files[NotesPath] = <<[text |-> "notes"]>>
      BY <1>4 DEF AreOfAnswer, CsrFor, Notes
    <3>2. t.files[BystanderPath] = <<[r.leaf EXCEPT !.key = r.leaf.by]>> /\ t.files[place] = <<r.leaf>>
      BY <1>4 DEF AreOfAnswer
    <3>3. \E x \in Pieces(r) : t.files[RequestPath] = <<x>>
      BY <2>1, <3>1
    <3>4. \E x \in Pieces(r) : t.files[NotesPath] = <<x>>
      BY <2>1, <3>1
    <3>5. \E x \in Pieces(r) : t.files[BystanderPath] = <<x>>
      BY <2>1, <2>2, <3>2
    <3>6. \E x \in Pieces(r) : t.files[place] = <<x>>
      BY <1>5, <2>1, <3>2
    <3> QED
      BY <3>3, <3>4, <3>5, <3>6
  <2>5. \A p \in IssuerPaths(n) : \E x \in Pieces(r) : t.files[p] = <<x>>
    <3>1. \A i \in 1 .. n : t.files[IssuerFile(i)] = <<r.issuers[i]>> /\ r.issuers[i] \in Pieces(r)
      BY <1>4, <2>1, <2>3 DEF AreOfAnswer, n
    <3> QED
      BY <3>1 DEF IssuerPaths
  <2>s. \A p \in strays : \E x \in Pieces(r) : t.files[p] = <<x>>
    <3>1. \A name \in DOMAIN r.others :
            t.files[StrayFile(name)] = <<r.others[name]>> /\ r.others[name] \in Pieces(r)
      BY <1>4, <1>5, <2>1 DEF AreOfAnswer
    <3> QED
      BY <3>1 DEF StrayPaths
  <2>6. \A p \in all : \E x \in Pieces(r) : t.files[p] = <<x>>
    BY <2>4, <2>5, <2>s
  <2> HIDE DEF all
  <2> QED
    BY <2>6, OnePiece
<1>7. /\ layout \in Layout /\ HasRoom(MostEntries, layout)
  BY RoomForAnswers
<1>8. IsSmall(t, layout, Pieces(r))
  <2> HIDE DEF t, n
  <2>1. DOMAIN t.files = all /\ t.files = [p \in DOMAIN t.files |-> t.files[p]]
    BY <1>4 DEF AreOfAnswer, n
  <2>2. DOMAIN t.files # {}
    BY <2>1
  <2>3. DOMAIN t.files \subseteq {RequestPath, NotesPath, BystanderPath, place} \cup IssuerPaths(n)
                                  \cup StrayPaths(StrayNames)
    BY <1>5, <2>1 DEF StrayPaths
  <2>4. \A p \in DOMAIN t.files : t.files[p] \in Seq(Pieces(r)) /\ Len(t.files[p]) <= 1
    BY <1>6, <2>1
  <2> HIDE DEF all
  <2> QED
    BY <1>4, <1>5, <1>7, <2>1, <2>2, <2>3, <2>4, AnswersAreSmall
<1>9. PICK entries : zip = Pack(entries, layout) /\ IsListing(entries, t, Pieces(r))
  <2>1. /\ IsListing(FileEntries(t), t, Pieces(r))
        /\ IsListing(Reverse(FileEntries(t)) \o FolderEntries(t), t, Pieces(r))
    BY <1>8, ListingsOfATree DEF IsSmall
  <2>2. \/ zip = Pack(FileEntries(t), layout)
        \/ zip = Pack(Reverse(FileEntries(t)) \o FolderEntries(t), layout)
    BY <1>3 DEF Packed
  <2> QED
    BY <2>1, <2>2
<1>10. /\ ReadZip(zip) # Refused /\ ReadZip(zip).files = t.files
       /\ \A z \in Damaged(zip) : ReadZip(z) = Refused \/ ReadZip(z).files = t.files
  BY <1>7, <1>8, <1>9, SmallTreesArrive
<1> HIDE DEF t
<1>11. CASE d = [sent |-> r, whole |-> TRUE, tree |-> ReadZip(zip)]
  <2>1. d.sent = r /\ d.tree = ReadZip(zip)
    BY <1>11
  <2> QED
    BY <1>4, <1>10, <2>1
<1>12. CASE d \in {[sent |-> r, whole |-> FALSE, tree |-> ReadZip(z)] : z \in Damaged(zip)}
  <2>1. PICK z \in Damaged(zip) : d = [sent |-> r, whole |-> FALSE, tree |-> ReadZip(z)]
    BY <1>12
  <2>2. d.sent = r /\ d.whole = FALSE /\ d.tree = ReadZip(z)
    BY <2>1
  <2> QED
    BY <1>4, <1>10, <2>2
<1> QED
  BY <1>2, <1>11, <1>12 DEF Arrivals

\* The issuers' names, one by one.
LEMMA IssuerNamesInOrder ==
  ASSUME NEW i \in 1 .. Len(IssuerNames)
  PROVE  /\ IssuerFile(i) = <<"cert1", "issuer", IssuerNames[i]>>
         /\ IssuerNames[i] \in DOMAIN Rank /\ IssuerNames[i] \notin DeviceNames
         /\ Rank[IssuerNames[i]] \in Nat
         /\ \A j \in 1 .. Len(IssuerNames) : Rank[IssuerNames[j]] < Rank[IssuerNames[i]] <=> j < i
<1>1. DOMAIN IssuerNames = 1 .. Len(IssuerNames) /\ Len(IssuerNames) \in Nat
  BY NamesAssumption
<1>2. \A k \in 1 .. Len(IssuerNames) : IssuerNames[k] \in DOMAIN Rank /\ Rank[IssuerNames[k]] \in Nat
  BY <1>1, NamesAssumption, RankAssumption
<1>3. \A k, l \in 1 .. Len(IssuerNames) : k < l => Rank[IssuerNames[k]] < Rank[IssuerNames[l]]
  BY <1>1, NamesAssumption
<1>4. ASSUME NEW j \in 1 .. Len(IssuerNames)
      PROVE  Rank[IssuerNames[j]] < Rank[IssuerNames[i]] <=> j < i
  <2>1. j < i \/ j = i \/ i < j
    BY <1>1
  <2> QED
    BY <1>2, <1>3, <2>1
<1>5. IssuerNames[i] \notin DeviceNames
  BY <1>1, NamesAssumption DEF Range
<1> QED
  BY <1>1, <1>2, <1>4, <1>5, PathsInFull

\* The import finds the issuers in the order they were sent in.
LEMMA IssuersKeepTheirOrder ==
  ASSUME NEW n \in Nat, n <= Len(IssuerNames)
  PROVE  /\ DOMAIN InOrder(IssuerPaths(n)) = 1 .. n
         /\ \A i \in 1 .. n : InOrder(IssuerPaths(n))[i] = IssuerFile(i)
<1>a. \A i \in 1 .. n : i \in 1 .. Len(IssuerNames)
  BY NamesAssumption
<1>1. \A i, j \in 1 .. n : IssuerFile(i) = IssuerFile(j) => i = j
  <2>1. PICK place : place \in Places
    BY DEF Places
  <2> QED
    BY <2>1, FilesOfAnswers
<1>2. ASSUME NEW m \in Nat, m <= n
      PROVE  IsFiniteSet(IssuerPaths(m)) /\ Cardinality(IssuerPaths(m)) = m
  <2> DEFINE f == [i \in 1 .. m |-> IssuerFile(i)]
  <2>1. f \in Surjection(1 .. m, IssuerPaths(m))
    BY DEF Surjection, IssuerPaths
  <2>2. IsFiniteSet(1 .. m) /\ Cardinality(1 .. m) = m
    BY FS_Interval
  <2>3. f \in Injection(1 .. m, IssuerPaths(m))
    <3>1. f \in [1 .. m -> IssuerPaths(m)]
      BY DEF IssuerPaths
    <3>2. \A i, j \in 1 .. m : f[i] = f[j] => i = j
      BY <1>1, <1>2
    <3> HIDE DEF f
    <3> QED
      BY <3>1, <3>2 DEF Injection, IsInjective
  <2> HIDE DEF f
  <2> QED
    BY <2>1, <2>2, <2>3, FS_Surjection
<1>3. ASSUME NEW i \in 1 .. n, NEW j \in 1 .. n
      PROVE  Precedes(IssuerFile(j), IssuerFile(i)) <=> j < i
  <2>1. /\ IssuerFile(i) = <<"cert1", "issuer", IssuerNames[i]>>
        /\ IssuerFile(j) = <<"cert1", "issuer", IssuerNames[j]>>
        /\ Rank[IssuerNames[j]] < Rank[IssuerNames[i]] <=> j < i
    BY <1>a, IssuerNamesInOrder
  <2>2. "cert1" \in DOMAIN Rank /\ "issuer" \in DOMAIN Rank
    BY NamesAssumption DEF OtherNames
  <2>3. Rank["cert1"] \in Nat /\ Rank["issuer"] \in Nat
    BY <2>2, RankAssumption
  <2> DEFINE p == IssuerFile(j)
             q == IssuerFile(i)
  <2>4. /\ Len(p) = 3 /\ p[1] = "cert1" /\ p[2] = "issuer" /\ p[3] = IssuerNames[j]
        /\ Len(q) = 3 /\ q[1] = "cert1" /\ q[2] = "issuer" /\ q[3] = IssuerNames[i]
    BY <2>1
  <2> HIDE DEF p, q
  <2>5. ASSUME Precedes(p, q) PROVE j < i
    <3>1. PICK k \in 1 .. 3 : Len(p) = k - 1 \/ Rank[p[k]] < Rank[q[k]]
      BY <2>4, <2>5 DEF Precedes
    <3>2. k = 1 \/ k = 2 \/ k = 3
      OBVIOUS
    <3>3. k # 1 /\ k # 2
      BY <2>3, <2>4, <3>1
    <3> QED
      BY <2>1, <2>4, <3>1, <3>2, <3>3
  <2>6. ASSUME j < i PROVE Precedes(p, q)
    <3>1. 3 \in 1 .. Len(q) /\ Len(p) >= 3 - 1
      BY <2>4
    <3>2. \A l \in 1 .. 3 - 1 : p[l] = q[l]
      <4>1. \A l \in 1 .. 3 - 1 : l = 1 \/ l = 2
        OBVIOUS
      <4> QED
        BY <2>4, <4>1
    <3>3. Rank[p[3]] < Rank[q[3]]
      BY <2>1, <2>4, <2>6
    <3> QED
      BY <3>1, <3>2, <3>3 DEF Precedes
  <2> QED
    BY <2>5, <2>6 DEF p, q
<1>4. ASSUME NEW i \in 1 .. n
      PROVE  Cardinality({q \in IssuerPaths(n) : Precedes(q, IssuerFile(i))}) = i - 1
  <2>1. {q \in IssuerPaths(n) : Precedes(q, IssuerFile(i))} = IssuerPaths(i - 1)
    <3>1. \A j \in 1 .. n : Precedes(IssuerFile(j), IssuerFile(i)) <=> j \in 1 .. i - 1
      BY <1>3
    <3>2. 1 .. i - 1 \subseteq 1 .. n
      OBVIOUS
    <3> QED
      BY <3>1, <3>2 DEF IssuerPaths
  <2>2. i - 1 \in Nat /\ i - 1 <= n
    OBVIOUS
  <2> QED
    BY <1>2, <2>1, <2>2
<1>5. IssuerPaths(n) \in SUBSET Path /\ IsFiniteSet(IssuerPaths(n)) /\ Cardinality(IssuerPaths(n)) = n
  <2>1. PICK place : place \in Places
    BY DEF Places
  <2>2. n <= n
    OBVIOUS
  <2> QED
    BY <1>2, <2>1, <2>2, FilesOfAnswers
<1>6. \A i \in 1 .. n : IssuerFile(i) \in IssuerPaths(n)
  BY DEF IssuerPaths
<1> DEFINE o == InOrder(IssuerPaths(n))
<1>7. /\ o \in [1 .. n -> IssuerPaths(n)]
      /\ \A i \in 1 .. n : \A p \in IssuerPaths(n) :
           Cardinality({q \in IssuerPaths(n) : Precedes(q, p)}) = i - 1 => o[i] = p
  BY <1>5, InOrderEnumerates
<1> HIDE DEF o
<1>8. DOMAIN o = 1 .. n /\ \A i \in 1 .. n : o[i] = IssuerFile(i)
  BY <1>4, <1>6, <1>7
<1> QED
  BY <1>8 DEF o

\* What kind of file each of an answer's is.
LEMMA LastNames ==
  ASSUME NEW place \in Places
  PROVE  /\ Last(RequestPath) \notin DeviceNames /\ Last(NotesPath) \notin DeviceNames
         /\ Last(place) \in DeviceNames
         /\ \A i \in 1 .. Len(IssuerNames) : Last(IssuerFile(i)) \notin DeviceNames
         /\ ~IsPrefix(IssuerFolder, RequestPath) /\ ~IsPrefix(IssuerFolder, NotesPath)
         /\ ~IsPrefix(IssuerFolder, BystanderPath) /\ ~IsPrefix(IssuerFolder, place)
         /\ \A i \in 1 .. Len(IssuerNames) : /\ IsPrefix(IssuerFolder, IssuerFile(i))
                                             /\ Last(IssuerFile(i)) \in Range(IssuerNames)
         /\ \A name \in StrayNames : /\ Last(StrayFile(name)) \notin DeviceNames
                                     /\ Last(StrayFile(name)) \notin Range(IssuerNames)
<1>1. /\ "csr-hub.pem" \notin DeviceNames /\ "request-notes.txt" \notin DeviceNames
      /\ "opr-hub.pem" \in DeviceNames /\ "opr-3.pem" \in DeviceNames
      /\ "device-1" # "issuer" /\ "request-notes.txt" # "issuer" /\ "device-2" # "issuer"
  BY DEF DeviceNames
<1>2. Last(RequestPath) = "csr-hub.pem" /\ ~IsPrefix(IssuerFolder, RequestPath)
  BY <1>1, EndsOfPaths DEF EndsWith, RequestPath
<1>3. Last(NotesPath) = "request-notes.txt" /\ ~IsPrefix(IssuerFolder, NotesPath)
  BY <1>1, EndsOfPaths DEF EndsWith, NotesPath
<1>4. ~IsPrefix(IssuerFolder, BystanderPath)
  BY <1>1, EndsOfPaths DEF EndsWith, BystanderPath
<1>5. Last(place) \in DeviceNames /\ ~IsPrefix(IssuerFolder, place)
  <2>1. place = <<"cert1", "device-1", "port-2", "opr-hub.pem">> \/ place = <<"cert1", "device-2", "opr-3.pem">>
    BY PathsInFull DEF Places
  <2>2. CASE place = <<"cert1", "device-1", "port-2", "opr-hub.pem">>
    BY <1>1, <2>2, EndsOfPaths DEF EndsWith
  <2>3. CASE place = <<"cert1", "device-2", "opr-3.pem">>
    BY <1>1, <2>3, EndsOfPaths DEF EndsWith
  <2> QED
    BY <2>1, <2>2, <2>3
<1>6. ASSUME NEW i \in 1 .. Len(IssuerNames)
      PROVE  /\ Last(IssuerFile(i)) \notin DeviceNames /\ IsPrefix(IssuerFolder, IssuerFile(i))
             /\ Last(IssuerFile(i)) \in Range(IssuerNames)
  <2>1. /\ IssuerFile(i) = <<"cert1", "issuer", IssuerNames[i]>> /\ IssuerNames[i] \notin DeviceNames
        /\ IssuerNames[i] \in Range(IssuerNames)
    BY IssuerNamesInOrder, NamesAssumption DEF Range
  <2>2. /\ Last(<<"cert1", "issuer", IssuerNames[i]>>) = IssuerNames[i]
        /\ IsPrefix(IssuerFolder, <<"cert1", "issuer", IssuerNames[i]>>)
    BY EndsOfPaths DEF EndsWith
  <2> QED
    BY <2>1, <2>2
<1>7. ASSUME NEW name \in StrayNames
      PROVE  Last(StrayFile(name)) \notin DeviceNames /\ Last(StrayFile(name)) \notin Range(IssuerNames)
  <2>1. /\ StrayFile(name) = <<"cert1", "issuer", name>>
        /\ name \notin DeviceNames /\ name \notin Range(IssuerNames)
    BY PathsInFull, NamesAssumption
  <2>2. Last(<<"cert1", "issuer", name>>) = name
    BY EndsOfPaths DEF EndsWith
  <2> QED
    BY <2>1, <2>2
<1> QED
  BY <1>1, <1>2, <1>3, <1>4, <1>5, <1>6, <1>7

\* What the import looks at in a response: its certificate, and the issuers with names
\* CARI gives them.
Signed(r) == [leaf |-> r.leaf, issuers |-> r.issuers]

LEMMA SignedIsEnough ==
  ASSUME NEW r
  PROVE  /\ ForThisHub(Signed(r)) <=> ForThisHub(r)
         /\ FilesOf(Signed(r)) = FilesOf(r)
<1>1. Signed(r).leaf = r.leaf /\ Signed(r).issuers = r.issuers
  BY DEF Signed
<1>2. SignerFirst(Signed(r)) = SignerFirst(r)
  BY <1>1 DEF SignerFirst
<1> QED
  BY <1>1, <1>2 DEF ForThisHub, FilesOf

\* Of an answer the import takes the hub's certificate, wherever it is, and the issuers
\* in their order; and it takes the answers for this hub and no other.
LEMMA AnswersAreTakenAsSent ==
  ASSUME csr \in Keys, NEW r \in Responses, NEW place \in Places,
         NEW tree, tree # Refused, AreOfAnswer(tree.files, r, place)
  PROVE  /\ IsTaken(tree) <=> ForThisHub(r)
         /\ IsTaken(tree) => ResponseIn(tree) = Signed(r)
<1> DEFINE n == Len(r.issuers)
           known == {RequestPath, NotesPath, BystanderPath, place}
           other == [r.leaf EXCEPT !.key = r.leaf.by]
<1>1. /\ n \in Nat /\ n <= Len(IssuerNames) /\ r.leaf \in Certificate
      /\ r.issuers \in Seq(Certificate) /\ DOMAIN r.issuers = 1 .. n
      /\ DOMAIN r.others \subseteq StrayNames /\ r.leaf.by \in CAs
  BY ResponsesAssumption
<1>2. \A i \in 1 .. n : i \in 1 .. Len(IssuerNames)
  BY <1>1, NamesAssumption
<1>3. /\ DOMAIN tree.files = known \cup IssuerPaths(n) \cup StrayPaths(DOMAIN r.others)
      /\ tree.files[BystanderPath] = <<other>> /\ tree.files[place] = <<r.leaf>>
      /\ \A i \in 1 .. n : tree.files[IssuerFile(i)] = <<r.issuers[i]>>
  BY DEF AreOfAnswer
<1>4. other.key # csr
  <2>1. other.key = r.leaf.by
    BY <1>1 DEF Certificate
  <2> QED
    BY <1>1, <2>1, ConstantsAssumption
<1>5. \A c \in Certificate : IsCertificate(<<c>>) /\ <<c>>[1] = c
  BY DEF IsCertificate
<1>6. ForThisKey(tree) = IF r.leaf.key = csr THEN {place} ELSE {}
  <2>1. ASSUME NEW p \in ForThisKey(tree) PROVE p = place /\ r.leaf.key = csr
    <3>1. /\ p \in known \cup IssuerPaths(n) \cup StrayPaths(DOMAIN r.others) /\ Last(p) \in DeviceNames
          /\ tree.files[p][1].key = csr
      BY <1>3 DEF ForThisKey
    <3>2. p \notin IssuerPaths(n) /\ p \notin StrayPaths(DOMAIN r.others)
      BY <1>1, <1>2, <3>1, LastNames DEF IssuerPaths, StrayPaths
    <3>3. p # RequestPath /\ p # NotesPath
      BY <3>1, LastNames
    <3>4. p # BystanderPath
      <4>1. <<other>>[1] = other
        OBVIOUS
      <4> HIDE DEF other
      <4> QED
        BY <1>3, <1>4, <3>1, <4>1
    <3>5. p = place
      BY <3>1, <3>2, <3>3, <3>4
    <3> QED
      BY <1>3, <3>1, <3>5
  <2>2. ASSUME r.leaf.key = csr PROVE place \in ForThisKey(tree)
    <3>1. IsCertificate(tree.files[place]) /\ tree.files[place][1].key = csr
      BY <1>1, <1>3, <1>5, <2>2
    <3> QED
      BY <1>3, <3>1, LastNames DEF ForThisKey
  <2> QED
    BY <2>1, <2>2
<1>7. {p \in DOMAIN tree.files : IsPrefix(IssuerFolder, p) /\ Last(p) \in Range(IssuerNames)}
        = IssuerPaths(n)
  <2>1. \A p \in known : ~IsPrefix(IssuerFolder, p)
    BY LastNames
  <2>2. \A p \in IssuerPaths(n) : IsPrefix(IssuerFolder, p) /\ Last(p) \in Range(IssuerNames)
    BY <1>2, LastNames DEF IssuerPaths
  <2>3. \A p \in StrayPaths(DOMAIN r.others) : Last(p) \notin Range(IssuerNames)
    BY <1>1, LastNames DEF StrayPaths
  <2> HIDE DEF known, n
  <2> QED
    BY <1>3, <2>1, <2>2, <2>3
<1>8. IssuersIn(tree) = [i \in 1 .. n |-> <<r.issuers[i]>>]
  <2> DEFINE o == InOrder(IssuerPaths(n))
  <2>1. DOMAIN o = 1 .. n /\ \A i \in 1 .. n : o[i] = IssuerFile(i)
    BY <1>1, IssuersKeepTheirOrder
  <2>2. IssuersIn(tree) = [i \in DOMAIN o |-> tree.files[o[i]]]
    BY <1>7 DEF IssuersIn
  <2> HIDE DEF o, n
  <2>3. \A i \in 1 .. n : tree.files[o[i]] = <<r.issuers[i]>>
    BY <1>3, <2>1
  <2> QED
    BY <2>1, <2>2, <2>3
<1>9. \A i \in 1 .. n : r.issuers[i] \in Certificate
  BY <1>1
<1>10. /\ DOMAIN IssuersIn(tree) = 1 .. n
       /\ \A i \in 1 .. n : IsCertificate(IssuersIn(tree)[i]) /\ IssuersIn(tree)[i][1] = r.issuers[i]
  <2> HIDE DEF n
  <2> QED
    BY <1>5, <1>8, <1>9
<1>11. ASSUME r.leaf.key = csr PROVE ResponseIn(tree) = Signed(r)
  <2>1. ForThisKey(tree) = {place}
    BY <1>6, <1>11
  <2>2. HubCertificateIn(tree) = place
    <3>1. CASE OwnCertificate \in ForThisKey(tree)
      BY <2>1, <3>1 DEF HubCertificateIn
    <3>2. CASE OwnCertificate \notin ForThisKey(tree)
      <4>1. {place} \in SUBSET Path
        <5>1. 0 \in Nat /\ 0 <= Len(IssuerNames)
          BY NamesAssumption
        <5> QED
          BY <5>1, FilesOfAnswers
      <4>2. IsFiniteSet({place}) /\ Cardinality({place}) = 1
        BY FS_Singleton
      <4>3. InOrder({place}) \in [1 .. 1 -> {place}]
        BY <4>1, <4>2, InOrderEnumerates
      <4>4. InOrder({place})[1] = place
        BY <4>3
      <4> QED
        BY <2>1, <3>2, <4>4 DEF HubCertificateIn
    <3> QED
      BY <3>1, <3>2
  <2>3. tree.files[HubCertificateIn(tree)][1] = r.leaf
    BY <1>1, <1>3, <1>5, <2>2
  <2>4. [i \in DOMAIN IssuersIn(tree) |-> IssuersIn(tree)[i][1]] = r.issuers
    <3> DEFINE found == [i \in DOMAIN IssuersIn(tree) |-> IssuersIn(tree)[i][1]]
    <3>1. found = [i \in 1 .. n |-> r.issuers[i]]
      BY <1>10
    <3>2. r.issuers = [i \in 1 .. n |-> r.issuers[i]]
      BY <1>1
    <3> QED
      BY <3>1, <3>2
  <2> QED
    BY <2>3, <2>4 DEF ResponseIn, Signed
<1>12. IsTaken(tree) => r.leaf.key = csr
  BY <1>6 DEF IsTaken
<1>13. ForThisHub(r) => r.leaf.key = csr
  BY DEF ForThisHub
<1>14. ASSUME r.leaf.key = csr PROVE IsTaken(tree) <=> ForThisHub(r)
  <2>1. ForThisKey(tree) # {}
    BY <1>6, <1>14
  <2> QED
    BY <1>10, <1>11, <1>14, <2>1, SignedIsEnough DEF IsTaken
<1> QED
  BY <1>11, <1>12, <1>13, <1>14

-----------------------------------------------------------------------------
(***************************************************************************)
(* The import                                                              *)
(***************************************************************************)

\* The issuers of a response r in slot 1, which signed it, and in slot 2.
FirstIssuer(r) == SignerFirst(r)[1]
LastIssuer(r) == Last(SignerFirst(r))

\* A response the import may take.
IsFit(r) ==
  /\ Len(r.issuers) \in 1..2
  /\ \E issuer \in Range(r.issuers) : Signs(issuer, r.leaf)

\* A sequence of two without its first or its second.
LEMMA RemovedFromTwo ==
  ASSUME NEW S, NEW q \in Seq(S), Len(q) = 2
  PROVE  RemoveAt(q, 1) = <<q[2]>> /\ RemoveAt(q, 2) = <<q[1]>>
<1>1. SubSeq(q, 1, 0) = <<>> /\ SubSeq(q, 3, 2) = <<>>
  BY SubSeqEmpty
<1>2. \A i \in 1..2 : q[i] \in S
  OBVIOUS
<1>3. ASSUME NEW i \in 1..2 PROVE SubSeq(q, i, i) = <<q[i]>> /\ <<q[i]>> \in Seq(S)
  <2>1. \A j \in i..i : q[j] \in S
    BY <1>2
  <2>2. /\ SubSeq(q, i, i) \in Seq(S) /\ Len(SubSeq(q, i, i)) = 1
        /\ SubSeq(q, i, i)[1] = q[i]
    BY <2>1, SubSeqProperties
  <2>3. ASSUME NEW x \in Seq(S), Len(x) = 1 PROVE x = <<x[1]>>
    <3>1. x \in [1..1 -> S] /\ x[1] \in S
      <4>1. x \in [1..Len(x) -> S]
        BY LenProperties
      <4>2. x \in [1..1 -> S]
        BY <2>3, <4>1
      <4> QED
        BY <4>2
    <3>2. <<x[1]>> \in [1..1 -> S]
      BY <3>1
    <3>3. \A k \in 1..1 : x[k] = <<x[1]>>[k]
      BY <3>1
    <3> QED
      BY <3>1, <3>2, <3>3
  <2>4. <<q[i]>> \in Seq(S)
    BY <1>2
  <2> QED
    BY <2>2, <2>3, <2>4
<1>4. <<>> \o <<q[2]>> = <<q[2]>> /\ <<q[1]>> \o <<>> = <<q[1]>>
  BY <1>3, ConcatEmptySeq
<1>5. /\ RemoveAt(q, 1) = SubSeq(q, 1, 0) \o SubSeq(q, 2, 2)
      /\ RemoveAt(q, 2) = SubSeq(q, 1, 1) \o SubSeq(q, 3, 2)
  BY DEF RemoveAt
<1> QED
  BY <1>1, <1>3, <1>4, <1>5

\* The two slots get the issuers of a response that is fit, all of them and no other.
LEMMA SlotsGetTheIssuers ==
  ASSUME NEW r \in Responses, IsFit(r)
  PROVE  /\ {FirstIssuer(r), LastIssuer(r)} = Range(r.issuers)
         /\ r.leaf \in Certificate
         /\ FirstIssuer(r) \in Certificate /\ LastIssuer(r) \in Certificate
<1> DEFINE issuers == r.issuers
           IsSigner(i) == /\ Signs(issuers[i], r.leaf)
                          /\ \A j \in 1..(i - 1) : ~Signs(issuers[j], r.leaf)
           signer == CHOOSE i \in DOMAIN issuers : IsSigner(i)
<1>1. r.leaf \in Certificate /\ issuers \in Seq(Certificate)
  BY ResponsesAssumption
<1> HIDE DEF issuers
<1>2. Len(issuers) \in 1..2 /\ \E i \in DOMAIN issuers : Signs(issuers[i], r.leaf)
  BY DEF IsFit, Range, issuers
<1>3. DOMAIN issuers = 1..Len(issuers) /\ \A i \in DOMAIN issuers : issuers[i] \in Certificate
  BY <1>1
<1>4. \E i \in DOMAIN issuers : IsSigner(i)
  <2>1. CASE Signs(issuers[1], r.leaf)
    BY <1>2, <1>3, <2>1
  <2>2. CASE ~Signs(issuers[1], r.leaf)
    <3>1. Signs(issuers[2], r.leaf) /\ 2 \in DOMAIN issuers
      BY <1>2, <1>3, <2>2
    <3>2. \A j \in 1..(2 - 1) : j = 1
      OBVIOUS
    <3> QED
      BY <2>2, <3>1, <3>2
  <2> QED
    BY <2>1, <2>2
<1>5. signer \in DOMAIN issuers
  BY <1>4
<1>6. SignerFirst(r) = <<issuers[signer]>> \o RemoveAt(issuers, signer)
  BY DEF SignerFirst, issuers
<1> HIDE DEF signer
<1>7. CASE Len(issuers) = 1
  <2>1. signer = 1 /\ DOMAIN issuers = {1}
    BY <1>3, <1>5, <1>7
  <2>2. RemoveAt(issuers, 1) = <<>>
    BY <1>1, <1>7 DEF RemoveAt
  <2>3. SignerFirst(r) = <<issuers[1]>>
    <3>1. \A c \in Certificate : <<c>> \o <<>> = <<c>>
      OBVIOUS
    <3> QED
      BY <1>3, <1>6, <2>1, <2>2, <3>1
  <2> QED
    BY <1>1, <1>3, <2>1, <2>3 DEF FirstIssuer, LastIssuer, Last, Range, issuers
<1>8. CASE Len(issuers) = 2
  <2>1. signer \in {1, 2} /\ DOMAIN issuers = {1, 2}
    BY <1>3, <1>5, <1>8
  <2>2. RemoveAt(issuers, 1) = <<issuers[2]>> /\ RemoveAt(issuers, 2) = <<issuers[1]>>
    BY <1>1, <1>8, RemovedFromTwo
  <2>3. \/ SignerFirst(r) = <<issuers[1], issuers[2]>>
        \/ SignerFirst(r) = <<issuers[2], issuers[1]>>
    <3>1. ASSUME NEW c \in Certificate, NEW d \in Certificate
          PROVE  <<c>> \o <<d>> = <<c, d>>
      <4>1. /\ <<c>> \in Seq(Certificate) /\ <<d>> \in Seq(Certificate)
            /\ Len(<<c>>) = 1 /\ Len(<<d>>) = 1
        OBVIOUS
      <4>2. /\ <<c>> \o <<d>> \in Seq(Certificate) /\ Len(<<c>> \o <<d>>) = 2
            /\ \A i \in 1..2 : (<<c>> \o <<d>>)[i] = IF i <= 1 THEN <<c>>[i] ELSE <<d>>[i - 1]
        BY <4>1, ConcatProperties
      <4>n. (<<c>> \o <<d>>)[1] = c /\ (<<c>> \o <<d>>)[2] = d
        BY <4>2
      <4>3. \A x \in Seq(Certificate) : Len(x) = 2 => x = <<x[1], x[2]>>
        OBVIOUS
      <4> QED
        BY <4>2, <4>n, <4>3
    <3> QED
      BY <1>3, <1>6, <2>1, <2>2, <3>1
  <2> QED
    BY <1>1, <1>3, <2>1, <2>3 DEF FirstIssuer, LastIssuer, Last, Range, issuers
<1> QED
  BY <1>2, <1>7, <1>8

\* Three files are written, so what comes first of a suffix of three is all of them.
LEMMA FilesAreThree ==
  ASSUME NEW r, NEW s
  PROVE  /\ FilesOf(r) = <<[file |-> Operational, to |-> r.leaf],
                           [file |-> Issuer1, to |-> FirstIssuer(r)],
                           [file |-> Issuer2, to |-> LastIssuer(r)]>>
         /\ FilesOf(r) # <<>>
         /\ IsSuffix(FilesOf(s), FilesOf(r)) => FilesOf(s) = FilesOf(r)
<1>1. \A t : FilesOf(t) = <<[file |-> Operational, to |-> t.leaf],
                            [file |-> Issuer1, to |-> FirstIssuer(t)],
                            [file |-> Issuer2, to |-> LastIssuer(t)]>>
  BY DEF FilesOf, FirstIssuer, LastIssuer
<1>2. ASSUME NEW a1, NEW a2, NEW a3, NEW b1, NEW b2, NEW b3,
             IsSuffix(<<a1, a2, a3>>, <<b1, b2, b3>>)
      PROVE  <<a1, a2, a3>> = <<b1, b2, b3>>
  <2>1. \A c1, c2, c3 : Reverse(<<c1, c2, c3>>) = <<c3, c2, c1>>
    BY DEF Reverse
  <2>2. IsPrefix(<<a3, a2, a1>>, <<b3, b2, b1>>)
    BY <1>2, <2>1 DEF IsSuffix
  <2> DEFINE S == {a1, a2, a3, b1, b2, b3}
  <2>3. \A q \in Seq(S) : Len(q) = 3 => SubSeq(q, 1, 3) = q
    OBVIOUS
  <2>4. <<a3, a2, a1>> = <<b3, b2, b1>>
    BY <2>2, <2>3 DEF IsPrefix
  <2> QED
    BY <2>4
<1>3. \A a1, a2, a3, b1, b2, b3 :
        IsSuffix(<<a1, a2, a3>>, <<b1, b2, b3>>) => <<a1, a2, a3>> = <<b1, b2, b3>>
  BY <1>2
<1>4. ASSUME IsSuffix(FilesOf(s), FilesOf(r)) PROVE FilesOf(s) = FilesOf(r)
  <2>1. PICK a1, a2, a3 : FilesOf(s) = <<a1, a2, a3>>
    BY <1>1
  <2>2. PICK b1, b2, b3 : FilesOf(r) = <<b1, b2, b3>>
    BY <1>1
  <2> QED
    BY <1>3, <1>4, <2>1, <2>2
<1>5. FilesOf(r) # <<>>
  BY <1>1
<1> QED
  BY <1>1, <1>4, <1>5

-----------------------------------------------------------------------------
\* What the import has written so far, in the order of its three files.
WrittenSoFar ==
  \/ writing = FilesOf(response)
  \/ /\ writing = Tail(FilesOf(response))
     /\ disk[Operational] = response.leaf
  \/ /\ writing = Tail(Tail(FilesOf(response)))
     /\ disk[Operational] = response.leaf
     /\ disk[Issuer1] = FirstIssuer(response)

\* The response's files are in place, and a process that has started since uses them.
Imported ==
  /\ disk[Operational] = response.leaf
  /\ disk[Issuer1] = FirstIssuer(response)
  /\ disk[Issuer2] = LastIssuer(response)
  /\ pc # "down" => caPath = "bundle" /\ bundle = Range(response.issuers)
  /\ tls # Closed => tls.cert = response.leaf /\ tls.trust = Range(response.issuers)

\* A response that is being installed is for the hub that waits for it.
TakenInv ==
  /\ TypeInv
  /\ ProcessState
  /\ writing # <<>> => pc = "down" /\ response # NoResponse /\ ForThisHub(response) /\ WrittenSoFar
  /\ response # NoResponse => response \in Responses /\ IsFit(response)
  /\ ~turnedAway

ImportInv ==
  /\ TakenInv
  /\ refresh => staged = NothingStaged
  /\ response # NoResponse /\ writing = <<>> => Imported

\* With nothing staged and the response's files in place the trusted issuers are the
\* response's.
LEMMA ImportedIssuers ==
  ASSUME TypeOK, staged = NothingStaged, response \in Responses, IsFit(response),
         disk[Issuer1] = FirstIssuer(response), disk[Issuer2] = LastIssuer(response)
  PROVE  TrustedIssuers = Range(response.issuers) /\ Range(response.issuers) # {}
<1>1. /\ {FirstIssuer(response), LastIssuer(response)} = Range(response.issuers)
      /\ FirstIssuer(response) \in Certificate /\ LastIssuer(response) \in Certificate
  BY SlotsGetTheIssuers
<1>2. disk[Issuer1] # NoFile /\ disk[Issuer2] # NoFile
  BY <1>1, ConstantsAssumption
<1>3. EffectiveIssuersOnDisk = {disk[f] : f \in IssuerInstances} \cap Certificate
  BY <1>2 DEF EffectiveIssuersOnDisk, IssuerInstances
<1>4. {disk[f] : f \in IssuerInstances} = {disk[Issuer1], disk[Issuer2]}
  BY DEF IssuerInstances
<1>5. EffectiveIssuersOnDisk = Range(response.issuers)
  BY <1>1, <1>3, <1>4
<1> QED
  BY <1>1, <1>5, NothingStagedServesFiles

\* A start with the response in place finds its issuers and writes the bundle.
LEMMA StartUpUsesTheResponse ==
  ASSUME NoBundleFails, ImportInv, StartHub, response # NoResponse
  PROVE  Imported'
<1>1. /\ writing = <<>> /\ UNCHANGED <<disk, response, tls, staged>>
      /\ pc = "down" /\ tls = Closed /\ staged = NothingStaged
  BY DEF StartHub, StartUp, ReconcilePendingKey, importVars, ImportInv, TakenInv, ProcessState
<1>2. Imported /\ response \in Responses /\ IsFit(response) /\ TypeOK
  BY <1>1 DEF ImportInv, TakenInv, TypeInv
<1>3. TrustedIssuers = Range(response.issuers) /\ TrustedIssuers # {}
  BY <1>1, <1>2, ImportedIssuers DEF Imported
<1>4. caPath' = "bundle" /\ bundle' = Range(response.issuers)
  BY <1>3 DEF StartHub, StartUp, WriteTrustedIssuerBundle, NoBundleFails
<1> QED
  BY <1>1, <1>2, <1>4 DEF Imported, FirstIssuer, LastIssuer

\* The running hub keeps using them until an activation replaces a file.
LEMMA HubKeepsTheResponse ==
  ASSUME ImportInv, HubRuns, response' # NoResponse, writing = <<>>
  PROVE  Imported'
<1>1. /\ UNCHANGED <<disk, response>> /\ response # NoResponse
  BY DEF HubRuns
<1>2. Imported /\ response \in Responses /\ IsFit(response) /\ TypeOK
  BY <1>1 DEF ImportInv, TakenInv, TypeInv
<1>3. FirstIssuer(response)' = FirstIssuer(response) /\ LastIssuer(response)' = LastIssuer(response)
  BY <1>1 DEF FirstIssuer, LastIssuer
<1> SUFFICES /\ pc' # "down" => caPath' = "bundle" /\ bundle' = Range(response.issuers)
             /\ tls' # Closed => tls'.cert = response.leaf /\ tls'.trust = Range(response.issuers)
  BY <1>1, <1>2, <1>3 DEF Imported
<1>4. CASE StopProcess
  BY <1>4 DEF StopProcess, Crash
<1>5. CASE StoreRequest
  <2>1. pc # "down" /\ UNCHANGED hubVars
    BY <1>5 DEF StoreRequest, Write, Resize, RejectWrite, DiscardStaged, ActivateRefused,
       CommitStaged, ReplaceWithTemp, ReplaceFails, ReplaceCsr, GenerateKeyAndCsr
  <2> QED
    BY <1>2, <2>1 DEF Imported, hubVars
<1>6. CASE Committed
  BY <1>2, <1>6 DEF Committed, CommitFinished, Imported
<1>7. CASE RefreshTrust
  <2>1. refresh /\ staged = NothingStaged /\ pc # "down" /\ UNCHANGED <<vars, caPath, tls>>
    BY <1>7 DEF RefreshTrust, ImportInv, TakenInv, ProcessState
  <2>2. TrustedIssuers = Range(response.issuers)
    BY <1>2, <2>1, ImportedIssuers DEF Imported
  <2>3. bundle' \in {bundle, TrustedIssuers}
    BY <1>7 DEF RefreshTrust, WriteTrustedIssuerBundle
  <2> QED
    BY <1>2, <2>1, <2>2, <2>3 DEF Imported, vars
<1>8. CASE CrlChanged
  BY <1>2, <1>8 DEF CrlChanged, InMainLoop, Imported, vars
<1>9. CASE StartListening \/ ReloadCredentials
  <2>1. /\ pc = "idle" /\ UNCHANGED <<vars, bundle, caPath>>
        /\ tls' # Closed => tls' = LoadedCredentials
    BY <1>9 DEF StartListening, ReloadCredentials, InMainLoop
  <2>2. TrustFile = Range(response.issuers)
    BY <1>2, <2>1 DEF Imported, TrustFile
  <2> QED
    BY <1>2, <2>1, <2>2 DEF Imported, LoadedCredentials, vars
<1> QED
  BY <1>4, <1>5, <1>6, <1>7, <1>8, <1>9 DEF HubRuns


\* What the hub does is a step of the hub, so its types and its process state stay.
LEMMA HubStepsKeepTypes ==
  ASSUME TypeInv, ProcessState, StartHub \/ HubRuns
  PROVE  TypeInv' /\ ProcessState'
<1>1. [HubNext]_allVars
  BY DEF StartHub, HubRuns, HubNext
<1> QED
  BY <1>1, HubStepsAreStoreSteps, TypeInductive, ProcessStateInductive

\* An import in progress is of a hub that is down, which runs nothing.
LEMMA HubWaitsForTheImport ==
  ASSUME TakenInv, HubRuns
  PROVE  writing = <<>> /\ pc # "down"
<1>1. pc # "down"
  BY DEF TakenInv, ProcessState, HubRuns, StopProcess, Crash, StoreRequest, Write, Resize,
     RejectWrite, DiscardStaged, ActivateRefused, CommitStaged, ReplaceWithTemp, ReplaceFails,
     ReplaceCsr, GenerateKeyAndCsr, Committed, CommitFinished, RefreshTrust, StartListening,
     CrlChanged, ReloadCredentials, InMainLoop
<1> QED
  BY <1>1 DEF TakenInv

\* The types and the process state need only the hub's own variables.
LEMMA SameHubSameTypes ==
  ASSUME TypeInv, ProcessState, UNCHANGED allVars
  PROVE  TypeInv' /\ ProcessState'
BY DEF allVars, vars, hubVars, TypeInv, TypeOK, Bookkeeping, ProcessState, StagedSlots

\* The import takes what was sent for this hub, and nothing else is turned away.
LEMMA ImportBegins ==
  ASSUME TakenInv, NEW d \in Deliveries, ImportCariResponse(d)
  PROVE  TakenInv'
<1>1. /\ pc = "down" /\ writing = <<>> /\ UNCHANGED allVars /\ ~turnedAway
      /\ UNCHANGED <<csr, pc>> /\ csr \in Keys
  BY DEF ImportCariResponse, TakenInv, TypeInv, TypeOK, allVars, vars
<1>2. TypeInv' /\ ProcessState'
  BY <1>1, SameHubSameTypes DEF TakenInv
<1>3. /\ d.sent \in Responses
      /\ d.whole => d.tree # Refused
      /\ d.tree # Refused => \E place \in Places : AreOfAnswer(d.tree.files, d.sent, place)
  BY DeliveriesAreAnswers
<1>4. d.tree # Refused => /\ IsTaken(d.tree) <=> ForThisHub(d.sent)
                          /\ IsTaken(d.tree) => ResponseIn(d.tree) = Signed(d.sent)
  <2> SUFFICES ASSUME d.tree # Refused
               PROVE  /\ IsTaken(d.tree) <=> ForThisHub(d.sent)
                      /\ IsTaken(d.tree) => ResponseIn(d.tree) = Signed(d.sent)
    OBVIOUS
  <2>1. PICK place \in Places : AreOfAnswer(d.tree.files, d.sent, place)
    BY <1>3
  <2> DEFINE tree == d.tree
             r == d.sent
  <2>2. r \in Responses /\ tree # Refused /\ AreOfAnswer(tree.files, r, place)
    BY <1>3, <2>1
  <2> HIDE DEF tree, r
  <2>3. /\ IsTaken(tree) <=> ForThisHub(r)
        /\ IsTaken(tree) => ResponseIn(tree) = Signed(r)
    BY <1>1, <2>2, AnswersAreTakenAsSent
  <2> QED
    BY <2>3 DEF tree, r
<1>5. CASE IsTaken(d.tree)
  <2>1. d.tree # Refused
    BY <1>5 DEF IsTaken
  <2>2. ForThisHub(d.sent) /\ ResponseIn(d.tree) = Signed(d.sent)
    BY <1>4, <1>5, <2>1
  <2>3. /\ writing' = FilesOf(d.sent) /\ response' = d.sent /\ turnedAway' = turnedAway
        /\ response' # NoResponse
    BY <1>3, <1>5, <2>2, SignedIsEnough, ResponsesAssumption DEF ImportCariResponse
  <2>4. ForThisHub(response)' /\ IsFit(response)'
    BY <1>1, <2>2, <2>3 DEF ForThisHub, IsFit, Signs
  <2>5. WrittenSoFar'
    BY <2>3 DEF WrittenSoFar, FilesOf, SignerFirst, Signs
  <2> QED
    BY <1>1, <1>2, <1>3, <2>3, <2>4, <2>5 DEF TakenInv
<1>6. CASE ~IsTaken(d.tree)
  <2>1. turnedAway' = (turnedAway \/ (d.whole /\ ForThisHub(d.sent))) /\ UNCHANGED <<writing, response>>
    BY <1>6 DEF ImportCariResponse
  <2>2. ~(d.whole /\ ForThisHub(d.sent))
    BY <1>3, <1>4, <1>6
  <2>3. ~turnedAway'
    BY <1>1, <2>1, <2>2
  <2> QED
    BY <1>1, <1>2, <2>1, <2>3 DEF TakenInv, IsFit, Signs
<1> QED
  BY <1>5, <1>6

\* A file is opened or written: those that came before it stay, and the last one
\* leaves all three in place.
LEMMA ImportGoesOn ==
  ASSUME TakenInv, OpenFile \/ WriteFile
  PROVE  TakenInv' /\ (response' # NoResponse /\ writing' = <<>> => Imported')
<1>1. /\ pc = "down" /\ tls = Closed /\ response # NoResponse /\ WrittenSoFar
      /\ response \in Responses /\ IsFit(response) /\ writing # <<>>
  BY DEF OpenFile, WriteFile, TakenInv, ProcessState
<1>2. /\ UNCHANGED <<key, pendingKey, csr, made, staged, promotes, pc, todo, hubVars, response>>
      /\ intact' \in BOOLEAN
  BY DEF OpenFile, WriteFile
<1>3. UNCHANGED <<tls, refresh, reload, caPath, bundle>>
  BY <1>2 DEF hubVars
<1> DEFINE leaf == response.leaf
           first == FirstIssuer(response)
           last == LastIssuer(response)
           f1 == [file |-> Operational, to |-> leaf]
           f2 == [file |-> Issuer1, to |-> first]
           f3 == [file |-> Issuer2, to |-> last]
<1>4. /\ FilesOf(response) = <<f1, f2, f3>>
      /\ leaf \in Certificate /\ first \in Certificate /\ last \in Certificate
  BY <1>1, FilesAreThree, SlotsGetTheIssuers
<1>5. disk \in [Slots -> Contents \cup {NoFile}] /\ {Operational, Issuer1, Issuer2} = Slots
  BY DEF TakenInv, TypeInv, TypeOK, Slots
<1>6. /\ FilesOf(response)' = FilesOf(response) /\ leaf' = leaf /\ first' = first /\ last' = last
      /\ IsFit(response)'
  BY <1>1, <1>2 DEF FilesOf, SignerFirst, Signs, FirstIssuer, LastIssuer, IsFit
<1> HIDE DEF leaf, first, last
<1>7. \/ writing = <<f1, f2, f3>>
      \/ writing = <<f2, f3>> /\ disk[Operational] = leaf
      \/ writing = <<f3>> /\ disk[Operational] = leaf /\ disk[Issuer1] = first
  BY <1>1, <1>4 DEF WrittenSoFar, leaf, first
<1>8. Operational # Issuer1 /\ Operational # Issuer2 /\ Issuer1 # Issuer2
  BY DEF Operational, Issuer1, Issuer2
<1>9. disk' \in [Slots -> Contents \cup {NoFile}]
  <2>1. Head(writing).to \in Certificate
    BY <1>4, <1>7
  <2> QED
    BY <1>5, <2>1 DEF OpenFile, WriteFile, Contents
<1>10. ForThisHub(response) /\ ForThisHub(response)' /\ turnedAway' = turnedAway
  <2>1. ForThisHub(response) /\ turnedAway' = turnedAway
    BY <1>1 DEF TakenInv, OpenFile, WriteFile
  <2> QED
    BY <1>2, <2>1 DEF ForThisHub, Signs
<1>11. TypeInv' /\ ProcessState'
  BY <1>2, <1>3, <1>9 DEF TakenInv, TypeInv, TypeOK, Bookkeeping, ProcessState, StagedSlots
<1>12. CASE OpenFile
  <2>1. \/ writing' = <<f1, f2, f3>>
        \/ writing' = <<f2, f3>> /\ disk'[Operational] = leaf
        \/ writing' = <<f3>> /\ disk'[Operational] = leaf /\ disk'[Issuer1] = first
    BY <1>5, <1>7, <1>8, <1>12 DEF OpenFile
  <2>2. WrittenSoFar' /\ writing' # <<>>
    BY <1>4, <1>6, <2>1 DEF WrittenSoFar, leaf, first
  <2> QED
    BY <1>1, <1>2, <1>6, <1>11, <1>10, <2>2 DEF TakenInv
<1>13. CASE WriteFile
  <2>1. \/ writing' = <<f2, f3>> /\ disk'[Operational] = leaf
        \/ writing' = <<f3>> /\ disk'[Operational] = leaf /\ disk'[Issuer1] = first
        \/ /\ writing' = <<>> /\ disk'[Operational] = leaf /\ disk'[Issuer1] = first
           /\ disk'[Issuer2] = last
    <3>1. /\ writing' = Tail(writing)
          /\ disk' = [disk EXCEPT ![Head(writing).file] = Head(writing).to]
      BY <1>13 DEF WriteFile
    <3>2. CASE writing = <<f1, f2, f3>>
      <4>1. writing' = <<f2, f3>> /\ Head(writing) = f1
        BY <3>1, <3>2
      <4>f. Head(writing).file = Operational /\ Head(writing).to = leaf
        BY <4>1
      <4>2. disk' = [disk EXCEPT ![Operational] = leaf]
        BY <3>1, <4>f
      <4> QED
        BY <1>5, <4>1, <4>2
    <3>3. CASE writing = <<f2, f3>> /\ disk[Operational] = leaf
      <4>1. writing' = <<f3>> /\ Head(writing) = f2
        BY <3>1, <3>3
      <4> QED
        BY <1>5, <1>8, <3>1, <3>3, <4>1
    <3>4. CASE writing = <<f3>> /\ disk[Operational] = leaf /\ disk[Issuer1] = first
      <4>1. writing' = <<>> /\ Head(writing) = f3
        BY <3>1, <3>4
      <4> QED
        BY <1>5, <1>8, <3>1, <3>4, <4>1
    <3> QED
      BY <1>7, <3>2, <3>3, <3>4
  <2>2. CASE writing' # <<>>
    <3>1. WrittenSoFar'
      BY <1>4, <1>6, <2>1, <2>2 DEF WrittenSoFar, leaf, first
    <3> QED
      BY <1>1, <1>2, <1>6, <1>11, <1>10, <2>2, <3>1 DEF TakenInv
  <2>3. CASE writing' = <<>>
    <3>1. Imported'
      BY <1>1, <1>2, <1>3, <1>6, <2>1, <2>3 DEF Imported, leaf, first, last
    <3> QED
      BY <1>1, <1>2, <1>6, <1>11, <1>10, <2>3, <3>1 DEF TakenInv
  <2> QED
    BY <2>2, <2>3
<1> QED
  BY <1>12, <1>13

\* Every step keeps the invariant, whichever file operations fail.
LEMMA TakenInductive ==
  /\ CommissionInit => TakenInv
  /\ TakenInv /\ [CommissionNext]_commissionVars => TakenInv'
<1>1. CommissionInit => TakenInv
  BY TypeInductive, ProcessStateInductive DEF CommissionInit, HubInit, TakenInv
<1>2. ASSUME TakenInv, [CommissionNext]_commissionVars PROVE TakenInv'
  <2>1. CASE StartHub
    <3>1. UNCHANGED <<writing, response, turnedAway>> /\ writing = <<>>
      BY <2>1 DEF StartHub, importVars
    <3> QED
      BY <1>2, <2>1, <3>1, HubStepsKeepTypes DEF TakenInv, IsFit, Signs
  <2>2. CASE HubRuns
    <3>1. /\ writing' = <<>> /\ response' \in {response, NoResponse} /\ turnedAway' = turnedAway
      BY <1>2, <2>2, HubWaitsForTheImport DEF HubRuns
    <3>2. response' # NoResponse => response' \in Responses /\ IsFit(response)'
      BY <1>2, <3>1 DEF TakenInv, IsFit, Signs
    <3> QED
      BY <1>2, <2>2, <3>1, <3>2, HubStepsKeepTypes DEF TakenInv
  <2>3. CASE \E d \in Deliveries : ImportCariResponse(d)
    BY <1>2, <2>3, ImportBegins
  <2>4. CASE OpenFile \/ WriteFile
    BY <1>2, <2>4, ImportGoesOn
  <2>5. CASE ImportStops
    BY <1>2, <2>5, SameHubSameTypes DEF ImportStops, TakenInv
  <2>6. CASE UNCHANGED commissionVars
    <3>1. UNCHANGED allVars /\ UNCHANGED <<writing, response, turnedAway, disk, pc, csr>>
      BY <2>6 DEF commissionVars, importVars, allVars, vars
    <3> QED
      BY <1>2, <3>1, SameHubSameTypes DEF TakenInv, WrittenSoFar, IsFit, Signs, FilesOf, FirstIssuer,
         LastIssuer, SignerFirst, ForThisHub
  <2> QED
    BY <1>2, <2>1, <2>2, <2>3, <2>4, <2>5, <2>6 DEF CommissionNext
<1> QED
  BY <1>1, <1>2

\* What is left to write is a last part of the three files.
LEMMA LastParts ==
  ASSUME NEW a, NEW b, NEW c
  PROVE  /\ IsSuffix(<<a, b, c>>, <<a, b, c>>)
         /\ IsSuffix(<<b, c>>, <<a, b, c>>)
         /\ IsSuffix(<<c>>, <<a, b, c>>)
<1>1. /\ Reverse(<<a, b, c>>) = <<c, b, a>> /\ Reverse(<<b, c>>) = <<c, b>> /\ Reverse(<<c>>) = <<c>>
  BY DEF Reverse
<1>2. ASSUME NEW S, NEW q \in Seq(S)
      PROVE  /\ Len(q) = 1 => SubSeq(q, 1, 1) = q
             /\ Len(q) = 2 => SubSeq(q, 1, 2) = q
             /\ Len(q) = 3 => SubSeq(q, 1, 3) = q
  OBVIOUS
<1> DEFINE S == {a, b, c}
           q3 == <<c, b, a>>
           q2 == <<c, b>>
           q1 == <<c>>
<1>3. /\ q3 \in Seq(S) /\ Len(q3) = 3 /\ q3[1] = c /\ q3[2] = b
      /\ q2 \in Seq(S) /\ Len(q2) = 2 /\ q1 \in Seq(S) /\ Len(q1) = 1
  OBVIOUS
<1>4. q2 = <<c, b>> /\ q1 = <<c>>
  OBVIOUS
<1> HIDE DEF S, q1, q2, q3
<1>5. /\ SubSeq(q3, 1, 3) = q3 /\ SubSeq(q2, 1, 2) = q2 /\ SubSeq(q1, 1, 1) = q1
  BY <1>2, <1>3
<1>6. SubSeq(q3, 1, 2) = q2 /\ SubSeq(q3, 1, 1) = q1
  BY <1>3, <1>4, FirstNames
<1>7. IsPrefix(q3, q3) /\ IsPrefix(q2, q3) /\ IsPrefix(q1, q3)
  BY <1>3, <1>5, <1>6 DEF IsPrefix
<1> QED
  BY <1>1, <1>7 DEF IsSuffix, q1, q2, q3

\* Whatever tool packed a response, wherever in the zip the certificate is and whatever
\* other files stand with the issuers, a response whose issuers named iss-* are for this
\* hub is taken when it arrives whole; and however a zip was damaged on its way, what is
\* being installed is the response that was sent, with every issuer named iss-*.
THEOREM ResponsesAreTakenAsSent == CommissionSpec => []ResponseIsTakenAsSent
<1>1. ASSUME TakenInv PROVE ResponseIsTakenAsSent
  <2>1. ASSUME writing # <<>> PROVE ForThisHub(response) /\ IsSuffix(writing, FilesOf(response))
    <3>1. ForThisHub(response) /\ WrittenSoFar
      BY <1>1, <2>1 DEF TakenInv
    <3>2. PICK a, b, c : FilesOf(response) = <<a, b, c>>
      BY FilesAreThree
    <3>3. Tail(<<a, b, c>>) = <<b, c>> /\ Tail(<<b, c>>) = <<c>>
      OBVIOUS
    <3>4. writing = <<a, b, c>> \/ writing = <<b, c>> \/ writing = <<c>>
      BY <3>1, <3>2, <3>3 DEF WrittenSoFar
    <3>5. IsSuffix(writing, <<a, b, c>>)
      BY <3>4, LastParts
    <3> QED
      BY <3>1, <3>2, <3>5
  <2> QED
    BY <1>1, <2>1 DEF ResponseIsTakenAsSent, TakenInv
<1> QED
  BY <1>1, TakenInductive, PTL DEF CommissionSpec

\* Between a commit and its bundle nothing is staged.
LEMMA RefreshIsLast ==
  ASSUME ImportInv, HubRuns
  PROVE  (refresh => staged = NothingStaged)'
<1>1. CASE StopProcess
  BY <1>1 DEF StopProcess
<1>2. CASE StoreRequest
  BY <1>2 DEF StoreRequest, hubVars
<1>3. CASE Committed
  BY <1>3 DEF Committed, CommitFinished
<1>4. CASE RefreshTrust
  BY <1>4 DEF RefreshTrust
<1>5. CASE StartListening \/ CrlChanged \/ ReloadCredentials
  BY <1>5 DEF StartListening, CrlChanged, ReloadCredentials, ImportInv, vars
<1> QED
  BY <1>1, <1>2, <1>3, <1>4, <1>5 DEF HubRuns

\* The response is in force or not for what the hub has and is.
LEMMA SameHubSameImport ==
  ASSUME Imported, UNCHANGED <<response, disk, pc, caPath, bundle, tls>>
  PROVE  Imported'
BY DEF Imported, FirstIssuer, LastIssuer, SignerFirst, Signs

\* The import has its files to write now, or nothing has changed.
LEMMA ImportBeginsOrLeaves ==
  ASSUME ImportInv, TakenInv', NEW d \in Deliveries, ImportCariResponse(d)
  PROVE  ImportInv'
<1>1. UNCHANGED <<disk, pc, staged, refresh, caPath, bundle, tls>> /\ writing = <<>>
  BY DEF ImportCariResponse, allVars, vars, hubVars
<1>2. CASE IsTaken(d.tree)
  <2>1. writing' # <<>>
    BY <1>2, FilesAreThree DEF ImportCariResponse
  <2> QED
    BY <1>1, <2>1 DEF ImportInv
<1>3. CASE ~IsTaken(d.tree)
  <2>1. UNCHANGED <<writing, response>>
    BY <1>3 DEF ImportCariResponse
  <2> QED
    BY <1>1, <2>1, SameHubSameImport DEF ImportInv
<1> QED
  BY <1>2, <1>3

\* Every step keeps the response in force, if the bundle of its issuers can be written.
LEMMA ImportInductive ==
  ASSUME NoBundleFails
  PROVE  /\ CommissionInit => ImportInv
         /\ ImportInv /\ [CommissionNext]_commissionVars => ImportInv'
<1>1. CommissionInit => ImportInv
  BY TakenInductive DEF CommissionInit, HubInit, ImportInv
<1>2. ASSUME ImportInv, [CommissionNext]_commissionVars PROVE ImportInv'
  <2>a. TakenInv /\ TakenInv'
    BY <1>2, TakenInductive DEF ImportInv
  <2>1. CASE StartHub
    <3>1. UNCHANGED <<response, refresh>>
      BY <2>1 DEF StartHub, importVars, StartUp
    <3>2. (refresh => staged = NothingStaged)'
      BY <1>2, <2>1 DEF StartHub, StartUp, ReconcilePendingKey, ImportInv
    <3> QED
      BY <1>2, <2>a, <2>1, <3>1, <3>2, StartUpUsesTheResponse DEF ImportInv
  <2>2. CASE HubRuns
    <3>1. writing = <<>> /\ writing' = <<>>
      BY <2>a, <2>2, HubWaitsForTheImport DEF HubRuns
    <3>2. (refresh => staged = NothingStaged)'
      BY <1>2, <2>2, RefreshIsLast
    <3> QED
      BY <1>2, <2>a, <2>2, <3>1, <3>2, HubKeepsTheResponse DEF ImportInv
  <2>3. CASE \E d \in Deliveries : ImportCariResponse(d)
    BY <1>2, <2>a, <2>3, ImportBeginsOrLeaves
  <2>4. CASE OpenFile \/ WriteFile
    <3>1. UNCHANGED <<refresh, staged>>
      BY <2>4 DEF OpenFile, WriteFile, hubVars
    <3>2. response' # NoResponse /\ writing' = <<>> => Imported'
      BY <2>a, <2>4, ImportGoesOn
    <3> QED
      BY <1>2, <2>a, <3>1, <3>2 DEF ImportInv
  <2>5. CASE ImportStops
    BY <1>2, <2>a, <2>5 DEF ImportStops, ImportInv, allVars, vars, hubVars
  <2>6. CASE UNCHANGED commissionVars
    <3>1. UNCHANGED <<writing, response, disk, pc, staged, refresh, caPath, bundle, tls>>
      BY <2>6 DEF commissionVars, importVars, allVars, vars, hubVars
    <3> QED
      BY <1>2, <2>a, <3>1, SameHubSameImport DEF ImportInv
  <2> QED
    BY <1>2, <2>1, <2>2, <2>3, <2>4, <2>5, <2>6 DEF CommissionNext
<1> QED
  BY <1>1, <1>2

\* A hub that serves what an import installed presents the response's certificate and
\* trusts its issuers named iss-* and nobody else: a cut-off import, a renewal over BACnet or a start
\* in between changes nothing about that.
THEOREM ImportIsInForce ==
  ASSUME NoBundleFails
  PROVE  CommissionSpec => []ImportReplacesTrust
<1>1. ImportInv => ImportReplacesTrust
  BY DEF ImportInv, TakenInv, ImportReplacesTrust, Imported, Settled, InMainLoop
<1> QED
  BY <1>1, ImportInductive, PTL DEF CommissionSpec

=============================================================================
