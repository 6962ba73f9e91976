---------------------------- MODULE CariZipProofs ----------------------------
(***************************************************************************)
(* Proofs about the zips of CariZip: what a tool packed is read back, and  *)
(* a zip that was damaged on its way is refused or read as if it were not. *)
(***************************************************************************)
EXTENDS CariZip, SequenceTheorems, FiniteSetTheorems, WellFoundedInduction, TLAPS

-----------------------------------------------------------------------------
(***************************************************************************)
(* Naturals and recursion                                                  *)
(***************************************************************************)

\* A set of naturals with an element has a least one.
LEMMA LeastNatural ==
  ASSUME NEW T, T \subseteq Nat, T # {}
  PROVE  \E x \in T : \A y \in T : x <= y
<1> DEFINE R == {ss \in Nat \X Nat : ss[1] < ss[2]}
<1>1. IsWellFoundedOn(R, Nat)
  BY NatLessThanWellFounded DEF OpToRel
<1>2. \A x, y \in Nat : x < y => <<x, y>> \in R
  OBVIOUS
<1> HIDE DEF R
<1>3. PICK x \in T : \A y \in T : ~(<<y, x>> \in R)
  BY <1>1, WFMin
<1>4. ASSUME NEW y \in T PROVE x <= y
  <2>1. x \in Nat /\ y \in Nat /\ ~(y < x)
    BY <1>2, <1>3
  <2> QED
    BY <2>1
<1> QED
  BY <1>4

\* Induction on the naturals, for a set of them.
LEMMA AllNaturals ==
  ASSUME NEW T, T \subseteq Nat, 0 \in T, \A n \in T : n + 1 \in T
  PROVE  T = Nat
<1> SUFFICES ASSUME Nat \ T # {} PROVE FALSE
  OBVIOUS
<1>1. PICK x \in Nat \ T : \A y \in Nat \ T : x <= y
  <2> DEFINE U == Nat \ T
  <2>1. U \subseteq Nat /\ U # {}
    OBVIOUS
  <2> HIDE DEF U
  <2>2. \E x \in U : \A y \in U : x <= y
    BY <2>1, LeastNatural
  <2> QED
    BY <2>2 DEF U
<1>2. x - 1 \in Nat /\ x - 1 < x
  OBVIOUS
<1> QED
  BY <1>1, <1>2

\* Up to a bound.
LEMMA AllUpTo ==
  ASSUME NEW n \in Nat, NEW T, 0 \in T, \A k \in 0 .. n - 1 : k \in T => k + 1 \in T
  PROVE  \A k \in 0 .. n : k \in T
<1> DEFINE U == {k \in Nat : k <= n => k \in T}
<1>1. U \subseteq Nat /\ 0 \in U
  OBVIOUS
<1>2. \A k \in U : k + 1 \in U
  OBVIOUS
<1> HIDE DEF U
<1>3. U = Nat
  BY <1>1, <1>2, AllNaturals
<1> QED
  BY <1>3 DEF U

\* A function whose values each follow from the one before.
IsRun(f, n, D, first, step) ==
  f \in [0 .. n -> D] /\ f[0] = first /\ \A k \in 1 .. n : f[k] = step[<<f[k - 1], k>>]

\* There is one.
LEMMA Recursion ==
  ASSUME NEW n \in Nat, NEW D, NEW first \in D, NEW step \in [D \X (1 .. n) -> D]
  PROVE  \E f : IsRun(f, n, D, first, step)
<1> DEFINE T == {m \in Nat : \E f : IsRun(f, m, D, first, step)}
<1>1. 0 \in T
  <2>1. IsRun([k \in 0 .. 0 |-> first], 0, D, first, step)
    BY DEF IsRun
  <2> QED
    BY <2>1
<1>2. ASSUME NEW m \in 0 .. n - 1, m \in T PROVE m + 1 \in T
  <2>1. PICK f : IsRun(f, m, D, first, step)
    BY <1>2
  <2>2. step[<<f[m], m + 1>>] \in D
    BY <2>1 DEF IsRun
  <2> DEFINE g == [k \in 0 .. m + 1 |-> IF k = m + 1 THEN step[<<f[m], m + 1>>] ELSE f[k]]
  <2>3. g \in [0 .. m + 1 -> D] /\ g[0] = first
    BY <2>1, <2>2 DEF IsRun
  <2>4. ASSUME NEW k \in 1 .. m + 1 PROVE g[k] = step[<<g[k - 1], k>>]
    <3>1. CASE k = m + 1
      <4>1. g[k - 1] = f[m] /\ g[k] = step[<<f[m], m + 1>>]
        BY <3>1
      <4> HIDE DEF g
      <4> QED
        BY <3>1, <4>1
    <3>2. CASE k # m + 1
      <4>1. k \in 1 .. m /\ g[k - 1] = f[k - 1] /\ g[k] = f[k]
        BY <3>2
      <4> HIDE DEF g
      <4> QED
        BY <2>1, <4>1 DEF IsRun
    <3> QED
      BY <3>1, <3>2
  <2> HIDE DEF g
  <2>5. IsRun(g, m + 1, D, first, step)
    BY <2>3, <2>4 DEF IsRun
  <2> QED
    BY <2>5
<1>3. n \in T
  <2> HIDE DEF T
  <2> QED
    BY <1>1, <1>2, AllUpTo
<1> QED
  BY <1>3

-----------------------------------------------------------------------------
(***************************************************************************)
(* The order of paths                                                      *)
(***************************************************************************)

Path == Seq(DOMAIN Rank)

\* Two paths differ at a first place, and the order is decided there.
LEMMA PathsAreOrdered ==
  ASSUME NEW p \in Path, NEW q \in Path, p # q
  PROVE  Precedes(p, q) \/ Precedes(q, p)
<1> DEFINE Differ(i) == i > Len(p) \/ i > Len(q) \/ p[i] # q[i]
           T == {i \in Nat \ {0} : Differ(i)}
<1>1. Len(p) \in Nat /\ Len(q) \in Nat
  BY DEF Path
<1>2. Len(p) + 1 \in T /\ T \subseteq Nat
  BY <1>1
<1>3. PICK i \in T : \A j \in T : i <= j
  <2> HIDE DEF T
  <2> QED
    BY <1>2, LeastNatural
<1>4. \A j \in 1 .. i - 1 : ~Differ(j)
  BY <1>3
<1>5. Len(p) >= i - 1 /\ Len(q) >= i - 1
  BY <1>1, <1>3, <1>4
<1>6. CASE i > Len(p) /\ i > Len(q)
  <2>1. Len(p) = i - 1 /\ Len(q) = i - 1
    BY <1>1, <1>3, <1>5, <1>6
  <2>2. \A j \in 1 .. Len(p) : p[j] = q[j]
    BY <1>4, <2>1
  <2>3. p = q
    BY <2>1, <2>2, SeqEqual DEF Path
  <2> QED
    BY <2>3
<1>7. CASE i > Len(p) /\ i <= Len(q)
  BY <1>1, <1>3, <1>4, <1>5, <1>7 DEF Precedes
<1>8. CASE i <= Len(p) /\ i > Len(q)
  BY <1>1, <1>3, <1>4, <1>5, <1>8 DEF Precedes
<1>9. CASE i <= Len(p) /\ i <= Len(q)
  <2>1. p[i] # q[i] /\ p[i] \in DOMAIN Rank /\ q[i] \in DOMAIN Rank
    BY <1>1, <1>3, <1>9 DEF Path
  <2>2. Rank[p[i]] < Rank[q[i]] \/ Rank[q[i]] < Rank[p[i]]
    BY <2>1, RankAssumption
  <2> QED
    BY <1>1, <1>3, <1>4, <1>5, <1>9, <2>2 DEF Precedes
<1> QED
  BY <1>1, <1>3, <1>6, <1>7, <1>8, <1>9

\* No path precedes itself, and the order is transitive.
LEMMA OrderIsStrict ==
  ASSUME NEW p \in Path, NEW q \in Path, NEW r \in Path
  PROVE  /\ ~Precedes(p, p)
         /\ Precedes(p, q) /\ Precedes(q, r) => Precedes(p, r)
<1>1. Len(p) \in Nat /\ Len(q) \in Nat /\ Len(r) \in Nat
  BY DEF Path
<1>2. /\ \A i \in 1 .. Len(p) : p[i] \in DOMAIN Rank /\ Rank[p[i]] \in Nat
      /\ \A i \in 1 .. Len(q) : q[i] \in DOMAIN Rank /\ Rank[q[i]] \in Nat
      /\ \A i \in 1 .. Len(r) : r[i] \in DOMAIN Rank /\ Rank[r[i]] \in Nat
  BY <1>1, RankAssumption DEF Path
<1>3. ~Precedes(p, p)
  BY <1>1, <1>2 DEF Precedes
<1>4. ASSUME Precedes(p, q), Precedes(q, r) PROVE Precedes(p, r)
  <2>1. PICK i \in 1 .. Len(q) : /\ Len(p) >= i - 1 /\ \A k \in 1 .. i - 1 : p[k] = q[k]
                                 /\ Len(p) = i - 1 \/ Rank[p[i]] < Rank[q[i]]
    BY <1>4 DEF Precedes
  <2>2. PICK j \in 1 .. Len(r) : /\ Len(q) >= j - 1 /\ \A k \in 1 .. j - 1 : q[k] = r[k]
                                 /\ Len(q) = j - 1 \/ Rank[q[j]] < Rank[r[j]]
    BY <1>4 DEF Precedes
  <2>3. CASE i < j
    <3>1. i \in 1 .. Len(r) /\ q[i] = r[i] /\ \A k \in 1 .. i - 1 : p[k] = r[k]
      BY <1>1, <2>1, <2>2, <2>3
    <3> QED
      BY <2>1, <3>1 DEF Precedes
  <2>4. CASE i = j
    <3>1. Rank[q[i]] < Rank[r[i]] /\ \A k \in 1 .. i - 1 : p[k] = r[k]
      BY <1>1, <2>1, <2>2, <2>4
    <3>2. Len(p) = i - 1 \/ Rank[p[i]] < Rank[r[i]]
      <4>1. CASE Len(p) # i - 1
        <5>1. i \in 1 .. Len(p) /\ i \in 1 .. Len(q) /\ i \in 1 .. Len(r)
          BY <1>1, <2>1, <2>2, <2>4, <4>1
        <5> QED
          BY <1>2, <2>1, <3>1, <4>1, <5>1
      <4> QED
        BY <4>1
    <3> QED
      BY <2>1, <2>2, <2>4, <3>1, <3>2 DEF Precedes
  <2>5. CASE i > j
    <3>1. /\ Rank[q[j]] < Rank[r[j]] /\ p[j] = q[j] /\ Len(p) >= j - 1
          /\ \A k \in 1 .. j - 1 : p[k] = r[k]
      BY <1>1, <2>1, <2>2, <2>5
    <3> QED
      BY <2>2, <3>1 DEF Precedes
  <2> QED
    BY <1>1, <2>1, <2>2, <2>3, <2>4, <2>5
<1> QED
  BY <1>3, <1>4

\* Every path of a finite set has a place of its own, and every place a path.
LEMMA InOrderEnumerates ==
  ASSUME NEW S \in SUBSET Path, IsFiniteSet(S)
  PROVE  /\ Cardinality(S) \in Nat
         /\ InOrder(S) \in [1 .. Cardinality(S) -> S]
         /\ \A p \in S : \E i \in 1 .. Cardinality(S) : InOrder(S)[i] = p
         /\ \A i, j \in 1 .. Cardinality(S) : InOrder(S)[i] = InOrder(S)[j] => i = j
         /\ \A i \in 1 .. Cardinality(S) : \A p \in S :
              Cardinality({q \in S : Precedes(q, p)}) = i - 1 => InOrder(S)[i] = p
<1> DEFINE Before(p) == {q \in S : Precedes(q, p)}
           f == [p \in S |-> Cardinality(Before(p))]
           n == Cardinality(S)
<1>1. n \in Nat
  BY FS_CardinalityType
<1>2. ASSUME NEW p \in S PROVE Before(p) \in SUBSET S /\ IsFiniteSet(Before(p)) /\ p \notin Before(p)
  <2>1. Before(p) \in SUBSET S
    OBVIOUS
  <2> QED
    BY <2>1, FS_Subset, OrderIsStrict
<1>3. ASSUME NEW p \in S PROVE f[p] \in 0 .. n - 1
  <2>1. Cardinality(Before(p)) \in Nat /\ Cardinality(Before(p)) <= n /\ Before(p) # S
    <3> HIDE DEF Before
    <3> QED
      BY <1>2, FS_Subset, FS_CardinalityType
  <2>2. Cardinality(Before(p)) # n
    <3> HIDE DEF Before
    <3> QED
      BY <1>2, <2>1, FS_Subset
  <2> QED
    BY <1>1, <2>1, <2>2
<1>4. ASSUME NEW p \in S, NEW q \in S, Precedes(p, q) PROVE f[p] # f[q]
  <2>1. Before(p) \in SUBSET Before(q)
    BY <1>4, OrderIsStrict
  <2>2. Before(p) # Before(q)
    BY <1>2, <1>4
  <2>3. Cardinality(Before(p)) # Cardinality(Before(q))
    <3> HIDE DEF Before
    <3> QED
      BY <1>2, <2>1, <2>2, FS_Subset
  <2> QED
    BY <2>3
<1>5. f \in Injection(S, 0 .. n - 1)
  <2>1. \A p, q \in S : f[p] = f[q] => p = q
    BY <1>4, PathsAreOrdered
  <2>2. f \in [S -> 0 .. n - 1]
    BY <1>3
  <2> HIDE DEF f
  <2> QED
    BY <2>1, <2>2 DEF Injection, IsInjective
<1>6. f \in Surjection(S, 0 .. n - 1)
  <2>1. IsFiniteSet(0 .. n - 1) /\ Cardinality(0 .. n - 1) = n
    BY <1>1, FS_Interval
  <2> HIDE DEF f
  <2> QED
    BY <1>5, <2>1, FS_Injection
<1>7. \A i \in 1 .. n : \E p \in S : Cardinality(Before(p)) = i - 1
  <2>1. \A k \in 0 .. n - 1 : \E p \in S : f[p] = k
    <3> HIDE DEF f
    <3> QED
      BY <1>6 DEF Surjection
  <2>2. \A i \in 1 .. n : i - 1 \in 0 .. n - 1
    BY <1>1
  <2> QED
    BY <2>1, <2>2
<1>8. \A i \in 1 .. n : InOrder(S)[i] \in S /\ Cardinality(Before(InOrder(S)[i])) = i - 1
  <2>1. \A i \in 1 .. n : InOrder(S)[i] = CHOOSE p \in S : Cardinality(Before(p)) = i - 1
    BY DEF InOrder
  <2> HIDE DEF Before
  <2> QED
    BY <1>7, <2>1
<1>9. \A p, q \in S : Cardinality(Before(p)) = Cardinality(Before(q)) => p = q
  <2>1. \A p, q \in S : f[p] = f[q] => p = q
    BY <1>5 DEF Injection, IsInjective
  <2> QED
    BY <2>1
<1>10. \A p \in S : Cardinality(Before(p)) \in 0 .. n - 1
  BY <1>3
<1>11. InOrder(S) \in [1 .. n -> S]
  <2> DEFINE place(i) == CHOOSE p \in S : Cardinality(Before(p)) = i - 1
  <2>1. InOrder(S) = [i \in 1 .. n |-> InOrder(S)[i]]
    <3>1. InOrder(S) = [i \in 1 .. n |-> place(i)]
      BY DEF InOrder
    <3> HIDE DEF place, n
    <3> QED
      BY <3>1
  <2> QED
    BY <1>8, <2>1
<1> HIDE DEF Before, n, f
<1>12. \A p \in S : \E i \in 1 .. n : InOrder(S)[i] = p
  <2> TAKE p \in S
  <2>1. Cardinality(Before(p)) + 1 \in 1 .. n /\ (Cardinality(Before(p)) + 1) - 1 = Cardinality(Before(p))
    BY <1>1, <1>10
  <2>2. InOrder(S)[Cardinality(Before(p)) + 1] = p
    BY <1>8, <1>9, <2>1
  <2> QED
    BY <2>1, <2>2
<1>13. \A i, j \in 1 .. n : InOrder(S)[i] = InOrder(S)[j] => i = j
  <2> TAKE i, j \in 1 .. n
  <2>1. InOrder(S)[i] = InOrder(S)[j] => i - 1 = j - 1
    BY <1>8
  <2> QED
    BY <1>1, <2>1
<1>14. \A i \in 1 .. n : \A p \in S : Cardinality(Before(p)) = i - 1 => InOrder(S)[i] = p
  BY <1>8, <1>9
<1> QED
  BY <1>1, <1>11, <1>12, <1>13, <1>14 DEF n, Before

-----------------------------------------------------------------------------
(***************************************************************************)
(* What a tool packs                                                       *)
(***************************************************************************)

\* What two sequences put together hold.
LEMMA PutTogether ==
  ASSUME NEW S, NEW s \in Seq(S), NEW t \in Seq(S)
  PROVE  /\ s \o t \in Seq(S) /\ Len(s \o t) = Len(s) + Len(t)
         /\ Len(s) \in Nat /\ Len(t) \in Nat
         /\ \A i \in 1 .. Len(s) : (s \o t)[i] = s[i]
         /\ \A j \in 1 .. Len(t) : (s \o t)[Len(s) + j] = t[j]
<1> DEFINE u == s \o t
<1>1. /\ u \in Seq(S) /\ Len(u) = Len(s) + Len(t)
      /\ \A i \in 1 .. Len(s) + Len(t) : u[i] = IF i <= Len(s) THEN s[i] ELSE t[i - Len(s)]
  BY ConcatProperties
<1>2. Len(s) \in Nat /\ Len(t) \in Nat
  OBVIOUS
<1> HIDE DEF u
<1>3. \A i \in 1 .. Len(s) : u[i] = s[i]
  BY <1>1, <1>2
<1>4. ASSUME NEW j \in 1 .. Len(t) PROVE u[Len(s) + j] = t[j]
  <2>1. Len(s) + j \in 1 .. Len(s) + Len(t) /\ ~(Len(s) + j <= Len(s)) /\ (Len(s) + j) - Len(s) = j
    BY <1>2
  <2> QED
    BY <1>1, <2>1
<1> QED
  BY <1>1, <1>2, <1>3, <1>4 DEF u

\* Entries whose contents are made of pieces in V, and the layouts of zip tools.
Entry(V) == [path : Path, isFolder : BOOLEAN, contents : Seq(V)]
Layout == [method : {"store", "deflate"}, extra : Nat, descriptor : Nat]

\* The cells of a member and of the directory.
MemberCell(V) ==
  [sig : {"local"}, extra : Nat] \cup [sig : {"skipped"}] \cup [sig : {"deflated"}, is : Seq(V)]
    \cup [sig : {"data"}, is : V]

HeaderRecord(V) ==
  [sig : {"central"}, encrypted : {FALSE}, method : {"store", "deflate"}, crc : Seq(V), csize : Nat,
   usize : Nat, extra : Nat, offset : Nat, path : Path, isFolder : BOOLEAN]

HeaderCell(V) == [sig : {"skipped"}] \cup HeaderRecord(V)

\* The fields a reader skips.
LEMMA SkippedCells ==
  ASSUME NEW n \in Nat
  PROVE  Skipped(n) \in Seq([sig : {"skipped"}]) /\ Len(Skipped(n)) = n
<1> DEFINE S == [sig : {"skipped"}]
<1>1. Skipped(n) = [i \in 1 .. n |-> [sig |-> "skipped"]] /\ [sig |-> "skipped"] \in S
  BY DEF Skipped
<1> HIDE DEF S
<1>2. Skipped(n) \in [1 .. n -> S]
  BY <1>1
<1>3. Skipped(n) \in Seq(S) /\ Len(Skipped(n)) = n
  BY <1>2
<1> QED
  BY <1>3 DEF S

\* The body of an entry: nothing for a folder, one cell or one for each piece.
LEMMA BodyCells ==
  ASSUME NEW V, NEW e \in Entry(V), NEW method \in {"store", "deflate"}
  PROVE  /\ Body(e, method) \in Seq(MemberCell(V))
         /\ Len(Body(e, method)) =
              IF e.isFolder THEN 0 ELSE IF method = "deflate" THEN 1 ELSE Len(e.contents)
         /\ ~e.isFolder /\ method = "deflate" =>
              Body(e, method)[1] = [sig |-> "deflated", is |-> e.contents]
         /\ ~e.isFolder /\ method = "store" =>
              \A j \in 1 .. Len(e.contents) : Body(e, method)[j] = [sig |-> "data", is |-> e.contents[j]]
<1>1. e.contents \in Seq(V) /\ e.isFolder \in BOOLEAN
  BY DEF Entry
<1>2. CASE e.isFolder
  BY <1>2 DEF Body
<1>3. CASE ~e.isFolder /\ method = "deflate"
  <2>1. Body(e, method) = <<[sig |-> "deflated", is |-> e.contents]>>
    BY <1>3 DEF Body, Deflate
  <2>2. [sig |-> "deflated", is |-> e.contents] \in MemberCell(V)
    BY <1>1 DEF MemberCell
  <2>3. \A c \in MemberCell(V) : <<c>> \in Seq(MemberCell(V)) /\ Len(<<c>>) = 1 /\ <<c>>[1] = c
    OBVIOUS
  <2> QED
    BY <1>3, <2>1, <2>2, <2>3, Zenon
<1>4. CASE ~e.isFolder /\ method = "store"
  <2> DEFINE cell(x) == [sig |-> "data", is |-> x]
  <2>1. Body(e, method) = [i \in 1 .. Len(e.contents) |-> cell(e.contents[i])]
    BY <1>1, <1>4 DEF Body, Store
  <2>2. \A i \in 1 .. Len(e.contents) : cell(e.contents[i]) \in MemberCell(V)
    BY <1>1 DEF MemberCell
  <2> HIDE DEF cell
  <2>3. Body(e, method) \in [1 .. Len(e.contents) -> MemberCell(V)]
    BY <2>1, <2>2
  <2>4. Body(e, method) \in Seq(MemberCell(V)) /\ Len(Body(e, method)) = Len(e.contents)
    BY <1>1, <2>3
  <2> QED
    BY <1>4, <2>1, <2>4 DEF cell
<1> QED
  BY <1>1, <1>2, <1>3, <1>4

\* A member begins with its header; its body comes behind the fields.
LEMMA MemberCells ==
  ASSUME NEW V, NEW e \in Entry(V), NEW layout \in Layout
  PROVE  /\ Member(e, layout) \in Seq(MemberCell(V))
         /\ Len(Member(e, layout)) = 1 + layout.extra + Len(Body(e, layout.method)) + layout.descriptor
         /\ Member(e, layout)[1] = [sig |-> "local", extra |-> layout.extra]
         /\ \A j \in 1 .. Len(Body(e, layout.method)) :
              Member(e, layout)[1 + layout.extra + j] = Body(e, layout.method)[j]
<1> DEFINE S == MemberCell(V)
           local == [sig |-> "local", extra |-> layout.extra]
           body == Body(e, layout.method)
           x == layout.extra
           k == layout.descriptor
           s1 == <<local>> \o Skipped(x)
           s2 == s1 \o body
           m == s2 \o Skipped(k)
<1>1. x \in Nat /\ k \in Nat /\ layout.method \in {"store", "deflate"}
  BY DEF Layout
<1>2. body \in Seq(S) /\ Len(body) \in Nat
  <2> DEFINE method == layout.method
  <2>1. method \in {"store", "deflate"}
    BY <1>1
  <2> HIDE DEF method
  <2>2. Body(e, method) \in Seq(MemberCell(V))
    BY <2>1, BodyCells
  <2> QED
    BY <2>2 DEF method
<1>3. \A n \in Nat : Skipped(n) \in Seq(S) /\ Len(Skipped(n)) = n
  <2> TAKE n \in Nat
  <2>1. [sig : {"skipped"}] \subseteq S
    BY DEF MemberCell
  <2> HIDE DEF S
  <2> QED
    BY <2>1, SkippedCells, SeqMonotonic
<1>4. local \in S
  BY <1>1 DEF MemberCell
<1>5. Member(e, layout) = m
  BY DEF Member
<1> HIDE DEF S, local, body, x, k
<1>6. <<local>> \in Seq(S) /\ Len(<<local>>) = 1 /\ <<local>>[1] = local
  BY <1>4
<1>7. s1 \in Seq(S) /\ Len(s1) = 1 + x /\ s1[1] = local
  BY <1>1, <1>3, <1>6, PutTogether
<1> HIDE DEF s1
<1>8. /\ s2 \in Seq(S) /\ Len(s2) = 1 + x + Len(body)
      /\ s2[1] = local
      /\ \A j \in 1 .. Len(body) : s2[Len(s1) + j] = body[j]
  BY <1>1, <1>2, <1>7, PutTogether
<1> HIDE DEF s2
<1>9. Skipped(k) \in Seq(S) /\ Len(Skipped(k)) = k
  BY <1>1, <1>3
<1>10. /\ m \in Seq(S) /\ Len(m) = Len(s2) + k
       /\ \A i \in 1 .. Len(s2) : m[i] = s2[i]
  <2>1. s2 \in Seq(S) /\ Skipped(k) \in Seq(S)
    BY <1>8, <1>9
  <2>2. /\ m \in Seq(S) /\ Len(m) = Len(s2) + Len(Skipped(k))
        /\ \A i \in 1 .. Len(s2) : m[i] = s2[i]
    BY <2>1, PutTogether
  <2> QED
    BY <1>9, <2>2
<1> HIDE DEF m
<1>11. /\ Len(m) = 1 + x + Len(body) + k /\ m[1] = local
  BY <1>1, <1>2, <1>8, <1>10
<1>12. \A j \in 1 .. Len(body) : m[1 + x + j] = body[j]
  <2> TAKE j \in 1 .. Len(body)
  <2>1. Len(s1) + j \in 1 .. Len(s2) /\ 1 + x + j = Len(s1) + j
    BY <1>1, <1>2, <1>7, <1>8
  <2> QED
    BY <1>8, <1>10, <2>1
<1> QED
  BY <1>5, <1>10, <1>11, <1>12 DEF m, S, local, body, k, x

\* A header in the directory, with the fields behind it.
DirectoryCells(e, layout, offset) == <<Header(e, layout, offset)>> \o Skipped(layout.extra)

LEMMA HeaderCells ==
  ASSUME NEW V, NEW e \in Entry(V), NEW layout \in Layout, NEW offset \in Nat
  PROVE  /\ Header(e, layout, offset) \in HeaderRecord(V)
         /\ DirectoryCells(e, layout, offset) \in Seq(HeaderCell(V))
         /\ Len(DirectoryCells(e, layout, offset)) = 1 + layout.extra
         /\ DirectoryCells(e, layout, offset)[1] = Header(e, layout, offset)
<1> DEFINE h == Header(e, layout, offset)
           S == HeaderCell(V)
           x == layout.extra
           method == layout.method
           body == Body(e, method)
<1>1. x \in Nat /\ method \in {"store", "deflate"}
  BY DEF Layout
<1>2. e.contents \in Seq(V) /\ e.path \in Path /\ e.isFolder \in BOOLEAN
  BY DEF Entry
<1>3. Len(e.contents) \in Nat
  BY <1>2
<1>4. Len(body) \in Nat
  <2> HIDE DEF method
  <2> body \in Seq(MemberCell(V))
    BY <1>1, BodyCells
  <2> QED
    OBVIOUS
<1>5. h \in HeaderRecord(V)
  <2> HIDE DEF body
  <2> QED
    BY <1>1, <1>2, <1>3, <1>4 DEF Header, HeaderRecord, body
<1>6. h \in S /\ [sig : {"skipped"}] \subseteq S
  BY <1>5 DEF HeaderCell
<1> HIDE DEF h, S, x
<1>7. Skipped(x) \in Seq(S) /\ Len(Skipped(x)) = x
  BY <1>1, <1>6, SkippedCells, SeqMonotonic
<1>8. <<h>> \in Seq(S) /\ Len(<<h>>) = 1 /\ <<h>>[1] = h
  BY <1>6
<1>9. /\ <<h>> \o Skipped(x) \in Seq(S) /\ Len(<<h>> \o Skipped(x)) = 1 + x
      /\ (<<h>> \o Skipped(x))[1] = h
  BY <1>1, <1>7, <1>8, PutTogether
<1> QED
  BY <1>5, <1>9 DEF DirectoryCells, h, S, x

\* How the writer goes from entry to entry.
LEMMA WrittenUnfolds ==
  ASSUME NEW V, NEW entries \in Seq(Entry(V)), NEW layout \in Layout
  PROVE  /\ Written(entries, layout) \in
              [0 .. Len(entries) -> [zip : Seq(MemberCell(V)), central : Seq(HeaderCell(V))]]
         /\ Written(entries, layout)[0] = [zip |-> <<>>, central |-> <<>>]
         /\ \A n \in 1 .. Len(entries) :
              Written(entries, layout)[n] =
                [zip |-> Written(entries, layout)[n - 1].zip \o Member(entries[n], layout),
                 central |-> Written(entries, layout)[n - 1].central
                               \o DirectoryCells(entries[n], layout, Len(Written(entries, layout)[n - 1].zip))]
<1> DEFINE N == Len(entries)
           D == [zip : Seq(MemberCell(V)), central : Seq(HeaderCell(V))]
           first == [zip |-> <<>>, central |-> <<>>]
           Then(so, n) ==
             [zip |-> so.zip \o Member(entries[n], layout),
              central |-> so.central \o DirectoryCells(entries[n], layout, Len(so.zip))]
           step == [x \in D \X (1 .. N) |-> Then(x[1], x[2])]
           IsOut(f) == f = [n \in 0 .. N |-> IF n = 0 THEN first ELSE Then(f[n - 1], n)]
<1>1. N \in Nat /\ \A n \in 1 .. N : entries[n] \in Entry(V)
  OBVIOUS
<1>2. first \in D
  OBVIOUS
<1>3. ASSUME NEW so \in D, NEW n \in 1 .. N PROVE Then(so, n) \in D
  <2>1. so.zip \in Seq(MemberCell(V)) /\ so.central \in Seq(HeaderCell(V)) /\ Len(so.zip) \in Nat
    OBVIOUS
  <2>2. /\ Member(entries[n], layout) \in Seq(MemberCell(V))
        /\ DirectoryCells(entries[n], layout, Len(so.zip)) \in Seq(HeaderCell(V))
    BY <1>1, <2>1, MemberCells, HeaderCells
  <2> QED
    BY <2>1, <2>2, PutTogether
<1>4. step \in [D \X (1 .. N) -> D]
  <2> HIDE DEF D, Then
  <2> QED
    BY <1>3
<1>5. \E f \in [0 .. N -> D] : IsOut(f)
  <2> HIDE DEF D, first, N
  <2>1. PICK f : IsRun(f, N, D, first, step)
    <3> HIDE DEF step
    <3> QED
      BY <1>1, <1>2, <1>4, Recursion
  <2>2. ASSUME NEW k \in 1 .. N PROVE f[k] = Then(f[k - 1], k)
    <3>1. f[k - 1] \in D
      BY <1>1, <2>1 DEF IsRun
    <3>2. f[k] = step[<<f[k - 1], k>>]
      BY <2>1 DEF IsRun
    <3> HIDE DEF Then
    <3> QED
      BY <3>1, <3>2
  <2> DEFINE g == [k \in 0 .. N |-> IF k = 0 THEN first ELSE Then(f[k - 1], k)]
  <2> HIDE DEF step, Then
  <2>3. f = g
    <3>1. \A k \in 0 .. N : f[k] = IF k = 0 THEN first ELSE Then(f[k - 1], k)
      <4>1. \A k \in 0 .. N : k = 0 \/ k \in 1 .. N
        BY <1>1
      <4>2. f[0] = first
        BY <2>1 DEF IsRun
      <4> QED
        BY <2>2, <4>1, <4>2
    <3>2. f = [k \in 0 .. N |-> f[k]]
      BY <2>1 DEF IsRun
    <3> QED
      BY <3>1, <3>2
  <2>4. IsOut(f)
    BY <2>3, Zenon
  <2> QED
    BY <2>1, <2>4 DEF IsRun
<1>6. Written(entries, layout) = CHOOSE f : IsOut(f)
  BY DEF Written, DirectoryCells
<1> HIDE DEF IsOut
<1>7. IsOut(Written(entries, layout))
  BY <1>5, <1>6
<1> DEFINE w == Written(entries, layout)
<1>8. w = [n \in 0 .. N |-> IF n = 0 THEN first ELSE Then(w[n - 1], n)]
  BY <1>7 DEF IsOut
<1> HIDE DEF w, D, first, Then
<1>9. w[0] = first /\ \A n \in 1 .. N : w[n] = Then(w[n - 1], n)
  <2> HIDE DEF N
  <2>1. \A n \in 0 .. N : w[n] = IF n = 0 THEN first ELSE Then(w[n - 1], n)
    BY <1>8, Zenon
  <2>2. 0 \in 0 .. N /\ \A n \in 1 .. N : n \in 0 .. N /\ n # 0
    BY <1>1
  <2> QED
    BY <2>1, <2>2, Zenon
<1>10. w \in [0 .. N -> D]
  <2> HIDE DEF N
  <2> DEFINE T == {k \in 0 .. N : w[k] \in D}
  <2>1. 0 \in T
    BY <1>1, <1>2, <1>9
  <2>2. \A k \in 0 .. N - 1 : k \in T => k + 1 \in T
    <3> TAKE k \in 0 .. N - 1
    <3> HAVE k \in T
    <3>1. k + 1 \in 1 .. N /\ (k + 1) - 1 = k /\ k + 1 \in 0 .. N
      BY <1>1
    <3>2. w[k + 1] = Then(w[k], k + 1)
      BY <1>9, <3>1
    <3> QED
      BY <1>3, <3>1, <3>2
  <2>3. \A k \in 0 .. N : k \in T
    <3> HIDE DEF T
    <3> QED
      BY <1>1, <2>1, <2>2, AllUpTo
  <2>4. \A k \in 0 .. N : w[k] \in D
    BY <2>3
  <2> QED
    BY <1>8, <2>4
<1> QED
  BY <1>9, <1>10 DEF w, D, first, Then

\* The members and the directory after n entries.
MembersUpTo(entries, layout, n) == Written(entries, layout)[n].zip
DirectoryUpTo(entries, layout, n) == Written(entries, layout)[n].central

\* One entry adds its member and its header.
LEMMA WrittenGrows ==
  ASSUME NEW V, NEW entries \in Seq(Entry(V)), NEW layout \in Layout
  PROVE  /\ \A n \in 0 .. Len(entries) :
              /\ MembersUpTo(entries, layout, n) \in Seq(MemberCell(V))
              /\ DirectoryUpTo(entries, layout, n) \in Seq(HeaderCell(V))
         /\ MembersUpTo(entries, layout, 0) = <<>> /\ DirectoryUpTo(entries, layout, 0) = <<>>
         /\ \A n \in 1 .. Len(entries) :
              /\ MembersUpTo(entries, layout, n) =
                   MembersUpTo(entries, layout, n - 1) \o Member(entries[n], layout)
              /\ DirectoryUpTo(entries, layout, n) =
                   DirectoryUpTo(entries, layout, n - 1)
                     \o DirectoryCells(entries[n], layout, Len(MembersUpTo(entries, layout, n - 1)))
<1> DEFINE N == Len(entries)
           D == [zip : Seq(MemberCell(V)), central : Seq(HeaderCell(V))]
           w == Written(entries, layout)
<1>1. w \in [0 .. N -> D]
  BY WrittenUnfolds
<1>2. \A n \in 0 .. N : w[n] \in D
  <2> HIDE DEF D, N, w
  <2> QED
    BY <1>1
<1>3. w[0] = [zip |-> <<>>, central |-> <<>>]
  BY WrittenUnfolds
<1>4. \A n \in 1 .. N :
        w[n] = [zip |-> w[n - 1].zip \o Member(entries[n], layout),
                central |-> w[n - 1].central \o DirectoryCells(entries[n], layout, Len(w[n - 1].zip))]
  BY WrittenUnfolds
<1>5. \A n \in 0 .. N : w[n].zip \in Seq(MemberCell(V)) /\ w[n].central \in Seq(HeaderCell(V))
  <2> HIDE DEF N, w
  <2> QED
    BY <1>2
<1>6. w[0].zip = <<>> /\ w[0].central = <<>>
  <2> HIDE DEF w
  <2> QED
    BY <1>3
<1>7. \A n \in 1 .. N :
        /\ w[n].zip = w[n - 1].zip \o Member(entries[n], layout)
        /\ w[n].central = w[n - 1].central \o DirectoryCells(entries[n], layout, Len(w[n - 1].zip))
  <2> HIDE DEF N, w
  <2> TAKE n \in 1 .. N
  <2> DEFINE a == w[n - 1].zip \o Member(entries[n], layout)
             b == w[n - 1].central \o DirectoryCells(entries[n], layout, Len(w[n - 1].zip))
  <2>1. w[n] = [zip |-> a, central |-> b]
    BY <1>4
  <2> HIDE DEF a, b
  <2>2. w[n].zip = a /\ w[n].central = b
    BY <2>1
  <2> QED
    BY <2>2 DEF a, b
<1> QED
  BY <1>5, <1>6, <1>7, Zenon DEF MembersUpTo, DirectoryUpTo

\* Each of N + 1 sequences continues the one before.
Continues(s, more, N, S) ==
  /\ \A m \in 0 .. N : s[m] \in Seq(S)
  /\ \A m \in 1 .. N : more[m] \in Seq(S) /\ s[m] = s[m - 1] \o more[m]

\* What has been written stays where it is.
LEMMA WrittenStays ==
  ASSUME NEW S, NEW N \in Nat, NEW s, NEW more, NEW i \in 0 .. N, NEW n \in i .. N,
         Continues(s, more, N, S)
  PROVE  Len(s[i]) <= Len(s[n]) /\ \A j \in 1 .. Len(s[i]) : s[n][j] = s[i][j]
<1> DEFINE Stays(m) == Len(s[i]) <= Len(s[m]) /\ \A j \in 1 .. Len(s[i]) : s[m][j] = s[i][j]
           T == {k \in 0 .. N - i : Stays(i + k)}
<1>1. n - i \in 0 .. N - i /\ i + (n - i) = n
  OBVIOUS
<1>2. Len(s[i]) \in Nat
  BY DEF Continues
<1>3. 0 \in T
  BY <1>2
<1>4. ASSUME NEW k \in 0 .. (N - i) - 1, k \in T PROVE k + 1 \in T
  <2> DEFINE m == i + (k + 1)
  <2>1. m \in 1 .. N /\ m - 1 = i + k /\ m - 1 \in 0 .. N /\ k + 1 \in 0 .. N - i
    OBVIOUS
  <2>2. Stays(m - 1)
    BY <1>4, <2>1
  <2> HIDE DEF m
  <2>3. s[m - 1] \in Seq(S) /\ more[m] \in Seq(S) /\ s[m] = s[m - 1] \o more[m]
    BY <2>1 DEF Continues
  <2>4. ASSUME NEW p \in Seq(S), NEW q \in Seq(S), NEW r, r = p \o q, Len(s[i]) <= Len(p),
               \A j \in 1 .. Len(s[i]) : p[j] = s[i][j]
        PROVE  Len(s[i]) <= Len(r) /\ \A j \in 1 .. Len(s[i]) : r[j] = s[i][j]
    <3>1. /\ Len(r) = Len(p) + Len(q) /\ Len(p) \in Nat /\ Len(q) \in Nat
          /\ \A j \in 1 .. Len(p) : r[j] = p[j]
      BY <2>4, PutTogether
    <3> QED
      BY <1>2, <2>4, <3>1
  <2>5. Stays(m)
    <3>1. PICK p \in Seq(S) : p = s[m - 1]
      BY <2>3
    <3>2. PICK q \in Seq(S) : q = more[m]
      BY <2>3
    <3>3. Len(s[i]) <= Len(p) /\ \A j \in 1 .. Len(s[i]) : p[j] = s[i][j]
      BY <2>2, <3>1
    <3>4. s[m] = p \o q
      BY <2>3, <3>1, <3>2
    <3> QED
      BY <2>4, <3>3, <3>4
  <2> HIDE DEF Stays
  <2> QED
    BY <2>1, <2>5 DEF m
<1>5. \A k \in 0 .. N - i : k \in T
  <2>1. N - i \in Nat
    OBVIOUS
  <2> HIDE DEF T
  <2> QED
    BY <1>3, <1>4, <2>1, AllUpTo
<1>6. Stays(n)
  <2> HIDE DEF Stays
  <2> QED
    BY <1>1, <1>5
<1> QED
  BY <1>6

\* The i-th piece is behind the i - 1 before it, and is there in the end.
IsThere(s, more, i, N) ==
  /\ Len(s[i - 1]) \in Nat /\ Len(s[i]) = Len(s[i - 1]) + Len(more[i])
  /\ Len(s[i - 1]) + Len(more[i]) <= Len(s[N])
  /\ \A j \in 1 .. Len(more[i]) : s[N][Len(s[i - 1]) + j] = more[i][j]

\* Every piece is found where it was put.
LEMMA PiecesStay ==
  ASSUME NEW S, NEW N \in Nat, NEW s, NEW more, NEW i \in 1 .. N, Continues(s, more, N, S)
  PROVE  IsThere(s, more, i, N)
<1>1. /\ i \in 0 .. N /\ i - 1 \in 0 .. N /\ N \in i .. N
  OBVIOUS
<1>2. PICK p \in Seq(S) : p = s[i - 1]
  BY <1>1 DEF Continues
<1>3. PICK q \in Seq(S) : q = more[i]
  BY DEF Continues
<1>4. s[i] = p \o q
  BY <1>2, <1>3 DEF Continues
<1>5. PICK r \in Seq(S) : r = s[N]
  BY <1>1 DEF Continues
<1>6. Len(s[i]) <= Len(r) /\ \A j \in 1 .. Len(s[i]) : r[j] = s[i][j]
  <2>1. Len(s[i]) <= Len(s[N]) /\ \A j \in 1 .. Len(s[i]) : s[N][j] = s[i][j]
    BY <1>1, WrittenStays, SMTT(30)
  <2> QED
    BY <1>5, <2>1
<1>7. /\ Len(s[i]) = Len(p) + Len(q) /\ Len(p) \in Nat /\ Len(q) \in Nat
      /\ \A j \in 1 .. Len(q) : s[i][Len(p) + j] = q[j]
  BY <1>4, PutTogether
<1>8. ASSUME NEW j \in 1 .. Len(q) PROVE r[Len(p) + j] = q[j]
  <2>1. Len(p) + j \in 1 .. Len(s[i])
    BY <1>7
  <2> QED
    BY <1>6, <1>7, <2>1
<1> QED
  BY <1>2, <1>3, <1>5, <1>6, <1>7, <1>8 DEF IsThere

\* Where a member and a header begin.
MemberAt(entries, layout, i) == Len(MembersUpTo(entries, layout, i - 1))

HeaderAt(entries, layout, i) ==
  Len(MembersUpTo(entries, layout, Len(entries))) + Len(DirectoryUpTo(entries, layout, i - 1))

Headers(entries, layout) ==
  [i \in 1 .. Len(entries) |-> Header(entries[i], layout, MemberAt(entries, layout, i))]

\* The members follow each other.
LEMMA MembersStay ==
  ASSUME NEW V, NEW entries \in Seq(Entry(V)), NEW layout \in Layout, NEW i \in 1 .. Len(entries)
  PROVE  LET m == Member(entries[i], layout)
             all == MembersUpTo(entries, layout, Len(entries))
         IN  /\ MemberAt(entries, layout, i) \in Nat
             /\ MemberAt(entries, layout, i + 1) = MemberAt(entries, layout, i) + Len(m)
             /\ MemberAt(entries, layout, i) + Len(m) <= Len(all)
             /\ \A j \in 1 .. Len(m) : all[MemberAt(entries, layout, i) + j] = m[j]
<1> DEFINE N == Len(entries)
           S == MemberCell(V)
           s == [n \in 0 .. N |-> MembersUpTo(entries, layout, n)]
           more == [n \in 1 .. N |-> Member(entries[n], layout)]
<1>1. N \in Nat /\ \A n \in 1 .. N : entries[n] \in Entry(V)
  OBVIOUS
<1>2. \A n \in 1 .. N : more[n] \in Seq(S)
  <2> HIDE DEF S, N
  <2> QED
    BY <1>1, MemberCells DEF S
<1>3. \A n \in 0 .. N : s[n] \in Seq(S)
  BY WrittenGrows
<1>4. \A n \in 1 .. N : s[n] = s[n - 1] \o more[n]
  <2> TAKE n \in 1 .. N
  <2>1. n \in 0 .. N /\ n - 1 \in 0 .. N
    BY <1>1
  <2>2. MembersUpTo(entries, layout, n) = MembersUpTo(entries, layout, n - 1) \o Member(entries[n], layout)
    BY WrittenGrows
  <2> QED
    BY <2>1, <2>2
<1>5. /\ s[i - 1] = MembersUpTo(entries, layout, i - 1) /\ more[i] = Member(entries[i], layout)
      /\ s[i] = MembersUpTo(entries, layout, i) /\ (i + 1) - 1 = i
      /\ s[N] = MembersUpTo(entries, layout, N)
  BY <1>1
<1> HIDE DEF s, more, S
<1>6. /\ Len(s[i - 1]) \in Nat /\ Len(s[i]) = Len(s[i - 1]) + Len(more[i])
      /\ Len(s[i - 1]) + Len(more[i]) <= Len(s[N])
      /\ \A j \in 1 .. Len(more[i]) : s[N][Len(s[i - 1]) + j] = more[i][j]
  <2>1. Continues(s, more, N, S)
    BY <1>2, <1>3, <1>4 DEF Continues
  <2>2. IsThere(s, more, i, N)
    BY <1>1, <2>1, PiecesStay
  <2> QED
    BY <2>2 DEF IsThere
<1> QED
  BY <1>5, <1>6 DEF MemberAt

\* So do the headers.
LEMMA HeadersStay ==
  ASSUME NEW V, NEW entries \in Seq(Entry(V)), NEW layout \in Layout, NEW i \in 1 .. Len(entries)
  PROVE  LET all == DirectoryUpTo(entries, layout, Len(entries))
             before == DirectoryUpTo(entries, layout, i - 1)
         IN  /\ Len(before) \in Nat
             /\ Len(DirectoryUpTo(entries, layout, i)) = Len(before) + 1 + layout.extra
             /\ Len(before) + 1 + layout.extra <= Len(all)
             /\ all[Len(before) + 1] = Headers(entries, layout)[i]
             /\ Headers(entries, layout)[i] \in HeaderRecord(V)
<1> DEFINE N == Len(entries)
           S == HeaderCell(V)
           s == [n \in 0 .. N |-> DirectoryUpTo(entries, layout, n)]
           more == [n \in 1 .. N |-> DirectoryCells(entries[n], layout, MemberAt(entries, layout, n))]
<1>1. N \in Nat /\ \A n \in 1 .. N : entries[n] \in Entry(V)
  OBVIOUS
<1>2. \A n \in 1 .. N : MemberAt(entries, layout, n) \in Nat
  BY MembersStay
<1>3. \A n \in 1 .. N :
        /\ more[n] \in Seq(S) /\ Len(more[n]) = 1 + layout.extra
        /\ more[n][1] = Header(entries[n], layout, MemberAt(entries, layout, n))
        /\ Header(entries[n], layout, MemberAt(entries, layout, n)) \in HeaderRecord(V)
  <2> HIDE DEF S, N
  <2> QED
    BY <1>1, <1>2, HeaderCells DEF S
<1>4. \A n \in 0 .. N : s[n] \in Seq(S)
  BY WrittenGrows
<1>5. \A n \in 1 .. N : s[n] = s[n - 1] \o more[n]
  <2> TAKE n \in 1 .. N
  <2>1. n \in 0 .. N /\ n - 1 \in 0 .. N
    BY <1>1
  <2>2. DirectoryUpTo(entries, layout, n) =
          DirectoryUpTo(entries, layout, n - 1)
            \o DirectoryCells(entries[n], layout, Len(MembersUpTo(entries, layout, n - 1)))
    BY WrittenGrows
  <2> QED
    BY <2>1, <2>2 DEF MemberAt
<1>6. /\ s[i - 1] = DirectoryUpTo(entries, layout, i - 1)
      /\ s[i] = DirectoryUpTo(entries, layout, i)
      /\ s[N] = DirectoryUpTo(entries, layout, N)
      /\ Headers(entries, layout)[i] = Header(entries[i], layout, MemberAt(entries, layout, i))
  BY <1>1 DEF Headers
<1> HIDE DEF s, more, S
<1>7. /\ Len(s[i - 1]) \in Nat /\ Len(s[i]) = Len(s[i - 1]) + Len(more[i])
      /\ Len(s[i - 1]) + Len(more[i]) <= Len(s[N])
      /\ \A j \in 1 .. Len(more[i]) : s[N][Len(s[i - 1]) + j] = more[i][j]
  <2>1. Continues(s, more, N, S)
    BY <1>3, <1>4, <1>5 DEF Continues
  <2>2. IsThere(s, more, i, N)
    BY <1>1, <2>1, PiecesStay
  <2> QED
    BY <2>2 DEF IsThere
<1> DEFINE x == layout.extra
<1>8. x \in Nat
  BY DEF Layout
<1>9. /\ Len(more[i]) = 1 + x /\ more[i][1] = Headers(entries, layout)[i]
      /\ Headers(entries, layout)[i] \in HeaderRecord(V)
  BY <1>3, <1>6
<1> HIDE DEF x
<1>10. 1 \in 1 .. Len(more[i])
  BY <1>8, <1>9
<1> HIDE DEF N
<1>11. /\ Len(s[i]) = Len(s[i - 1]) + 1 + x /\ Len(s[i - 1]) + 1 + x <= Len(s[N])
       /\ s[N][Len(s[i - 1]) + 1] = Headers(entries, layout)[i]
  <2>1. Len(s[i]) = Len(s[i - 1]) + (1 + x) /\ Len(s[i - 1]) + (1 + x) <= Len(s[N])
    BY <1>7, <1>9
  <2>2. s[N][Len(s[i - 1]) + 1] = more[i][1]
    BY <1>7, <1>10
  <2>3. \A l \in Nat : l + (1 + x) = l + 1 + x
    BY <1>8
  <2> QED
    BY <1>7, <1>9, <2>1, <2>2, <2>3
<1> QED
  BY <1>6, <1>7, <1>9, <1>11 DEF x, N

EndRecord(n, size, offset) == [sig |-> "end", here |-> n, entries |-> n, size |-> size, offset |-> offset]

Cell(V) ==
  MemberCell(V) \cup HeaderCell(V) \cup [sig : {"end"}, here : Nat, entries : Nat, size : Nat, offset : Nat]

\* A zip with these headers at these places, and the record that ends it as its last cell.
IsPacked(zip, headers, at, V) ==
  /\ headers \in Seq(HeaderRecord(V))
  /\ at \in [1 .. Len(headers) + 1 -> Nat]
  /\ at[1] <= at[Len(headers) + 1]
  /\ \A i \in 1 .. Len(headers) :
       /\ at[i + 1] = at[i] + 1 + headers[i].extra
       /\ at[i] < at[Len(headers) + 1]
       /\ zip[at[i] + 1] = headers[i]
  /\ zip \in Seq(Cell(V)) /\ Len(zip) = at[Len(headers) + 1] + 1
  /\ \A i \in 1 .. at[Len(headers) + 1] : zip[i] \in MemberCell(V) \cup HeaderCell(V)
  /\ zip[Len(zip)] = EndRecord(Len(headers), at[Len(headers) + 1] - at[1], at[1])

HeaderPlaces(entries, layout) == [i \in 1 .. Len(entries) + 1 |-> HeaderAt(entries, layout, i)]

\* The cells of a zip: the members, the directory and the end.
LEMMA PackCells ==
  ASSUME NEW V, NEW entries \in Seq(Entry(V)), NEW layout \in Layout
  PROVE  LET zip == Pack(entries, layout)
             a == MembersUpTo(entries, layout, Len(entries))
             b == DirectoryUpTo(entries, layout, Len(entries))
         IN  /\ a \in Seq(MemberCell(V)) /\ b \in Seq(HeaderCell(V))
             /\ zip \in Seq(Cell(V)) /\ Len(zip) = Len(a) + Len(b) + 1
             /\ \A j \in 1 .. Len(a) : zip[j] = a[j]
             /\ \A j \in 1 .. Len(b) : zip[Len(a) + j] = b[j]
             /\ zip[Len(zip)] = EndRecord(Len(entries), Len(b), Len(a))
<1> DEFINE a == MembersUpTo(entries, layout, Len(entries))
           b == DirectoryUpTo(entries, layout, Len(entries))
           end == EndRecord(Len(entries), Len(b), Len(a))
           S == Cell(V)
           z == Pack(entries, layout)
<1>1. Len(entries) \in 0 .. Len(entries)
  OBVIOUS
<1>2. a \in Seq(MemberCell(V)) /\ b \in Seq(HeaderCell(V))
  BY <1>1, WrittenGrows
<1>3. z = (a \o b) \o <<end>>
  BY DEF Pack, EndRecord, MembersUpTo, DirectoryUpTo
<1>4. Len(a) \in Nat /\ Len(b) \in Nat
  <2> HIDE DEF a, b
  <2> QED
    BY <1>2
<1>5. end \in S
  <2> HIDE DEF a, b
  <2> QED
    BY <1>1, <1>4 DEF EndRecord, Cell
<1>6. MemberCell(V) \subseteq S /\ HeaderCell(V) \subseteq S
  BY DEF Cell
<1> HIDE DEF a, b, end, S, z
<1>7. a \in Seq(S) /\ b \in Seq(S)
  BY <1>2, <1>6, SeqMonotonic
<1>8. <<end>> \in Seq(S) /\ Len(<<end>>) = 1 /\ <<end>>[1] = end
  BY <1>5
<1> DEFINE ab == a \o b
<1>9. /\ ab \in Seq(S) /\ Len(ab) = Len(a) + Len(b)
      /\ \A j \in 1 .. Len(a) : ab[j] = a[j]
      /\ \A j \in 1 .. Len(b) : ab[Len(a) + j] = b[j]
  BY <1>7, PutTogether
<1> HIDE DEF ab
<1> DEFINE t == <<end>>
<1> HIDE DEF t
<1>10. /\ z \in Seq(S) /\ Len(z) = Len(ab) + Len(t)
       /\ \A j \in 1 .. Len(ab) : z[j] = ab[j]
       /\ \A j \in 1 .. Len(t) : z[Len(ab) + j] = t[j]
  <2>1. z = ab \o t /\ t \in Seq(S) /\ ab \in Seq(S)
    BY <1>3, <1>8, <1>9 DEF ab, t
  <2>2. /\ ab \o t \in Seq(S) /\ Len(ab \o t) = Len(ab) + Len(t)
        /\ \A j \in 1 .. Len(ab) : (ab \o t)[j] = ab[j]
        /\ \A j \in 1 .. Len(t) : (ab \o t)[Len(ab) + j] = t[j]
    BY <2>1, PutTogether
  <2> QED
    BY <2>1, <2>2
<1>11. Len(t) = 1 /\ t[1] = end
  BY <1>8 DEF t
<1>12. Len(z) = Len(a) + Len(b) + 1 /\ z[Len(z)] = end
  BY <1>4, <1>9, <1>10, <1>11
<1>13. \A j \in 1 .. Len(a) : z[j] = a[j]
  BY <1>4, <1>9, <1>10
<1>14. ASSUME NEW j \in 1 .. Len(b) PROVE z[Len(a) + j] = b[j]
  <2>1. Len(a) + j \in 1 .. Len(ab)
    BY <1>4, <1>9
  <2> QED
    BY <1>9, <1>10, <2>1
<1> QED
  BY <1>2, <1>10, <1>12, <1>13, <1>14 DEF a, b, end, S, z

LEMMA PackIsPacked ==
  ASSUME NEW V, NEW entries \in Seq(Entry(V)), NEW layout \in Layout
  PROVE  IsPacked(Pack(entries, layout), Headers(entries, layout), HeaderPlaces(entries, layout), V)
<1> DEFINE N == Len(entries)
           z == Pack(entries, layout)
           H == Headers(entries, layout)
           at == HeaderPlaces(entries, layout)
           a == MembersUpTo(entries, layout, N)
           d == [n \in 0 .. N |-> DirectoryUpTo(entries, layout, n)]
           x == layout.extra
<1>1. N \in Nat
  OBVIOUS
<1>2. /\ a \in Seq(MemberCell(V)) /\ d[N] \in Seq(HeaderCell(V))
      /\ z \in Seq(Cell(V)) /\ Len(z) = Len(a) + Len(d[N]) + 1
      /\ \A j \in 1 .. Len(a) : z[j] = a[j]
      /\ \A j \in 1 .. Len(d[N]) : z[Len(a) + j] = d[N][j]
      /\ z[Len(z)] = EndRecord(N, Len(d[N]), Len(a))
  <2>1. d[N] = DirectoryUpTo(entries, layout, N)
    BY <1>1
  <2> HIDE DEF d
  <2> QED
    BY <2>1, PackCells
<1>3. Len(a) \in Nat /\ Len(d[N]) \in Nat
  <2> HIDE DEF a, d
  <2> QED
    BY <1>2
<1>4. x \in Nat
  BY DEF Layout
<1>5. \A n \in 0 .. N : at[n + 1] = Len(a) + Len(d[n])
  <2> TAKE n \in 0 .. N
  <2>1. n + 1 \in 1 .. N + 1 /\ (n + 1) - 1 = n
    BY <1>1
  <2>2. at[n + 1] = HeaderAt(entries, layout, n + 1)
    BY <2>1 DEF HeaderPlaces
  <2>3. d[n] = DirectoryUpTo(entries, layout, n)
    OBVIOUS
  <2> HIDE DEF d
  <2> QED
    BY <2>1, <2>2, <2>3 DEF HeaderAt
<1>6. d[0] = <<>>
  <2>1. DirectoryUpTo(entries, layout, 0) = <<>>
    BY WrittenGrows
  <2> QED
    BY <1>1, <2>1
<1>7. \A i \in 1 .. N :
        /\ Len(d[i - 1]) \in Nat
        /\ Len(d[i]) = Len(d[i - 1]) + 1 + x
        /\ Len(d[i - 1]) + 1 + x <= Len(d[N])
        /\ d[N][Len(d[i - 1]) + 1] = H[i]
        /\ H[i] \in HeaderRecord(V)
  <2> TAKE i \in 1 .. N
  <2>1. /\ d[i] = DirectoryUpTo(entries, layout, i) /\ d[N] = DirectoryUpTo(entries, layout, N)
        /\ d[i - 1] = DirectoryUpTo(entries, layout, i - 1)
    BY <1>1
  <2> HIDE DEF d, H
  <2> QED
    BY <2>1, HeadersStay DEF H
<1>8. /\ H = [i \in 1 .. N |-> H[i]]
      /\ \A i \in 1 .. N : H[i].extra = x
      /\ at = [i \in 1 .. N + 1 |-> at[i]]
  BY DEF Headers, HeaderPlaces, Header
<1> HIDE DEF H, at, d, a, z, x, N
<1>9. H \in Seq(HeaderRecord(V)) /\ Len(H) = N
  <2>1. H \in [1 .. N -> HeaderRecord(V)]
    BY <1>7, <1>8
  <2> QED
    BY <1>1, <2>1
<1>10. at[1] = Len(a) /\ at[N + 1] = Len(a) + Len(d[N])
  <2>1. at[0 + 1] = Len(a) + Len(d[0]) /\ at[N + 1] = Len(a) + Len(d[N])
    BY <1>1, <1>5
  <2> QED
    BY <1>3, <1>6, <2>1
<1>11. ASSUME NEW i \in 1 .. N
       PROVE  /\ at[i + 1] = at[i] + 1 + H[i].extra
              /\ at[i] \in Nat /\ at[i] < at[N + 1]
              /\ z[at[i] + 1] = H[i]
  <2>1. i \in 0 .. N /\ i - 1 \in 0 .. N /\ (i - 1) + 1 = i
    BY <1>1
  <2>2. at[i + 1] = Len(a) + Len(d[i]) /\ at[i] = Len(a) + Len(d[i - 1])
    BY <1>5, <2>1
  <2>3. PICK l \in Nat : l = Len(d[i - 1])
    BY <1>7
  <2>4. /\ Len(d[i]) = l + 1 + x /\ l + 1 + x <= Len(d[N]) /\ d[N][l + 1] = H[i]
    BY <1>7, <2>3
  <2> PICK A \in Nat : A = Len(a)
    BY <1>3
  <2> PICK L \in Nat : L = Len(d[N])
    BY <1>3
  <2>a. at[i] = A + l /\ at[i + 1] = A + (l + 1 + x) /\ l + 1 + x <= L /\ at[N + 1] = A + L
    BY <1>10, <2>2, <2>3, <2>4
  <2>5. l + 1 \in 1 .. Len(d[N]) /\ Len(a) + (l + 1) = at[i] + 1
    BY <1>4, <2>a
  <2>6. z[at[i] + 1] = H[i]
    BY <1>2, <2>4, <2>5
  <2>7. H[i].extra = x
    BY <1>8
  <2>8. at[i] \in Nat /\ at[i + 1] = at[i] + 1 + x /\ at[i] < at[N + 1]
    BY <1>4, <2>a
  <2> QED
    BY <2>6, <2>7, <2>8
<1>12. at \in [1 .. N + 1 -> Nat]
  <2>1. at[N + 1] \in Nat
    BY <1>3, <1>10
  <2>2. \A i \in 1 .. N + 1 : i \in 1 .. N \/ i = N + 1
    BY <1>1
  <2>3. \A i \in 1 .. N + 1 : at[i] \in Nat
    BY <1>11, <2>1, <2>2
  <2> QED
    BY <1>8, <2>3
<1>13. Len(z) = at[N + 1] + 1 /\ at[N + 1] - at[1] = Len(d[N]) /\ at[1] <= at[N + 1]
  BY <1>2, <1>3, <1>10
<1>14. ASSUME NEW i \in 1 .. at[N + 1] PROVE z[i] \in MemberCell(V) \cup HeaderCell(V)
  <2>1. CASE i <= Len(a)
    <3>1. i \in 1 .. Len(a)
      BY <1>3, <1>10, <2>1
    <3>2. a[i] \in MemberCell(V)
      BY <1>2, <3>1
    <3> QED
      BY <1>2, <3>1, <3>2
  <2>2. CASE i > Len(a)
    <3>1. i - Len(a) \in 1 .. Len(d[N]) /\ Len(a) + (i - Len(a)) = i
      BY <1>3, <1>10, <2>2
    <3>2. d[N][i - Len(a)] \in HeaderCell(V)
      BY <1>2, <3>1
    <3>3. z[Len(a) + (i - Len(a))] = d[N][i - Len(a)]
      BY <1>2, <3>1
    <3> QED
      BY <3>1, <3>2, <3>3
  <2> QED
    BY <1>3, <1>10, <2>1, <2>2
<1>15. z[Len(z)] = EndRecord(N, at[N + 1] - at[1], at[1])
  BY <1>2, <1>10, <1>13
<1>16. IsPacked(z, H, at, V)
  BY <1>2, <1>9, <1>11, <1>12, <1>13, <1>14, <1>15 DEF IsPacked
<1> QED
  BY <1>16 DEF z, H, at

-----------------------------------------------------------------------------
(***************************************************************************)
(* What is read of a packed zip in which some cells have become junk       *)
(***************************************************************************)

\* The same zip, but for junk in place of cells before its end and behind it.
HasJunk(z, zip) ==
  /\ Len(z) \in Nat /\ Len(zip) <= Len(z)
  /\ \A i \in 1 .. Len(zip) - 1 : z[i] = zip[i] \/ z[i] = Junk
  /\ z[Len(zip)] = zip[Len(zip)]
  /\ \A i \in Len(zip) + 1 .. Len(z) : z[i] = Junk

\* What cells look like from outside.
LEMMA Signatures ==
  ASSUME NEW V
  PROVE  /\ Junk.sig = "junk"
         /\ \A c \in MemberCell(V) : c.sig \in {"local", "skipped", "deflated", "data"}
         /\ \A c \in HeaderCell(V) : c.sig \in {"skipped", "central"}
         /\ \A c \in HeaderRecord(V) : c.sig = "central"
         /\ \A n, size, offset : /\ EndRecord(n, size, offset).sig = "end"
                                /\ EndRecord(n, size, offset).here = n
                                /\ EndRecord(n, size, offset).entries = n
                                /\ EndRecord(n, size, offset).size = size
                                /\ EndRecord(n, size, offset).offset = offset
<1>1. Junk.sig = "junk"
  BY DEF Junk
<1>2. \A c \in HeaderRecord(V) : c.sig = "central"
  BY DEF HeaderRecord
<1>3. \A c \in HeaderCell(V) : c.sig \in {"skipped", "central"}
  BY <1>2 DEF HeaderCell
<1>4. \A c \in MemberCell(V) : c.sig \in {"local", "skipped", "deflated", "data"}
  BY DEF MemberCell
<1> QED
  BY <1>1, <1>2, <1>3, <1>4 DEF EndRecord

\* The record at the end is found, and nothing else is taken for it.
LEMMA EndIsFound ==
  ASSUME NEW V, NEW zip, NEW H, NEW at, NEW z, IsPacked(zip, H, at, V), HasJunk(z, zip)
  PROVE  /\ EndsAt(z) = {Len(zip) - 1} /\ EndOf(z) = Len(zip) - 1
         /\ z[EndOf(z) + 1] = EndRecord(Len(H), at[Len(H) + 1] - at[1], at[1])
<1> DEFINE N == Len(H)
           e == at[N + 1]
<1>1. N \in Nat /\ e \in Nat /\ Len(zip) = e + 1 /\ Len(z) \in Nat /\ e + 1 <= Len(z)
  <2>1. N \in Nat
    BY DEF IsPacked
  <2> QED
    BY <2>1 DEF IsPacked, HasJunk
<1>2. z[e + 1] = EndRecord(N, e - at[1], at[1])
  BY <1>1 DEF IsPacked, HasJunk
<1>3. ASSUME NEW i \in 1 .. Len(z), i # e + 1 PROVE z[i].sig # "end"
  <2>1. CASE i \in 1 .. e
    <3>1. zip[i] \in MemberCell(V) \cup HeaderCell(V)
      BY <2>1 DEF IsPacked
    <3>2. zip[i].sig # "end"
      BY <3>1, Signatures
    <3>3. z[i] = zip[i] \/ z[i] = Junk
      BY <1>1, <2>1 DEF HasJunk
    <3> QED
      BY <3>2, <3>3, Signatures
  <2>2. CASE i \in e + 2 .. Len(z)
    <3>1. z[i] = Junk
      BY <1>1, <2>2 DEF HasJunk
    <3> QED
      BY <3>1, Signatures
  <2> QED
    BY <1>1, <1>3, <2>1, <2>2
<1>4. z[e + 1].sig = "end"
  BY <1>2, Signatures
<1> HIDE DEF e, N
<1>5. \A k \in 0 .. Len(z) - 1 : HasSignature(z, k, "end") <=> k = e
  <2> TAKE k \in 0 .. Len(z) - 1
  <2>1. k + 1 \in 1 .. Len(z) /\ k < Len(z) /\ (k + 1 = e + 1 <=> k = e)
    BY <1>1
  <2> QED
    BY <1>3, <1>4, <2>1 DEF HasSignature
<1>6. EndsAt(z) = {e}
  <2>1. e \in 0 .. Len(z) - 1
    BY <1>1
  <2> QED
    BY <1>5, <2>1 DEF EndsAt
<1>7. EndOf(z) = e
  <2>1. \A k \in {e} : (\A other \in {e} : other <= k) <=> k = e
    BY <1>1
  <2> QED
    BY <1>1, <1>6, <2>1 DEF EndOf
<1>8. Len(zip) - 1 = e
  BY <1>1
<1> QED
  BY <1>2, <1>6, <1>7, <1>8 DEF e, N

\* The first n of some headers.
LEMMA FirstOnes ==
  ASSUME NEW S, NEW H \in Seq(S), NEW n \in 0 .. Len(H)
  PROVE  /\ SubSeq(H, 1, n) \in Seq(S) /\ Len(SubSeq(H, 1, n)) = n
         /\ n = Len(H) => SubSeq(H, 1, n) = H
         /\ n = 0 => SubSeq(H, 1, n) = <<>>
         /\ n > 0 => Append(SubSeq(H, 1, n - 1), H[n]) = SubSeq(H, 1, n)
<1>1. SubSeq(H, 1, n) \in Seq(S) /\ Len(SubSeq(H, 1, n)) = n
  OBVIOUS
<1>2. ASSUME n = Len(H) PROVE SubSeq(H, 1, n) = H
  BY <1>2
<1>3. ASSUME n = 0 PROVE SubSeq(H, 1, n) = <<>>
  BY <1>3
<1>4. ASSUME n > 0 PROVE Append(SubSeq(H, 1, n - 1), H[n]) = SubSeq(H, 1, n)
  BY <1>4
<1> QED
  BY <1>1, <1>2, <1>3, <1>4

\* The headers up to the first that has become junk.
LEMMA DirectoryIsRead ==
  ASSUME NEW V, NEW zip, NEW H, NEW at, NEW z, IsPacked(zip, H, at, V), HasJunk(z, zip)
  PROVE  /\ \E K \in 0 .. Len(H) : Directory(z) = SubSeq(H, 1, K)
         /\ (\A i \in 1 .. Len(H) : z[at[i] + 1] = H[i]) => Directory(z) = H
<1> DEFINE N == Len(H)
           E == EndOf(z)
           S == HeaderRecord(V)
           T == {k \in 0 .. N : k = N \/ z[at[k + 1] + 1] # H[k + 1]}
<1>1. /\ N \in Nat /\ H \in Seq(S) /\ E = at[N + 1] /\ Len(z) \in Nat /\ E < Len(z)
      /\ E \in Nat /\ at[1] \in Nat
      /\ z[E + 1] = EndRecord(N, at[N + 1] - at[1], at[1])
      /\ \A i \in 1 .. N : /\ at[i] \in Nat /\ at[i] < E /\ at[i + 1] = at[i] + 1 + H[i].extra
                           /\ z[at[i] + 1] = H[i] \/ z[at[i] + 1] = Junk
  <2>1. N \in Nat /\ H \in Seq(S) /\ at \in [1 .. N + 1 -> Nat] /\ Len(zip) = at[N + 1] + 1
    BY DEF IsPacked
  <2>2. \A i \in 1 .. N : /\ at[i] < at[N + 1] /\ at[i + 1] = at[i] + 1 + H[i].extra
                          /\ zip[at[i] + 1] = H[i]
    BY DEF IsPacked
  <2>3. E = Len(zip) - 1 /\ z[E + 1] = EndRecord(N, at[N + 1] - at[1], at[1])
    BY EndIsFound
  <2> HIDE DEF E, S, N
  <2>4. at[N + 1] \in Nat /\ at[1] \in Nat /\ \A i \in 1 .. N : at[i] \in Nat
    BY <2>1
  <2>5. E = at[N + 1] /\ E \in Nat /\ Len(z) \in Nat /\ E < Len(z)
    BY <2>1, <2>3, <2>4 DEF HasJunk
  <2>6. ASSUME NEW i \in 1 .. N
        PROVE  at[i] \in Nat /\ at[i] < E /\ (z[at[i] + 1] = H[i] \/ z[at[i] + 1] = Junk)
    <3>1. at[i] \in Nat /\ at[i] < E
      BY <2>2, <2>4, <2>5
    <3>2. at[i] + 1 \in 1 .. Len(zip) - 1
      BY <2>1, <2>4, <2>5, <3>1
    <3> QED
      BY <2>2, <3>1, <3>2 DEF HasJunk
  <2> QED
    BY <2>1, <2>2, <2>3, <2>4, <2>5, <2>6
<1>2. PICK K \in T : \A k \in T : K <= k
  <2>1. T \subseteq Nat /\ N \in T
    BY <1>1
  <2> HIDE DEF T
  <2> QED
    BY <2>1, LeastNatural
<1>3. K \in 0 .. N /\ (K < N => z[at[K + 1] + 1] = Junk)
  BY <1>1, <1>2
<1>4. ASSUME NEW i \in 1 .. K PROVE z[at[i] + 1] = H[i]
  <2>1. i - 1 \in 0 .. N /\ i - 1 # N /\ ~(K <= i - 1) /\ (i - 1) + 1 = i
    BY <1>1, <1>3
  <2>2. i - 1 \notin T
    BY <1>2, <2>1
  <2> QED
    BY <2>1, <2>2
<1>5. ASSUME \A i \in 1 .. N : z[at[i] + 1] = H[i] PROVE K = N
  <2>1. K < N => K + 1 \in 1 .. N
    BY <1>1, <1>3
  <2> QED
    BY <1>1, <1>2, <1>5, <2>1
<1> DEFINE Then(so) ==
             LET header == z[so.at + 1]
             IN  IF so.at < E /\ HasSignature(z, so.at, "central")
                 THEN [at |-> so.at + 1 + header.extra, headers |-> Append(so.headers, header)]
                 ELSE so
           first == [at |-> at[1], headers |-> <<>>]
           IsRead(f) == f = [n \in 0 .. N |-> IF n = 0 THEN first ELSE Then(f[n - 1])]
           upTo(n) == IF n <= K THEN n ELSE K
           So(n) == [at |-> at[upTo(n) + 1], headers |-> SubSeq(H, 1, upTo(n))]
           g == [n \in 0 .. N |-> So(n)]
<1>6. Directory(z) = (CHOOSE f : IsRead(f))[N].headers
  <2>1. z[E + 1].entries = N /\ z[E + 1].offset = at[1]
    BY <1>1, Signatures
  <2> QED
    BY <2>1 DEF Directory
<1>7. So(0) = first
  <2>1. upTo(0) = 0 /\ 0 \in 0 .. Len(H)
    BY <1>1, <1>3
  <2>2. SubSeq(H, 1, 0) = <<>>
    BY <1>1, <2>1, FirstOnes
  <2> QED
    BY <2>1, <2>2
<1>8. ASSUME NEW n \in 1 .. N PROVE So(n) = Then(So(n - 1))
  <2>1. CASE n <= K
    <3>1. upTo(n) = n /\ upTo(n - 1) = n - 1 /\ n \in 1 .. K /\ (n - 1) + 1 = n
      BY <1>1, <1>3, <2>1
    <3>2. So(n) = [at |-> at[n + 1], headers |-> SubSeq(H, 1, n)]
      BY <3>1
    <3>3. So(n - 1) = [at |-> at[n], headers |-> SubSeq(H, 1, n - 1)]
      BY <3>1
    <3>4. z[at[n] + 1] = H[n] /\ H[n] \in S
      BY <1>1, <1>4, <3>1
    <3>5. HasSignature(z, at[n], "central") /\ at[n] < E
      <4>1. H[n].sig = "central"
        BY <3>4, Signatures
      <4>2. at[n] \in Nat /\ at[n] < E /\ E < Len(z) /\ E \in Nat /\ Len(z) \in Nat
        <5> HIDE DEF E, S
        <5> QED
          BY <1>1
      <4> HIDE DEF E
      <4>3. at[n] < Len(z)
        BY <4>2
      <4> QED
        BY <3>4, <4>1, <4>2, <4>3 DEF HasSignature
    <3>6. at[n + 1] = at[n] + 1 + H[n].extra /\ Append(SubSeq(H, 1, n - 1), H[n]) = SubSeq(H, 1, n)
      <4>1. n \in 0 .. Len(H) /\ n > 0
        BY <1>1
      <4>2. Append(SubSeq(H, 1, n - 1), H[n]) = SubSeq(H, 1, n)
        <5>1. H \in Seq(S)
          BY <1>1
        <5> HIDE DEF S
        <5> QED
          BY <4>1, <5>1, FirstOnes
      <4>3. at[n + 1] = at[n] + 1 + H[n].extra
        <5> HIDE DEF E, S
        <5> QED
          BY <1>1
      <4> QED
        BY <4>2, <4>3
    <3> DEFINE so == [at |-> at[n], headers |-> SubSeq(H, 1, n - 1)]
    <3>7. so.at = at[n] /\ so.headers = SubSeq(H, 1, n - 1)
      OBVIOUS
    <3> HIDE DEF so, So, E
    <3>8. Then(so) = [at |-> at[n + 1], headers |-> SubSeq(H, 1, n)]
      BY <3>4, <3>5, <3>6, <3>7
    <3> HIDE DEF Then
    <3> QED
      BY <3>2, <3>3, <3>8 DEF so
  <2>2. CASE ~(n <= K)
    <3>1. upTo(n) = K /\ upTo(n - 1) = K /\ K < N
      BY <1>1, <1>3, <2>2
    <3>2. So(n) = [at |-> at[K + 1], headers |-> SubSeq(H, 1, K)]
      BY <3>1
    <3>3. So(n - 1) = [at |-> at[K + 1], headers |-> SubSeq(H, 1, K)]
      BY <3>1
    <3>4. ~HasSignature(z, at[K + 1], "central")
      BY <1>3, <3>1, Signatures DEF HasSignature
    <3> DEFINE so == [at |-> at[K + 1], headers |-> SubSeq(H, 1, K)]
    <3>5. so.at = at[K + 1]
      OBVIOUS
    <3> HIDE DEF so, So, E
    <3>6. Then(so) = so
      BY <3>4, <3>5
    <3> HIDE DEF Then
    <3> QED
      BY <3>2, <3>3, <3>6 DEF so
  <2> QED
    BY <2>1, <2>2
<1> HIDE DEF So, Then, first, N, E, S, T
<1>9. IsRead(g)
  <2> DEFINE h == [n \in 0 .. N |-> IF n = 0 THEN first ELSE Then(g[n - 1])]
  <2>1. \A n \in 0 .. N : g[n] = IF n = 0 THEN first ELSE Then(g[n - 1])
    <3> TAKE n \in 0 .. N
    <3>1. CASE n = 0
      BY <1>7, <3>1
    <3>2. CASE n # 0
      <4>1. n \in 1 .. N /\ n - 1 \in 0 .. N
        BY <1>1, <3>2
      <4>2. g[n] = So(n) /\ g[n - 1] = So(n - 1)
        BY <4>1
      <4> QED
        BY <1>8, <3>2, <4>1, <4>2
    <3> QED
      BY <3>1, <3>2
  <2>2. g = [n \in 0 .. N |-> g[n]]
    OBVIOUS
  <2> HIDE DEF g
  <2>3. g = h
    BY <2>1, <2>2
  <2> QED
    BY <2>3
<1>10. ASSUME NEW f, IsRead(f) PROVE f[N] = So(N)
  <2>1. \A n \in 0 .. N : f[n] = IF n = 0 THEN first ELSE Then(f[n - 1])
    BY <1>10, Zenon
  <2> DEFINE U == {n \in 0 .. N : f[n] = So(n)}
  <2>2. 0 \in U
    BY <1>1, <1>7, <2>1
  <2>3. \A n \in 0 .. N - 1 : n \in U => n + 1 \in U
    <3> TAKE n \in 0 .. N - 1
    <3> HAVE n \in U
    <3>1. n + 1 \in 1 .. N /\ n + 1 \in 0 .. N /\ (n + 1) - 1 = n /\ n + 1 # 0
      BY <1>1
    <3>2. f[n + 1] = Then(f[n]) /\ So(n + 1) = Then(So(n))
      BY <1>8, <2>1, <3>1
    <3> QED
      BY <3>1, <3>2
  <2>4. \A n \in 0 .. N : n \in U
    <3> HIDE DEF U
    <3> QED
      BY <1>1, <2>2, <2>3, AllUpTo
  <2> QED
    BY <1>1, <2>4
<1>11. Directory(z) = SubSeq(H, 1, K)
  <2> HIDE DEF IsRead, g
  <2>1. IsRead(CHOOSE f : IsRead(f))
    BY <1>9
  <2>2. Directory(z) = So(N).headers
    BY <1>6, <1>10, <2>1
  <2>3. upTo(N) = K
    BY <1>1, <1>3
  <2> QED
    BY <2>2, <2>3 DEF So
<1>12. K = N => SubSeq(H, 1, K) = H
  <2>1. K \in 0 .. Len(H)
    BY <1>3 DEF N
  <2> QED
    BY <1>1, <2>1, FirstOnes DEF N
<1> QED
  BY <1>3, <1>5, <1>11, <1>12 DEF N

-----------------------------------------------------------------------------
(***************************************************************************)
(* The tree that is read                                                   *)
(***************************************************************************)

FolderPaths(entries) == {entries[i].path : i \in DOMAIN entries \ FilesIn(entries)}

FilePaths(entries) == {entries[i].path : i \in FilesIn(entries)}

\* A tree with the files and folders of some entries and nothing else.
IsTreeOf(tree, entries) ==
  /\ tree = [files |-> tree.files, folders |-> tree.folders]
  /\ tree.files = [p \in FilePaths(entries) |-> tree.files[p]]
  /\ \A i \in FilesIn(entries) : tree.files[entries[i].path] = entries[i].contents
  /\ tree.folders = FolderPaths(entries) \cup (UNION {Parents(p) : p \in FolderPaths(entries)})
                      \cup (UNION {Parents(p) : p \in FilePaths(entries)})

\* The headers of a packed zip repeat the entries.
LEMMA HeadersRepeat ==
  ASSUME NEW V, NEW entries \in Seq(Entry(V)), NEW layout \in Layout
  PROVE  LET H == Headers(entries, layout)
         IN  /\ DOMAIN H = DOMAIN entries /\ Len(H) = Len(entries)
             /\ \A i \in DOMAIN entries : /\ H[i].path = entries[i].path
                                         /\ H[i].isFolder = entries[i].isFolder
                                         /\ H[i].crc = entries[i].contents
             /\ FilesIn(H) = FilesIn(entries)
             /\ FilePaths(H) = FilePaths(entries) /\ FolderPaths(H) = FolderPaths(entries)
<1> DEFINE H == Headers(entries, layout)
           N == Len(entries)
<1>1. N \in Nat /\ DOMAIN entries = 1 .. N
  OBVIOUS
<1>2. H = [i \in 1 .. N |-> Header(entries[i], layout, MemberAt(entries, layout, i))]
  BY DEF Headers
<1>3. DOMAIN H = DOMAIN entries /\ Len(H) = N
  <2> HIDE DEF H
  <2> QED
    BY <1>1, <1>2
<1>4. \A i \in DOMAIN entries : /\ H[i].path = entries[i].path
                               /\ H[i].isFolder = entries[i].isFolder
                               /\ H[i].crc = entries[i].contents
  <2> HIDE DEF H, N
  <2> QED
    BY <1>1, <1>2 DEF Header
<1> HIDE DEF H
<1>5. FilesIn(H) = FilesIn(entries)
  BY <1>3, <1>4 DEF FilesIn
<1>6. FilePaths(H) = FilePaths(entries) /\ FolderPaths(H) = FolderPaths(entries)
  BY <1>3, <1>4, <1>5 DEF FilePaths, FolderPaths, FilesIn
<1> QED
  BY <1>3, <1>4, <1>5, <1>6 DEF H

\* What is read has the contents the check sums are of.
LEMMA TreeIsHeld ==
  ASSUME NEW V, NEW entries \in Seq(Entry(V)), NEW layout \in Layout,
         NEW z, IsCariZip(z), Directory(z) = Headers(entries, layout)
  PROVE  IsTreeOf(ReadZip(z), entries)
<1> DEFINE H == Headers(entries, layout)
           files == FilesIn(H)
           folders == FolderPaths(H)
           holder(path) == H[CHOOSE i \in files : H[i].path = path]
           contents == [path \in FilePaths(H) |-> Unpacked(z, holder(path))]
           held == folders \cup UNION {Parents(p) : p \in folders}
<1>1. ReadZip(z) = AddFiles([files |-> <<>>, folders |-> held], contents)
  BY DEF ReadZip, TreeIn, FilePaths, FolderPaths
<1>2. /\ FilesIn(H) = FilesIn(entries) /\ FilePaths(H) = FilePaths(entries)
      /\ FolderPaths(H) = FolderPaths(entries)
      /\ \A i \in FilesIn(entries) : H[i].path = entries[i].path /\ H[i].crc = entries[i].contents
  <2>1. FilesIn(entries) \subseteq DOMAIN entries
    BY DEF FilesIn
  <2> QED
    BY <2>1, HeadersRepeat
<1>3. /\ \A i \in files : Unpacked(z, H[i]) = H[i].crc
      /\ \A i, j \in files : H[i].path = H[j].path => i = j
  <2>1. FilesAreFine(z, H)
    BY DEF IsCariZip, EntriesAreFine
  <2> HIDE DEF H
  <2> QED
    BY <2>1 DEF FilesAreFine, FileIsFine
<1>4. ASSUME NEW i \in files PROVE H[i].path \in FilePaths(H) /\ contents[H[i].path] = H[i].crc
  <2> HIDE DEF H
  <2>1. H[i].path \in FilePaths(H)
    BY DEF FilePaths
  <2>2. (CHOOSE j \in files : H[j].path = H[i].path) = i
    BY <1>3
  <2> HIDE DEF files
  <2>3. contents[H[i].path] = Unpacked(z, H[i])
    BY <2>1, <2>2
  <2> HIDE DEF contents
  <2> QED
    BY <1>3, <2>1, <2>3
<1> HIDE DEF H, files, folders, holder
<1>5. /\ contents = [path \in FilePaths(H) |-> contents[path]] /\ DOMAIN contents = FilePaths(H)
  OBVIOUS
<1> HIDE DEF contents, held
<1> DEFINE t == ReadZip(z)
           all == [p \in DOMAIN contents \cup DOMAIN <<>> |->
                     IF p \in DOMAIN contents THEN contents[p] ELSE <<>>[p]]
<1>6. t = [files |-> all, folders |-> held \cup UNION {Parents(p) : p \in DOMAIN contents}]
  BY <1>1 DEF AddFiles
<1>7. all = contents
  <2>1. DOMAIN <<>> = {}
    OBVIOUS
  <2>2. DOMAIN contents \cup DOMAIN <<>> = FilePaths(H)
    BY <1>5, <2>1
  <2>3. all = [p \in FilePaths(H) |-> contents[p]]
    BY <1>5, <2>2
  <2> QED
    BY <1>5, <2>3
<1> HIDE DEF t, all
<1>8. t.files = contents /\ t.folders = held \cup UNION {Parents(p) : p \in FilePaths(H)}
      /\ t = [files |-> t.files, folders |-> t.folders]
  BY <1>5, <1>6, <1>7
<1>9. \A i \in FilesIn(entries) : t.files[entries[i].path] = entries[i].contents
  BY <1>2, <1>4, <1>8 DEF files
<1>10. t.folders = FolderPaths(entries) \cup (UNION {Parents(p) : p \in FolderPaths(entries)})
                     \cup (UNION {Parents(p) : p \in FilePaths(entries)})
  BY <1>2, <1>8 DEF held, folders
<1>11. t.files = [p \in FilePaths(entries) |-> t.files[p]]
  BY <1>2, <1>5, <1>8
<1>12. IsTreeOf(t, entries)
  BY <1>8, <1>9, <1>10, <1>11 DEF IsTreeOf
<1> QED
  BY <1>12 DEF t

-----------------------------------------------------------------------------
(***************************************************************************)
(* Damage                                                                  *)
(***************************************************************************)

\* Junk in a zip that is taken stands where nothing is read.
LEMMA JunkIsNoticed ==
  ASSUME NEW V, NEW entries \in Seq(Entry(V)), NEW layout \in Layout,
         NEW z, HasJunk(z, Pack(entries, layout)), IsCariZip(z)
  PROVE  IsTreeOf(ReadZip(z), entries)
<1> DEFINE H == Headers(entries, layout)
           at == HeaderPlaces(entries, layout)
           zip == Pack(entries, layout)
<1>1. IsPacked(zip, H, at, V)
  BY PackIsPacked
<1>2. Len(Directory(z)) = z[EndOf(z) + 1].entries
  BY DEF IsCariZip, EntriesAreFine
<1>3. H \in Seq(HeaderRecord(V))
  <2> HIDE DEF H, at, zip
  <2> QED
    BY <1>1 DEF IsPacked
<1> HIDE DEF H, at, zip
<1>4. z[EndOf(z) + 1] = EndRecord(Len(H), at[Len(H) + 1] - at[1], at[1])
  BY <1>1, EndIsFound DEF zip
<1>5. z[EndOf(z) + 1].entries = Len(H)
  BY <1>4, Signatures
<1>6. PICK K \in 0 .. Len(H) : Directory(z) = SubSeq(H, 1, K)
  BY <1>1, DirectoryIsRead DEF zip
<1>7. Len(SubSeq(H, 1, K)) = K /\ (K = Len(H) => SubSeq(H, 1, K) = H)
  BY <1>3, FirstOnes
<1>8. Directory(z) = H
  BY <1>2, <1>5, <1>6, <1>7
<1> QED
  BY <1>8, TreeIsHeld DEF H

\* A zip without the record that ends it is refused.
LEMMA NoEnd ==
  ASSUME NEW z, NEW l \in Nat, Len(z) = l, \A i \in 1 .. l : z[i].sig # "end"
  PROVE  ~IsCariZip(z)
<1>1. \A k \in 0 .. l - 1 : k + 1 \in 1 .. l
  OBVIOUS
<1>2. EndsAt(z) = {}
  BY <1>1 DEF EndsAt, HasSignature
<1> QED
  BY <1>2 DEF IsCariZip

\* A sequence without one of its elements.
LEMMA Removed ==
  ASSUME NEW S, NEW s \in Seq(S), NEW l \in Nat, Len(s) = l, NEW n \in 1 .. l
  PROVE  /\ Len(RemoveAt(s, n)) = l - 1
         /\ \A i \in 1 .. n - 1 : RemoveAt(s, n)[i] = s[i]
         /\ \A i \in n .. l - 1 : RemoveAt(s, n)[i] = s[i + 1]
<1> DEFINE front == SubSeq(s, 1, n - 1)
           back == SubSeq(s, n + 1, l)
           z == front \o back
<1>1. front \in Seq(S) /\ Len(front) = n - 1 /\ \A i \in 1 .. n - 1 : front[i] = s[i]
  OBVIOUS
<1>2. back \in Seq(S) /\ Len(back) = l - n /\ \A i \in 1 .. l - n : back[i] = s[n + i]
  OBVIOUS
<1>3. RemoveAt(s, n) = z
  BY DEF RemoveAt
<1> HIDE DEF front, back
<1>4. /\ Len(z) = Len(front) + Len(back)
      /\ \A i \in 1 .. Len(front) : z[i] = front[i]
      /\ \A i \in 1 .. Len(back) : z[Len(front) + i] = back[i]
  <2>1. front \in Seq(S) /\ back \in Seq(S)
    BY <1>1, <1>2
  <2> QED
    BY <2>1, PutTogether
<1> HIDE DEF z
<1>5. Len(z) = l - 1 /\ \A i \in 1 .. n - 1 : z[i] = s[i]
  BY <1>1, <1>2, <1>4
<1>6. ASSUME NEW i \in n .. l - 1 PROVE z[i] = s[i + 1]
  <2>1. PICK j \in 1 .. l - n : j = i - (n - 1)
    OBVIOUS
  <2>2. (n - 1) + j = i /\ n + j = i + 1
    BY <2>1
  <2>3. z[(n - 1) + j] = s[n + j]
    BY <1>1, <1>2, <1>4
  <2> QED
    BY <2>2, <2>3
<1> QED
  BY <1>3, <1>5, <1>6

\* Only the last of l cells ends the zip, and the directory is said to be right before it.
EndsIn(zip, l) ==
  /\ zip \in Seq(Range(zip)) /\ Len(zip) = l
  /\ \A i \in 1 .. l - 1 : zip[i].sig # "end"
  /\ zip[l].sig = "end" /\ zip[l].offset + zip[l].size = l - 1

\* With a cell lost, the directory does not fit any more.
LEMMA LossIsNoticed ==
  ASSUME NEW zip, NEW l \in Nat, l > 0, EndsIn(zip, l), NEW n \in 1 .. l
  PROVE  ~IsCariZip(RemoveAt(zip, n))
<1> DEFINE z == RemoveAt(zip, n)
<1>1. /\ Len(z) = l - 1
      /\ \A i \in 1 .. n - 1 : z[i] = zip[i]
      /\ \A i \in n .. l - 1 : z[i] = zip[i + 1]
  <2> DEFINE S == Range(zip)
  <2>1. zip \in Seq(S) /\ Len(zip) = l
    BY DEF EndsIn
  <2> HIDE DEF S
  <2> QED
    BY <2>1, Removed
<1> HIDE DEF z
<1>2. ASSUME NEW i \in 1 .. l - 1, i # l - 1 \/ n = l PROVE z[i].sig # "end"
  <2>1. CASE i < n
    <3>1. i \in 1 .. n - 1 /\ i \in 1 .. l - 1
      BY <2>1
    <3> QED
      BY <1>1, <3>1 DEF EndsIn
  <2>2. CASE i >= n
    <3>1. i \in n .. l - 1 /\ i + 1 \in 1 .. l - 1
      BY <1>2, <2>2
    <3> QED
      BY <1>1, <3>1 DEF EndsIn
  <2> QED
    BY <2>1, <2>2
<1>3. CASE n = l
  <2>1. l - 1 \in Nat
    OBVIOUS
  <2> QED
    BY <1>1, <1>2, <1>3, <2>1, NoEnd DEF z
<1>4. CASE n < l
  <2>1. z[l - 1] = zip[l]
    <3>1. l - 1 \in n .. l - 1 /\ (l - 1) + 1 = l
      BY <1>4
    <3> QED
      BY <1>1, <3>1
  <2>2. \A k \in 0 .. (l - 1) - 1 : HasSignature(z, k, "end") <=> k = l - 2
    <3> TAKE k \in 0 .. (l - 1) - 1
    <3>1. PICK i \in 1 .. l - 1 : i = k + 1
      OBVIOUS
    <3>2. i = l - 1 <=> k = l - 2
      BY <3>1
    <3>3. k < l - 1
      OBVIOUS
    <3>4. z[i].sig = "end" <=> i = l - 1
      BY <1>2, <2>1 DEF EndsIn
    <3> QED
      BY <1>1, <3>1, <3>2, <3>3, <3>4 DEF HasSignature
  <2>3. EndsAt(z) = {l - 2}
    <3>1. l - 2 \in 0 .. (l - 1) - 1
      BY <1>4
    <3>2. EndsAt(z) = {k \in 0 .. (l - 1) - 1 : HasSignature(z, k, "end")}
      BY <1>1 DEF EndsAt
    <3> QED
      BY <2>2, <3>1, <3>2
  <2>4. EndOf(z) = l - 2
    <3>1. l - 2 <= l - 2
      OBVIOUS
    <3> QED
      BY <2>3, <3>1 DEF EndOf
  <2>5. EndOf(z) + 1 = l - 1
    BY <2>4
  <2>6. IsCariZip(z) => zip[l].offset + zip[l].size <= l - 2
    BY <2>1, <2>4, <2>5 DEF IsCariZip, DirectoryFits
  <2>7. IsCariZip(z) => l - 1 <= l - 2
    BY <2>6 DEF EndsIn
  <2> QED
    BY <2>7 DEF z
<1> QED
  BY <1>3, <1>4

\* A packed zip ends in its last cell.
LEMMA PackEndsIn ==
  ASSUME NEW V, NEW entries \in Seq(Entry(V)), NEW layout \in Layout
  PROVE  \E l \in Nat : l > 0 /\ EndsIn(Pack(entries, layout), l)
<1> DEFINE zip == Pack(entries, layout)
           H == Headers(entries, layout)
           at == HeaderPlaces(entries, layout)
           N == Len(H)
<1>1. IsPacked(zip, H, at, V)
  BY PackIsPacked
<1> HIDE DEF zip, H, at
<1>2. /\ H \in Seq(HeaderRecord(V)) /\ at \in [1 .. N + 1 -> Nat] /\ Len(zip) = at[N + 1] + 1
      /\ zip \in Seq(Cell(V)) /\ at[1] <= at[N + 1]
      /\ zip[Len(zip)] = EndRecord(N, at[N + 1] - at[1], at[1])
  BY <1>1 DEF IsPacked
<1>3. N \in Nat
  BY <1>2
<1>4. PICK e \in Nat : e = at[N + 1]
  BY <1>2, <1>3
<1>5. PICK f \in Nat : f = at[1]
  BY <1>2, <1>3
<1>6. zip[e + 1] = EndRecord(N, e - f, f) /\ Len(zip) = e + 1 /\ f <= e
  BY <1>2, <1>4, <1>5
<1>7. zip[e + 1].sig = "end" /\ zip[e + 1].offset + zip[e + 1].size = e
  <2>1. zip[e + 1].sig = "end" /\ zip[e + 1].offset = f /\ zip[e + 1].size = e - f
    BY <1>6, Signatures
  <2>2. f + (e - f) = e
    OBVIOUS
  <2> QED
    BY <2>1, <2>2
<1>8. \A i \in 1 .. e : zip[i].sig # "end"
  <2> TAKE i \in 1 .. e
  <2>1. zip[i] \in MemberCell(V) \cup HeaderCell(V)
    BY <1>1, <1>4 DEF IsPacked
  <2> QED
    BY <2>1, Signatures
<1>9. zip \in Seq(Range(zip))
  <2>1. Len(zip) \in Nat /\ zip \in [1 .. Len(zip) -> Cell(V)]
    BY <1>2
  <2>2. \A i \in 1 .. Len(zip) : zip[i] \in Range(zip)
    BY <2>1 DEF Range
  <2> DEFINE R == Range(zip)
  <2> HIDE DEF R
  <2>3. zip \in [1 .. Len(zip) -> R]
    BY <2>1, <2>2 DEF R
  <2>4. zip \in Seq(R)
    BY <2>1, <2>3
  <2> QED
    BY <2>4 DEF R
<1>10. e + 1 \in Nat /\ e + 1 > 0 /\ (e + 1) - 1 = e
  OBVIOUS
<1>11. EndsIn(zip, e + 1)
  BY <1>6, <1>7, <1>8, <1>9, <1>10 DEF EndsIn
<1> QED
  BY <1>10, <1>11 DEF zip

\* However a zip was damaged on its way, ReadZip refuses it or reads from it what was
\* packed: no entry gets lost, and none is read with other contents.
THEOREM DamagedZipsAreRefusedOrWhole ==
  ASSUME NEW V, NEW entries \in Seq(Entry(V)), NEW layout \in Layout,
         NEW z \in Damaged(Pack(entries, layout))
  PROVE  ReadZip(z) = Refused \/ IsTreeOf(ReadZip(z), entries)
<1> SUFFICES ASSUME IsCariZip(z) PROVE IsTreeOf(ReadZip(z), entries)
  BY DEF ReadZip
<1> DEFINE zip == Pack(entries, layout)
<1>1. PICK l \in Nat : l > 0 /\ EndsIn(zip, l)
  BY PackEndsIn
<1>2. HasJunk(z, zip) => IsTreeOf(ReadZip(z), entries)
  BY JunkIsNoticed
<1> HIDE DEF zip
<1> DEFINE S == Range(zip)
<1>3. zip \in Seq(S) /\ Len(zip) = l /\ DOMAIN zip = 1 .. l
  BY <1>1 DEF EndsIn
<1>4. \A i \in 1 .. l - 1 : zip[i].sig # "end"
  BY <1>1 DEF EndsIn
<1> HIDE DEF S
<1>5. ASSUME NEW n \in 0 .. l - 1, z = SubSeq(zip, 1, n) PROVE FALSE
  <2>1. n \in Nat /\ Len(z) = n /\ \A i \in 1 .. n : z[i] = zip[i] /\ i \in 1 .. l - 1
    BY <1>3, <1>5
  <2> QED
    BY <1>4, <2>1, NoEnd
<1>6. ASSUME NEW n \in 1 .. l, z = RemoveAt(zip, n) PROVE FALSE
  BY <1>1, <1>6, LossIsNoticed
<1>7. ASSUME NEW n \in 1 .. l, z = [zip EXCEPT ![n] = Junk] PROVE HasJunk(z, zip)
  <2>1. Len(z) = l /\ \A i \in 1 .. l : z[i] = IF i = n THEN Junk ELSE zip[i]
    BY <1>3, <1>7
  <2>2. n # l
    <3> SUFFICES ASSUME n = l PROVE FALSE
      OBVIOUS
    <3>1. \A i \in 1 .. l : i = l \/ i \in 1 .. l - 1
      OBVIOUS
    <3>2. \A i \in 1 .. l : z[i].sig # "end"
      BY <1>4, <2>1, <3>1, Signatures
    <3> QED
      BY <2>1, <3>2, NoEnd
  <2>3. \A i \in 1 .. l - 1 : z[i] = zip[i] \/ z[i] = Junk
    BY <2>1
  <2>4. z[l] = zip[l]
    BY <1>1, <2>1, <2>2
  <2>5. \A i \in l + 1 .. l : z[i] = Junk
    OBVIOUS
  <2> QED
    BY <1>3, <2>1, <2>3, <2>4, <2>5 DEF HasJunk
<1>8. z # <<Junk>> \o zip
  <2> SUFFICES ASSUME z = <<Junk>> \o zip PROVE FALSE
    OBVIOUS
  <2>1. z[1] = Junk
    BY <1>3
  <2>2. ~HasSignature(z, 0, "local")
    <3>1. z[0 + 1] = Junk /\ Junk.sig # "local"
      BY <2>1 DEF Junk
    <3> QED
      BY <3>1 DEF HasSignature
  <2> QED
    BY <2>2 DEF IsCariZip
<1>9. ASSUME z = Append(zip, Junk) PROVE HasJunk(z, zip)
  <2>1. Len(z) = l + 1 /\ z[l + 1] = Junk /\ \A i \in 1 .. l : z[i] = zip[i]
    BY <1>3, <1>9
  <2>2. \A i \in l + 1 .. l + 1 : z[i] = Junk
    BY <2>1
  <2>3. z[l] = zip[l] /\ \A i \in 1 .. l - 1 : z[i] = zip[i]
    BY <1>1, <2>1
  <2> QED
    BY <1>3, <2>1, <2>2, <2>3 DEF HasJunk
<1>10. \/ \E n \in 0 .. l - 1 : z = SubSeq(zip, 1, n)
       \/ \E n \in 1 .. l : z = RemoveAt(zip, n)
       \/ \E n \in 1 .. l : z = [zip EXCEPT ![n] = Junk]
       \/ z = <<Junk>> \o zip
       \/ z = Append(zip, Junk)
  BY <1>3, Zenon DEF Damaged, zip
<1> QED
  BY <1>2, <1>5, <1>6, <1>7, <1>8, <1>9, <1>10

-----------------------------------------------------------------------------
(***************************************************************************)
(* A zip that arrives whole                                                *)
(***************************************************************************)

\* The cells of a member, in the zip.
LEMMA MemberInZip ==
  ASSUME NEW V, NEW entries \in Seq(Entry(V)), NEW layout \in Layout, NEW i \in 1 .. Len(entries)
  PROVE  LET m == Member(entries[i], layout)
             zip == Pack(entries, layout)
             o == MemberAt(entries, layout, i)
         IN  /\ o \in Nat /\ Len(m) \in Nat /\ Len(zip) \in Nat /\ o + Len(m) < Len(zip)
             /\ \A j \in 1 .. Len(m) : zip[o + j] = m[j]
<1> DEFINE m == Member(entries[i], layout)
           zip == Pack(entries, layout)
           o == MemberAt(entries, layout, i)
           a == MembersUpTo(entries, layout, Len(entries))
           b == DirectoryUpTo(entries, layout, Len(entries))
<1>1. /\ o \in Nat /\ o + Len(m) <= Len(a)
      /\ \A j \in 1 .. Len(m) : a[o + j] = m[j]
  BY MembersStay
<1>2. /\ a \in Seq(MemberCell(V)) /\ b \in Seq(HeaderCell(V))
      /\ Len(zip) = Len(a) + Len(b) + 1
      /\ \A j \in 1 .. Len(a) : zip[j] = a[j]
  BY PackCells
<1>3. m \in Seq(MemberCell(V))
  <2>1. entries[i] \in Entry(V)
    OBVIOUS
  <2> QED
    BY <2>1, MemberCells
<1> HIDE DEF m, zip, o, a, b
<1>4. Len(m) \in Nat /\ Len(a) \in Nat /\ Len(b) \in Nat
  BY <1>2, <1>3
<1>5. Len(zip) \in Nat /\ o + Len(m) < Len(zip)
  BY <1>1, <1>2, <1>4
<1>6. ASSUME NEW j \in 1 .. Len(m) PROVE zip[o + j] = m[j]
  <2>1. o + j \in 1 .. Len(a)
    BY <1>1, <1>4
  <2> QED
    BY <1>1, <1>2, <2>1
<1> QED
  BY <1>1, <1>4, <1>5, <1>6 DEF m, zip, o

\* A file's header leads to its body.
LEMMA BodyIsRead ==
  ASSUME NEW V, NEW entries \in Seq(Entry(V)), NEW layout \in Layout, NEW i \in 1 .. Len(entries)
  PROVE  LET zip == Pack(entries, layout)
             h == Headers(entries, layout)[i]
         IN  /\ HasSignature(zip, h.offset, "local")
             /\ DataAt(zip, h) + h.csize <= Len(zip)
             /\ CellsOf(zip, h) = Body(entries[i], layout.method)
<1> DEFINE e == entries[i]
           m == Member(e, layout)
           zip == Pack(entries, layout)
           h == Headers(entries, layout)[i]
           body == Body(e, layout.method)
<1>1. e \in Entry(V)
  OBVIOUS
<1>2. body \in Seq(MemberCell(V))
  <2>1. layout.method \in {"store", "deflate"}
    BY DEF Layout
  <2> DEFINE method == layout.method
  <2> HIDE DEF method, e
  <2>2. Body(e, method) \in Seq(MemberCell(V))
    BY <1>1, <2>1, BodyCells DEF method
  <2> QED
    BY <2>2 DEF method
<1>3. PICK x \in Nat : x = layout.extra
  BY DEF Layout
<1>4. PICK k \in Nat : k = layout.descriptor
  BY DEF Layout
<1>5. PICK l \in Nat : l = Len(body)
  BY <1>2
<1>6. PICK o \in Nat : o = MemberAt(entries, layout, i)
  BY MemberInZip
<1>7. PICK size \in Nat : size = Len(zip)
  BY MemberInZip
<1>8. h.offset = o /\ h.csize = l
  BY <1>5, <1>6 DEF Headers, Header
<1>9. /\ Len(m) = 1 + x + l + k /\ m[1] = [sig |-> "local", extra |-> x]
      /\ \A j \in 1 .. l : m[1 + x + j] = body[j]
  <2> HIDE DEF e
  <2>1. /\ Len(m) = 1 + layout.extra + Len(body) + layout.descriptor
        /\ m[1] = [sig |-> "local", extra |-> layout.extra]
        /\ \A j \in 1 .. Len(body) : m[1 + layout.extra + j] = body[j]
    BY <1>1, MemberCells, SMTT(30)
  <2> HIDE DEF m, body
  <2> QED
    BY <1>3, <1>4, <1>5, <2>1
<1>10. o + Len(m) < size /\ \A j \in 1 .. Len(m) : zip[o + j] = m[j]
  BY <1>6, <1>7, MemberInZip
<1> HIDE DEF e, m, zip, h, body
<1>11. zip[o + 1] = [sig |-> "local", extra |-> x] /\ o < size
  <2>1. 1 \in 1 .. Len(m)
    BY <1>9
  <2> QED
    BY <1>9, <1>10, <2>1
<1>12. HasSignature(zip, h.offset, "local")
  BY <1>7, <1>8, <1>11 DEF HasSignature
<1>13. DataAt(zip, h) = o + 1 + x
  BY <1>8, <1>11 DEF DataAt
<1>14. PICK d \in Nat : d = o + 1 + x
  OBVIOUS
<1>15. d + l <= size
  BY <1>9, <1>10, <1>14
<1>16. \A j \in 1 .. l : zip[d + j] = body[j]
  <2> TAKE j \in 1 .. l
  <2>1. PICK n \in Nat : n = 1 + x + j
    OBVIOUS
  <2>2. n \in 1 .. Len(m) /\ o + n = d + j
    BY <1>9, <1>14, <2>1
  <2> QED
    BY <1>9, <1>10, <2>1, <2>2
<1>17. SubSeq(zip, d + 1, d + l) = body
  <2> DEFINE c == SubSeq(zip, d + 1, d + l)
  <2>1. zip \in Seq(Cell(V)) /\ Len(zip) = size
    BY <1>7, PackCells DEF zip
  <2>2. c \in Seq(Cell(V)) /\ Len(c) = l /\ \A j \in 1 .. l : c[j] = zip[d + j]
    BY <1>15, <2>1
  <2> HIDE DEF c
  <2>3. MemberCell(V) \subseteq Cell(V)
    BY DEF Cell
  <2>4. body \in Seq(Cell(V))
    BY <1>2, <2>3, SeqMonotonic
  <2>5. c = body
    BY <1>5, <1>16, <2>2, <2>4, SeqEqual
  <2> QED
    BY <2>5 DEF c
<1>18. CellsOf(zip, h) = body
  BY <1>8, <1>13, <1>14, <1>17 DEF CellsOf
<1>19. DataAt(zip, h) + h.csize <= Len(zip)
  BY <1>7, <1>8, <1>13, <1>14, <1>15
<1> QED
  BY <1>12, <1>18, <1>19 DEF zip, h, body, e

\* A packed file unpacks to its contents.
LEMMA PackedFilesAreFine ==
  ASSUME NEW V, NEW entries \in Seq(Entry(V)), NEW layout \in Layout, NEW i \in 1 .. Len(entries),
         ~entries[i].isFolder
  PROVE  FileIsFine(Pack(entries, layout), Headers(entries, layout)[i])
<1> DEFINE zip == Pack(entries, layout)
           h == Headers(entries, layout)[i]
           e == entries[i]
           method == layout.method
           body == Body(e, method)
<1>1. e \in Entry(V) /\ method \in {"store", "deflate"}
  BY DEF Layout
<1>2. /\ HasSignature(zip, h.offset, "local") /\ DataAt(zip, h) + h.csize <= Len(zip)
      /\ CellsOf(zip, h) = body
  BY BodyIsRead
<1>3. /\ h.method = method /\ h.csize = Len(body) /\ h.usize = Len(e.contents)
      /\ h.crc = e.contents
  BY DEF Headers, Header
<1>4. e.contents \in Seq(V)
  BY <1>1 DEF Entry
<1> HIDE DEF zip, h, method
<1>5. /\ body \in Seq(MemberCell(V))
      /\ Len(body) = IF method = "deflate" THEN 1 ELSE Len(e.contents)
      /\ method = "deflate" => body[1] = [sig |-> "deflated", is |-> e.contents]
      /\ method = "store" => \A j \in 1 .. Len(e.contents) : body[j] = [sig |-> "data", is |-> e.contents[j]]
  <2>1. ~e.isFolder
    OBVIOUS
  <2> HIDE DEF e
  <2> QED
    BY <1>1, <2>1, BodyCells
<1> HIDE DEF e, body
<1>6. CASE method = "store"
  <2>1. Len(body) = Len(e.contents) /\ DOMAIN body = 1 .. Len(e.contents)
    BY <1>4, <1>5, <1>6
  <2> DEFINE octets == [j \in DOMAIN body |-> IF body[j].sig = "data" THEN body[j].is ELSE Noise]
             s == e.contents
  <2>2. Octets(body) = octets
    BY DEF Octets
  <2>3. ASSUME NEW j \in 1 .. Len(s) PROVE octets[j] = s[j]
    <3>1. body[j] = [sig |-> "data", is |-> s[j]]
      BY <1>5, <1>6
    <3>2. j \in DOMAIN body
      BY <2>1
    <3> HIDE DEF s
    <3>3. body[j].sig = "data" /\ body[j].is = s[j]
      BY <3>1
    <3> QED
      BY <3>2, <3>3
  <2>4. octets = [j \in 1 .. Len(s) |-> octets[j]] /\ s = [j \in 1 .. Len(s) |-> s[j]]
    BY <1>4, <2>1
  <2> HIDE DEF octets, s
  <2>5. octets = s
    BY <2>3, <2>4
  <2>6. Unpacked(zip, h) = h.crc
    BY <1>2, <1>3, <1>6, <2>2, <2>5 DEF Unpacked, s
  <2>7. h.csize = h.usize /\ h.method = "store"
    BY <1>3, <1>6, <2>1
  <2> QED
    BY <1>2, <2>6, <2>7 DEF FileIsFine, zip, h
<1>7. CASE method = "deflate"
  <2>1. Len(body) = 1 /\ body[1].sig = "deflated" /\ body[1].is = e.contents
    BY <1>5, <1>7
  <2>2. Inflates(CellsOf(zip, h), h.usize)
    BY <1>2, <1>3, <2>1 DEF Inflates
  <2>3. Unpacked(zip, h) = h.crc
    BY <1>2, <1>3, <1>7, <2>1 DEF Unpacked
  <2> QED
    BY <1>2, <1>3, <1>7, <2>2, <2>3 DEF FileIsFine, zip, h
<1> QED
  BY <1>1, <1>6, <1>7

\* Within the limits, for paths that are safe and files that are listed once.
IsAllowed(entries, layout) ==
  /\ entries # <<>> /\ Len(entries) <= MAX_ENTRIES
  /\ Len(Pack(entries, layout)) <= MAX_ZIP_BYTES
  /\ TotalSize(Headers(entries, layout))[Len(entries)] <= MAX_TOTAL_UNCOMPRESSED
  /\ \A i \in DOMAIN entries : IsSafeZipPath(entries[i].path)
  /\ \A i, j \in FilesIn(entries) : entries[i].path = entries[j].path => i = j

\* The files and folders of a zip that arrives whole are all read, whatever tool packed
\* it and in whatever order: ReadZip refuses none that is within its limits.
THEOREM WholeZipsAreRead ==
  ASSUME NEW V, NEW entries \in Seq(Entry(V)), NEW layout \in Layout, IsAllowed(entries, layout)
  PROVE  IsTreeOf(ReadZip(Pack(entries, layout)), entries)
<1> DEFINE zip == Pack(entries, layout)
           H == Headers(entries, layout)
           at == HeaderPlaces(entries, layout)
<1>1. IsPacked(zip, H, at, V)
  BY PackIsPacked
<1>2. PICK N \in Nat : N = Len(entries) /\ DOMAIN entries = 1 .. N /\ N > 0
  BY DEF IsAllowed
<1>3. /\ DOMAIN H = DOMAIN entries /\ Len(H) = N /\ FilesIn(H) = FilesIn(entries)
      /\ \A i \in DOMAIN entries : H[i].path = entries[i].path
  BY <1>2, HeadersRepeat
<1>4. \A i \in 1 .. N : ~H[i].encrypted /\ H[i].method \in {"store", "deflate"}
  <2> TAKE i \in 1 .. N
  <2>1. H[i] = Header(entries[i], layout, MemberAt(entries, layout, i))
    BY <1>2 DEF Headers
  <2>2. layout.method \in {"store", "deflate"}
    BY DEF Layout
  <2> HIDE DEF H
  <2> QED
    BY <2>1, <2>2 DEF Header
<1>5. \A i \in FilesIn(H) : FileIsFine(zip, H[i])
  <2> TAKE i \in FilesIn(H)
  <2>1. i \in 1 .. Len(entries) /\ ~entries[i].isFolder
    BY <1>2, <1>3 DEF FilesIn
  <2> QED
    BY <2>1, PackedFilesAreFine
<1>6. HasSignature(zip, 0, "local")
  <2>1. 1 \in 1 .. Len(entries) /\ entries[1] \in Entry(V)
    BY <1>2
  <2>2. MemberAt(entries, layout, 1) = 0
    <3>1. MembersUpTo(entries, layout, 0) = <<>>
      BY WrittenGrows
    <3> QED
      BY <3>1 DEF MemberAt
  <2> DEFINE m == Member(entries[1], layout)
             o == MemberAt(entries, layout, 1)
  <2>3. /\ o \in Nat /\ Len(m) \in Nat /\ Len(zip) \in Nat /\ o + Len(m) < Len(zip)
        /\ \A j \in 1 .. Len(m) : zip[o + j] = m[j]
    BY <2>1, MemberInZip
  <2>4. 1 \in 1 .. Len(m) /\ m[1].sig = "local"
    <3>1. /\ Len(m) = 1 + layout.extra + Len(Body(entries[1], layout.method)) + layout.descriptor
          /\ m[1] = [sig |-> "local", extra |-> layout.extra]
      BY <2>1, MemberCells, SMTT(30)
    <3>2. Body(entries[1], layout.method) \in Seq(MemberCell(V))
      <4> DEFINE method == layout.method
      <4>1. method \in {"store", "deflate"}
        BY DEF Layout
      <4> HIDE DEF method
      <4>2. Body(entries[1], method) \in Seq(MemberCell(V))
        BY <2>1, <4>1, BodyCells
      <4> QED
        BY <4>2 DEF method
    <3>3. PICK l \in Nat : l = Len(Body(entries[1], layout.method))
      BY <3>2
    <3>4. PICK x \in Nat : x = layout.extra
      BY DEF Layout
    <3>5. PICK k \in Nat : k = layout.descriptor
      BY DEF Layout
    <3> HIDE DEF m
    <3>6. Len(m) = 1 + x + l + k
      BY <3>1, <3>3, <3>4, <3>5
    <3> QED
      BY <3>1, <3>6
  <2> HIDE DEF m, o, zip
  <2>5. zip[0 + 1] = m[1] /\ 0 < Len(zip)
    <3>1. o = 0
      BY <2>2 DEF o
    <3> QED
      BY <2>3, <2>4, <3>1
  <2> QED
    BY <2>4, <2>5 DEF HasSignature
<1> HIDE DEF zip, H, at
<1>7. HasJunk(zip, zip)
  <2>1. zip \in Seq(Cell(V))
    BY <1>1 DEF IsPacked
  <2>2. PICK l \in Nat : l = Len(zip)
    BY <2>1
  <2>3. \A i \in l + 1 .. l : zip[i] = Junk
    OBVIOUS
  <2> QED
    BY <2>2, <2>3 DEF HasJunk
<1>8. /\ EndsAt(zip) = {Len(zip) - 1} /\ EndOf(zip) = Len(zip) - 1
      /\ zip[EndOf(zip) + 1] = EndRecord(N, at[N + 1] - at[1], at[1])
  BY <1>1, <1>3, <1>7, EndIsFound
<1>9. Directory(zip) = H
  <2>1. \A i \in 1 .. Len(H) : zip[at[i] + 1] = H[i]
    BY <1>1 DEF IsPacked
  <2> QED
    BY <1>1, <1>7, <2>1, DirectoryIsRead
<1> DEFINE end == zip[EndOf(zip) + 1]
<1>10. end.here = N /\ end.entries = N /\ end.size = at[N + 1] - at[1] /\ end.offset = at[1]
  BY <1>8, Signatures
<1>11. DirectoryFits(zip)
  <2>1. at \in [1 .. N + 1 -> Nat] /\ Len(zip) = at[N + 1] + 1
    BY <1>1, <1>3 DEF IsPacked
  <2>2. PICK e \in Nat : e = at[N + 1]
    BY <1>2, <2>1
  <2>3. PICK f \in Nat : f = at[1]
    BY <1>2, <2>1
  <2>4. EndOf(zip) = e /\ f + (e - f) = e
    BY <1>8, <2>1, <2>2
  <2>5. end.offset + end.size = EndOf(zip)
    BY <1>10, <2>2, <2>3, <2>4
  <2>6. EndOf(zip) <= EndOf(zip)
    BY <2>4
  <2>7. N <= MAX_ENTRIES
    BY <1>2 DEF IsAllowed
  <2> HIDE DEF end
  <2>8. /\ end.here = end.entries /\ end.entries <= MAX_ENTRIES /\ end.offset + end.size <= EndOf(zip)
    BY <1>10, <2>5, <2>6, <2>7
  <2> QED
    BY <2>8 DEF DirectoryFits, end
<1>12. FilesAreFine(zip, H)
  <2>1. TotalSize(H)[Len(H)] <= MAX_TOTAL_UNCOMPRESSED
    BY <1>2, <1>3 DEF IsAllowed, H
  <2>2. FilesIn(entries) \subseteq DOMAIN entries
    BY DEF FilesIn
  <2>3. \A i, j \in FilesIn(H) : H[i].path = H[j].path => i = j
    BY <1>3, <2>2 DEF IsAllowed
  <2> QED
    BY <1>5, <2>1, <2>3 DEF FilesAreFine
<1>13. EntriesAreFine(zip)
  <2>1. Len(H) = end.entries
    BY <1>3, <1>10
  <2>2. \A i \in DOMAIN H : IsSafeZipPath(H[i].path)
    BY <1>3 DEF IsAllowed
  <2>3. \A i \in DOMAIN H : ~H[i].encrypted /\ H[i].method \in {"store", "deflate"}
    BY <1>2, <1>3, <1>4
  <2> QED
    BY <1>9, <1>12, <2>1, <2>2, <2>3 DEF EntriesAreFine
<1>14. IsCariZip(zip)
  <2>1. EndsAt(zip) # {}
    BY <1>8
  <2>2. Len(zip) <= MAX_ZIP_BYTES
    BY DEF IsAllowed, zip
  <2> QED
    BY <1>6, <1>11, <1>13, <2>1, <2>2 DEF IsCariZip
<1> QED
  BY <1>9, <1>14, TreeIsHeld DEF zip, H

-----------------------------------------------------------------------------
(***************************************************************************)
(* The limits                                                              *)
(***************************************************************************)

\* A function that grows by at most c with each step.
LEMMA GrowsBy ==
  ASSUME NEW N \in Nat, NEW c \in Nat, NEW f \in [0 .. N -> Nat], f[0] = 0,
         \A n \in 1 .. N : f[n] <= f[n - 1] + c
  PROVE  f[N] <= N * c
<1> DEFINE T == {n \in 0 .. N : f[n] <= n * c}
<1>1. 0 \in T
  <2>1. 0 * c = 0
    OBVIOUS
  <2> QED
    BY <2>1
<1>2. \A n \in 0 .. N - 1 : n \in T => n + 1 \in T
  <2> TAKE n \in 0 .. N - 1
  <2> HAVE n \in T
  <2>1. n + 1 \in 1 .. N /\ (n + 1) - 1 = n /\ n \in 0 .. N /\ n + 1 \in 0 .. N
    OBVIOUS
  <2>2. PICK p \in Nat : p = n * c
    OBVIOUS
  <2>3. (n + 1) * c = p + c
    BY <2>2
  <2>4. PICK a \in Nat : a = f[n]
    BY <2>1
  <2>5. PICK b \in Nat : b = f[n + 1]
    BY <2>1
  <2>6. a <= p /\ b <= a + c
    BY <2>1, <2>2, <2>4, <2>5
  <2>7. b <= p + c
    BY <2>6
  <2> QED
    BY <2>1, <2>3, <2>5, <2>7
<1>3. \A n \in 0 .. N : n \in T
  <2> HIDE DEF T
  <2> QED
    BY <1>1, <1>2, AllUpTo
<1> QED
  BY <1>3

\* How TotalSize adds up.
LEMMA TotalSizeUnfolds ==
  ASSUME NEW V, NEW H \in Seq(HeaderRecord(V))
  PROVE  /\ TotalSize(H) \in [0 .. Len(H) -> Nat] /\ TotalSize(H)[0] = 0
         /\ \A n \in 1 .. Len(H) :
              TotalSize(H)[n] = TotalSize(H)[n - 1] + IF H[n].isFolder THEN 0 ELSE H[n].usize
<1> DEFINE size(n) == IF H[n].isFolder THEN 0 ELSE H[n].usize
           IsTotal(f, N) == f = [n \in 0 .. N |-> IF n = 0 THEN 0 ELSE f[n - 1] + size(n)]
           t == TotalSize(H)
<1>1. PICK N \in Nat : N = Len(H)
  OBVIOUS
<1>2. \A n \in 1 .. N : size(n) \in Nat
  <2> TAKE n \in 1 .. N
  <2>1. H[n] \in HeaderRecord(V)
    BY <1>1
  <2> QED
    BY <2>1 DEF HeaderRecord
<1>3. t = CHOOSE f : IsTotal(f, N)
  BY <1>1 DEF TotalSize
<1> HIDE DEF size, t
<1>4. \E f : IsTotal(f, N)
  <2> DEFINE step == [x \in Nat \X (1 .. N) |-> x[1] + size(x[2])]
  <2>1. step \in [Nat \X (1 .. N) -> Nat]
    BY <1>2
  <2>2. \A m \in Nat : \A n \in 1 .. N : step[<<m, n>>] = m + size(n)
    OBVIOUS
  <2> HIDE DEF step
  <2>3. PICK f : IsRun(f, N, Nat, 0, step)
    BY <2>1, Recursion
  <2>4. f \in [0 .. N -> Nat] /\ f[0] = 0 /\ \A k \in 1 .. N : f[k] = step[<<f[k - 1], k>>]
    BY <2>3 DEF IsRun
  <2>5. \A n \in 0 .. N : f[n] = IF n = 0 THEN 0 ELSE f[n - 1] + size(n)
    <3> TAKE n \in 0 .. N
    <3>1. n # 0 => n \in 1 .. N /\ n - 1 \in 0 .. N
      OBVIOUS
    <3>2. n # 0 => f[n - 1] \in Nat
      BY <2>4, <3>1
    <3>3. n # 0 => f[n] = f[n - 1] + size(n)
      BY <2>2, <2>4, <3>1, <3>2
    <3> QED
      BY <2>4, <3>3
  <2>6. f = [n \in 0 .. N |-> f[n]]
    BY <2>4
  <2>7. f = [n \in 0 .. N |-> IF n = 0 THEN 0 ELSE f[n - 1] + size(n)]
    BY <2>5, <2>6
  <2> QED
    BY <2>7
<1>5. IsTotal(t, N)
  <2> HIDE DEF IsTotal
  <2> QED
    BY <1>3, <1>4
<1>6. \A n \in 0 .. N : t[n] = IF n = 0 THEN 0 ELSE t[n - 1] + size(n)
  BY <1>5, Zenon
<1>7. t[0] = 0 /\ \A n \in 1 .. N : t[n] = t[n - 1] + size(n)
  <2>1. 0 \in 0 .. N /\ \A n \in 1 .. N : n \in 0 .. N /\ n # 0
    OBVIOUS
  <2> QED
    BY <1>6, <2>1
<1>8. \A n \in 0 .. N : t[n] \in Nat
  <2> DEFINE T == {n \in 0 .. N : t[n] \in Nat}
  <2>1. 0 \in T
    BY <1>7
  <2>2. \A n \in 0 .. N - 1 : n \in T => n + 1 \in T
    <3> TAKE n \in 0 .. N - 1
    <3> HAVE n \in T
    <3>1. n + 1 \in 1 .. N /\ (n + 1) - 1 = n /\ n + 1 \in 0 .. N
      OBVIOUS
    <3>2. t[n + 1] = t[n] + size(n + 1) /\ size(n + 1) \in Nat
      BY <1>2, <1>7, <3>1
    <3> QED
      BY <3>1, <3>2
  <2>3. \A n \in 0 .. N : n \in T
    <3> HIDE DEF T
    <3> QED
      BY <2>1, <2>2, AllUpTo
  <2> QED
    BY <2>3
<1>9. t = [n \in 0 .. N |-> t[n]]
  <2>1. t = [n \in 0 .. N |-> IF n = 0 THEN 0 ELSE t[n - 1] + size(n)]
    BY <1>5
  <2> QED
    BY <2>1
<1>10. t \in [0 .. N -> Nat]
  BY <1>8, <1>9
<1> QED
  BY <1>1, <1>7, <1>10 DEF t, size

\* The length of a member with one piece, and of a member with its header.
LEMMA MemberLengths ==
  ASSUME NEW x \in Nat, NEW k \in Nat, NEW N \in Nat
  PROVE  /\ \A a, l \in Nat : l <= 1 => a + (1 + x + l + k) <= a + (2 + x + k)
         /\ N * (3 + 2 * x + k) = N * (2 + x + k) + N * (1 + x)
  OBVIOUS

\* A zip of files with one piece each.
LEMMA SmallZips ==
  ASSUME NEW V, NEW entries \in Seq(Entry(V)), NEW layout \in Layout, 
         \A i \in DOMAIN entries : Len(entries[i].contents) <= 1
  PROVE  /\ Len(Pack(entries, layout)) <= Len(entries) * (3 + 2 * layout.extra + layout.descriptor) + 1
         /\ TotalSize(Headers(entries, layout))[Len(entries)] \in Nat
         /\ TotalSize(Headers(entries, layout))[Len(entries)] <= Len(entries)
<1>a. PICK N \in Nat : N = Len(entries) /\ DOMAIN entries = 1 .. N
  OBVIOUS
<1>b. PICK x \in Nat : x = layout.extra
  BY DEF Layout
<1>c. PICK k \in Nat : k = layout.descriptor
  BY DEF Layout
<1> DEFINE ml == [n \in 0 .. N |-> Len(MembersUpTo(entries, layout, n))]
           dl == [n \in 0 .. N |-> Len(DirectoryUpTo(entries, layout, n))]
           H == Headers(entries, layout)
           t == TotalSize(H)
<1>1. \A i \in 1 .. N : /\ entries[i] \in Entry(V)
                        /\ Len(entries[i].contents) \in Nat /\ Len(entries[i].contents) <= 1
  <2> TAKE i \in 1 .. N
  <2>1. entries[i] \in Entry(V)
    BY <1>a
  <2>2. entries[i].contents \in Seq(V)
    BY <2>1 DEF Entry
  <2> QED
    BY <1>a, <2>1, <2>2
<1>2. ml \in [0 .. N -> Nat] /\ ml[0] = 0 /\ dl \in [0 .. N -> Nat] /\ dl[0] = 0
  <2>1. \A n \in 0 .. N : /\ MembersUpTo(entries, layout, n) \in Seq(MemberCell(V))
                          /\ DirectoryUpTo(entries, layout, n) \in Seq(HeaderCell(V))
    BY <1>a, WrittenGrows
  <2>2. MembersUpTo(entries, layout, 0) = <<>> /\ DirectoryUpTo(entries, layout, 0) = <<>>
    BY WrittenGrows
  <2>3. \A n \in 0 .. N : /\ Len(MembersUpTo(entries, layout, n)) \in Nat
                          /\ Len(DirectoryUpTo(entries, layout, n)) \in Nat
    BY <2>1
  <2>4. Len(MembersUpTo(entries, layout, 0)) = 0 /\ Len(DirectoryUpTo(entries, layout, 0)) = 0
    BY <2>2
  <2> QED
    BY <2>3, <2>4
<1>3. \A n \in 1 .. N : ml[n] <= ml[n - 1] + (2 + x + k)
  <2> TAKE n \in 1 .. N
  <2> DEFINE m == Member(entries[n], layout)
             body == Body(entries[n], layout.method)
  <2>1. MemberAt(entries, layout, n + 1) = MemberAt(entries, layout, n) + Len(m)
    BY <1>a, MembersStay
  <2>2. n \in 0 .. N /\ n - 1 \in 0 .. N /\ (n + 1) - 1 = n
    OBVIOUS
  <2>3. ml[n] = ml[n - 1] + Len(m)
    BY <2>1, <2>2 DEF MemberAt
  <2>4. Len(m) = 1 + layout.extra + Len(body) + layout.descriptor
    <3>1. PICK e \in Entry(V) : e = entries[n]
      BY <1>1
    <3>2. /\ Len(Member(e, layout)) = 1 + layout.extra + Len(Body(e, layout.method)) + layout.descriptor
          /\ Member(e, layout)[1] = [sig |-> "local", extra |-> layout.extra]
      BY MemberCells, SMTT(30)
    <3> QED
      BY <3>1, <3>2
  <2>5. PICK l \in Nat : l = Len(body) /\ l <= 1
    <3> DEFINE method == layout.method
    <3>1. method \in {"store", "deflate"}
      BY DEF Layout
    <3> HIDE DEF method
    <3>2. /\ Body(entries[n], method) \in Seq(MemberCell(V))
          /\ Len(Body(entries[n], method)) =
               IF entries[n].isFolder THEN 0 ELSE IF method = "deflate" THEN 1 ELSE Len(entries[n].contents)
      BY <1>1, <3>1, BodyCells
    <3>3. PICK c \in Nat : c = Len(entries[n].contents) /\ c <= 1
      BY <1>1
    <3> QED
      BY <3>2, <3>3 DEF method
  <2> HIDE DEF m, body
  <2>6. PICK a \in Nat : a = ml[n - 1]
    BY <1>2, <2>2
  <2>7. Len(m) = 1 + x + l + k
    BY <1>b, <1>c, <2>4, <2>5
  <2>8. ml[n] = a + (1 + x + l + k)
    BY <2>3, <2>6, <2>7
  <2>9. a + (1 + x + l + k) <= a + (2 + x + k)
    BY <2>5, MemberLengths
  <2> HIDE DEF ml
  <2> QED
    BY <2>6, <2>8, <2>9
<1>4. \A n \in 1 .. N : dl[n] <= dl[n - 1] + (1 + x)
  <2> TAKE n \in 1 .. N
  <2>1. n \in 0 .. N /\ n - 1 \in 0 .. N
    OBVIOUS
  <2>2. Len(DirectoryUpTo(entries, layout, n)) = Len(DirectoryUpTo(entries, layout, n - 1)) + 1 + layout.extra
    BY <1>a, HeadersStay
  <2>3. PICK a \in Nat : a = dl[n - 1]
    BY <1>2, <2>1
  <2>4. dl[n] = a + 1 + x
    BY <1>b, <2>1, <2>2, <2>3
  <2> HIDE DEF dl
  <2> QED
    BY <2>3, <2>4
<1>5. ml[N] <= N * (2 + x + k)
  <2>1. PICK c \in Nat : c = 2 + x + k
    OBVIOUS
  <2> HIDE DEF ml
  <2> QED
    BY <1>2, <1>3, <2>1, GrowsBy
<1>6. dl[N] <= N * (1 + x)
  <2>1. PICK c \in Nat : c = 1 + x
    OBVIOUS
  <2> HIDE DEF dl
  <2> QED
    BY <1>2, <1>4, <2>1, GrowsBy
<1>7. Len(Pack(entries, layout)) = ml[N] + dl[N] + 1
  <2>1. ml[N] = Len(MembersUpTo(entries, layout, N)) /\ dl[N] = Len(DirectoryUpTo(entries, layout, N))
    OBVIOUS
  <2> HIDE DEF ml, dl
  <2> QED
    BY <1>a, <2>1, PackCells
<1>8. Len(Pack(entries, layout)) <= N * (3 + 2 * x + k) + 1
  <2>1. PICK a \in Nat : a = ml[N]
    BY <1>2
  <2>2. PICK b \in Nat : b = dl[N]
    BY <1>2
  <2>3. PICK p \in Nat : p = N * (2 + x + k)
    OBVIOUS
  <2>4. PICK q \in Nat : q = N * (1 + x)
    OBVIOUS
  <2>5. N * (3 + 2 * x + k) = p + q
    BY <2>3, <2>4, MemberLengths
  <2> HIDE DEF ml, dl
  <2>6. a <= p /\ b <= q
    BY <1>5, <1>6, <2>1, <2>2, <2>3, <2>4
  <2>7. a + b + 1 <= p + q + 1
    BY <2>6
  <2> QED
    BY <1>7, <2>1, <2>2, <2>5, <2>7
<1>9. H \in Seq(HeaderRecord(V)) /\ Len(H) = N
  <2>1. \A i \in 1 .. N : H[i] \in HeaderRecord(V)
    BY <1>a, HeadersStay
  <2>2. H = [i \in 1 .. N |-> H[i]]
    BY <1>a DEF Headers
  <2> HIDE DEF H
  <2> QED
    BY <2>1, <2>2
<1>10. t \in [0 .. N -> Nat] /\ t[0] = 0 /\ \A n \in 1 .. N : t[n] <= t[n - 1] + 1
  <2>1. \A n \in 1 .. N : H[n].usize = Len(entries[n].contents)
    BY <1>a DEF Headers, Header
  <2> HIDE DEF H
  <2>2. /\ t \in [0 .. N -> Nat] /\ t[0] = 0
        /\ \A n \in 1 .. N : t[n] = t[n - 1] + IF H[n].isFolder THEN 0 ELSE H[n].usize
    BY <1>9, TotalSizeUnfolds
  <2> HIDE DEF t
  <2>3. ASSUME NEW n \in 1 .. N PROVE t[n] <= t[n - 1] + 1
    <3>1. n - 1 \in 0 .. N
      OBVIOUS
    <3>2. PICK a \in Nat : a = t[n - 1]
      BY <2>2, <3>1
    <3>3. PICK c \in Nat : c = H[n].usize /\ c <= 1
      BY <1>1, <2>1
    <3>4. t[n] = a \/ t[n] = a + c
      <4>1. t[n] = a + IF H[n].isFolder THEN 0 ELSE c
        BY <2>2, <3>2, <3>3
      <4>2. a + 0 = a
        OBVIOUS
      <4> QED
        BY <4>1, <4>2
    <3> QED
      BY <3>2, <3>3, <3>4
  <2> QED
    BY <2>2, <2>3
<1>11. t[N] \in Nat /\ t[N] <= N
  <2> HIDE DEF t
  <2>3. N \in 0 .. N
    OBVIOUS
  <2>4. t[N] \in Nat
    BY <1>10, <2>3
  <2>1. t[N] <= N * 1
    BY <1>10, GrowsBy
  <2>2. N * 1 = N
    OBVIOUS
  <2> QED
    BY <2>1, <2>2, <2>4
<1> QED
  BY <1>a, <1>b, <1>c, <1>8, <1>11

-----------------------------------------------------------------------------
(***************************************************************************)
(* Trees and the entries they are packed as                                *)
(***************************************************************************)

\* The entries are these files, each once, and these folders.
Lists(entries, files, folders, V) ==
  /\ entries \in Seq(Entry(V))
  /\ FilePaths(entries) = DOMAIN files /\ FolderPaths(entries) = folders
  /\ \A i \in FilesIn(entries) : entries[i].contents = files[entries[i].path]
  /\ \A i \in DOMAIN entries \ FilesIn(entries) : entries[i].contents = <<>>
  /\ \A i, j \in FilesIn(entries) : entries[i].path = entries[j].path => i = j

\* A tree that can be packed: finitely many files and folders.
IsTree(tree, V) ==
  /\ DOMAIN tree.files \in SUBSET Path /\ IsFiniteSet(DOMAIN tree.files)
  /\ \A p \in DOMAIN tree.files : tree.files[p] \in Seq(V)
  /\ tree.folders \in SUBSET Path /\ IsFiniteSet(tree.folders)

LEMMA FileEntriesList ==
  ASSUME NEW V, NEW tree, IsTree(tree, V)
  PROVE  /\ Lists(FileEntries(tree), tree.files, {}, V)
         /\ Len(FileEntries(tree)) = Cardinality(DOMAIN tree.files)
<1> DEFINE S == DOMAIN tree.files
           o == InOrder(S)
           entry(p) == [path |-> p, isFolder |-> FALSE, contents |-> tree.files[p]]
           es == FileEntries(tree)
<1>1. S \in SUBSET Path /\ IsFiniteSet(S)
  BY DEF IsTree
<1>2. /\ Cardinality(S) \in Nat /\ o \in [1 .. Cardinality(S) -> S]
      /\ \A p \in S : \E i \in 1 .. Cardinality(S) : o[i] = p
      /\ \A i, j \in 1 .. Cardinality(S) : o[i] = o[j] => i = j
  <2> HIDE DEF S
  <2> QED
    BY <1>1, InOrderEnumerates
<1>3. PICK n \in Nat : n = Cardinality(S)
  BY <1>2
<1>4. es = [i \in 1 .. n |-> entry(o[i])]
  BY <1>2, <1>3 DEF FileEntries
<1>5. \A p \in S : entry(p) \in Entry(V)
  BY DEF IsTree, Entry
<1>6. \A p \in S : entry(p).path = p /\ entry(p).isFolder = FALSE /\ entry(p).contents = tree.files[p]
  OBVIOUS
<1> HIDE DEF S, o, entry, es
<1>7. \A i \in 1 .. n : o[i] \in S /\ es[i] = entry(o[i])
  BY <1>2, <1>3, <1>4
<1>8. es \in Seq(Entry(V)) /\ Len(es) = n /\ DOMAIN es = 1 .. n
  <2>1. \A i \in 1 .. n : entry(o[i]) \in Entry(V)
    BY <1>5, <1>7
  <2>2. es \in [1 .. n -> Entry(V)]
    BY <1>4, <2>1
  <2> QED
    BY <2>2
<1>9. \A i \in 1 .. n : /\ es[i].path = o[i] /\ ~es[i].isFolder /\ es[i].contents = tree.files[o[i]]
                       /\ o[i] \in S
  BY <1>6, <1>7
<1>10. FilesIn(es) = 1 .. n /\ DOMAIN es \ FilesIn(es) = {}
  <2>1. FilesIn(es) = 1 .. n
    BY <1>8, <1>9 DEF FilesIn
  <2> QED
    BY <1>8, <2>1
<1>11. FilePaths(es) = S /\ FolderPaths(es) = {}
  BY <1>2, <1>3, <1>9, <1>10 DEF FilePaths, FolderPaths
<1>12. \A i, j \in 1 .. n : es[i].path = es[j].path => i = j
  BY <1>2, <1>3, <1>9
<1>13. Lists(es, tree.files, {}, V)
  BY <1>8, <1>9, <1>10, <1>11, <1>12 DEF Lists, S
<1> QED
  BY <1>3, <1>8, <1>13 DEF es, S

LEMMA FolderEntriesList ==
  ASSUME NEW V, NEW tree, IsTree(tree, V)
  PROVE  /\ Lists(FolderEntries(tree), <<>>, tree.folders, V)
         /\ Len(FolderEntries(tree)) = Cardinality(tree.folders)
<1> DEFINE S == tree.folders
           o == InOrder(S)
           entry(p) == [path |-> p, isFolder |-> TRUE, contents |-> <<>>]
           es == FolderEntries(tree)
<1>1. S \in SUBSET Path /\ IsFiniteSet(S)
  BY DEF IsTree
<1>2. /\ Cardinality(S) \in Nat /\ o \in [1 .. Cardinality(S) -> S]
      /\ \A p \in S : \E i \in 1 .. Cardinality(S) : o[i] = p
  <2> HIDE DEF S
  <2> QED
    BY <1>1, InOrderEnumerates
<1>3. PICK n \in Nat : n = Cardinality(S)
  BY <1>2
<1>4. es = [i \in 1 .. n |-> entry(o[i])]
  BY <1>2, <1>3 DEF FolderEntries
<1>5. \A p \in S : entry(p) \in Entry(V)
  BY <1>1 DEF Entry
<1>6. \A p \in S : entry(p).path = p /\ entry(p).isFolder = TRUE /\ entry(p).contents = <<>>
  OBVIOUS
<1> HIDE DEF S, o, entry, es
<1>7. \A i \in 1 .. n : o[i] \in S /\ es[i] = entry(o[i])
  BY <1>2, <1>3, <1>4
<1>8. es \in Seq(Entry(V)) /\ Len(es) = n /\ DOMAIN es = 1 .. n
  <2>1. \A i \in 1 .. n : entry(o[i]) \in Entry(V)
    BY <1>5, <1>7
  <2>2. es \in [1 .. n -> Entry(V)]
    BY <1>4, <2>1
  <2> QED
    BY <2>2
<1>9. \A i \in 1 .. n : es[i].path = o[i] /\ es[i].isFolder /\ es[i].contents = <<>> /\ o[i] \in S
  BY <1>6, <1>7
<1>10. FilesIn(es) = {} /\ DOMAIN es \ FilesIn(es) = 1 .. n
  <2>1. FilesIn(es) = {}
    BY <1>8, <1>9 DEF FilesIn
  <2> QED
    BY <1>8, <2>1
<1>11. FilePaths(es) = {} /\ FolderPaths(es) = S
  BY <1>2, <1>3, <1>9, <1>10 DEF FilePaths, FolderPaths
<1>12. DOMAIN <<>> = {}
  OBVIOUS
<1>13. Lists(es, <<>>, S, V)
  BY <1>8, <1>9, <1>10, <1>11, <1>12 DEF Lists
<1> QED
  BY <1>3, <1>8, <1>13 DEF es, S

\* Files may be listed from the last to the first.
LEMMA ReverseLists ==
  ASSUME NEW V, NEW entries, NEW files, NEW folders, Lists(entries, files, folders, V)
  PROVE  Lists(Reverse(entries), files, folders, V) /\ Len(Reverse(entries)) = Len(entries)
<1> DEFINE r == Reverse(entries)
           F == FilesIn(entries)
<1>1. PICK n \in Nat : n = Len(entries) /\ DOMAIN entries = 1 .. n
  BY DEF Lists
<1>2. r = [i \in 1 .. n |-> entries[(n - i) + 1]]
  BY <1>1 DEF Reverse
<1> DEFINE other(i) == (n - i) + 1
<1>3. \A i \in 1 .. n : other(i) \in 1 .. n /\ other(other(i)) = i
  OBVIOUS
<1>4. \A i \in 1 .. n : r[i] = entries[other(i)]
  BY <1>2
<1>5. \A i \in 1 .. n : entries[i] \in Entry(V)
  BY <1>1 DEF Lists
<1>6. r \in Seq(Entry(V)) /\ Len(r) = n /\ DOMAIN r = 1 .. n
  <2>1. r \in [1 .. n -> Entry(V)]
    BY <1>2, <1>3, <1>5
  <2> HIDE DEF r
  <2> QED
    BY <2>1
<1> HIDE DEF r, other, F
<1>7. \A i \in 1 .. n : i \in FilesIn(r) <=> other(i) \in F
  BY <1>1, <1>3, <1>4, <1>6 DEF FilesIn, F
<1>8. F \subseteq 1 .. n /\ FilesIn(r) \subseteq 1 .. n
  BY <1>1, <1>6 DEF FilesIn, F
<1>9. \A i \in F : other(i) \in FilesIn(r) /\ r[other(i)] = entries[i]
  BY <1>3, <1>4, <1>7, <1>8
<1>10. \A i \in 1 .. n \ F : other(i) \in 1 .. n \ FilesIn(r) /\ r[other(i)] = entries[i]
  BY <1>3, <1>4, <1>7
<1>11. FilePaths(r) = FilePaths(entries)
  BY <1>4, <1>7, <1>8, <1>9 DEF FilePaths, F
<1>12. FolderPaths(r) = FolderPaths(entries)
  BY <1>1, <1>3, <1>4, <1>6, <1>7, <1>10 DEF FolderPaths, F
<1>13. \A i \in FilesIn(r) : r[i].contents = files[r[i].path]
  BY <1>4, <1>7, <1>8 DEF Lists, F
<1>14. \A i \in DOMAIN r \ FilesIn(r) : r[i].contents = <<>>
  BY <1>1, <1>3, <1>4, <1>6, <1>7 DEF Lists, F
<1>15. \A i, j \in FilesIn(r) : r[i].path = r[j].path => i = j
  <2> TAKE i, j \in FilesIn(r)
  <2> HAVE r[i].path = r[j].path
  <2>1. other(i) \in F /\ other(j) \in F /\ entries[other(i)].path = entries[other(j)].path
    BY <1>4, <1>7, <1>8
  <2>2. other(i) = other(j)
    BY <2>1 DEF Lists, F
  <2> QED
    BY <1>3, <1>8, <2>2
<1>16. Lists(r, files, folders, V)
  BY <1>6, <1>11, <1>12, <1>13, <1>14, <1>15 DEF Lists
<1> QED
  BY <1>1, <1>6, <1>16 DEF r

\* The entries of one sequence and of another, one behind the other.
Joins(c, a, b, da, db) ==
  /\ da \in Nat /\ db \in Nat /\ Len(c) = Len(a) + Len(b)
  /\ (da = 0 /\ db = Len(a)) \/ (da = Len(b) /\ db = 0)
  /\ \A i \in 1 .. Len(a) : c[da + i] = a[i]
  /\ \A i \in 1 .. Len(b) : c[db + i] = b[i]

\* Files before folders, or folders before files.
LEMMA ListsTogether ==
  ASSUME NEW V, NEW a, NEW b, NEW files, NEW folders,
         Lists(a, files, {}, V), Lists(b, <<>>, folders, V)
  PROVE  /\ Lists(a \o b, files, folders, V) /\ Lists(b \o a, files, folders, V)
         /\ Len(a \o b) = Len(a) + Len(b) /\ Len(b \o a) = Len(a) + Len(b)
<1>1. DOMAIN <<>> = {}
  OBVIOUS
<1>2. /\ a \in Seq(Entry(V)) /\ FilesIn(a) \subseteq DOMAIN a
      /\ b \in Seq(Entry(V)) /\ FilesIn(b) \subseteq DOMAIN b
  BY DEF Lists, FilesIn
<1>3. FilesIn(a) = DOMAIN a
  <2>1. \A i \in DOMAIN a \ FilesIn(a) : a[i].path \in FolderPaths(a)
    BY DEF FolderPaths
  <2>2. FolderPaths(a) = {}
    BY DEF Lists
  <2> QED
    BY <1>2, <2>1, <2>2
<1>4. FilesIn(b) = {}
  <2>1. \A i \in FilesIn(b) : b[i].path \in FilePaths(b)
    BY DEF FilePaths
  <2>2. FilePaths(b) = {}
    BY <1>1 DEF Lists
  <2> QED
    BY <2>1, <2>2
<1>5. PICK m \in Nat : m = Len(a) /\ DOMAIN a = 1 .. m
  BY <1>2
<1>6. PICK n \in Nat : n = Len(b) /\ DOMAIN b = 1 .. n
  BY <1>2
<1>7. \A i \in 1 .. m : ~a[i].isFolder
  BY <1>3, <1>5 DEF FilesIn
<1>8. \A i \in 1 .. n : b[i].isFolder
  <2>1. \A i \in 1 .. n : b[i].isFolder \in BOOLEAN
    <3> TAKE i \in 1 .. n
    <3>1. b[i] \in Entry(V)
      BY <1>2, <1>6
    <3> QED
      BY <3>1 DEF Entry
  <2>2. \A i \in 1 .. n : i \notin FilesIn(b)
    BY <1>4
  <2> QED
    BY <1>6, <2>1, <2>2 DEF FilesIn
<1>9. ASSUME NEW c \in Seq(Entry(V)), NEW da, NEW db, Joins(c, a, b, da, db)
      PROVE  Lists(c, files, folders, V)
  <2>0. /\ da \in Nat /\ db \in Nat /\ Len(c) = m + n
        /\ (da = 0 /\ db = m) \/ (da = n /\ db = 0)
        /\ \A i \in 1 .. m : c[da + i] = a[i]
        /\ \A i \in 1 .. n : c[db + i] = b[i]
    BY <1>5, <1>6, <1>9 DEF Joins
  <2> DEFINE A == {da + i : i \in 1 .. m}
             B == {db + i : i \in 1 .. n}
  <2>1. DOMAIN c = A \cup B
    <3>1. DOMAIN c = 1 .. m + n
      BY <2>0
    <3>2. ASSUME NEW k \in 1 .. m + n PROVE k \in A \/ k \in B
      <4>1. k - da \in 1 .. m \/ k - db \in 1 .. n
        BY <2>0
      <4>2. k = da + (k - da) /\ k = db + (k - db)
        BY <2>0
      <4> QED
        BY <4>1, <4>2
    <3>3. A \subseteq 1 .. m + n /\ B \subseteq 1 .. m + n
      BY <2>0
    <3> QED
      BY <3>1, <3>2, <3>3
  <2>2. FilesIn(c) = A
    <3>1. \A k \in A : ~c[k].isFolder
      BY <1>7, <2>0
    <3>2. \A k \in B : c[k].isFolder
      BY <1>8, <2>0
    <3> HIDE DEF A, B
    <3> QED
      BY <2>1, <3>1, <3>2 DEF FilesIn
  <2>3. DOMAIN c \ FilesIn(c) = B
    <3>1. \A k \in A : ~c[k].isFolder
      BY <1>7, <2>0
    <3>2. \A k \in B : c[k].isFolder
      BY <1>8, <2>0
    <3> HIDE DEF A, B
    <3>3. A \cap B = {}
      BY <3>1, <3>2
    <3> QED
      BY <2>1, <2>2, <3>3
  <2>4. \A i \in 1 .. m : /\ a[i].contents = files[a[i].path]
                          /\ \A j \in 1 .. m : a[i].path = a[j].path => i = j
    BY <1>3, <1>5 DEF Lists
  <2>5. \A i \in 1 .. n : b[i].contents = <<>>
    BY <1>4, <1>6 DEF Lists
  <2>6. FilePaths(c) = {a[i].path : i \in 1 .. m}
    <3>1. FilePaths(c) = {c[k].path : k \in A}
      BY <2>2 DEF FilePaths
    <3>2. \A i \in 1 .. m : da + i \in A /\ c[da + i].path = a[i].path
      BY <2>0
    <3>3. \A k \in A : \E i \in 1 .. m : k = da + i
      OBVIOUS
    <3> HIDE DEF A
    <3> QED
      BY <3>1, <3>2, <3>3
  <2>7. FilePaths(c) = DOMAIN files
    BY <1>3, <1>5, <2>6 DEF Lists, FilePaths
  <2>8. FolderPaths(c) = {b[i].path : i \in 1 .. n}
    <3>1. FolderPaths(c) = {c[k].path : k \in B}
      BY <2>3 DEF FolderPaths
    <3>2. \A i \in 1 .. n : db + i \in B /\ c[db + i].path = b[i].path
      BY <2>0
    <3>3. \A k \in B : \E i \in 1 .. n : k = db + i
      OBVIOUS
    <3> HIDE DEF B
    <3> QED
      BY <3>1, <3>2, <3>3
  <2>9. FolderPaths(c) = folders
    BY <1>4, <1>6, <2>8 DEF Lists, FolderPaths
  <2>10. \A k \in A : c[k].contents = files[c[k].path]
    <3> TAKE k \in A
    <3>1. PICK i \in 1 .. m : k = da + i
      OBVIOUS
    <3> QED
      BY <2>0, <2>4, <3>1
  <2>11. \A k \in B : c[k].contents = <<>>
    BY <2>0, <2>5
  <2>12. \A k, l \in A : c[k].path = c[l].path => k = l
    <3> TAKE k, l \in A
    <3> HAVE c[k].path = c[l].path
    <3>1. PICK i \in 1 .. m : k = da + i
      OBVIOUS
    <3>2. PICK j \in 1 .. m : l = da + j
      OBVIOUS
    <3>3. a[i].path = a[j].path
      BY <2>0, <3>1, <3>2
    <3> QED
      BY <2>4, <3>1, <3>2, <3>3
  <2> HIDE DEF A, B
  <2> QED
    BY <2>2, <2>3, <2>7, <2>9, <2>10, <2>11, <2>12 DEF Lists
<1>10. Lists(a \o b, files, folders, V)
  <2>1. /\ a \o b \in Seq(Entry(V)) /\ Len(a \o b) = m + n
        /\ \A i \in 1 .. m : (a \o b)[i] = a[i]
        /\ \A i \in 1 .. n : (a \o b)[m + i] = b[i]
    BY <1>2, <1>5, <1>6, PutTogether
  <2> DEFINE c == a \o b
  <2> HIDE DEF c
  <2>2. \A i \in 1 .. m : 0 + i = i
    OBVIOUS
  <2>3. \A i \in 1 .. m : c[0 + i] = a[i]
    BY <2>1, <2>2 DEF c
  <2>4. Joins(c, a, b, 0, m)
    BY <1>5, <1>6, <2>1, <2>3 DEF Joins, c
  <2> QED
    BY <1>9, <2>1, <2>4 DEF c
<1>11. Lists(b \o a, files, folders, V)
  <2>1. /\ b \o a \in Seq(Entry(V)) /\ Len(b \o a) = m + n
        /\ \A i \in 1 .. n : (b \o a)[i] = b[i]
        /\ \A i \in 1 .. m : (b \o a)[n + i] = a[i]
    BY <1>2, <1>5, <1>6, PutTogether
  <2> DEFINE c == b \o a
  <2> HIDE DEF c
  <2>2. \A i \in 1 .. n : 0 + i = i
    OBVIOUS
  <2>3. \A i \in 1 .. n : c[0 + i] = b[i]
    BY <2>1, <2>2 DEF c
  <2>4. Joins(c, a, b, n, 0)
    BY <1>5, <1>6, <2>1, <2>3 DEF Joins, c
  <2> QED
    BY <1>9, <2>1, <2>4 DEF c
<1>12. Len(a \o b) = Len(a) + Len(b) /\ Len(b \o a) = Len(a) + Len(b)
  BY <1>2, <1>5, <1>6, PutTogether
<1> QED
  BY <1>10, <1>11, <1>12

\* The files of a tree that holds some entries.
LEMMA FilesAreHeld ==
  ASSUME NEW V, NEW entries, NEW files, NEW folders, Lists(entries, files, folders, V),
         files = [p \in DOMAIN files |-> files[p]],
         NEW tree, IsTreeOf(tree, entries)
  PROVE  tree.files = files
<1>1. tree.files = [p \in DOMAIN files |-> tree.files[p]]
  BY DEF Lists, IsTreeOf
<1>2. ASSUME NEW p \in DOMAIN files PROVE tree.files[p] = files[p]
  <2>1. PICK i \in FilesIn(entries) : entries[i].path = p
    BY DEF Lists, FilePaths
  <2>2. tree.files[entries[i].path] = entries[i].contents
    BY DEF IsTreeOf
  <2>3. entries[i].contents = files[entries[i].path]
    BY DEF Lists
  <2> QED
    BY <2>1, <2>2, <2>3
<1> DEFINE f == tree.files
<1>3. f = [p \in DOMAIN files |-> f[p]] /\ \A p \in DOMAIN files : f[p] = files[p]
  BY <1>1, <1>2
<1> HIDE DEF f
<1> QED
  BY <1>3 DEF f

\* Room for so many entries of one piece.
HasRoom(n, layout) ==
  /\ n <= MAX_ENTRIES /\ n <= MAX_TOTAL_UNCOMPRESSED
  /\ n * (3 + 2 * layout.extra + layout.descriptor) + 1 <= MAX_ZIP_BYTES

LEMMA TimesGrows ==
  ASSUME NEW a \in Nat, NEW b \in Nat, a <= b, NEW c \in Nat
  PROVE  a * c <= b * c /\ c * a <= c * b
<1>1. PICK d \in Nat : b = a + d
  <2>1. b = a + (b - a) /\ b - a \in Nat
    OBVIOUS
  <2> QED
    BY <2>1
<1>2. d * c \in Nat /\ c * d \in Nat
  OBVIOUS
<1>3. (a + d) * c = a * c + d * c /\ c * (a + d) = c * a + c * d
  OBVIOUS
<1>4. a * c \in Nat /\ c * a \in Nat
  OBVIOUS
<1> QED
  BY <1>1, <1>2, <1>3, <1>4

\* A zip of files with one piece each is in the limits if there is room for its entries.
LEMMA SmallZipsAreAllowed ==
  ASSUME NEW V, NEW entries, NEW files, NEW folders, Lists(entries, files, folders, V),
         NEW layout \in Layout, NEW n \in Nat, HasRoom(n, layout),
         entries # <<>>, Len(entries) <= n,
         \A p \in DOMAIN files : Len(files[p]) <= 1,
         \A p \in DOMAIN files \cup folders : IsSafeZipPath(p)
  PROVE  IsAllowed(entries, layout)
<1>1. PICK N \in Nat : N = Len(entries) /\ DOMAIN entries = 1 .. N /\ entries \in Seq(Entry(V))
  BY DEF Lists
<1>2. ASSUME NEW i \in DOMAIN entries PROVE Len(entries[i].contents) <= 1
  <2>1. CASE i \in FilesIn(entries)
    <3>1. entries[i].path \in DOMAIN files
      BY <2>1 DEF Lists, FilePaths
    <3> QED
      BY <2>1, <3>1 DEF Lists
  <2>2. CASE i \notin FilesIn(entries)
    <3>1. entries[i].contents = <<>>
      BY <2>2 DEF Lists
    <3> QED
      BY <3>1
  <2> QED
    BY <2>1, <2>2
<1>3. /\ Len(Pack(entries, layout)) <= N * (3 + 2 * layout.extra + layout.descriptor) + 1
      /\ TotalSize(Headers(entries, layout))[N] \in Nat /\ TotalSize(Headers(entries, layout))[N] <= N
  BY <1>1, <1>2, SmallZips
<1>4. PICK c \in Nat : c = 3 + 2 * layout.extra + layout.descriptor
  <2>1. PICK x \in Nat : x = layout.extra
    BY DEF Layout
  <2>2. PICK k \in Nat : k = layout.descriptor
    BY DEF Layout
  <2>3. 3 + 2 * x + k \in Nat
    OBVIOUS
  <2> QED
    BY <2>1, <2>2, <2>3
<1>5. N <= n /\ N * c <= n * c
  BY <1>1, TimesGrows
<1> DEFINE p == Len(Pack(entries, layout))
           t == TotalSize(Headers(entries, layout))[N]
<1>6. p \in Nat /\ t \in Nat
  <2>1. PICK l \in Nat : EndsIn(Pack(entries, layout), l)
    BY <1>1, PackEndsIn
  <2> QED
    BY <1>3, <2>1 DEF EndsIn
<1>7. p <= MAX_ZIP_BYTES /\ t <= MAX_TOTAL_UNCOMPRESSED /\ N <= MAX_ENTRIES
  <2>1. p <= N * c + 1 /\ t <= N
    BY <1>3, <1>4
  <2>2. n * c + 1 <= MAX_ZIP_BYTES /\ n <= MAX_ENTRIES /\ n <= MAX_TOTAL_UNCOMPRESSED
    BY <1>4 DEF HasRoom
  <2>3. {MAX_ZIP_BYTES, MAX_ENTRIES, MAX_TOTAL_UNCOMPRESSED} \subseteq Nat
    BY LimitsAssumption
  <2>4. N * c \in Nat /\ n * c \in Nat
    OBVIOUS
  <2> HIDE DEF p, t
  <2> QED
    BY <1>5, <1>6, <2>1, <2>2, <2>3, <2>4
<1>8. \A i \in DOMAIN entries : IsSafeZipPath(entries[i].path)
  <2>1. \A i \in DOMAIN entries : entries[i].path \in DOMAIN files \cup folders
    BY DEF Lists, FilePaths, FolderPaths
  <2> QED
    BY <2>1
<1> QED
  BY <1>1, <1>7, <1>8 DEF IsAllowed, Lists

\* A tree of files of one piece with safe paths, and room for it in the zip.
IsSmall(tree, layout, V) ==
  /\ IsTree(tree, V)
  /\ tree.files = [p \in DOMAIN tree.files |-> tree.files[p]] /\ DOMAIN tree.files # {}
  /\ \A p \in DOMAIN tree.files : Len(tree.files[p]) <= 1
  /\ \A p \in DOMAIN tree.files \cup tree.folders : IsSafeZipPath(p)
  /\ \E n \in Nat : HasRoom(n, layout) /\ Cardinality(DOMAIN tree.files) + Cardinality(tree.folders) <= n

\* Entries that a zip tool may make of the tree: every file and, maybe, the folders.
IsListing(entries, tree, V) ==
  /\ \E folders \in SUBSET tree.folders : Lists(entries, tree.files, folders, V)
  /\ Len(entries) <= Cardinality(DOMAIN tree.files) + Cardinality(tree.folders)

\* The three ways that are modelled.
LEMMA ListingsOfATree ==
  ASSUME NEW V, NEW tree, IsTree(tree, V)
  PROVE  /\ IsListing(FileEntries(tree), tree, V)
         /\ IsListing(Reverse(FileEntries(tree)) \o FolderEntries(tree), tree, V)
         /\ IsListing(FolderEntries(tree) \o FileEntries(tree), tree, V)
<1> DEFINE a == FileEntries(tree)
           r == Reverse(FileEntries(tree))
           b == FolderEntries(tree)
<1>1. /\ Lists(a, tree.files, {}, V) /\ Len(a) = Cardinality(DOMAIN tree.files)
      /\ Lists(b, <<>>, tree.folders, V) /\ Len(b) = Cardinality(tree.folders)
  BY FileEntriesList, FolderEntriesList
<1>2. Lists(r, tree.files, {}, V) /\ Len(r) = Cardinality(DOMAIN tree.files)
  BY <1>1, ReverseLists
<1>3. Len(a) \in Nat /\ Len(b) \in Nat
  BY <1>1 DEF Lists
<1> HIDE DEF a, r, b
<1>4. Lists(r \o b, tree.files, tree.folders, V) /\ Len(r \o b) = Len(r) + Len(b)
  BY <1>1, <1>2, ListsTogether
<1>5. Lists(b \o a, tree.files, tree.folders, V) /\ Len(b \o a) = Len(a) + Len(b)
  BY <1>1, ListsTogether
<1>6. IsListing(a, tree, V)
  <2>1. Len(a) <= Len(a) + Len(b)
    BY <1>3
  <2> QED
    BY <1>1, <2>1 DEF IsListing
<1>7. \A n \in Nat : n <= n
  OBVIOUS
<1>8. Len(a) + Len(b) \in Nat
  BY <1>3
<1>9. IsListing(r \o b, tree, V)
  <2>1. Len(r \o b) <= Cardinality(DOMAIN tree.files) + Cardinality(tree.folders)
    BY <1>1, <1>2, <1>4, <1>7, <1>8
  <2> QED
    BY <1>4, <2>1 DEF IsListing
<1>10. IsListing(b \o a, tree, V)
  <2>1. Len(b \o a) <= Cardinality(DOMAIN tree.files) + Cardinality(tree.folders)
    BY <1>1, <1>5, <1>7, <1>8
  <2> QED
    BY <1>5, <2>1 DEF IsListing
<1> QED
  BY <1>6, <1>9, <1>10 DEF a, r, b

\* A record with files and folders is not the refusal.
LEMMA TreesAreNotRefused ==
  ASSUME NEW files, NEW folders
  PROVE  [files |-> files, folders |-> folders] # Refused
<1>1. DOMAIN [files |-> files, folders |-> folders] = {"files", "folders"}
  OBVIOUS
<1>2. DOMAIN Refused = {"error"}
  BY DEF Refused
<1>3. "files" \notin {"error"}
  OBVIOUS
<1> QED
  BY <1>1, <1>2, <1>3

\* The files of a small tree arrive, or its zip arrived damaged and is refused.
LEMMA SmallTreesArrive ==
  ASSUME NEW V, NEW layout \in Layout, NEW tree, IsSmall(tree, layout, V),
         NEW entries, IsListing(entries, tree, V)
  PROVE  /\ IsTreeOf(ReadZip(Pack(entries, layout)), entries)
         /\ ReadZip(Pack(entries, layout)) # Refused
         /\ ReadZip(Pack(entries, layout)).files = tree.files
         /\ \A z \in Damaged(Pack(entries, layout)) : ReadZip(z) = Refused \/ ReadZip(z).files = tree.files
<1>1. PICK folders \in SUBSET tree.folders : Lists(entries, tree.files, folders, V)
  BY DEF IsListing
<1>2. entries \in Seq(Entry(V))
  BY <1>1 DEF Lists
<1>3. entries # <<>>
  <2>1. PICK p : p \in DOMAIN tree.files
    BY DEF IsSmall
  <2>2. PICK i \in FilesIn(entries) : entries[i].path = p
    BY <1>1, <2>1 DEF Lists, FilePaths
  <2>3. i \in DOMAIN entries
    BY <2>2 DEF FilesIn
  <2> QED
    BY <2>3
<1>4. PICK n \in Nat : HasRoom(n, layout) /\ Len(entries) <= n
  <2>1. PICK n \in Nat : HasRoom(n, layout) /\ Cardinality(DOMAIN tree.files) + Cardinality(tree.folders) <= n
    BY DEF IsSmall
  <2>2. Cardinality(DOMAIN tree.files) \in Nat /\ Cardinality(tree.folders) \in Nat
    BY FS_CardinalityType DEF IsSmall, IsTree
  <2>3. Cardinality(DOMAIN tree.files) + Cardinality(tree.folders) \in Nat
    BY <2>2
  <2>4. Len(entries) \in Nat
    BY <1>2
  <2>5. Len(entries) <= Cardinality(DOMAIN tree.files) + Cardinality(tree.folders)
    BY DEF IsListing
  <2>6. \A a, b, c \in Nat : a <= b /\ b <= c => a <= c
    OBVIOUS
  <2>7. Len(entries) <= n
    BY <2>1, <2>3, <2>4, <2>5, <2>6
  <2> QED
    BY <2>1, <2>7
<1>5. /\ tree.files = [p \in DOMAIN tree.files |-> tree.files[p]]
      /\ \A p \in DOMAIN tree.files : Len(tree.files[p]) <= 1
      /\ \A p \in DOMAIN tree.files \cup folders : IsSafeZipPath(p)
  BY DEF IsSmall
<1>6. IsAllowed(entries, layout)
  BY <1>1, <1>3, <1>4, <1>5, SmallZipsAreAllowed
<1>7. IsTreeOf(ReadZip(Pack(entries, layout)), entries)
  BY <1>2, <1>6, WholeZipsAreRead
<1>8. \A t : IsTreeOf(t, entries) => t.files = tree.files /\ t # Refused
  <2> TAKE t
  <2> HAVE IsTreeOf(t, entries)
  <2>1. t.files = tree.files
    BY <1>1, <1>5, FilesAreHeld
  <2>2. t = [files |-> t.files, folders |-> t.folders]
    BY DEF IsTreeOf
  <2>3. t # Refused
    BY <2>2, TreesAreNotRefused
  <2> QED
    BY <2>1, <2>3
<1>9. \A z \in Damaged(Pack(entries, layout)) : ReadZip(z) = Refused \/ IsTreeOf(ReadZip(z), entries)
  BY <1>2, DamagedZipsAreRefusedOrWhole
<1> QED
  BY <1>7, <1>8, <1>9

\* What WriteZip wrote ReadZip reads, if the tree holds the folders of its files and
\* of its folders and is within the limits: every file, and the empty folders too.
THEOREM WrittenTreesAreRead ==
  ASSUME NEW V, NEW tree, IsTree(tree, V),
         tree = [files |-> [p \in DOMAIN tree.files |-> tree.files[p]], folders |-> tree.folders],
         \A p \in DOMAIN tree.files \cup tree.folders : Parents(p) \subseteq tree.folders,
         IsAllowed(FolderEntries(tree) \o FileEntries(tree),
                   [method |-> "deflate", extra |-> 0, descriptor |-> 0])
  PROVE  ReadZip(WriteZip(tree)) = tree
<1> DEFINE entries == FolderEntries(tree) \o FileEntries(tree)
           layout == [method |-> "deflate", extra |-> 0, descriptor |-> 0]
           t == ReadZip(WriteZip(tree))
<1>1. Lists(entries, tree.files, tree.folders, V)
  BY FileEntriesList, FolderEntriesList, ListsTogether
<1>2. layout \in Layout /\ entries \in Seq(Entry(V))
  BY <1>1 DEF Layout, Lists
<1>3. IsTreeOf(t, entries)
  BY <1>2, WholeZipsAreRead DEF WriteZip
<1> HIDE DEF t, entries, layout
<1>4. tree.files = [p \in DOMAIN tree.files |-> tree.files[p]]
  <2>1. \A f, g : [files |-> f, folders |-> g].files = f
    OBVIOUS
  <2> QED
    BY <2>1
<1>5. t.files = tree.files
  BY <1>1, <1>3, <1>4, FilesAreHeld
<1>6. FolderPaths(entries) = tree.folders /\ FilePaths(entries) = DOMAIN tree.files
  BY <1>1 DEF Lists
<1>7. t.folders = tree.folders
  <2>1. UNION {Parents(p) : p \in tree.folders} \subseteq tree.folders
    OBVIOUS
  <2>2. UNION {Parents(p) : p \in DOMAIN tree.files} \subseteq tree.folders
    OBVIOUS
  <2>3. t.folders = FolderPaths(entries) \cup (UNION {Parents(p) : p \in FolderPaths(entries)})
                      \cup (UNION {Parents(p) : p \in FilePaths(entries)})
    BY <1>3 DEF IsTreeOf
  <2> QED
    BY <1>6, <2>1, <2>2, <2>3
<1>8. t = [files |-> t.files, folders |-> t.folders]
  BY <1>3 DEF IsTreeOf
<1>9. tree = [files |-> tree.files, folders |-> tree.folders]
  BY <1>4
<1> QED
  BY <1>5, <1>7, <1>8, <1>9 DEF t

=============================================================================
