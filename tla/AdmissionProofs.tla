--------------------------- MODULE AdmissionProofs ---------------------------
(***************************************************************************)
(* Who gets in: what holds of Admission for every set of headers, devices  *)
(* and limits, and of RateLimit for every number of addresses, table size  *)
(* and rate.                                                               *)
(*                                                                         *)
(* In Admission two things come together.  The walk of BvlcPayloadOffset   *)
(* ends where the payload of a Connect-Request begins, for lists of        *)
(* options of any length: by induction along the list, since each option's *)
(* octets tell where the next begins (OptionListIsSkipped).  And           *)
(* AdmissionInv, the inductive invariant, says at every point of the main  *)
(* loop what main relies on when it checks the limit.                      *)
(*                                                                         *)
(* In RateLimit a bucket is a potential.  What it holds now, and what it   *)
(* has let through since the observer began, never exceed its allowance    *)
(* together.                                                               *)
(***************************************************************************)
EXTENDS Admission, RateLimit, SequenceTheorems, FiniteSetTheorems, WellFoundedInduction, TLAPS

-----------------------------------------------------------------------------
(***************************************************************************)
(* Induction and recursion                                                 *)
(***************************************************************************)

\* Induction on the naturals, for a set of them.
LEMMA EveryNatural ==
  ASSUME NEW T, T \subseteq Nat, 0 \in T, \A n \in T : n + 1 \in T
  PROVE  T = Nat
<1> DEFINE R == {ss \in Nat \X Nat : ss[1] < ss[2]}
           U == Nat \ T
<1>1. IsWellFoundedOn(R, Nat)
  BY NatLessThanWellFounded DEF OpToRel
<1>2. \A x, y \in Nat : x < y => <<x, y>> \in R
  OBVIOUS
<1> SUFFICES ASSUME U # {} PROVE FALSE
  OBVIOUS
<1> HIDE DEF R
<1>3. PICK x \in U : \A y \in U : ~(<<y, x>> \in R)
  <2> U \subseteq Nat
    OBVIOUS
  <2> HIDE DEF U
  <2> QED
    BY <1>1, WFMin
<1>4. x \in Nat \ {0} /\ x - 1 \in Nat /\ x - 1 < x
  OBVIOUS
<1>5. x - 1 \in T
  BY <1>2, <1>3, <1>4
<1> QED
  BY <1>4, <1>5

Forward(n, stop, next) == \A i \in (0 .. n) \ stop : next[i] \in 0 .. n /\ next[i] > i

IsWalk(f, n, stop, value, next) ==
  f = [i \in 0 .. n |-> IF i \in stop THEN value[i] ELSE f[next[i]]]

\* A function on 0..n is defined by its values where it stops and, elsewhere, by
\* its value further on.
LEMMA ForwardRecursion ==
  ASSUME NEW n \in Nat, NEW stop, NEW value, NEW next, Forward(n, stop, next)
  PROVE  \E f : IsWalk(f, n, stop, value, next)
<1> DEFINE From(k) == {i \in 0 .. n : i + k >= n}
           T == {k \in Nat :
                  \E f : f = [i \in From(k) |-> IF i \in stop THEN value[i] ELSE f[next[i]]]}
<1>1. 0 \in T
  <2> DEFINE f == [i \in From(0) |-> value[i]]
  <2>1. \A i \in From(0) : i \in stop
    BY DEF Forward
  <2>2. f = [i \in From(0) |-> IF i \in stop THEN value[i] ELSE f[next[i]]]
    BY <2>1
  <2> QED
    BY <2>2
<1>2. ASSUME NEW k \in T PROVE k + 1 \in T
  <2>1. PICK f : f = [i \in From(k) |-> IF i \in stop THEN value[i] ELSE f[next[i]]]
    OBVIOUS
  <2> DEFINE g == [i \in From(k + 1) |-> IF i \in stop THEN value[i] ELSE f[next[i]]]
  <2>2. ASSUME NEW i \in From(k + 1), i \notin stop
        PROVE  f[next[i]] = g[next[i]]
    <3>1. next[i] \in From(k) /\ next[i] \in From(k + 1)
      BY <2>2 DEF Forward
    <3> HIDE DEF From
    <3>2. f[next[i]] = IF next[i] \in stop THEN value[next[i]] ELSE f[next[next[i]]]
      BY <2>1, <3>1, Zenon
    <3>3. g[next[i]] = IF next[i] \in stop THEN value[next[i]] ELSE f[next[next[i]]]
      BY <3>1
    <3> QED
      BY <3>2, <3>3, Zenon
  <2>3. g = [i \in From(k + 1) |-> IF i \in stop THEN value[i] ELSE g[next[i]]]
    <3> HIDE DEF From
    <3>1. \A i \in From(k + 1) : (IF i \in stop THEN value[i] ELSE f[next[i]])
                                  = (IF i \in stop THEN value[i] ELSE g[next[i]])
      <4> HIDE DEF g
      <4> QED BY <2>2, Zenon
    <3> QED
      BY <3>1
  <2> HIDE DEF g, From
  <2> QED
    BY <2>3
<1>3. n \in T
  <2>1. T \subseteq Nat
    OBVIOUS
  <2> HIDE DEF T
  <2> QED
    BY <1>1, <1>2, <2>1, EveryNatural
<1>4. From(n) = 0 .. n
  OBVIOUS
<1> HIDE DEF From
<1> QED
  BY <1>3, <1>4 DEF IsWalk

\* So is one on 1..n+1 that puts a piece before its next value.
LEMMA ListRecursion ==
  ASSUME NEW n \in Nat, NEW piece
  PROVE  \E f : f = [i \in 1 .. n + 1 |-> IF i > n THEN <<>> ELSE piece[i] \o f[i + 1]]
<1> DEFINE From(k) == {i \in 1 .. n + 1 : i + k > n}
           T == {k \in Nat :
                  \E f : f = [i \in From(k) |-> IF i > n THEN <<>> ELSE piece[i] \o f[i + 1]]}
<1>1. 0 \in T
  <2> DEFINE f == [i \in From(0) |-> <<>>]
  <2>1. \A i \in From(0) : i > n
    OBVIOUS
  <2>2. f = [i \in From(0) |-> IF i > n THEN <<>> ELSE piece[i] \o f[i + 1]]
    BY <2>1
  <2> QED
    BY <2>2
<1>2. ASSUME NEW k \in T PROVE k + 1 \in T
  <2>1. PICK f : f = [i \in From(k) |-> IF i > n THEN <<>> ELSE piece[i] \o f[i + 1]]
    OBVIOUS
  <2> DEFINE g == [i \in From(k + 1) |-> IF i > n THEN <<>> ELSE piece[i] \o f[i + 1]]
  <2>2. ASSUME NEW i \in From(k + 1), ~(i > n)
        PROVE  f[i + 1] = g[i + 1]
    <3>1. i + 1 \in From(k) /\ i + 1 \in From(k + 1)
      BY <2>2
    <3> HIDE DEF From
    <3>2. f[i + 1] = IF i + 1 > n THEN <<>> ELSE piece[i + 1] \o f[(i + 1) + 1]
      BY <2>1, <3>1, Zenon
    <3>3. g[i + 1] = IF i + 1 > n THEN <<>> ELSE piece[i + 1] \o f[(i + 1) + 1]
      BY <3>1, Zenon
    <3> QED
      BY <3>2, <3>3, Zenon
  <2>3. g = [i \in From(k + 1) |-> IF i > n THEN <<>> ELSE piece[i] \o g[i + 1]]
    <3> HIDE DEF From
    <3>1. \A i \in From(k + 1) : (IF i > n THEN <<>> ELSE piece[i] \o f[i + 1])
                                  = (IF i > n THEN <<>> ELSE piece[i] \o g[i + 1])
      <4> HIDE DEF g
      <4> QED BY <2>2, Zenon
    <3> QED
      BY <3>1, Zenon
  <2>4. \E h : h = [i \in From(k + 1) |-> IF i > n THEN <<>> ELSE piece[i] \o h[i + 1]]
    <3> HIDE DEF g, From
    <3> QED
      BY <2>3, Zenon
  <2>5. k + 1 \in Nat
    OBVIOUS
  <2> HIDE DEF From
  <2> QED
    BY <2>4, <2>5, Zenon
<1>3. n \in T
  <2>1. T \subseteq Nat
    OBVIOUS
  <2> HIDE DEF T
  <2> QED
    BY <1>1, <1>2, <2>1, EveryNatural
<1>4. From(n) = 1 .. n + 1
  OBVIOUS
<1> HIDE DEF From
<1> QED
  BY <1>3, <1>4

-----------------------------------------------------------------------------
(***************************************************************************)
(* Lists of header options                                                 *)
(***************************************************************************)

\* The walk over header options is well defined.
LEMMA PastOptionsUnfolds ==
  ASSUME NEW frame \in Seq(Nat)
  PROVE  PastOptions(frame) =
           [offset \in 0 .. Len(frame) |->
              IF OptionIsCutOff(frame, offset) THEN 0
              ELSE IF ~Bit(frame[offset + 1], 128) THEN OptionEnd(frame, offset)
              ELSE IF OptionEnd(frame, offset) >= Len(frame) THEN 0
              ELSE PastOptions(frame)[OptionEnd(frame, offset)]]
<1> DEFINE n == Len(frame)
           next == [i \in 0 .. n |-> OptionEnd(frame, i)]
           stop == {i \in 0 .. n : \/ OptionIsCutOff(frame, i)
                                   \/ ~Bit(frame[i + 1], 128)
                                   \/ OptionEnd(frame, i) >= n}
           value == [i \in 0 .. n |->
                       IF OptionIsCutOff(frame, i) THEN 0
                       ELSE IF ~Bit(frame[i + 1], 128) THEN OptionEnd(frame, i) ELSE 0]
           Body(f, i) == IF OptionIsCutOff(frame, i) THEN 0
                         ELSE IF ~Bit(frame[i + 1], 128) THEN OptionEnd(frame, i)
                         ELSE IF OptionEnd(frame, i) >= n THEN 0
                         ELSE f[OptionEnd(frame, i)]
<1>1. n \in Nat
  OBVIOUS
<1>2. ASSUME NEW i \in (0 .. n) \ stop
      PROVE  next[i] \in 0 .. n /\ next[i] > i
  <2>1. i < n /\ ~OptionIsCutOff(frame, i) /\ ~(OptionEnd(frame, i) >= n)
    BY <1>1 DEF OptionIsCutOff
  <2>2. i + 1 \in 1 .. n /\ frame[i + 1] \in Nat
    BY <2>1
  <2>3. Bit(frame[i + 1], 32) => frame[i + 2] \in Nat /\ frame[i + 3] \in Nat
    BY <2>1 DEF OptionIsCutOff
  <2>4. OptionEnd(frame, i) \in Nat /\ OptionEnd(frame, i) > i
    <3>1. i \in Nat
      OBVIOUS
    <3>2. CASE Bit(frame[i + 1], 32)
      <4> DEFINE high == frame[i + 2]
                 low == frame[i + 3]
      <4>1. OptionEnd(frame, i) = i + 1 + (2 + 256 * high + low)
        BY <3>2 DEF OptionEnd
      <4>2. high \in Nat /\ low \in Nat
        BY <2>3, <3>2
      <4> HIDE DEF high, low
      <4> QED
        BY <3>1, <4>1, <4>2
    <3>3. CASE ~Bit(frame[i + 1], 32)
      BY <3>1, <3>3 DEF OptionEnd
    <3> QED
      BY <3>2, <3>3
  <2> QED
    BY <2>1, <2>4
<1> HIDE DEF next, stop, value
<1>3. PICK f : IsWalk(f, n, stop, value, next)
  <2> HIDE DEF n
  <2>1. Forward(n, stop, next)
    BY <1>2 DEF Forward
  <2> QED
    BY <1>1, <2>1, ForwardRecursion, Zenon
<1>4. \A i \in 0 .. n : (IF i \in stop THEN value[i] ELSE f[next[i]]) = Body(f, i)
  BY DEF next, stop, value
<1>5. f = [i \in 0 .. n |-> Body(f, i)]
  <2> HIDE DEF n, Body
  <2> QED
    BY <1>3, <1>4 DEF IsWalk
<1>6. PastOptions(frame) = CHOOSE g : g = [i \in 0 .. n |-> Body(g, i)]
  BY Zenon DEF PastOptions
<1>7. PastOptions(frame) = [i \in 0 .. n |-> Body(PastOptions(frame), i)]
  <2> HIDE DEF n, Body
  <2> QED
    BY <1>5, <1>6, Zenon
<1> QED
  BY <1>7, Zenon

\* So are the tails of a list.
LEMMA OptionTailsUnfold ==
  ASSUME NEW options \in Seq(Options)
  PROVE  OptionTails(options) =
           [i \in 1 .. Len(options) + 1 |->
              IF i > Len(options) THEN <<>>
              ELSE OptionOctets(options[i], i < Len(options)) \o OptionTails(options)[i + 1]]
<1> DEFINE n == Len(options)
           piece == [i \in 1 .. n |-> OptionOctets(options[i], i < n)]
           Body(f, i) == IF i > n THEN <<>> ELSE OptionOctets(options[i], i < n) \o f[i + 1]
<1>1. n \in Nat
  OBVIOUS
<1>2. PICK f : f = [i \in 1 .. n + 1 |-> IF i > n THEN <<>> ELSE piece[i] \o f[i + 1]]
  <2> HIDE DEF n, piece
  <2> QED
    BY <1>1, ListRecursion, Zenon
<1>3. \A i \in 1 .. n + 1 : (IF i > n THEN <<>> ELSE piece[i] \o f[i + 1]) = Body(f, i)
  <2>1. ASSUME NEW i \in 1 .. n + 1, ~(i > n) PROVE piece[i] = OptionOctets(options[i], i < n)
    <3>1. i \in 1 .. n
      BY <1>1, <2>1
    <3> HIDE DEF n
    <3> QED
      BY <3>1, Zenon
  <2> HIDE DEF n, piece
  <2> QED
    BY <2>1, Zenon
<1>4. f = [i \in 1 .. n + 1 |-> Body(f, i)]
  <2> HIDE DEF n, Body, piece
  <2> QED
    BY <1>2, <1>3
<1>5. OptionTails(options) = CHOOSE g : g = [i \in 1 .. n + 1 |-> Body(g, i)]
  BY Zenon DEF OptionTails
<1>6. OptionTails(options) = [i \in 1 .. n + 1 |-> Body(OptionTails(options), i)]
  <2> HIDE DEF n, Body
  <2> QED
    BY <1>4, <1>5, Zenon
<1> QED
  BY <1>6, Zenon

\* A sequence of octets is a sequence of numbers.
LEMMA OctetsAreNumbers ==
  ASSUME NEW q \in Seq(0 .. 255)
  PROVE  q \in Seq(Nat) /\ Len(q) \in Nat
<1>1. q \in [1 .. Len(q) -> 0 .. 255] /\ Len(q) \in Nat
  BY LenProperties
<1>2. q = [i \in 1 .. Len(q) |-> q[i]] /\ \A i \in 1 .. Len(q) : q[i] \in 0 .. 255
  BY <1>1
<1>3. \A i \in 1 .. Len(q) : q[i] \in Nat
  <2>1. 0 .. 255 \subseteq Nat
    OBVIOUS
  <2> QED
    BY <1>2, <2>1, Zenon
<1>4. q \in [1 .. Len(q) -> Nat]
  BY <1>2, <1>3
<1> QED
  BY <1>1, <1>4, SeqDef

\* Where the octets of two joined sequences are.
LEMMA JoinedAt ==
  ASSUME NEW s \in Seq(Nat), NEW t \in Seq(Nat), NEW m \in Nat, Len(s) = m
  PROVE  /\ s \o t \in Seq(Nat)
         /\ Len(t) \in Nat
         /\ Len(s \o t) = m + Len(t)
         /\ \A i \in 1 .. m : (s \o t)[i] = s[i]
         /\ \A i \in 1 .. Len(t) : (s \o t)[m + i] = t[i]
<1>1. Len(t) \in Nat
  BY LenProperties
<1>2. /\ s \o t \in Seq(Nat) /\ Len(s \o t) = m + Len(t)
      /\ \A i \in 1 .. m + Len(t) : (s \o t)[i] = IF i <= m THEN s[i] ELSE t[i - m]
  BY ConcatProperties
<1>3. ASSUME NEW i \in 1 .. m PROVE (s \o t)[i] = s[i]
  BY <1>1, <1>2
<1>4. ASSUME NEW i \in 1 .. Len(t) PROVE (s \o t)[m + i] = t[i]
  <2>1. m + i \in 1 .. m + Len(t) /\ ~(m + i <= m) /\ m + i - m = i
    BY <1>1
  <2> QED
    BY <1>2, <2>1
<1> QED
  BY <1>1, <1>2, <1>3, <1>4

\* An option's octets: a marker that tells whether there are more and whether it
\* has data, and the length of these.
IsOption(octets, more) ==
  /\ octets \in Seq(Nat) /\ Len(octets) \in Nat \ {0}
  /\ (Bit(octets[1], 128) <=> more)
  /\ Bit(octets[1], 32) =>
       Len(octets) >= 3 /\ Len(octets) = 3 + 256 * octets[2] + octets[3]
  /\ ~Bit(octets[1], 32) => Len(octets) = 1

LEMMA OptionFacts ==
  ASSUME NEW option \in Options, NEW more \in BOOLEAN
  PROVE  IsOption(OptionOctets(option, more), more)
<1> DEFINE marker == 1 + (IF more THEN 128 ELSE 0)
<1>1. /\ marker \in Nat
      /\ (Bit(marker, 128) <=> more) /\ ~Bit(marker, 32)
      /\ (Bit(marker + 32, 128) <=> more) /\ Bit(marker + 32, 32)
  <2>1. CASE more
    <3>1. marker = 129
      BY <2>1
    <3> HIDE DEF marker
    <3> QED
      BY <2>1, <3>1 DEF Bit
  <2>2. CASE ~more
    <3>1. marker = 1
      BY <2>2
    <3> HIDE DEF marker
    <3> QED
      BY <2>2, <3>1 DEF Bit
  <2> QED
    BY <2>1, <2>2
<1>2. PICK octets : octets = OptionOctets(option, more)
  OBVIOUS
<1> SUFFICES IsOption(octets, more)
  BY <1>2, Zenon
<1>3. CASE option = <<>>
  <2>1. octets = <<marker>>
    BY <1>2, <1>3 DEF OptionOctets
  <2> HIDE DEF marker
  <2>2. octets \in Seq(Nat) /\ Len(octets) = 1 /\ octets[1] = marker /\ 1 \in Nat \ {0}
    BY <1>1, <2>1
  <2>3. (Bit(octets[1], 128) <=> more) /\ ~Bit(octets[1], 32)
    BY <1>1, <2>2, Zenon
  <2> QED
    BY <2>2, <2>3 DEF IsOption
<1>4. CASE option # <<>>
  <2>1. PICK data \in Seq(0 .. 255) : data = option[1] /\ Len(data) < 65536
    BY <1>4 DEF Options
  <2>2. PICK high \in Nat, low \in Nat :
          /\ high = Len(data) \div 256 /\ low = Len(data) % 256
          /\ Len(data) = (256 * high) + low
    OBVIOUS
  <2> DEFINE head == <<marker + 32, high, low>>
  <2>3. octets = head \o data
    BY <1>2, <1>4, <2>1, <2>2 DEF OptionOctets
  <2> HIDE DEF marker
  <2>4. head \in Seq(Nat) /\ Len(head) = 3
        /\ head[1] = marker + 32 /\ head[2] = high /\ head[3] = low
    BY <1>1
  <2>5. data \in Seq(Nat) /\ Len(data) \in Nat
    BY OctetsAreNumbers
  <2> HIDE DEF head
  <2>6. /\ octets \in Seq(Nat) /\ Len(octets) = 3 + Len(data)
        /\ \A i \in 1 .. 3 : octets[i] = head[i]
    <3> DEFINE m == 3
    <3>1. m \in Nat /\ Len(head) = m
      BY <2>4
    <3> HIDE DEF m
    <3>2. /\ octets \in Seq(Nat) /\ Len(octets) = m + Len(data)
          /\ \A i \in 1 .. m : octets[i] = head[i]
      BY <2>3, <2>4, <2>5, <3>1, JoinedAt
    <3> QED
      BY <3>2 DEF m
  <2>7. octets[1] = marker + 32 /\ octets[2] = high /\ octets[3] = low
    BY <2>4, <2>6
  <2>8. /\ Len(octets) \in Nat \ {0} /\ Len(octets) >= 3
        /\ Len(octets) = 3 + 256 * octets[2] + octets[3]
    BY <2>2, <2>5, <2>6, <2>7
  <2>9. (Bit(octets[1], 128) <=> more) /\ Bit(octets[1], 32)
    BY <1>1, <2>7, Zenon
  <2> QED
    BY <2>6, <2>8, <2>9 DEF IsOption
<1> QED
  BY <1>3, <1>4

\* Every tail of a list is octets, and only the last is empty.
LEMMA OptionTailsFacts ==
  ASSUME NEW options \in Seq(Options), NEW j \in 1 .. Len(options) + 1
  PROVE  /\ OptionTails(options)[j] \in Seq(Nat)
         /\ j <= Len(options) => Len(OptionTails(options)[j]) > 0
<1> DEFINE m == Len(options)
           tail == OptionTails(options)
           Good(i) == tail[i] \in Seq(Nat) /\ (i <= m => Len(tail[i]) > 0)
           T == {k \in Nat : \A i \in 1 .. m + 1 : i + k > m => Good(i)}
<1>1. m \in Nat
  OBVIOUS
<1>2. tail = [i \in 1 .. m + 1 |->
                IF i > m THEN <<>> ELSE OptionOctets(options[i], i < m) \o tail[i + 1]]
  BY OptionTailsUnfold, Zenon
<1> HIDE DEF tail
<1>3. 0 \in T
  <2>1. \A i \in 1 .. m + 1 : i + 0 > m => tail[i] = <<>>
    <3> HIDE DEF m
    <3> QED
      BY <1>1, <1>2
  <2>2. ASSUME NEW i \in 1 .. m + 1, i + 0 > m PROVE Good(i)
    <3>1. tail[i] = <<>>
      BY <2>1, <2>2
    <3>2. ~(i <= m)
      BY <1>1, <2>2
    <3>3. <<>> \in Seq(Nat)
      OBVIOUS
    <3> HIDE DEF m
    <3> QED
      BY <3>1, <3>2, <3>3, Zenon
  <2> HIDE DEF m
  <2> QED
    BY <2>2
<1>4. ASSUME NEW k \in T PROVE k + 1 \in T
  <2> SUFFICES ASSUME NEW i \in 1 .. m + 1, i + (k + 1) > m PROVE Good(i)
    OBVIOUS
  <2>1. CASE i > m
    <3>1. tail[i] = <<>>
      <4> HIDE DEF m
      <4> QED
        BY <1>2, <2>1, Zenon
    <3> HIDE DEF m
    <3> QED
      BY <1>1, <2>1, <3>1
  <2>2. CASE ~(i > m)
    <3>1. tail[i] = OptionOctets(options[i], i < m) \o tail[i + 1]
      <4> HIDE DEF m
      <4> QED
        BY <1>2, <2>2, Zenon
    <3>2. tail[i + 1] \in Seq(Nat)
      <4>1. i + 1 \in 1 .. m + 1 /\ (i + 1) + k > m
        BY <1>1, <2>2
      <4> HIDE DEF m
      <4> QED
        BY <4>1
    <3>3. options[i] \in Options /\ (i < m) \in BOOLEAN
      BY <2>2
    <3>4. OptionOctets(options[i], i < m) \in Seq(Nat)
          /\ Len(OptionOctets(options[i], i < m)) \in Nat \ {0}
      <4> HIDE DEF m
      <4> QED
        BY <3>3, OptionFacts, Zenon DEF IsOption
    <3> DEFINE first == OptionOctets(options[i], i < m)
               rest == tail[i + 1]
    <3>5. first \o rest \in Seq(Nat) /\ Len(first \o rest) > 0
      <4>1. first \in Seq(Nat) /\ Len(first) \in Nat \ {0} /\ rest \in Seq(Nat)
        BY <3>2, <3>4, Zenon
      <4> HIDE DEF first, rest
      <4> QED
        BY <4>1
    <3> HIDE DEF m
    <3> QED
      BY <3>1, <3>5, Zenon
  <2> QED
    BY <2>1, <2>2
<1>5. m \in T
  <2>1. T \subseteq Nat
    OBVIOUS
  <2> HIDE DEF T, m
  <2> QED
    BY <1>1, <1>3, <1>4, <2>1, EveryNatural
<1>6. j + m > m /\ j \in 1 .. m + 1
  BY <1>1
<1> HIDE DEF m
<1>7. Good(j)
  BY <1>5, <1>6
<1> QED
  BY <1>7, Zenon DEF tail, m

\* The frame has the octets of s from b on, as far as it goes.
Reads(frame, b, s) == \A i \in 1 .. Len(s) : b + i <= Len(frame) => frame[b + i] = s[i]

\* One option is walked over, or the frame ends within it.
LEMMA OptionIsSkipped ==
  ASSUME NEW frame \in Seq(Nat), NEW option \in Options, NEW more \in BOOLEAN,
         NEW b \in Nat, b < Len(frame), Reads(frame, b, OptionOctets(option, more))
  PROVE  LET end == b + Len(OptionOctets(option, more))
         IN  /\ OptionIsCutOff(frame, b) => end > Len(frame)
             /\ ~OptionIsCutOff(frame, b) =>
                  OptionEnd(frame, b) = end /\ (Bit(frame[b + 1], 128) <=> more)
<1>1. PICK octets : octets = OptionOctets(option, more)
  OBVIOUS
<1>2. IsOption(octets, more)
  BY <1>1, OptionFacts, Zenon
<1>3. \A i \in 1 .. Len(octets) : b + i <= Len(frame) => frame[b + i] = octets[i]
  BY <1>1, Zenon DEF Reads
<1>4. PICK n \in Nat, size \in Nat \ {0} : n = Len(frame) /\ size = Len(octets) /\ b < n
  BY <1>2 DEF IsOption
<1>5. frame[b + 1] = octets[1]
  <2>1. 1 \in 1 .. size /\ b + 1 <= n
    BY <1>4
  <2> QED
    BY <1>3, <1>4, <2>1, Zenon
<1> SUFFICES /\ OptionIsCutOff(frame, b) => b + size > n
             /\ ~OptionIsCutOff(frame, b) => OptionEnd(frame, b) = b + size
  BY <1>1, <1>2, <1>4, <1>5, Zenon DEF IsOption
<1>6. ~(b >= n)
  BY <1>4
<1>7. CASE Bit(octets[1], 32)
  <2>1. octets \in Seq(Nat) /\ size >= 3 /\ size = 3 + 256 * octets[2] + octets[3]
    BY <1>2, <1>4, <1>7, Zenon DEF IsOption
  <2>2. 2 \in 1 .. size /\ 3 \in 1 .. size
    BY <1>4, <2>1
  <2>3. PICK two \in Nat, three \in Nat : two = octets[2] /\ three = octets[3]
    <3>1. octets[2] \in Nat /\ octets[3] \in Nat
      BY <1>4, <2>1, <2>2, ElementOfSeq
    <3> QED
      BY <3>1
  <2>4. OptionIsCutOff(frame, b) <=> b + 3 > n
    BY <1>4, <1>5, <1>6, <1>7, Zenon DEF OptionIsCutOff
  <2>5. b + 3 <= n => frame[b + 2] = two /\ frame[b + 3] = three
    <3> SUFFICES ASSUME b + 3 <= n PROVE frame[b + 2] = two /\ frame[b + 3] = three
      OBVIOUS
    <3>1. b + 2 <= n
      BY <1>4
    <3> QED
      BY <1>3, <1>4, <2>2, <2>3, <3>1, Zenon
  <2>6. b + 3 <= n => OptionEnd(frame, b) = b + 1 + (2 + 256 * two + three)
    BY <1>5, <1>7, <2>5, Zenon DEF OptionEnd
  <2>7. size = 3 + 256 * two + three
    BY <2>1, <2>3, Zenon
  <2>8. CASE b + 3 > n
    <3>1. b + size > n
      BY <1>4, <2>7, <2>8
    <3> QED
      BY <2>4, <2>8, <3>1, Zenon
  <2>9. CASE ~(b + 3 > n)
    <3>1. b + 3 <= n /\ b + 1 + (2 + 256 * two + three) = b + size
      BY <1>4, <2>7, <2>9
    <3> QED
      BY <2>4, <2>6, <2>9, <3>1, Zenon
  <2> QED
    BY <2>8, <2>9
<1>8. CASE ~Bit(octets[1], 32)
  <2>1. ~OptionIsCutOff(frame, b)
    BY <1>4, <1>5, <1>6, <1>8, Zenon DEF OptionIsCutOff
  <2>2. OptionEnd(frame, b) = b + 1 + 0
    BY <1>5, <1>8, Zenon DEF OptionEnd
  <2>3. size = 1
    BY <1>2, <1>4, <1>8, Zenon DEF IsOption
  <2> QED
    BY <2>1, <2>2, <2>3
<1> QED
  BY <1>7, <1>8

\* A list of options is walked over, or the frame ends within it.
LEMMA OptionListIsSkipped ==
  ASSUME NEW frame \in Seq(Nat), NEW options \in Seq(Options), options # <<>>,
         NEW begin \in Nat, Reads(frame, begin, OptionList(options))
  PROVE  LET end == begin + Len(OptionList(options))
         IN  /\ OptionList(options) \in Seq(Nat)
             /\ AfterOptions(frame, begin) \in {0, end}
             /\ end <= Len(frame) => AfterOptions(frame, begin) = end
<1> DEFINE m == Len(options)
           n == Len(frame)
           tail == OptionTails(options)
           after == PastOptions(frame)
           Good(i) == \A b \in Nat :
             b < n /\ Reads(frame, b, tail[i]) =>
               /\ after[b] \in {0, b + Len(tail[i])}
               /\ b + Len(tail[i]) <= n => after[b] = b + Len(tail[i])
           T == {k \in Nat : \A i \in 1 .. m : i + k >= m => Good(i)}
<1>1. m \in Nat \ {0} /\ n \in Nat /\ \A i \in 1 .. m : options[i] \in Options
  OBVIOUS
<1>2. \A i \in 1 .. m :
        /\ tail[i] = OptionOctets(options[i], i < m) \o tail[i + 1]
        /\ tail[m + 1] = <<>>
  <2>1. tail = [i \in 1 .. m + 1 |->
                  IF i > m THEN <<>> ELSE OptionOctets(options[i], i < m) \o tail[i + 1]]
    BY OptionTailsUnfold, Zenon
  <2>2. \A i \in 1 .. m : i \in 1 .. m + 1 /\ ~(i > m)
    BY <1>1
  <2>3. m + 1 \in 1 .. m + 1 /\ m + 1 > m
    BY <1>1
  <2> HIDE DEF m, tail
  <2> QED
    BY <2>1, <2>2, <2>3, Zenon
<1>3. after = [b \in 0 .. n |->
                IF OptionIsCutOff(frame, b) THEN 0
                ELSE IF ~Bit(frame[b + 1], 128) THEN OptionEnd(frame, b)
                ELSE IF OptionEnd(frame, b) >= n THEN 0 ELSE after[OptionEnd(frame, b)]]
  BY PastOptionsUnfolds, Zenon
<1>4. \A i \in 1 .. m + 1 : tail[i] \in Seq(Nat) /\ (i <= m => Len(tail[i]) > 0)
  BY OptionTailsFacts, Zenon
<1> HIDE DEF m, n, tail, after
<1>5. ASSUME NEW i \in 1 .. m, i = m \/ Good(i + 1)
      PROVE  Good(i)
  <2> SUFFICES ASSUME NEW b \in Nat, b < n, Reads(frame, b, tail[i])
               PROVE  /\ after[b] \in {0, b + Len(tail[i])}
                      /\ b + Len(tail[i]) <= n => after[b] = b + Len(tail[i])
    OBVIOUS
  <2>1. PICK first, rest, whole :
          first = OptionOctets(options[i], i < m) /\ rest = tail[i + 1] /\ whole = tail[i]
    OBVIOUS
  <2>2. /\ first \in Seq(Nat) /\ Len(first) \in Nat
        /\ options[i] \in Options /\ (i < m) \in BOOLEAN
    <3>1. options[i] \in Options /\ (i < m) \in BOOLEAN
      BY <1>1
    <3>2. IsOption(first, i < m)
      BY <2>1, <3>1, OptionFacts, Zenon
    <3> QED
      BY <3>1, <3>2 DEF IsOption
  <2>3. /\ rest \in Seq(Nat) /\ whole = first \o rest
        /\ Len(rest) \in Nat /\ Len(whole) = Len(first) + Len(rest)
        /\ \A j \in 1 .. Len(first) : whole[j] = first[j]
        /\ \A j \in 1 .. Len(rest) : whole[Len(first) + j] = rest[j]
    <3>1. rest \in Seq(Nat) /\ whole = first \o rest
      <4>1. i + 1 \in 1 .. m + 1
        BY <1>1
      <4> QED
        BY <1>2, <1>4, <2>1, <4>1, Zenon
    <3> QED
      BY <2>2, <3>1, JoinedAt
  <2>4. /\ i = m => Len(rest) = 0
        /\ i # m => Len(rest) > 0 /\ i + 1 \in 1 .. m
    <3>1. i = m => rest = <<>>
      BY <1>2, <2>1, Zenon
    <3>2. i # m => i + 1 \in 1 .. m /\ i + 1 \in 1 .. m + 1 /\ i + 1 <= m
      BY <1>1
    <3>3. i # m => Len(rest) > 0
      BY <1>4, <2>1, <3>2, Zenon
    <3>4. i = m => Len(rest) = 0
      BY <3>1
    <3> QED
      BY <3>2, <3>3, <3>4
  <2>5. \A j \in 1 .. Len(whole) : b + j <= n => frame[b + j] = whole[j]
    BY <2>1, Zenon DEF Reads, n
  <2>6. Reads(frame, b, first)
    <3>1. \A j \in 1 .. Len(first) : j \in 1 .. Len(whole)
      BY <2>2, <2>3
    <3> QED
      BY <2>3, <2>5, <3>1, Zenon DEF Reads, n
  <2> DEFINE next == b + Len(first)
  <2>7. /\ OptionIsCutOff(frame, b) => next > n
        /\ ~OptionIsCutOff(frame, b) =>
             OptionEnd(frame, b) = next /\ (Bit(frame[b + 1], 128) <=> i < m)
    BY <2>1, <2>2, <2>6, OptionIsSkipped, ZenonT(60) DEF n
  <2>8. next \in Nat /\ b + Len(whole) = next + Len(rest) /\ (i < m <=> i # m)
    BY <1>1, <2>2, <2>3
  <2>9. after[b] = IF OptionIsCutOff(frame, b) THEN 0
                  ELSE IF i = m THEN next
                  ELSE IF next >= n THEN 0 ELSE after[next]
    <3>1. b \in 0 .. n
      BY <1>1
    <3> HIDE DEF next
    <3>2. after[b] = IF OptionIsCutOff(frame, b) THEN 0
                    ELSE IF ~Bit(frame[b + 1], 128) THEN OptionEnd(frame, b)
                    ELSE IF OptionEnd(frame, b) >= n THEN 0 ELSE after[OptionEnd(frame, b)]
      BY <1>3, <3>1, Zenon
    <3> QED
      BY <2>7, <2>8, <3>2, Zenon
  <2>10. i # m /\ next < n =>
           /\ after[next] \in {0, next + Len(rest)}
           /\ next + Len(rest) <= n => after[next] = next + Len(rest)
    <3> SUFFICES ASSUME i # m, next < n PROVE /\ after[next] \in {0, next + Len(rest)}
                                              /\ next + Len(rest) <= n => after[next] = next + Len(rest)
      OBVIOUS
    <3>1. \A j \in 1 .. Len(rest) : next + j <= n => frame[next + j] = rest[j]
      <4> SUFFICES ASSUME NEW j \in 1 .. Len(rest), next + j <= n PROVE frame[next + j] = rest[j]
        OBVIOUS
      <4>1. Len(first) + j \in 1 .. Len(whole) /\ b + (Len(first) + j) = next + j
        BY <2>2, <2>3
      <4> HIDE DEF next
      <4> QED
        BY <2>3, <2>5, <4>1
    <3>2. Reads(frame, next, tail[i + 1])
      <4> HIDE DEF next
      <4> QED
        BY <2>1, <3>1, Zenon DEF Reads, n
    <3> HIDE DEF next
    <3> QED
      BY <1>5, <2>1, <2>8, <3>2, Zenon
  <2> HIDE DEF next
  <2>11. /\ after[b] \in {0, next + Len(rest)}
         /\ next + Len(rest) <= n => after[b] = next + Len(rest)
    <3>1. PICK size \in Nat : size = Len(rest)
      BY <2>3
    <3>2. CASE OptionIsCutOff(frame, b)
      <4>1. after[b] = 0 /\ next > n
        BY <2>7, <2>9, <3>2, Zenon
      <4>2. ~(next + size <= n)
        BY <1>1, <2>8, <4>1
      <4> QED
        BY <3>1, <4>1, <4>2
    <3>3. CASE ~OptionIsCutOff(frame, b) /\ i = m
      <4>1. after[b] = next /\ size = 0
        BY <2>4, <2>9, <3>1, <3>3, Zenon
      <4>2. next + size = next
        BY <2>8, <4>1
      <4> QED
        BY <3>1, <4>1, <4>2
    <3>4. CASE ~OptionIsCutOff(frame, b) /\ i # m /\ next >= n
      <4>1. after[b] = 0 /\ size > 0
        BY <2>4, <2>9, <3>1, <3>4, Zenon
      <4>2. ~(next + size <= n)
        BY <1>1, <2>8, <3>4, <4>1
      <4> QED
        BY <3>1, <4>1, <4>2
    <3>5. CASE ~OptionIsCutOff(frame, b) /\ i # m /\ ~(next >= n)
      <4>1. after[b] = after[next]
        BY <2>9, <3>5, Zenon
      <4>2. next < n
        BY <1>1, <2>8, <3>5
      <4> QED
        BY <2>10, <3>5, <4>1, <4>2, Zenon
    <3> QED
      BY <3>2, <3>3, <3>4, <3>5
  <2> QED
    BY <2>1, <2>8, <2>11, Zenon
<1>6. 0 \in T
  <2>1. \A i \in 1 .. m : i + 0 >= m => i = m
    BY <1>1
  <2> HIDE DEF Good
  <2> QED
    BY <1>5, <2>1
<1>7. ASSUME NEW k \in T PROVE k + 1 \in T
  <2>1. k + 1 \in Nat
    OBVIOUS
  <2> SUFFICES ASSUME NEW i \in 1 .. m, i + (k + 1) >= m PROVE Good(i)
    BY <2>1, Zenon
  <2>2. i = m \/ (i + 1 \in 1 .. m /\ (i + 1) + k >= m)
    BY <1>1
  <2> HIDE DEF Good
  <2> QED
    BY <1>5, <2>2
<1>8. Good(1)
  <2>1. T \subseteq Nat
    OBVIOUS
  <2>2. m \in T
    <3> HIDE DEF T
    <3> QED
      BY <1>1, <1>6, <1>7, <2>1, EveryNatural
  <2>3. 1 \in 1 .. m /\ 1 + m >= m
    BY <1>1
  <2> HIDE DEF Good
  <2> QED
    BY <2>2, <2>3
<1>9. PICK list : list = OptionList(options)
  OBVIOUS
<1>10. list = tail[1] /\ 1 \in 1 .. m + 1 /\ 1 <= m
  BY <1>1, <1>9 DEF OptionList, tail
<1>11. list \in Seq(Nat) /\ Len(list) > 0
  BY <1>4, <1>10, Zenon
<1>12. CASE begin < n
  <2>1. AfterOptions(frame, begin) = after[begin]
    BY <1>1, <1>12 DEF AfterOptions, n, after
  <2> QED
    BY <1>8, <1>9, <1>10, <1>11, <1>12, <2>1, Zenon DEF n
<1>13. CASE ~(begin < n)
  <2>1. AfterOptions(frame, begin) = 0
    BY <1>1, <1>13 DEF AfterOptions, n
  <2>2. ~(begin + Len(list) <= n)
    BY <1>1, <1>11, <1>13
  <2> QED
    BY <1>9, <1>11, <2>1, <2>2, Zenon DEF n
<1> QED
  BY <1>12, <1>13

-----------------------------------------------------------------------------
(***************************************************************************)
(* The layout of a Connect-Request                                         *)
(***************************************************************************)

\* What comes last is read where the rest ends, and what was read still is.
LEMMA JoinedReads ==
  ASSUME NEW s \in Seq(Nat), NEW t \in Seq(Nat)
  PROVE  /\ s \o t \in Seq(Nat) /\ Len(s \o t) = Len(s) + Len(t)
         /\ Len(s) \in Nat /\ Len(t) \in Nat
         /\ Reads(s \o t, Len(s), t)
         /\ \A b \in Nat, u \in Seq(Nat) :
              Reads(s, b, u) /\ b + Len(u) <= Len(s) => Reads(s \o t, b, u)
<1>1. PICK m \in Nat, n \in Nat : m = Len(s) /\ n = Len(t)
  OBVIOUS
<1>2. PICK j : j = s \o t
  OBVIOUS
<1>3. /\ j \in Seq(Nat) /\ Len(j) = m + n
      /\ \A i \in 1 .. m : j[i] = s[i]
      /\ \A i \in 1 .. n : j[m + i] = t[i]
  BY <1>1, <1>2, JoinedAt
<1>4. Reads(j, m, t)
  BY <1>1, <1>3, Zenon DEF Reads
<1>5. ASSUME NEW b \in Nat, NEW u \in Seq(Nat), Reads(s, b, u), b + Len(u) <= Len(s)
      PROVE  Reads(j, b, u)
  <2>1. PICK k \in Nat : k = Len(u)
    OBVIOUS
  <2>2. \A i \in 1 .. k : b + i <= m => s[b + i] = u[i]
    BY <1>1, <1>5, <2>1, Zenon DEF Reads
  <2>3. b + k <= m
    BY <1>1, <1>5, <2>1
  <2>4. ASSUME NEW i \in 1 .. k PROVE j[b + i] = u[i]
    <3>1. b + i \in 1 .. m /\ b + i <= m
      BY <2>3
    <3> QED
      BY <1>3, <2>2, <3>1, Zenon
  <2> QED
    BY <2>1, <2>4, Zenon DEF Reads
<1> QED
  BY <1>1, <1>2, <1>3, <1>4, <1>5, Zenon

\* What a frame is cut off from is read in it as far as it goes.
LEMMA PrefixReads ==
  ASSUME NEW s \in Seq(Nat), NEW n \in 0 .. Len(s)
  PROVE  /\ SubSeq(s, 1, n) \in Seq(Nat) /\ Len(SubSeq(s, 1, n)) = n
         /\ \A i \in 1 .. n : SubSeq(s, 1, n)[i] = s[i]
         /\ \A b \in Nat, u \in Seq(Nat) : Reads(s, b, u) => Reads(SubSeq(s, 1, n), b, u)
<1>1. PICK m \in Nat : m = Len(s)
  OBVIOUS
<1>2. PICK f : f = SubSeq(s, 1, n)
  OBVIOUS
<1>3. /\ f \in Seq(Nat) /\ Len(f) = n /\ n \in Nat
      /\ \A i \in 1 .. n : f[i] = s[i]
  BY <1>2
<1>4. ASSUME NEW b \in Nat, NEW u \in Seq(Nat), Reads(s, b, u)
      PROVE  Reads(f, b, u)
  <2>1. PICK k \in Nat : k = Len(u)
    OBVIOUS
  <2>2. \A i \in 1 .. k : b + i <= m => s[b + i] = u[i]
    BY <1>1, <1>4, <2>1, Zenon DEF Reads
  <2>3. ASSUME NEW i \in 1 .. k, b + i <= n PROVE f[b + i] = u[i]
    <3>1. b + i \in 1 .. n /\ b + i <= m
      BY <1>1, <1>3, <2>3
    <3> QED
      BY <1>3, <2>2, <3>1, Zenon
  <2> QED
    BY <1>3, <2>1, <2>3, Zenon DEF Reads
<1> QED
  BY <1>2, <1>3, <1>4, Zenon

\* Each control flag is read as it was set.
FlagsRead(flags, a, b, c, d) ==
  /\ flags \in Nat
  /\ (Bit(flags, 8) <=> a) /\ (Bit(flags, 4) <=> b)
  /\ (Bit(flags, 2) <=> c) /\ (Bit(flags, 1) <=> d)

LEMMA FlagBits ==
  ASSUME NEW a \in BOOLEAN, NEW b \in BOOLEAN, NEW c \in BOOLEAN, NEW d \in BOOLEAN
  PROVE  FlagsRead(Flag(a, 8) + Flag(b, 4) + Flag(c, 2) + Flag(d, 1), a, b, c, d)
<1>1. PICK x \in 0 .. 1, y \in 0 .. 1, z \in 0 .. 1, w \in 0 .. 1 :
        (a <=> x = 1) /\ (b <=> y = 1) /\ (c <=> z = 1) /\ (d <=> w = 1)
  <2>1. \A e \in BOOLEAN : \E x \in 0 .. 1 : e <=> x = 1
    OBVIOUS
  <2> QED
    BY <2>1
<1>2. /\ Flag(a, 8) = 8 * x /\ Flag(b, 4) = 4 * y
      /\ Flag(c, 2) = 2 * z /\ Flag(d, 1) = w
  BY <1>1 DEF Flag
<1>3. PICK flags \in Nat : flags = 8 * x + 4 * y + 2 * z + w
  OBVIOUS
<1>4. /\ (Bit(flags, 8) <=> a) /\ (Bit(flags, 4) <=> b)
      /\ (Bit(flags, 2) <=> c) /\ (Bit(flags, 1) <=> d)
  BY <1>1, <1>3 DEF Bit
<1>5. Flag(a, 8) + Flag(b, 4) + Flag(c, 2) + Flag(d, 1) = flags
  BY <1>2, <1>3
<1> QED
  BY <1>4, <1>5, Zenon DEF FlagsRead

\* A list of options is octets, none for no options.
LEMMA OptionListFacts ==
  ASSUME NEW options \in Seq(Options)
  PROVE  OptionList(options) \in Seq(Nat) /\ (options = <<>> => OptionList(options) = <<>>)
<1>1. 1 \in 1 .. Len(options) + 1
  OBVIOUS
<1>2. OptionList(options) \in Seq(Nat)
  BY <1>1, OptionTailsFacts DEF OptionList
<1>3. options = <<>> => OptionList(options) = <<>>
  <2>1. options = <<>> => 1 > Len(options)
    OBVIOUS
  <2> QED
    BY <1>1, <2>1, OptionTailsUnfold, Zenon DEF OptionList
<1> QED
  BY <1>2, <1>3

\* Two parts joined, m and n octets long.
IsJoined(j, s, t, m, n) ==
  /\ j \in Seq(Nat) /\ j = s \o t /\ Len(j) = m + n /\ Reads(j, m, t)
  /\ \A b \in Nat, k \in Nat, u \in Seq(Nat) :
       Reads(s, b, u) /\ Len(u) = k /\ b + k <= m => Reads(j, b, u)

LEMMA PartsJoined ==
  ASSUME NEW s \in Seq(Nat), NEW t \in Seq(Nat), NEW m \in Nat, NEW n \in Nat,
         Len(s) = m, Len(t) = n
  PROVE  IsJoined(s \o t, s, t, m, n)
<1>1. /\ s \o t \in Seq(Nat) /\ Len(s \o t) = m + n /\ Reads(s \o t, m, t)
      /\ \A b \in Nat, u \in Seq(Nat) :
           Reads(s, b, u) /\ b + Len(u) <= m => Reads(s \o t, b, u)
  BY JoinedReads, Zenon
<1> QED
  BY <1>1, Zenon DEF IsJoined

HeaderType == [from : BOOLEAN, to : BOOLEAN, toOptions : Seq(Options), dataOptions : Seq(Options)]

\* Where the parts of a Connect-Request are.
LEMMA RequestLayout ==
  ASSUME NEW h \in HeaderType, NEW device \in 0 .. 99
  PROVE  LET request == ConnectRequest(h, device)
             first == 4 + Flag(h.from, 6) + Flag(h.to, 6)
             second == first + Len(OptionList(h.toOptions))
             last == second + Len(OptionList(h.dataOptions))
         IN  /\ request \in Seq(Nat) /\ Len(request) = last + 26
             /\ Len(HeaderOctets(h)) = last
             /\ first \in Nat /\ second \in Nat /\ last \in Nat
             /\ request[2] = Flag(h.from, 8) + Flag(h.to, 4)
                               + Flag(h.toOptions # <<>>, 2) + Flag(h.dataOptions # <<>>, 1)
             /\ Reads(request, first, OptionList(h.toOptions))
             /\ Reads(request, second, OptionList(h.dataOptions))
             /\ Reads(request, last, Payload(device))
<1>1. /\ h.from \in BOOLEAN /\ h.to \in BOOLEAN
      /\ h.toOptions \in Seq(Options) /\ h.dataOptions \in Seq(Options)
  BY DEF HeaderType
<1>2. PICK flags \in Nat : flags = Flag(h.from, 8) + Flag(h.to, 4)
                               + Flag(h.toOptions # <<>>, 2) + Flag(h.dataOptions # <<>>, 1)
  <2>1. (h.toOptions # <<>>) \in BOOLEAN /\ (h.dataOptions # <<>>) \in BOOLEAN
    OBVIOUS
  <2> QED
    BY <1>1, <2>1, FlagBits, Zenon DEF FlagsRead
<1>3. \A present \in BOOLEAN : /\ Vmac(present) \in Seq(Nat)
                               /\ Len(Vmac(present)) = Flag(present, 6)
                               /\ Flag(present, 6) \in Nat
  <2>1. [i \in 1 .. 6 |-> 255] \in Seq(Nat) /\ Len([i \in 1 .. 6 |-> 255]) = 6
    OBVIOUS
  <2>2. <<>> \in Seq(Nat) /\ Len(<<>>) = 0
    OBVIOUS
  <2> QED
    BY <2>1, <2>2 DEF Vmac, Flag
<1>4. PICK one \in Seq(Nat), two \in Seq(Nat), three \in Seq(Nat), four \in Seq(Nat),
           five \in Seq(Nat), six \in Seq(Nat) :
        /\ one = <<6, flags, 0, 1>> /\ two = Vmac(h.from) /\ three = Vmac(h.to)
        /\ four = OptionList(h.toOptions) /\ five = OptionList(h.dataOptions)
        /\ six = Payload(device)
  <2>1. <<6, flags, 0, 1>> \in Seq(Nat)
    OBVIOUS
  <2>2. Payload(device) \in Seq(Nat)
    BY DEF Payload
  <2>3. OptionList(h.toOptions) \in Seq(Nat) /\ OptionList(h.dataOptions) \in Seq(Nat)
    BY <1>1, OptionListFacts
  <2> QED
    BY <1>1, <1>3, <2>1, <2>2, <2>3, Zenon
<1>5. /\ Len(one) = 4 /\ one[2] = flags /\ Len(six) = 26
      /\ Len(two) = Flag(h.from, 6) /\ Len(three) = Flag(h.to, 6)
  <2>1. Len(one) = 4 /\ one[2] = flags
    BY <1>4
  <2>2. Len(Payload(device)) = 26
    BY DEF Payload
  <2> QED
    BY <1>1, <1>3, <1>4, <2>1, <2>2, Zenon
<1>6. PICK n2 \in Nat, n3 \in Nat, n4 \in Nat, n5 \in Nat :
        Len(two) = n2 /\ Len(three) = n3 /\ Len(four) = n4 /\ Len(five) = n5
  OBVIOUS
<1>7. PICK m2 \in Nat, m3 \in Nat, m4 \in Nat, m5 \in Nat :
        /\ m2 = 4 + n2 /\ m3 = 4 + n2 + n3 /\ m4 = 4 + n2 + n3 + n4
        /\ m5 = 4 + n2 + n3 + n4 + n5
        /\ m3 = m2 + n3 /\ m4 = m3 + n4 /\ m5 = m4 + n5
        /\ 0 + 4 <= 4 /\ 0 + 4 <= m2 /\ 0 + 4 <= m3 /\ 0 + 4 <= m4 /\ 0 + 4 <= m5
        /\ m3 + n4 <= m4 /\ m3 + n4 <= m5 /\ m4 + n5 <= m5
        /\ 0 \in Nat /\ 4 \in Nat /\ 26 \in Nat
  OBVIOUS
<1>11. PICK j2 : j2 = one \o two /\ IsJoined(j2, one, two, 4, n2)
  BY <1>5, <1>6, <1>7, PartsJoined, Zenon
<1>12. PICK j3 : j3 = j2 \o three /\ IsJoined(j3, j2, three, m2, n3)
  <2>1. j2 \in Seq(Nat) /\ Len(j2) = m2
    BY <1>7, <1>11, Zenon DEF IsJoined
  <2> QED
    BY <1>6, <2>1, PartsJoined, Zenon
<1>13. PICK j4 : j4 = j3 \o four /\ IsJoined(j4, j3, four, m3, n4)
  <2>1. j3 \in Seq(Nat) /\ Len(j3) = m3
    BY <1>7, <1>12, Zenon DEF IsJoined
  <2> QED
    BY <1>6, <2>1, PartsJoined, Zenon
<1>14. PICK header : header = j4 \o five /\ IsJoined(header, j4, five, m4, n5)
  <2>1. j4 \in Seq(Nat) /\ Len(j4) = m4
    BY <1>7, <1>13, Zenon DEF IsJoined
  <2> QED
    BY <1>6, <2>1, PartsJoined, Zenon
<1>15. header \in Seq(Nat) /\ Len(header) = m5
  BY <1>7, <1>14, Zenon DEF IsJoined
<1>16. PICK request : request = header \o six /\ IsJoined(request, header, six, m5, 26)
  BY <1>5, <1>7, <1>15, PartsJoined, Zenon
<1>17. request \in Seq(Nat) /\ Len(request) = m5 + 26 /\ Reads(request, m5, six)
  BY <1>16, Zenon DEF IsJoined
<1>18. Reads(request, 0, one)
  <2>1. Reads(one, 0, one)
    <3>1. \A i \in 1 .. 4 : 0 + i = i
      OBVIOUS
    <3> QED
      BY <1>5, <3>1, Zenon DEF Reads
  <2>2. Reads(j2, 0, one)
    BY <1>5, <1>7, <1>11, <2>1, Zenon DEF IsJoined
  <2>3. Reads(j3, 0, one)
    BY <1>5, <1>7, <1>12, <2>2, Zenon DEF IsJoined
  <2>4. Reads(j4, 0, one)
    BY <1>5, <1>7, <1>13, <2>3, Zenon DEF IsJoined
  <2>5. Reads(header, 0, one)
    BY <1>5, <1>7, <1>14, <2>4, Zenon DEF IsJoined
  <2> QED
    BY <1>5, <1>7, <1>16, <2>5, Zenon DEF IsJoined
<1>19. Reads(request, m3, four) /\ Reads(request, m4, five)
  <2>1. Reads(j4, m3, four)
    BY <1>13, Zenon DEF IsJoined
  <2>2. Reads(header, m3, four)
    BY <1>6, <1>7, <1>14, <2>1, Zenon DEF IsJoined
  <2>3. Reads(header, m4, five)
    BY <1>14, Zenon DEF IsJoined
  <2> QED
    BY <1>6, <1>7, <1>16, <2>2, <2>3, Zenon DEF IsJoined
<1>20. header = HeaderOctets(h) /\ request = ConnectRequest(h, device)
  <2>1. header = HeaderOctets(h)
    BY <1>2, <1>4, <1>11, <1>12, <1>13, <1>14, Zenon DEF HeaderOctets
  <2> QED
    BY <1>4, <1>16, <2>1, Zenon DEF ConnectRequest
<1>21. request[2] = flags
  <2>1. 2 \in 1 .. 4 /\ 0 + 2 <= m5 + 26 /\ 0 + 2 = 2
    OBVIOUS
  <2>2. 0 + 2 <= Len(request) /\ 2 \in 1 .. Len(one)
    BY <1>5, <1>17, <2>1, Zenon
  <2>3. request[0 + 2] = one[2]
    BY <1>18, <2>2, Zenon DEF Reads
  <2> QED
    BY <1>5, <2>1, <2>3, Zenon
<1>22. m3 = 4 + Flag(h.from, 6) + Flag(h.to, 6) /\ m4 = m3 + Len(OptionList(h.toOptions))
       /\ m5 = m4 + Len(OptionList(h.dataOptions))
  BY <1>4, <1>5, <1>6, <1>7, Zenon
<1> QED
  BY <1>2, <1>4, <1>15, <1>17, <1>19, <1>20, <1>21, <1>22, Zenon

\* What a list is passed to: its end, or 0 when the frame ends before.
ListAfter(frame, options, begin) ==
  IF options # <<>> THEN AfterOptions(frame, begin) ELSE begin

IsPassed(after, end, length) == after \in {0, end} /\ (end <= length => after = end)

LEMMA ListIsPassed ==
  ASSUME NEW frame \in Seq(Nat), NEW options \in Seq(Options), NEW begin \in Nat, NEW end \in Nat,
         Reads(frame, begin, OptionList(options)), end = begin + Len(OptionList(options))
  PROVE  IsPassed(ListAfter(frame, options, begin), end, Len(frame))
<1>1. CASE options # <<>>
  <2>1. LET stop == begin + Len(OptionList(options))
        IN  /\ AfterOptions(frame, begin) \in {0, stop}
            /\ stop <= Len(frame) => AfterOptions(frame, begin) = stop
    BY <1>1, OptionListIsSkipped, Zenon
  <2> QED
    BY <1>1, <2>1, Zenon DEF IsPassed, ListAfter
<1>2. CASE options = <<>>
  <2>1. OptionList(options) = <<>>
    BY <1>2, OptionListFacts, Zenon
  <2>2. Len(<<>>) = 0
    OBVIOUS
  <2>3. Len(OptionList(options)) = 0
    BY <2>1, <2>2, Zenon
  <2>4. begin + 0 = begin
    OBVIOUS
  <2>5. end = begin
    BY <2>3, <2>4, Zenon
  <2> QED
    BY <1>2, <2>5 DEF IsPassed, ListAfter
<1> QED
  BY <1>1, <1>2

-----------------------------------------------------------------------------
(***************************************************************************)
(* What the audit trail reads                                              *)
(***************************************************************************)

\* A Connect-Request cut off anywhere: the walk over its header finds the payload,
\* or nothing when it is cut off before it.
LEMMA PayloadIsFound ==
  ASSUME NEW h \in HeaderType, NEW device \in 0 .. 99,
         NEW length \in 0 .. Len(ConnectRequest(h, device))
  PROVE  LET offset == BvlcPayloadOffset(SubSeq(ConnectRequest(h, device), 1, length))
         IN  IsPassed(offset, Len(HeaderOctets(h)), length)
<1> DEFINE request == ConnectRequest(h, device)
<1>1. PICK first \in Nat, second \in Nat, last \in Nat, list1 \in Seq(Nat), list2 \in Seq(Nat),
           whole \in Seq(Nat) :
        /\ first = 4 + Flag(h.from, 6) + Flag(h.to, 6)
        /\ list1 = OptionList(h.toOptions) /\ list2 = OptionList(h.dataOptions)
        /\ second = first + Len(list1) /\ last = second + Len(list2)
        /\ whole = request /\ Len(whole) = last + 26 /\ Len(HeaderOctets(h)) = last
        /\ whole[2] = Flag(h.from, 8) + Flag(h.to, 4)
                        + Flag(h.toOptions # <<>>, 2) + Flag(h.dataOptions # <<>>, 1)
        /\ Reads(whole, first, list1)
        /\ Reads(whole, second, list2)
        /\ first >= 4
  <2>1. h.toOptions \in Seq(Options) /\ h.dataOptions \in Seq(Options)
        /\ h.from \in BOOLEAN /\ h.to \in BOOLEAN
    BY DEF HeaderType
  <2>2. OptionList(h.toOptions) \in Seq(Nat) /\ OptionList(h.dataOptions) \in Seq(Nat)
    BY <2>1, OptionListFacts
  <2>3. 4 + Flag(h.from, 6) + Flag(h.to, 6) >= 4
    BY <2>1 DEF Flag
  <2> QED
    BY <2>2, <2>3, RequestLayout, Zenon
<1>2. /\ h.toOptions \in Seq(Options) /\ h.dataOptions \in Seq(Options)
      /\ h.from \in BOOLEAN /\ h.to \in BOOLEAN
      /\ (h.toOptions # <<>>) \in BOOLEAN /\ (h.dataOptions # <<>>) \in BOOLEAN
  BY DEF HeaderType
<1>3. length \in 0 .. last + 26 /\ length \in Nat
  BY <1>1
<1>4. PICK frame \in Seq(Nat) :
        /\ frame = SubSeq(whole, 1, length) /\ Len(frame) = length
        /\ \A i \in 1 .. length : frame[i] = whole[i]
        /\ Reads(frame, first, list1) /\ Reads(frame, second, list2)
  <2>1. length \in 0 .. Len(whole)
    BY <1>1
  <2>2. SubSeq(whole, 1, length) \in Seq(Nat)
    BY <2>1, PrefixReads, Zenon
  <2>3. Len(SubSeq(whole, 1, length)) = length
    BY <2>1, PrefixReads, Zenon
  <2>4. \A i \in 1 .. length : SubSeq(whole, 1, length)[i] = whole[i]
    BY <2>1, PrefixReads, Zenon
  <2>5. \A b \in Nat, u \in Seq(Nat) : Reads(whole, b, u) => Reads(SubSeq(whole, 1, length), b, u)
    BY <2>1, PrefixReads, Zenon
  <2> QED
    BY <1>1, <2>2, <2>3, <2>4, <2>5, Zenon
<1> DEFINE offset == BvlcPayloadOffset(frame)
<1> SUFFICES IsPassed(offset, last, length)
  BY <1>1, <1>4, Zenon
<1> HIDE DEF request
<1>5. PICK n1 \in Nat, n2 \in Nat :
        /\ n1 = Len(list1) /\ n2 = Len(list2) /\ second = first + n1 /\ last = second + n2
  <2>1. Len(list1) \in Nat /\ Len(list2) \in Nat
    OBVIOUS
  <2> QED
    BY <1>1, <2>1, Zenon
<1>6. first >= 4 /\ second >= 4 /\ last >= 4 /\ second <= last /\ second # 0
  <2>1. first >= 4 /\ second = first + n1 /\ last = second + n2
    BY <1>1, <1>5, Zenon
  <2> QED
    BY <2>1
<1>7. CASE length < 4
  <2>1. offset = 0
    BY <1>4, <1>7, Zenon DEF BvlcPayloadOffset
  <2>2. ~(last <= length)
    BY <1>3, <1>6, <1>7
  <2> QED
    BY <2>1, <2>2 DEF IsPassed
<1>8. CASE ~(length < 4)
  <2>1. PICK flags : flags = frame[2]
    OBVIOUS
  <2>2. /\ (Bit(flags, 8) <=> h.from) /\ (Bit(flags, 4) <=> h.to)
        /\ (Bit(flags, 2) <=> h.toOptions # <<>>) /\ (Bit(flags, 1) <=> h.dataOptions # <<>>)
    <3>1. 2 \in 1 .. length
      BY <1>3, <1>8
    <3>2. flags = Flag(h.from, 8) + Flag(h.to, 4)
                    + Flag(h.toOptions # <<>>, 2) + Flag(h.dataOptions # <<>>, 1)
      BY <1>1, <1>4, <2>1, <3>1, Zenon
    <3>3. PICK a \in BOOLEAN, b \in BOOLEAN, c \in BOOLEAN, d \in BOOLEAN :
            /\ a = h.from /\ b = h.to /\ c = (h.toOptions # <<>>) /\ d = (h.dataOptions # <<>>)
      BY <1>2, Zenon
    <3>4. flags = Flag(a, 8) + Flag(b, 4) + Flag(c, 2) + Flag(d, 1)
      BY <3>2, <3>3, Zenon
    <3>5. /\ (Bit(flags, 8) <=> a) /\ (Bit(flags, 4) <=> b)
          /\ (Bit(flags, 2) <=> c) /\ (Bit(flags, 1) <=> d)
      <4>1. FlagsRead(Flag(a, 8) + Flag(b, 4) + Flag(c, 2) + Flag(d, 1), a, b, c, d)
        BY FlagBits, Zenon
      <4> QED
        BY <3>4, <4>1, Zenon DEF FlagsRead
    <3> QED
      BY <3>3, <3>5, Zenon
  <2> DEFINE after1 == ListAfter(frame, h.toOptions, first)
             after2 == IF after1 # 0 THEN ListAfter(frame, h.dataOptions, after1) ELSE after1
  <2>3. IsPassed(after1, second, length)
    <3>1. Reads(frame, first, OptionList(h.toOptions))
          /\ second = first + Len(OptionList(h.toOptions))
      BY <1>1, <1>4, Zenon
    <3>2. IsPassed(after1, second, Len(frame))
      BY <1>2, <3>1, ListIsPassed, Zenon
    <3> QED
      BY <1>4, <3>2, Zenon
  <2>4. after1 = second => IsPassed(after2, last, length)
    <3>1. IsPassed(ListAfter(frame, h.dataOptions, second), last, length)
      <4>1. Reads(frame, second, OptionList(h.dataOptions))
            /\ last = second + Len(OptionList(h.dataOptions))
        BY <1>1, <1>4, Zenon
      <4>2. IsPassed(ListAfter(frame, h.dataOptions, second), last, Len(frame))
        BY <1>2, <4>1, ListIsPassed, Zenon
      <4> QED
        BY <1>4, <4>2, Zenon
    <3>2. after1 = second => after2 = ListAfter(frame, h.dataOptions, second)
      BY <1>6, Zenon
    <3> HIDE DEF after1, after2
    <3> QED
      BY <3>1, <3>2, Zenon
  <2>5. after1 = 0 => IsPassed(after2, last, length)
    <3>1. after1 = 0 => after2 = 0
      BY Zenon
    <3>2. after1 = 0 => ~(second <= length)
      <4> HIDE DEF after1
      <4> QED
        BY <1>6, <2>3, Zenon DEF IsPassed
    <3>3. ~(second <= length) => ~(last <= length)
      BY <1>3, <1>6
    <3> HIDE DEF after1, after2
    <3> QED
      BY <3>1, <3>2, <3>3 DEF IsPassed
  <2>6. offset = IF after2 <= length THEN after2 ELSE 0
    <3>1. /\ Flag(Bit(flags, 8), 6) = Flag(h.from, 6)
          /\ Flag(Bit(flags, 4), 6) = Flag(h.to, 6)
      BY <2>2, Zenon DEF Flag
    <3>2. first = 4 + Flag(Bit(flags, 8), 6) + Flag(Bit(flags, 4), 6)
      BY <1>1, <3>1, Zenon
    <3>3. after1 = IF Bit(flags, 2) THEN AfterOptions(frame, first) ELSE first
      BY <2>2, Zenon DEF ListAfter
    <3>4. after2 = IF Bit(flags, 1) /\ after1 # 0 THEN AfterOptions(frame, after1) ELSE after1
      <4> HIDE DEF after1
      <4> QED
        BY <2>2, Zenon DEF ListAfter
    <3> HIDE DEF after1, after2
    <3> QED
      BY <1>4, <1>8, <2>1, <3>2, <3>3, <3>4, Zenon DEF BvlcPayloadOffset
  <2> HIDE DEF after1, after2, offset
  <2>7. IsPassed(after2, last, length)
    BY <2>3, <2>4, <2>5, Zenon DEF IsPassed
  <2> QED
    BY <1>3, <2>6, <2>7, Zenon DEF IsPassed
<1> QED
  BY <1>7, <1>8

\* Six octets and sixteen of the payload tell the device.
LEMMA IdentityIsRead ==
  ASSUME NEW frame \in Seq(Nat), NEW last \in Nat, NEW device \in 0 .. 99,
         Reads(frame, last, Payload(device)), last + 22 <= Len(frame)
  PROVE  [vmac |-> SubSeq(frame, last + 1, last + 6), uuid |-> SubSeq(frame, last + 7, last + 22)]
           = Identity(device)
<1>1. PICK n \in Nat : n = Len(frame)
  OBVIOUS
<1>2. last + 22 <= n
  BY <1>1
<1>3. \A i \in 1 .. 22 : frame[last + i] = IF i <= 6 THEN device ELSE 100 + device
  <2> SUFFICES ASSUME NEW i \in 1 .. 22
               PROVE  frame[last + i] = IF i <= 6 THEN device ELSE 100 + device
    OBVIOUS
  <2>1. i \in 1 .. 26 /\ i <= 22 /\ last + i <= n
    BY <1>2
  <2>2. Len(Payload(device)) = 26
    BY DEF Payload
  <2>3. frame[last + i] = Payload(device)[i]
    BY <1>1, <2>1, <2>2, Zenon DEF Reads
  <2>4. Payload(device)[i] = IF i <= 6 THEN device ELSE 100 + device
    BY <2>1, Zenon DEF Payload
  <2> QED
    BY <2>3, <2>4, Zenon
<1>4. SubSeq(frame, last + 1, last + 6) = [i \in 1 .. 6 |-> device]
  <2>1. \A i \in 1 .. 6 : frame[last + i] = device
    <3>1. \A i \in 1 .. 6 : i \in 1 .. 22 /\ i <= 6
      OBVIOUS
    <3> QED
      BY <1>3, <3>1, Zenon
  <2>2. \A i \in (last + 1) .. (last + 6) : frame[i] \in {device}
    <3> SUFFICES ASSUME NEW i \in (last + 1) .. (last + 6) PROVE frame[i] = device
      OBVIOUS
    <3>1. i - last \in 1 .. 6 /\ last + (i - last) = i
      OBVIOUS
    <3> QED
      BY <2>1, <3>1, Zenon
  <2> DEFINE t == SubSeq(frame, last + 1, last + 6)
  <2>3. t \in Seq({device}) /\ Len(t) = IF last + 1 <= last + 6 THEN last + 6 - (last + 1) + 1 ELSE 0
    BY <2>2, SubSeqProperties
  <2> HIDE DEF t
  <2>9. last + 1 <= last + 6 /\ last + 6 - (last + 1) + 1 = 6
    OBVIOUS
  <2>4. Len(t) = 6
    BY <2>3, <2>9
  <2>5. t = [i \in 1 .. 6 |-> t[i]] /\ \A i \in 1 .. 6 : t[i] \in {device}
    <3>1. t \in [1 .. 6 -> {device}]
      BY <2>3, <2>4, LenProperties, Zenon
    <3> QED
      BY <3>1
  <2>6. t = [i \in 1 .. 6 |-> device]
    BY <2>5
  <2> QED
    BY <2>6 DEF t
<1>5. SubSeq(frame, last + 7, last + 22) = [i \in 1 .. 16 |-> 100 + device]
  <2> DEFINE named == 100 + device
  <2>1. \A i \in 7 .. 22 : frame[last + i] = named
    <3>1. \A i \in 7 .. 22 : i \in 1 .. 22 /\ ~(i <= 6)
      OBVIOUS
    <3> QED
      BY <1>3, <3>1, Zenon
  <2> HIDE DEF named
  <2>2. \A i \in (last + 7) .. (last + 22) : frame[i] \in {named}
    <3> SUFFICES ASSUME NEW i \in (last + 7) .. (last + 22) PROVE frame[i] = named
      OBVIOUS
    <3>1. i - last \in 7 .. 22 /\ last + (i - last) = i
      OBVIOUS
    <3> QED
      BY <2>1, <3>1, Zenon
  <2> DEFINE t == SubSeq(frame, last + 7, last + 22)
  <2>3. t \in Seq({named}) /\ Len(t) = IF last + 7 <= last + 22 THEN last + 22 - (last + 7) + 1 ELSE 0
    BY <2>2, SubSeqProperties
  <2> HIDE DEF t
  <2>9. last + 7 <= last + 22 /\ last + 22 - (last + 7) + 1 = 16
    OBVIOUS
  <2>4. Len(t) = 16
    BY <2>3, <2>9
  <2>5. t = [i \in 1 .. 16 |-> t[i]] /\ \A i \in 1 .. 16 : t[i] \in {named}
    <3>1. t \in [1 .. 16 -> {named}]
      BY <2>3, <2>4, LenProperties, Zenon
    <3> QED
      BY <3>1
  <2>6. t = [i \in 1 .. 16 |-> named]
    BY <2>5
  <2> QED
    BY <2>6 DEF t, named
<1> QED
  BY <1>4, <1>5, Zenon DEF Identity

\* What is recorded when a Connect-Request, cut off anywhere, arrives: nothing new, or
\* the device it names; that for certain when it is whole and not yet accepted.
LEMMA AuditedIdentity ==
  ASSUME NEW h \in HeaderType, NEW device \in 0 .. 99,
         NEW length \in 0 .. Len(ConnectRequest(h, device)), NEW p
  PROVE  LET who == AuditReceivedFrame(p, SubSeq(ConnectRequest(h, device), 1, length))
         IN  /\ who \in {p.who, Identity(device)}
             /\ ~p.accepted /\ length = Len(ConnectRequest(h, device)) => who = Identity(device)
<1>1. PICK request \in Seq(Nat), last \in Nat \ {0} :
        /\ request = ConnectRequest(h, device) /\ last = Len(HeaderOctets(h))
        /\ Len(request) = last + 26 /\ Reads(request, last, Payload(device))
  <2>1. Len(HeaderOctets(h)) \in Nat \ {0}
    <3>1. h.from \in BOOLEAN /\ h.to \in BOOLEAN
          /\ h.toOptions \in Seq(Options) /\ h.dataOptions \in Seq(Options)
      BY DEF HeaderType
    <3>2. Flag(h.from, 6) \in Nat /\ Flag(h.to, 6) \in Nat
      BY <3>1 DEF Flag
    <3>3. PICK n1 \in Nat, n2 \in Nat :
            n1 = Len(OptionList(h.toOptions)) /\ n2 = Len(OptionList(h.dataOptions))
      <4>1. OptionList(h.toOptions) \in Seq(Nat) /\ OptionList(h.dataOptions) \in Seq(Nat)
        BY <3>1, OptionListFacts
      <4> QED
        BY <4>1, LenProperties
    <3>4. Len(HeaderOctets(h)) = ((4 + Flag(h.from, 6) + Flag(h.to, 6)) + n1) + n2
      BY <3>3, RequestLayout, Zenon
    <3> QED
      BY <3>2, <3>4
  <2> QED
    BY <2>1, RequestLayout, Zenon
<1>2. length \in 0 .. Len(request) /\ length \in Nat
  BY <1>1
<1>3. PICK frame \in Seq(Nat) :
        /\ frame = SubSeq(request, 1, length) /\ Len(frame) = length
        /\ Reads(frame, last, Payload(device))
  <2>1. Payload(device) \in Seq(Nat)
    BY DEF Payload
  <2>2. SubSeq(request, 1, length) \in Seq(Nat)
    BY <1>2, PrefixReads, Zenon
  <2>3. Len(SubSeq(request, 1, length)) = length
    BY <1>2, PrefixReads, Zenon
  <2>4. \A b \in Nat, u \in Seq(Nat) : Reads(request, b, u) => Reads(SubSeq(request, 1, length), b, u)
    BY <1>2, PrefixReads, Zenon
  <2> QED
    BY <1>1, <2>1, <2>2, <2>3, <2>4, Zenon
<1>4. PICK offset : offset = BvlcPayloadOffset(frame) /\ IsPassed(offset, last, length)
  BY <1>1, <1>3, PayloadIsFound, Zenon
<1> DEFINE who == AuditReceivedFrame(p, frame)
<1>5. who = IF p.accepted \/ offset = 0 \/ length < offset + 22 THEN p.who
            ELSE [vmac |-> SubSeq(frame, offset + 1, offset + 6),
                  uuid |-> SubSeq(frame, offset + 7, offset + 22)]
  BY <1>3, <1>4, Zenon DEF AuditReceivedFrame
<1>6. last + 22 <= length =>
        [vmac |-> SubSeq(frame, last + 1, last + 6), uuid |-> SubSeq(frame, last + 7, last + 22)]
          = Identity(device)
  BY <1>3, IdentityIsRead, Zenon
<1>7. ~(length < last + 22) => last + 22 <= length
  BY <1>2
<1>8. length = Len(request) => ~(length < last + 22) /\ last <= length
  BY <1>1
<1> HIDE DEF who
<1>9. who \in {p.who, Identity(device)}
  BY <1>4, <1>5, <1>6, <1>7, Zenon DEF IsPassed
<1>10. ~p.accepted /\ length = Len(request) => who = Identity(device)
  BY <1>4, <1>5, <1>6, <1>7, <1>8, Zenon DEF IsPassed
<1> QED
  BY <1>1, <1>3, <1>9, <1>10, Zenon DEF who

-----------------------------------------------------------------------------
(***************************************************************************)
(* The inductive invariant                                                 *)
(***************************************************************************)

Names == {Nobody} \cup {Identity(device) : device \in Devices}
MemberType == [who : Names, accepted : BOOLEAN, closing : BOOLEAN, frames : Nat]
RequestType == [from : Nat, whole : BOOLEAN]

\* No connection, in the table or with a request in the queue, is numbered ahead.
NumbersAreUsed ==
  /\ nextMember \in Nat
  /\ \A c \in Open \cup hub : c \in Nat /\ c < nextMember
  /\ requests \in Seq(RequestType)
  /\ \A i \in 1 .. Len(requests) : requests[i].from < nextMember

MembersAreTyped == members \in [Open -> MemberType]

\* Who sent a request the stack can accept is recorded before the stack reads it.
RequestsAreRecorded ==
  \A i \in 1 .. Len(requests) :
    requests[i].whole /\ requests[i].from \in Open =>
      members[requests[i].from].accepted \/ members[requests[i].from].who # Nobody

\* Accepted are those of the stack's table and, besides, only peers being closed.
AcceptedAreInTheHub ==
  /\ \A c \in Open : members[c].accepted => c \in welcomed \/ members[c].closing
  /\ \A c \in hub \cap Open : members[c].accepted
  /\ \A c \in Open \ hub : members[c].accepted => members[c].closing
  /\ turn = "check" => hub \subseteq Open

AdmissionInv ==
  /\ NumbersAreUsed /\ MembersAreTyped
  /\ AuditNamesADevice /\ RequestsAreRecorded /\ AcceptedAreInTheHub

LEMMA AdmissionStarts == AdmissionInit => AdmissionInv
<1> SUFFICES ASSUME AdmissionInit PROVE AdmissionInv
  OBVIOUS
<1>1. Open = {} /\ members = <<>> /\ <<>> \in [{} -> MemberType] /\ Len(<<>>) = 0
  BY DEF AdmissionInit, Open
<1> QED
  BY <1>1 DEF AdmissionInit, AdmissionInv, NumbersAreUsed, MembersAreTyped, AuditNamesADevice,
     RequestsAreRecorded, AcceptedAreInTheHub, RequestType

\* What a frame does to the peer it is sent to.
LEMMA SendFacts ==
  ASSUME MembersAreTyped, NEW c \in Open, NEW frame, Send(c, frame)
  PROVE  /\ Open' = Open /\ members' \in [Open -> MemberType]
         /\ \A d \in Open \ {c} : members'[d] = members[d]
         /\ members'[c].who = members[c].who
         /\ members'[c].accepted
              = (members[c].accepted \/ (AwaitsAnswer(members[c]) /\ frame = "accept"))
         /\ members[c].closing \/ ~IsQueued(members[c]) => members'[c].closing
         /\ welcomed \subseteq welcomed'
         /\ frame = "accept" /\ IsQueued(members[c]) => c \in welcomed'
<1>1. PICK p \in MemberType : p = members[c]
  BY DEF MembersAreTyped
<1>2. PICK a \in BOOLEAN : a = (p.accepted \/ (AwaitsAnswer(p) /\ frame = "accept"))
  BY <1>1
<1>3. PICK q : q = AuditSentFrame(p, frame)
  OBVIOUS
<1>4. q = [who |-> p.who, accepted |-> a, closing |-> p.closing, frames |-> p.frames]
  BY <1>2, <1>3 DEF AuditSentFrame, MemberType
<1>5. q \in MemberType /\ q.who = p.who /\ q.accepted = a /\ q.closing = p.closing
      /\ q.frames = p.frames
  BY <1>4 DEF MemberType
<1>6. PICK r : r = EnqueueFrame(q)
  OBVIOUS
<1>7. r \in MemberType /\ r.who = p.who /\ r.accepted = a
      /\ (p.closing \/ ~IsQueued(p) => r.closing)
  <2>1. CASE q.closing
    BY <1>5, <1>6, <2>1 DEF EnqueueFrame
  <2>2. CASE ~q.closing /\ q.frames >= MaxTxFrames
    BY <1>5, <1>6, <2>2 DEF EnqueueFrame, MemberType
  <2>3. CASE ~q.closing /\ ~(q.frames >= MaxTxFrames)
    <3>1. r = [q EXCEPT !.frames = @ + 1]
      BY <1>6, <2>3 DEF EnqueueFrame
    <3>2. q.frames \in Nat /\ q.frames + 1 \in Nat
      BY <1>5 DEF MemberType
    <3>3. r \in MemberType /\ r.who = p.who /\ r.accepted = a
      BY <1>5, <3>1, <3>2 DEF MemberType
    <3>4. IsQueued(p)
      BY <1>5, <2>3, <3>2, AdmissionAssumption DEF IsQueued
    <3> QED
      BY <1>5, <2>3, <3>3, <3>4
  <2> QED
    BY <2>1, <2>2, <2>3
<1>8. members' = [members EXCEPT ![c] = r]
  BY <1>1, <1>3, <1>6 DEF Send
<1>9. /\ Open' = Open /\ members' \in [Open -> MemberType]
      /\ \A d \in Open \ {c} : members'[d] = members[d]
      /\ members'[c] = r
  BY <1>7, <1>8 DEF MembersAreTyped, Open
<1>10. /\ welcomed \subseteq welcomed'
       /\ frame = "accept" /\ IsQueued(members[c]) => c \in welcomed'
  BY DEF Send
<1> QED
  BY <1>1, <1>2, <1>7, <1>9, <1>10, Zenon

\* A step that leaves the queue and the numbers alone and takes from no peer its
\* name or its place keeps what is known of peers and requests.
LEMMA PeersKeepTheirNames ==
  ASSUME AdmissionInv, Open' \subseteq Open, members' \in [Open' -> MemberType],
         UNCHANGED <<nextMember, requests, sentBy>>, hub' \subseteq hub \cup Open,
         \A c \in Open' : /\ members'[c].who = members[c].who
                          /\ members[c].accepted => members'[c].accepted
  PROVE  NumbersAreUsed' /\ MembersAreTyped' /\ AuditNamesADevice' /\ RequestsAreRecorded'
<1>1. NumbersAreUsed' /\ MembersAreTyped'
  BY DEF AdmissionInv, NumbersAreUsed, MembersAreTyped
<1>2. AuditNamesADevice'
  BY DEF AdmissionInv, AuditNamesADevice
<1>3. RequestsAreRecorded'
  BY DEF AdmissionInv, RequestsAreRecorded
<1> QED
  BY <1>1, <1>2, <1>3

LEMMA ReadKeepsInv == AdmissionInv /\ StackReads => AdmissionInv'
<1> SUFFICES ASSUME AdmissionInv, StackReads PROVE AdmissionInv'
  OBVIOUS
<1>1. PICK c : c = Head(requests).from
  OBVIOUS
<1>2. /\ requests # <<>> /\ requests' = Tail(requests)
      /\ turn = "tick" /\ UNCHANGED <<nextMember, turn, sentBy>>
  BY DEF StackReads
<1>3. /\ requests \in Seq(RequestType) /\ Len(requests) \in Nat \ {0}
      /\ Head(requests) = requests[1]
  BY <1>2 DEF AdmissionInv, NumbersAreUsed
<1>4. /\ Tail(requests) \in Seq(RequestType)
      /\ \A i \in 1 .. Len(Tail(requests)) :
           /\ i + 1 \in 1 .. Len(requests)
           /\ Tail(requests)[i] = requests[i + 1]
  BY <1>2, <1>3
<1>5. Head(requests).whole /\ c \in Open => members[c].accepted \/ members[c].who # Nobody
  <2>1. 1 \in 1 .. Len(requests)
    BY <1>3
  <2> QED
    BY <1>1, <1>3, <2>1, Zenon DEF AdmissionInv, RequestsAreRecorded
<1> DEFINE Stays == /\ Open' = Open /\ members' \in [Open -> MemberType]
                    /\ \A d \in Open : /\ members'[d].who = members[d].who
                                       /\ members[d].accepted => members'[d].accepted
                    /\ hub' \subseteq hub \cup Open
<1>6. Stays => NumbersAreUsed' /\ MembersAreTyped' /\ AuditNamesADevice' /\ RequestsAreRecorded'
  <2> SUFFICES ASSUME Stays
               PROVE  NumbersAreUsed' /\ MembersAreTyped' /\ AuditNamesADevice' /\ RequestsAreRecorded'
    OBVIOUS
  <2>1. NumbersAreUsed'
    <3>1. \A i \in 1 .. Len(requests') : requests'[i].from < nextMember
      BY <1>2, <1>4, Zenon DEF AdmissionInv, NumbersAreUsed
    <3> QED
      BY <1>2, <1>4, <3>1 DEF AdmissionInv, NumbersAreUsed
  <2>2. MembersAreTyped' /\ AuditNamesADevice'
    BY <1>2 DEF AdmissionInv, MembersAreTyped, AuditNamesADevice
  <2>3. RequestsAreRecorded'
    <3> SUFFICES ASSUME NEW i \in 1 .. Len(requests'), requests'[i].whole, requests'[i].from \in Open'
                 PROVE  members'[requests'[i].from].accepted \/ members'[requests'[i].from].who # Nobody
      BY DEF RequestsAreRecorded
    <3>1. i + 1 \in 1 .. Len(requests) /\ requests'[i] = requests[i + 1]
      BY <1>2, <1>4
    <3> QED
      BY <3>1, Zenon DEF AdmissionInv, RequestsAreRecorded
  <2> QED
    BY <2>1, <2>2, <2>3
<1>7. AcceptedAreInTheHub
  BY DEF AdmissionInv
<1>8. CASE c \in Open /\ StackAccepts(c)
  <2>1. Send(c, "accept") /\ Head(requests).whole
        /\ hub' \in {hub \cup {c}} \cup (IF IsQueued(members[c]) THEN {} ELSE {hub})
    BY <1>8 DEF StackAccepts
  <2>2. MembersAreTyped
    BY DEF AdmissionInv
  <2>3. /\ Open' = Open /\ members' \in [Open -> MemberType]
        /\ \A d \in Open \ {c} : members'[d] = members[d]
        /\ members'[c].who = members[c].who
        /\ members'[c].accepted = (members[c].accepted \/ AwaitsAnswer(members[c]))
        /\ members[c].closing \/ ~IsQueued(members[c]) => members'[c].closing
        /\ welcomed \subseteq welcomed'
        /\ IsQueued(members[c]) => c \in welcomed'
    BY <1>8, <2>1, <2>2, SendFacts
  <2>4. members'[c].accepted
    BY <1>5, <1>8, <2>1, <2>3 DEF AwaitsAnswer
  <2>5. Stays
    BY <1>8, <2>1, <2>3, <2>4
  <2>6. hub \subseteq hub' /\ hub' \subseteq hub \cup {c} /\ (c \notin hub' => ~IsQueued(members[c]))
    BY <2>1
  <2>7. AcceptedAreInTheHub'
    BY <1>2, <1>7, <2>3, <2>4, <2>6 DEF AcceptedAreInTheHub
  <2> QED
    BY <1>6, <2>5, <2>7, Zenon DEF AdmissionInv
<1>9. CASE c \in Open /\ StackRefuses(c)
  <2>1. Send(c, "result") /\ hub' = hub
    BY <1>9 DEF StackRefuses
  <2>2. MembersAreTyped
    BY DEF AdmissionInv
  <2>3. /\ Open' = Open /\ members' \in [Open -> MemberType]
        /\ \A d \in Open \ {c} : members'[d] = members[d]
        /\ members'[c].who = members[c].who
        /\ members'[c].accepted = members[c].accepted
        /\ members[c].closing => members'[c].closing
        /\ welcomed \subseteq welcomed'
    <3>1. members[c].accepted \in BOOLEAN
      BY <1>9, <2>2 DEF MembersAreTyped, MemberType
    <3> QED
      BY <1>9, <2>1, <2>2, <3>1, SendFacts
  <2>4. Stays
    BY <2>1, <2>3
  <2>5. AcceptedAreInTheHub'
    BY <1>2, <1>7, <2>1, <2>3 DEF AcceptedAreInTheHub
  <2> QED
    BY <1>6, <2>4, <2>5, Zenon DEF AdmissionInv
<1>10. CASE c \notin Open /\ UNCHANGED <<members, newRefusal, welcomed, hub, hubWasFull>>
  <2>1. Stays
    BY <1>10 DEF AdmissionInv, MembersAreTyped, Open
  <2>2. AcceptedAreInTheHub'
    BY <1>2, <1>7, <1>10 DEF AcceptedAreInTheHub, Open
  <2> QED
    BY <1>6, <2>1, <2>2, Zenon DEF AdmissionInv
<1> QED
  BY <1>1, <1>8, <1>9, <1>10, Zenon DEF StackReads

LEMMA TrafficKeepsInv == AdmissionInv /\ (\E c \in Open : StackSends(c)) => AdmissionInv'
<1> SUFFICES ASSUME AdmissionInv, NEW c \in Open, StackSends(c) PROVE AdmissionInv'
  OBVIOUS
<1>1. /\ Send(c, "traffic") /\ turn = "tick"
      /\ UNCHANGED <<nextMember, requests, turn, hub, sentBy>>
  BY DEF StackSends
<1>2. MembersAreTyped /\ AcceptedAreInTheHub
  BY DEF AdmissionInv
<1>3. members[c].accepted \in BOOLEAN
  BY <1>2 DEF MembersAreTyped, MemberType
<1>4. /\ Open' = Open /\ members' \in [Open -> MemberType]
      /\ \A d \in Open \ {c} : members'[d] = members[d]
      /\ members'[c].who = members[c].who
      /\ members'[c].accepted = members[c].accepted
      /\ members[c].closing => members'[c].closing
      /\ welcomed \subseteq welcomed'
  BY <1>1, <1>2, <1>3, SendFacts
<1>5. NumbersAreUsed' /\ MembersAreTyped' /\ AuditNamesADevice' /\ RequestsAreRecorded'
  BY <1>1, <1>4, PeersKeepTheirNames
<1>6. AcceptedAreInTheHub'
  BY <1>1, <1>2, <1>4 DEF AcceptedAreInTheHub
<1> QED
  BY <1>5, <1>6 DEF AdmissionInv

LEMMA DisconnectKeepsInv == AdmissionInv /\ (\E c \in Open : StackDisconnects(c)) => AdmissionInv'
<1> SUFFICES ASSUME AdmissionInv, NEW c \in Open, StackDisconnects(c) PROVE AdmissionInv'
  OBVIOUS
<1>1. /\ turn = "tick" /\ hub' = hub \ {c}
      /\ members' = [members EXCEPT ![c].closing = TRUE]
      /\ UNCHANGED <<nextMember, requests, turn, sentBy, welcomed>>
  BY DEF StackDisconnects, past
<1>2. MembersAreTyped /\ AcceptedAreInTheHub
  BY DEF AdmissionInv
<1>3. /\ Open' = Open /\ members' \in [Open -> MemberType]
      /\ \A d \in Open \ {c} : members'[d] = members[d]
      /\ members'[c].who = members[c].who
      /\ members'[c].accepted = members[c].accepted
      /\ members'[c].closing
  BY <1>1, <1>2 DEF MembersAreTyped, MemberType, Open
<1>4. NumbersAreUsed' /\ MembersAreTyped' /\ AuditNamesADevice' /\ RequestsAreRecorded'
  BY <1>1, <1>3, PeersKeepTheirNames
<1>5. AcceptedAreInTheHub'
  BY <1>1, <1>2, <1>3 DEF AcceptedAreInTheHub
<1> QED
  BY <1>4, <1>5 DEF AdmissionInv

LEMMA GoesOutKeepsInv == AdmissionInv /\ (\E c \in Open : FrameGoesOut(c)) => AdmissionInv'
<1> SUFFICES ASSUME AdmissionInv, NEW c \in Open, FrameGoesOut(c) PROVE AdmissionInv'
  OBVIOUS
<1>1. /\ turn = "service" /\ members[c].frames > 0
      /\ members' = [members EXCEPT ![c].frames = @ - 1]
      /\ UNCHANGED <<nextMember, requests, turn, hub, sentBy, welcomed>>
  BY DEF FrameGoesOut, past
<1>2. MembersAreTyped /\ AcceptedAreInTheHub
  BY DEF AdmissionInv
<1>3. /\ Open' = Open /\ members' \in [Open -> MemberType]
      /\ \A d \in Open \ {c} : members'[d] = members[d]
      /\ members'[c].who = members[c].who
      /\ members'[c].accepted = members[c].accepted
      /\ members'[c].closing = members[c].closing
  <2>1. PICK n \in Nat : n = members[c].frames /\ n - 1 \in Nat
    BY <1>1, <1>2 DEF MembersAreTyped, MemberType
  <2>2. members' = [members EXCEPT ![c] = [members[c] EXCEPT !.frames = n - 1]]
    BY <1>1, <2>1
  <2> QED
    BY <1>2, <2>1, <2>2 DEF MembersAreTyped, MemberType, Open
<1>4. NumbersAreUsed' /\ MembersAreTyped' /\ AuditNamesADevice' /\ RequestsAreRecorded'
  BY <1>1, <1>3, PeersKeepTheirNames
<1>5. AcceptedAreInTheHub'
  BY <1>1, <1>2, <1>3 DEF AcceptedAreInTheHub
<1> QED
  BY <1>4, <1>5 DEF AdmissionInv

LEMMA ClosedKeepsInv == AdmissionInv /\ (\E c \in Open : PeerCloses(c)) => AdmissionInv'
<1> SUFFICES ASSUME AdmissionInv, NEW c \in Open, PeerCloses(c) PROVE AdmissionInv'
  OBVIOUS
<1>1. /\ turn = "service" /\ members' = [d \in Open \ {c} |-> members[d]]
      /\ UNCHANGED <<nextMember, requests, turn, hub, sentBy, welcomed>>
  BY DEF PeerCloses, past, Restrict
<1>2. MembersAreTyped /\ AcceptedAreInTheHub
  BY DEF AdmissionInv
<1>3. /\ Open' = Open \ {c} /\ members' \in [Open' -> MemberType]
      /\ \A d \in Open' : members'[d] = members[d]
  BY <1>1, <1>2 DEF MembersAreTyped, Open
<1>4. NumbersAreUsed' /\ MembersAreTyped' /\ AuditNamesADevice' /\ RequestsAreRecorded'
  BY <1>1, <1>3, PeersKeepTheirNames
<1>5. AcceptedAreInTheHub'
  BY <1>1, <1>2, <1>3 DEF AcceptedAreInTheHub
<1> QED
  BY <1>4, <1>5 DEF AdmissionInv

\* A Connect-Request cut off at the lengths that are looked at.
CutOffs(h) == {Len(HeaderOctets(h)) + 21, Len(HeaderOctets(h)) + 26} \cup {5, 13}

LEMMA RequestKeepsInv ==
  ASSUME AdmissionInv, NEW c \in Open, NEW device \in Devices, NEW h \in Headers,
         NEW length \in CutOffs(h), RequestArrives(c, device, h, length)
  PROVE  AdmissionInv'
<1> DEFINE request == ConnectRequest(h, device)
           who == AuditReceivedFrame(members[c], SubSeq(request, 1, length))
           whole == length = Len(request)
<1>1. h \in HeaderType /\ device \in 0 .. 99
  BY AdmissionAssumption DEF HeaderType
<1>2. length \in 0 .. Len(request)
  <2>1. PICK n \in Nat : n = Len(HeaderOctets(h)) /\ Len(request) = n + 26
    BY <1>1, RequestLayout, Zenon
  <2> HIDE DEF request
  <2> QED
    BY <2>1 DEF CutOffs
<1>3. who \in {members[c].who, Identity(device)}
      /\ (~members[c].accepted /\ whole => who = Identity(device))
  BY <1>1, <1>2, AuditedIdentity, Zenon
<1>4. Identity(device) # Nobody
  <2>1. Identity(device).vmac = [i \in 1 .. 6 |-> device] /\ Nobody.vmac = <<>>
    BY DEF Identity, Nobody
  <2>2. DOMAIN [i \in 1 .. 6 |-> device] # DOMAIN <<>>
    OBVIOUS
  <2> QED
    BY <2>1, <2>2
<1>5. /\ members' = [members EXCEPT ![c].who = who]
      /\ requests' = Append(requests, [from |-> c, whole |-> whole])
      /\ sentBy' = sentBy \cup {[from |-> c, device |-> device]}
      /\ turn = "service" /\ UNCHANGED <<nextMember, turn, hub, welcomed>>
  BY DEF RequestArrives
<1> HIDE DEF who, whole
<1>6. MembersAreTyped /\ AcceptedAreInTheHub /\ NumbersAreUsed
  BY DEF AdmissionInv
<1>7. who \in Names
  <2>1. members[c].who \in Names
    BY <1>6 DEF MembersAreTyped, MemberType
  <2> QED
    BY <1>3, <2>1 DEF Names
<1>8. /\ Open' = Open /\ members' \in [Open -> MemberType]
      /\ \A d \in Open \ {c} : members'[d] = members[d]
      /\ members'[c].who = who
      /\ members'[c].accepted = members[c].accepted
      /\ members'[c].closing = members[c].closing
  BY <1>5, <1>6, <1>7 DEF MembersAreTyped, MemberType, Open
<1>9. whole \in BOOLEAN /\ c \in Nat /\ c < nextMember
  BY <1>6 DEF whole, NumbersAreUsed
<1>10. /\ requests' \in Seq(RequestType) /\ Len(requests) \in Nat
       /\ Len(requests') = Len(requests) + 1
       /\ \A i \in 1 .. Len(requests) : requests'[i] = requests[i]
       /\ requests'[Len(requests) + 1] = [from |-> c, whole |-> whole]
  <2>1. [from |-> c, whole |-> whole] \in RequestType /\ requests \in Seq(RequestType)
    BY <1>6, <1>9 DEF RequestType, NumbersAreUsed
  <2> QED
    BY <1>5, <2>1, AppendProperties
<1>11. \A i \in 1 .. Len(requests') : i \in 1 .. Len(requests) \/ i = Len(requests) + 1
  BY <1>10
<1>12. NumbersAreUsed'
  <2>1. ASSUME NEW i \in 1 .. Len(requests') PROVE requests'[i].from < nextMember
    <3>1. CASE i \in 1 .. Len(requests)
      BY <1>6, <1>10, <3>1, Zenon DEF NumbersAreUsed
    <3>2. CASE i = Len(requests) + 1
      <4>1. requests'[i].from = c
        BY <1>10, <3>2
      <4> QED
        BY <1>9, <4>1, Zenon
    <3> QED
      BY <1>11, <3>1, <3>2, Zenon
  <2> QED
    BY <1>5, <1>6, <1>8, <1>10, <2>1 DEF NumbersAreUsed
<1>13. AuditNamesADevice'
  <2> SUFFICES ASSUME NEW d \in Open, members'[d].who # Nobody
               PROVE  \E s \in sentBy' : s.from = d /\ members'[d].who = Identity(s.device)
    BY <1>8 DEF AuditNamesADevice
  <2>1. sentBy \subseteq sentBy' /\ [from |-> c, device |-> device] \in sentBy'
    BY <1>5
  <2>2. CASE d = c /\ who = Identity(device)
    BY <1>8, <2>1, <2>2
  <2>3. CASE members'[d].who = members[d].who
    BY <2>1, <2>3 DEF AdmissionInv, AuditNamesADevice
  <2> QED
    BY <1>3, <1>8, <2>2, <2>3
<1>14. RequestsAreRecorded'
  <2> SUFFICES ASSUME NEW i \in 1 .. Len(requests'), requests'[i].whole, requests'[i].from \in Open
               PROVE  members'[requests'[i].from].accepted \/ members'[requests'[i].from].who # Nobody
    BY <1>8 DEF RequestsAreRecorded
  <2>1. CASE i \in 1 .. Len(requests)
    <3>1. PICK d \in Open : d = requests[i].from
      BY <1>10, <2>1
    <3>2. members[d].accepted \/ members[d].who # Nobody
      BY <1>10, <2>1, <3>1, Zenon DEF AdmissionInv, RequestsAreRecorded
    <3>3. members'[d].accepted \/ members'[d].who # Nobody
      BY <1>3, <1>4, <1>8, <3>2
    <3> QED
      BY <1>10, <2>1, <3>1, <3>3, Zenon
  <2>2. CASE i = Len(requests) + 1
    <3>1. requests'[i].from = c /\ whole
      BY <1>10, <2>2
    <3> QED
      BY <1>3, <1>4, <1>8, <3>1
  <2> QED
    BY <1>11, <2>1, <2>2
<1>15. AcceptedAreInTheHub'
  BY <1>5, <1>6, <1>8 DEF AcceptedAreInTheHub
<1> QED
  BY <1>8, <1>12, <1>13, <1>14, <1>15 DEF AdmissionInv, MembersAreTyped

LEMMA ConnectKeepsInv == AdmissionInv /\ PeerConnects => AdmissionInv'
<1> SUFFICES ASSUME AdmissionInv, PeerConnects PROVE AdmissionInv'
  OBVIOUS
<1> DEFINE p == [who |-> Nobody, accepted |-> FALSE, closing |-> FALSE, frames |-> 0]
<1>1. /\ turn = "service" /\ nextMember' = nextMember + 1
      /\ members' = [c \in Open \cup {nextMember} |-> IF c = nextMember THEN p ELSE members[c]]
      /\ UNCHANGED <<requests, turn, hub, sentBy, welcomed>>
  BY DEF PeerConnects, past
<1>2. p \in MemberType /\ ~p.accepted /\ p.who = Nobody
  BY DEF MemberType, Names
<1> HIDE DEF p
<1>3. MembersAreTyped /\ AcceptedAreInTheHub /\ NumbersAreUsed
  BY DEF AdmissionInv
<1>4. nextMember \in Nat /\ nextMember \notin Open \cup hub
  BY <1>3 DEF NumbersAreUsed
<1>5. /\ Open' = Open \cup {nextMember} /\ members' \in [Open' -> MemberType]
      /\ \A d \in Open : members'[d] = members[d]
      /\ members'[nextMember] = p
  BY <1>1, <1>2, <1>3, <1>4 DEF MembersAreTyped, Open
<1>6. NumbersAreUsed'
  <2>1. nextMember' \in Nat /\ \A c \in Open' \cup hub' : c \in Nat /\ c < nextMember'
    BY <1>1, <1>3, <1>4, <1>5 DEF NumbersAreUsed
  <2>2. ASSUME NEW i \in 1 .. Len(requests') PROVE requests'[i].from < nextMember'
    <3>1. PICK r : r = requests[i].from
      OBVIOUS
    <3>2. r \in Nat /\ r < nextMember
      <4>1. i \in 1 .. Len(requests) /\ requests \in Seq(RequestType)
        BY <1>1, <1>3, <2>2 DEF NumbersAreUsed
      <4>2. requests[i] \in RequestType
        BY <4>1, ElementOfSeq
      <4>3. r \in Nat
        BY <3>1, <4>2 DEF RequestType
      <4> QED
        BY <1>3, <3>1, <4>1, <4>3, Zenon DEF NumbersAreUsed
    <3>3. r < nextMember'
      BY <1>1, <1>4, <3>2
    <3> QED
      BY <1>1, <3>1, <3>3, Zenon
  <2> QED
    BY <1>1, <1>3, <2>1, <2>2 DEF NumbersAreUsed
<1>7. AuditNamesADevice'
  BY <1>1, <1>2, <1>5 DEF AdmissionInv, AuditNamesADevice
<1>8. RequestsAreRecorded'
  <2> SUFFICES ASSUME NEW i \in 1 .. Len(requests'), requests'[i].whole, requests'[i].from \in Open'
               PROVE  members'[requests'[i].from].accepted \/ members'[requests'[i].from].who # Nobody
    BY DEF RequestsAreRecorded
  <2>1. PICK d : d = requests[i].from
    OBVIOUS
  <2>2. requests[i].whole /\ i \in 1 .. Len(requests) /\ d \in Open' /\ d < nextMember
    BY <1>1, <1>3, <2>1 DEF NumbersAreUsed
  <2>3. d \in Open
    BY <1>4, <1>5, <2>2
  <2>4. members[d].accepted \/ members[d].who # Nobody
    BY <2>1, <2>2, <2>3, Zenon DEF AdmissionInv, RequestsAreRecorded
  <2> QED
    BY <1>1, <1>5, <2>1, <2>3, <2>4, Zenon
<1>9. AcceptedAreInTheHub'
  BY <1>1, <1>2, <1>3, <1>4, <1>5 DEF AcceptedAreInTheHub
<1> QED
  BY <1>5, <1>6, <1>7, <1>8, <1>9 DEF AdmissionInv, MembersAreTyped

LEMMA DrainKeepsInv == AdmissionInv /\ Drain => AdmissionInv'
<1> SUFFICES ASSUME AdmissionInv, Drain PROVE AdmissionInv'
  OBVIOUS
<1>1. /\ hub' = hub \cap Open /\ turn' = "check"
      /\ UNCHANGED <<members, nextMember, requests, sentBy, welcomed>>
  BY DEF Drain, past
<1>2. Open' = Open /\ members' \in [Open' -> MemberType]
  BY <1>1 DEF AdmissionInv, MembersAreTyped, Open
<1>3. NumbersAreUsed' /\ MembersAreTyped' /\ AuditNamesADevice' /\ RequestsAreRecorded'
  BY <1>1, <1>2, PeersKeepTheirNames
<1>4. AcceptedAreInTheHub'
  BY <1>1, <1>2 DEF AdmissionInv, AcceptedAreInTheHub
<1> QED
  BY <1>3, <1>4 DEF AdmissionInv

LEMMA EndKeepsInv == AdmissionInv /\ TurnEnds => AdmissionInv'
<1> SUFFICES ASSUME AdmissionInv, TurnEnds PROVE AdmissionInv'
  OBVIOUS
<1>1. /\ members' \in {members, <<>>} /\ turn' = "tick"
      /\ UNCHANGED <<nextMember, requests, hub, sentBy, welcomed>>
  BY DEF TurnEnds, past
<1>2. /\ Open' \subseteq Open /\ members' \in [Open' -> MemberType]
      /\ \A c \in Open' : members'[c] = members[c]
  <2>1. CASE members' = members
    BY <2>1 DEF AdmissionInv, MembersAreTyped, Open
  <2>2. CASE members' = <<>>
    <3>1. Open' = {} /\ <<>> \in [{} -> MemberType]
      BY <2>2 DEF Open
    <3> QED
      BY <2>2, <3>1
  <2> QED
    BY <1>1, <2>1, <2>2
<1>3. NumbersAreUsed' /\ MembersAreTyped' /\ AuditNamesADevice' /\ RequestsAreRecorded'
  BY <1>1, <1>2, PeersKeepTheirNames
<1>4. AcceptedAreInTheHub'
  BY <1>1, <1>2 DEF AdmissionInv, AcceptedAreInTheHub
<1> QED
  BY <1>3, <1>4 DEF AdmissionInv

LEMMA AdmissionStep == AdmissionInv /\ [AdmissionNext]_admissionVars => AdmissionInv'
<1> SUFFICES ASSUME AdmissionInv, [AdmissionNext]_admissionVars PROVE AdmissionInv'
  OBVIOUS
<1> DEFINE Quiet == /\ UNCHANGED <<members, nextMember, requests, hub, sentBy, welcomed>>
                    /\ turn' # "check" \/ turn' = turn
<1>1. CASE StackReads
  BY <1>1, ReadKeepsInv
<1>2. ASSUME NEW c \in Open, StackSends(c) PROVE AdmissionInv'
  BY <1>2, TrafficKeepsInv
<1>3. ASSUME NEW c \in Open, StackDisconnects(c) PROVE AdmissionInv'
  BY <1>3, DisconnectKeepsInv
<1>4. ASSUME NEW c \in Open, FrameGoesOut(c) PROVE AdmissionInv'
  BY <1>4, GoesOutKeepsInv
<1>5. ASSUME NEW c \in Open, PeerCloses(c) PROVE AdmissionInv'
  BY <1>5, ClosedKeepsInv
<1>6. ASSUME NEW c \in Open, NEW device \in Devices, NEW h \in Headers,
             NEW length \in CutOffs(h), RequestArrives(c, device, h, length)
      PROVE  AdmissionInv'
  BY <1>6, RequestKeepsInv
<1>7. CASE PeerConnects
  BY <1>7, ConnectKeepsInv
<1>8. CASE Drain
  BY <1>8, DrainKeepsInv
<1>9. CASE TurnEnds
  BY <1>9, EndKeepsInv
<1>10. Quiet => AdmissionInv'
  <2> SUFFICES ASSUME Quiet PROVE AdmissionInv'
    OBVIOUS
  <2>1. Open' = Open /\ members' \in [Open' -> MemberType]
    BY DEF AdmissionInv, MembersAreTyped, Open
  <2>2. NumbersAreUsed' /\ MembersAreTyped' /\ AuditNamesADevice' /\ RequestsAreRecorded'
    BY <2>1, PeersKeepTheirNames
  <2>3. AcceptedAreInTheHub'
    BY <2>1 DEF AdmissionInv, AcceptedAreInTheHub
  <2> QED
    BY <2>2, <2>3 DEF AdmissionInv
<1>11. CASE TickReturns
  BY <1>10, <1>11 DEF TickReturns, past
<1>12. CASE ServiceReturns
  BY <1>10, <1>12 DEF ServiceReturns, past
<1>13. CASE CheckLimit
  BY <1>10, <1>13 DEF CheckLimit
<1>14. CASE MinutePasses
  BY <1>10, <1>14 DEF MinutePasses, past
<1>15. CASE UNCHANGED admissionVars
  BY <1>10, <1>15 DEF admissionVars, past
<1> QED
  BY <1>1, <1>2, <1>3, <1>4, <1>5, <1>6, <1>7, <1>8, <1>9, <1>11, <1>12, <1>13, <1>14, <1>15, Zenon
  DEF AdmissionNext, CutOffs

-----------------------------------------------------------------------------
(***************************************************************************)
(* Theorems                                                                *)
(***************************************************************************)

LEMMA AdmissionInvariant == AdmissionSpec => []AdmissionInv
BY AdmissionStarts, AdmissionStep, PTL DEF AdmissionSpec

\* The audit trail never records a peer under a name no Connect-Request of it had,
\* whatever options its header has, however many and long, and wherever the
\* request is cut off (ScTransport.cpp:258-271, 1315-1341).
THEOREM AuditNeverMisnames == AdmissionSpec => []AuditNamesADevice
<1>1. AdmissionInv => AuditNamesADevice
  BY DEF AdmissionInv
<1> QED
  BY <1>1, AdmissionInvariant, PTL

\* The number of accepted peers main compares with the limit (main.cpp:2540-2544) is
\* that of the stack's table, but for peers that are being closed.
THEOREM CountFollowsTheHub == AdmissionSpec => []CountMatchesTheHub
<1>1. AdmissionInv => CountMatchesTheHub
  BY DEF AdmissionInv, AcceptedAreInTheHub, CountMatchesTheHub
<1> QED
  BY <1>1, AdmissionInvariant, PTL

-----------------------------------------------------------------------------
(***************************************************************************)
(* Buckets                                                                 *)
(***************************************************************************)

\* Refilled at a given time.
At(t, b, rate) ==
  LET refilled == b.tokens + rate * (t - b.lastRefill)
  IN  IF refilled < rate * Second THEN refilled ELSE rate * Second

\* A bucket's contents are natural and at most one second's worth.
LEMMA RefillBounds ==
  ASSUME NEW rate \in Nat, NEW t \in Nat, NEW b,
         b \in [tokens : 0..(rate * Second), lastRefill : 0..t]
  PROVE  /\ At(t, b, rate) \in Nat
         /\ At(t, b, rate) <= rate * Second
<1> DEFINE gained == rate * (t - b.lastRefill)
<1>1. rate * Second \in Nat
  BY RateAssumption DEF RateAssumption
<1>2. b.tokens \in Nat /\ t - b.lastRefill \in Nat
  BY <1>1
<1>3. gained \in Nat
  BY <1>2
<1> HIDE DEF gained
<1>4. At(t, b, rate) =
        IF b.tokens + gained < rate * Second THEN b.tokens + gained ELSE rate * Second
  BY DEF At, gained
<1> QED
  BY <1>1, <1>2, <1>3, <1>4

\* A grain of time adds at most `rate`.
LEMMA RefillGrain ==
  ASSUME NEW rate \in Nat, NEW t \in Nat, NEW b,
         b \in [tokens : 0..(rate * Second), lastRefill : 0..t]
  PROVE  At(t + 1, b, rate) <= At(t, b, rate) + rate
<1> DEFINE gained == rate * (t - b.lastRefill)
           later == rate * (t + 1 - b.lastRefill)
<1>1. rate * Second \in Nat
  BY RateAssumption DEF RateAssumption
<1>2. b.tokens \in Nat /\ b.lastRefill \in Int /\ t - b.lastRefill \in Nat
  BY <1>1
<1>3. gained \in Nat /\ later = gained + rate
  BY <1>2
<1> HIDE DEF gained, later
<1>4. At(t, b, rate) =
        IF b.tokens + gained < rate * Second THEN b.tokens + gained ELSE rate * Second
  BY DEF At, gained
<1>5. At(t + 1, b, rate) =
        IF b.tokens + later < rate * Second THEN b.tokens + later ELSE rate * Second
  BY DEF At, later
<1> QED
  BY <1>1, <1>2, <1>3, <1>4, <1>5

\* A bucket that has been idle for a second is full.
LEMMA IdleIsFull ==
  ASSUME NEW rate \in Nat, NEW t \in Nat, NEW b,
         b \in [tokens : 0..(rate * Second), lastRefill : 0..t],
         t - b.lastRefill >= Second
  PROVE  At(t, b, rate) = rate * Second
<1> DEFINE gained == rate * (t - b.lastRefill)
<1>1. Second \in Nat /\ rate * Second \in Nat
  BY RateAssumption DEF RateAssumption
<1>2. b.tokens \in Nat /\ b.lastRefill \in Int /\ t - b.lastRefill \in Nat
  BY <1>1
<1>3. gained \in Nat /\ gained >= rate * Second
  <2> DEFINE more == (t - b.lastRefill) - Second
  <2>1. more \in Nat /\ t - b.lastRefill = Second + more
    BY <1>1, <1>2
  <2> HIDE DEF more
  <2>2. rate * (Second + more) = rate * Second + rate * more /\ rate * more \in Nat
    BY <1>1, <2>1
  <2> QED
    BY <1>1, <2>1, <2>2
<1> HIDE DEF gained
<1>4. At(t, b, rate) =
        IF b.tokens + gained < rate * Second THEN b.tokens + gained ELSE rate * Second
  BY DEF At, gained
<1> QED
  BY <1>1, <1>2, <1>3, <1>4

\* What a grain of time adds is `rate`, up to the bucket's capacity.
LEMMA RefillStep ==
  ASSUME NEW rate \in Nat, NEW t \in Nat, NEW b,
         b \in [tokens : 0..(rate * Second), lastRefill : 0..t]
  PROVE  \/ At(t + 1, b, rate) = At(t, b, rate) + rate
         \/ At(t + 1, b, rate) = rate * Second
<1> DEFINE gained == rate * (t - b.lastRefill)
           later == rate * (t + 1 - b.lastRefill)
<1>1. rate * Second \in Nat
  BY RateAssumption DEF RateAssumption
<1>2. b.tokens \in Nat /\ b.lastRefill \in Int /\ t - b.lastRefill \in Nat
  BY <1>1
<1>3. gained \in Nat /\ later = gained + rate
  BY <1>2
<1> HIDE DEF gained, later
<1>4. At(t, b, rate) =
        IF b.tokens + gained < rate * Second THEN b.tokens + gained ELSE rate * Second
  BY DEF At, gained
<1>5. At(t + 1, b, rate) =
        IF b.tokens + later < rate * Second THEN b.tokens + later ELSE rate * Second
  BY DEF At, later
<1> QED
  BY <1>1, <1>2, <1>3, <1>4, <1>5

\* Taking a token that is there costs one; without one nothing is gained.
LEMMA TakeCosts ==
  ASSUME now \in Nat, NEW rate \in Nat, NEW b, b \in BucketType(rate)
  PROVE  /\ AfterTake(b, rate) \in BucketType(rate)
         /\ HasToken(b, rate) =>
              At(now, AfterTake(b, rate), rate) + Second = At(now, b, rate)
         /\ At(now, AfterTake(b, rate), rate) <= At(now, b, rate)
<1> DEFINE held == At(now, b, rate)
           left == IF held >= Second THEN held - Second ELSE held
<1>1. Second \in Nat /\ rate * Second \in Nat
  BY RateAssumption DEF RateAssumption
<1>2. held \in Nat /\ held <= rate * Second
  BY RefillBounds DEF BucketType
<1>3. AfterTake(b, rate) = [tokens |-> left, lastRefill |-> now]
      /\ (HasToken(b, rate) <=> held >= Second)
  BY DEF AfterTake, HasToken, Refilled, At
<1> HIDE DEF held
<1>4. left \in 0..(rate * Second)
  BY <1>1, <1>2
<1> HIDE DEF left
<1>5. AfterTake(b, rate) \in BucketType(rate)
  BY <1>3, <1>4 DEF BucketType
<1>6. At(now, AfterTake(b, rate), rate) = left
  <2>1. rate * (now - now) = 0
    OBVIOUS
  <2> QED
    BY <1>1, <1>3, <1>4, <2>1 DEF At
<1> QED
  BY <1>1, <1>2, <1>3, <1>5, <1>6 DEF left, held

-----------------------------------------------------------------------------
(***************************************************************************)
(* The inductive invariant                                                 *)
(***************************************************************************)

Bookkeeping == TypeOK /\ IsFiniteSet(Tracked)

AddressPotential ==
  PerAddress # 0 =>
    \A a \in Addresses \ unlimited :
      accepted[a] * Second + At(now, BucketOf(a), PerAddress) <= Allowance(PerAddress)

TotalPotential ==
  Total # 0 => inAll * Second + At(now, total, Total) <= Allowance(Total)

RateInv == Bookkeeping /\ AddressPotential /\ TotalPotential

\* An address that is not in the table has a full bucket.
LEMMA BucketFacts ==
  ASSUME TypeOK, NEW a \in Addresses
  PROVE  /\ BucketOf(a) \in BucketType(PerAddress)
         /\ a \notin Tracked => At(now, BucketOf(a), PerAddress) = PerAddress * Second
<1>1. now \in Nat /\ PerAddress * Second \in Nat
  BY RateAssumption DEF RateAssumption, TypeOK
<1>2. CASE a \in Tracked
  BY <1>2 DEF BucketOf, TypeOK
<1>3. CASE a \notin Tracked
  <2>1. BucketOf(a) = [tokens |-> PerAddress * Second, lastRefill |-> now]
    BY <1>3 DEF BucketOf, FullBucket
  <2>2. PerAddress * (now - now) = 0
    BY <1>1, RateAssumption DEF RateAssumption
  <2> QED
    BY <1>1, <2>1, <2>2 DEF BucketType, At
<1> QED
  BY <1>2, <1>3

\* Making room: the table stays within its size, loses only addresses that have
\* been idle for a second, and gains at most a.
LEMMA RoomFacts ==
  ASSUME Bookkeeping, NEW a \in Addresses
  PROVE  /\ IsFiniteSet(TrackedFor(a))
         /\ TrackedFor(a) \subseteq Tracked \cup {a}
         /\ Cardinality(TrackedFor(a)) <= kMaxTrackedAddresses
         /\ \A x \in Tracked \ TrackedFor(a) : now - buckets[x].lastRefill >= Second
         /\ a \in Tracked => TrackedFor(a) = Tracked
<1> DEFINE rest == IF TableIsFull(Tracked) THEN Kept ELSE Tracked
<1>1. rest \subseteq Tracked
  BY DEF Kept
<1>2. IsFiniteSet(Tracked) /\ Cardinality(Tracked) <= kMaxTrackedAddresses
      /\ kMaxTrackedAddresses \in Nat
  BY RateAssumption DEF RateAssumption, Bookkeeping, TypeOK
<1>3. IsFiniteSet(rest) /\ Cardinality(rest) <= Cardinality(Tracked)
  BY <1>1, <1>2, FS_Subset
<1>4. Cardinality(rest) \in Nat /\ Cardinality(Tracked) \in Nat
  BY <1>2, <1>3, FS_CardinalityType
<1>5. \A x \in Tracked \ rest : now - buckets[x].lastRefill >= Second
  <2> SUFFICES ASSUME NEW x \in Tracked, x \notin Kept
               PROVE  now - buckets[x].lastRefill >= Second
    OBVIOUS
  <2>1. now - buckets[x].lastRefill \in Int /\ Second \in Int
    BY RateAssumption DEF RateAssumption, Bookkeeping, TypeOK, BucketType
  <2> QED
    BY <2>1 DEF Kept
<1>6. IsFiniteSet(rest \cup {a})
      /\ Cardinality(rest \cup {a}) \in {Cardinality(rest), Cardinality(rest) + 1}
  BY <1>3, <1>4, FS_AddElement
<1>7. CASE PerAddress = 0 \/ a \in Tracked
  BY <1>2, <1>7 DEF TrackedFor
<1>8. CASE ~(PerAddress = 0 \/ a \in Tracked)
  <2>1. TrackedFor(a) = IF TableIsFull(rest) THEN rest ELSE rest \cup {a}
    BY <1>8 DEF TrackedFor
  <2>2. CASE TableIsFull(rest)
    <3>1. TrackedFor(a) = rest
      BY <2>1, <2>2
    <3> HIDE DEF rest
    <3> QED
      BY <1>1, <1>2, <1>3, <1>4, <1>5, <1>8, <3>1
  <2>3. CASE ~TableIsFull(rest)
    <3>1. TrackedFor(a) = rest \cup {a}
      BY <2>1, <2>3
    <3> HIDE DEF rest
    <3>2. Cardinality(rest \cup {a}) <= kMaxTrackedAddresses
      BY <1>2, <1>4, <1>6, <2>3 DEF TableIsFull
    <3> QED
      BY <1>1, <1>5, <1>6, <1>8, <3>1, <3>2
  <2> QED
    BY <2>2, <2>3
<1> QED
  BY <1>7, <1>8

\* At start-up no address is tracked and the listener's bucket is full.
LEMMA RateInit == Init => RateInv
<1> SUFFICES ASSUME Init PROVE RateInv
  OBVIOUS
<1>1. Tracked = {}
  BY DEF Init, Tracked
<1>2. IsFiniteSet(Tracked) /\ Cardinality(Tracked) = 0
  BY <1>1, FS_EmptySet
<1>3. Second \in Nat /\ Total * Second \in Nat /\ PerAddress * Second \in Nat
      /\ Total * 0 = 0 /\ MaxTime \in Nat
  BY RateAssumption DEF RateAssumption
<1>4. total \in BucketType(Total)
  BY <1>3 DEF Init, FullBucket, BucketType
<1>5. TypeOK
  BY <1>1, <1>2, <1>3, <1>4, RateAssumption DEF Init, TypeOK, RateAssumption
<1>6. \A rate \in Nat : Allowance(rate) = rate * Second
  BY <1>3 DEF Init, Allowance
<1>7. AddressPotential
  <2> SUFFICES ASSUME NEW a \in Addresses
               PROVE  accepted[a] * Second + At(now, BucketOf(a), PerAddress)
                        <= Allowance(PerAddress)
    BY DEF AddressPotential
  <2>1. accepted[a] * Second = 0
    BY <1>3 DEF Init
  <2>2. At(now, BucketOf(a), PerAddress) = PerAddress * Second
    BY <1>1, <1>5, BucketFacts
  <2> QED
    BY <1>3, <1>6, <2>1, <2>2, RateAssumption DEF RateAssumption
<1>8. TotalPotential
  <2>1. inAll * Second = 0
    BY <1>3 DEF Init
  <2>2. now \in Nat
    BY DEF Init
  <2>3. At(now, total, Total) \in Nat /\ At(now, total, Total) <= Total * Second
    BY <1>4, <2>2, RefillBounds, RateAssumption DEF RateAssumption, BucketType
  <2> QED
    BY <1>3, <1>6, <2>1, <2>3, RateAssumption DEF RateAssumption, TotalPotential
<1> QED
  BY <1>2, <1>5, <1>7, <1>8 DEF RateInv, Bookkeeping

-----------------------------------------------------------------------------
(***************************************************************************)
(* One step                                                                *)
(***************************************************************************)

\* An attempt keeps the table bounded and the buckets within their capacity.
LEMMA AttemptKeepsBookkeeping ==
  ASSUME RateInv, NEW a \in Addresses, AllowNewConnectionAttempt(a)
  PROVE  Bookkeeping'
<1>1. TypeOK /\ now \in Nat /\ now' = now
  BY DEF RateInv, Bookkeeping, TypeOK, AllowNewConnectionAttempt
<1>2. Tracked' = TrackedFor(a)
  BY DEF AllowNewConnectionAttempt, Tracked
<1>3. IsFiniteSet(Tracked') /\ Tracked' \subseteq Addresses
      /\ Cardinality(Tracked') <= kMaxTrackedAddresses
  BY <1>1, <1>2, RoomFacts DEF RateInv, TypeOK
<1>4. ASSUME NEW x \in Tracked'
      PROVE  buckets'[x] \in BucketType(PerAddress)'
  <2>1. x \in TrackedFor(a) /\ x \in Tracked \cup {a}
    BY <1>2, RoomFacts DEF RateInv
  <2>2. CASE x = a
    <3>1. buckets'[x] = AfterTake(BucketOf(a), PerAddress)
      BY <2>1, <2>2 DEF AllowNewConnectionAttempt
    <3>2. AfterTake(BucketOf(a), PerAddress) \in BucketType(PerAddress)
      BY <1>1, BucketFacts, TakeCosts, RateAssumption DEF RateAssumption
    <3> QED
      BY <1>1, <3>1, <3>2 DEF BucketType
  <2>3. CASE x # a
    <3>1. buckets'[x] = buckets[x] /\ x \in Tracked
      BY <2>1, <2>3 DEF AllowNewConnectionAttempt
    <3> QED
      BY <1>1, <3>1 DEF TypeOK, BucketType
  <2> QED
    BY <2>2, <2>3
<1>5. total' \in BucketType(Total)'
  <2>1. AfterTake(total, Total) \in BucketType(Total)
    BY <1>1, TakeCosts, RateAssumption DEF RateAssumption, TypeOK
  <2>2. total' \in {total, AfterTake(total, Total)}
    BY DEF AllowNewConnectionAttempt, TotalAfter
  <2> QED
    BY <1>1, <2>1, <2>2 DEF TypeOK, BucketType
<1>6. /\ limitHit' \in {"accepted", "per-address", "total"}
      /\ accepted' \in [Addresses -> Nat] /\ inAll' \in Nat
      /\ seen' \subseteq Addresses /\ unlimited' \subseteq seen'
      /\ since' \in 0..now'
  BY <1>1 DEF AllowNewConnectionAttempt, TypeOK
<1> QED
  BY <1>1, <1>3, <1>4, <1>5, <1>6 DEF Bookkeeping, TypeOK

\* An attempt leaves what every other address has left as it was: those that are
\* forgotten had a full bucket.
LEMMA OtherBucketsKeep ==
  ASSUME RateInv, NEW a \in Addresses, AllowNewConnectionAttempt(a),
         NEW x \in Addresses, x # a
  PROVE  At(now', BucketOf(x)', PerAddress) = At(now, BucketOf(x), PerAddress)
<1>1. TypeOK /\ now \in Nat /\ now' = now /\ PerAddress \in Nat /\ PerAddress * Second \in Nat
  BY RateAssumption DEF RateInv, Bookkeeping, TypeOK, AllowNewConnectionAttempt, RateAssumption
<1>2. BucketOf(x) \in BucketType(PerAddress)
  BY <1>1, BucketFacts
<1>3. Tracked' = TrackedFor(a)
  BY DEF AllowNewConnectionAttempt, Tracked
<1>4. CASE x \in TrackedFor(a)
  <2>1. x \in Tracked
    BY <1>4, RoomFacts DEF RateInv
  <2>2. BucketOf(x)' = BucketOf(x)
    BY <1>3, <1>4, <2>1 DEF BucketOf, AllowNewConnectionAttempt
  <2> QED
    BY <1>1, <2>2
<1>5. CASE x \notin TrackedFor(a)
  <2>1. BucketOf(x)' = [tokens |-> PerAddress * Second, lastRefill |-> now]
    BY <1>1, <1>3, <1>5 DEF BucketOf, FullBucket
  <2>2. PerAddress * (now - now) = 0
    BY <1>1
  <2>3. At(now', BucketOf(x)', PerAddress) = PerAddress * Second
    BY <1>1, <2>1, <2>2 DEF At
  <2>4. CASE x \in Tracked
    <3>1. now - buckets[x].lastRefill >= Second
      BY <1>5, <2>4, RoomFacts DEF RateInv
    <3>2. BucketOf(x) = buckets[x]
      BY <2>4 DEF BucketOf
    <3>3. At(now, BucketOf(x), PerAddress) = PerAddress * Second
      BY <1>1, <1>2, <3>1, <3>2, IdleIsFull DEF BucketType
    <3> QED
      BY <2>3, <3>3
  <2>5. CASE x \notin Tracked
    <3>1. At(now, BucketOf(x), PerAddress) = PerAddress * Second
      BY <1>1, <2>5, BucketFacts
    <3> QED
      BY <2>3, <3>1
  <2> QED
    BY <2>4, <2>5
<1> QED
  BY <1>4, <1>5

\* An attempt takes from its address's bucket what it adds to the count; making
\* room for it forgets only full buckets.
LEMMA AttemptKeepsAddressPotential ==
  ASSUME RateInv, NEW a \in Addresses, AllowNewConnectionAttempt(a)
  PROVE  AddressPotential'
<1> SUFFICES ASSUME PerAddress # 0, NEW x \in Addresses, x \notin unlimited'
             PROVE  accepted'[x] * Second + At(now', BucketOf(x)', PerAddress)
                      <= Allowance(PerAddress)'
  BY DEF AddressPotential
<1>1. TypeOK /\ now \in Nat /\ now' = now /\ Second \in Nat \ {0} /\ PerAddress \in Nat
      /\ PerAddress * Second \in Nat
  BY RateAssumption DEF RateInv, Bookkeeping, TypeOK, AllowNewConnectionAttempt, RateAssumption
<1>2. x \notin unlimited
  BY DEF AllowNewConnectionAttempt
<1>3. accepted[x] * Second + At(now, BucketOf(x), PerAddress) <= Allowance(PerAddress)
  BY <1>2 DEF RateInv, AddressPotential
<1>4. Allowance(PerAddress)' = Allowance(PerAddress) /\ Allowance(PerAddress) \in Nat
  <2>1. since \in Nat /\ now - since \in Nat
    BY <1>1 DEF TypeOK
  <2> QED
    BY <1>1, <2>1 DEF Allowance, AllowNewConnectionAttempt
<1>5. /\ BucketOf(x) \in BucketType(PerAddress)
      /\ At(now, BucketOf(x), PerAddress) \in Nat
      /\ At(now, BucketOf(x), PerAddress) <= PerAddress * Second
  BY <1>1, BucketFacts, RefillBounds DEF BucketType
<1>6. accepted[x] \in Nat /\ accepted[x] * Second \in Nat
      /\ (accepted[x] + 1) * Second = accepted[x] * Second + Second
  BY <1>1 DEF TypeOK
<1>7. CASE x = a
  <2>1. x \in TrackedFor(a)
    BY <1>7 DEF AllowNewConnectionAttempt
  <2>2. BucketOf(x)' = AfterTake(BucketOf(x), PerAddress)
    BY <1>7, <2>1 DEF AllowNewConnectionAttempt, BucketOf, Tracked
  <2>3. /\ AfterTake(BucketOf(x), PerAddress) \in BucketType(PerAddress)
        /\ HasToken(BucketOf(x), PerAddress) =>
             At(now, AfterTake(BucketOf(x), PerAddress), PerAddress) + Second
               = At(now, BucketOf(x), PerAddress)
        /\ At(now, AfterTake(BucketOf(x), PerAddress), PerAddress)
             <= At(now, BucketOf(x), PerAddress)
    BY <1>1, <1>5, TakeCosts
  <2>4. At(now, AfterTake(BucketOf(x), PerAddress), PerAddress) \in Nat
    BY <1>1, <2>3, RefillBounds DEF BucketType
  <2>5. CASE Allowed(a)
    <3>1. HasToken(BucketOf(x), PerAddress)
      BY <1>7, <2>1, <2>5 DEF Allowed, AddressAllows
    <3>2. accepted'[x] = accepted[x] + 1
      BY <1>1, <1>7, <2>5 DEF AllowNewConnectionAttempt, TypeOK
    <3> QED
      BY <1>1, <1>3, <1>4, <1>5, <1>6, <2>2, <2>3, <2>4, <3>1, <3>2
  <2>6. CASE ~Allowed(a)
    <3>1. accepted'[x] = accepted[x]
      BY <2>6 DEF AllowNewConnectionAttempt
    <3> QED
      BY <1>1, <1>3, <1>4, <1>5, <1>6, <2>2, <2>3, <2>4, <3>1
  <2> QED
    BY <2>5, <2>6
<1>8. CASE x # a
  <2>1. accepted'[x] = accepted[x]
    BY <1>1, <1>8 DEF AllowNewConnectionAttempt, TypeOK
  <2>2. At(now', BucketOf(x)', PerAddress) = At(now, BucketOf(x), PerAddress)
    BY <1>1, <1>8, OtherBucketsKeep
  <2> QED
    BY <1>3, <1>4, <2>1, <2>2
<1> QED
  BY <1>7, <1>8

\* An attempt that is accepted takes its token from the listener's bucket.
LEMMA AttemptKeepsTotalPotential ==
  ASSUME RateInv, NEW a \in Addresses, AllowNewConnectionAttempt(a)
  PROVE  TotalPotential'
<1> SUFFICES ASSUME Total # 0
             PROVE  inAll' * Second + At(now', total', Total) <= Allowance(Total)'
  BY DEF TotalPotential
<1>1. TypeOK /\ now \in Nat /\ now' = now /\ Second \in Nat \ {0} /\ Total \in Nat
      /\ Total * Second \in Nat /\ total \in BucketType(Total)
  BY RateAssumption DEF RateInv, Bookkeeping, TypeOK, AllowNewConnectionAttempt, RateAssumption
<1>2. inAll * Second + At(now, total, Total) <= Allowance(Total)
  BY DEF RateInv, TotalPotential
<1>3. Allowance(Total)' = Allowance(Total) /\ Allowance(Total) \in Nat
  <2>1. since \in Nat /\ now - since \in Nat
    BY <1>1 DEF TypeOK
  <2> QED
    BY <1>1, <2>1 DEF Allowance, AllowNewConnectionAttempt
<1>4. inAll \in Nat /\ inAll * Second \in Nat
      /\ (inAll + 1) * Second = inAll * Second + Second
  BY <1>1 DEF TypeOK
<1>5. /\ AfterTake(total, Total) \in BucketType(Total)
      /\ HasToken(total, Total) =>
           At(now, AfterTake(total, Total), Total) + Second = At(now, total, Total)
      /\ At(now, AfterTake(total, Total), Total) <= At(now, total, Total)
  BY <1>1, TakeCosts
<1>6. At(now, total, Total) \in Nat /\ At(now, AfterTake(total, Total), Total) \in Nat
  BY <1>1, <1>5, RefillBounds DEF BucketType
<1>7. CASE Allowed(a)
  <2>1. HasToken(total, Total) /\ total' = AfterTake(total, Total) /\ inAll' = inAll + 1
    BY <1>7 DEF Allowed, TotalAllows, AllowNewConnectionAttempt, TotalAfter
  <2> QED
    BY <1>1, <1>2, <1>3, <1>4, <1>5, <1>6, <2>1
<1>8. CASE ~Allowed(a)
  <2>1. total' \in {total, AfterTake(total, Total)} /\ inAll' = inAll
    BY <1>8 DEF AllowNewConnectionAttempt, TotalAfter
  <2> QED
    BY <1>1, <1>2, <1>3, <1>4, <1>5, <1>6, <2>1
<1> QED
  BY <1>7, <1>8

\* A grain of time adds at most PerAddress to what an address has left.
LEMMA TickRefills ==
  ASSUME RateInv, Tick, NEW a \in Addresses
  PROVE  /\ At(now + 1, BucketOf(a)', PerAddress) \in Nat
         /\ At(now + 1, BucketOf(a)', PerAddress) <= PerAddress * Second
         /\ At(now + 1, BucketOf(a)', PerAddress)
              <= At(now, BucketOf(a), PerAddress) + PerAddress
<1>1. /\ TypeOK /\ now \in Nat /\ now' = now + 1 /\ UNCHANGED buckets
      /\ Second \in Nat \ {0} /\ PerAddress \in Nat
  BY RateAssumption DEF RateInv, Bookkeeping, TypeOK, Tick, RateAssumption, code
<1>2. Tracked' = Tracked
  BY <1>1 DEF Tracked
<1>3. /\ BucketOf(a) \in BucketType(PerAddress)
      /\ At(now, BucketOf(a), PerAddress) \in Nat
  BY <1>1, BucketFacts, RefillBounds DEF BucketType
<1>4. CASE a \in Tracked
  <2>1. BucketOf(a)' = BucketOf(a)
    BY <1>1, <1>2, <1>4 DEF BucketOf
  <2>2. BucketOf(a) \in [tokens : 0..(PerAddress * Second), lastRefill : 0..(now + 1)]
    BY <1>1, <1>3 DEF BucketType
  <2>3. /\ At(now + 1, BucketOf(a), PerAddress) \in Nat
        /\ At(now + 1, BucketOf(a), PerAddress) <= PerAddress * Second
    BY <1>1, <2>2, RefillBounds
  <2>4. At(now + 1, BucketOf(a), PerAddress)
          <= At(now, BucketOf(a), PerAddress) + PerAddress
    BY <1>1, <1>3, RefillGrain DEF BucketType
  <2> QED
    BY <2>1, <2>3, <2>4
<1>5. CASE a \notin Tracked
  <2>1. At(now, BucketOf(a), PerAddress) = PerAddress * Second
    BY <1>1, <1>5, BucketFacts
  <2>2. BucketOf(a)' = [tokens |-> PerAddress * Second, lastRefill |-> now + 1]
    BY <1>1, <1>2, <1>5 DEF BucketOf, FullBucket
  <2>3. PerAddress * ((now + 1) - (now + 1)) = 0 /\ PerAddress * Second \in Nat
    BY <1>1
  <2>4. At(now + 1, BucketOf(a)', PerAddress) = PerAddress * Second
    BY <2>2, <2>3 DEF At
  <2> QED
    BY <1>1, <2>1, <2>3, <2>4
<1> QED
  BY <1>4, <1>5

\* In a grain of time a bucket gains no more than its allowance does.
LEMMA TickKeepsRateInv ==
  ASSUME RateInv, Tick
  PROVE  RateInv'
<1>1. /\ TypeOK /\ now \in Nat /\ now' = now + 1 /\ now' <= MaxTime /\ MaxTime \in Nat
      /\ UNCHANGED <<buckets, total, limitHit, since, accepted, inAll, seen, unlimited>>
      /\ Second \in Nat \ {0} /\ PerAddress \in Nat /\ Total \in Nat
  BY RateAssumption
  DEF RateInv, Bookkeeping, TypeOK, Tick, RateAssumption, code, history
<1>2. Tracked' = Tracked
  BY <1>1 DEF Tracked
<1>3. \A rate \in Nat : \A b \in BucketType(rate) : b \in BucketType(rate)'
  BY <1>1 DEF BucketType
<1>4. Bookkeeping'
  BY <1>1, <1>2, <1>3 DEF RateInv, Bookkeeping, TypeOK
<1>5. since \in Nat /\ now - since \in Nat
  BY <1>1 DEF TypeOK
<1>6. ASSUME NEW rate \in Nat
      PROVE  Allowance(rate) \in Nat /\ Allowance(rate)' = Allowance(rate) + rate
  BY <1>1, <1>5 DEF Allowance
<1>7. AddressPotential'
  <2> SUFFICES ASSUME PerAddress # 0, NEW a \in Addresses, a \notin unlimited
               PROVE  accepted[a] * Second + At(now + 1, BucketOf(a)', PerAddress)
                        <= Allowance(PerAddress)'
    BY <1>1 DEF AddressPotential
  <2>1. accepted[a] * Second + At(now, BucketOf(a), PerAddress) <= Allowance(PerAddress)
    BY DEF RateInv, AddressPotential
  <2>2. accepted[a] * Second \in Nat
    BY <1>1 DEF TypeOK
  <2>3. /\ BucketOf(a) \in BucketType(PerAddress)
        /\ At(now, BucketOf(a), PerAddress) \in Nat
    BY <1>1, BucketFacts, RefillBounds DEF BucketType
  <2>4. /\ At(now + 1, BucketOf(a)', PerAddress) \in Nat
        /\ At(now + 1, BucketOf(a)', PerAddress)
             <= At(now, BucketOf(a), PerAddress) + PerAddress
    BY TickRefills
  <2> QED
    BY <1>1, <1>6, <2>1, <2>2, <2>3, <2>4
<1>8. TotalPotential'
  <2> SUFFICES ASSUME Total # 0
               PROVE  inAll * Second + At(now + 1, total, Total) <= Allowance(Total)'
    BY <1>1 DEF TotalPotential
  <2>1. inAll * Second + At(now, total, Total) <= Allowance(Total)
    BY DEF RateInv, TotalPotential
  <2>2. inAll * Second \in Nat /\ total \in BucketType(Total)
    BY <1>1 DEF TypeOK
  <2>3. At(now, total, Total) \in Nat
    BY <1>1, <2>2, RefillBounds DEF BucketType
  <2>4. total \in [tokens : 0..(Total * Second), lastRefill : 0..(now + 1)]
    BY <1>1, <2>2 DEF BucketType
  <2>5. At(now + 1, total, Total) \in Nat
    BY <1>1, <2>4, RefillBounds
  <2>6. At(now + 1, total, Total) <= At(now, total, Total) + Total
    BY <1>1, <2>2, RefillGrain DEF BucketType
  <2> QED
    BY <1>1, <1>6, <2>1, <2>2, <2>3, <2>5, <2>6
<1> QED
  BY <1>4, <1>7, <1>8 DEF RateInv

\* A count that begins now begins with at most a full bucket.
LEMMA ObserveKeepsRateInv ==
  ASSUME RateInv, Observe
  PROVE  RateInv'
<1>1. /\ TypeOK /\ now \in Nat /\ since' = now
      /\ UNCHANGED <<now, buckets, total, limitHit, seen, unlimited>>
      /\ accepted' = [a \in Addresses |-> 0] /\ inAll' = 0
      /\ Second \in Nat \ {0} /\ PerAddress \in Nat /\ Total \in Nat
  BY RateAssumption DEF RateInv, Bookkeeping, TypeOK, Observe, RateAssumption, code
<1>2. Tracked' = Tracked
  BY <1>1 DEF Tracked
<1>3. Bookkeeping'
  BY <1>1, <1>2 DEF RateInv, Bookkeeping, TypeOK, BucketType
<1>4. ASSUME NEW rate \in Nat
      PROVE  Allowance(rate)' = rate * Second /\ rate * Second \in Nat
  BY <1>1 DEF Allowance
<1>5. AddressPotential'
  <2> SUFFICES ASSUME NEW a \in Addresses
               PROVE  accepted'[a] * Second + At(now', BucketOf(a)', PerAddress)
                        <= Allowance(PerAddress)'
    BY DEF AddressPotential
  <2>1. accepted'[a] * Second = 0
    BY <1>1
  <2>2. BucketOf(a)' = BucketOf(a)
    BY <1>1, <1>2 DEF BucketOf, FullBucket
  <2>3. /\ At(now, BucketOf(a), PerAddress) \in Nat
        /\ At(now, BucketOf(a), PerAddress) <= PerAddress * Second
    BY <1>1, BucketFacts, RefillBounds DEF BucketType
  <2> QED
    BY <1>1, <1>4, <2>1, <2>2, <2>3
<1>6. TotalPotential'
  <2>1. inAll' * Second = 0
    BY <1>1
  <2>2. At(now, total, Total) \in Nat /\ At(now, total, Total) <= Total * Second
    BY <1>1, RefillBounds DEF TypeOK, BucketType
  <2>3. inAll' * Second + At(now', total', Total) <= Allowance(Total)'
    BY <1>1, <1>4, <2>1, <2>2
  <2> QED
    BY <2>3 DEF TotalPotential
<1> QED
  BY <1>3, <1>5, <1>6 DEF RateInv

\* Every step keeps the invariant.
LEMMA RateStep == RateInv /\ [Next]_vars => RateInv'
<1> SUFFICES ASSUME RateInv, [Next]_vars PROVE RateInv'
  OBVIOUS
<1>1. ASSUME NEW a \in Addresses, AllowNewConnectionAttempt(a) PROVE RateInv'
  BY <1>1, AttemptKeepsBookkeeping, AttemptKeepsAddressPotential, AttemptKeepsTotalPotential
  DEF RateInv
<1>2. CASE Tick
  BY <1>2, TickKeepsRateInv
<1>3. CASE Observe
  BY <1>3, ObserveKeepsRateInv
<1>4. CASE UNCHANGED vars
  BY <1>4
  DEF vars, code, history, RateInv, Bookkeeping, TypeOK, AddressPotential, TotalPotential,
      Tracked, BucketOf, FullBucket, BucketType, Allowance
<1> QED
  BY <1>1, <1>2, <1>3, <1>4 DEF Next

-----------------------------------------------------------------------------
(***************************************************************************)
(* Sums, as the sizes of sets: a column of f[x] places over each x of S,   *)
(* none higher than `height`.                                              *)
(***************************************************************************)

Pile(f, S, height) == {p \in S \X (1..height) : p[2] <= f[p[1]]}

\* A pile fits in the box around it.
LEMMA PileFits ==
  ASSUME NEW S, IsFiniteSet(S), NEW height \in Nat, NEW f \in [S -> 0..height]
  PROVE  /\ IsFiniteSet(Pile(f, S, height))
         /\ Cardinality(Pile(f, S, height)) \in Nat
         /\ Cardinality(Pile(f, S, height)) <= Cardinality(S) * height
<1>1. IsFiniteSet(1..height) /\ Cardinality(1..height) = height
  BY FS_Interval
<1>2. IsFiniteSet(S \X (1..height))
      /\ Cardinality(S \X (1..height)) = Cardinality(S) * height
  BY <1>1, FS_Product
<1>3. Pile(f, S, height) \in SUBSET (S \X (1..height))
  BY DEF Pile
<1>4. /\ IsFiniteSet(Pile(f, S, height))
      /\ Cardinality(Pile(f, S, height)) <= Cardinality(S \X (1..height))
  BY <1>2, <1>3, FS_Subset
<1> QED
  BY <1>2, <1>4, FS_CardinalityType

\* A pile that rises by `more` over one place, and falls nowhere, holds `more` more.
LEMMA PileRises ==
  ASSUME NEW S, NEW T, IsFiniteSet(S), IsFiniteSet(T), S \subseteq T,
         NEW height \in Nat, NEW f \in [S -> 0..height], NEW g \in [T -> 0..height],
         \A x \in S : f[x] <= g[x],
         NEW a \in T, NEW more \in Nat,
         g[a] >= (IF a \in S THEN f[a] ELSE 0) + more
  PROVE  Cardinality(Pile(f, S, height)) + more <= Cardinality(Pile(g, T, height))
<1> DEFINE low == IF a \in S THEN f[a] ELSE 0
           added == {a} \X ((low + 1)..(low + more))
<1>1. low \in Nat /\ g[a] \in 0..height /\ low + more <= g[a]
  OBVIOUS
<1>2. IsFiniteSet(added) /\ Cardinality(added) = more
  <2>1. IsFiniteSet((low + 1)..(low + more))
        /\ Cardinality((low + 1)..(low + more)) = more
    <3> HIDE DEF low
    <3>1. low + 1 \in Int /\ low + more \in Int
          /\ (IF low + 1 > low + more THEN 0 ELSE (low + more) - (low + 1) + 1) = more
      BY <1>1
    <3> QED
      BY <3>1, FS_Interval
  <2>2. IsFiniteSet({a}) /\ Cardinality({a}) = 1
    BY FS_Singleton
  <2>3. IsFiniteSet(added) /\ Cardinality(added) = 1 * more
    <3> HIDE DEF low
    <3> QED
      BY <2>1, <2>2, FS_Product, ZenonT(60)
  <2> QED
    BY <2>3
<1>3. Pile(f, S, height) \cap added = {}
  BY DEF Pile
<1>4. Pile(f, S, height) \cup added \in SUBSET Pile(g, T, height)
  <2>1. ASSUME NEW p \in Pile(f, S, height) PROVE p \in Pile(g, T, height)
    <3>1. p \in S \X (1..height) /\ p[2] <= f[p[1]]
      BY DEF Pile
    <3>2. p[1] \in S /\ p[2] \in 1..height /\ f[p[1]] \in 0..height /\ g[p[1]] \in 0..height
      BY <3>1
    <3>3. p[2] <= g[p[1]]
      BY <3>1, <3>2
    <3> QED
      BY <3>1, <3>3 DEF Pile
  <2>2. ASSUME NEW n \in (low + 1)..(low + more) PROVE <<a, n>> \in Pile(g, T, height)
    <3>1. n \in 1..height /\ n <= g[a]
      <4> HIDE DEF low
      <4> QED
        BY <1>1
    <3> QED
      BY <3>1 DEF Pile
  <2> QED
    BY <2>1, <2>2
<1> HIDE DEF added
<1>5. /\ IsFiniteSet(Pile(f, S, height)) /\ Cardinality(Pile(f, S, height)) \in Nat
      /\ IsFiniteSet(Pile(g, T, height))
  BY PileFits
<1>6. Cardinality(Pile(f, S, height) \cup added) = Cardinality(Pile(f, S, height)) + more
  <2>1. Cardinality(Pile(f, S, height) \cap added) = 0
    BY <1>3, FS_EmptySet
  <2> QED
    BY <1>2, <1>5, <2>1, FS_Union
<1> QED
  BY <1>4, <1>5, <1>6, FS_Subset

\* A pile that falls by at most `less` over each place loses at most `less` for each.
LEMMA PileFalls ==
  ASSUME NEW S, IsFiniteSet(S), NEW height \in Nat, NEW less \in Nat,
         NEW f \in [S -> 0..height], NEW g \in [S -> 0..height],
         \A x \in S : f[x] <= g[x] + less
  PROVE  Cardinality(Pile(f, S, height))
           <= Cardinality(Pile(g, S, height)) + Cardinality(S) * less
<1> DEFINE before == Pile(f, S, height)
           after == Pile(g, S, height)
           lost == before \ after
           depth == [p \in lost |-> <<p[1], f[p[1]] - p[2] + 1>>]
<1>1. /\ IsFiniteSet(before) /\ Cardinality(before) \in Nat
      /\ IsFiniteSet(after) /\ Cardinality(after) \in Nat
  BY PileFits
<1>2. IsFiniteSet(1..less) /\ Cardinality(1..less) = less
  BY FS_Interval
<1>3. IsFiniteSet(S \X (1..less)) /\ Cardinality(S \X (1..less)) = Cardinality(S) * less
  BY <1>2, FS_Product
<1>4. ASSUME NEW p \in lost
      PROVE  /\ p[1] \in S /\ p[2] \in Nat /\ f[p[1]] \in Nat /\ p = <<p[1], p[2]>>
             /\ f[p[1]] - p[2] + 1 \in 1..less
  <2>1. p \in S \X (1..height) /\ p[2] <= f[p[1]] /\ ~(p[2] <= g[p[1]])
    BY DEF Pile
  <2>2. p[1] \in S /\ p[2] \in 1..height /\ f[p[1]] \in 0..height /\ g[p[1]] \in 0..height
    BY <2>1
  <2>3. f[p[1]] <= g[p[1]] + less
    BY <2>2
  <2> QED
    BY <2>1, <2>2, <2>3
<1>5. depth \in Injection(lost, S \X (1..less))
  <2>1. depth \in [lost -> S \X (1..less)]
    BY <1>4
  <2>2. ASSUME NEW p \in lost, NEW q \in lost, depth[p] = depth[q]
        PROVE  p = q
    <3>1. p[1] = q[1] /\ f[p[1]] - p[2] + 1 = f[q[1]] - q[2] + 1
      BY <2>2
    <3> HIDE DEF lost, depth
    <3>2. p[2] = q[2]
      BY <1>4, <3>1
    <3> QED
      BY <1>4, <3>1, <3>2
  <2> HIDE DEF lost, depth
  <2> QED
    BY <2>1, <2>2 DEF Injection, IsInjective
<1>6. Cardinality(lost) <= Cardinality(S) * less
  <2> HIDE DEF depth, lost
  <2> QED
    BY <1>3, <1>5, FS_Injection
<1> HIDE DEF before, after, depth
<1>7. Cardinality(lost) = Cardinality(before) - Cardinality(before \cap after)
  BY <1>1, FS_Difference
<1>8. Cardinality(before \cap after) <= Cardinality(after)
      /\ Cardinality(before \cap after) \in Nat
  <2>1. before \cap after \in SUBSET after
    OBVIOUS
  <2> QED
    BY <1>1, <2>1, FS_Subset, FS_CardinalityType
<1>9. Cardinality(lost) \in Nat /\ Cardinality(S) * less \in Nat
  <2>1. Cardinality(S) \in Nat
    BY FS_CardinalityType
  <2>2. lost \in SUBSET before
    OBVIOUS
  <2> QED
    BY <1>1, <2>1, <2>2, FS_Subset, FS_CardinalityType
<1> HIDE DEF lost
<1>10. Cardinality(before) <= Cardinality(after) + Cardinality(S) * less
  BY <1>1, <1>6, <1>7, <1>8, <1>9
<1> QED
  BY <1>10 DEF before, after

-----------------------------------------------------------------------------
(***************************************************************************)
(* What the listener's bucket lacks is at most what the buckets of the     *)
(* addresses that tried lack together, as long as they are few.            *)
(***************************************************************************)

Capacity == PerAddress * Second

\* What each address that tried has taken and not got back.
Owed == [x \in seen |-> Capacity - At(now, BucketOf(x), PerAddress)]

Debts == Pile(Owed, seen, Capacity)

TheyAreFew ==
  PerAddress # 0 /\ unlimited = {} /\ Cardinality(seen) * PerAddress <= Total

FewInv ==
  /\ RateInv
  /\ IsFiniteSet(seen)
  /\ TheyAreFew => /\ limitHit # "total"
                   /\ Total * Second <= At(now, total, Total) + Cardinality(Debts)

\* Each address that tried owes between nothing and a full bucket.
LEMMA DebtFacts ==
  ASSUME RateInv
  PROVE  /\ now \in Nat /\ Second \in Nat \ {0} /\ PerAddress \in Nat /\ Total \in Nat
         /\ Capacity \in Nat /\ Total * Second \in Nat
         /\ Owed \in [seen -> 0..Capacity]
         /\ total \in BucketType(Total)
         /\ At(now, total, Total) \in Nat /\ At(now, total, Total) <= Total * Second
<1>1. /\ TypeOK /\ now \in Nat /\ Second \in Nat \ {0} /\ PerAddress \in Nat /\ Total \in Nat
      /\ PerAddress * Second \in Nat /\ Total * Second \in Nat
      /\ seen \subseteq Addresses /\ total \in BucketType(Total)
  BY RateAssumption DEF RateInv, Bookkeeping, TypeOK, RateAssumption
<1>2. At(now, total, Total) \in Nat /\ At(now, total, Total) <= Total * Second
  BY <1>1, RefillBounds DEF BucketType
<1>3. ASSUME NEW x \in seen
      PROVE  Capacity - At(now, BucketOf(x), PerAddress) \in 0..Capacity
  <2>1. /\ At(now, BucketOf(x), PerAddress) \in Nat
        /\ At(now, BucketOf(x), PerAddress) <= PerAddress * Second
    BY <1>1, BucketFacts, RefillBounds DEF BucketType
  <2> QED
    BY <1>1, <2>1 DEF Capacity
<1> QED
  BY <1>1, <1>2, <1>3 DEF Owed, Capacity

DebtsAreBounded == Owed \in [seen -> 0..Capacity]

LEMMA DebtType == RateInv => DebtsAreBounded
BY DebtFacts DEF DebtsAreBounded

\* What is owed is naturally bounded by what the addresses' buckets hold.
LEMMA DebtsFit ==
  ASSUME RateInv, IsFiniteSet(seen)
  PROVE  /\ Cardinality(Debts) \in Nat
         /\ Cardinality(Debts) <= Cardinality(seen) * Capacity
BY DebtFacts, PileFits DEF Debts

\* An attempt the address's bucket allows adds a second's worth to the debts, so
\* that the listener's bucket had a token for it; one it refuses adds nothing.
LEMMA AttemptKeepsFewInv ==
  ASSUME FewInv, NEW a \in Addresses, AllowNewConnectionAttempt(a), RateInv'
  PROVE  FewInv'
<1>1. /\ seen' = seen \cup {a} /\ now' = now /\ unlimited \subseteq unlimited'
      /\ IsFiniteSet(seen) /\ IsFiniteSet(seen')
      /\ Cardinality(seen) \in Nat /\ Cardinality(seen') \in Nat
      /\ Cardinality(seen) <= Cardinality(seen')
  <2>1. seen' = seen \cup {a} /\ now' = now /\ unlimited \subseteq unlimited'
    BY DEF AllowNewConnectionAttempt
  <2>2. IsFiniteSet(seen) /\ IsFiniteSet(seen')
    BY <2>1, FS_AddElement DEF FewInv
  <2>3. seen \in SUBSET seen'
    BY <2>1
  <2> QED
    BY <2>1, <2>2, <2>3, FS_Subset, FS_CardinalityType
<1>2. /\ now \in Nat /\ Second \in Nat \ {0} /\ PerAddress \in Nat /\ Total \in Nat
      /\ Capacity \in Nat /\ Total * Second \in Nat
      /\ Owed \in [seen -> 0..Capacity]
      /\ total \in BucketType(Total)
      /\ At(now, total, Total) \in Nat /\ At(now, total, Total) <= Total * Second
  BY DebtFacts DEF FewInv
<1>3. Owed' \in [seen' -> 0..Capacity]
  <2>1. DebtsAreBounded'
    BY DebtType, PTL
  <2> QED
    BY <2>1 DEF DebtsAreBounded, Capacity
<1> SUFFICES ASSUME TheyAreFew'
             PROVE  /\ limitHit' # "total"
                    /\ Total * Second <= At(now', total', Total) + Cardinality(Debts)'
  BY <1>1 DEF FewInv
<1>4. PerAddress # 0 /\ unlimited' = {} /\ Cardinality(seen') * PerAddress <= Total
  BY DEF TheyAreFew
<1>5. TheyAreFew
  <2>1. Cardinality(seen) * PerAddress <= Cardinality(seen') * PerAddress
    <3>1. \A m, n, k \in Nat : m <= n => m * k <= n * k
      OBVIOUS
    <3> QED
      BY <1>1, <1>2, <3>1
  <2> QED
    BY <1>1, <1>2, <1>4, <2>1 DEF TheyAreFew
<1>6. Total * Second <= At(now, total, Total) + Cardinality(Debts) /\ limitHit # "total"
  BY <1>5 DEF FewInv
<1>7. \A x \in seen \ {a} : Owed'[x] = Owed[x]
  <2> SUFFICES ASSUME NEW x \in seen, x # a
               PROVE  Owed'[x] = Owed[x]
    OBVIOUS
  <2>1. x \in Addresses /\ x \in seen'
    BY <1>1 DEF FewInv, RateInv, Bookkeeping, TypeOK
  <2>2. At(now', BucketOf(x)', PerAddress) = At(now, BucketOf(x), PerAddress)
    BY <2>1, OtherBucketsKeep DEF FewInv
  <2> QED
    BY <2>1, <2>2 DEF Owed, Capacity
<1>8. a \in TrackedFor(a) /\ BucketOf(a)' = AfterTake(BucketOf(a), PerAddress)
  <2>1. a \in TrackedFor(a)
    BY <1>4 DEF AllowNewConnectionAttempt
  <2> QED
    BY <2>1 DEF AllowNewConnectionAttempt, BucketOf, Tracked
<1>9. /\ At(now, BucketOf(a), PerAddress) \in Nat
      /\ At(now, BucketOf(a), PerAddress) <= Capacity
      /\ At(now, AfterTake(BucketOf(a), PerAddress), PerAddress) \in Nat
      /\ HasToken(BucketOf(a), PerAddress) =>
           At(now, AfterTake(BucketOf(a), PerAddress), PerAddress) + Second
             = At(now, BucketOf(a), PerAddress)
      /\ At(now, AfterTake(BucketOf(a), PerAddress), PerAddress)
           <= At(now, BucketOf(a), PerAddress)
  <2>1. BucketOf(a) \in BucketType(PerAddress)
    BY BucketFacts DEF FewInv, RateInv, Bookkeeping
  <2>2. /\ AfterTake(BucketOf(a), PerAddress) \in BucketType(PerAddress)
        /\ HasToken(BucketOf(a), PerAddress) =>
             At(now, AfterTake(BucketOf(a), PerAddress), PerAddress) + Second
               = At(now, BucketOf(a), PerAddress)
        /\ At(now, AfterTake(BucketOf(a), PerAddress), PerAddress)
             <= At(now, BucketOf(a), PerAddress)
    BY <1>2, <2>1, TakeCosts
  <2> QED
    BY <1>2, <2>1, <2>2, RefillBounds DEF BucketType, Capacity
<1>10. /\ Owed'[a] = Capacity - At(now, AfterTake(BucketOf(a), PerAddress), PerAddress)
       /\ a \in seen => Owed[a] = Capacity - At(now, BucketOf(a), PerAddress)
  BY <1>1, <1>8 DEF Owed, Capacity
<1> DEFINE more == IF AddressAllows(a) THEN Second ELSE 0
<1>11. /\ more \in Nat
       /\ Owed'[a] >= (IF a \in seen THEN Owed[a] ELSE 0) + more
  <2>1. AddressAllows(a) <=> HasToken(BucketOf(a), PerAddress)
    BY <1>4, <1>8 DEF AddressAllows
  <2> QED
    BY <1>2, <1>9, <1>10, <2>1
<1> HIDE DEF more
<1>12. Cardinality(Debts) + more <= Cardinality(Debts)'
  <2>1. \A x \in seen : Owed[x] <= Owed'[x]
    <3>1. \A x \in seen : Owed[x] \in 0..Capacity
      BY <1>2
    <3>2. a \in seen => Owed[a] <= Owed'[a]
      BY <1>2, <1>9, <1>10
    <3> QED
      BY <1>2, <1>7, <3>1, <3>2
  <2>2. Debts' = Pile(Owed', seen', Capacity)
    BY DEF Debts, Pile, Capacity
  <2>3. seen \subseteq seen' /\ a \in seen'
    BY <1>1
  <2> QED
    BY <1>1, <1>2, <1>3, <1>11, <2>1, <2>2, <2>3, PileRises DEF Debts
<1>13. Cardinality(Debts)' \in Nat /\ Cardinality(Debts) \in Nat
       /\ Cardinality(Debts)' <= Total * Second
  <2>1. Cardinality(Debts) \in Nat
    BY <1>1, DebtsFit DEF FewInv
  <2>2. /\ Cardinality(Debts)' \in Nat
        /\ Cardinality(Debts)' <= Cardinality(seen') * Capacity
    <3>1. Debts' = Pile(Owed', seen', Capacity)
      BY DEF Debts, Pile, Capacity
    <3> QED
      BY <1>1, <1>2, <1>3, <3>1, PileFits
  <2>3. Cardinality(seen') * Capacity <= Total * Second
    <3>1. \A n, p, s, t \in Nat : n * p <= t => n * (p * s) <= t * s
      <4> SUFFICES ASSUME NEW n \in Nat, NEW p \in Nat, NEW s \in Nat, NEW t \in Nat,
                          n * p <= t
                   PROVE  n * (p * s) <= t * s
        OBVIOUS
      <4>1. n * (p * s) = (n * p) * s
        OBVIOUS
      <4>2. n * p \in Nat
        OBVIOUS
      <4>3. \A u, v, w \in Nat : u <= v => u * w <= v * w
        OBVIOUS
      <4> QED
        BY <4>1, <4>2, <4>3
    <3> QED
      BY <1>1, <1>2, <1>4, <3>1 DEF Capacity
  <2>4. Cardinality(seen') * Capacity \in Nat
    BY <1>1, <1>2
  <2> QED
    BY <1>2, <2>1, <2>2, <2>3, <2>4
<1>14. CASE AddressAllows(a)
  <2>1. At(now, total, Total) >= Second
    BY <1>2, <1>6, <1>12, <1>13, <1>14 DEF more
  <2>2. HasToken(total, Total)
    BY <2>1 DEF HasToken, Refilled, At
  <2>3. Total # 0
    BY <1>2, <2>1
  <2>4. total' = AfterTake(total, Total) /\ limitHit' = "accepted"
    BY <1>14, <2>2, <2>3
    DEF AllowNewConnectionAttempt, TotalAfter, Allowed, TotalAllows
  <2>5. /\ At(now, AfterTake(total, Total), Total) + Second = At(now, total, Total)
        /\ AfterTake(total, Total) \in BucketType(Total)
    BY <1>2, <2>2, TakeCosts
  <2>6. At(now, AfterTake(total, Total), Total) \in Nat
    BY <1>2, <2>5, RefillBounds DEF BucketType
  <2> QED
    BY <1>1, <1>2, <1>6, <1>12, <1>13, <1>14, <2>4, <2>5, <2>6 DEF more
<1>15. CASE ~AddressAllows(a)
  <2>1. total' = total /\ limitHit' = "per-address"
    BY <1>15 DEF AllowNewConnectionAttempt, TotalAfter, Allowed
  <2> QED
    BY <1>1, <1>2, <1>6, <1>12, <1>13, <1>15, <2>1 DEF more
<1> QED
  BY <1>14, <1>15

\* In a grain of time the few addresses get back no more than the listener does.
LEMMA TickKeepsFewInv ==
  ASSUME FewInv, Tick, RateInv'
  PROVE  FewInv'
<1>1. /\ now' = now + 1 /\ UNCHANGED <<total, limitHit, seen, unlimited>>
      /\ IsFiniteSet(seen) /\ Cardinality(seen) \in Nat
  BY FS_CardinalityType DEF Tick, code, history, FewInv
<1>2. /\ now \in Nat /\ Second \in Nat \ {0} /\ PerAddress \in Nat /\ Total \in Nat
      /\ Capacity \in Nat /\ Total * Second \in Nat
      /\ Owed \in [seen -> 0..Capacity]
      /\ total \in BucketType(Total)
      /\ At(now, total, Total) \in Nat /\ At(now, total, Total) <= Total * Second
  BY DebtFacts DEF FewInv
<1>3. Owed' \in [seen -> 0..Capacity]
  <2>1. DebtsAreBounded'
    BY DebtType, PTL
  <2> QED
    BY <1>1, <2>1 DEF DebtsAreBounded, Capacity
<1> SUFFICES ASSUME TheyAreFew'
             PROVE  /\ limitHit' # "total"
                    /\ Total * Second <= At(now', total', Total) + Cardinality(Debts)'
  BY <1>1 DEF FewInv
<1>4. TheyAreFew
  BY <1>1 DEF TheyAreFew
<1>5. Total * Second <= At(now, total, Total) + Cardinality(Debts) /\ limitHit # "total"
  BY <1>4 DEF FewInv
<1>6. Cardinality(seen) * PerAddress <= Total /\ Cardinality(seen) * PerAddress \in Nat
  BY <1>1, <1>2, <1>4 DEF TheyAreFew
<1>7. \A x \in seen : Owed[x] <= Owed'[x] + PerAddress
  <2> SUFFICES ASSUME NEW x \in seen
               PROVE  Owed[x] <= Owed'[x] + PerAddress
    OBVIOUS
  <2>1. x \in Addresses
    BY DEF FewInv, RateInv, Bookkeeping, TypeOK
  <2>2. /\ At(now + 1, BucketOf(x)', PerAddress) \in Nat
        /\ At(now + 1, BucketOf(x)', PerAddress)
             <= At(now, BucketOf(x), PerAddress) + PerAddress
    BY <2>1, TickRefills DEF FewInv
  <2>3. At(now, BucketOf(x), PerAddress) \in Nat
    BY <1>2, <2>1, BucketFacts, RefillBounds DEF FewInv, RateInv, Bookkeeping, BucketType
  <2>4. /\ Owed[x] = Capacity - At(now, BucketOf(x), PerAddress)
        /\ Owed'[x] = Capacity - At(now + 1, BucketOf(x)', PerAddress)
    BY <1>1 DEF Owed, Capacity
  <2> QED
    BY <1>2, <2>2, <2>3, <2>4
<1>8. /\ Cardinality(Debts) <= Cardinality(Debts)' + Cardinality(seen) * PerAddress
      /\ Cardinality(Debts) \in Nat /\ Cardinality(Debts)' \in Nat
  <2>1. Debts' = Pile(Owed', seen, Capacity)
    BY <1>1 DEF Debts, Pile, Capacity
  <2>2. Cardinality(Debts') \in Nat /\ Cardinality(Debts) \in Nat
    BY <1>1, <1>2, <1>3, <2>1, PileFits DEF Debts
  <2> QED
    BY <1>1, <1>2, <1>3, <1>7, <2>1, <2>2, PileFalls DEF Debts
<1>9. \/ At(now + 1, total, Total) = At(now, total, Total) + Total
      \/ At(now + 1, total, Total) = Total * Second
  BY <1>2, RefillStep DEF BucketType
<1> QED
  BY <1>1, <1>2, <1>5, <1>6, <1>8, <1>9

\* At start-up nobody has tried and the listener's bucket is full.
LEMMA FewInit == Init => FewInv
<1> SUFFICES ASSUME Init PROVE FewInv
  OBVIOUS
<1>1. RateInv
  BY RateInit
<1>2. seen = {} /\ IsFiniteSet(seen) /\ limitHit = "accepted"
  BY FS_EmptySet DEF Init
<1>3. At(now, total, Total) = Total * Second
  <2>1. total = [tokens |-> Total * Second, lastRefill |-> 0] /\ now = 0
    BY DEF Init, FullBucket
  <2>2. Total * (0 - 0) = 0 /\ Total * Second \in Nat
    BY RateAssumption DEF RateAssumption
  <2> QED
    BY <2>1, <2>2 DEF At
<1>4. Cardinality(Debts) \in Nat /\ Total * Second \in Nat
  BY <1>1, <1>2, DebtsFit, DebtFacts
<1> QED
  BY <1>1, <1>2, <1>3, <1>4 DEF FewInv

\* Every step keeps the invariant.
LEMMA FewStep == FewInv /\ [Next]_vars => FewInv'
<1> SUFFICES ASSUME FewInv, [Next]_vars PROVE FewInv'
  OBVIOUS
<1>1. RateInv'
  BY RateStep DEF FewInv
<1>2. ASSUME NEW a \in Addresses, AllowNewConnectionAttempt(a) PROVE FewInv'
  BY <1>1, <1>2, AttemptKeepsFewInv
<1>3. CASE Tick
  BY <1>1, <1>3, TickKeepsFewInv
<1>4. CASE UNCHANGED <<now, code, seen, unlimited>>
  <2>1. UNCHANGED <<now, buckets, total, limitHit, seen, unlimited>>
    BY <1>4 DEF code
  <2>2. Owed' = Owed
    BY <2>1 DEF Owed, Capacity, BucketOf, Tracked, FullBucket, At
  <2>3. Debts' = Debts
    BY <2>1, <2>2 DEF Debts, Pile, Capacity
  <2> QED
    BY <1>1, <2>1, <2>3 DEF FewInv, TheyAreFew, At
<1> QED
  BY <1>2, <1>3, <1>4 DEF Next, Observe, vars, history, code

-----------------------------------------------------------------------------
(***************************************************************************)
(* The theorems                                                            *)
(***************************************************************************)

\* RateInv is an invariant of AllowNewConnectionAttempt, for every limit.
THEOREM RateInvariant == Spec => []RateInv
<1> QED
  BY RateInit, RateStep, PTL DEF Spec

\* The table never outgrows kMaxTrackedAddresses and no bucket its capacity.
THEOREM TypeCorrect == Spec => []TypeOK
<1>1. RateInv => TypeOK
  BY DEF RateInv, Bookkeeping
<1> QED
  BY <1>1, RateInvariant, PTL

\* AddressWithinLimit for every number of addresses, table size and limit:
\* forgetting an idle address gives nobody an extra burst.
THEOREM AddressNeverExceedsLimit == Spec => []AddressWithinLimit
<1>1. RateInv => AddressWithinLimit
  <2> SUFFICES ASSUME RateInv, PerAddress # 0, NEW a \in Addresses, a \notin unlimited
               PROVE  accepted[a] * Second <= Allowance(PerAddress)
    BY DEF AddressWithinLimit
  <2>1. accepted[a] * Second + At(now, BucketOf(a), PerAddress) <= Allowance(PerAddress)
    BY DEF RateInv, AddressPotential
  <2>2. /\ TypeOK /\ now \in Nat /\ since \in Nat /\ now - since \in Nat
        /\ Second \in Nat /\ PerAddress \in Nat
    BY RateAssumption DEF RateInv, Bookkeeping, TypeOK, RateAssumption
  <2>3. accepted[a] * Second \in Nat /\ Allowance(PerAddress) \in Nat
    BY <2>2 DEF TypeOK, Allowance
  <2>4. At(now, BucketOf(a), PerAddress) \in Nat
    BY <2>2, BucketFacts, RefillBounds DEF BucketType
  <2> QED
    BY <2>1, <2>3, <2>4
<1> QED
  BY <1>1, RateInvariant, PTL

\* ListenerWithinLimit for every number of addresses, table size and limit.
THEOREM ListenerNeverExceedsLimit == Spec => []ListenerWithinLimit
<1>1. RateInv => ListenerWithinLimit
  <2> SUFFICES ASSUME RateInv, Total # 0
               PROVE  inAll * Second <= Allowance(Total)
    BY DEF ListenerWithinLimit
  <2>1. inAll * Second + At(now, total, Total) <= Allowance(Total)
    BY DEF RateInv, TotalPotential
  <2>2. /\ TypeOK /\ now \in Nat /\ since \in Nat /\ now - since \in Nat
        /\ Second \in Nat /\ Total \in Nat
    BY RateAssumption DEF RateInv, Bookkeeping, TypeOK, RateAssumption
  <2>3. inAll * Second \in Nat /\ Allowance(Total) \in Nat
    BY <2>2 DEF TypeOK, Allowance
  <2>4. At(now, total, Total) \in Nat
    BY <2>2, RefillBounds DEF TypeOK, BucketType
  <2> QED
    BY <2>1, <2>3, <2>4
<1> QED
  BY <1>1, RateInvariant, PTL

\* FewAddressesNeverHitTotal for every number of addresses, table size and limits:
\* a flood from addresses the listener could serve all at once never costs a
\* device from another address its connection.
THEOREM FewAddressesNeverReachTotal == Spec => []FewAddressesNeverHitTotal
<1>1. FewInv => FewAddressesNeverHitTotal
  <2> SUFFICES ASSUME FewInv, limitHit = "total", PerAddress # 0, unlimited = {},
                      ~(Cardinality(seen) * PerAddress > Total)
               PROVE  FALSE
    BY DEF FewAddressesNeverHitTotal
  <2>1. Cardinality(seen) * PerAddress <= Total
    BY FS_CardinalityType, RateAssumption DEF FewInv, RateAssumption
  <2> QED
    BY <2>1 DEF FewInv, TheyAreFew
<1> QED
  BY <1>1, FewInit, FewStep, PTL DEF Spec

=============================================================================
