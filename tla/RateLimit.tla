------------------------------ MODULE RateLimit ------------------------------
(***************************************************************************)
(* The listener's connection rate limits (ScTransport.cpp): a token bucket *)
(* per source address, in a table of bounded size that forgets addresses   *)
(* when it is full, and one bucket for the whole listener.  An attempt is  *)
(* judged when its socket is accepted, before TLS                          *)
(* (LWS_CALLBACK_FILTER_NETWORK_CONNECTION).                               *)
(*                                                                         *)
(* Time is counted in grains, Second of them a second, and tokens in       *)
(* Second-ths, so that a bucket of `rate` tokens a second holds up to      *)
(* rate * Second, gains rate in a grain, and an attempt costs Second.  The *)
(* rounding of the code's doubles is left out.                             *)
(***************************************************************************)
EXTENDS Naturals, FiniteSets

CONSTANTS Addresses,              \* source addresses
          kMaxTrackedAddresses,
          PerAddress,             \* m_perAddressRateLimit; 0 is off
          Total,                  \* m_totalRateLimit; 0 is off
          Second,                 \* grains of time in a second
          MaxTime                 \* bound: how long a behaviour runs, in grains

ASSUME RateAssumption ==
  /\ kMaxTrackedAddresses \in Nat
  /\ PerAddress \in Nat /\ Total \in Nat
  /\ Second \in Nat \ {0}
  /\ MaxTime \in Nat

VARIABLES
  now,        \* steady_clock
  buckets,    \* m_addressBuckets: a function on the tracked addresses
  total,      \* m_totalBucket
  limitHit,   \* the last verdict: "accepted", or the limit that refused
  since,      \* history: when an observer began to count
  accepted,   \* history: attempts accepted since then, by address
  inAll,      \* history: attempts accepted since then
  seen,       \* history: the addresses that made an attempt
  unlimited   \* history: those of them that found no room in the table

code == <<buckets, total, limitHit>>
history == <<since, accepted, inAll, seen, unlimited>>
vars == <<now, code, history>>

-----------------------------------------------------------------------------
(***************************************************************************)
(* TakeToken                                                               *)
(***************************************************************************)

\* A bucket that has never been touched starts full.
FullBucket(rate) == [tokens |-> rate * Second, lastRefill |-> now]

\* A mutant: a bucket that fills up without end.
RefilledWithoutCap(b, rate) == b.tokens + rate * (now - b.lastRefill)

Refilled(b, rate) ==
  LET refilled == b.tokens + rate * (now - b.lastRefill)
  IN  IF refilled < rate * Second THEN refilled ELSE rate * Second

HasToken(b, rate) == Refilled(b, rate) >= Second

AfterTake(b, rate) ==
  [tokens |-> IF HasToken(b, rate) THEN Refilled(b, rate) - Second ELSE Refilled(b, rate),
   lastRefill |-> now]

-----------------------------------------------------------------------------
(***************************************************************************)
(* AllowNewConnectionAttempt                                               *)
(***************************************************************************)

Tracked == DOMAIN buckets

\* A mutant: an address is forgotten a grain too early.
KeptTooShort == {x \in Tracked : now - buckets[x].lastRefill < Second - 1}

\* The addresses that have been idle for less than a second.
Kept == {x \in Tracked : now - buckets[x].lastRefill < Second}

TableIsFull(t) == Cardinality(t) >= kMaxTrackedAddresses

\* The table's addresses after it has made room for a, if it can.
TrackedFor(a) ==
  IF PerAddress = 0 \/ a \in Tracked THEN Tracked
  ELSE LET rest == IF TableIsFull(Tracked) THEN Kept ELSE Tracked
       IN  IF TableIsFull(rest) THEN rest ELSE rest \cup {a}

BucketOf(a) == IF a \in Tracked THEN buckets[a] ELSE FullBucket(PerAddress)

AddressAllows(a) ==
  PerAddress # 0 /\ a \in TrackedFor(a) => HasToken(BucketOf(a), PerAddress)

TotalAllows == Total # 0 => HasToken(total, Total)

\* A mutant: the listener's token is taken before the address is looked at.
TotalFirst(a) == IF Total # 0 THEN AfterTake(total, Total) ELSE total

\* The listener's bucket is only touched when the address passes.
TotalAfter(a) == IF AddressAllows(a) /\ Total # 0 THEN AfterTake(total, Total) ELSE total

Allowed(a) == AddressAllows(a) /\ TotalAllows

AllowNewConnectionAttempt(a) ==
  /\ buckets' = [x \in TrackedFor(a) |->
                   IF x = a THEN AfterTake(BucketOf(a), PerAddress) ELSE buckets[x]]
  /\ total' = TotalAfter(a)
  /\ limitHit' = IF Allowed(a) THEN "accepted"
                 ELSE IF AddressAllows(a) THEN "total" ELSE "per-address"
  /\ IF Allowed(a)
     THEN accepted' = [accepted EXCEPT ![a] = @ + 1] /\ inAll' = inAll + 1
     ELSE UNCHANGED <<accepted, inAll>>
  /\ seen' = seen \cup {a}
  /\ unlimited' = IF a \in TrackedFor(a) THEN unlimited ELSE unlimited \cup {a}
  /\ UNCHANGED <<now, since>>

-----------------------------------------------------------------------------
Tick ==
  /\ now < MaxTime
  /\ now' = now + 1
  /\ UNCHANGED <<code, history>>

\* An observer starts counting afresh.
Observe ==
  /\ since' = now
  /\ accepted' = [a \in Addresses |-> 0]
  /\ inAll' = 0
  /\ UNCHANGED <<now, code, seen, unlimited>>

\* SetConnectionRateLimits, at start-up.
Init ==
  /\ now = 0
  /\ buckets = <<>>
  /\ total = FullBucket(Total)
  /\ limitHit = "accepted"
  /\ since = 0
  /\ accepted = [a \in Addresses |-> 0]
  /\ inAll = 0
  /\ seen = {}
  /\ unlimited = {}

Next ==
  \/ \E a \in Addresses : AllowNewConnectionAttempt(a)
  \/ Tick
  \/ Observe

Spec == Init /\ [][Next]_vars

-----------------------------------------------------------------------------
(***************************************************************************)
(* Properties                                                              *)
(***************************************************************************)

BucketType(rate) == [tokens : 0..(rate * Second), lastRefill : 0..now]

\* Types: the table is bounded and no bucket holds more than a second's worth.
TypeOK ==
  /\ now \in 0..MaxTime
  /\ Tracked \subseteq Addresses /\ Cardinality(Tracked) <= kMaxTrackedAddresses
  /\ \A a \in Tracked : buckets[a] \in BucketType(PerAddress)
  /\ total \in BucketType(Total)
  /\ limitHit \in {"accepted", "per-address", "total"}
  /\ since \in 0..now
  /\ accepted \in [Addresses -> Nat]
  /\ inAll \in Nat
  /\ seen \subseteq Addresses
  /\ unlimited \subseteq seen

\* What a limit of `rate` a second lets through in the time observed: a burst of
\* one second's worth, then the rate.
Allowance(rate) == rate * (Second + (now - since))

\* However long the observation and whenever it began, an address gets no more
\* than its limit, though the table may forget it and meet it again ("forgetting
\* it loses nothing", ScTransport.cpp:757-758) - unless it once found the table
\* full of busy addresses.
AddressWithinLimit ==
  PerAddress # 0 =>
    \A a \in Addresses \ unlimited : accepted[a] * Second <= Allowance(PerAddress)

\* The listener as a whole gets no more than its own limit, from however many
\* addresses and whether or not the table can track them.
ListenerWithinLimit == Total # 0 => inAll * Second <= Allowance(Total)

\* A flood from few addresses drains only their own buckets ("it can't starve
\* well-behaved devices reconnecting from other addresses", ScTransport.h): the
\* listener's limit refuses nobody until more addresses than it can serve at once
\* have tried, or one the table had no room for.
FewAddressesNeverHitTotal ==
  limitHit = "total" =>
    \/ PerAddress = 0
    \/ unlimited # {}
    \/ Cardinality(seen) * PerAddress > Total

=============================================================================
