-------------------------------- MODULE Clock --------------------------------
(***************************************************************************)
(* The Device's clock and the run limit (main.cpp).  The device keeps UTC, *)
(* as a correction of the host's clock, and the time zone it is in; time   *)
(* synchronizations, writes of the zone and steps of the host's clock come *)
(* in any order.  The loop that serves them stops after the run limit,     *)
(* which is measured on steady_clock.                                      *)
(*                                                                         *)
(* Calendar fields are seconds since 1970 here; that they are valid is the *)
(* stack's check.                                                          *)
(***************************************************************************)
EXTENDS Integers

CONSTANTS
  HostZones,   \* what localtime_r may say: [east: seconds, isdst: BOOLEAN]
  HostTimes,   \* what the host's clock may be set to
  SyncTimes,   \* the instants synchronizations ask for
  Offsets,     \* the values written to UTC_Offset, legal or not
  RunLimit,    \* g_runLimitSeconds
  MaxTime      \* bound: the seconds a behaviour lasts

ASSUME ClockAssumption ==
  /\ HostZones \subseteq [east : Int, isdst : BOOLEAN]
  /\ HostTimes \subseteq Int /\ SyncTimes \subseteq Int /\ Offsets \subseteq Int
  /\ MaxTime \in Nat /\ RunLimit \in 1 .. MaxTime

VARIABLES
  steady,       \* steady_clock, from g_startTime
  host,         \* time(NULL)
  clockOffset,  \* g_clockOffsetSeconds
  utcOffset,    \* g_utcOffsetMinutes
  daylight,     \* g_daylightSavings
  loop,         \* where main's loop is: "top", "tick" or "stopped"
  asked         \* history: the UTC last asked for, and the host's clock then

zone == <<utcOffset, daylight>>
clockVars == <<steady, host, clockOffset, zone, loop, asked>>

-----------------------------------------------------------------------------
(***************************************************************************)
(* Pure functions                                                          *)
(***************************************************************************)

\* Division as C does it, towards zero.
Quotient(n, d) == IF n >= 0 THEN n \div d ELSE -((-n) \div d)

\* UTC_Offset of a host whose standard time is `east` seconds ahead of UTC: west is
\* positive, rounded to a quarter of an hour.
QuartersWest(east) ==
  LET minutes == Quotient(-east, 60)
  IN  15 * (IF minutes >= 0 THEN (minutes + 7) \div 15 ELSE -((-minutes + 7) \div 15))

IsUtcOffset(minutes) == minutes \in -1440 .. 1440 /\ minutes % 15 = 0

\* What local time is ahead of UTC, in seconds.
LocalAhead == (IF daylight THEN 3600 ELSE 0) - utcOffset * 60

GetClock == host + clockOffset

LocalSecondsFromUtc(utc) == utc + LocalAhead

-----------------------------------------------------------------------------
(***************************************************************************)
(* Start-up                                                                *)
(***************************************************************************)

\* InitTimeZoneFromHost: UTC when the host's zone cannot be read or does not fit.
ZoneFromHost(known, z) ==
  IF known /\ IsUtcOffset(QuartersWest(z.east))
  THEN utcOffset = QuartersWest(z.east) /\ daylight = z.isdst
  ELSE utcOffset = 0 /\ daylight = FALSE

ClockInit ==
  /\ steady = 0
  /\ host \in HostTimes
  /\ clockOffset = 0
  /\ \E z \in HostZones, known \in BOOLEAN : ZoneFromHost(known, z)
  /\ loop = "top"
  /\ asked = [utc |-> host, host |-> host]

-----------------------------------------------------------------------------
(***************************************************************************)
(* Requests, inside Tick                                                   *)
(***************************************************************************)

\* A mutant: daylight saving time is only taken out of what is shown.
UtcWithoutDaylight(local) == local + utcOffset * 60

UtcOf(local) == local - LocalAhead

\* CalendarToSeconds answers -1 for what is not a date, and for one second that is.
Refused(local) == local = -1

\* The callback for both services; utc is what the client meant.
SetSystemTime(local, utc) ==
  /\ ~Refused(local)
  /\ clockOffset' = UtcOf(local) - host
  /\ asked' = [utc |-> utc, host |-> host]
  /\ UNCHANGED <<steady, host, zone, loop>>

\* TimeSynchronization: the client says the local time.
Synchronize(local) == loop = "tick" /\ SetSystemTime(local, UtcOf(local))

\* UTCTimeSynchronization: the stack makes local time of it, with the zone it reads.
UtcSynchronize(utc) == loop = "tick" /\ SetSystemTime(LocalSecondsFromUtc(utc), utc)

\* SetPropertySignedInteger
WriteUtcOffset(minutes) ==
  /\ loop = "tick"
  /\ IsUtcOffset(minutes)
  /\ utcOffset' = minutes
  /\ UNCHANGED <<steady, host, clockOffset, daylight, loop, asked>>

\* SetPropertyBool
WriteDaylight(status) ==
  /\ loop = "tick"
  /\ daylight' = status
  /\ UNCHANGED <<steady, host, clockOffset, utcOffset, loop, asked>>

-----------------------------------------------------------------------------
(***************************************************************************)
(* The main loop and the time                                              *)
(***************************************************************************)

\* The limit is measured on steady_clock, which nobody sets.
RunLimitOver == steady >= RunLimit

\* The top of the loop: the limit, then Tick.
CheckRunLimit ==
  /\ loop = "top"
  /\ loop' = IF RunLimitOver THEN "stopped" ELSE "tick"
  /\ UNCHANGED <<steady, host, clockOffset, zone, asked>>

\* The rest of a turn; `q` quits.
EndTurn ==
  /\ loop = "tick"
  /\ \E quit \in BOOLEAN : loop' = IF quit THEN "stopped" ELSE "top"
  /\ UNCHANGED <<steady, host, clockOffset, zone, asked>>

SecondPasses ==
  /\ loop # "stopped"
  /\ steady < MaxTime
  /\ steady' = steady + 1
  /\ host' = host + 1
  /\ UNCHANGED <<clockOffset, zone, loop, asked>>

\* The host's clock is set, and the device's with it.
HostClockIsSet(to) ==
  /\ loop # "stopped"
  /\ host' = to
  /\ UNCHANGED <<steady, clockOffset, zone, loop, asked>>

ClockNext ==
  \/ \E t \in SyncTimes : Synchronize(t) \/ UtcSynchronize(t)
  \/ \E m \in Offsets : WriteUtcOffset(m)
  \/ \E s \in BOOLEAN : WriteDaylight(s)
  \/ CheckRunLimit
  \/ EndTurn
  \/ SecondPasses
  \/ \E t \in HostTimes : HostClockIsSet(t)

ClockSpec == ClockInit /\ [][ClockNext]_clockVars

-----------------------------------------------------------------------------
(***************************************************************************)
(* Properties                                                              *)
(***************************************************************************)

ClockTypeOK ==
  /\ steady \in 0 .. MaxTime
  /\ host \in Int
  /\ clockOffset \in Int
  /\ utcOffset \in Int /\ IsUtcOffset(utcOffset)
  /\ daylight \in BOOLEAN
  /\ loop \in {"top", "tick", "stopped"}
  /\ asked \in [utc : Int, host : Int]

\* The device's UTC is what the last synchronization of either kind asked for plus
\* what the host's clock has moved since, whatever is written to the zone before,
\* between and after: "writing UTC_Offset changes the local time and leaves UTC
\* alone" (main.cpp:696-697).
UtcFollowsSync == GetClock - asked.utc = host - asked.host

=============================================================================
