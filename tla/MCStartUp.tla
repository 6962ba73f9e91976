------------------------------ MODULE MCStartUp ------------------------------
(***************************************************************************)
(* Small instances of what main does around the stack: the command line    *)
(* (CommandLine), the hub's own key and request (HubRequest), the clock    *)
(* and the run limit (Clock), the revocation list (Revocation), and the    *)
(* log file (LogFile): six lines through a pipe of three and a buffer of   *)
(* two, so both fill, and a read can leave part of the pipe behind.  They  *)
(* share no state, so a behaviour is about one of them.                    *)
(***************************************************************************)
EXTENDS CommandLine, HubRequest, Clock, Revocation, LogFile

CONSTANTS d1, d2, l1, l2

\* Every option at least once; values in range and not, empty, wrong, missing, and
\* ones that look like an option or a switch.
SmallPhrases ==
  {<<"--port">>, <<"--device-name">>, <<"--typo">>, <<"off">>, <<"--version">>, <<"5">>,
   <<"--sc-accept-device-without-hello">>, <<"--device-name", "-h">>, <<"--device-name", "toolong">>,
   <<"--sc-failover-uri", "wss://g/">>, <<"--import-cari", "r.zip">>, <<"--sc-cert-dir", "">>,
   <<"--port", "">>, <<"--port", "5">>, <<"--sc-port", "0">>, <<"--sc-rate-limit", "0">>,
   <<"--sc-rate-limit-total", "70000">>, <<"--ip-network-number", "5">>}
  \cup {<<"--sc-hub-uri", u>> : u \in {"wss://h/", "http://h/"}}
  \cup {<<"--sc-network-number", n>> : n \in {"5", "7"}}
  \cup {<<"--sc-max-hub-connections", n>> : n \in {"5", "1", ""}}
  \cup {<<"--deviceID", n>> : n \in {"toolong", "7"}}

SmallNumbers ==
  [t \in {"0", "1", "5", "7", "70000"} |->
     CASE t = "0" -> 0 [] t = "1" -> 1 [] t = "5" -> 5 [] t = "7" -> 7 [] OTHER -> 70000]

\* Pacific summer time, Nepal, and a zone too far east to be legal.
SmallZones ==
  {[east |-> -28800, isdst |-> TRUE], [east |-> 20700, isdst |-> FALSE],
   [east |-> 90000, isdst |-> FALSE]}

\* The last second before 1970, which is CalendarToSeconds' error value, and another.
SmallSyncTimes == {-1, 1000}

\* The last legal offset, one between, one that is no quarter, one too far.
SmallOffsets == {-1440, 30, 7, 1455}

\* Two lists of one size, so that only the time tells them apart.
SmallRevokes == [l \in Lists |-> IF l = l1 THEN {d1} ELSE {d2}]
SmallSizes == [l \in Lists \cup {Broken} |-> IF l = Broken THEN 0 ELSE 9]

VARIABLE part

logVars == vars
aroundVars == <<commandVars, requestVars, clockVars, revocationVars, logVars, part>>

OneClock == ClockInit /\ host = 500 /\ utcOffset = 0 /\ ~daylight
OneCommand == CommandInit /\ testLimit = ""
OneList == RevocationInit /\ crl = Absent

AroundInit ==
  /\ RequestInit /\ Init
  /\ \/ part = "command" /\ CommandInit /\ OneClock /\ OneList
     \/ part \in {"request", "log"} /\ OneCommand /\ OneClock /\ OneList
     \/ part = "clock" /\ OneCommand /\ ClockInit /\ OneList
     \/ part = "revocation" /\ OneCommand /\ OneClock /\ RevocationInit

AroundNext ==
  /\ UNCHANGED part
  /\ \/ /\ part = "command" /\ CommandNext
        /\ UNCHANGED <<requestVars, clockVars, revocationVars, logVars>>
     \/ /\ part = "request" /\ RequestNext
        /\ UNCHANGED <<commandVars, clockVars, revocationVars, logVars>>
     \/ /\ part = "clock" /\ ClockNext
        /\ UNCHANGED <<commandVars, requestVars, revocationVars, logVars>>
     \/ /\ part = "revocation" /\ RevocationNext
        /\ UNCHANGED <<commandVars, requestVars, clockVars, logVars>>
     \/ /\ part = "log" /\ Next
        /\ UNCHANGED <<commandVars, requestVars, clockVars, revocationVars>>

AroundSpec ==
  /\ AroundInit /\ [][AroundNext]_aroundVars
  /\ part = "revocation" => RevocationFairness
  /\ part = "log" => Fairness

-----------------------------------------------------------------------------
(***************************************************************************)
(* What the documents say and the code does not do: TLC violates each of   *)
(* these when a .cfg names it (README.md tells how).                       *)
(***************************************************************************)

\* "A hub with no key at all also gets a new key and CSR" (main.cpp:2127): not when the
\* request is there and its key is not, nor when an earlier start left an empty zip.
KeylessHubGetsKey == startUp = "up" => keyFile[port] # NoFile \/ pendingKey # NoFile

\* "a bad one stops the start" (main.cpp:1957-1958): not a bad --deviceID, nor an empty
\* value of the options that take a number.
EveryValueIsChecked ==
  outcome = "started" =>
    \A o \in NumberOptions \cup {"--deviceID"} : \A i \in GivenAt(o) : IsIn(argv[i + 1], 0 .. 4194302)

\* "reloads TLS when it appears, changes or disappears" (main.cpp:370-371): a list that
\* comes and goes between two looks, and was loaded in between, stays in use.
ListOnDiskIsInUse ==
  fingerprint = FileFingerprint /\ ~reload /\ loaded # Down => loaded = crl

=============================================================================
