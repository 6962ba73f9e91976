----------------------------- MODULE CommandLine -----------------------------
(***************************************************************************)
(* The command line (main.cpp): argv is walked once to refuse what is not  *)
(* known, and then searched anew for every option.  A token is a string;   *)
(* what strtol, ParseOnOff, the UTF-8 check and the scheme of a URI say of *)
(* one is given by tables, since only their answers matter here.           *)
(***************************************************************************)
EXTENDS Naturals, Sequences, FiniteSets

CONSTANTS
  Phrases,     \* what the operator may type in one go: sequences of tokens
  TestLimits,  \* what BSCHUB_TEST_RUN_LIMIT_SECONDS may be set to
  Number,      \* strtol: the tokens that are whole numbers, with their values
  On, Off,     \* the tokens ParseOnOff takes
  WssUris,     \* the tokens that begin with wss://
  BadNames,    \* the tokens that are too long or not UTF-8
  MaxPhrases   \* bound: phrases typed

VARIABLES argv,       \* the command line
          typed,      \* phrases in it
          testLimit,  \* the environment variable
          outcome,    \* "typing", or how main has gone on
          config      \* the g_ variables the options set

commandVars == <<argv, typed, testLimit, outcome, config>>

-----------------------------------------------------------------------------
(***************************************************************************)
(* The options                                                             *)
(***************************************************************************)

\* The options that take a number, each with its range and its default.
NumberOptions ==
  {"--port", "--sc-port", "--ip-network-number", "--sc-network-number",
   "--sc-rate-limit", "--sc-rate-limit-total", "--sc-max-hub-connections"}

NumberRange(o) ==
  CASE o \in {"--ip-network-number", "--sc-network-number"} -> 1 .. 65534
    [] o \in {"--sc-rate-limit", "--sc-rate-limit-total"} -> 0 .. 65535
    [] OTHER -> 1 .. 65535

NumberDefault(o) ==
  CASE o = "--port" -> 47808
    [] o = "--sc-port" -> 4443
    [] o = "--sc-rate-limit" -> 10
    [] o = "--sc-rate-limit-total" -> 50
    [] o = "--sc-max-hub-connections" -> 4
    [] OTHER -> 0

TextOptions == {"--sc-cert-dir", "--import-cari", "--device-name", "--sc-hub-uri", "--sc-failover-uri"}

TextDefault(o) ==
  CASE o = "--sc-cert-dir" -> "./certs" [] o = "--device-name" -> "Chipkin Example B-SCHUB" [] OTHER -> ""

\* What g_deviceInstance starts with, and two limits of this example.
DefaultInstance == 389022
DEMO_RUN_LIMIT_SECONDS == 86400
SC_MAX_HUB_CONNECTIONS_LIMIT == 4

ValueOptions == NumberOptions \cup TextOptions \cup {"--deviceID"}
OnOffSwitches == {"--sc-accept-device-without-hello", "--sc-accept-hub-without-hello"}
HelpSwitches == {"--help", "-h", "/?"}
Switches == HelpSwitches \cup {"--version"}

\* The tokens that begin with "--": those that are known, and a typo.
IsDashed(token) == token \in (ValueOptions \cup OnOffSwitches \cup Switches \cup {"--typo"}) \ {"-h", "/?"}

\* None of the words for on and off looks like an option.
ASSUME CommandAssumption ==
  /\ Phrases \subseteq Seq(STRING)
  /\ \A word \in On \cup Off : ~IsDashed(word)

-----------------------------------------------------------------------------
(***************************************************************************)
(* ValidateCommandLine                                                     *)
(***************************************************************************)

\* A mutant: the next option is taken for the value of the one before.
AnyNext(a, i) == i < Len(a)

HasValue(a, i) == i < Len(a) /\ ~IsDashed(a[i + 1])

\* How many tokens the walk takes at i; 0 when it stops with an error.
Taken(a, i) ==
  CASE a[i] \in ValueOptions -> IF HasValue(a, i) THEN 2 ELSE 0
    [] a[i] \in OnOffSwitches -> IF i < Len(a) /\ a[i + 1] \in On \cup Off THEN 2 ELSE 1
    [] a[i] \in Switches -> 1
    [] OTHER -> 0

\* The places the walk comes to; the one after the last token when all is well.
Walk(a) ==
  LET from[i \in 1 .. Len(a) + 1] ==
        {i} \cup (IF i > Len(a) \/ Taken(a, i) = 0 THEN {} ELSE from[i + Taken(a, i)])
  IN  from[1]

ValidateCommandLine(a) == Len(a) + 1 \in Walk(a)

-----------------------------------------------------------------------------
(***************************************************************************)
(* What main reads from argv                                               *)
(***************************************************************************)

HasFlag(a, flag) == \E i \in 1 .. Len(a) : a[i] = flag

First(S) == CHOOSE i \in S : \A j \in S : i <= j

\* The token after the first place the flag stands at, wherever that is.
ParseStringArg(a, flag) ==
  LET at == {i \in 1 .. Len(a) - 1 : a[i] = flag}
  IN  IF at = {} THEN "" ELSE a[First(at) + 1]

IsIn(text, range) == text \in DOMAIN Number /\ Number[text] \in range

\* ParsePortOption and ParseUIntOption; the port of BACnet/IP is off without --port.
NumberIsFine(a, o) ==
  ParseStringArg(a, o) = "" \/ IsIn(ParseStringArg(a, o), NumberRange(o))

NumberOf(a, o) ==
  IF o = "--port" /\ ~HasFlag(a, o) THEN 0
  ELSE IF ParseStringArg(a, o) = "" THEN NumberDefault(o) ELSE Number[ParseStringArg(a, o)]

\* The certificate folder and the name have a default; the others are off without.
TextOf(a, o) ==
  IF o \in {"--sc-cert-dir", "--device-name"} /\ ~HasFlag(a, o)
  THEN TextDefault(o) ELSE ParseStringArg(a, o)

IsInstance(text) == IsIn(text, 0 .. 4194302)

\* ParseDeviceIdArg: the first one that is valid; the others are warned of.
DeviceId(a) ==
  LET at == {i \in 1 .. Len(a) - 1 : a[i] = "--deviceID" /\ IsInstance(a[i + 1])}
  IN  IF at = {} THEN DefaultInstance ELSE Number[a[First(at) + 1]]

\* ParseSwitchArg
SwitchIsOn(a, flag) ==
  /\ HasFlag(a, flag)
  /\ LET i == First({j \in 1 .. Len(a) : a[j] = flag})
     IN  i < Len(a) => a[i + 1] \notin Off

ConfigOf(a) ==
  [o \in ValueOptions \cup OnOffSwitches |->
     CASE o \in NumberOptions -> NumberOf(a, o)
       [] o \in TextOptions -> TextOf(a, o)
       [] o = "--deviceID" -> DeviceId(a)
       [] o \in OnOffSwitches -> SwitchIsOn(a, o)]

NumbersAgree(c) ==
  /\ c["--ip-network-number"] # 0 => c["--port"] # 0
  /\ c["--ip-network-number"] # 0 => c["--ip-network-number"] # c["--sc-network-number"]

\* Everything main refuses to start with.
IsChecked(a, limit) ==
  LET c == ConfigOf(a)
  IN  /\ \A o \in NumberOptions : HasFlag(a, o) => NumberIsFine(a, o)
      /\ c["--sc-cert-dir"] # ""
      /\ HasFlag(a, "--device-name") => c["--device-name"] \notin BadNames \cup {""}
      /\ NumbersAgree(c)
      /\ c["--sc-max-hub-connections"] <= SC_MAX_HUB_CONNECTIONS_LIMIT
      /\ HasFlag(a, "--sc-failover-uri") => c["--sc-hub-uri"] # ""
      /\ \A o \in {"--sc-hub-uri", "--sc-failover-uri"} : c[o] \in WssUris \cup {""}
      /\ limit = "" \/ IsIn(limit, 1 .. DEMO_RUN_LIMIT_SECONDS)

-----------------------------------------------------------------------------
Type(phrase) ==
  /\ outcome = "typing" /\ typed < MaxPhrases
  /\ argv' = argv \o phrase
  /\ typed' = typed + 1
  /\ UNCHANGED <<testLimit, outcome, config>>

\* main, up to the start of the device.
RunMain ==
  /\ outcome = "typing"
  /\ outcome' =
       IF ~ValidateCommandLine(argv) THEN "misused"
       ELSE IF \E h \in HelpSwitches : HasFlag(argv, h) THEN "help"
       ELSE IF HasFlag(argv, "--version") THEN "version"
       ELSE IF ~IsChecked(argv, testLimit) THEN "refused"
       ELSE IF TextOf(argv, "--import-cari") # "" THEN "import" ELSE "started"
  /\ config' = IF outcome' \in {"import", "started"} THEN ConfigOf(argv) ELSE config
  /\ UNCHANGED <<argv, typed, testLimit>>

NextProcess ==
  /\ outcome # "typing"
  /\ outcome' = "typing"
  /\ argv' = <<>> /\ typed' = 0
  /\ testLimit' \in TestLimits
  /\ config' = ConfigOf(<<>>)

CommandInit ==
  /\ argv = <<>> /\ typed = 0
  /\ testLimit \in TestLimits
  /\ outcome = "typing"
  /\ config = ConfigOf(<<>>)

CommandNext ==
  \/ \E p \in Phrases : Type(p)
  \/ RunMain
  \/ NextProcess

CommandSpec == CommandInit /\ [][CommandNext]_commandVars

-----------------------------------------------------------------------------
(***************************************************************************)
(* Properties                                                              *)
(***************************************************************************)

\* What the operator meant: the options are where the walk stops at.
GivenAt(o) == {i \in Walk(argv) : i <= Len(argv) /\ argv[i] = o}

\* What a text says to an option.
Meant(o, text) ==
  CASE o \in NumberOptions -> IF text \in DOMAIN Number THEN Number[text] ELSE 0
    [] o = "--deviceID" -> IF IsInstance(text) THEN Number[text] ELSE DefaultInstance
    [] OTHER -> text

\* The searches of argv see what its walk has seen: an option given once, with a
\* value, has that value, and one that was not given is as if argv were empty -
\* no token is taken for an option and for a value too.
OptionsAreWhatWasGiven ==
  outcome \in {"import", "started"} =>
    /\ \A o \in ValueOptions \cup OnOffSwitches : GivenAt(o) = {} => config[o] = ConfigOf(<<>>)[o]
    /\ \A o \in ValueOptions, i \in 1 .. Len(argv) :
         GivenAt(o) = {i} /\ argv[i + 1] # "" => config[o] = Meant(o, argv[i + 1])

=============================================================================
