----------------------------- MODULE MCRateLimit -----------------------------
(***************************************************************************)
(* A small listener for TLC and the two limits on who may connect: how     *)
(* many attempts a second (RateLimit), and how many devices (Admission).   *)
(* They share no state, so a behaviour is about one of them.               *)
(***************************************************************************)
EXTENDS RateLimit, Admission, TLC

CONSTANTS a1, a2, a3

AddressSymmetry == Permutations({a1, a2, a3})

\* Both kinds of header option, long and empty data, alone and in lists.
Plain == [from |-> FALSE, to |-> FALSE, toOptions |-> <<>>, dataOptions |-> <<>>]
SmallHeaders ==
  {Plain,
   [Plain EXCEPT !.from = TRUE, !.toOptions = <<<<<<7, 7>>>>, <<>>>>],
   [Plain EXCEPT !.to = TRUE, !.dataOptions = <<<<>>, <<<<7>>>>>>],
   [from |-> TRUE, to |-> TRUE, toOptions |-> <<<<>>>>, dataOptions |-> <<<<<<>>>>>>]}

VARIABLE part

LimitsInit == part \in {"attempts", "devices"} /\ Init /\ AdmissionInit

LimitsNext ==
  \/ part = "attempts" /\ Next /\ UNCHANGED <<admissionVars, part>>
  \/ part = "devices" /\ AdmissionNext /\ UNCHANGED <<vars, part>>

LimitsSpec == LimitsInit /\ [][LimitsNext]_<<vars, admissionVars, part>>

-----------------------------------------------------------------------------
(***************************************************************************)
(* What the documents say and the code does not do: TLC violates each of   *)
(* these when a .cfg names it (README.md tells how).                       *)
(***************************************************************************)

\* A device refused because the hub was full is explained within the minute ("this
\* says why, at most once a minute", main.cpp:2535-2538): not when an accepted one
\* leaves between the refusal and the check.
RefusalIsExplained ==
  [][turn = "check" /\ turn' = "reload" /\ hubWasFull => message' = "recent"]_admissionVars

\* The message is about the limit: not when the stack had another reason while the
\* hub was full.
MessageIsAboutTheLimit ==
  [][turn = "check" /\ message # "recent" /\ message' = "recent" => hubWasFull]_admissionVars

=============================================================================
