------------------------------ MODULE LogFile ------------------------------
(***************************************************************************)
(* log_file.cpp: the console output of the process goes through a pipe to  *)
(* a copy thread, which shows it on the console and keeps it in the log    *)
(* file.  Two threads: main prints and runs Start() and Stop(), the copier *)
(* runs CopyLoop().                                                        *)
(*                                                                         *)
(* A line of output is a number, its place in the order of printing.       *)
(* stdout is unbuffered (main.cpp:1889), so a line reaches its descriptor  *)
(* in the printing call.  Left out: the text, the folder, the two          *)
(* descriptors of stdout and stderr apart from each other where the code   *)
(* treats them alike.                                                      *)
(***************************************************************************)
EXTENDS Naturals, Sequences, SequencesExt

CONSTANTS
  PipeSize,    \* lines the pipe holds before a write to it blocks
  BufferSize,  \* lines one read of the copier returns at most
  DupFails,    \* whether the original stderr may be impossible to duplicate
  MaxLines     \* bound: lines printed in one run

ASSUME SizesAssumption == PipeSize \in Nat \ {0} /\ BufferSize \in Nat \ {0}
ASSUME DupAssumption == DupFails \in BOOLEAN
ASSUME MaxLinesAssumption == MaxLines \in Nat

VARIABLES
  main,      \* where the main thread is
  printed,   \* history: how many lines have been printed
  loggedTo,  \* history: how many of them were printed when Stop() was called
  output,    \* what stdout is: "console" or "pipe"
  keptErr,   \* g_consoleErr >= 0: the original stderr has been kept
  ends,      \* the write ends of the pipe that are open
  pipe,      \* lines in the pipe
  copier,    \* where the copy thread is
  chunk,     \* the copier's buffer
  console,   \* lines shown on the console
  file,      \* lines in the log file, and flushed
  stuck      \* the console does not take output for now

mainVars == <<main, printed, loggedTo, output, keptErr>>
copierVars == <<copier, chunk, file>>
vars == <<mainVars, ends, pipe, copierVars, console, stuck>>

\* The write ends: g_pipeWrite and the duplicates on descriptors 1 and 2.
Ends == {"g_pipeWrite", "stdout", "stderr"}

Init ==
  /\ main = "start"
  /\ printed = 0
  /\ loggedTo = 0
  /\ output = "console"
  /\ keptErr = FALSE
  /\ ends = {}
  /\ pipe = <<>>
  /\ copier = "none"
  /\ chunk = <<>>
  /\ console = <<>>
  /\ file = <<>>
  /\ stuck = FALSE

-----------------------------------------------------------------------------
(***************************************************************************)
(* The main thread                                                         *)
(***************************************************************************)

\* Start() captures the console and starts the copier.  It goes on without the
\* original stderr when dup(2) fails.
Start ==
  /\ main = "start"
  /\ main' = "running"
  /\ output' = "pipe"
  /\ keptErr' \in {TRUE, ~DupFails}
  /\ ends' = Ends
  /\ copier' = "reading"
  /\ UNCHANGED <<printed, loggedTo, pipe, chunk, console, file, stuck>>

\* The file, the pipe or the duplicates cannot be had: everything is put back.
StartFails ==
  /\ main = "start"
  /\ main' = "running"
  /\ UNCHANGED <<printed, loggedTo, output, keptErr, ends, pipe, copier, chunk, console, file, stuck>>

\* Any printf; the write blocks while the pipe is full or the console is stuck.
PrintLine ==
  /\ main \in {"running", "exiting"}
  /\ printed < MaxLines
  /\ printed' = printed + 1
  /\ \/ /\ output = "pipe"
        /\ Len(pipe) < PipeSize
        /\ pipe' = Append(pipe, printed')
        /\ UNCHANGED console
     \/ /\ output = "console"
        /\ ~stuck
        /\ console' = Append(console, printed')
        /\ UNCHANGED pipe
  /\ UNCHANGED <<main, loggedTo, output, keptErr, ends, copierVars, stuck>>

\* Stop() before Start() ever ran does nothing; the process may then exit.
StopWithoutLog ==
  /\ main = "running"
  /\ output = "console"
  /\ main' = "exited"
  /\ UNCHANGED <<printed, loggedTo, output, keptErr, ends, pipe, copierVars, console, stuck>>

\* A mutant: only stdout is put back.
RestoreStdoutOnly ==
  /\ output' = "console"
  /\ ends' = ends \ {"stdout"}

\* dup2 over descriptors 1 and 2 closes their write ends of the pipe; without the
\* original stderr descriptor 2 stays as it is.
RestoreConsole ==
  /\ output' = "console"
  /\ ends' = ends \ (IF keptErr THEN {"stdout", "stderr"} ELSE {"stdout"})

\* Stop() puts the console back.
Stop ==
  /\ main = "running"
  /\ output = "pipe"
  /\ main' = "stopping"
  /\ loggedTo' = printed
  /\ RestoreConsole
  /\ UNCHANGED <<printed, keptErr, pipe, copierVars, console, stuck>>

CloseWriteEnd ==
  /\ main = "stopping"
  /\ main' = "joining"
  /\ ends' = ends \ {"g_pipeWrite"}
  /\ UNCHANGED <<printed, loggedTo, output, keptErr, pipe, copierVars, console, stuck>>

\* A mutant: the copier is not waited for.
NeverWaits == main = "joining"

\* g_thread.join().
CopierHasEnded == main = "joining" /\ copier = "ended"

\* The rest of Stop() closes the file; what is printed afterwards, from other
\* atexit handlers, goes to the console.
Joined ==
  /\ CopierHasEnded
  /\ main' = "exiting"
  /\ UNCHANGED <<printed, loggedTo, output, keptErr, ends, pipe, copierVars, console, stuck>>

Exit ==
  /\ main = "exiting"
  /\ main' = "exited"
  /\ UNCHANGED <<printed, loggedTo, output, keptErr, ends, pipe, copierVars, console, stuck>>

\* A crash or a kill, at any point: both threads are gone.
Kill ==
  /\ main \notin {"exited", "killed"}
  /\ main' = "killed"
  /\ copier' = "none"
  /\ UNCHANGED <<printed, loggedTo, output, keptErr, ends, pipe, chunk, console, file, stuck>>

-----------------------------------------------------------------------------
(***************************************************************************)
(* The copy thread: CopyLoop                                               *)
(***************************************************************************)

\* A mutant: the loop ends as soon as Stop() has closed the pipe.
EndsWhenClosed == ends = {}

\* read() returns 0 when nothing is left and nobody can write any more.
EndOfFile == pipe = <<>> /\ ends = {}

\* sizeof(buffer).
ReadSize == BufferSize

\* read() returns what is there, up to the buffer.
ReadPipe ==
  /\ copier = "reading"
  /\ \/ /\ EndOfFile
        /\ copier' = "ended"
        /\ UNCHANGED <<pipe, chunk>>
     \/ /\ ~EndOfFile
        /\ \E n \in 1 .. ReadSize :
             /\ n <= Len(pipe)
             /\ chunk' = SubSeq(pipe, 1, n)
             /\ pipe' = SubSeq(pipe, n + 1, Len(pipe))
        /\ copier' = "showing"
  /\ UNCHANGED <<mainVars, ends, console, file, stuck>>

ShowOnConsole ==
  /\ copier = "showing"
  /\ ~stuck
  /\ console' = console \o chunk
  /\ copier' = "saving"
  /\ UNCHANGED <<mainVars, ends, pipe, chunk, file, stuck>>

\* fwrite and fflush.
Save == file' = file \o chunk

SaveToFile ==
  /\ copier = "saving"
  /\ Save
  /\ chunk' = <<>>
  /\ copier' = "reading"
  /\ UNCHANGED <<mainVars, ends, pipe, console, stuck>>

\* Someone holds the terminal's output back, or lets it go on.
ConsoleSticks ==
  /\ main \notin {"exited", "killed"}
  /\ stuck' = ~stuck
  /\ UNCHANGED <<mainVars, ends, pipe, copierVars, console>>

MainNext ==
  \/ Start \/ StartFails \/ PrintLine \/ StopWithoutLog
  \/ Stop \/ CloseWriteEnd \/ Joined \/ Exit

CopierNext == ReadPipe \/ ShowOnConsole \/ SaveToFile

Next == MainNext \/ CopierNext \/ Kill \/ ConsoleSticks

Spec == Init /\ [][Next]_vars

\* Both threads are scheduled, and a terminal that is held back is let go again and
\* again: a step that is only blocked by it is taken in the end.
Fairness ==
  /\ WF_vars(CloseWriteEnd) /\ WF_vars(Joined)
  /\ WF_vars(ReadPipe) /\ SF_vars(ShowOnConsole) /\ WF_vars(SaveToFile)
  /\ WF_vars(stuck /\ ConsoleSticks)

FairSpec == Spec /\ Fairness

-----------------------------------------------------------------------------
(***************************************************************************)
(* Properties                                                              *)
(***************************************************************************)

\* Types of the threads' places and of the pipe.
TypeOK ==
  /\ main \in {"start", "running", "stopping", "joining", "exiting", "exited", "killed"}
  /\ printed \in 0 .. MaxLines
  /\ loggedTo \in 0 .. printed
  /\ output \in {"console", "pipe"}
  /\ ends \in SUBSET Ends
  /\ pipe \in Seq(1 .. MaxLines) /\ Len(pipe) <= PipeSize
  /\ copier \in {"none", "reading", "showing", "saving", "ended"}
  /\ chunk \in Seq(1 .. MaxLines) /\ Len(chunk) <= BufferSize
  /\ console \in Seq(1 .. MaxLines)
  /\ file \in Seq(1 .. MaxLines)
  /\ keptErr \in BOOLEAN
  /\ stuck \in BOOLEAN

Upto(n) == [i \in 1 .. n |-> i]

InFlight == (IF copier = "showing" THEN chunk ELSE <<>>) \o pipe

\* Nothing is shown out of order or twice, and what is not shown yet is still on its
\* way: direct output comes back only after the copier has shown the last of the
\* pipe (log_file.cpp:145-154).
ConsoleKeepsOrder ==
  /\ IsPrefix(console, Upto(printed))
  /\ main # "killed" => console \o InFlight = Upto(printed)

\* After Stop() the log holds everything that was printed before it ("a copy of
\* everything the example writes to the console", log_file.h:8), and "a crash or a
\* kill still leaves everything so far in the file" (log_file.cpp:55): the file is
\* behind the console by no more than the buffer being saved.
LogIsComplete ==
  /\ main \in {"exiting", "exited"} /\ loggedTo > 0 => file = Upto(loggedTo)
  /\ IsPrefix(file, console)
  /\ output = "pipe" \/ main \in {"stopping", "joining"}
       => Len(console) - Len(file) <= Len(chunk)

\* Stop() returns: the join cannot wait for a copier that waits for the pipe.
StopReturns == main = "stopping" ~> main \in {"exited", "exiting", "killed"}

=============================================================================
