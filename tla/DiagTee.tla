------------------------------ MODULE DiagTee ------------------------------
(***************************************************************************)
(* Where a printf goes (src/app/diag_log.cpp, diag_line.h, log_parts.h,    *)
(* console_queue.h) and what a dying process still gets into its log       *)
(* (Die in src/app/crash_trap.cpp, HardExit and the watchdog's exit in     *)
(* src/app/main.cpp).                                                      *)
(*                                                                         *)
(* Every thread prints into one bounded pipe. The pump thread splits the   *)
(* stream into lines, writes them to the log file, whose parts cycle, and  *)
(* offers them to the console's queue; the console thread may be stuck in  *)
(* the console for ever. A part that cannot be opened leaves the run       *)
(* without a file: the pump goes on without one, acknowledges as before,   *)
(* and DiagEmergency has no path to write to.                              *)
(*                                                                         *)
(* Lines are numbered in the order in which they enter the pipe. The main  *)
(* thread's status meter begins with a carriage return and has no end, so  *)
(* the splitter holds it.                                                  *)
(*                                                                         *)
(* Abstracted: the text, time stamps, notes about full parts and dropped   *)
(* lines, the pruning of old logs, kMaxHeld, and how an exception is       *)
(* described. A console exists (with neither console nor file nothing is   *)
(* started at all), and what is written to an open file is in it.          *)
(***************************************************************************)
EXTENDS Integers, Sequences, FiniteSets, SequencesExt

CONSTANTS
  Threads,    \* the threads that print
  Meterer,    \* the one that also draws the meter: the main thread
  PipeMax,    \* pieces the pipe holds
  QueueMax,   \* kConsoleQueueMax
  PartMax,    \* kMaxPartBytes, in lines
  MaxParts,   \* kMaxParts
  MaxLines,   \* bound: lines printed
  MaxMeters   \* bound: repaints of the meter

ASSUME TeeAssumption ==
  /\ Meterer \in Threads
  /\ {PipeMax, QueueMax, PartMax, MaxParts} \subseteq Nat \ {0}
  /\ {MaxLines, MaxMeters} \subseteq Nat

VARIABLES
  at,        \* what each thread is doing
  why,       \* what it is ending the process for: "", die, exit or kill
  last,      \* its last line in the pipe
  want,      \* want, in DiagFlush
  pathOf,    \* the path DiagEmergency read, as a part
  pipe,      \* the pieces in the pipe: a line's number, Meter or Sync
  lines, meters,
  held,      \* DiagSplitter holds a piece of the meter
  acked,     \* sync_seq
  queue,     \* chunks in the console queue
  parts,     \* the log's parts: line numbers, Glued and Fatal
  open,      \* file is valid, and path is not empty
  part,      \* part_
  begun,     \* history: the part that was opened last
  fill,      \* bytes_, in lines
  pumped,    \* history: the last line the pump took out of the pipe
  filed,     \* history: the last line it wrote to the file
  mixed,     \* history: threads whose flush met another one's sentinel
  refused,   \* history: threads whose DiagEmergency wrote nothing
  rolls,     \* history: parts begun since the emergency copy was written
  alive

threadVars == <<at, why, last, want, pathOf, mixed, refused>>
fileVars == <<parts, open, part, begun, fill, filed, rolls>>
pipeVars == <<pipe, lines, meters, pumped>>
vars == <<threadVars, pipeVars, held, acked, queue, fileVars, alive>>

Meter == -1
Sync == -2
Glued == -3    \* a line that swallowed a sentinel
Fatal == -4    \* DiagEmergency's line

Parts == 0 .. MaxParts - 1

\* How many parts ago p was begun.
Age(p) == IF p <= begun THEN begun - p ELSE (begun - p) + MaxParts

AtFlush == {"load", "fputs", "wait"}
At == {"run", "print", "meter", "last words", "acked", "gave up", "path", "append", "box"} \cup AtFlush

Init ==
  /\ at = [t \in Threads |-> "run"] /\ why = [t \in Threads |-> ""]
  /\ last = [t \in Threads |-> 0] /\ want = [t \in Threads |-> 0]
  /\ pathOf = [t \in Threads |-> 0] /\ mixed = {} /\ refused = {}
  /\ pipe = <<>> /\ lines = 0 /\ meters = 0 /\ pumped = 0
  /\ held = FALSE /\ acked = 0
  /\ queue = 0
  /\ open \in BOOLEAN /\ part = 0 /\ begun = 0 /\ fill = 0 /\ filed = 0 /\ rolls = 0
  /\ parts = [p \in Parts |-> <<>>]
  /\ alive = TRUE

Goes(t, p) == at' = [at EXCEPT ![t] = p]

----------------------------------------------------------------------------
(* Threads print, and end the process. *)

\* printf: into the pipe when it has room. Die prints what it is about first.
StartPrint(t) ==
  /\ at[t] = "run"
  /\ \/ Goes(t, "print") /\ UNCHANGED why
     \/ t = Meterer /\ meters < MaxMeters /\ Goes(t, "meter") /\ UNCHANGED why
     \/ Goes(t, "last words") /\ why' = [why EXCEPT ![t] = "die"]
  /\ UNCHANGED <<last, want, pathOf, mixed, refused, pipeVars, held, acked, queue, fileVars, alive>>

PipeHasRoom == Len(pipe) < PipeMax

WriteLine(t) ==
  /\ at[t] \in {"print", "last words"}
  /\ PipeHasRoom /\ lines < MaxLines
  /\ lines' = lines + 1
  /\ pipe' = Append(pipe, lines + 1)
  /\ last' = [last EXCEPT ![t] = lines + 1]
  /\ Goes(t, IF at[t] = "print" THEN "run" ELSE "load")
  /\ UNCHANGED <<why, want, pathOf, mixed, refused, meters, pumped, held, acked, queue,
                 fileVars, alive>>

WriteMeter(t) ==
  /\ at[t] = "meter" /\ PipeHasRoom
  /\ meters' = meters + 1
  /\ pipe' = Append(pipe, Meter)
  /\ Goes(t, "run")
  /\ UNCHANGED <<why, last, want, pathOf, mixed, refused, lines, pumped, held, acked, queue,
                 fileVars, alive>>

\* HardExit flushes and terminates; the watchdog writes its emergency line,
\* flushes and terminates.
StartExit(t) ==
  /\ at[t] = "run" /\ t = Meterer
  /\ why' = [why EXCEPT ![t] = "exit"] /\ Goes(t, "load")
  /\ UNCHANGED <<last, want, pathOf, mixed, refused, pipeVars, held, acked, queue, fileVars, alive>>

StartKill(t) ==
  /\ at[t] = "run" /\ t # Meterer
  /\ why' = [why EXCEPT ![t] = "kill"] /\ Goes(t, "path")
  /\ UNCHANGED <<last, want, pathOf, mixed, refused, pipeVars, held, acked, queue, fileVars, alive>>

\* DiagFlush: what to wait for, ...
WantAfter_Same(n) == n  \* mutant: any acknowledgement will do
WantAfter(n) == n + 1

FlushLoads(t) ==
  /\ at[t] = "load"
  /\ want' = [want EXCEPT ![t] = WantAfter(acked)]
  /\ Goes(t, "fputs")
  /\ mixed' = IF (\E u \in Threads \ {t} : at[u] \in AtFlush) \/ Contains(pipe, Sync)
              THEN mixed \cup {t} \cup {u \in Threads : at[u] \in AtFlush}
              ELSE mixed \ {t}
  /\ UNCHANGED <<why, last, pathOf, refused, pipeVars, held, acked, queue, fileVars, alive>>

\* ... the sentinel, ...
FlushSends(t) ==
  /\ at[t] = "fputs" /\ PipeHasRoom
  /\ pipe' = Append(pipe, Sync)
  /\ Goes(t, "wait")
  /\ UNCHANGED <<why, last, want, pathOf, mixed, refused, lines, meters, pumped, held, acked,
                 queue, fileVars, alive>>

\* ... and its acknowledgement, or the timeout.
FlushEnds(t) ==
  /\ at[t] = "wait"
  /\ Goes(t, IF acked >= want[t] THEN "acked" ELSE "gave up")
  /\ UNCHANGED <<why, last, want, pathOf, mixed, refused, pipeVars, held, acked, queue, fileVars,
                 alive>>

\* After the flush Die writes its emergency copy; the others terminate.
AfterFlush(t) ==
  /\ at[t] \in {"acked", "gave up"}
  /\ IF why[t] = "die"
     THEN Goes(t, "path") /\ UNCHANGED alive
     ELSE alive' = FALSE /\ UNCHANGED at
  /\ UNCHANGED <<why, last, want, pathOf, mixed, refused, pipeVars, held, acked, queue, fileVars>>

\* DiagEmergency: the current path, under path_m, if there is one, ...
AfterEmergency(t) == IF why[t] = "die" THEN "box" ELSE "load"

EmergencyPath(t) ==
  /\ at[t] = "path"
  /\ IF open
     THEN pathOf' = [pathOf EXCEPT ![t] = part] /\ Goes(t, "append") /\ UNCHANGED refused
     ELSE refused' = refused \cup {t} /\ Goes(t, AfterEmergency(t)) /\ UNCHANGED pathOf
  /\ UNCHANGED <<why, last, want, mixed, pipeVars, held, acked, queue, fileVars, alive>>

\* ... and its own handle, past the pipe and its locks, if it gets one.
EmergencyLine_Piped(p) ==  \* mutant: it prints
  UNCHANGED <<parts, rolls>>
EmergencyLine(p) ==
  parts' = [parts EXCEPT ![p] = Append(@, Fatal)] /\ rolls' = Age(p)

EmergencyAppend(t) ==
  /\ at[t] = "append"
  /\ \/ EmergencyLine(pathOf[t]) /\ UNCHANGED refused
     \/ refused' = refused \cup {t} /\ UNCHANGED <<parts, rolls>>
  /\ Goes(t, AfterEmergency(t))
  /\ UNCHANGED <<why, last, want, pathOf, mixed, pipeVars, held, acked, queue, open, part,
                 begun, fill, filed, alive>>

\* The operator dismisses the box.
BoxDismissed(t) ==
  /\ at[t] = "box"
  /\ alive' = FALSE
  /\ UNCHANGED <<threadVars, pipeVars, held, acked, queue, fileVars>>

----------------------------------------------------------------------------
(* The pump. *)

NextPart == (part + 1) % MaxParts

\* OpenPart: a part that is used again starts empty, or cannot be opened: then
\* it keeps what it had, and the run has no file from there on.
Reopened_Appends(p) == parts[p]  \* mutant: OPEN_ALWAYS
Reopened(p) == <<>>

OpenPart(p, written) ==
  \/ /\ open' = TRUE /\ begun' = p
     /\ parts' = [written EXCEPT ![p] = IF p = part THEN <<>> ELSE Reopened(p)]
     /\ rolls' = IF rolls < MaxParts THEN rolls + 1 ELSE rolls
  \/ open' = FALSE /\ parts' = written /\ UNCHANGED <<begun, rolls>>

\* WriteFileLine: nothing without a file; the line, and a roll when the part
\* is full.
Files(x) ==
  LET written == [parts EXCEPT ![part] = Append(@, x)] IN
  IF ~open THEN UNCHANGED fileVars
  ELSE /\ filed' = IF x > 0 THEN x ELSE filed
       /\ IF fill + 1 < PartMax
          THEN parts' = written /\ fill' = fill + 1 /\ UNCHANGED <<open, part, begun, rolls>>
          ELSE part' = NextPart /\ fill' = 0 /\ OpenPart(NextPart, written)

\* ConsoleQueue::Push: dropped at the tail when full, and never waited for.
PushReady_Waits == queue < QueueMax  \* mutant: it waits for space
PushReady == TRUE

Pushes == queue' = IF queue < QueueMax THEN queue + 1 ELSE queue

\* One piece through the splitter. A line ends whatever is held; the carriage
\* return ends a repaint, for the console only; a sentinel is recognised only
\* when it is a line of its own.
Splits(x) ==
  \/ x > 0 /\ Files(x) /\ Pushes /\ held' = FALSE /\ UNCHANGED acked
  \/ x = Meter /\ Pushes /\ held' = TRUE /\ UNCHANGED <<fileVars, acked>>
  \/ x = Sync /\ ~held /\ acked' = acked + 1 /\ UNCHANGED <<fileVars, queue, held>>
  \/ x = Sync /\ held /\ Files(Glued) /\ Pushes /\ held' = FALSE /\ UNCHANGED acked

Pump ==
  /\ pipe # <<>>
  /\ PushReady
  /\ pipe' = Tail(pipe)
  /\ pumped' = IF Head(pipe) > 0 THEN Head(pipe) ELSE pumped
  /\ Splits(Head(pipe))
  /\ UNCHANGED <<threadVars, lines, meters, alive>>

\* The console thread: PopWait, and a write that may never come back.
ConsoleWrites ==
  /\ queue > 0
  /\ queue' = queue - 1
  /\ UNCHANGED <<threadVars, pipeVars, held, acked, fileVars, alive>>

----------------------------------------------------------------------------
Step(t) ==
  \/ WriteLine(t) \/ WriteMeter(t)
  \/ FlushLoads(t) \/ FlushSends(t) \/ FlushEnds(t) \/ AfterFlush(t)
  \/ EmergencyPath(t) \/ EmergencyAppend(t)

Next ==
  /\ alive
  /\ \/ \E t \in Threads : StartPrint(t) \/ StartExit(t) \/ StartKill(t) \/ Step(t) \/ BoxDismissed(t)
     \/ Pump
     \/ ConsoleWrites

Spec == Init /\ [][Next]_vars

\* The pump and the printing threads run. Nothing is assumed of the console,
\* nor of the operator in front of the box.
FairSpec == Spec /\ WF_vars(alive /\ Pump) /\ \A t \in Threads : WF_vars(alive /\ Step(t))

----------------------------------------------------------------------------
(* Properties. *)

TypeOK ==
  /\ at \in [Threads -> At] /\ why \in [Threads -> {"", "die", "exit", "kill"}]
  /\ last \in [Threads -> 0 .. MaxLines] /\ want \in [Threads -> Nat]
  /\ pathOf \in [Threads -> Parts] /\ mixed \subseteq Threads /\ refused \subseteq Threads
  /\ pipe \in Seq((1 .. MaxLines) \cup {Meter, Sync}) /\ Len(pipe) <= PipeMax
  /\ lines \in 0 .. MaxLines /\ meters \in 0 .. MaxMeters
  /\ held \in BOOLEAN /\ acked \in Nat /\ alive \in BOOLEAN
  /\ queue \in 0 .. QueueMax
  /\ parts \in [Parts -> Seq((1 .. MaxLines) \cup {Glued, Fatal})]
  /\ open \in BOOLEAN /\ part \in Parts /\ begun \in Parts /\ fill \in 0 .. PartMax - 1
  /\ filed \in 0 .. MaxLines /\ pumped \in 0 .. MaxLines /\ rolls \in 0 .. MaxParts

\* "No thread of this app writes to a console": whoever prints or flushes comes
\* back, although the console is stuck for ever.
PrintReturns ==
  \A t \in Threads :
    at[t] \in {"print", "meter", "last words"} \cup AtFlush /\ lines < MaxLines
      ~> at[t] \notin {"print", "meter", "last words"} \cup AtFlush \/ ~alive \/ lines = MaxLines

IsLine(x) == x > 0
LinePlaces(p) == {a \in DOMAIN parts[p] : IsLine(parts[p][a])}
Logged == UNION {{parts[p][a] : a \in LinePlaces(p)} : p \in Parts}

InOrder ==
  \A p, q \in Parts : \A a \in LinePlaces(p), b \in LinePlaces(q) :
    Age(q) < Age(p) \/ (p = q /\ a < b) => parts[p][a] < parts[q][b]
Unbroken == \A n \in Logged : n <= filed /\ n .. filed \subseteq Logged
WithinSize == \A p \in Parts : Cardinality(LinePlaces(p)) <= PartMax
UpToDate == filed <= pumped /\ (open => filed = pumped)

\* "It is the file that is evidence": read in the order of its parts, the
\* oldest first, the log is an unbroken run of lines, each once and in order,
\* whatever the console does and however often the parts have cycled; while a
\* part is open it ends with the last line the pump took, and when one could
\* not be opened with the last line before that; and the parts stay within
\* their size.
LogIsTail == InOrder /\ Unbroken /\ WithinSize /\ UpToDate

\* "When the pump has consumed the sentinel it has by construction consumed
\* everything written before it": a thread whose flush was acknowledged finds
\* its own lines taken by the pump, and in the file unless the run has none.
\* Not when two flushes overlap, or one follows a flush that gave up: each may
\* take the other's acknowledgement.
AckMeansWritten ==
  \A t \in Threads :
    at[t] = "acked" /\ t \notin mixed => last[t] <= pumped /\ (open => last[t] <= filed)

\* A fatal line is in the log by the time the operator reads it in the box,
\* though printf and the pipe may be hung: until the log has cycled over it,
\* and unless there was no file to write it to.
FatalIsLogged ==
  \A t \in Threads :
    at[t] = "box" /\ t \notin refused
      => rolls >= MaxParts \/ \E p \in Parts : Contains(parts[p], Fatal)
=============================================================================
