------------------------------ MODULE Lifeline ------------------------------
(***************************************************************************)
(* Who notices that the app has stopped, and who ends it (the watchdog and *)
(* the return path of Run in src/app/main.cpp, src/app/stall_watch.h, the  *)
(* shell window in src/app/shell_window.cpp, ControlServer::Stop).         *)
(*                                                                         *)
(* The main loop beats at the join card and in a meeting, and not while it *)
(* joins, brings a session up or takes one down. A watchdog thread looks   *)
(* at the beat every 500 ms, reports silence, and ends the process when a  *)
(* quit is not followed by an exit. The shell window's thread beats around *)
(* each message and on a timer, and has a watchdog of its own. Leaving Run *)
(* first stops the watchdog, then destroys the panel's server, which joins *)
(* its client threads.                                                     *)
(*                                                                         *)
(* Time is counted in rounds of a watchdog, and as ages: a round of the    *)
(* watchdog makes everything it measures one older. Any call of a loop may *)
(* get stuck, for a while or for ever.                                     *)
(*                                                                         *)
(* Abstracted: the phase names and durations in a report, the self-test,   *)
(* the geometry of the window, the minute heartbeat line, and how a        *)
(* meeting is joined and left (Session).                                   *)
(***************************************************************************)
EXTENDS Integers

CONSTANTS
  MainLimit,  \* the main watchdog's threshold (5000 ms), in rounds
  PumpLimit,  \* kStallThresholdMs of the shell (4000 ms), in rounds
  QuitLimit,  \* rounds in the 20 s a quit may take
  Clients,    \* client threads of the panel's server
  MaxAge      \* bound: ages are not told apart beyond it

ASSUME LifelineAssumption ==
  /\ {MainLimit, PumpLimit, QuitLimit, MaxAge} \subseteq Nat \ {0}
  /\ MainLimit > 1 /\ PumpLimit > 1
  /\ MaxAge > MainLimit + PumpLimit + QuitLimit

VARIABLES
  main,     \* where the main thread is
  stuck,    \* its current call does not return
  slow,     \* rounds since it last came round its loop
  beat,     \* age of heartbeat_ns
  dog,      \* the watchdog's StallWatch
  guarded,  \* watchdog_running
  said,     \* what the watchdog's last round reported
  quit,     \* quit_req
  quitAge,  \* now_ms - quit_asked_ms
  shell,    \* the shell window's thread
  pumpBeat, \* age of g_pump_beat_ms
  pumpDog, pumpSaid,
  running,  \* the server's running_
  client,   \* each client thread
  alive,
  open,     \* history: a stall of the main loop was reported, its end was not
  excused   \* history: since its last beat the main thread was stuck or in a
            \* phase that does not beat

mainVars == <<main, stuck, slow, beat, excused>>
dogVars == <<dog, said, quitAge, open>>
shellVars == <<shell, pumpBeat, pumpDog, pumpSaid>>
serverVars == <<running, client>>
vars == <<mainVars, dogVars, guarded, quit, shellVars, serverVars, alive>>

\* Run's phases, then its destructors, then HardExit.
Phases == {"card", "join", "loop", "teardown"}
Beating == {"card", "loop"}
Unwinding == {"stop watchdog", "stop panel", "exit"}

Older(a) == IF a < MaxAge THEN a + 1 ELSE a
Sooner(a) == IF a > 0 THEN a - 1 ELSE 0

----------------------------------------------------------------------------
(* StallWatch: next is the time to next_report_ms_, worst is worst_ms_.     *)

Calm == [stalled |-> FALSE, next |-> 0, worst |-> 0]
Watches == [stalled : BOOLEAN, next : 0 .. MaxAge, worst : 0 .. MaxAge]

\* Poll, with the beat age old: the crossing is reported, then once per limit.
Due_Once(w) == ~w.stalled  \* mutant: one line per stall
Due(w) == w.next <= 1

Polled(w, age, limit) ==
  IF age < limit
  THEN [w EXCEPT !.stalled = FALSE, !.next = 0]
  ELSE [stalled |-> TRUE,
        next |-> IF Due(w) THEN limit ELSE Sooner(w.next),
        worst |-> IF age > w.worst THEN age ELSE w.worst]

\* ConsumeRecovery: true once after a stall.
Consumed_Keeps(w) == w  \* mutant: worst_ms_ is not reset
Consumed(w) == [w EXCEPT !.worst = 0]

Round(w, age, limit) ==
  LET p == Polled(w, age, limit) IN
  IF p.stalled
  THEN [watch |-> p, says |-> IF Due(w) THEN "stalled" ELSE "nothing"]
  ELSE IF p.worst > 0
  THEN [watch |-> Consumed(p), says |-> "recovered"]
  ELSE [watch |-> p, says |-> "nothing"]

----------------------------------------------------------------------------
Init ==
  /\ main = "card" /\ stuck = FALSE /\ slow = 0 /\ beat = 0 /\ excused = FALSE
  /\ dog = Calm /\ said = "nothing" /\ open = FALSE /\ guarded = TRUE
  /\ quit = FALSE /\ quitAge = 0
  /\ shell = "creating" /\ pumpBeat = 0 /\ pumpDog = Calm /\ pumpSaid = "nothing"
  /\ running = TRUE /\ client = [c \in Clients |-> "none"]
  /\ alive = TRUE

(* The main thread. *)

\* The top of a loop stores the beat.
Beats_LoopOnly(p) == p = "loop"  \* mutant: the long waits do not beat
Beats(p) == p \in Beating

Enters(p) ==
  /\ main' = p
  /\ slow' = 0
  /\ beat' = IF Beats(p) THEN 0 ELSE beat
  /\ excused' = (p \notin Beating)

MainMoves == ~stuck /\ UNCHANGED <<stuck, dogVars, quit, shellVars, alive>>

\* The join card: quit is looked at once per round.
CardRound ==
  /\ MainMoves /\ main = "card"
  /\ \/ quit /\ Enters("stop watchdog")
     \/ ~quit /\ (Enters("card") \/ Enters("join"))
  /\ UNCHANGED <<guarded, serverVars>>

\* session(): credentials, Init, authentication and Join, each of which may
\* fail back to the card; Join's tick, and the wait for the host role, give up
\* on a quit.
JoinEnds ==
  /\ MainMoves /\ main = "join"
  /\ \/ Enters("card")
     \/ ~quit /\ Enters("loop")
     \/ quit /\ Enters("stop watchdog")
  /\ UNCHANGED <<guarded, serverVars>>

LoopRound ==
  /\ MainMoves /\ main = "loop"
  /\ \/ ~quit /\ Enters("loop")
     \/ Enters("teardown")
  /\ UNCHANGED <<guarded, serverVars>>

\* Leave and Cleanup; the meeting's end goes back to the card, a quit or a
\* scripted run's end leaves Run.
TeardownEnds ==
  /\ MainMoves /\ main = "teardown"
  /\ \/ ~quit /\ Enters("card")
     \/ Enters("stop watchdog")
  /\ UNCHANGED <<guarded, serverVars>>

\* ~WatchdogStop joins the watchdog, ...
StopWatchdog ==
  /\ MainMoves /\ main = "stop watchdog"
  /\ guarded' = FALSE
  /\ Enters("stop panel")
  /\ UNCHANGED serverVars

\* ... ~ControlServer stops the accept thread and joins the clients, ...
StopPanel ==
  /\ MainMoves /\ main = "stop panel"
  /\ running' = FALSE
  /\ IF \A c \in Clients : client[c] = "none"
     THEN Enters("exit")
     ELSE UNCHANGED <<main, slow, beat, excused>>
  /\ UNCHANGED <<client, guarded>>

\* ... and HardExit flushes the log, for a second at most, and terminates.
HardExit ==
  /\ main = "exit"
  /\ alive' = FALSE
  /\ UNCHANGED <<mainVars, dogVars, guarded, quit, shellVars, serverVars>>

MainStep == CardRound \/ JoinEnds \/ LoopRound \/ TeardownEnds \/ StopWatchdog \/ StopPanel \/ HardExit

\* A call into the SDK, COM, a driver, a socket: it does not return, or does.
Sticks ==
  /\ main \in Phases /\ ~stuck
  /\ stuck' = TRUE /\ excused' = TRUE
  /\ UNCHANGED <<main, slow, beat, dogVars, guarded, quit, shellVars, serverVars, alive>>

Returns ==
  /\ stuck
  /\ stuck' = FALSE /\ slow' = 0
  /\ UNCHANGED <<main, beat, excused, dogVars, guarded, quit, shellVars, serverVars, alive>>

----------------------------------------------------------------------------
(* The watchdog. *)

\* A loop that is not stuck comes round well within the threshold.
MainKeepsUp == main \in Beating /\ ~stuck => slow < MainLimit - 1

\* How long a quit has been waited for.
QuitAges_Never(a) == 0  \* mutant: no deadline
QuitAges(a) == IF quit THEN Older(a) ELSE 0

DogRound ==
  /\ guarded /\ MainKeepsUp
  /\ LET age == Older(beat)
         r == Round(dog, age, MainLimit) IN
     /\ beat' = age
     /\ dog' = r.watch /\ said' = r.says
     /\ open' = CASE r.says = "stalled" -> TRUE [] r.says = "recovered" -> FALSE [] OTHER -> open
  /\ slow' = IF slow < MainLimit THEN slow + 1 ELSE slow
  /\ quitAge' = QuitAges(quitAge)
  /\ alive' = (quitAge' <= QuitLimit)
  /\ UNCHANGED <<main, stuck, excused, guarded, quit, shellVars, serverVars>>

----------------------------------------------------------------------------
(* The shell window. *)

\* The window, and WebView2 in it, may fail to come up: that closes it.
ShellStarts ==
  /\ shell = "creating"
  /\ \/ shell' = "idle" /\ pumpBeat' = 0
     \/ shell' = "closing" /\ UNCHANGED pumpBeat
  /\ UNCHANGED <<mainVars, dogVars, guarded, quit, pumpDog, pumpSaid, serverVars, alive>>

\* GetMessage returned, or the timer came: a beat before the handler, ...
PumpDispatches ==
  /\ shell = "idle" /\ shell' = "handling" /\ pumpBeat' = 0
  /\ UNCHANGED <<mainVars, dogVars, guarded, quit, pumpDog, pumpSaid, serverVars, alive>>

\* ... and one after it; WM_DESTROY ends the pump.
PumpReturns ==
  /\ shell = "handling" /\ shell' \in {"idle", "closing"} /\ pumpBeat' = 0
  /\ UNCHANGED <<mainVars, dogVars, guarded, quit, pumpDog, pumpSaid, serverVars, alive>>

\* on_closed: quit_req and nothing else.
ShellCloses ==
  /\ shell = "closing" /\ shell' = "closed"
  /\ quit' = TRUE
  /\ UNCHANGED <<mainVars, dogVars, guarded, pumpBeat, pumpDog, pumpSaid, serverVars, alive>>

\* The beat timer is served within the threshold while the pump is idle.
ShellDogRound ==
  /\ shell \in {"idle", "handling"}
  /\ shell = "idle" => pumpBeat < PumpLimit - 1
  /\ LET age == Older(pumpBeat)
         r == Round(pumpDog, age, PumpLimit) IN
     pumpBeat' = age /\ pumpDog' = r.watch /\ pumpSaid' = r.says
  /\ UNCHANGED <<mainVars, dogVars, guarded, quit, shell, serverVars, alive>>

----------------------------------------------------------------------------
(* The panel's client threads. *)

Connects(c) ==
  /\ running /\ client[c] = "none"
  /\ client' = [client EXCEPT ![c] = "recv"]
  /\ UNCHANGED <<mainVars, dogVars, guarded, quit, shellVars, running, alive>>

\* ReadRequest: the request, whenever it comes, or the end of the connection.
Receives(c) ==
  /\ client[c] = "recv"
  /\ client' = [client EXCEPT ![c] = IF running THEN "events" ELSE "none"]
  /\ UNCHANGED <<mainVars, dogVars, guarded, quit, shellVars, running, alive>>

\* The quit verb.
AsksToQuit(c) ==
  /\ client[c] = "recv"
  /\ quit' = TRUE
  /\ client' = [client EXCEPT ![c] = "none"]
  /\ UNCHANGED <<mainVars, dogVars, guarded, shellVars, running, alive>>

Disconnects(c) ==
  /\ client[c] \in {"recv", "events"}
  /\ client' = [client EXCEPT ![c] = "none"]
  /\ UNCHANGED <<mainVars, dogVars, guarded, quit, shellVars, running, alive>>

\* The snapshot loop looks at running_ every 100 ms.
EventsEnd(c) == ~running /\ client[c] = "events" /\ Disconnects(c)

ServerStep(c) == Connects(c) \/ Receives(c) \/ AsksToQuit(c) \/ Disconnects(c)

----------------------------------------------------------------------------
Next ==
  /\ alive
  /\ \/ MainStep \/ Sticks \/ Returns
     \/ DogRound
     \/ ShellStarts \/ PumpDispatches \/ PumpReturns \/ ShellCloses \/ ShellDogRound
     \/ \E c \in Clients : ServerStep(c)

Spec == Init /\ [][Next]_vars

\* Threads that are not stuck run. A call that is stuck, a handler of the
\* window and a request that has not come may last for ever.
FairSpec ==
  /\ Spec
  /\ WF_vars(alive /\ MainStep) /\ WF_vars(alive /\ DogRound)
  /\ WF_vars(alive /\ ShellCloses) /\ WF_vars(alive /\ ShellDogRound)
  /\ \A c \in Clients : WF_vars(alive /\ EventsEnd(c))

----------------------------------------------------------------------------
(* Properties. *)

TypeOK ==
  /\ main \in Phases \cup Unwinding /\ stuck \in BOOLEAN
  /\ slow \in 0 .. MainLimit /\ beat \in 0 .. MaxAge
  /\ dog \in Watches /\ pumpDog \in Watches
  /\ {said, pumpSaid} \subseteq {"nothing", "stalled", "recovered"}
  /\ {guarded, quit, running, alive, open, excused} \subseteq BOOLEAN
  /\ quitAge \in 0 .. QuitLimit + 1
  /\ shell \in {"creating", "idle", "handling", "closing", "closed"} /\ pumpBeat \in 0 .. MaxAge
  /\ client \in [Clients -> {"none", "recv", "events"}]

\* "A hang that runs until Windows kills the process must leave a trail in the
\* log, not a single line": a loop that is stuck for ever is reported again
\* and again, by the watchdog of the main loop and by that of the window.
WedgeLeavesTrail ==
  /\ <>[](alive /\ guarded /\ stuck) => []<>(said = "stalled")
  /\ <>[](alive /\ shell = "handling") => []<>(pumpSaid = "stalled")

\* The recovery line "separates it froze and came back from it never came
\* back": it is written in the round that finds the loop beating again after a
\* reported stall, and in no other.
StallsAreBracketed ==
  [][DogRound => (said' = "recovered" <=> open /\ beat' < MainLimit)]_vars

\* A loop that comes round is never called stalled, in the meeting or at the
\* card: only one that has been stuck, or in a phase without beats, is.
NoFalseAlarm == [][DogRound /\ said' = "stalled" => excused]_vars

\* "The window is gone but the process lives on. Bound it": after a quit, and
\* so after the window closed or failed to come up, the process ends whatever
\* the main thread is stuck in; unless it is already leaving Run, where the
\* watchdog is gone and the server waits for its clients.
QuitIsBounded == quit ~> ~alive \/ main = "stop panel"

\* The same without the exception; refuted.
QuitEndsProcess == quit ~> ~alive
=============================================================================
