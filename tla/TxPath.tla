------------------------------- MODULE TxPath -------------------------------
(***************************************************************************)
(* The microphone's way to Zoom: AudioEngine (src/audio/engine.cpp) from   *)
(* Start to Stop, the capture callback that cuts device blocks into 20 ms  *)
(* frames (FrameAccumulator), FrameRing, and the TX pacer's thread, which  *)
(* takes one frame per tick of an absolute grid and hands it, or silence,  *)
(* to the sink, here Zoom's virtual mic, whose contract the pacer is       *)
(* written for; the app's own sink is the channel bank's (TalkbackBank).   *)
(*                                                                         *)
(* Capture device and grid are two clocks that advance together: once the  *)
(* pacer ticks, neither is more than Jitter samples ahead of the other.    *)
(* Before that the device already delivers while the monitor is opened, so *)
(* any number of frames may be queued by then. A frame is its number.      *)
(* Abstracted: sample processing, the sidetone, statistics, marks.         *)
(***************************************************************************)
EXTENDS FrameRing, VirtualMic, Devices, Integers

CONSTANTS
  FrameSamples,  \* kFrameSamples
  Block,         \* the most samples a device hands over at once
  Jitter         \* how far capture and grid may be apart, in samples

ASSUME PathAssumption == {FrameSamples, Block} \subseteq Nat \ {0} /\ Jitter \in Nat

VARIABLES
  fill,       \* FrameAccumulator::fill_
  todo,       \* the samples of this callback still to be cut
  samplesIn,  \* samples_in_
  pc,         \* the engine: closed, opening its monitor, its pacer priming,
              \* the pacer asleep, holding what it popped, or stopped; over
  frame,      \* the frame the tick popped, Silence when the ring was empty
  sent,       \* the last thing handed to the sink
  age,        \* history: how many samples were cut since the first of sent
  slack,      \* history: samples cut less the grid's, since the start
  lead        \* history: the samples that waited when the pacer started

pathVars == <<fill, todo, samplesIn, pc, frame, sent, age, slack, lead>>
allVars == <<vars, micVars, deviceVars, pathVars>>

Silence == None

TxInit ==
  /\ Init /\ MicInit /\ DevicesInit
  /\ fill = 0 /\ todo = 0 /\ samplesIn = 0
  /\ pc = "closed"
  /\ frame = Silence /\ sent = Silence
  /\ age = 0 /\ slack = 0 /\ lead = 0

----------------------------------------------------------------------------
(* The capture device's thread. *)

Ticking == pc \in {"sleep", "holding"}

\* A callback brings a block. It stops with the device, which waits for it.
CaptureBlock(n) ==
  /\ "capture" \in started /\ todo = 0
  /\ todo' = n /\ samplesIn' = samplesIn + n
  /\ UNCHANGED <<vars, micVars, deviceVars, fill, pc, frame, sent, age, slack, lead>>

\* n samples of it are through.
Advances(n) ==
  /\ todo' = todo - n
  /\ IF Ticking THEN slack + n <= Jitter /\ slack' = slack + n ELSE UNCHANGED slack

\* What completes a frame is pushed; the rest is carried to the next block.
Wanted == FrameSamples - fill

CutsFrame ==
  /\ todo > 0 /\ todo >= Wanted
  /\ Push
  /\ Advances(Wanted) /\ fill' = 0
  /\ UNCHANGED <<micVars, deviceVars, samplesIn, pc, frame, sent, age, lead>>

Carries ==
  /\ todo > 0 /\ todo < Wanted
  /\ Advances(todo) /\ fill' = fill + todo
  /\ UNCHANGED <<vars, micVars, deviceVars, samplesIn, pc, frame, sent, age, lead>>

----------------------------------------------------------------------------
(* AudioEngine::Start and Stop. *)

EngineSame == UNCHANGED <<vars, micVars, fill, todo, samplesIn, frame, sent, age, slack>>

\* The microphone first. An engine that does not start is not started again.
StartCapture(outcome) ==
  /\ pc = "closed"
  /\ StartDevice("capture", outcome)
  /\ pc' = IF outcome = "running" THEN "opening" ELSE "over"
  /\ EngineSame /\ UNCHANGED lead

\* Without a monitor the microphone is given up; without sidetone there is none.
StartMonitor(wanted, outcome) ==
  /\ pc = "opening"
  /\ IF ~wanted
     THEN pc' = "priming" /\ UNCHANGED deviceVars
     ELSE IF outcome = "running"
     THEN pc' = "priming" /\ StartDevice("monitor", outcome)
     ELSE /\ pc' = "over" /\ todo = 0
          /\ held' = HeldAfter("monitor", outcome) \ {"capture"}
          /\ started' = started \ {"capture"}
  /\ EngineSame /\ UNCHANGED lead

\* TxPacer::Start: primed, or the capture device was late and priming timed
\* out; the thread starts either way.
Start ==
  /\ pc = "priming"
  /\ pc' = "sleep" /\ lead' = FrameSamples * count + fill
  /\ EngineSame /\ UNCHANGED deviceVars

\* AudioEngine::Stop: the pacer first, ...
Stop ==
  /\ pc = "sleep"
  /\ pc' = "stopped"
  /\ EngineSame /\ UNCHANGED <<deviceVars, lead>>

\* ... then the devices; the capture callback goes on until its own stops.
StopsDevices ==
  /\ pc = "stopped" /\ todo = 0
  /\ pc' = "over"
  /\ StopDevices(Kinds)
  /\ EngineSame /\ UNCHANGED lead

----------------------------------------------------------------------------
(* The pacer's thread. *)

\* Each tick takes a frame whether or not the window is open.
TakesFrame_IfOpen == CanSend  \* mutant: a gated tick keeps its frame
TakesFrame == TRUE

\* The grid instant: pop, or count an underrun and carry silence; then ask the
\* sink, and drop the frame when the window is shut.
Tick ==
  /\ pc = "sleep"
  /\ slack - FrameSamples >= 0 - Jitter
  /\ IF TakesFrame /\ count > 0
     THEN Pop /\ frame' = out'
     ELSE frame' = Silence /\ UNCHANGED vars
  /\ slack' = slack - FrameSamples
  /\ IF CanSend
     THEN pc' = "holding" /\ call' = "hinted"
     ELSE UNCHANGED <<pc, call>>
  /\ UNCHANGED <<canSend, initialised, sender, zoom, deviceVars, fill, todo, samplesIn, sent,
                 age, lead>>

\* ZoomMicSourceWin::Send, which refuses once the window is shut.
EntersSend ==
  /\ call = "hinted"
  /\ IF MaySend
     THEN call' = "sending" /\ UNCHANGED pc
     ELSE call' = "out" /\ pc' = "sleep"
  /\ UNCHANGED <<vars, canSend, initialised, sender, zoom, deviceVars, fill, todo, samplesIn,
                 frame, sent, age, slack, lead>>

Sends ==
  /\ call = "sending"
  /\ call' = "out" /\ pc' = "sleep"
  /\ sent' = frame /\ age' = IF frame = Silence THEN 0 ELSE samplesIn - todo - FrameSamples * frame
  /\ UNCHANGED <<vars, canSend, initialised, sender, zoom, deviceVars, fill, todo, samplesIn,
                 frame, slack, lead>>

Zooms == ZoomsThread /\ UNCHANGED <<vars, deviceVars, pathVars>>

TxNext ==
  \/ \E n \in 1 .. Block : CaptureBlock(n)
  \/ CutsFrame \/ Carries
  \/ \E outcome \in Outcomes, wanted \in BOOLEAN :
       StartCapture(outcome) \/ StartMonitor(wanted, outcome)
  \/ Start \/ Stop \/ StopsDevices
  \/ Tick \/ EntersSend \/ Sends
  \/ Zooms

TxSpec == TxInit /\ [][TxNext]_allVars

----------------------------------------------------------------------------
\* The shape of the path's state; the ring's is FrameRing's TypeOK.
TxTypeOK ==
  /\ TypeOK /\ MicTypeOK
  /\ held \subseteq Kinds /\ started \subseteq Kinds
  /\ fill \in 0 .. FrameSamples - 1 /\ todo \in 0 .. Block /\ samplesIn \in Nat
  /\ pc \in {"closed", "opening", "priming", "sleep", "holding", "stopped", "over"}
  /\ frame \in 0 .. MaxFrames /\ sent \in 0 .. MaxFrames
  /\ age \in 0 .. FrameSamples * (MaxFrames + 1)
  /\ slack \in 0 - Jitter .. Jitter
  /\ lead \in 0 .. FrameSamples * (Capacity + 1) - 1

\* However long the window was shut, however the clocks jittered and however a
\* device's blocks fall across the frames, a sample handed over is never older
\* than what waited at the start, or two clocks apart and a frame that was not
\* full yet, explain, and the frame it is in: a gated tick drops its frame
\* "rather than holding it" (TxPacer::Run), and no sample is lost between
\* frames, so the stream stays aligned to realtime.
Realtime ==
  \/ age <= lead + Jitter + FrameSamples
  \/ age <= 2 * Jitter + 2 * FrameSamples - 1

\* However far a start got, an engine that is over holds no device: the next
\* one, which a device switch starts on the same hardware, finds it free.
DevicesReleased == pc = "over" => held = {}
=============================================================================
