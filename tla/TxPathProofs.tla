---------------------------- MODULE TxPathProofs ----------------------------
(***************************************************************************)
(* The microphone's way to Zoom, for any ring, frame, block and jitter:    *)
(* the ring keeps its promise under both threads, no sample is lost        *)
(* between frames, what is sent stays in realtime, no send runs in a       *)
(* revoked sender, and an engine that is over holds no device.             *)
(***************************************************************************)
EXTENDS TxPath, TLAPS

----------------------------------------------------------------------------
(* The ring keeps its shape and implements DropQueue, for every capacity.  *)
(* RingInv says where each held frame lies; it is inductive with TypeOK,   *)
(* and under it a Push and a Pop of the ring are the queue's own.          *)

\* One turn of the index: positions before the end stay, later ones wrap.
LEMMA Wrap ==
  ASSUME NEW x \in Nat, x < 2 * Capacity
  PROVE  x % Capacity = IF x < Capacity THEN x ELSE x - Capacity
BY RingAssumption

\* The positions of the ring: taking n steps from head, for n up to a turn,
\* stays inside the buffer, and different n below Capacity differ.
LEMMA Positions ==
  ASSUME NEW h \in 0 .. Capacity - 1, NEW i \in 0 .. Capacity - 1
  PROVE  /\ (h + i) % Capacity \in 0 .. Capacity - 1
         /\ Advance(h) \in 0 .. Capacity - 1
         /\ \A j \in 0 .. Capacity - 1 : (h + i) % Capacity = (h + j) % Capacity => i = j
         /\ i + 1 < Capacity => (Advance(h) + i) % Capacity = (h + (i + 1)) % Capacity
<1> USE RingAssumption DEF Advance
<1>1. \A x \in Nat : x < 2 * Capacity => x % Capacity = IF x < Capacity THEN x ELSE x - Capacity
  BY Wrap
<1>2. (h + i) % Capacity = IF h + i < Capacity THEN h + i ELSE h + i - Capacity
  BY <1>1
<1>3. \A j \in 0 .. Capacity - 1 :
        (h + j) % Capacity = IF h + j < Capacity THEN h + j ELSE h + j - Capacity
  BY <1>1
<1>4. (h + 1) % Capacity = IF h + 1 < Capacity THEN h + 1 ELSE 0
  BY <1>1
<1>5. i + 1 < Capacity => (((h + 1) % Capacity) + i) % Capacity = (h + (i + 1)) % Capacity
  <2>1. CASE h + 1 < Capacity
    BY <1>4, <2>1
  <2>2. CASE h + 1 = Capacity /\ i + 1 < Capacity
    <3>1. (h + 1) % Capacity = 0
      BY <1>4, <2>2
    <3>2. i % Capacity = i
      BY <1>1
    <3>3. (h + (i + 1)) % Capacity = i
      BY <1>3, <2>2
    <3>4. QED
      BY <3>1, <3>2, <3>3
  <2>3. QED
    BY <2>1, <2>2
<1>6. QED
  BY <1>2, <1>3, <1>4, <1>5

\* The initial ring is empty.
LEMMA InitInv == Init => TypeOK /\ RingInv
BY RingAssumption DEF Init, TypeOK, RingInv, None

\* Push writes past the frames that stay: they keep their places, and a full
\* ring loses exactly its oldest.
LEMMA PushInv ==
  ASSUME TypeOK, RingInv, Push
  PROVE  /\ TypeOK' /\ RingInv'
         /\ pushed' = pushed + 1 /\ out' = out
         /\ count' = IF count = Capacity THEN count ELSE count + 1
<1> USE RingAssumption
<1> DEFINE h == IF Full THEN Advance(head) ELSE head
           n == IF Full THEN count - 1 ELSE count
<1>1. /\ h \in 0 .. Capacity - 1 /\ n \in 0 .. Capacity - 1
      /\ count' = n + 1 /\ head' = h /\ pushed' = pushed + 1 /\ out' = out
      /\ pushed \in 0 .. MaxFrames - 1
      /\ drops' \in Nat
      /\ buf' = [buf EXCEPT ![(h + n) % Capacity] = pushed]
  <2>1. Advance(head) \in 0 .. Capacity - 1
    BY Positions DEF TypeOK
  <2>2. QED
    BY <2>1 DEF Push, Full, Tail, TypeOK
<1> HIDE DEF h, n
<1>2. (h + n) % Capacity \in 0 .. Capacity - 1
  BY <1>1, Positions
<1>3. TypeOK'
  BY <1>1, <1>2 DEF TypeOK
<1>4. \A i \in 0 .. Capacity - 1 : i < n => buf[(h + i) % Capacity] = pushed - n + i
  <2> SUFFICES ASSUME NEW i \in 0 .. Capacity - 1, i < n
               PROVE  buf[(h + i) % Capacity] = pushed - n + i
    OBVIOUS
  <2>1. CASE ~Full
    BY <2>1 DEF RingInv, TypeOK, h, n
  <2>2. CASE Full
    <3>1. i + 1 < Capacity /\ i + 1 \in 0 .. Capacity - 1 /\ i + 1 < count
      BY <1>1, <2>2 DEF Full, n
    <3>2. (h + i) % Capacity = (head + (i + 1)) % Capacity
      BY <2>2, <3>1, Positions DEF TypeOK, h
    <3>3. buf[(head + (i + 1)) % Capacity] = pushed - count + (i + 1)
      BY <3>1 DEF RingInv
    <3>4. QED
      BY <2>2, <3>2, <3>3 DEF Full, TypeOK, n
  <2>3. QED
    BY <2>1, <2>2
<1>5. \A i \in 0 .. Capacity - 1 :
        i < n + 1 => buf'[(h + i) % Capacity] = pushed + 1 - (n + 1) + i
  <2> SUFFICES ASSUME NEW i \in 0 .. Capacity - 1, i < n + 1
               PROVE  buf'[(h + i) % Capacity] = pushed + 1 - (n + 1) + i
    OBVIOUS
  <2>1. (h + i) % Capacity \in 0 .. Capacity - 1
    BY <1>1, Positions
  <2>2. CASE i = n
    BY <1>1, <1>2, <2>2 DEF TypeOK
  <2>3. CASE i < n
    <3>1. (h + i) % Capacity # (h + n) % Capacity
      <4>1. n \in 0 .. Capacity - 1 /\ i # n
        BY <1>1, <2>3
      <4>2. QED
        BY <1>1, <4>1, Positions
    <3>2. buf'[(h + i) % Capacity] = buf[(h + i) % Capacity]
      BY <1>1, <2>1, <3>1 DEF TypeOK
    <3>3. QED
      BY <1>1, <1>4, <2>3, <3>2
  <2>4. QED
    BY <1>1, <2>2, <2>3
<1>6. RingInv'
  <2>1. count' = n + 1 /\ n + 1 <= pushed + 1 /\ pushed' - count' >= pushed - count
    BY <1>1 DEF RingInv, TypeOK, Full, n
  <2>2. out' # None => out' < pushed' - count'
    BY <1>1, <2>1 DEF RingInv, TypeOK, None
  <2>3. QED
    BY <1>1, <1>5, <2>1, <2>2 DEF RingInv
<1>7. QED
  BY <1>1, <1>3, <1>6 DEF Full, TypeOK, n

\* Pop hands out the oldest frame, which is the one after the last taken.
LEMMA PopInv ==
  ASSUME TypeOK, RingInv, Pop
  PROVE  /\ TypeOK' /\ RingInv'
         /\ count > 0 /\ count' = count - 1 /\ pushed' = pushed
         /\ out' = pushed - count
<1> USE RingAssumption
<1>1. /\ count \in 1 .. Capacity /\ count' = count - 1 /\ pushed' = pushed
      /\ head' = Advance(head) /\ buf' = buf /\ drops' = drops /\ out' = buf[head]
  BY DEF Pop, TypeOK
<1>2. head' \in 0 .. Capacity - 1
  BY <1>1, Positions DEF TypeOK
<1>3. TypeOK'
  BY <1>1, <1>2 DEF TypeOK
<1>4. buf[head] = pushed - count
  <2>1. (head + 0) % Capacity = head
    <3>1. head + 0 = head /\ head \in Nat /\ head < Capacity /\ head < 2 * Capacity
      BY DEF TypeOK
    <3>2. head % Capacity = head
      BY <3>1, Wrap
    <3>3. QED
      BY <3>1, <3>2
  <2>2. buf[(head + 0) % Capacity] = pushed - count + 0
    <3>1. 0 \in 0 .. Capacity - 1 /\ 0 < count
      BY <1>1
    <3>2. QED
      BY ONLY <3>1, RingInv DEF RingInv
  <2>3. pushed - count + 0 = pushed - count
    BY <1>1 DEF TypeOK
  <2>4. QED
    BY <2>1, <2>2, <2>3
<1>5. \A i \in 0 .. Capacity - 1 :
        i < count - 1 => buf[(Advance(head) + i) % Capacity] = pushed - (count - 1) + i
  <2> SUFFICES ASSUME NEW i \in 0 .. Capacity - 1, i < count - 1
               PROVE  buf[(Advance(head) + i) % Capacity] = pushed - (count - 1) + i
    OBVIOUS
  <2>1. i + 1 < Capacity /\ i + 1 \in 0 .. Capacity - 1 /\ i + 1 < count
    BY <1>1
  <2>2. (Advance(head) + i) % Capacity = (head + (i + 1)) % Capacity
    BY <2>1, Positions DEF TypeOK
  <2>3. buf[(head + (i + 1)) % Capacity] = pushed - count + (i + 1)
    BY <2>1 DEF RingInv, TypeOK
  <2>4. QED
    BY <1>1, <2>2, <2>3, SMTT(60) DEF TypeOK
<1>6. RingInv'
  BY <1>1, <1>4, <1>5 DEF RingInv, TypeOK
<1>7. QED
  BY <1>1, <1>3, <1>4, <1>6

\* Both threads keep the ring's shape and contents right.
THEOREM RingCorrect == Spec => [](TypeOK /\ RingInv)
<1>1. TypeOK /\ RingInv /\ [Next]_vars => TypeOK' /\ RingInv'
  <2> SUFFICES ASSUME TypeOK, RingInv, [Next]_vars PROVE TypeOK' /\ RingInv'
    OBVIOUS
  <2>1. CASE UNCHANGED vars
    BY <2>1 DEF vars, TypeOK, RingInv
  <2>2. QED
    BY <2>1, PushInv, PopInv DEF Next
<1>2. QED
  BY <1>1, InitInv, PTL DEF Spec

\* FrameRing implements DropQueue: it holds the last frames pushed, without
\* a gap, and hands out the oldest of them.
THEOREM Refinement == Spec => ImplementsDropQueue
<1>1. Init => DQ!Init
  BY DEF Init, DQ!Init, None, DQ!None
<1>2. TypeOK /\ RingInv /\ [Next]_vars => [DQ!Next]_DQ!vars
  <2> SUFFICES ASSUME TypeOK, RingInv, [Next]_vars PROVE [DQ!Next]_DQ!vars
    OBVIOUS
  <2> USE RingAssumption
  <2>1. CASE Push
    <3>1. /\ pushed' = pushed + 1 /\ out' = out
          /\ count' = IF count = Capacity THEN count ELSE count + 1
          /\ pushed < MaxFrames
      BY <2>1, PushInv DEF Push
    <3>2. DQ!Push
      BY <3>1 DEF DQ!Push, TypeOK
    <3>3. QED
      BY <3>2 DEF DQ!Next
  <2>2. CASE Pop
    <3>1. /\ count > 0 /\ count' = count - 1 /\ pushed' = pushed
          /\ out' = pushed - count
      BY <2>2, PopInv
    <3>2. DQ!Pop
      BY <3>1 DEF DQ!Pop, TypeOK
    <3>3. QED
      BY <3>2 DEF DQ!Next
  <2>3. CASE UNCHANGED vars
    BY <2>3 DEF vars, DQ!vars
  <2>4. QED
    BY <2>1, <2>2, <2>3 DEF Next
<1>3. QED
  BY <1>1, <1>2, RingCorrect, PTL DEF Spec, ImplementsDropQueue, DQ!Spec

\* A frame is never handed over twice, nor after a newer one.
THEOREM Order == Spec => NeverReplays
<1>1. TypeOK /\ RingInv /\ [Next]_vars => [count' < count => out = None \/ out' > out]_vars
  <2> SUFFICES ASSUME TypeOK, RingInv, Next PROVE count' < count => out = None \/ out' > out
    BY DEF vars
  <2>1. CASE Push
    <3>1. count \in Nat /\ (count' = count \/ count' = count + 1)
      BY <2>1, PushInv, RingAssumption DEF TypeOK
    <3>2. QED
      BY ONLY <3>1
  <2>2. CASE Pop
    <3>1. count' < count => out' = pushed - count
      BY <2>2, PopInv
    <3>2. out = None \/ out < pushed - count
      BY DEF RingInv
    <3>3. QED
      BY ONLY <3>1, <3>2
  <2>3. QED
    BY <2>1, <2>2 DEF Next
<1>2. QED
  BY <1>1, RingCorrect, PTL DEF Spec, NeverReplays

----------------------------------------------------------------------------
(* The path. *)

\* Every step of the path is a step of the ring, or leaves it alone.
LEMMA PathStepsRing == ASSUME [TxNext]_allVars PROVE [Next]_vars
<1>1. CASE UNCHANGED allVars
  BY <1>1 DEF allVars
<1>2. CASE \E n \in 1 .. Block : CaptureBlock(n)
  BY <1>2 DEF CaptureBlock
<1>3. CASE CutsFrame \/ Carries
  BY <1>3 DEF CutsFrame, Carries, Next
<1>4. ASSUME NEW outcome \in Outcomes, NEW wanted \in BOOLEAN,
             StartCapture(outcome) \/ StartMonitor(wanted, outcome)
      PROVE  [Next]_vars
  BY <1>4 DEF StartCapture, StartMonitor, EngineSame
<1>5. CASE Start \/ Stop \/ StopsDevices
  BY <1>5 DEF Start, Stop, StopsDevices, EngineSame
<1>6. CASE Tick \/ EntersSend \/ Sends
  BY <1>6 DEF Tick, EntersSend, Sends, Next
<1>7. CASE Zooms
  BY <1>7 DEF Zooms
<1> QED
  BY <1>1, <1>2, <1>3, <1>4, <1>5, <1>6, <1>7 DEF TxNext

\* So the path's ring is FrameRing, ...
LEMMA PathRing == TxSpec => Spec
<1>1. TxInit => Init
  BY DEF TxInit
<1>2. [TxNext]_allVars => [Next]_vars
  BY PathStepsRing
<1> QED
  BY <1>1, <1>2, PTL DEF TxSpec, Spec

\* ... and whatever the engine, the clocks and Zoom do, it hands out the oldest
\* of the last frames pushed.
THEOREM PathKeepsQueue == TxSpec => ImplementsDropQueue
BY PathRing, Refinement, PTL

----------------------------------------------------------------------------
(* The sender. *)

\* The pointer is there exactly from when Zoom hands it over to when it has it
\* back.
MicInv == (sender <=> zoom # "down") /\ SenderIsLive

\* Zoom's callbacks and the pacer's sends keep them together.
LEMMA MicKept == ASSUME MicInv, [TxNext]_allVars PROVE MicInv'
<1> USE DEF MicInv, SenderIsLive, micVars
<1>1. CASE UNCHANGED allVars
  BY <1>1 DEF allVars
<1>2. CASE \E n \in 1 .. Block : CaptureBlock(n)
  BY <1>2 DEF CaptureBlock
<1>3. CASE CutsFrame \/ Carries
  BY <1>3 DEF CutsFrame, Carries
<1>4. ASSUME NEW outcome \in Outcomes, NEW wanted \in BOOLEAN,
             StartCapture(outcome) \/ StartMonitor(wanted, outcome)
      PROVE  MicInv'
  BY <1>4 DEF StartCapture, StartMonitor, EngineSame
<1>5. CASE Start \/ Stop \/ StopsDevices
  BY <1>5 DEF Start, Stop, StopsDevices, EngineSame
<1>6. CASE Tick \/ EntersSend \/ Sends
  BY <1>6 DEF Tick, EntersSend, Sends, MaySend
<1>7. CASE Zooms
  BY <1>7 DEF Zooms, ZoomsThread, OnMicInitialize, MarksInitialised, OnMicStartSend,
              OnMicStopSend, OnMicUninitialized, UnmarksInitialised, DropsSender, Revokes,
              Locked
<1> QED
  BY <1>1, <1>2, <1>3, <1>4, <1>5, <1>6, <1>7 DEF TxNext

\* However Zoom's callbacks fall between the pacer's hint, its second look and
\* its call, no send runs in a sender that was taken back.
THEOREM SendsAreLive == TxSpec => []SenderIsLive
<1>1. TxInit => MicInv
  BY DEF TxInit, MicInit, MicInv, SenderIsLive
<1>2. MicInv /\ [TxNext]_allVars => MicInv'
  BY MicKept
<1> QED
  BY <1>1, <1>2, PTL DEF TxSpec, MicInv

----------------------------------------------------------------------------
(* The devices. *)

\* What is open at the driver is what was started, and how much that is follows
\* from where the engine is.
DevicesInv ==
  /\ held = started /\ held \subseteq Kinds
  /\ pc = "opening" => held = {"capture"}
  /\ pc \in {"closed", "over"} => held = {}

\* Every start and stop keeps the devices with the engine.
LEMMA DevicesKept == ASSUME DevicesInv, [TxNext]_allVars PROVE DevicesInv'
<1> USE DEF DevicesInv, deviceVars, Kinds
<1>1. CASE UNCHANGED allVars
  BY <1>1 DEF allVars, pathVars
<1>2. CASE \E n \in 1 .. Block : CaptureBlock(n)
  BY <1>2 DEF CaptureBlock
<1>3. CASE CutsFrame \/ Carries
  BY <1>3 DEF CutsFrame, Carries
<1>4. ASSUME NEW outcome \in Outcomes, StartCapture(outcome) PROVE DevicesInv'
  BY <1>4 DEF StartCapture, StartDevice, HeldAfter
<1>5. ASSUME NEW outcome \in Outcomes, NEW wanted \in BOOLEAN, StartMonitor(wanted, outcome)
      PROVE  DevicesInv'
  BY <1>5 DEF StartMonitor, StartDevice, HeldAfter
<1>6. CASE Start \/ Stop
  BY <1>6 DEF Start, Stop
<1>7. CASE StopsDevices
  BY <1>7 DEF StopsDevices, StopDevices
<1>8. CASE Tick \/ EntersSend \/ Sends
  BY <1>8 DEF Tick, EntersSend, Sends
<1>9. CASE Zooms
  BY <1>9 DEF Zooms, pathVars
<1> QED
  BY <1>1, <1>2, <1>3, <1>4, <1>5, <1>6, <1>7, <1>8, <1>9 DEF TxNext

\* Whichever device fails at whichever step, an engine that is over has given
\* back what it opened.
THEOREM DevicesGoBack == TxSpec => []DevicesReleased
<1>1. TxInit => DevicesInv
  BY DEF TxInit, DevicesInit, DevicesInv
<1>2. DevicesInv /\ [TxNext]_allVars => DevicesInv'
  BY DevicesKept
<1>3. DevicesInv => DevicesReleased
  BY DEF DevicesInv, DevicesReleased
<1> QED
  BY <1>1, <1>2, <1>3, PTL DEF TxSpec

----------------------------------------------------------------------------
(* The samples. *)

\* Every sample a device delivered is in exactly one frame, held back for the
\* next, or still to be cut: "the frame index here is derived from samples
\* counted" (frame_accumulator.h).
SamplesAccounted == samplesIn = FrameSamples * pushed + fill + todo

SamplesInv ==
  /\ {samplesIn, pushed, todo} \subseteq Nat
  /\ fill \in 0 .. FrameSamples - 1
  /\ SamplesAccounted

\* Every step accounts for every sample.
LEMMA SamplesKept == ASSUME SamplesInv, [TxNext]_allVars PROVE SamplesInv'
<1> USE PathAssumption DEF SamplesInv, SamplesAccounted
<1>1. CASE UNCHANGED allVars
  BY <1>1 DEF allVars, pathVars, vars
<1>2. ASSUME NEW n \in 1 .. Block, CaptureBlock(n) PROVE SamplesInv'
  BY <1>2 DEF CaptureBlock, vars
<1>3. CASE CutsFrame
  <2>1. /\ pushed' = pushed + 1 /\ fill' = 0 /\ samplesIn' = samplesIn
        /\ todo' = todo - (FrameSamples - fill) /\ todo >= FrameSamples - fill
    BY <1>3 DEF CutsFrame, Advances, Push, Wanted
  <2>2. FrameSamples * (pushed + 1) = FrameSamples * pushed + FrameSamples
    OBVIOUS
  <2> QED
    BY <2>1, <2>2
<1>4. CASE Carries
  BY <1>4 DEF Carries, Advances, Wanted, vars
<1>5. ASSUME NEW outcome \in Outcomes, NEW wanted \in BOOLEAN,
             StartCapture(outcome) \/ StartMonitor(wanted, outcome)
      PROVE  SamplesInv'
  BY <1>5 DEF StartCapture, StartMonitor, EngineSame, vars
<1>6. CASE Start \/ Stop \/ StopsDevices
  BY <1>6 DEF Start, Stop, StopsDevices, EngineSame, vars
<1>7. CASE Tick \/ EntersSend \/ Sends
  BY <1>7 DEF Tick, EntersSend, Sends, Pop, vars
<1>8. CASE Zooms
  BY <1>8 DEF Zooms, pathVars, vars
<1> QED
  BY <1>1, <1>2, <1>3, <1>4, <1>5, <1>6, <1>7, <1>8 DEF TxNext

\* However a device's blocks fall across the frames, none of it is lost, and
\* less than one frame is held back.
THEOREM NothingLost == TxSpec => [](SamplesAccounted /\ fill < FrameSamples)
<1>1. TxInit => SamplesInv
  BY PathAssumption DEF TxInit, Init, SamplesInv, SamplesAccounted
<1>2. SamplesInv /\ [TxNext]_allVars => SamplesInv'
  BY SamplesKept
<1>3. SamplesInv => SamplesAccounted /\ fill < FrameSamples
  BY PathAssumption DEF SamplesInv
<1> QED
  BY <1>1, <1>2, <1>3, PTL DEF TxSpec

----------------------------------------------------------------------------
(* The age of what is sent. *)

\* How old the oldest sample of frame f is.
AgeOf(f) == samplesIn - todo - FrameSamples * f

\* What waits, beyond what the clocks are apart: at most what waited at the
\* start, or what a tick that found no frame left behind.
Slop == IF lead > FrameSamples - 1 + Jitter THEN lead ELSE FrameSamples - 1 + Jitter

NotStarted == pc \in {"closed", "opening", "priming"}

\* Every tick takes a frame when there is one, so the backlog and the slack go
\* up and down together.
AgeInv ==
  /\ slack \in Int /\ slack <= Jitter /\ lead \in Nat
  /\ call # "out" => pc = "holding"
  /\ NotStarted => slack = 0 /\ age = 0
  /\ Ticking => (FrameSamples * count + fill) - slack <= Slop
  /\ pc = "holding" /\ frame # Silence =>
       frame \in Nat /\ AgeOf(frame) <= Slop + slack + FrameSamples
  /\ age \in Int /\ age <= Slop + Jitter + FrameSamples

RealInv == TypeOK /\ RingInv /\ SamplesInv /\ AgeInv

\* Multiples of a frame are integers that add up.
LEMMA FrameByFrame ==
  ASSUME NEW n \in Int
  PROVE  /\ FrameSamples * n \in Int
         /\ FrameSamples * (n + 1) = FrameSamples * n + FrameSamples
         /\ FrameSamples * (n - 1) = FrameSamples * n - FrameSamples
         /\ \A m \in Int : FrameSamples * (m - n) = FrameSamples * m - FrameSamples * n
BY PathAssumption

\* What the invariants make numbers of.
LEMMA Numbers ==
  ASSUME RealInv
  PROVE  /\ FrameSamples \in Nat \ {0} /\ Jitter \in Nat
         /\ count \in Nat /\ pushed \in Nat /\ fill \in Nat /\ todo \in Nat /\ samplesIn \in Nat
         /\ FrameSamples * count \in Int /\ FrameSamples * pushed \in Int
         /\ slack \in Int /\ lead \in Nat /\ Slop \in Nat /\ age \in Int
         /\ fill <= FrameSamples - 1
<1>1. FrameSamples \in Nat \ {0} /\ Jitter \in Nat
  BY PathAssumption
<1>2. count \in Nat /\ pushed \in Nat /\ todo \in Nat /\ samplesIn \in Nat
  BY RingAssumption DEF RealInv, TypeOK, SamplesInv
<1>3. fill \in Nat /\ fill <= FrameSamples - 1
  BY <1>1 DEF RealInv, SamplesInv
<1>4. FrameSamples * count \in Int /\ FrameSamples * pushed \in Int
  BY <1>2, FrameByFrame
<1>5. slack \in Int /\ lead \in Nat /\ age \in Int
  BY DEF RealInv, AgeInv
<1>6. Slop \in Nat
  BY <1>1, <1>5 DEF Slop
<1> QED
  BY <1>1, <1>2, <1>3, <1>4, <1>5, <1>6

\* The backlog grows by no more than the samples that came.
LEMMA CaptureKeepsAge ==
  ASSUME RealInv, CutsFrame \/ Carries
  PROVE  AgeInv'
<1> DEFINE n == IF CutsFrame THEN Wanted ELSE todo
<1>1. /\ n \in Nat /\ todo' = todo - n
      /\ IF Ticking THEN slack + n <= Jitter /\ slack' = slack + n ELSE slack' = slack
      /\ UNCHANGED <<samplesIn, pc, frame, age, lead, call>>
  BY Numbers DEF CutsFrame, Carries, Advances, Wanted, micVars
<1>2. FrameSamples * count' + fill' <= FrameSamples * count + fill + n
  <2>1. CASE CutsFrame
    <3>1. (count' = count \/ count' = count + 1) /\ fill' = 0 /\ n = FrameSamples - fill
      BY <2>1, PushInv DEF CutsFrame, Wanted, RealInv
    <3>2. FrameSamples * count \in Int /\ fill \in Nat /\ FrameSamples \in Nat
      BY Numbers
    <3>3. CASE count' = count
      <4>1. FrameSamples * count' = FrameSamples * count
        BY <3>3
      <4> QED
        BY <3>1, <3>2, <4>1
    <3>4. CASE count' = count + 1
      <4>1. FrameSamples * count' = FrameSamples * count + FrameSamples
        BY <3>4, Numbers, FrameByFrame
      <4> QED
        BY <3>1, <3>2, <4>1
    <3> QED
      BY <3>1, <3>3, <3>4
  <2>2. CASE ~CutsFrame
    BY <2>2, Numbers DEF Carries, vars
  <2> QED
    BY <2>1, <2>2
<1>3. FrameSamples * count' + fill' \in Int
  <2>1. count' \in Int /\ fill' \in Int
    BY Numbers, PushInv DEF CutsFrame, Carries, vars, RealInv
  <2>2. FrameSamples * count' \in Int
    BY <2>1, FrameByFrame
  <2> QED
    BY <2>1, <2>2
<1> HIDE DEF n
<1>4. ASSUME frame \in Nat
      PROVE  AgeOf(frame)' = AgeOf(frame) + n /\ AgeOf(frame) \in Int
  <2>1. FrameSamples * frame \in Int /\ FrameSamples * frame' = FrameSamples * frame
    BY <1>1, <1>4, FrameByFrame
  <2>2. samplesIn \in Int /\ todo \in Int
    BY Numbers
  <2>3. samplesIn' = samplesIn /\ todo' = todo - n /\ n \in Int
    BY <1>1
  <2> QED
    BY <2>1, <2>2, <2>3 DEF AgeOf
<1>5. Slop' = Slop
  BY <1>1 DEF Slop
<1>6. CASE Ticking
  <2>1. slack' = slack + n /\ slack' <= Jitter
    BY <1>1, <1>6
  <2>2. (FrameSamples * count' + fill') - slack' <= Slop
    <3>1. (FrameSamples * count + fill) - slack <= Slop
      BY <1>6 DEF RealInv, AgeInv
    <3>2. /\ n \in Int /\ slack \in Int /\ Slop \in Int
          /\ FrameSamples * count + fill \in Int
      BY <1>1, Numbers
    <3> QED
      BY <1>2, <1>3, <2>1, <3>1, <3>2
  <2>3. pc = "holding" /\ frame # Silence =>
          frame \in Nat /\ AgeOf(frame)' <= Slop + slack' + FrameSamples
    BY <1>1, <1>4, <2>1, Numbers DEF RealInv, AgeInv
  <2> QED
    BY <1>1, <1>5, <1>6, <2>1, <2>2, <2>3, Numbers
       DEF RealInv, AgeInv, Ticking, NotStarted, Silence, None
<1>7. CASE ~Ticking
  BY <1>1, <1>5, <1>7 DEF RealInv, AgeInv, Ticking, NotStarted
<1> QED
  BY <1>6, <1>7

\* A tick pops the oldest frame, or finds less than one.
LEMMA TickKeepsAge ==
  ASSUME RealInv, Tick
  PROVE  AgeInv'
<1>1. /\ slack' = slack - FrameSamples /\ slack' >= 0 - Jitter /\ pc = "sleep"
      /\ pc' \in {"sleep", "holding"} /\ (call' = call \/ pc' = "holding")
      /\ UNCHANGED <<fill, todo, samplesIn, age, lead>>
  BY DEF Tick
<1>2. Slop' = Slop
  BY <1>1 DEF Slop
<1>3. CASE count > 0
  <2>1. count' = count - 1 /\ frame' = pushed - count
    BY <1>3, PopInv DEF Tick, TakesFrame, RealInv
  <2>2. FrameSamples * count' = FrameSamples * count - FrameSamples
    BY <2>1, Numbers, FrameByFrame
  <2>3. AgeOf(frame)' = FrameSamples * count + fill
    <3>1. FrameSamples * frame' = FrameSamples * pushed - FrameSamples * count
      BY <2>1, Numbers, FrameByFrame
    <3>2. samplesIn = FrameSamples * pushed + fill + todo
      BY DEF RealInv, SamplesInv, SamplesAccounted
    <3> QED
      BY <1>1, <3>1, <3>2, Numbers DEF AgeOf
  <2>4. frame' \in Nat
    BY <2>1, Numbers DEF RealInv, RingInv
  <2>5. (FrameSamples * count + fill) - slack <= Slop
    BY <1>1 DEF RealInv, AgeInv, Ticking
  <2> QED
    BY <1>1, <1>2, <2>2, <2>3, <2>4, <2>5, Numbers DEF RealInv, AgeInv, Ticking, NotStarted
<1>4. CASE ~(count > 0)
  <2>1. count' = 0 /\ frame' = Silence /\ Silence' = Silence
    BY <1>4, Numbers DEF Tick, vars, Silence, None
  <2>2. FrameSamples * count' = 0
    BY <2>1, Numbers
  <2> QED
    BY <1>1, <1>2, <2>1, <2>2, Numbers DEF RealInv, AgeInv, Ticking, NotStarted, Slop
<1> QED
  BY <1>3, <1>4

\* Nothing ages between the engine's own steps.
LEMMA EngineKeepsAge ==
  ASSUME RealInv,
         \/ Start \/ Stop \/ StopsDevices
         \/ \E outcome \in Outcomes, wanted \in BOOLEAN :
              StartCapture(outcome) \/ StartMonitor(wanted, outcome)
  PROVE  AgeInv'
<1>1. UNCHANGED <<vars, fill, todo, samplesIn, frame, age, slack, call>>
  BY DEF Start, Stop, StopsDevices, StartCapture, StartMonitor, EngineSame, micVars
<1>2. CASE Start
  <2>1. lead' = FrameSamples * count + fill /\ slack = 0 /\ age = 0 /\ pc = "priming"
    BY <1>2 DEF Start, RealInv, AgeInv, NotStarted
  <2>2. FrameSamples * count + fill \in Nat /\ count' = count /\ pc' = "sleep"
    <3>1. FrameSamples * count >= 0
      BY Numbers
    <3> QED
      BY <1>1, <1>2, <3>1, Numbers DEF Start, vars
  <2>3. Slop' \in Nat /\ FrameSamples * count + fill <= Slop'
    BY <2>1, <2>2, Numbers DEF Slop
  <2> QED
    BY <1>1, <2>1, <2>2, <2>3, Numbers DEF RealInv, AgeInv, Ticking, NotStarted
<1>3. CASE ~Start
  <2>1. /\ lead' = lead /\ pc' \notin {"sleep", "holding"} /\ pc # "holding"
        /\ NotStarted' => NotStarted
    BY <1>3 DEF Stop, StopsDevices, StartCapture, StartMonitor, NotStarted
  <2> QED
    BY <1>1, <2>1 DEF RealInv, AgeInv, Ticking, Slop
<1> QED
  BY <1>2, <1>3

\* Every step keeps the ages in hand.
LEMMA AgeKept ==
  ASSUME RealInv, [TxNext]_allVars
  PROVE  AgeInv'
<1>1. CASE UNCHANGED allVars
  BY <1>1 DEF allVars, vars, pathVars, micVars, RealInv, AgeInv, Ticking, NotStarted, Slop,
     AgeOf, Silence, None
<1>2. ASSUME NEW n \in 1 .. Block, CaptureBlock(n)
      PROVE  AgeInv'
  <2>1. /\ samplesIn' - todo' = samplesIn - todo
        /\ UNCHANGED <<count, fill, pc, frame, age, slack, lead, call>>
    BY <1>2, Numbers DEF CaptureBlock, vars, micVars
  <2>2. frame \in Nat => AgeOf(frame)' = AgeOf(frame)
    BY <2>1 DEF AgeOf
  <2> QED
    BY <2>1, <2>2 DEF RealInv, AgeInv, Ticking, NotStarted, Slop, Silence, None
<1>3. CASE EntersSend
  BY <1>3 DEF EntersSend, vars, RealInv, AgeInv, Ticking, NotStarted, Slop, AgeOf, Silence, None
<1>4. CASE Sends
  <2>1. /\ pc = "holding" /\ pc' = "sleep" /\ call' = "out"
        /\ UNCHANGED <<count, fill, slack, lead>>
    BY <1>4 DEF Sends, vars, RealInv, AgeInv
  <2>2. age' \in Int /\ age' <= Slop + Jitter + FrameSamples
    <3>1. CASE frame = Silence
      BY <1>4, <3>1, Numbers DEF Sends
    <3>2. CASE frame # Silence
      <4>1. frame \in Nat /\ AgeOf(frame) <= Slop + slack + FrameSamples /\ slack <= Jitter
        BY <2>1, <3>2 DEF RealInv, AgeInv
      <4>2. age' = AgeOf(frame) /\ AgeOf(frame) \in Int
        BY <1>4, <3>2, <4>1, Numbers, FrameByFrame DEF Sends, AgeOf
      <4> QED
        BY <4>1, <4>2, Numbers
    <3> QED
      BY <3>1, <3>2
  <2> QED
    BY <2>1, <2>2 DEF RealInv, AgeInv, Ticking, NotStarted, Slop
<1>5. CASE Zooms
  <2>1. call' = call /\ UNCHANGED <<vars, pathVars>>
    BY <1>5 DEF Zooms, ZoomsThread, OnMicInitialize, MarksInitialised, OnMicStartSend,
       OnMicStopSend, OnMicUninitialized, UnmarksInitialised, DropsSender
  <2> QED
    BY <2>1 DEF vars, pathVars, RealInv, AgeInv, Ticking, NotStarted, Slop, AgeOf, Silence, None
<1> QED
  BY <1>1, <1>2, <1>3, <1>4, <1>5, CaptureKeepsAge, TickKeepsAge, EngineKeepsAge DEF TxNext

\* At the start nothing waits and nothing was sent.
LEMMA InitIsReal == ASSUME TxInit PROVE RealInv
<1>1. TypeOK /\ RingInv
  BY InitInv DEF TxInit
<1>2. SamplesInv
  BY PathAssumption DEF TxInit, Init, SamplesInv, SamplesAccounted
<1>3. AgeInv
  BY PathAssumption DEF TxInit, MicInit, AgeInv, Ticking, NotStarted, Slop
<1> QED
  BY <1>1, <1>2, <1>3 DEF RealInv

\* Every step keeps the ring, the samples and the ages.
LEMMA RealKept == ASSUME RealInv, [TxNext]_allVars PROVE RealInv'
<1>1. TypeOK' /\ RingInv'
  <2>1. CASE UNCHANGED vars
    BY <2>1 DEF vars, TypeOK, RingInv, RealInv
  <2> QED
    BY <2>1, PathStepsRing, PushInv, PopInv DEF Next, RealInv
<1> QED
  BY <1>1, SamplesKept, AgeKept DEF RealInv

\* For any ring, frame, block and jitter: whatever is handed to the sink is no
\* older than the backlog at the start, or the clocks' distance, and a frame.
THEOREM StaysInRealtime == TxSpec => []Realtime
<1>1. RealInv => Realtime
  BY Numbers DEF RealInv, AgeInv, Slop, Realtime
<1> QED
  BY <1>1, InitIsReal, RealKept, PTL DEF TxSpec

----------------------------------------------------------------------------
(* The types of the path. *)

\* The microphone's flags are only set and cleared.
LEMMA MicTyped == ASSUME MicTypeOK, [TxNext]_allVars PROVE MicTypeOK'
<1>1. ASSUME UNCHANGED micVars PROVE MicTypeOK'
  BY <1>1, Zenon DEF micVars, MicTypeOK
<1>2. CASE UNCHANGED allVars
  BY <1>1, <1>2, Zenon DEF allVars
<1>3. CASE \E n \in 1 .. Block : CaptureBlock(n)
  BY <1>1, <1>3, Zenon DEF CaptureBlock
<1>4. CASE CutsFrame \/ Carries
  BY <1>1, <1>4, Zenon DEF CutsFrame, Carries
<1>5. ASSUME NEW outcome \in Outcomes, NEW wanted \in BOOLEAN,
             StartCapture(outcome) \/ StartMonitor(wanted, outcome)
      PROVE  MicTypeOK'
  BY <1>1, <1>5, Zenon DEF StartCapture, StartMonitor, EngineSame
<1>6. CASE Start \/ Stop \/ StopsDevices
  BY <1>1, <1>6, Zenon DEF Start, Stop, StopsDevices, EngineSame
<1>7. CASE Tick \/ EntersSend \/ Sends
  <2>1. call' \in {"out", "hinted", "sending"}
    BY <1>7 DEF Tick, EntersSend, Sends, MicTypeOK
  <2> QED
    BY <1>7, <2>1, Zenon DEF Tick, EntersSend, Sends, MicTypeOK
<1>8. CASE Zooms
  <2>1. zoom' \in Stages
    BY <1>8 DEF Zooms, ZoomsThread, OnMicInitialize, MarksInitialised, OnMicStartSend,
                OnMicStopSend, OnMicUninitialized, UnmarksInitialised, DropsSender, Stages,
                MicTypeOK
  <2>2. UNCHANGED call /\ {canSend', initialised', sender'} \subseteq BOOLEAN
    <3>1. canSend \in BOOLEAN /\ initialised \in BOOLEAN /\ sender \in BOOLEAN
      BY Zenon DEF MicTypeOK
    <3>2. canSend' \in BOOLEAN /\ initialised' \in BOOLEAN /\ sender' \in BOOLEAN
      BY <1>8, <3>1, Zenon DEF Zooms, ZoomsThread, OnMicInitialize, MarksInitialised, OnMicStartSend,
                               OnMicStopSend, OnMicUninitialized, UnmarksInitialised, DropsSender
    <3> QED
      BY <1>8, <3>2, Zenon DEF Zooms, ZoomsThread, OnMicInitialize, MarksInitialised, OnMicStartSend,
                               OnMicStopSend, OnMicUninitialized, UnmarksInitialised, DropsSender
  <2> QED
    BY <2>1, <2>2, Zenon DEF MicTypeOK
<1> QED
  BY <1>2, <1>3, <1>4, <1>5, <1>6, <1>7, <1>8 DEF TxNext

\* What a tick took was pushed before, so its age is not negative and within
\* what was ever pushed; the slack is not below the jitter either.
PathTypes ==
  /\ todo \in 0 .. Block
  /\ pc \in {"closed", "opening", "priming", "sleep", "holding", "stopped", "over"}
  /\ frame \in 0 .. MaxFrames /\ sent \in 0 .. MaxFrames
  /\ frame # Silence => frame < pushed
  /\ age \in 0 .. FrameSamples * (MaxFrames + 1)
  /\ slack >= 0 - Jitter
  /\ lead \in 0 .. FrameSamples * (Capacity + 1) - 1

\* A product of frames grows with the frames.
LEMMA MoreFrames ==
  ASSUME NEW m \in Nat, NEW n \in Nat, m <= n
  PROVE  FrameSamples * m \in Nat /\ FrameSamples * n \in Nat /\ FrameSamples * m <= FrameSamples * n
BY PathAssumption

\* Every step keeps what is left of the types.
LEMMA PathTyped ==
  ASSUME RealInv, PathTypes, [TxNext]_allVars
  PROVE  PathTypes'
<1> USE DEF PathTypes
<1>1. /\ MaxFrames \in Nat /\ Capacity \in Nat /\ Block \in Nat /\ Silence = MaxFrames
      /\ Silence' = MaxFrames
  BY RingAssumption, PathAssumption DEF Silence, None
<1>2. pushed \in Nat /\ pushed <= MaxFrames /\ count <= Capacity
  BY <1>1 DEF RealInv, TypeOK
<1>3. CASE UNCHANGED allVars
  BY <1>1, <1>3 DEF allVars, pathVars, vars
<1>4. ASSUME NEW n \in 1 .. Block, CaptureBlock(n) PROVE PathTypes'
  BY <1>1, <1>4 DEF CaptureBlock, vars
<1>5. CASE CutsFrame \/ Carries
  <2>1. \E n \in Nat : todo' = todo - n /\ n <= todo /\ slack' \in {slack, slack + n}
    <3>1. CASE CutsFrame
      <4>1. Wanted \in Nat /\ Wanted <= todo
        BY <3>1, Numbers DEF CutsFrame, Wanted
      <4> QED
        BY <3>1, <4>1 DEF CutsFrame, Advances
    <3>2. CASE Carries
      BY <3>2, Numbers DEF Carries, Advances
    <3> QED
      BY <1>5, <3>1, <3>2
  <2>2. pushed' >= pushed /\ UNCHANGED <<pc, frame, sent, age, lead>>
    BY <1>2, <1>5 DEF CutsFrame, Carries, Push, vars
  <2>3. todo' \in 0 .. Block /\ slack' >= 0 - Jitter
    BY <1>1, <2>1, Numbers
  <2>4. pushed' \in Nat
    BY <1>2, <1>5 DEF CutsFrame, Carries, Push, vars
  <2> QED
    BY <1>1, <1>2, <2>2, <2>3, <2>4
<1>6. ASSUME NEW outcome \in Outcomes, NEW wanted \in BOOLEAN,
             StartCapture(outcome) \/ StartMonitor(wanted, outcome)
      PROVE  PathTypes'
  BY <1>1, <1>6 DEF StartCapture, StartMonitor, EngineSame, vars
<1>7. CASE Start
  <2>1. lead' \in 0 .. FrameSamples * (Capacity + 1) - 1
    <3>1. count \in Nat /\ count + 1 <= Capacity + 1
      BY <1>1, <1>2, Numbers
    <3>2. /\ FrameSamples * (count + 1) \in Nat /\ FrameSamples * (Capacity + 1) \in Nat
          /\ FrameSamples * (count + 1) <= FrameSamples * (Capacity + 1)
      BY <1>1, <3>1, MoreFrames
    <3>3. FrameSamples * (count + 1) = FrameSamples * count + FrameSamples
      BY Numbers, FrameByFrame
    <3>4. FrameSamples * count \in Nat
      BY <3>1, MoreFrames
    <3>5. lead' = FrameSamples * count + fill
      BY <1>7 DEF Start
    <3> QED
      BY <3>2, <3>3, <3>4, <3>5, Numbers
  <2> QED
    BY <1>1, <1>7, <2>1 DEF Start, EngineSame, vars
<1>8. CASE Stop \/ StopsDevices
  BY <1>1, <1>8 DEF Stop, StopsDevices, EngineSame, vars
<1>9. CASE Tick
  <2>1. frame' \in 0 .. MaxFrames /\ (frame' # Silence => frame' < pushed) /\ pushed' = pushed
    <3>1. CASE count > 0
      <4>1. frame' = pushed - count /\ pushed' = pushed
        BY <1>9, <3>1, PopInv DEF Tick, TakesFrame, RealInv
      <4>2. count <= pushed
        BY DEF RealInv, RingInv
      <4> QED
        BY <1>1, <1>2, <3>1, <4>1, <4>2, Numbers
    <3>2. CASE ~(count > 0)
      BY <1>1, <1>9, <3>2 DEF Tick, vars
    <3> QED
      BY <3>1, <3>2
  <2>2. slack' = slack - FrameSamples /\ slack' >= 0 - Jitter
    BY <1>9 DEF Tick
  <2>3. pc' \in {"sleep", "holding"} /\ UNCHANGED <<todo, sent, age, lead>>
    BY <1>9 DEF Tick
  <2> QED
    BY <1>1, <2>1, <2>2, <2>3
<1>10. CASE EntersSend
  BY <1>1, <1>10 DEF EntersSend, vars
<1>11. CASE Sends
  <2>1. age' \in 0 .. FrameSamples * (MaxFrames + 1)
    <3>1. CASE frame = Silence
      <4>1. FrameSamples * (MaxFrames + 1) \in Nat
        BY <1>1, MoreFrames
      <4> QED
        BY <1>11, <3>1, <4>1 DEF Sends
    <3>2. CASE frame # Silence
      <4>1. frame \in Nat /\ frame < pushed
        BY <1>1, <3>2
      <4>2. samplesIn = FrameSamples * pushed + fill + todo
        BY DEF RealInv, SamplesInv, SamplesAccounted
      <4>3. /\ FrameSamples * frame \in Nat /\ FrameSamples * pushed \in Nat
            /\ FrameSamples * frame <= FrameSamples * pushed
        BY <1>2, <4>1, MoreFrames
      <4>4. FrameSamples * (pushed + 1) <= FrameSamples * (MaxFrames + 1)
            /\ FrameSamples * (MaxFrames + 1) \in Nat
        BY <1>1, <1>2, MoreFrames
      <4>5. FrameSamples * (pushed + 1) = FrameSamples * pushed + FrameSamples
        BY <1>2, FrameByFrame
      <4>6. age' = samplesIn - todo - FrameSamples * frame
        BY <1>11, <3>2 DEF Sends
      <4> QED
        BY <4>2, <4>3, <4>4, <4>5, <4>6, Numbers
    <3> QED
      BY <3>1, <3>2
  <2> QED
    BY <1>1, <1>11, <2>1 DEF Sends, vars
<1>12. CASE Zooms
  BY <1>1, <1>12 DEF Zooms, pathVars, vars
<1> QED
  BY <1>3, <1>4, <1>5, <1>6, <1>7, <1>8, <1>9, <1>10, <1>11, <1>12 DEF TxNext

\* Type correctness of the path: what waited at the start is within the ring
\* and one frame, the clocks stay within the jitter, and an age within what was
\* ever pushed.
THEOREM PathTypeCorrect == TxSpec => []TxTypeOK
<1> DEFINE All == RealInv /\ DevicesInv /\ MicTypeOK /\ PathTypes
<1>1. TxInit => All
  <2> SUFFICES ASSUME TxInit PROVE All
    OBVIOUS
  <2>1. RealInv
    BY InitIsReal
  <2>2. DevicesInv
    BY DEF TxInit, DevicesInit, DevicesInv
  <2>3. MicTypeOK
    <3>1. canSend \in BOOLEAN /\ initialised \in BOOLEAN /\ sender \in BOOLEAN
      BY Zenon DEF TxInit, MicInit
    <3>2. zoom \in Stages /\ call \in {"out", "hinted", "sending"}
      BY DEF TxInit, MicInit, Stages
    <3> QED
      BY <3>1, <3>2, Zenon DEF MicTypeOK
  <2>4. PathTypes
    <3>1. FrameSamples * (MaxFrames + 1) \in Nat /\ MaxFrames \in Nat
      BY RingAssumption, MoreFrames
    <3>2. FrameSamples * (Capacity + 1) \in Nat /\ FrameSamples * 1 <= FrameSamples * (Capacity + 1)
      BY RingAssumption, MoreFrames
    <3> QED
      BY <3>1, <3>2, PathAssumption DEF TxInit, PathTypes, Silence, None
  <2> QED
    BY <2>1, <2>2, <2>3, <2>4
<1>2. All /\ [TxNext]_allVars => All'
  BY RealKept, DevicesKept, MicTyped, PathTyped
<1>3. All => TxTypeOK
  <2> SUFFICES ASSUME All PROVE TxTypeOK
    OBVIOUS
  <2>1. /\ TypeOK /\ MicTypeOK /\ held \subseteq Kinds /\ started \subseteq Kinds
        /\ fill \in 0 .. FrameSamples - 1 /\ samplesIn \in Nat
    BY DEF RealInv, SamplesInv, DevicesInv
  <2>2. slack \in 0 - Jitter .. Jitter
    BY Numbers DEF RealInv, AgeInv, PathTypes
  <2> QED
    BY <2>1, <2>2 DEF PathTypes, TxTypeOK
<1> QED
  BY <1>1, <1>2, <1>3, PTL DEF TxSpec
=============================================================================
