--------------------------- MODULE DuckingProofs ---------------------------
(***************************************************************************)
(* Theorems about the feeds and the duck planner, for every number of      *)
(* channels, ring depth, hang and pacing. LatchedIsServed and SavedFeeds   *)
(* are inductive together with the shape of the state: the verbs keep the  *)
(* latched mask, the slots and the file, while it can be opened, in step,  *)
(* and nothing else writes them. BeliefIsReal is inductive on the planner's side alone.            *)
(***************************************************************************)
EXTENDS Ducking, TLAPS

\* Only what has a chain is latched.
LatchHasChain == \A s \in Slots : latch[s] => chain[s]

FeedInv == TypeOK /\ LatchedIsServed /\ SavedFeeds /\ LatchHasChain

PlanInv == Duck!PlanTypeOK /\ BeliefIsReal

\* A gate's hang stays within the hang time.
LEMMA GateType == \A h \in 0 .. Hang : \A hot \in BOOLEAN : Gate(h, hot) \in 0 .. Hang
  BY FeedAssumption DEF Gate

\* A ring stays bounded by its depth under Push.
LEMMA PushedType ==
  ASSUME NEW r \in Seq(BOOLEAN), Len(r) <= Depth, NEW f \in BOOLEAN
  PROVE  Pushed(r, f) \in Seq(BOOLEAN) /\ Len(Pushed(r, f)) <= Depth
<1>1. CASE Len(r) = Depth
  <2>1. Tail(r) \in Seq(BOOLEAN) /\ Len(Tail(r)) = Depth - 1
    BY <1>1, FeedAssumption
  <2>2. QED
    BY <1>1, <2>1, FeedAssumption DEF Pushed
<1>2. CASE Len(r) # Depth
  BY <1>2, FeedAssumption DEF Pushed
<1>3. QED
  BY <1>1, <1>2

\* An empty ring is a ring.
LEMMA EmptyType ==
  Empty \in [Slots -> Seq(BOOLEAN)] /\ \A s \in Slots : Len(Empty[s]) <= Depth
<1>1. <<>> \in Seq(BOOLEAN) /\ Len(<<>>) = 0
  OBVIOUS
<1>2. \A s \in Slots : Empty[s] = <<>>
  BY DEF Empty
<1>3. Empty \in [Slots -> Seq(BOOLEAN)]
  BY <1>1, <1>2 DEF Empty
<1>4. QED
  BY <1>1, <1>2, <1>3, FeedAssumption

LEMMA FeedInit == Init => FeedInv
<1> SUFFICES ASSUME Init PROVE FeedInv
  OBVIOUS
<1> USE DEF Init, No
<1>1. TypeOK
  <2>1. ring \in [Slots -> Seq(BOOLEAN)] /\ \A s \in Slots : Len(ring[s]) <= Depth
    BY EmptyType
  <2>2. hang \in [Slots -> 0 .. Hang] /\ voiceHang \in 0 .. Hang
    BY FeedAssumption DEF Zero
  <2>3. QED
    BY <2>1, <2>2 DEF TypeOK
<1>2. LatchedIsServed /\ SavedFeeds /\ LatchHasChain
  BY DEF LatchedIsServed, SavedFeeds, LatchHasChain
<1>3. QED
  BY <1>1, <1>2 DEF FeedInv

\* The verbs that build a feed up, latch it or take it down.
LEMMA SetInv ==
  ASSUME FeedInv, NEW s \in Slots, NEW started \in BOOLEAN, Set(s, started)
  PROVE  FeedInv'
<1> USE DEF FeedInv, Set, DevAfter, SetRefresh, Latched, deskVars
<1>1. TypeOK'
  BY FeedAssumption DEF TypeOK
<1>2. LatchedIsServed'
  BY DEF TypeOK, LatchedIsServed
<1>3. SavedFeeds'
  BY DEF TypeOK, SavedFeeds, LatchHasChain
<1>4. LatchHasChain'
  BY DEF TypeOK, LatchHasChain
<1>5. QED
  BY <1>1, <1>2, <1>3, <1>4

LEMMA SetLatchInv ==
  ASSUME FeedInv, NEW s \in Slots, NEW on \in BOOLEAN, SetLatch(s, on)
  PROVE  FeedInv'
<1> USE DEF FeedInv, SetLatch, Latched, deskVars
<1>1. TypeOK'
  BY DEF TypeOK
<1>2. LatchedIsServed'
  BY DEF TypeOK, LatchedIsServed
<1>3. SavedFeeds'
  BY DEF SavedFeeds
<1>4. LatchHasChain'
  BY DEF TypeOK, LatchHasChain
<1>5. QED
  BY <1>1, <1>2, <1>3, <1>4

LEMMA OffInv ==
  ASSUME FeedInv, NEW s \in Slots, Off(s)
  PROVE  FeedInv'
<1> USE DEF FeedInv, Off, Latched, deskVars
<1>1. TypeOK'
  BY FeedAssumption DEF TypeOK
<1>2. LatchedIsServed'
  BY DEF TypeOK, LatchedIsServed
<1>3. SavedFeeds'
  BY DEF SavedFeeds
<1>4. LatchHasChain'
  BY DEF TypeOK, LatchHasChain
<1>5. QED
  BY <1>1, <1>2, <1>3, <1>4

LEMMA SaveInv ==
  ASSUME FeedInv, SaveEnv
  PROVE  FeedInv'
<1> USE DEF FeedInv, SaveEnv, slotVars, maskVars, deskVars
<1>1. TypeOK'
  BY DEF TypeOK
<1>2. LatchedIsServed' /\ LatchHasChain'
  BY DEF LatchedIsServed, LatchHasChain
<1>3. SavedFeeds'
  BY DEF TypeOK, SavedFeeds, Saved
<1>4. QED
  BY <1>1, <1>2, <1>3

\* A launch sets up what it is given of what the file lists.
LEMMA LaunchInv ==
  ASSUME FeedInv, NEW kept \in SUBSET Listed, NEW started \in SUBSET Slots, Launch(kept, started),
         missed' \in BOOLEAN, ~missed' => kept = Listed
  PROVE  FeedInv'
<1> USE DEF FeedInv, Launch, DevAfter, Restored, Listed
<1>1. TypeOK'
  BY EmptyType, FeedAssumption DEF TypeOK, No, Zero
<1>2. LatchedIsServed'
  <2>1. \A s \in Slots : s <= s
    BY DEF Slots
  <2>2. QED
    BY <2>1 DEF TypeOK, LatchedIsServed
<1>3. SavedFeeds'
  BY DEF TypeOK, SavedFeeds
<1>4. LatchHasChain'
  BY DEF TypeOK, LatchHasChain
<1>5. QED
  BY <1>1, <1>2, <1>3, <1>4

\* The next launch sets up what the file lists, or nothing.
LEMMA RelaunchInv ==
  ASSUME FeedInv, NEW started \in SUBSET Slots, Relaunch(started)
  PROVE  FeedInv'
<1>1. CASE missed' = FALSE /\ Launch(Listed, started)
  BY <1>1, LaunchInv
<1>2. CASE missed' = TRUE /\ Launch({}, started)
  BY <1>2, LaunchInv
<1>3. QED
  BY <1>1, <1>2 DEF Relaunch

\* The audio threads and the outside world move frames, gates and devices; a
\* device that runs can only be lost.
LEMMA AudioInv ==
  ASSUME FeedInv, Audio \/ World
  PROVE  FeedInv'
<1> USE DEF FeedInv
<1>1. ASSUME NEW s \in Slots, DeviceCallback(s) PROVE FeedInv'
  <2>1. TypeOK'
    BY <1>1, PushedType DEF TypeOK, DeviceCallback, maskVars, diskVars, deskVars
  <2>2. QED
    BY <1>1, <2>1 DEF LatchedIsServed, SavedFeeds, LatchHasChain, DeviceCallback, maskVars, diskVars
<1>2. ASSUME NEW s \in Slots, PullFrame(s) PROVE FeedInv'
  <2>1. ring' \in [Slots -> Seq(BOOLEAN)] /\ \A t \in Slots : Len(ring'[t]) <= Depth
    <3>1. \A r \in Seq(BOOLEAN) : r # <<>> => Tail(r) \in Seq(BOOLEAN) /\ Len(Tail(r)) = Len(r) - 1
      OBVIOUS
    <3>2. Len(ring[s]) \in Nat /\ Len(ring[s]) <= Depth /\ ring[s] \in Seq(BOOLEAN)
      BY DEF TypeOK
    <3>3. CASE ring[s] = <<>>
      BY <1>2, <3>3 DEF TypeOK, PullFrame
    <3>4. CASE ring[s] # <<>>
      <4>1. ring' = [ring EXCEPT ![s] = Tail(ring[s])]
        BY <1>2, <3>4 DEF TypeOK, PullFrame
      <4>2. Tail(ring[s]) \in Seq(BOOLEAN) /\ Len(Tail(ring[s])) = Len(ring[s]) - 1
        BY <3>1, <3>2, <3>4
      <4>3. Len(Tail(ring[s])) <= Depth
        BY <3>2, <4>2, FeedAssumption
      <4>4. QED
        BY <4>1, <4>2, <4>3 DEF TypeOK
    <3>5. QED
      BY <3>3, <3>4
  <2>2. hang' \in [Slots -> 0 .. Hang]
    <3>1. \A r \in Seq(BOOLEAN) : r # <<>> => Head(r) \in BOOLEAN
      OBVIOUS
    <3>2. (ring[s] # <<>> /\ Head(ring[s])) \in BOOLEAN
      OBVIOUS
    <3>3. QED
      BY <1>2, <3>2, GateType DEF TypeOK, PullFrame
  <2>3. TypeOK'
    BY <1>2, <2>1, <2>2 DEF TypeOK, PullFrame, diskVars, deskVars
  <2>4. QED
    BY <1>2, <2>3 DEF LatchedIsServed, SavedFeeds, LatchHasChain, PullFrame, diskVars
<1>3. ASSUME NEW hot \in BOOLEAN, Tick(hot) PROVE FeedInv'
  <2>1. TypeOK'
    BY <1>3, GateType DEF TypeOK, Tick, slotVars, maskVars, diskVars
  <2>2. QED
    BY <1>3, <2>1 DEF LatchedIsServed, SavedFeeds, LatchHasChain, Tick, slotVars, maskVars, diskVars
<1>4. ASSUME NEW s \in Slots, ChannelReady(s) PROVE FeedInv'
  BY <1>4 DEF TypeOK, LatchedIsServed, SavedFeeds, LatchHasChain, ChannelReady, slotVars, maskVars, diskVars
<1>5. ASSUME NEW s \in Slots, LineChanges(s) PROVE FeedInv'
  BY <1>5 DEF TypeOK, LatchedIsServed, SavedFeeds, LatchHasChain, LineChanges, slotVars, maskVars,
              diskVars, deskVars
<1>6. ASSUME NEW s \in Slots, Unplug(s) PROVE FeedInv'
  BY <1>6 DEF TypeOK, LatchedIsServed, SavedFeeds, LatchHasChain, Unplug, maskVars, diskVars, deskVars
<1>7. QED
  BY <1>1, <1>2, <1>3, <1>4, <1>5, <1>6 DEF Audio, World

\* Keying and the end of a session leave the feeds alone.
LEMMA SessionInv ==
  ASSUME FeedInv, SessionEnds \/ \E k \in SUBSET Slots : SetKeys(k)
  PROVE  FeedInv'
<1>1. CASE SessionEnds
  BY <1>1, FeedAssumption DEF FeedInv, TypeOK, LatchedIsServed, SavedFeeds, LatchHasChain,
                                   SessionEnds, slotVars, maskVars, diskVars
<1>2. ASSUME NEW k \in SUBSET Slots, SetKeys(k) PROVE FeedInv'
  BY <1>2 DEF FeedInv, TypeOK, LatchedIsServed, SavedFeeds, LatchHasChain, SetKeys, slotVars,
              maskVars, diskVars
<1>3. QED
  BY <1>1, <1>2

\* What stutters on the feeds' side keeps their invariant.
LEMMA FeedFrame ==
  ASSUME FeedInv, UNCHANGED feedVars
  PROVE  FeedInv'
  BY DEF FeedInv, TypeOK, LatchedIsServed, SavedFeeds, LatchHasChain, feedVars, slotVars, maskVars,
         diskVars, deskVars

----------------------------------------------------------------------------
LEMMA PlanStart == Duck!PlanInit => PlanInv
  BY PaceAssumption
  DEF Duck!PlanInit, PlanInv, Duck!PlanTypeOK, BeliefIsReal, Duck!Slots, Slots

\* A new meeting: nothing known, Zoom's own duck.
LEMMA NewPlanInv == ASSUME NewPlan PROVE PlanInv'
  BY PaceAssumption
  DEF NewPlan, PlanInv, Duck!PlanTypeOK, BeliefIsReal, Duck!Slots, Slots

\* A call changes belief and volume together, or neither.
LEMMA PassInv ==
  ASSUME TypeOK, PlanInv, NEW accepted \in BOOLEAN, Duck!Pass(accepted)
  PROVE  PlanInv'
<1> USE DEF PlanInv
<1>1. PICK s \in Duck!Due :
        /\ volume' = IF accepted THEN [volume EXCEPT ![s] = Duck!Want(s)] ELSE volume
        /\ known' = (known \ Duck!Forgotten) \union IF accepted THEN {s} ELSE {}
        /\ applied' = IF accepted THEN [applied EXCEPT ![s] = Duck!Want(s)] ELSE applied
  BY DEF Duck!Pass, Duck!VolumeAfter
<1>2. s \in Slots /\ Duck!Want(s) \in {"unity", "duck"}
  BY DEF TypeOK, Duck!Due, Duck!Want
<1>3. wait' \in 0 .. Retry
  BY PaceAssumption DEF Duck!Pass, Duck!Cooldown
<1>4. Duck!PlanTypeOK'
  BY <1>1, <1>2, <1>3 DEF Duck!PlanTypeOK, Duck!Slots, Slots
<1>5. BeliefIsReal'
  BY <1>1, <1>2 DEF BeliefIsReal, Duck!PlanTypeOK, Duck!Slots, Slots
<1>6. QED
  BY <1>4, <1>5

LEMMA WindowInv ==
  ASSUME PlanInv, Duck!Window
  PROVE  PlanInv'
  BY PaceAssumption DEF PlanInv, Duck!Window, Duck!PlanTypeOK, BeliefIsReal

LEMMA PlanFrame ==
  ASSUME PlanInv, UNCHANGED planVars
  PROVE  PlanInv'
  BY DEF PlanInv, planVars, Duck!PlanTypeOK, BeliefIsReal

----------------------------------------------------------------------------
\* Every step of the two keeps the invariant of both.
LEMMA NextInv ==
  ASSUME TypeOK, FeedInv, PlanInv, [DuckNext]_vars
  PROVE  FeedInv' /\ PlanInv'
<1>1. CASE Main /\ UNCHANGED planVars
  BY <1>1, SetInv, SetLatchInv, OffInv, SaveInv, SessionInv, PlanFrame DEF Main, Verb
<1>2. CASE (World \/ Audio) /\ UNCHANGED planVars
  BY <1>2, AudioInv, PlanFrame
<1>3. CASE Ends
  BY <1>3, SessionInv, RelaunchInv, NewPlanInv DEF Ends
<1>4. CASE Duck!Window /\ UNCHANGED feedVars
  BY <1>4, WindowInv, FeedFrame
<1>5. ASSUME NEW accepted \in BOOLEAN, DuckPass(accepted) PROVE FeedInv' /\ PlanInv'
  BY <1>5, PassInv, FeedFrame DEF DuckPass
<1>6. CASE UNCHANGED vars
  BY <1>6, FeedFrame, PlanFrame DEF vars
<1>7. QED
  BY <1>1, <1>2, <1>3, <1>4, <1>5, <1>6 DEF DuckNext

\* The two invariants hold in every reachable state.
THEOREM Invariance == DuckSpec => [](FeedInv /\ PlanInv)
<1>1. DuckInit => FeedInv /\ PlanInv
  BY FeedInit, PlanStart DEF DuckInit
<1>2. FeedInv /\ PlanInv /\ [DuckNext]_vars => (FeedInv /\ PlanInv)'
  BY NextInv DEF FeedInv
<1>3. QED
  BY <1>1, <1>2, PTL DEF DuckSpec

\* Every variable of the feeds keeps its shape; the rings stay bounded.
THEOREM TypeCorrect == DuckSpec => []TypeOK
<1>1. FeedInv => TypeOK
  BY DEF FeedInv
<1>2. QED
  BY Invariance, <1>1, PTL

\* A latched feed with a device is always among the pacer's targets, and no
\* unlatched feed stays in the latched mask.
THEOREM Served == DuckSpec => []LatchedIsServed
<1>1. FeedInv => LatchedIsServed
  BY DEF FeedInv
<1>2. QED
  BY Invariance, <1>1, PTL

\* Between verbs feeds.env agrees with the feeds, unless it could not be opened
\* the last time.
THEOREM FileTruth == DuckSpec => []SavedFeeds
<1>1. FeedInv => SavedFeeds
  BY DEF FeedInv
<1>2. QED
  BY Invariance, <1>1, PTL

\* What the planner believes of a channel is the volume Zoom has.
THEOREM Belief == DuckSpec => []BeliefIsReal
<1>1. PlanInv => BeliefIsReal
  BY DEF PlanInv
<1>2. QED
  BY Invariance, <1>1, PTL

\* A launch brings back every latch and every feed with a device, and nothing
\* that was removed, as long as feeds.env can be opened.
THEOREM ComeBack == DuckSpec => FeedsComeBack
<1> DEFINE Back == /\ latch' = latch
                   /\ \A s \in Slots : /\ chain[s] /\ dev[s] # "none" => chain'[s]
                                       /\ chain'[s] => chain[s]
           Launched == (\E started \in SUBSET Slots : Relaunch(started)) /\ ~missed /\ ~missed'
<1>1. ASSUME FeedInv, NEW started \in SUBSET Slots, Relaunch(started), ~missed, ~missed'
      PROVE  Back
  <2>1. Launch(Listed, started) /\ ~saving
    BY <1>1 DEF Relaunch, Launch
  <2>2. \A s \in Slots :
          /\ file[s] # "absent" => chain[s] /\ (file[s] = "latched" <=> latch[s])
          /\ chain[s] /\ (latch[s] \/ dev[s] # "none") => file[s] # "absent"
          /\ latch[s] => chain[s]
    BY <1>1, <2>1 DEF FeedInv, SavedFeeds, LatchHasChain
  <2>3. \A s \in Slots : chain'[s] = (file[s] # "absent")
    BY <2>1 DEF Launch, Listed
  <2>4. latch' = latch
    <3>1. latch \in [Slots -> BOOLEAN]
      BY <1>1 DEF FeedInv, TypeOK
    <3>2. latch' = [s \in Slots |-> s \in Listed /\ Restored(s)]
      BY <2>1 DEF Launch
    <3>3. \A s \in Slots : (s \in Listed /\ Restored(s)) = latch[s]
      BY <2>2, <3>1 DEF Listed, Restored
    <3>4. QED
      BY <3>1, <3>2, <3>3
  <2>5. QED
    BY <2>2, <2>3, <2>4
<1>2. FeedInv => [Launched => Back]_feedVars
  BY <1>1
<1>3. QED
  BY Invariance, <1>2, PTL DEF FeedsComeBack

----------------------------------------------------------------------------
\* Nothing due means nothing wrong: what is off the list is believed, and
\* what is believed is real.
THEOREM RestIsRight == DuckSpec => []IdleMeansRight
<1>1. TypeOK /\ PlanInv => IdleMeansRight
  BY DEF PlanInv, BeliefIsReal, IdleMeansRight, Duck!Due
<1>2. QED
  BY Invariance, <1>1, PTL DEF FeedInv

\* A call never puts another channel on the list; an accepted one takes off
\* the channel it served.
LEMMA PassShrinks ==
  ASSUME TypeOK, PlanInv, NEW accepted \in BOOLEAN, Duck!Pass(accepted),
         ready' = ready, Activity' = Activity
  PROVE  /\ Duck!Due' \subseteq Duck!Due
         /\ accepted => Duck!Due' # Duck!Due
<1>1. PICK s \in Duck!Due :
        /\ known' = (known \ Duck!Forgotten) \union IF accepted THEN {s} ELSE {}
        /\ applied' = IF accepted THEN [applied EXCEPT ![s] = Duck!Want(s)] ELSE applied
  BY DEF Duck!Pass
<1>2. s \in ready /\ s \in Slots /\ applied \in [Slots -> {"none", "unity", "duck"}]
  BY DEF TypeOK, PlanInv, Duck!PlanTypeOK, Duck!Due, Duck!Slots, Slots
<1>3. \A t : Duck!Want(t)' = Duck!Want(t)
  BY DEF Duck!Want
<1>4. ASSUME NEW t \in ready, t \in known, applied[t] = Duck!Want(t)
      PROVE  t \in known' /\ applied'[t] = Duck!Want(t)
  <2>1. t \in known'
    BY <1>1, <1>4 DEF Duck!Forgotten
  <2>2. t # s /\ t \in Slots
    BY <1>4 DEF Duck!Due, TypeOK
  <2>3. QED
    BY <1>1, <1>2, <2>1, <2>2, <1>4
<1>5. Duck!Due' \subseteq Duck!Due
  BY <1>3, <1>4 DEF Duck!Due
<1>6. ASSUME accepted PROVE s \notin Duck!Due'
  <2>1. s \in known' /\ applied'[s] = Duck!Want(s)
    BY <1>1, <1>2, <1>6
  <2>2. QED
    BY <1>3, <2>1 DEF Duck!Due
<1>7. QED
  BY <1>1, <1>5, <1>6

\* With the ready channels and their activity settled, the list of calls only
\* gets shorter, whatever the feeds, the pacer and Zoom's refusals do.
THEOREM WorkShrinks == DuckSpec => WorkOnlyShrinks
<1> DEFINE Settled == ready' = ready /\ Activity' = Activity
           Shrinks == /\ Duck!Due' \subseteq Duck!Due
                      /\ DuckPass(TRUE) => Duck!Due' # Duck!Due
<1>1. ASSUME known' = known, applied' = applied, Settled
      PROVE  Duck!Due' = Duck!Due
  BY <1>1 DEF Duck!Due, Duck!Want
<1>2. ASSUME NEW accepted \in BOOLEAN, TypeOK, PlanInv, DuckPass(accepted), Settled
      PROVE  Duck!Due' \subseteq Duck!Due
  BY <1>2, PassShrinks DEF DuckPass
<1>3. ASSUME TypeOK, PlanInv, DuckPass(TRUE), Settled
      PROVE  Duck!Due' # Duck!Due
  BY <1>3, PassShrinks DEF DuckPass
<1>4. ASSUME [DuckNext]_vars, TypeOK, PlanInv, Settled
      PROVE  Duck!Due' \subseteq Duck!Due
  <2>1. CASE Ends
    <3>1. ready' = {}
      BY <2>1 DEF Ends, SessionEnds, Relaunch, Launch
    <3>2. QED
      BY <3>1 DEF Duck!Due
  <2>2. CASE (Main \/ World \/ Audio) /\ UNCHANGED planVars
    BY <1>1, <1>4, <2>2 DEF planVars
  <2>3. CASE Duck!Window /\ UNCHANGED feedVars
    BY <1>1, <1>4, <2>3 DEF Duck!Window
  <2>4. CASE UNCHANGED vars
    BY <1>1, <1>4, <2>4 DEF vars, planVars
  <2>5. QED
    BY <1>2, <1>4, <2>1, <2>2, <2>3, <2>4 DEF DuckNext
<1>5. TypeOK /\ PlanInv /\ [DuckNext]_vars => [Settled => Shrinks]_vars
  BY <1>3, <1>4
<1>6. QED
  BY Invariance, <1>5, PTL DEF DuckSpec, WorkOnlyShrinks, FeedInv
=============================================================================
