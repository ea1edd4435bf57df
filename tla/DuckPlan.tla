------------------------------ MODULE DuckPlan ------------------------------
(***************************************************************************)
(* Channel volume (src/zoom/duck_plan.cpp and its caller in the main       *)
(* loop): Zoom ducks the meeting for members of a channel by default, so   *)
(* every ready channel is brought to unity, and ducked while it carries    *)
(* audio. Each pass of the main loop makes at most one SDK call, paced,    *)
(* later after a refusal, and believes only what Zoom accepted.            *)
(*                                                                         *)
(* Time is counted in pace windows: a call closes the planner for Pace of  *)
(* them, a refusal for Retry.                                              *)
(***************************************************************************)
EXTENDS Naturals, FiniteSets

CONSTANTS
  NumSlots,  \* channels of the bank
  Pace,      \* kPaceMs
  Retry      \* kRetryMs

Slots == 0 .. NumSlots - 1

VARIABLES
  ready,    \* the bank's ready_mask_ (read only)
  active,   \* slots carrying audio, keyed voice or feed (read only)
  known,    \* known_: slots whose applied_ is what Zoom accepted
  applied,  \* applied_
  wait,     \* next_call_ms_, as windows from now
  volume    \* Zoom: the channel's background volume; its own duck at first

planVars == <<known, applied, wait, volume>>

PlanInit ==
  /\ known = {}
  /\ applied = [s \in Slots |-> "none"]
  /\ wait = 0
  /\ volume = [s \in Slots |-> "default"]

Want(s) == IF s \in active THEN "duck" ELSE "unity"

\* Ready slots Zoom has not confirmed at the wanted volume. Next serves the
\* lowest and forgets the slots that are not ready on its way there.
Due == {s \in ready : ~(s \in known /\ applied[s] = Want(s))}
Forgotten == {s \in Slots \ ready : \A t \in Due : s < t}

Cooldown(accepted) == IF accepted THEN Pace ELSE Retry

\* What SetChannelVolume leaves the channel at: Zoom may refuse the call.
VolumeAfter(s, accepted) == IF accepted THEN [volume EXCEPT ![s] = Want(s)] ELSE volume

\* The planner's pass: Next, SetChannelVolume, then Confirm or Fail.
Pass(accepted) ==
  /\ wait = 0
  /\ wait' = Cooldown(accepted)
  /\ \E s \in Due :
       /\ \A t \in Due : s <= t
       /\ volume' = VolumeAfter(s, accepted)
       /\ known' = (known \ Forgotten) \union IF accepted THEN {s} ELSE {}
       /\ applied' = IF accepted THEN [applied EXCEPT ![s] = Want(s)] ELSE applied

\* A window goes by.
Window == wait > 0 /\ wait' = wait - 1 /\ UNCHANGED <<known, applied, volume>>

----------------------------------------------------------------------------
\* The shape of the planner's state.
PlanTypeOK ==
  /\ known \in SUBSET Slots
  /\ applied \in [Slots -> {"none", "unity", "duck"}]
  /\ wait \in 0 .. Retry
  /\ volume \in [Slots -> {"default", "unity", "duck"}]
=============================================================================
