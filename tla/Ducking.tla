------------------------------ MODULE Ducking ------------------------------
(***************************************************************************)
(* What the members of a channel hear of their own meeting: the feeds and  *)
(* the operator's voice (FeedBank) decide which channels carry audio, and  *)
(* the duck planner (DuckPlan) follows that activity with paced, refusable *)
(* SDK calls from the main loop (src/app/main.cpp).                        *)
(***************************************************************************)
EXTENDS FeedBank

CONSTANTS Pace, Retry

ASSUME PaceAssumption == Pace \in Nat /\ Retry \in Nat /\ Pace <= Retry

VARIABLES known, applied, wait, volume

planVars == <<known, applied, wait, volume>>
vars == <<feedVars, planVars>>

\* The mask the main loop hands the planner: signal-gated, never key or latch
\* state.
Activity_States == keys \union latchedMask  \* mutant: states, not signals
Activity == (IF voiceHang > 0 THEN keys ELSE {}) \union activeMask

Duck == INSTANCE DuckPlan WITH active <- Activity

DuckInit == Init /\ Duck!PlanInit

\* The planner lives as long as the session; the next meeting's channels come
\* with Zoom's own duck.
NewPlan ==
  /\ known' = {}
  /\ applied' = [s \in Slots |-> "none"]
  /\ wait' = 0
  /\ volume' = [s \in Slots |-> "default"]

DuckPass(accepted) == Duck!Pass(accepted) /\ UNCHANGED feedVars

Ends == NewPlan /\ (SessionEnds \/ \E started \in SUBSET Slots : Relaunch(started))

DuckNext ==
  \/ (Main \/ World \/ Audio) /\ UNCHANGED planVars
  \/ Ends
  \/ Duck!Window /\ UNCHANGED feedVars
  \/ \E accepted \in BOOLEAN : DuckPass(accepted)

DuckSpec == DuckInit /\ [][DuckNext]_vars

\* The pacer ticks and pulls, running devices call back, a verb reaches the
\* end of SaveEnv, time passes, and Zoom does not refuse forever.
DuckFairSpec ==
  /\ DuckSpec
  /\ WF_vars((\E hot \in BOOLEAN : Tick(hot)) /\ UNCHANGED planVars)
  /\ WF_vars((\E s \in Slots : PullFrame(s)) /\ UNCHANGED planVars)
  /\ \A s \in Slots : WF_vars(DeviceCallback(s) /\ UNCHANGED planVars)
  /\ WF_vars(SaveEnv /\ UNCHANGED planVars)
  /\ WF_vars(Duck!Window /\ UNCHANGED feedVars)
  /\ SF_vars(DuckPass(TRUE))

----------------------------------------------------------------------------
\* The planner believes only what Zoom accepted: where it thinks a channel's
\* volume known, that is the volume (Confirm and Fail after SetChannelVolume).
BeliefIsReal == \A s \in known : applied[s] = volume[s]

\* A planner with nothing left to do is right: on every ready channel the
\* meeting is ducked in Zoom if the channel carries audio, at unity if not.
IdleMeansRight == Duck!Due = {} => \A s \in ready : volume[s] = Duck!Want(s)

\* And it gets there: as long as the ready channels and what they carry stay
\* the same, no step puts a channel on the planner's list, not even a refused
\* call or the end of a window, and an accepted call takes one off it.
WorkOnlyShrinks ==
  [][ready' = ready /\ Activity' = Activity =>
       /\ Duck!Due' \subseteq Duck!Due
       /\ DuckPass(TRUE) => Duck!Due' # Duck!Due]_vars

\* A latched feed whose line falls silent leaves the meeting at unity for as
\* long as it stays silent and nobody talks (extern feeds design: both ducks
\* are signal-gated), though frames queued before still have to drain.
SilentFeedLeavesUnity ==
  \A s \in Slots :
    <>[](latch[s] /\ ~loud[s] /\ voiceHang = 0 /\ s \in ready)
      => <>[](volume[s] = "unity")

\* duck_plan.h: "duck only while that channel is ACTIVE". With nobody talking
\* and no feed configured, a ready channel is brought back to unity. TLC
\* refutes it: a feed removed while active leaves its activity bit.
DuckOnlyWhileActive ==
  \A s \in Slots :
    <>[](~chain[s] /\ s \notin keys /\ s \in ready) => <>[](volume[s] = "unity")
=============================================================================
