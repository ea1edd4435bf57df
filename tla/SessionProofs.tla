--------------------------- MODULE SessionProofs ---------------------------
(***************************************************************************)
(* The session cycle leaves nothing behind, rides room moves out, tells    *)
(* why a join failed and keeps each desk's newest cue; the rooms' plans    *)
(* are true. For any desks, outbox, bring-up rounds, names and people.     *)
(***************************************************************************)
EXTENDS Session, Rooms, FiniteSetTheorems, SequenceTheorems, TLAPS

\* Where main can be with the SDK down, and with the engine stopped: what
\* makes CleanSdk inductive. Before Auth succeeds there is no SDK; before the
\* loop there is no engine.
BeforeSdk == {"card", "poll", "credentials", "auth", "exited"}
BeforeEngine == BeforeSdk \cup {"join", "bringup"}

ResourceInv ==
  /\ phase \in BeforeSdk => ~sdk
  /\ phase \in BeforeEngine => ~engine

\* A turn of the join wait fails, and cleans up, or goes on with no engine.
LEMMA JoinKeepsResources ==
  ASSUME ResourceInv, NEW timedOut \in BOOLEAN, JoinWaits(timedOut)
  PROVE  ResourceInv'
BY DEF ResourceInv, BeforeSdk, BeforeEngine, Goto, JoinWaits, JoinFails, SessionOver, Cleanup,
       SdkAfterCleanup, SessionSame, ClientSame, SubmitPasscode, zoomVars

\* Every step of main keeps to the resources its phase may hold.
LEMMA MainKeepsResources == ASSUME ResourceInv, Main PROVE ResourceInv'
<1> USE DEF ResourceInv, BeforeSdk, BeforeEngine, Goto
<1>1. CASE CardLooks
  BY <1>1 DEF CardLooks, SessionSame, ClientSame, zoomVars
<1>2. CASE CardPolls
  BY <1>2 DEF CardPolls, SessionSame, ClientSame, zoomVars
<1>3. CASE Credentials
  BY <1>3 DEF Credentials, SessionSame, ClientSame, zoomVars
<1>4. ASSUME NEW init \in BOOLEAN, NEW starts \in JoinCalls, NEW signsOn \in SigningOn,
             Auth(init, signsOn, starts)
      PROVE  ResourceInv'
  BY <1>4 DEF Auth, JoinFails, SessionOver, Cleanup, SdkAfterCleanup, SdkAfterSigningOn,
              ClientSame
<1>5. ASSUME NEW timedOut \in BOOLEAN, JoinWaits(timedOut)
      PROVE  ResourceInv'
  BY <1>5, JoinKeepsResources
<1>6. CASE Unsupported
  BY <1>6 DEF Unsupported, Abandon, SessionOver, Cleanup, SdkAfterCleanup
<1>7. ASSUME NEW granted \in BOOLEAN, NEW ran \in BOOLEAN,
             BringUpRound(granted, ran)
      PROVE  ResourceInv'
  BY <1>7 DEF BringUpRound, Abandon, SessionOver, Cleanup, SdkAfterCleanup, zoomVars
<1>8. ASSUME NEW ok \in BOOLEAN, BringUpGivesUp(ok) \/ ChatTick(ok)
      PROVE  ResourceInv'
  BY <1>8 DEF BringUpGivesUp, ChatTick, zoomVars
<1>9. CASE LoopHead
  BY <1>9 DEF LoopHead, zoomVars
<1>10. ASSUME NEW accepted \in RoomMoves, NEW restarts \in BOOLEAN,
              Applies(accepted, restarts)
       PROVE  ResourceInv'
  BY <1>10 DEF Applies, Leaves, MovesRoom, zoomVars
<1>11. CASE Teardown
  BY <1>11 DEF Teardown, Abandon, SessionOver, Cleanup, SdkAfterCleanup
<1> QED
  BY <1>1, <1>2, <1>3, <1>4, <1>5, <1>6, <1>7, <1>8, <1>9, <1>10, <1>11 DEF Main

\* So does every other step, which leaves main and its resources alone.
LEMMA NextKeepsResources == ASSUME ResourceInv, [Next]_vars PROVE ResourceInv'
<1> USE DEF ResourceInv
<1>1. CASE Main
  BY <1>1, MainKeepsResources
<1>2. CASE Request
  BY <1>2 DEF Request, SessionSame, ClientSame, zoomVars
<1>3. ASSUME NEW members \in SUBSET Desks, NEW on \in {"on", "off"}, Cue(members, on)
      PROVE  ResourceInv'
  BY <1>3 DEF Cue, zoomVars
<1>4. CASE ConsoleQuits
  BY <1>4 DEF ConsoleQuits, zoomVars
<1>5. ASSUME NEW s \in Statuses, NEW code \in ReasonOf(phase), StatusChanges(s, code)
      PROVE  ResourceInv'
  BY <1>5 DEF StatusChanges
<1>6. ASSUME NEW kind \in {"password", "wrongPassword", "name"}, MeetingAsks(kind)
      PROVE  ResourceInv'
  BY <1>6 DEF MeetingAsks, OnPrompt, OnEndOtherMeeting, ClientSame
<1>7. CASE GraceExpires
  BY <1>7 DEF GraceExpires, zoomVars
<1>8. ASSUME NEW d \in Desks, DeskSignals(d)
      PROVE  ResourceInv'
  BY <1>8 DEF DeskSignals, OtherSame, zoomVars
<1>9. CASE TimePasses
  BY <1>9 DEF TimePasses, OtherSame, zoomVars
<1>10. CASE UNCHANGED vars
  BY <1>10 DEF vars, zoomVars
<1>11. CASE JoinWaits(TRUE)
  BY <1>11, JoinKeepsResources
<1>12. ASSUME NEW members \in SUBSET Desks, Notify(members) PROVE ResourceInv'
  BY <1>12 DEF Notify, zoomVars
<1> QED
  BY <1>1, <1>2, <1>3, <1>4, <1>5, <1>6, <1>7, <1>8, <1>9, <1>10, <1>11, <1>12 DEF Next, Zoom

\* Back on the card, or gone, the app holds no SDK and runs no engine, by
\* whichever of the bring-up's failures, the loop's exits or a quit it came.
THEOREM SessionIsClean == Spec => []CleanSdk
<1>1. Init => ResourceInv
  BY DEF Init, ZoomInit, ResourceInv, BeforeEngine
<1>2. ResourceInv /\ [Next]_vars => ResourceInv'
  BY NextKeepsResources
<1>3. ResourceInv => CleanSdk
  BY DEF ResourceInv, CleanSdk, Card, BeforeSdk, BeforeEngine
<1> QED
  BY <1>1, <1>2, <1>3, PTL DEF Spec

----------------------------------------------------------------------------
(* The grace of a room move. *)

\* A move under way that was not ordered hastily still has its grace: the flag
\* that clears it was not set before the station left the meeting for the
\* move, and by the time it is back the move is over.
MoveInv ==
  /\ grace \in {"none", "running", "over"}
  /\ move \in {"none", "ordered", "underWay"}
  /\ phase \in BeforeEngine => move = "none"
  /\ move = "ordered" => status = "inMeeting"
  /\ move = "underWay" => status # "inMeeting"
  /\ move # "none" /\ ~hasty => grace # "none" /\ (departed => move = "underWay")

\* What comes during a join does not disturb a room move.
LEMMA JoinKeepsMoves ==
  ASSUME MoveInv, NEW timedOut \in BOOLEAN, JoinWaits(timedOut)
  PROVE  MoveInv'
BY DEF MoveInv, moveVars, Goto, JoinWaits, JoinFails, SessionOver, Cleanup, NoMeeting,
       SessionSame, ClientSame, SubmitPasscode, zoomVars, BeforeEngine,
       BeforeSdk

\* No step of main loses the grace of a move under way.
LEMMA MainKeepsMoves == ASSUME MoveInv, Main PROVE MoveInv'
<1> USE DEF MoveInv, moveVars, BeforeEngine, BeforeSdk
<1>1. CASE CardLooks
  BY <1>1 DEF CardLooks, SessionSame, ClientSame, zoomVars, Goto
<1>2. CASE CardPolls
  BY <1>2 DEF CardPolls, SessionSame, ClientSame, zoomVars, Goto
<1>3. CASE Credentials
  BY <1>3 DEF Credentials, SessionSame, ClientSame, zoomVars, Goto
<1>4. ASSUME NEW init \in BOOLEAN, NEW starts \in JoinCalls, NEW signsOn \in SigningOn,
             Auth(init, signsOn, starts)
      PROVE  MoveInv'
  BY <1>4 DEF Auth, JoinFails, SessionOver, Cleanup, NoMeeting, ClientSame, Goto
<1>5. ASSUME NEW timedOut \in BOOLEAN, JoinWaits(timedOut)
      PROVE  MoveInv'
  BY <1>5, JoinKeepsMoves
<1>6. CASE Unsupported
  BY <1>6 DEF Unsupported, Abandon, SessionOver, Cleanup, NoMeeting, Goto
<1>7. ASSUME NEW granted \in BOOLEAN, NEW ran \in BOOLEAN,
             BringUpRound(granted, ran)
      PROVE  MoveInv'
  BY <1>7 DEF BringUpRound, Abandon, SessionOver, Cleanup, NoMeeting, zoomVars, Goto
<1>8. ASSUME NEW ok \in BOOLEAN, BringUpGivesUp(ok) \/ ChatTick(ok)
      PROVE  MoveInv'
  BY <1>8 DEF BringUpGivesUp, ChatTick, zoomVars, Goto
<1>9. CASE LoopHead
  BY <1>9 DEF LoopHead, Clears, zoomVars, Goto
<1>10. ASSUME NEW accepted \in RoomMoves, NEW restarts \in BOOLEAN,
              Applies(accepted, restarts)
       PROVE  MoveInv'
  BY <1>10 DEF Applies, Leaves, MovesRoom, zoomVars, Goto
<1>11. CASE Teardown
  BY <1>11 DEF Teardown, Abandon, SessionOver, Cleanup, NoMeeting, Goto
<1> QED
  BY <1>1, <1>2, <1>3, <1>4, <1>5, <1>6, <1>7, <1>8, <1>9, <1>10, <1>11 DEF Main

\* No step at all does.
LEMMA NextKeepsMoves == ASSUME MoveInv, [Next]_vars PROVE MoveInv'
<1> USE DEF MoveInv, moveVars, BeforeEngine, BeforeSdk
<1>1. CASE Main
  BY <1>1, MainKeepsMoves
<1>2. CASE Request
  BY <1>2 DEF Request, SessionSame, ClientSame, zoomVars
<1>3. ASSUME NEW members \in SUBSET Desks, NEW on \in {"on", "off"}, Cue(members, on)
      PROVE  MoveInv'
  BY <1>3 DEF Cue, zoomVars
<1>4. CASE ConsoleQuits
  BY <1>4 DEF ConsoleQuits, zoomVars
<1>5. ASSUME NEW s \in Statuses, NEW code \in ReasonOf(phase), StatusChanges(s, code)
      PROVE  MoveInv'
  BY <1>5 DEF StatusChanges, OnMeetingStatusChanged
<1>6. ASSUME NEW kind \in {"password", "wrongPassword", "name"}, MeetingAsks(kind)
      PROVE  MoveInv'
  BY <1>6 DEF MeetingAsks, OnPrompt, OnEndOtherMeeting, ClientSame
<1>7. CASE GraceExpires
  BY <1>7 DEF GraceExpires, zoomVars
<1>8. ASSUME NEW d \in Desks, DeskSignals(d)
      PROVE  MoveInv'
  BY <1>8 DEF DeskSignals, OtherSame, zoomVars
<1>9. CASE TimePasses
  BY <1>9 DEF TimePasses, OtherSame, zoomVars
<1>10. CASE UNCHANGED vars
  BY <1>10 DEF vars, zoomVars
<1>11. CASE JoinWaits(TRUE)
  BY <1>11, JoinKeepsMoves
<1>12. ASSUME NEW members \in SUBSET Desks, Notify(members) PROVE MoveInv'
  BY <1>12 DEF Notify, zoomVars
<1> QED
  BY <1>1, <1>2, <1>3, <1>4, <1>5, <1>6, <1>7, <1>8, <1>9, <1>10, <1>11, <1>12 DEF Next, Zoom

\* Only the head of the loop, or a leave, ends the loop.
RidesMovesStep ==
  phase = "loop" /\ phase' = "teardown" /\ ~quit
    => \/ status = "ended"
       \/ grace = "over"
       \/ move = "none"
       \/ hasty

\* From such a state every step rides the move out.
LEMMA EveryStepRides == ASSUME MoveInv, [Next]_vars PROVE RidesMovesStep
<1> SUFFICES ASSUME phase = "loop", phase' = "teardown", ~quit
             PROVE  grace = "over" \/ move = "none" \/ hasty
  BY DEF RidesMovesStep
<1>1. LoopHead
  BY DEF Next, Main, vars, Request, Cue, Notify, ConsoleQuits, Zoom, StatusChanges, MeetingAsks,
         GraceExpires, DeskSignals, OtherSame, TimePasses, CardLooks, CardPolls, Credentials,
         JoinWaits, Unsupported, BringUpRound, BringUpGivesUp, ChatTick, Applies, Teardown
<1>2. ~Rides
  BY <1>1 DEF LoopHead, Goto
<1> QED
  BY <1>2 DEF MoveInv, Rides

\* A deliberate room move never ends the session while its grace lasts,
\* however many statuses the transition runs through.
THEOREM MovesAreRidden == Spec => RidesMoves
<1>1. Init => MoveInv
  BY DEF Init, ZoomInit, NoMeeting, MoveInv
<1>2. MoveInv /\ [Next]_vars => MoveInv'
  BY NextKeepsMoves
<1>3. MoveInv /\ [Next]_vars => [RidesMovesStep]_vars
  BY EveryStepRides
<1> QED
  BY <1>1, <1>2, <1>3, PTL DEF Spec, RidesMoves, RidesMovesStep
----------------------------------------------------------------------------
(* What a failed join tells. *)

\* The code the client keeps is the first reason Zoom gave, and a join with a
\* reason has failed or ended.
ReasonInv ==
  /\ failCode = why
  /\ why # NoCode => status \in {"failed", "ended"}

\* Main never writes the code but to clear it with the rest of the client.
LEMMA MainKeepsReason ==
  ASSUME ReasonInv,
         UNCHANGED <<failCode, why, status>> \/ NoMeeting(status', failCode', ask', why')
  PROVE  ReasonInv'
BY DEF ReasonInv, NoMeeting

\* Main leaves the status and reasons alone, or forgets them with
\* the meeting.
LEMMA MainLeavesReason ==
  ASSUME Main \/ JoinWaits(TRUE)
  PROVE  UNCHANGED <<failCode, why, status>> \/ NoMeeting(status', failCode', ask', why')
<1> USE DEF zoomVars
<1>1. CASE CardLooks \/ CardPolls \/ Credentials
  BY <1>1 DEF CardLooks, CardPolls, Credentials, SessionSame
<1>2. ASSUME NEW init \in BOOLEAN, NEW starts \in JoinCalls, NEW signsOn \in SigningOn,
             Auth(init, signsOn, starts)
      PROVE  UNCHANGED <<failCode, why, status>> \/ NoMeeting(status', failCode', ask', why')
  BY <1>2 DEF Auth, JoinFails, SessionOver, Cleanup
<1>3. ASSUME NEW timedOut \in BOOLEAN, JoinWaits(timedOut)
      PROVE  UNCHANGED <<failCode, why, status>> \/ NoMeeting(status', failCode', ask', why')
  BY <1>3 DEF JoinWaits, JoinFails, SessionOver, Cleanup, SessionSame, SubmitPasscode
<1>4. ASSUME NEW granted \in BOOLEAN, NEW ran \in BOOLEAN, BringUpRound(granted, ran)
      PROVE  UNCHANGED <<failCode, why, status>> \/ NoMeeting(status', failCode', ask', why')
  BY <1>4 DEF BringUpRound, Abandon, SessionOver, Cleanup
<1>5. ASSUME NEW ok \in BOOLEAN, BringUpGivesUp(ok) \/ ChatTick(ok)
      PROVE  UNCHANGED <<failCode, why, status>> \/ NoMeeting(status', failCode', ask', why')
  BY <1>5 DEF BringUpGivesUp, ChatTick
<1>6. ASSUME NEW accepted \in RoomMoves, NEW restarts \in BOOLEAN, Applies(accepted, restarts)
      PROVE  UNCHANGED <<failCode, why, status>> \/ NoMeeting(status', failCode', ask', why')
  BY <1>6 DEF Applies
<1>7. CASE LoopHead \/ Unsupported \/ Teardown
  BY <1>7 DEF LoopHead, Unsupported, Teardown, Abandon, SessionOver, Cleanup
<1> QED
  BY <1>1, <1>2, <1>3, <1>4, <1>5, <1>6, <1>7 DEF Main

\* Of Zoom's steps only the status and the other meeting touch the code: a
\* reason comes once, with the first status that can carry it.
LEMMA NextKeepsReason == ASSUME ReasonInv, [Next]_vars PROVE ReasonInv'
<1>1. CASE Main \/ JoinWaits(TRUE)
  BY <1>1, MainLeavesReason, MainKeepsReason
<1>2. ASSUME NEW s \in Statuses, NEW code \in ReasonOf(phase), StatusChanges(s, code)
      PROVE  ReasonInv'
  BY <1>2 DEF StatusChanges, MayBecome, OnMeetingStatusChanged, TakesCode, ReasonInv
<1>3. ASSUME NEW kind \in {"password", "wrongPassword", "name"}, MeetingAsks(kind)
      PROVE  ReasonInv'
  BY <1>3 DEF MeetingAsks, OnPrompt, OnEndOtherMeeting, ReasonInv
<1>4. ASSUME UNCHANGED zoomVars PROVE ReasonInv'
  BY <1>4 DEF zoomVars, ReasonInv
<1>5. CASE Request \/ ConsoleQuits \/ GraceExpires \/ TimePasses \/ UNCHANGED vars
  BY <1>4, <1>5 DEF Request, SessionSame, ConsoleQuits, GraceExpires, TimePasses, OtherSame,
                    vars
<1>6. ASSUME NEW members \in SUBSET Desks, NEW on \in {"on", "off"}, Cue(members, on)
      PROVE  ReasonInv'
  BY <1>4, <1>6 DEF Cue
<1>7. ASSUME NEW d \in Desks, DeskSignals(d) PROVE ReasonInv'
  BY <1>4, <1>7 DEF DeskSignals, OtherSame
<1>8. ASSUME NEW members \in SUBSET Desks, Notify(members) PROVE ReasonInv'
  BY <1>4, <1>8 DEF Notify
<1> QED
  BY <1>1, <1>2, <1>3, <1>5, <1>6, <1>7, <1>8 DEF Next, Zoom

\* Only a turn of the join wait leaves the join for the card.
JoinTellsWhyStep ==
  phase = "join" /\ phase' = "card" /\ why # NoCode => said' \in {why, "cancelled"}

\* A join given up tells the reason the client keeps.
LEMMA EveryStepTells == ASSUME ReasonInv, [Next]_vars PROVE JoinTellsWhyStep
<1> SUFFICES ASSUME phase = "join", phase' = "card", why # NoCode
             PROVE  said' \in {why, "cancelled"}
  BY DEF JoinTellsWhyStep
<1>1. PICK timedOut \in BOOLEAN : JoinWaits(timedOut)
  BY DEF Next, Main, vars, Request, Cue, Notify, ConsoleQuits, Zoom, StatusChanges, MeetingAsks,
         GraceExpires, DeskSignals, OtherSame, TimePasses, CardLooks, CardPolls, Credentials,
         Unsupported, BringUpRound, BringUpGivesUp, ChatTick, LoopHead, Applies, Teardown
<1> QED
  BY <1>1 DEF JoinWaits, JoinFails, JoinError, ReasonInv, Goto

\* The panel is never told another reason than the one Zoom gave first,
\* whatever Zoom's later statuses carry.
THEOREM RefusedJoinsTellWhy == Spec => JoinTellsWhy
<1>1. Init => ReasonInv
  BY DEF Init, ZoomInit, NoMeeting, ReasonInv
<1>2. ReasonInv /\ [Next]_vars => ReasonInv'
  BY NextKeepsReason
<1>3. ReasonInv /\ [Next]_vars => [JoinTellsWhyStep]_vars
  BY EveryStepTells
<1> QED
  BY <1>1, <1>2, <1>3, PTL DEF Spec, JoinTellsWhy, JoinTellsWhyStep

----------------------------------------------------------------------------
(* The cues that wait. *)

\* A set of desks is walked from end to end.
LEMMA Walked ==
  ASSUME NEW ds \in SUBSET Desks
  PROVE  /\ Cardinality(ds) \in Nat
         /\ SetToSeq(ds) \in [1 .. Cardinality(ds) -> ds]
         /\ \A d \in ds : \E i \in 1 .. Cardinality(ds) : SetToSeq(ds)[i] = d
<1>1. IsFiniteSet(Desks)
  BY SignalsAssumption, FS_Interval DEF Desks
<1>2. IsFiniteSet(ds)
  BY <1>1, FS_Subset
<1>3. Cardinality(ds) \in Nat /\ ExistsBijection(1 .. Cardinality(ds), ds)
  BY <1>2, FS_CardinalityType
<1> DEFINE n == Cardinality(ds)
<1>4. \E f \in [1 .. n -> ds] : IsInjective(f)
  BY <1>3 DEF ExistsBijection, Bijection, Injection
<1>5. SetToSeq(ds) \in [1 .. n -> ds] /\ IsInjective(SetToSeq(ds))
  BY <1>4 DEF SetToSeq
<1>6. SetToSeq(ds) \in Injection(1 .. n, ds)
  BY <1>5 DEF Injection
<1>7. IsFiniteSet(1 .. n) /\ Cardinality(1 .. n) = n
  <2>1. 1 <= n => n - 1 + 1 = n
    BY <1>3
  <2> QED
    BY <1>3, FS_Interval
<1>8. SetToSeq(ds) \in Surjection(1 .. n, ds)
  BY <1>2, <1>6, <1>7, FS_Injection
<1> QED
  BY <1>3, <1>5, <1>8 DEF Surjection

\* What Push leaves of a queue of messages: its newest Kept, each where it
\* was but for the ones dropped before it.
LEMMA Dropped ==
  ASSUME NEW all \in Seq(Message)
  PROVE  /\ DropOldest(all) \in Seq(Message)
         /\ Over(all) \in 0 .. Len(all)
         /\ Len(DropOldest(all)) = Len(all) - Over(all)
         /\ Len(DropOldest(all)) <= Kept
         /\ \A i \in 1 .. Len(DropOldest(all)) : DropOldest(all)[i] = all[Over(all) + i]
<1>1. Len(all) \in Nat /\ Kept \in Nat /\ Kept > 0
  BY SignalsAssumption
<1>2. Over(all) \in 0 .. Len(all) /\ Len(all) - Over(all) <= Kept
  BY <1>1 DEF Over
<1>3. Over(all) + 1 \in 1 .. Len(all) + 1 /\ Len(all) \in Over(all) + 1 - 1 .. Len(all)
  BY <1>1, <1>2
<1>4. /\ Len(DropOldest(all)) = Len(all) - Over(all)
      /\ \A i \in 1 .. Len(all) - Over(all) : DropOldest(all)[i] = all[Over(all) + i]
      /\ DropOldest(all) \in Seq(Message)
  <2>1. DropOldest(all) = [i \in 1 .. Len(all) - Over(all) |-> all[Over(all) + i]]
    BY <1>1, <1>2, SMTT(60) DEF DropOldest
  <2>2. \A i \in 1 .. Len(all) - Over(all) : Over(all) + i \in 1 .. Len(all)
    BY <1>1, <1>2
  <2>3. \A i \in 1 .. Len(all) - Over(all) : all[Over(all) + i] \in Message
    BY <2>2, ElementOfSeq
  <2>4. Len(all) - Over(all) \in Nat
    BY <1>1, <1>2
  <2> HIDE DEF Over
  <2> QED
    BY <2>1, <2>3, <2>4
<1> QED
  BY <1>2, <1>4

\* NewestKept of any queue of messages q and any record s of the last cues.
Newest(q, s) ==
  \A i \in 1 .. Len(q) :
    \/ ~IsCue(q[i])
    \/ q[i].what = s[q[i].to]
    \/ \E j \in i + 1 .. Len(q) : IsCue(q[j]) /\ q[j].to = q[i].to

Kinds == {"on", "off", "notice", "fallback"}

\* One message to each of a set of desks: as many as desks, and all alike.
LEMMA Each ==
  ASSUME NEW ds \in SUBSET Desks, NEW what \in Kinds
  PROVE  /\ ToEach(ds, what) \in Seq(Message)
         /\ Len(ToEach(ds, what)) = Cardinality(ds)
         /\ \A i \in 1 .. Cardinality(ds) : /\ ToEach(ds, what)[i].what = what
                                            /\ ToEach(ds, what)[i].to \in ds
         /\ \A d \in ds : \E i \in 1 .. Cardinality(ds) : ToEach(ds, what)[i].to = d
<1> DEFINE n == Cardinality(ds)
           turns == SetToSeq(ds)
<1>1. n \in Nat /\ turns \in [1 .. n -> ds] /\ \A d \in ds : \E i \in 1 .. n : turns[i] = d
  BY Walked
<1>2. \A i \in 1 .. n : Msg(turns[i], what) \in Message
  BY <1>1 DEF Msg, Message, Kinds
<1>3. ToEach(ds, what) = [i \in 1 .. n |-> Msg(turns[i], what)]
  BY DEF ToEach
<1> HIDE DEF n, turns
<1>4. ToEach(ds, what) \in Seq(Message) /\ Len(ToEach(ds, what)) = n
  BY <1>1, <1>2, <1>3
<1>5. \A i \in 1 .. n : ToEach(ds, what)[i].what = what /\ ToEach(ds, what)[i].to = turns[i]
  BY <1>3 DEF Msg
<1> QED
  BY <1>1, <1>4, <1>5 DEF n

\* Two queues of messages, one behind the other.
LEMMA Joined ==
  ASSUME NEW s \in Seq(Message), NEW t \in Seq(Message)
  PROVE  /\ s \o t \in Seq(Message) /\ Len(s \o t) = Len(s) + Len(t)
         /\ \A i \in 1 .. Len(s) + Len(t) :
              (s \o t)[i] = IF i <= Len(s) THEN s[i] ELSE t[i - Len(s)]
BY ConcatProperties

\* Queueing one more message for each desk of a set keeps the newest cues, if
\* the record of the last ones follows it.
LEMMA QueuedInTurn ==
  ASSUME outbox \in Seq(Message), Newest(outbox, sent),
         NEW ds \in SUBSET Desks, NEW what \in Kinds, NEW s,
         \A d \in Desks : s[d] = IF d \in ds /\ what \in {"on", "off"} THEN what ELSE sent[d]
  PROVE  /\ PushEach(ds, what) \in Seq(Message) /\ Len(PushEach(ds, what)) <= Kept
         /\ Newest(PushEach(ds, what), s)
<1> DEFINE new == ToEach(ds, what)
           all == outbox \o new
           q == PushEach(ds, what)
           past == Len(outbox)
           n == Cardinality(ds)
           over == Over(all)
<1>1. n \in Nat
  BY Walked
<1>2. /\ new \in Seq(Message) /\ Len(new) = n
      /\ \A i \in 1 .. n : new[i].what = what /\ new[i].to \in ds
      /\ \A d \in ds : \E i \in 1 .. n : new[i].to = d
  BY Each, SMTT(60)
<1>3. past \in Nat
  OBVIOUS
<1> HIDE DEF new, n
<1>4. all \in Seq(Message) /\ Len(all) = past + n
  <2>1. all \in Seq(Message) /\ Len(all) = Len(outbox) + Len(new)
    BY <1>2, Joined
  <2> QED
    BY <1>2, <2>1
<1>5. /\ \A i \in 1 .. past : all[i] = outbox[i]
      /\ \A i \in 1 .. n : all[past + i] = new[i]
  <2>1. \A i \in 1 .. Len(outbox) + Len(new) :
          all[i] = IF i <= Len(outbox) THEN outbox[i] ELSE new[i - Len(outbox)]
    BY <1>2, Joined
  <2>2. ASSUME NEW i \in 1 .. past PROVE all[i] = outbox[i]
    BY <1>1, <1>2, <1>3, <2>1
  <2>3. ASSUME NEW i \in 1 .. n PROVE all[past + i] = new[i]
    <3>1. past + i \in 1 .. past + n /\ ~(past + i <= past) /\ (past + i) - past = i
      BY <1>1, <1>3
    <3> QED
      BY <1>2, <2>1, <3>1
  <2> QED
    BY <2>2, <2>3
<1>6. q = DropOldest(all)
  BY DEF PushEach, Push, new
<1> HIDE DEF all, past, q
<1>7. /\ q \in Seq(Message) /\ Len(q) <= Kept
      /\ over \in 0 .. past + n /\ Len(q) = (past + n) - over
      /\ \A i \in 1 .. Len(q) : q[i] = all[over + i]
  <2>1. /\ DropOldest(all) \in Seq(Message)
        /\ Over(all) \in 0 .. Len(all)
        /\ Len(DropOldest(all)) = Len(all) - Over(all)
        /\ Len(DropOldest(all)) <= Kept
        /\ \A i \in 1 .. Len(DropOldest(all)) : DropOldest(all)[i] = all[Over(all) + i]
    BY <1>4, Dropped, Zenon
  <2> HIDE DEF over
  <2>2. over = Over(all)
    BY DEF over
  <2> QED
    BY <1>1, <1>3, <1>4, <1>6, <2>1, <2>2
<1> HIDE DEF over
<1>8. Newest(all, s)
  <2> SUFFICES ASSUME NEW i \in 1 .. past + n, IsCue(all[i])
               PROVE  \/ all[i].what = s[all[i].to]
                      \/ \E j \in i + 1 .. past + n : IsCue(all[j]) /\ all[j].to = all[i].to
    BY <1>4 DEF Newest
  <2>1. CASE i \notin 1 .. past
    <3>1. i - past \in 1 .. n /\ past + (i - past) = i
      BY <1>1, <1>3, <2>1
    <3>2. all[i].what = what /\ all[i].to \in ds
      BY <1>2, <1>5, <3>1
    <3> QED
      BY <3>2 DEF IsCue
  <2>2. CASE i \in 1 .. past
    <3>1. all[i] = outbox[i] /\ outbox[i].to \in Desks
      <4>1. outbox[i] \in Message
        BY <2>2, ElementOfSeq DEF past
      <4> QED
        BY <1>5, <2>2, <4>1 DEF Message
    <3>2. CASE outbox[i].to \in ds /\ what \in {"on", "off"}
      <4>1. PICK k \in 1 .. n : new[k].to = outbox[i].to
        BY <1>2, <3>2
      <4>2. past + k \in i + 1 .. past + n
        BY <1>1, <1>3, <2>2
      <4>3. all[past + k] = new[k] /\ new[k].what = what
        BY <1>2, <1>5
      <4> QED
        BY <3>1, <3>2, <4>1, <4>2, <4>3 DEF IsCue
    <3>3. CASE ~(outbox[i].to \in ds /\ what \in {"on", "off"})
      <4>1. s[outbox[i].to] = sent[outbox[i].to]
        BY <3>1, <3>3
      <4>2. CASE outbox[i].what = sent[outbox[i].to]
        BY <3>1, <4>1, <4>2
      <4>3. ASSUME NEW j \in i + 1 .. past, IsCue(outbox[j]), outbox[j].to = outbox[i].to
            PROVE  \E k \in i + 1 .. past + n : IsCue(all[k]) /\ all[k].to = all[i].to
        <5>1. j \in i + 1 .. past + n /\ j \in 1 .. past
          BY <1>1, <1>3, <2>2
        <5> QED
          BY <1>5, <3>1, <4>3, <5>1
      <4> QED
        BY <2>2, <3>1, <4>2, <4>3 DEF Newest, past
    <3> QED
      BY <3>2, <3>3
  <2> QED
    BY <2>1, <2>2
<1>9. Newest(q, s)
  <2> SUFFICES ASSUME NEW i \in 1 .. Len(q), IsCue(q[i])
               PROVE  \/ q[i].what = s[q[i].to]
                      \/ \E j \in i + 1 .. Len(q) : IsCue(q[j]) /\ q[j].to = q[i].to
    BY DEF Newest
  <2>1. over + i \in 1 .. past + n /\ q[i] = all[over + i]
    BY <1>1, <1>3, <1>7
  <2>2. ASSUME NEW j \in over + i + 1 .. past + n, IsCue(all[j]), all[j].to = all[over + i].to
        PROVE  \E k \in i + 1 .. Len(q) : IsCue(q[k]) /\ q[k].to = q[i].to
    <3>1. j - over \in i + 1 .. Len(q) /\ j - over \in 1 .. Len(q) /\ over + (j - over) = j
      BY <1>1, <1>3, <1>7, SMTT(60)
    <3>2. q[j - over] = all[j]
      BY <1>7, <3>1
    <3> QED
      BY <2>1, <2>2, <3>1, <3>2
  <2> QED
    BY <1>4, <1>8, <2>1, <2>2, ZenonT(60) DEF Newest
<1> QED
  BY <1>7, <1>9 DEF q

ChatInv == ChatTypeOK /\ NewestKept

\* What one operation of the side channel does, whoever calls it.
ChatStep ==
  \/ NewChat
  \/ \E ds \in SUBSET Desks, on \in {"on", "off"} : SendCue(ds, on)
  \/ \E ds \in SUBSET Desks : SendNotices(ds)
  \/ \E d \in Desks : Inbound(d)
  \/ \E ok \in BOOLEAN : Tick(ok) \/ FallbackAndTick(ok)
  \/ GapGoesBy
  \/ UNCHANGED chatVars

\* A Tick takes the oldest of a queue, which no newer cue relies on.
LEMMA Taken ==
  ASSUME ChatTypeOK, UNCHANGED <<peers, sent>>, NEW ok \in BOOLEAN,
         NEW q \in Seq(Message), Len(q) <= Kept, Newest(q, sent), TickFrom(q, ok)
  PROVE  ChatInv'
<1>1. CASE q # <<>> /\ open
  <2>1. outbox' = Tail(q) /\ open' = FALSE
    BY <1>1 DEF TickFrom
  <2>2. told' \subseteq Desks
    <3>1. q[1] \in Message
      BY <1>1
    <3> QED
      BY <1>1, <3>1 DEF TickFrom, Message, ChatTypeOK
  <2>3. Len(q) \in Nat /\ Len(q) # 0
    BY <1>1
  <2>4. /\ outbox' \in Seq(Message) /\ Len(outbox') = Len(q) - 1
        /\ \A i \in 1 .. Len(q) - 1 : outbox'[i] = q[i + 1]
    BY <1>1, <2>1
  <2>5. Newest(outbox', sent)
    <3> SUFFICES ASSUME NEW i \in 1 .. Len(q) - 1, IsCue(q[i + 1])
                 PROVE  \/ q[i + 1].what = sent[q[i + 1].to]
                        \/ \E j \in i + 1 .. Len(q) - 1 :
                             IsCue(outbox'[j]) /\ outbox'[j].to = q[i + 1].to
      BY <2>3, <2>4, SMTT(60) DEF Newest, IsCue
    <3>1. i + 1 \in 1 .. Len(q)
      BY <2>3
    <3>2. CASE q[i + 1].what = sent[q[i + 1].to]
      BY <3>2
    <3>3. ASSUME NEW k \in i + 1 + 1 .. Len(q), IsCue(q[k]), q[k].to = q[i + 1].to
          PROVE  \E j \in i + 1 .. Len(q) - 1 :
                   IsCue(outbox'[j]) /\ outbox'[j].to = q[i + 1].to
      <4>1. k - 1 \in i + 1 .. Len(q) - 1 /\ k - 1 \in 1 .. Len(q) - 1 /\ k - 1 + 1 = k
        BY <2>3
      <4>2. outbox'[k - 1] = q[k]
        BY <2>4, <4>1
      <4> QED
        BY <3>3, <4>1, <4>2
    <3> QED
      BY <3>1, <3>2, <3>3 DEF Newest
  <2>6. NewestKept'
    BY <2>5 DEF Newest, NewestKept
  <2>7. Kept \in Nat
    BY SignalsAssumption
  <2>8. ChatTypeOK'
    <3>1. Len(outbox') <= Kept
      BY <2>3, <2>4, <2>7
    <3>2. open' \in BOOLEAN /\ UNCHANGED <<peers, sent>>
      BY <2>1
    <3> QED
      BY <2>2, <2>4, <3>1, <3>2 DEF ChatTypeOK
  <2> QED
    BY <2>6, <2>8 DEF ChatInv
<1>2. CASE ~(q # <<>> /\ open)
  <2>1. outbox' = q /\ UNCHANGED <<open, told>>
    BY <1>2 DEF TickFrom
  <2>2. NewestKept'
    BY <2>1 DEF Newest, NewestKept
  <2> QED
    BY <2>1, <2>2 DEF ChatInv, ChatTypeOK
<1> QED
  BY <1>1, <1>2

\* Whatever is pushed, sent or dropped, the newest cue of a desk waits.
LEMMA ChatStepKeeps == ASSUME ChatInv, ChatStep PROVE ChatInv'
<1>1. /\ peers \subseteq Desks /\ outbox \in Seq(Message) /\ Len(outbox) <= Kept
      /\ open \in BOOLEAN /\ sent \in [Desks -> {"none", "on", "off"}] /\ told \subseteq Desks
      /\ NewestKept
  BY DEF ChatInv, ChatTypeOK
<1>2. Newest(outbox, sent)
  BY <1>1 DEF NewestKept, Newest
<1>3. CASE NewChat
  <2>1. /\ peers' = {} /\ outbox' = <<>> /\ open' = TRUE
        /\ sent' = [d \in Desks |-> "none"] /\ told' = {}
    BY <1>3 DEF NewChat, FreshChat
  <2>2. outbox' \in Seq(Message) /\ Len(outbox') = 0 /\ Kept >= 0
    BY <2>1, SignalsAssumption
  <2>3. NewestKept'
    BY <2>2 DEF NewestKept
  <2> QED
    BY <2>1, <2>2, <2>3 DEF ChatInv, ChatTypeOK
<1>4. ASSUME NEW ds \in SUBSET Desks, NEW on \in {"on", "off"}, SendCue(ds, on)
      PROVE  ChatInv'
  <2>1. /\ outbox' = PushEach(ds, on) /\ UNCHANGED <<peers, open, told>>
        /\ sent' = [d \in Desks |-> IF d \in ds THEN on ELSE sent[d]]
    BY <1>4 DEF SendCue
  <2>2. \A d \in Desks : sent'[d] = IF d \in ds /\ on \in {"on", "off"} THEN on ELSE sent[d]
    BY <2>1
  <2>3. on \in Kinds
    BY DEF Kinds
  <2>4. outbox' \in Seq(Message) /\ Len(outbox') <= Kept /\ Newest(outbox', sent')
    BY <1>1, <1>2, <2>1, <2>2, <2>3, QueuedInTurn, Zenon
  <2>5. sent' \in [Desks -> {"none", "on", "off"}]
    BY <1>1, <2>1
  <2> QED
    BY <1>1, <2>1, <2>4, <2>5 DEF ChatInv, ChatTypeOK, NewestKept, Newest
<1>5. ASSUME NEW ds \in SUBSET Desks, NEW what \in {"notice", "fallback"}
      PROVE  /\ PushEach(ds, what) \in Seq(Message) /\ Len(PushEach(ds, what)) <= Kept
             /\ Newest(PushEach(ds, what), sent)
  <2>1. \A d \in Desks :
          sent[d] = IF d \in ds /\ what \in {"on", "off"} THEN what ELSE sent[d]
    BY <1>5
  <2>2. what \in Kinds
    BY DEF Kinds
  <2> QED
    BY <1>1, <1>2, <2>1, <2>2, QueuedInTurn, Zenon
<1>6. ASSUME NEW ds \in SUBSET Desks, SendNotices(ds)
      PROVE  ChatInv'
  <2>1. outbox' = PushEach(ds, "notice") /\ UNCHANGED <<peers, open, sent, told>>
    BY <1>6 DEF SendNotices
  <2>2. outbox' \in Seq(Message) /\ Len(outbox') <= Kept /\ Newest(outbox', sent')
    BY <1>5, <2>1
  <2> QED
    BY <1>1, <2>1, <2>2 DEF ChatInv, ChatTypeOK, NewestKept, Newest
<1>7. ASSUME NEW d \in Desks, Inbound(d)
      PROVE  ChatInv'
  BY <1>1, <1>7 DEF Inbound, ChatInv, ChatTypeOK, NewestKept
<1>8. ASSUME NEW ok \in BOOLEAN, Tick(ok)
      PROVE  ChatInv'
  <2>1. TickFrom(outbox, ok) /\ UNCHANGED <<peers, sent>>
    BY <1>8 DEF Tick
  <2> QED
    BY <1>1, <1>2, <2>1, Taken DEF ChatInv
<1>9. ASSUME NEW ok \in BOOLEAN, FallbackAndTick(ok)
      PROVE  ChatInv'
  <2>1. TickFrom(PushEach(peers, "fallback"), ok) /\ UNCHANGED <<peers, sent>>
    BY <1>9 DEF FallbackAndTick
  <2>2. /\ PushEach(peers, "fallback") \in Seq(Message)
        /\ Len(PushEach(peers, "fallback")) <= Kept
        /\ Newest(PushEach(peers, "fallback"), sent)
    BY <1>1, <1>5
  <2> QED
    BY <2>1, <2>2, Taken DEF ChatInv
<1>10. CASE GapGoesBy
  BY <1>1, <1>10 DEF GapGoesBy, ChatInv, ChatTypeOK, NewestKept
<1>11. CASE UNCHANGED chatVars
  BY <1>1, <1>11 DEF chatVars, ChatInv, ChatTypeOK, NewestKept
<1> QED
  BY <1>3, <1>4, <1>6, <1>7, <1>8, <1>9, <1>10, <1>11 DEF ChatStep

\* Main touches the side channel by a Tick, by the fallback, or by ending the
\* session.
LEMMA MainIsChatStep == ASSUME Main \/ JoinWaits(TRUE) PROVE ChatStep
<1> USE DEF ChatStep
<1>1. CASE CardLooks \/ CardPolls \/ Credentials
  BY <1>1 DEF CardLooks, CardPolls, Credentials, SessionSame, ClientSame
<1>2. ASSUME NEW init \in BOOLEAN, NEW starts \in JoinCalls, NEW signsOn \in SigningOn,
             Auth(init, signsOn, starts)
      PROVE  ChatStep
  BY <1>2 DEF Auth, JoinFails, SessionOver, ClientSame
<1>3. ASSUME NEW timedOut \in BOOLEAN, JoinWaits(timedOut)
      PROVE  ChatStep
  BY <1>3 DEF JoinWaits, JoinFails, SessionOver, SessionSame, ClientSame
<1>4. ASSUME NEW granted \in BOOLEAN, NEW ran \in BOOLEAN, BringUpRound(granted, ran)
      PROVE  ChatStep
  BY <1>4 DEF BringUpRound, Abandon, SessionOver
<1>5. ASSUME NEW ok \in BOOLEAN, BringUpGivesUp(ok) \/ ChatTick(ok)
      PROVE  ChatStep
  BY <1>5 DEF BringUpGivesUp, ChatTick
<1>6. ASSUME NEW accepted \in RoomMoves, NEW restarts \in BOOLEAN, Applies(accepted, restarts)
      PROVE  ChatStep
  BY <1>6 DEF Applies
<1>7. CASE LoopHead \/ Unsupported \/ Teardown
  BY <1>7 DEF LoopHead, Unsupported, Teardown, Abandon, SessionOver
<1> QED
  BY <1>1, <1>2, <1>3, <1>4, <1>5, <1>6, <1>7 DEF Main

\* Whatever the session does is one of those steps for the chat, or none.
LEMMA NextIsChatStep == ASSUME [Next]_vars PROVE ChatStep
<1> USE DEF ChatStep
<1>1. CASE Main \/ JoinWaits(TRUE)
  BY <1>1, MainIsChatStep
<1>2. ASSUME NEW s \in Statuses, NEW code \in ReasonOf(phase), StatusChanges(s, code)
      PROVE  ChatStep
  BY <1>2 DEF StatusChanges
<1>3. ASSUME NEW kind \in {"password", "wrongPassword", "name"}, MeetingAsks(kind)
      PROVE  ChatStep
  BY <1>3 DEF MeetingAsks, ClientSame
<1>4. CASE Request \/ ConsoleQuits \/ GraceExpires \/ UNCHANGED vars
  BY <1>4 DEF Request, SessionSame, ClientSame, ConsoleQuits, GraceExpires, vars
<1>5. ASSUME NEW members \in SUBSET Desks, NEW on \in {"on", "off"}, Cue(members, on)
      PROVE  ChatStep
  BY <1>5 DEF Cue
<1>6. ASSUME NEW members \in SUBSET Desks, Notify(members) PROVE ChatStep
  BY <1>6 DEF Notify
<1>7. ASSUME NEW d \in Desks, DeskSignals(d) PROVE ChatStep
  BY <1>7 DEF DeskSignals
<1>8. CASE TimePasses
  BY <1>8 DEF TimePasses
<1> QED
  BY <1>1, <1>2, <1>3, <1>4, <1>5, <1>6, <1>7, <1>8 DEF Next, Zoom

\* The outbox is well-formed, and its newest cues are the last ones queued.
LEMMA ChatIsKept == Spec => []ChatInv
<1>1. Init => ChatInv
  <2> SUFFICES ASSUME Init PROVE ChatInv
    OBVIOUS
  <2>1. /\ peers = {} /\ outbox = <<>> /\ open = TRUE
        /\ sent = [d \in Desks |-> "none"] /\ told = {}
    BY DEF Init, ChatInit, FreshChat
  <2>2. outbox \in Seq(Message) /\ Len(outbox) = 0 /\ Kept >= 0
    BY <2>1, SignalsAssumption
  <2>3. NewestKept
    BY <2>2 DEF NewestKept
  <2> QED
    BY <2>1, <2>2, <2>3 DEF ChatInv, ChatTypeOK
<1>2. ChatInv /\ [Next]_vars => ChatInv'
  BY NextIsChatStep, ChatStepKeeps
<1> QED
  BY <1>1, <1>2, PTL DEF Spec

\* The last cue that waits for a desk is the last one queued for it, however
\* much the cues, notices and fallbacks of the others have pushed out.
THEOREM NewestCueWaits == Spec => []NewestKept
<1>1. ChatInv => NewestKept
  BY DEF ChatInv
<1> QED
  BY <1>1, ChatIsKept, PTL

----------------------------------------------------------------------------
(* The types of the session. *)

\* The requests, the flags, and the rest of what main keeps; the types of the
\* client are its own, and those of the chat are in ChatInv.
RequestTypes ==
  /\ quitReq \in BOOLEAN /\ leaveReq \in BOOLEAN /\ joinAsked \in BOOLEAN
  /\ roomAsked \in BOOLEAN /\ passAsked \in BOOLEAN /\ signedIn \in BOOLEAN
FlagTypes == quit \in BOOLEAN /\ engine \in BOOLEAN /\ departed \in BOOLEAN /\ hasty \in BOOLEAN
PlaceTypes ==
  /\ phase \in Phases
  /\ said \in Codes \cup {"none", "cancelled", "notStarted", "endedEarly", "timedOut"}
  /\ round \in 0 .. Rounds
  /\ grace \in {"none", "running", "over"} /\ move \in {"none", "ordered", "underWay"}
MainTypes == RequestTypes /\ FlagTypes /\ PlaceTypes /\ ZoomTypeOK

\* The requests stay well-typed where they are set, taken or left alone.
LEMMA RequestsTyped == ASSUME RequestTypes, [Next]_vars PROVE RequestTypes'
<1> USE DEF RequestTypes, requestVars
<1>1. CASE CardLooks \/ Unsupported \/ LoopHead \/ Teardown \/ GraceExpires \/ TimePasses
             \/ ConsoleQuits \/ UNCHANGED vars
  BY <1>1, ZenonT(60) DEF CardLooks, Unsupported, LoopHead, Teardown, GraceExpires, TimePasses,
                     OtherSame, ConsoleQuits, vars
<1>2. CASE CardPolls
  BY <1>2, Zenon DEF CardPolls
<1>3. CASE Credentials
  <2>1. signedIn' \in BOOLEAN
    BY <1>3 DEF Credentials
  <2> QED
    BY <1>3, <2>1, Zenon DEF Credentials
<1>4. ASSUME NEW error, JoinFails(error), UNCHANGED <<quitReq, joinAsked, roomAsked, signedIn>>
      PROVE  RequestTypes'
  BY <1>4, Zenon DEF JoinFails
<1>5. ASSUME NEW init \in BOOLEAN, NEW starts \in JoinCalls, NEW signsOn \in SigningOn,
             Auth(init, signsOn, starts)
      PROVE  RequestTypes'
  <2>1. \/ JoinFails("notStarted")
        \/ (passAsked' \in BOOLEAN \/ UNCHANGED passAsked) /\ UNCHANGED leaveReq
    BY <1>5, Zenon DEF Auth
  <2>2. UNCHANGED <<quitReq, joinAsked, roomAsked, signedIn>>
    BY <1>5, Zenon DEF Auth
  <2> QED
    BY <1>4, <2>1, <2>2, Zenon
<1>6. ASSUME NEW timedOut \in BOOLEAN, JoinWaits(timedOut)
      PROVE  RequestTypes'
  <2>1. \/ \E error : JoinFails(error)
        \/ passAsked' = FALSE /\ UNCHANGED leaveReq
    BY <1>6, Zenon DEF JoinWaits
  <2>2. UNCHANGED <<quitReq, joinAsked, roomAsked, signedIn>>
    BY <1>6, Zenon DEF JoinWaits
  <2> QED
    BY <1>4, <2>1, <2>2, Zenon
<1>7. ASSUME NEW granted \in BOOLEAN, NEW ran \in BOOLEAN, BringUpRound(granted, ran)
      PROVE  RequestTypes'
  BY <1>7, Zenon DEF BringUpRound
<1>8. ASSUME NEW ok \in BOOLEAN, BringUpGivesUp(ok) \/ ChatTick(ok)
      PROVE  RequestTypes'
  BY <1>8, Zenon DEF BringUpGivesUp, ChatTick
<1>9. ASSUME NEW accepted \in RoomMoves, NEW restarts \in BOOLEAN, Applies(accepted, restarts)
      PROVE  RequestTypes'
  BY <1>9, Zenon DEF Applies, Leaves
<1>10. CASE Request
  <2>1. ASSUME NEW a \in BOOLEAN, NEW b \in BOOLEAN, NEW c \in BOOLEAN, NEW d \in BOOLEAN,
               NEW e \in BOOLEAN, Asks(a, b, c, d, e)
        PROVE  /\ quitReq' \in BOOLEAN /\ leaveReq' \in BOOLEAN /\ joinAsked' \in BOOLEAN
               /\ roomAsked' \in BOOLEAN /\ passAsked' \in BOOLEAN
    BY <2>1 DEF Asks
  <2>2. signedIn' \in BOOLEAN
    BY <1>10, Zenon DEF Request
  <2> QED
    BY <1>10, <2>1, <2>2, Zenon DEF Request
<1>11. ASSUME NEW members \in SUBSET Desks, NEW on \in {"on", "off"},
              Cue(members, on) \/ Notify(members)
       PROVE  RequestTypes'
  BY <1>11, Zenon DEF Cue, Notify
<1>12. ASSUME NEW s \in Statuses, NEW code \in ReasonOf(phase), StatusChanges(s, code)
       PROVE  RequestTypes'
  BY <1>12, Zenon DEF StatusChanges
<1>13. ASSUME NEW kind \in {"password", "wrongPassword", "name"}, MeetingAsks(kind)
       PROVE  RequestTypes'
  BY <1>13, Zenon DEF MeetingAsks
<1>14. ASSUME NEW d \in Desks, DeskSignals(d) PROVE RequestTypes'
  BY <1>14, Zenon DEF DeskSignals, OtherSame
<1> QED
  BY <1>1, <1>2, <1>3, <1>5, <1>6, <1>7, <1>8, <1>9, <1>10, <1>11, <1>12, <1>13, <1>14
     DEF Next, Main, Zoom

\* So do the flags.
LEMMA FlagsTyped == ASSUME RequestTypes, FlagTypes, [Next]_vars PROVE FlagTypes'
<1> USE DEF FlagTypes, moveVars
<1>1. CASE CardLooks \/ CardPolls \/ Credentials \/ Request
  BY <1>1, Zenon DEF CardLooks, CardPolls, Credentials, Request, SessionSame, ClientSame
<1>2. CASE GraceExpires \/ TimePasses \/ ConsoleQuits \/ UNCHANGED vars
  BY <1>2, Zenon DEF GraceExpires, TimePasses, OtherSame, ConsoleQuits, vars
<1>3. CASE SessionOver
  BY <1>3, Zenon DEF SessionOver
<1>4. CASE Unsupported \/ Teardown
  BY <1>3, <1>4, Zenon DEF Unsupported, Teardown, Abandon
<1>5. CASE LoopHead
  <2>1. departed' \in BOOLEAN
    BY <1>5 DEF LoopHead
  <2> QED
    BY <1>5, <2>1, Zenon DEF LoopHead
<1>6. ASSUME NEW init \in BOOLEAN, NEW starts \in JoinCalls, NEW signsOn \in SigningOn,
             Auth(init, signsOn, starts)
      PROVE  FlagTypes'
  BY <1>3, <1>6, Zenon DEF Auth, JoinFails, ClientSame
<1>7. ASSUME NEW timedOut \in BOOLEAN, JoinWaits(timedOut)
      PROVE  FlagTypes'
  BY <1>3, <1>7, Zenon DEF JoinWaits, JoinFails, SessionSame, ClientSame
<1>8. ASSUME NEW granted \in BOOLEAN, NEW ran \in BOOLEAN, BringUpRound(granted, ran)
      PROVE  FlagTypes'
  BY <1>3, <1>8, Zenon DEF BringUpRound, Abandon
<1>9. ASSUME NEW ok \in BOOLEAN, BringUpGivesUp(ok) \/ ChatTick(ok)
      PROVE  FlagTypes'
  BY <1>9, Zenon DEF BringUpGivesUp, ChatTick
<1>10. ASSUME NEW accepted \in RoomMoves, NEW restarts \in BOOLEAN, Applies(accepted, restarts)
       PROVE  FlagTypes'
  <2>1. quit' \in BOOLEAN
    BY <1>10 DEF Applies, RequestTypes
  <2>2. engine' \in BOOLEAN
    BY <1>10, Zenon DEF Applies, Leaves
  <2>3. hasty' \in BOOLEAN /\ departed' \in BOOLEAN
    BY <1>10, Zenon DEF Applies, Leaves, MovesRoom
  <2> QED
    BY <2>1, <2>2, <2>3
<1>11. ASSUME NEW members \in SUBSET Desks, NEW on \in {"on", "off"},
              Cue(members, on) \/ Notify(members)
       PROVE  FlagTypes'
  BY <1>11, Zenon DEF Cue, Notify
<1>12. ASSUME NEW s \in Statuses, NEW code \in ReasonOf(phase), StatusChanges(s, code)
       PROVE  FlagTypes'
  BY <1>12, Zenon DEF StatusChanges
<1>13. ASSUME NEW kind \in {"password", "wrongPassword", "name"}, MeetingAsks(kind)
       PROVE  FlagTypes'
  BY <1>13, Zenon DEF MeetingAsks, ClientSame
<1>14. ASSUME NEW d \in Desks, DeskSignals(d) PROVE FlagTypes'
  BY <1>14, Zenon DEF DeskSignals, OtherSame
<1> QED
  BY <1>1, <1>2, <1>4, <1>5, <1>6, <1>7, <1>8, <1>9, <1>10, <1>11, <1>12, <1>13, <1>14
     DEF Next, Main, Zoom

\* The client's types: what a cleanup leaves, and what Zoom's calls bring.
LEMMA ClientTyped == ASSUME ZoomTypeOK, [Next]_vars PROVE ZoomTypeOK'
<1> USE DEF ZoomTypeOK, zoomVars
<1>1. CASE UNCHANGED zoomVars
  BY <1>1, Zenon
<1>2. CASE SessionOver
  BY <1>2 DEF SessionOver, Cleanup, SdkAfterCleanup, NoMeeting, Statuses
<1>3. CASE SubmitPasscode
  BY <1>3, Zenon DEF SubmitPasscode
<1>4. CASE CardLooks \/ CardPolls \/ Credentials \/ Request
  BY <1>1, <1>4, Zenon DEF CardLooks, CardPolls, Credentials, Request, SessionSame
<1>5. CASE GraceExpires \/ TimePasses \/ ConsoleQuits \/ LoopHead \/ UNCHANGED vars
  BY <1>1, <1>5, Zenon DEF GraceExpires, TimePasses, OtherSame, ConsoleQuits, LoopHead, vars
<1>6. CASE Unsupported \/ Teardown
  BY <1>2, <1>6, Zenon DEF Unsupported, Teardown, Abandon
<1>7. ASSUME NEW init \in BOOLEAN, NEW starts \in JoinCalls, NEW signsOn \in SigningOn,
             Auth(init, signsOn, starts)
      PROVE  ZoomTypeOK'
  <2>1. \/ SessionOver
        \/ sdk' = SdkAfterSigningOn(init, signsOn) /\ UNCHANGED <<status, failCode, ask, why>>
    BY <1>7, Zenon DEF Auth, JoinFails
  <2>2. SdkAfterSigningOn(init, signsOn) \in BOOLEAN
    BY DEF SdkAfterSigningOn, SdkAfterCleanup
  <2> QED
    BY <1>2, <2>1, <2>2, Zenon
<1>8. ASSUME NEW timedOut \in BOOLEAN, JoinWaits(timedOut)
      PROVE  ZoomTypeOK'
  BY <1>1, <1>2, <1>3, <1>8, Zenon DEF JoinWaits, JoinFails, SessionSame
<1>9. ASSUME NEW granted \in BOOLEAN, NEW ran \in BOOLEAN, BringUpRound(granted, ran)
      PROVE  ZoomTypeOK'
  BY <1>1, <1>2, <1>9, Zenon DEF BringUpRound, Abandon
<1>10. ASSUME NEW ok \in BOOLEAN, BringUpGivesUp(ok) \/ ChatTick(ok)
       PROVE  ZoomTypeOK'
  BY <1>1, <1>10, Zenon DEF BringUpGivesUp, ChatTick
<1>11. ASSUME NEW accepted \in RoomMoves, NEW restarts \in BOOLEAN, Applies(accepted, restarts)
       PROVE  ZoomTypeOK'
  BY <1>1, <1>11, Zenon DEF Applies
<1>12. ASSUME NEW members \in SUBSET Desks, NEW on \in {"on", "off"},
              Cue(members, on) \/ Notify(members)
       PROVE  ZoomTypeOK'
  BY <1>1, <1>12, Zenon DEF Cue, Notify
<1>13. ASSUME NEW s \in Statuses, NEW code \in ReasonOf(phase), StatusChanges(s, code)
       PROVE  ZoomTypeOK'
  <2>1. code \in Codes \cup {NoCode}
    BY <1>13 DEF ReasonOf
  <2>2. {failCode', why'} \subseteq Codes \cup {NoCode}
    BY <1>13, <2>1 DEF StatusChanges, OnMeetingStatusChanged
  <2>3. status' = s /\ UNCHANGED <<sdk, ask>>
    BY <1>13 DEF StatusChanges, OnMeetingStatusChanged
  <2> QED
    BY <2>2, <2>3, Zenon
<1>14. ASSUME NEW kind \in {"password", "wrongPassword", "name"}, MeetingAsks(kind)
       PROVE  ZoomTypeOK'
  <2>1. OnPrompt(kind) \/ OnEndOtherMeeting
    BY <1>14 DEF MeetingAsks
  <2>2. CASE OnPrompt(kind)
    <3>1. ask' \in {"none", "asked", "wrong"}
      BY <2>2 DEF OnPrompt
    <3> QED
      BY <2>2, <3>1, Zenon DEF OnPrompt
  <2>3. CASE OnEndOtherMeeting
    <3>1. {failCode', why'} \subseteq Codes \cup {NoCode} /\ status' \in Statuses
      BY <2>3 DEF OnEndOtherMeeting, Codes, Statuses
    <3> QED
      BY <2>3, <3>1, Zenon DEF OnEndOtherMeeting
  <2> QED
    BY <2>1, <2>2, <2>3
<1>15. ASSUME NEW d \in Desks, DeskSignals(d) PROVE ZoomTypeOK'
  BY <1>1, <1>15, Zenon DEF DeskSignals, OtherSame
<1> QED
  BY <1>4, <1>5, <1>6, <1>7, <1>8, <1>9, <1>10, <1>11, <1>12, <1>13, <1>14, <1>15
     DEF Next, Main, Zoom

\* And where main is, with what it tells and counts.
LEMMA PlacesTyped == ASSUME ZoomTypeOK, PlaceTypes, [Next]_vars PROVE PlaceTypes'
<1> USE DEF PlaceTypes, Phases, Card, Joining, InLoop, Goto, moveVars
<1>1. Rounds \in Nat
  BY SessionAssumption
<1>2. ASSUME SessionOver
      PROVE  round' \in 0 .. Rounds /\ grace' = "none" /\ move' = "none"
  BY <1>1, <1>2 DEF SessionOver
<1>3. CASE CardLooks \/ CardPolls \/ Credentials \/ Request
  BY <1>3 DEF CardLooks, CardPolls, Credentials, Request, SessionSame, ClientSame
<1>4. CASE GraceExpires \/ TimePasses \/ ConsoleQuits \/ LoopHead \/ UNCHANGED vars
  BY <1>4 DEF GraceExpires, TimePasses, OtherSame, ConsoleQuits, LoopHead, vars
<1>5. ASSUME NEW p \in {"card", "exited"}, Abandon(p), UNCHANGED said PROVE PlaceTypes'
  BY <1>2, <1>5 DEF Abandon
<1>6. CASE Unsupported \/ Teardown
  BY <1>5, <1>6 DEF Unsupported, Teardown
<1>7. ASSUME NEW error \in Codes \cup {"none", "cancelled", "notStarted", "endedEarly", "timedOut"},
             JoinFails(error)
      PROVE  PlaceTypes'
  BY <1>2, <1>7 DEF JoinFails
<1>8. ASSUME NEW init \in BOOLEAN, NEW starts \in JoinCalls, NEW signsOn \in SigningOn,
             Auth(init, signsOn, starts)
      PROVE  PlaceTypes'
  <2>1. CASE JoinFails("notStarted")
    BY <1>7, <2>1
  <2>2. CASE ~JoinFails("notStarted")
    BY <1>8, <2>2 DEF Auth, ClientSame
  <2> QED
    BY <2>1, <2>2
<1>9. ASSUME NEW timedOut \in BOOLEAN, JoinWaits(timedOut)
      PROVE  PlaceTypes'
  <2>1. JoinError \in Codes \cup {"none", "endedEarly", "timedOut"}
    BY DEF JoinError, ZoomTypeOK, NoCode
  <2>2. CASE JoinFails("cancelled") \/ JoinFails(JoinError)
    BY <1>7, <2>1, <2>2
  <2>3. CASE ~(JoinFails("cancelled") \/ JoinFails(JoinError))
    BY <1>9, <2>3 DEF JoinWaits, SessionSame, ClientSame
  <2> QED
    BY <2>2, <2>3
<1>10. ASSUME NEW granted \in BOOLEAN, NEW ran \in BOOLEAN, BringUpRound(granted, ran)
       PROVE  PlaceTypes'
  <2>1. CASE Abandon("card") \/ Abandon("exited")
    BY <1>5, <1>10, <2>1 DEF BringUpRound
  <2>2. CASE ~(Abandon("card") \/ Abandon("exited"))
    BY <1>1, <1>10, <2>2 DEF BringUpRound
  <2> QED
    BY <2>1, <2>2
<1>11. ASSUME NEW ok \in BOOLEAN, BringUpGivesUp(ok) \/ ChatTick(ok)
       PROVE  PlaceTypes'
  BY <1>11 DEF BringUpGivesUp, ChatTick
<1>12. ASSUME NEW accepted \in RoomMoves, NEW restarts \in BOOLEAN, Applies(accepted, restarts)
       PROVE  PlaceTypes'
  BY <1>12 DEF Applies, Leaves, MovesRoom
<1>13. ASSUME NEW members \in SUBSET Desks, NEW on \in {"on", "off"},
              Cue(members, on) \/ Notify(members)
       PROVE  PlaceTypes'
  BY <1>13 DEF Cue, Notify
<1>14. ASSUME NEW s \in Statuses, NEW code \in ReasonOf(phase), StatusChanges(s, code)
       PROVE  PlaceTypes'
  BY <1>14 DEF StatusChanges
<1>15. ASSUME NEW kind \in {"password", "wrongPassword", "name"}, MeetingAsks(kind)
       PROVE  PlaceTypes'
  BY <1>15 DEF MeetingAsks, ClientSame
<1>16. ASSUME NEW d \in Desks, DeskSignals(d) PROVE PlaceTypes'
  BY <1>16 DEF DeskSignals, OtherSame
<1> QED
  BY <1>3, <1>4, <1>6, <1>8, <1>9, <1>10, <1>11, <1>12, <1>13, <1>14, <1>15, <1>16
     DEF Next, Main, Zoom

\* Type correctness of the session, its meeting's client and its chat.
THEOREM TypeCorrect == Spec => []TypeOK
<1>1. Init => MainTypes
  <2> SUFFICES ASSUME Init PROVE MainTypes
    OBVIOUS
  <2>1. RequestTypes /\ FlagTypes
    BY DEF Init, RequestTypes, FlagTypes
  <2>2. PlaceTypes
    BY SessionAssumption DEF Init, PlaceTypes, Phases, Card
  <2>3. ZoomTypeOK
    BY DEF Init, ZoomInit, NoMeeting, ZoomTypeOK, Statuses
  <2> QED
    BY <2>1, <2>2, <2>3 DEF MainTypes
<1>2. MainTypes /\ [Next]_vars => MainTypes'
  BY RequestsTyped, FlagsTyped, PlacesTyped, ClientTyped DEF MainTypes
<1>3. MainTypes /\ ChatInv => TypeOK
  <2> SUFFICES ASSUME MainTypes, ChatInv PROVE TypeOK
    OBVIOUS
  <2>1. \A b \in {quitReq, leaveReq, joinAsked, roomAsked, passAsked, signedIn, quit, engine,
                  departed, hasty} : b \in BOOLEAN
    BY Zenon DEF MainTypes, RequestTypes, FlagTypes
  <2> QED
    BY <2>1, Zenon DEF MainTypes, PlaceTypes, ChatInv, TypeOK
<1> QED
  BY <1>1, <1>2, <1>3, ChatIsKept, PTL DEF Spec

----------------------------------------------------------------------------
(* The breakout rooms of a session (Rooms). *)

\* The batch of rooms Zoom is asked for fits under its cap with the rooms
\* asked for before: the count of one name never passes the cap.
LEMMA CreatesFit ==
  ASSUME RoomsTypeOK, CanCreate, NEW n \in Creates
  PROVE  n \in Names /\ creating[n] + 1 \in 0 .. MaxRooms
<1>1. /\ IsFiniteSet(Names) /\ MaxRooms \in Nat
      /\ creating \in [Names -> 0 .. MaxRooms] /\ rooms \subseteq RoomIds
  BY RoomsAssumption DEF RoomsTypeOK
<1>2. DOMAIN desired \subseteq Names
  BY DEF RoomsTypeOK, Layouts
<1>3. Creates \subseteq Names /\ n \in Names
  BY <1>2 DEF Creates
<1>4. IsFiniteSet(RoomIds)
  BY <1>1, FS_Interval DEF RoomIds
<1>5. IsFiniteSet(rooms) /\ Cardinality(rooms) \in Nat
  BY <1>1, <1>4, FS_Subset, FS_CardinalityType
<1>6. IsFiniteSet(Creates) /\ Cardinality(Creates) \in Nat
  BY <1>1, <1>3, FS_Subset, FS_CardinalityType
<1>7. Cardinality(Creates) # 0
  BY <1>6, FS_EmptySet
<1>8. IsFiniteSet(Pending) /\ Cardinality(Pending) \in Nat
  <2>1. Pending \subseteq Names \X RoomIds
    BY DEF Pending
  <2>2. IsFiniteSet(Names \X RoomIds)
    BY <1>1, <1>4, FS_Product
  <2> QED
    BY <2>1, <2>2, FS_Subset, FS_CardinalityType
<1> DEFINE k == creating[n]
           f == [i \in 1 .. k |-> <<n, i>>]
<1>9. k \in 0 .. MaxRooms /\ k \in Nat
  BY <1>1, <1>3
<1>10. f \in Injection(1 .. k, Pending)
  <2>1. \A i \in 1 .. k : <<n, i>> \in Pending
    BY <1>1, <1>3, <1>9 DEF Pending, RoomIds
  <2>2. f \in [1 .. k -> Pending]
    BY <2>1
  <2>3. IsInjective(f)
    BY DEF IsInjective
  <2> QED
    BY <2>2, <2>3 DEF Injection
<1>11. Cardinality(1 .. k) <= Cardinality(Pending)
  BY <1>8, <1>10, FS_Injection
<1>12. Cardinality(1 .. k) = k
  BY <1>9, FS_Interval
<1>13. Cardinality(rooms) + Cardinality(Pending) + Cardinality(Creates) <= MaxRooms
  BY DEF CanCreate
<1> HIDE DEF k
<1>14. k + 1 <= MaxRooms
  BY <1>1, <1>5, <1>6, <1>7, <1>8, <1>9, <1>11, <1>12, <1>13
<1> QED
  BY <1>1, <1>3, <1>9, <1>14 DEF k

\* What a pass moves is among what may be asked of Zoom.
LEMMA MovesAreAsks == ASSUME RoomsTypeOK PROVE Moves \subseteq Asked
<1>1. \A w \in Assigns : w[1] \in People
  BY DEF Assigns, Wanted
<1>2. \A w \in Assigns : Targets(w) \subseteq Asked
  BY <1>1 DEF Targets, RoomNamed, Asked, RoomsTypeOK
<1> QED
  BY <1>2 DEF Moves

\* Every step of the rooms keeps the types.
LEMMA RoomsTyped == ASSUME RoomsTypeOK, [RoomsNext]_roomsVars PROVE RoomsTypeOK'
<1>1. /\ desired \in Layouts
      /\ creator \in BOOLEAN /\ admin \in BOOLEAN /\ data \in BOOLEAN /\ started \in BOOLEAN
      /\ rooms \subseteq RoomIds /\ nameOf \in [RoomIds -> Names]
      /\ at \in [People -> RoomIds \cup {Nowhere}]
      /\ creating \in [Names -> 0 .. MaxRooms] /\ asks \subseteq Asked /\ budget \in 0 .. Budget
  BY DEF RoomsTypeOK
<1>2. MaxRooms \in Nat /\ Budget \in Nat
  BY RoomsAssumption
<1>3. Spend => budget' \in 0 .. Budget
  BY <1>1, <1>2 DEF Spend
<1>4. CASE Layout
  BY <1>1, <1>3, <1>4 DEF Layout, breakoutVars, RoomsTypeOK
<1>5. ASSUME NEW create \in BOOLEAN, NEW moves \in SUBSET Moves, create => CanCreate,
             ApplyTaking(create, moves), budget' \in 0 .. Budget
      PROVE  RoomsTypeOK'
  <2>1. asks' \subseteq Asked
    BY <1>1, <1>5, MovesAreAsks DEF ApplyTaking
  <2>2. creating' \in [Names -> 0 .. MaxRooms]
    BY <1>1, <1>5, CreatesFit DEF ApplyTaking
  <2> QED
    BY <1>1, <1>5, <2>1, <2>2 DEF ApplyTaking, deskVars, RoomsTypeOK
<1>6. CASE Apply
  <2>1. ApplyTaking(CanCreate, Moves) /\ budget' \in 0 .. Budget
    BY <1>1, <1>6 DEF Apply
  <2>2. CASE CanCreate
    BY <1>5, <2>1, <2>2
  <2>3. CASE ~CanCreate
    <3>1. ApplyTaking(FALSE, Moves)
      BY <2>1, <2>3 DEF ApplyTaking
    <3> QED
      BY <1>5, <2>1, <3>1
  <2> QED
    BY <2>2, <2>3
<1>7. CASE ApplyRefused
  BY <1>3, <1>5, <1>7 DEF ApplyRefused
<1>8. CASE StartSession \/ StopSession
  BY <1>1, <1>3, <1>8 DEF StartSession, StopSession, deskVars, Asked, RoomsTypeOK
<1>9. CASE GainRights \/ LoseRights
  BY <1>1, <1>3, <1>9 DEF GainRights, LoseRights, breakoutVars, RoomsTypeOK
<1>10. ASSUME NEW n \in Names, ZoomCreates(n) PROVE RoomsTypeOK'
  <2>1. creating' \in [Names -> 0 .. MaxRooms]
    BY <1>1, <1>2, <1>10 DEF ZoomCreates
  <2>2. rooms' \subseteq RoomIds /\ nameOf' \in [RoomIds -> Names]
    BY <1>1, <1>10 DEF ZoomCreates
  <2> QED
    BY <1>1, <1>10, <2>1, <2>2 DEF ZoomCreates, deskVars, RoomsTypeOK
<1>11. ASSUME NEW a \in asks, ZoomDoes(a) PROVE RoomsTypeOK'
  <2>1. a \in Asked
    BY <1>1
  <2>2. a.op = "move" => a.who \in People /\ a.room \in RoomIds
    <3>1. CASE \E p \in People, r \in RoomIds : a = Move(p, r)
      BY <3>1 DEF Move
    <3>2. CASE a = Control("start") \/ a = Control("stop")
      <4>1. Control("start").op = "start" /\ Control("stop").op = "stop"
        BY DEF Control
      <4>2. a.op # "move"
        BY <3>2, <4>1
      <4> QED
        BY <4>2
    <3> QED
      BY <2>1, <3>1, <3>2 DEF Asked
  <2>3. at' \in [People -> RoomIds \cup {Nowhere}]
    BY <1>1, <1>11, <2>2 DEF ZoomDoes
  <2> QED
    BY <1>1, <1>11, <2>3 DEF ZoomDoes, deskVars, RoomsTypeOK
<1>12. ASSUME NEW p \in People, NEW r \in RoomIds \cup {Nowhere}, HostMoves(p, r)
       PROVE  RoomsTypeOK'
  BY <1>1, <1>3, <1>12 DEF HostMoves, deskVars, RoomsTypeOK
<1>13. ASSUME NEW r \in RoomIds, HostRemoves(r) PROVE RoomsTypeOK'
  BY <1>1, <1>3, <1>13 DEF HostRemoves, deskVars, RoomsTypeOK
<1>14. CASE UNCHANGED roomsVars
  BY <1>1, <1>14 DEF roomsVars, deskVars, breakoutVars, RoomsTypeOK
<1> QED
  BY <1>4, <1>6, <1>7, <1>8, <1>9, <1>10, <1>11, <1>12, <1>13, <1>14 DEF RoomsNext

\* Type correctness of the rooms: whatever layouts come and whatever Zoom
\* confirms late, no more rooms are asked for than Zoom allows.
THEOREM RoomsTypeCorrect == RoomsSpec => []RoomsTypeOK
<1>1. RoomsInit => RoomsTypeOK
  <2> SUFFICES ASSUME RoomsInit PROVE RoomsTypeOK
    OBVIOUS
  <2>1. desired \in Layouts
    <3>1. desired \in [{} -> SUBSET People]
      BY DEF RoomsInit
    <3> QED
      BY <3>1 DEF Layouts
  <2>2. nameOf \in [RoomIds -> Names]
    BY RoomsAssumption DEF RoomsInit
  <2>3. creating \in [Names -> 0 .. MaxRooms] /\ budget \in 0 .. Budget
    BY RoomsAssumption DEF RoomsInit
  <2>4. asks \subseteq Asked /\ rooms \subseteq RoomIds
    BY DEF RoomsInit
  <2> QED
    BY <2>1, <2>2, <2>3, <2>4 DEF RoomsInit, RoomsTypeOK
<1> QED
  BY <1>1, RoomsTyped, PTL DEF RoomsSpec

\* An empty plan says that everybody is where the layout wants them, or that
\* the rooms run without that room or without the desk being allowed to look.
THEOREM ConvergenceIsTrue == RoomsSpec => []ConvergedIsTrue
<1>1. RoomsTypeOK => ConvergedIsTrue
  <2> SUFFICES ASSUME PlanEmpty, NEW w \in Wanted
               PROVE  \/ InRoom(w[1], w[2])
                      \/ started /\ (~data \/ \A r \in rooms : nameOf[r] # w[2])
    BY DEF ConvergedIsTrue
  <2>1. Placed(w[1], w[2]) \/ ~Fixable(w[1], w[2])
    BY DEF PlanEmpty, Assigns
  <2>2. CASE Placed(w[1], w[2])
    BY <2>2 DEF Placed, SnapshotRooms, InRoom
  <2>3. CASE ~Fixable(w[1], w[2])
    BY <2>3 DEF Fixable, Exists, LiveNames, SnapshotRooms
  <2> QED
    BY <2>1, <2>2, <2>3
<1> QED
  BY <1>1, RoomsTypeCorrect, PTL

IdempotentStep == Apply /\ started /\ data /\ Met => UNCHANGED <<creating, asks>>

\* A pass over a layout that is met asks Zoom for nothing, also where two
\* rooms bear one name.
THEOREM PassIsIdempotent == RoomsSpec => IdempotentRunning
<1>1. RoomsTypeOK => IdempotentStep
  <2> SUFFICES ASSUME RoomsTypeOK, Apply, started, data, Met
               PROVE  UNCHANGED <<creating, asks>>
    BY DEF IdempotentStep
  <2>1. Creates = {}
    BY DEF Creates
  <2>2. \A w \in Wanted : Placed(w[1], w[2])
    BY DEF Met, InRoom, Placed, SnapshotRooms
  <2>3. Moves = {}
    BY <2>2 DEF Moves, Assigns
  <2>4. creating' = creating
    BY <2>1 DEF Apply, ApplyTaking, RoomsTypeOK
  <2> QED
    BY <2>3, <2>4 DEF Apply, ApplyTaking
<1> QED
  BY <1>1, RoomsTypeCorrect, PTL DEF IdempotentRunning, IdempotentStep
=============================================================================
