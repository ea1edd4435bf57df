------------------------------ MODULE Session ------------------------------
(***************************************************************************)
(* The life of the app between its join card and its meetings (Run in      *)
(* src/app/main.cpp, ZoomClientWin::Join and Leave, session_alive in       *)
(* src/zoom/zoom_client.h), with the meeting's client and the session's    *)
(* chat side channel.                                                      *)
(*                                                                         *)
(* The MAIN thread is one long procedure whose waits pump the SDK. The     *)
(* control server's threads set requests at any time; main reads each at   *)
(* its own place. Zoom calls back during a pump only.                      *)
(*                                                                         *)
(* A request that only one place reads (joinAsked and signedIn: the card;  *)
(* passAsked: the join) is made there at the earliest: made before, or left *)
(* over from the last time, it waits for that place unseen.                *)
(*                                                                         *)
(* Abstracted: headless runs, meter, heartbeat and panel publishing; the   *)
(* channels are TalkbackBank, the membership Desk, the audio TxPath.       *)
(***************************************************************************)
EXTENDS ZoomClient, ChatSignals, FiniteSets

CONSTANT Rounds   \* bound: bring-up rounds before it gives up (120)

ASSUME SessionAssumption == Rounds \in Nat \ {0}

VARIABLES
  phase,      \* where main is
  quitReq,    \* quit_req
  leaveReq,   \* leave_req
  joinAsked,  \* join_pending is not empty
  roomAsked,  \* room_pending is not empty
  passAsked,  \* passcode_pending is not empty
  signedIn,   \* signed_in
  said,       \* what the panel was told of the last join that failed
  quit,       \* the loop's local quit
  engine,     \* the audio engine runs
  round,      \* attempt, in the bring-up
  grace,      \* room_move_grace_ns: none, running, or over and not cleared
  departed,   \* room_move_departed
  move,       \* Zoom: a room move it has accepted: none, ordered, or under way
  hasty       \* history: that move was ordered with departed still set

requestVars == <<quitReq, leaveReq, joinAsked, roomAsked, passAsked, signedIn>>
moveVars == <<grace, departed, move, hasty>>
vars == <<phase, requestVars, said, quit, zoomVars, engine, round, moveVars, chatVars>>

Card == {"card", "poll"}
Joining == {"credentials", "auth", "join", "bringup"}
InLoop == {"loop", "pump", "apply"}
Phases == Card \cup Joining \cup InLoop \cup {"teardown", "exited"}

Init ==
  /\ phase = "card"
  /\ quitReq = FALSE /\ leaveReq = FALSE /\ joinAsked = FALSE /\ roomAsked = FALSE
  /\ passAsked = FALSE /\ signedIn \in BOOLEAN
  /\ said = "none" /\ quit = FALSE
  /\ ZoomInit /\ engine = FALSE /\ round = 0
  /\ grace = "none" /\ departed = FALSE /\ move = "none" /\ hasty = FALSE
  /\ ChatInit

Goto(p) == phase' = p

\* The session's locals and services are gone, and with them the meeting.
SessionOver ==
  /\ quit' = FALSE
  /\ Cleanup /\ engine' = FALSE /\ round' = 0
  /\ grace' = "none" /\ departed' = FALSE /\ move' = "none" /\ hasty' = FALSE
  /\ NewChat

ClientSame == UNCHANGED <<quit, engine, round, moveVars, chatVars>>
SessionSame == ClientSame /\ UNCHANGED zoomVars

----------------------------------------------------------------------------
(* Requests, from the panel and the shell window, at any time.             *)

Running == phase # "exited"

Asks(quits, leaves, joins, moves, passes) ==
  /\ quitReq' = (quitReq \/ quits) /\ leaveReq' = (leaveReq \/ leaves)
  /\ joinAsked' = (joinAsked \/ joins) /\ roomAsked' = (roomAsked \/ moves)
  /\ passAsked' = (passAsked \/ passes)

Request ==
  /\ Running
  /\ \/ Asks(TRUE, FALSE, FALSE, FALSE, FALSE) /\ UNCHANGED signedIn
     \/ Asks(FALSE, TRUE, FALSE, FALSE, FALSE) /\ UNCHANGED signedIn
     \/ Asks(FALSE, FALSE, FALSE, TRUE, FALSE) /\ UNCHANGED signedIn
     \/ phase \in Card /\ Asks(FALSE, FALSE, TRUE, FALSE, FALSE) /\ UNCHANGED signedIn
     \/ phase = "join" /\ Asks(FALSE, FALSE, FALSE, FALSE, TRUE) /\ UNCHANGED signedIn
     \/ phase \in Card /\ signedIn' \in BOOLEAN
        /\ Asks(FALSE, FALSE, FALSE, FALSE, FALSE)
  /\ UNCHANGED <<phase, said>> /\ SessionSame

----------------------------------------------------------------------------
(* The join card. *)

\* Both cards look for a quit: the sign-in card and the join card.
SeesQuit_SignedIn == quitReq /\ signedIn  \* mutant: not on the sign-in card
SeesQuit == quitReq

CardLooks ==
  /\ phase = "card"
  /\ Goto(IF SeesQuit THEN "exited" ELSE IF signedIn THEN "poll" ELSE "card")
  /\ UNCHANGED <<requestVars, said>> /\ SessionSame

\* A pasted link starts a session; an unreadable one is dropped.
CardPolls ==
  /\ phase = "poll"
  /\ joinAsked' = FALSE
  /\ said' = IF joinAsked THEN "none" ELSE said
  /\ IF joinAsked THEN Goto("credentials") \/ Goto("card") ELSE Goto("card")
  /\ UNCHANGED <<quitReq, leaveReq, roomAsked, passAsked, signedIn>> /\ SessionSame

----------------------------------------------------------------------------
(* Bring-up. Every failure returns to the card. *)

\* EnsureJoinCredentials, before the SDK: a dead sign-in clears signed_in.
\* Anonymous runs skip it.
Credentials ==
  /\ phase = "credentials"
  /\ \/ Goto("card") /\ signedIn' \in {signedIn, FALSE}
     \/ Goto("auth") /\ UNCHANGED signedIn
  /\ UNCHANGED <<quitReq, leaveReq, joinAsked, roomAsked, passAsked, said>> /\ SessionSame

\* Failing and timing out swallow a leave asked meanwhile (leave_req.exchange).
JoinFails(error) ==
  /\ Goto("card")
  /\ said' = IF leaveReq THEN "cancelled" ELSE error
  /\ leaveReq' = FALSE /\ passAsked' = FALSE
  /\ SessionOver

\* InitSDK, signing on with the token or the app's own key, and the call that
\* starts the join.
Auth(init, signsOn, starts) ==
  /\ phase = "auth"
  /\ IF init /\ signsOn /\ ~starts
     THEN JoinFails("notStarted")
     ELSE /\ IF init /\ signsOn
             THEN Goto("join") /\ passAsked' \in BOOLEAN
             ELSE Goto("card") /\ UNCHANGED passAsked
          /\ sdk' = SdkAfterSigningOn(init, signsOn)
          /\ UNCHANGED <<leaveReq, said, status, failCode, ask, why>> /\ ClientSame
  /\ UNCHANGED <<quitReq, joinAsked, roomAsked, signedIn>>

\* join_tick: a passcode that waits is given when the meeting wants one.
GivesPasscode_Asked == ask = "asked" /\ passAsked  \* mutant: a wrong one is final
GivesPasscode == ask # "none" /\ passAsked

\* One turn of the join wait: join_tick first, which may cancel, then the
\* status.
JoinWaits(timedOut) ==
  /\ phase = "join"
  /\ IF leaveReq \/ quitReq
     THEN JoinFails("cancelled")
     ELSE IF status = "inMeeting"
     THEN /\ Goto("bringup") /\ passAsked' = FALSE
          /\ UNCHANGED <<leaveReq, said>> /\ SessionSame
     ELSE IF status \in {"failed", "ended"} \/ timedOut
     THEN JoinFails(JoinError)
     ELSE /\ GivesPasscode /\ SubmitPasscode /\ passAsked' = FALSE
          /\ UNCHANGED <<phase, leaveReq, said>> /\ ClientSame
  /\ UNCHANGED <<quitReq, joinAsked, roomAsked, signedIn>>

\* A session that ends in the bring-up leaves and cleans up.
Abandon(p) == Goto(p) /\ SessionOver

\* No talkback here: the fallback is sent before any pump, so no desk is
\* known yet, and the session ends.
Unsupported ==
  /\ phase = "bringup" /\ round = 0
  /\ Abandon("card")
  /\ UNCHANGED <<requestVars, said>>

\* One round of asking for channels, at whose end main looks for the way out;
\* then the bank is accepted and the engine starts, or does not.
BringUpRound(granted, started) ==
  /\ phase = "bringup" /\ round < Rounds
  /\ IF leaveReq \/ quitReq
     THEN Abandon(IF quitReq THEN "exited" ELSE "card") /\ leaveReq' = FALSE
     ELSE /\ UNCHANGED leaveReq
          /\ IF ~granted
             THEN /\ round' = round + 1
                  /\ UNCHANGED <<phase, quit, zoomVars, engine, moveVars, chatVars>>
             ELSE IF started
             THEN /\ Goto("loop") /\ engine' = TRUE
                  /\ UNCHANGED <<quit, zoomVars, round, moveVars, chatVars>>
             ELSE Abandon("card")
  /\ UNCHANGED <<quitReq, joinAsked, roomAsked, passAsked, signedIn, said>>

\* Never granted: the desks are told, with one Tick, ...
BringUpGivesUp(ok) ==
  /\ phase = "bringup" /\ round = Rounds
  /\ FallbackAndTick(ok)
  /\ Goto("teardown")
  /\ UNCHANGED <<requestVars, said, quit, zoomVars, engine, round, moveVars>>

----------------------------------------------------------------------------
(* The main loop. *)

\* The head of the loop: a status outside session_alive ends the session
\* unless a room move's grace runs; the grace is cleared by coming back.
Rides_WhileArmed == grace # "none"  \* mutant: the deadline is never compared
Rides == grace = "running"

Clears_Early == status = "inMeeting"  \* mutant: cleared before the departure
Clears == departed /\ status = "inMeeting"

LoopHead ==
  /\ phase = "loop"
  /\ IF quit \/ (~SessionAlive /\ ~Rides)
     THEN Goto("teardown") /\ UNCHANGED <<grace, departed>>
     ELSE /\ Goto("pump")
          /\ IF grace # "none" /\ Clears
             THEN grace' = "none" /\ departed' = FALSE
             ELSE /\ departed' = (departed \/ (grace # "none" /\ status # "inMeeting"))
                  /\ UNCHANGED grace
  /\ UNCHANGED <<requestVars, said, quit, zoomVars, engine, round, move, hasty, chatVars>>

\* The pump is over; chat.Tick.
ChatTick(ok) ==
  /\ phase = "pump"
  /\ Tick(ok)
  /\ Goto("apply")
  /\ UNCHANGED <<requestVars, said, quit, zoomVars, engine, round, moveVars>>

\* A cue edge of the panel, to the members of its channel.
Cue(members, on) ==
  /\ phase = "apply"
  /\ SendCue(members, on)
  /\ UNCHANGED <<phase, requestVars, said, quit, zoomVars, engine, round, moveVars>>

\* A notify edge, to those of its members the roster shows.
Notify(members) ==
  /\ phase = "apply"
  /\ SendNotices(members)
  /\ UNCHANGED <<phase, requestVars, said, quit, zoomVars, engine, round, moveVars>>

\* Q on the console.
ConsoleQuits ==
  /\ phase = "apply"
  /\ quit' = TRUE
  /\ UNCHANGED <<phase, requestVars, said, zoomVars, engine, round, moveVars, chatVars>>

\* quit, leave, the room move and the device switch, in that order. A leave
\* breaks out of the pass and keeps the room request for later.
Leaves ==
  /\ leaveReq
  /\ leaveReq' = FALSE
  /\ Goto("teardown")
  /\ UNCHANGED <<roomAsked, moveVars, engine>>

\* The station's rights in the breakouts, as it holds them when it moves (has),
\* and which of the two helpers would take the call (takes). An assistant that
\* is refused a room does not ask as an attendee; going back it does.
Helpers == {"assistant", "attendee"}
SwitchToRoom(has, takes) ==
  IF "assistant" \in has THEN "assistant" \in takes ELSE "attendee" \in has \cap takes
ReturnToMain(has, takes) == has \cap takes # {}

\* Refused, or the grace starts. Zoom accepts a move of a station in the
\* meeting, one at a time (external).
MovesRoom(accepted) ==
  IF roomAsked /\ accepted
  THEN /\ status = "inMeeting" /\ move = "none"
       /\ grace' = "running" /\ move' = "ordered"
       /\ hasty' = departed
       /\ UNCHANGED departed
  ELSE UNCHANGED moveVars

Applies(accepted, restarts) ==
  /\ phase = "apply"
  /\ quit' = (quit \/ quitReq)
  /\ \/ Leaves
     \/ /\ ~leaveReq
        /\ MovesRoom(accepted)
        /\ roomAsked' = FALSE
        /\ engine' = restarts     \* a device switch whose engine fails to start
        /\ Goto("loop")
        /\ UNCHANGED leaveReq
  /\ UNCHANGED <<quitReq, joinAsked, passAsked, signedIn, said, zoomVars, round, chatVars>>

\* The engine stops, the meeting is left, the SDK cleaned up. A quit seen by
\* the loop exits the app; anything else returns to the card.
Teardown ==
  /\ phase = "teardown"
  /\ Abandon(IF quit THEN "exited" ELSE "card")
  /\ UNCHANGED <<requestVars, said>>

----------------------------------------------------------------------------
(* Zoom, the desks and the clock (external). *)

Pumping == phase \in {"join", "bringup", "pump"}

\* What the meeting does next: it takes a station in, loses and regains it,
\* carries out a room move, ends. What has ended stays so, and what has failed
\* only ends.
MayBecome(s) ==
  /\ s # status
  /\ status # "ended" /\ (status = "failed" => s = "ended")
  /\ s # "idle"
  /\ s = "failed" => phase = "join"
  /\ s = "waiting" => phase = "join" /\ status = "idle"
  /\ s = "down" => phase # "join"
  /\ s = "alive" => status \notin {"idle", "waiting"}
  /\ s = "inMeeting" => ask = "none"

\* Only a join that is refused has a reason, and only one, given with FAILED or
\* with ENDED.
ReasonOf(p) == IF p = "join" THEN Codes \cup {NoCode} ELSE {NoCode}

StatusChanges(s, code) ==
  /\ MayBecome(s)
  /\ code # NoCode => s \in {"failed", "ended"} /\ status # "failed"
  /\ s = "failed" => code # NoCode
  /\ OnMeetingStatusChanged(s, code)
  /\ move' = IF s = "inMeeting" \/ move = "none" THEN "none" ELSE "underWay"
  /\ UNCHANGED <<phase, requestVars, said, quit, sdk, ask, engine, round, grace, departed,
                 hasty, chatVars>>

\* What a meeting asks of a station on its way in.
MeetingAsks(kind) ==
  /\ phase = "join" /\ status \in {"idle", "waiting", "alive"}
  /\ \/ ask = "none" /\ OnPrompt(kind)
     \/ OnEndOtherMeeting
  /\ UNCHANGED <<phase, requestVars, said>> /\ ClientSame

\* The 20 seconds of a move's grace are over.
GraceExpires ==
  /\ grace = "running"
  /\ grace' = "over"
  /\ UNCHANGED <<phase, requestVars, said, quit, zoomVars, engine, round, departed, move,
                 hasty, chatVars>>

OtherSame == UNCHANGED <<phase, requestVars, said, quit, zoomVars, engine, round, moveVars>>

\* A desk signals us; a gap goes by.
DeskSignals(d) == phase \in {"bringup", "pump"} /\ Inbound(d) /\ OtherSame
TimePasses == GapGoesBy /\ OtherSame

----------------------------------------------------------------------------
\* The app's own key is built in, so it is never without one.
SigningOn ==
  {AuthenticateWithJwt(called, answer) : called \in BOOLEAN, answer \in Answers}
    \cup {Authenticate(TRUE, FALSE, called, answer) : called \in BOOLEAN, answer \in Answers}

RoomMoves ==
  {SwitchToRoom(has, takes) : has, takes \in SUBSET Helpers}
    \cup {ReturnToMain(has, takes) : has, takes \in SUBSET Helpers}
JoinCalls == {StartsJoin(service, taken) : service, taken \in BOOLEAN}

Main ==
  \/ CardLooks \/ CardPolls \/ Credentials
  \/ phase = "auth" /\ \E init \in BOOLEAN, signsOn \in SigningOn, starts \in JoinCalls :
                           Auth(init, signsOn, starts)
  \/ JoinWaits(FALSE)
  \/ Unsupported
  \/ phase = "bringup" /\ \E granted, started \in BOOLEAN : BringUpRound(granted, started)
  \/ \E ok \in BOOLEAN : BringUpGivesUp(ok) \/ ChatTick(ok)
  \/ LoopHead
  \/ \E accepted \in RoomMoves, restarts \in BOOLEAN : Applies(accepted, restarts)
  \/ Teardown

Zoom ==
  /\ Pumping
  /\ \/ \E s \in Statuses, code \in ReasonOf(phase) : StatusChanges(s, code)
     \/ \E kind \in {"password", "wrongPassword", "name"} : MeetingAsks(kind)

Next ==
  \/ Main
  \/ JoinWaits(TRUE)
  \/ Request
  \/ \E members \in SUBSET Desks, on \in {"on", "off"} : Cue(members, on)
  \/ \E members \in SUBSET Desks : Notify(members)
  \/ ConsoleQuits
  \/ Zoom
  \/ GraceExpires
  \/ \E d \in Desks : DeskSignals(d)
  \/ TimePasses

Spec == Init /\ [][Next]_vars

\* Main goes on through its procedure and the clock goes on; that no wait is
\* deaf must not rest on the ten minutes of a join being over.
FairSpec == Spec /\ WF_vars(Main) /\ WF_vars(GraceExpires)

----------------------------------------------------------------------------
(* Properties. *)

TypeOK ==
  /\ phase \in Phases
  /\ \A b \in {quitReq, leaveReq, joinAsked, roomAsked, passAsked, signedIn, quit, engine,
               departed, hasty} : b \in BOOLEAN
  /\ said \in Codes \cup {"none", "cancelled", "notStarted", "endedEarly", "timedOut"}
  /\ round \in 0 .. Rounds
  /\ grace \in {"none", "running", "over"} /\ move \in {"none", "ordered", "underWay"}
  /\ ZoomTypeOK /\ ChatTypeOK

\* Every failure is a return to the session cycle with nothing left behind:
\* on the join card, and when the app is gone, no SDK is initialised, no audio
\* engine runs, so the next join starts clean.
CleanSdk == phase \in Card \cup {"exited"} => ~sdk /\ ~engine

\* The loop gives up a meeting only when it ended, when the operator asked, or
\* when no move of ours is in transit within its grace: "WE ordered this
\* transition, so ride out ANY status for a bounded window". Not so for a move
\* ordered with the previous one's departed flag still set (hasty).
RidesMoves ==
  [][phase = "loop" /\ phase' = "teardown" /\ ~quit
       => \/ status = "ended"
          \/ grace = "over"
          \/ move = "none"
          \/ hasty]_vars

\* A quit asked for in any phase ends the app: no wait of the card, the join,
\* the bring-up or the loop is deaf to it.
QuitEnds == quitReq ~> phase = "exited"

\* A meeting that ends under the loop is noticed, also while a move's grace
\* rides over every status: the app comes back to the card, or exits.
EndedMeetingEnds ==
  status = "ended" /\ phase \in InLoop ~> phase \in Card \cup {"exited"}

\* A join that Zoom refused, or that the client gave up for the account's sake,
\* ends with that reason, never with another or as "the meeting ended before
\* we got in", unless the operator cancelled it: "FAILED carries the real
\* reason; the ENDED that follows it carries 0 and must not clobber it".
JoinTellsWhy ==
  [][phase = "join" /\ phase' = "card" /\ why # NoCode => said' \in {why, "cancelled"}]_vars

\* A passcode the operator gave goes out while the meeting wants one, also
\* after a wrong one, or the join is over.
PasscodeGoesOut ==
  phase = "join" /\ ask # "none" /\ passAsked ~> ~passAsked \/ phase # "join"

\* When the bring-up gives up and a fallback goes out at all, every desk that
\* signalled us gets it: "tell every desk before leaving (one paced flush)".
\* TLC refutes it with two desks: the one flush sends one message.
EveryDeskIsTold ==
  phase = "teardown" /\ round = Rounds /\ told # {} => peers \subseteq told
=============================================================================
