----------------------------- MODULE ZoomClient -----------------------------
(***************************************************************************)
(* One meeting's Zoom client, src/zoom/zoom_client_win.cpp: signing on,    *)
(* the join and what Zoom asks during it, and the meeting's status. Main   *)
(* calls it; Zoom calls back only while main pumps, so a handler is one    *)
(* step. Session composes it with main; its microphone is StationMic.      *)
(*                                                                         *)
(* Abstracted: texts, display names, the wording of the codes (FailReason, *)
(* AuthResultName), and the services' pointers, which live as long as sdk. *)
(***************************************************************************)

VARIABLES
  sdk,       \* sdk_initialised_
  status,    \* status_, as ToState gives it
  failCode,  \* last_fail_code_, NoCode for 0
  ask,       \* passcode_state_; pw_handler_ is set when it is not "none"
  why        \* history: the first reason Zoom gave for this join to fail

zoomVars == <<sdk, status, failCode, ask, why>>

\* The codes of a refusal, of which Zoom's own need no telling apart, and
\* kFailAccountBusyElsewhere.
NoCode == "none"
Codes == {"refused", "busy"}

\* down: a status outside session_alive that may pass: of a room move, whose
\* DISCONNECTING and ENDED main cannot tell from the end of the meeting
\* ("ended"), or of a station put back in the waiting room.
Statuses == {"idle", "waiting", "inMeeting", "alive", "down", "ended", "failed"}
SessionAlive == status \in {"inMeeting", "alive"}

NoMeeting(st, code, a, w) ==
  st = "idle" /\ code = NoCode /\ a = "none" /\ w = NoCode

ZoomInit == sdk = FALSE /\ NoMeeting(status, failCode, ask, why)

\* What Cleanup (called on every way out, and by the destructor) leaves of
\* the SDK. Until the join there is no meeting service to destroy.
SdkAfterCleanup_ByMeeting == status = "idle"  \* mutant: guarded by meeting_
SdkAfterCleanup == FALSE

Cleanup == sdk' = SdkAfterCleanup /\ NoMeeting(status', failCode', ask', why')

----------------------------------------------------------------------------
(* Signing on. *)

\* Init, then signing on; main cleans up after a client that does not sign on.
SdkAfterSigningOn(init, signsOn) == IF init /\ ~signsOn THEN SdkAfterCleanup ELSE init

\* SDKAuth is called, then main pumps until onAuthenticationReturn or the
\* timeout: "none" is an answer that came too late, or never.
Answers == {"success", "rejected", "none"}
AuthenticateWithJwt(called, answer) == called /\ answer = "success"

\* The same with the app's own key, or a token minted here (--anon).
Authenticate(key, minted, called, answer) ==
  (key \/ minted) /\ called /\ answer = "success"

----------------------------------------------------------------------------
(* The join. *)

\* Join's first part: there is a meeting service, and it takes the call. Then
\* Join waits; until here no meeting has begun.
StartsJoin(service, taken) == service /\ taken

\* What Join says when it gives up: Zoom's code when it has one.
JoinError ==
  CASE status = "failed" -> failCode
    [] status = "ended" -> IF failCode # NoCode THEN failCode ELSE "endedEarly"
    [] OTHER -> "timedOut"

\* A status and its result. FAILED carries the reason; the ENDED that follows
\* carries 0.
TakesCode_AnyEnd(s) == s \in {"failed", "ended"}  \* mutant: ENDED's 0 is stored
TakesCode(s) == s = "failed" \/ (s = "ended" /\ failCode = NoCode)

OnMeetingStatusChanged(s, code) ==
  /\ status' = s
  /\ failCode' = IF TakesCode(s) THEN code ELSE failCode
  /\ why' = IF why = NoCode THEN code ELSE why

\* The meeting wants a passcode, or has found the last one wrong; a name it
\* wants, with or without an address, is given at once.
OnPrompt(kind) ==
  /\ ask' = CASE kind = "password" -> "asked"
              [] kind = "wrongPassword" -> "wrong"
              [] kind = "name" -> ask
  /\ UNCHANGED <<sdk, status, failCode, why>>

\* The account is in a meeting elsewhere: the client declines to end that one.
OnEndOtherMeeting ==
  /\ status' = "failed" /\ failCode' = "busy"
  /\ why' = IF why = NoCode THEN "busy" ELSE why
  /\ UNCHANGED <<sdk, ask>>

\* Zoom destroys the prompt's handler inside the call; a wrong passcode is a
\* new prompt.
SubmitPasscode ==
  /\ ask' = "none"
  /\ UNCHANGED <<sdk, status, failCode, why>>

----------------------------------------------------------------------------
\* The shape of the client's state.
ZoomTypeOK ==
  /\ sdk \in BOOLEAN
  /\ status \in Statuses
  /\ {failCode, why} \subseteq Codes \cup {NoCode}
  /\ ask \in {"none", "asked", "wrong"}
=============================================================================
