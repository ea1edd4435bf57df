----------------------------- MODULE StationMic -----------------------------
(***************************************************************************)
(* The station's own meeting audio (src/zoom/zoom_client_win.cpp): a       *)
(* channel's listeners hear the station only while it is unmuted in the    *)
(* meeting. Whoever composes this with the main loop lets KeepOpen be part *)
(* of its housekeeping.                                                    *)
(*                                                                         *)
(* Abstracted: what the virtual mic then feeds the room, which is silence. *)
(***************************************************************************)

VARIABLE muted   \* IsAudioMuted of the station's own participant

\* JoinVoip may be refused; a meeting may mute whoever enters.
MutedOnJoining(joins, muteOnEntry) == ~joins \/ muteOnEntry

\* JoinVoip and the first UnmuteSelf are over. Each may have failed, which
\* bring-up only warns of.
MicInit(joins, muteOnEntry, taken) ==
  muted = (MutedOnJoining(joins, muteOnEntry) /\ ~taken)

\* UnmuteSelf: nothing to do, or a call Zoom may refuse.
SelfMuted == muted
UnmuteSelf(taken) == muted' = (SelfMuted /\ ~taken)

\* Housekeeping opens the microphone again, whoever closed it.
KeepOpen(taken) == IF SelfMuted THEN UnmuteSelf(taken) ELSE UNCHANGED muted

\* The host mutes the station, or everybody (external).
HostMutes == muted' = TRUE

\* "Ask to unmute" is a consent request, accepted by policy.
OnHostRequestStartAudio == SelfMuted /\ muted' = FALSE
=============================================================================
