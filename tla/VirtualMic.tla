----------------------------- MODULE VirtualMic -----------------------------
(***************************************************************************)
(* Zoom's virtual microphone as the sink of the pacer                      *)
(* (src/audio/mic_source_win.cpp): Zoom's thread hands a sender over,      *)
(* opens and shuts the window and takes the sender back, while the pacer's *)
(* thread asks whether it may send and then sends.                         *)
(*                                                                         *)
(* One step per atomic store and per section under sender_m_. A refused    *)
(* or failed send is counted by the code and left out here.                *)
(***************************************************************************)

VARIABLES
  canSend,      \* can_send_
  initialised,  \* initialised_
  sender,       \* sender_ # nullptr
  zoom,         \* Zoom's thread: which callback it is in, and how far
  call          \* the pacer's thread: out, past CanSend ("hinted"), or inside
                \* the SDK's send with sender_m_ held ("sending")

micVars == <<canSend, initialised, sender, zoom, call>>

\* down: not initialised yet, or the sender is revoked; up: it is held.
Stages == {"down", "handed", "up", "shut", "unmarked"}

MicInit ==
  /\ canSend = FALSE /\ initialised = FALSE /\ sender = FALSE
  /\ zoom = "down" /\ call = "out"

Locked == call = "sending"

----------------------------------------------------------------------------
(* Zoom's thread. *)

OnMicInitialize ==
  /\ zoom = "down" /\ ~Locked
  /\ sender' = TRUE /\ zoom' = "handed"
  /\ UNCHANGED <<canSend, initialised, call>>

MarksInitialised ==
  /\ zoom = "handed"
  /\ initialised' = TRUE /\ zoom' = "up"
  /\ UNCHANGED <<canSend, sender, call>>

OnMicStartSend ==
  /\ zoom = "up"
  /\ canSend' = TRUE
  /\ UNCHANGED <<initialised, sender, zoom, call>>

OnMicStopSend ==
  /\ zoom = "up"
  /\ canSend' = FALSE
  /\ UNCHANGED <<initialised, sender, zoom, call>>

\* onMicUninitialized: the gate first, then the flag, ...
OnMicUninitialized ==
  /\ zoom = "up"
  /\ canSend' = FALSE /\ zoom' = "shut"
  /\ UNCHANGED <<initialised, sender, call>>

UnmarksInitialised ==
  /\ zoom = "shut"
  /\ initialised' = FALSE /\ zoom' = "unmarked"
  /\ UNCHANGED <<canSend, sender, call>>

\* ... then the pointer, under the lock; Zoom frees it when this returns.
Revokes == ~Locked

DropsSender ==
  /\ zoom = "unmarked" /\ Revokes
  /\ sender' = FALSE /\ zoom' = "down"
  /\ UNCHANGED <<canSend, initialised, call>>

ZoomsThread ==
  \/ OnMicInitialize \/ MarksInitialised
  \/ OnMicStartSend \/ OnMicStopSend
  \/ OnMicUninitialized \/ UnmarksInitialised \/ DropsSender

----------------------------------------------------------------------------
(* The pacer's thread. *)

\* A hint, taken some instant before Send.
CanSend == canSend /\ initialised

\* Send looks again once it has the lock, also for the pointer.
MaySend_Trusts == TRUE  \* mutant: the hint is not looked at again
MaySend == sender /\ canSend

----------------------------------------------------------------------------
\* The shape of the mic's state.
MicTypeOK ==
  /\ {canSend, initialised, sender} \subseteq BOOLEAN
  /\ zoom \in Stages
  /\ call \in {"out", "hinted", "sending"}

\* No send runs in a sender Zoom has taken back, or before it gave one: "calling
\* into a revoked pointer from the TX thread" is a crash (mic_source_win.h).
SenderIsLive == call = "sending" => sender /\ zoom # "down"
=============================================================================
