---------------------------- MODULE ChatSignals ----------------------------
(***************************************************************************)
(* Chat as the side channel between desks (src/zoom/chat_signals.cpp and   *)
(* its SignalOutbox): cues and assignment notices to the members of a      *)
(* channel, and the fallback notice, queued by the main loop and sent one  *)
(* at a time, paced, on the pump thread. The queue is bounded and drops    *)
(* its oldest message; a message whose builder or send fails is gone.      *)
(*                                                                         *)
(* Time is counted in gaps of kMinSendGapMs: a send closes the outbox until *)
(* a gap has gone by. A cue carries whether it goes on or off; one slot.   *)
(* Abstracted: the wire text, chat permission (only logged), hiding of     *)
(* echoed messages.                                                        *)
(***************************************************************************)
EXTENDS Naturals, Sequences, FiniteSets, SequencesExt

CONSTANTS
  NumDesks,  \* desks that can be on a channel and decode signals
  Kept       \* kMaxQueued

ASSUME SignalsAssumption == NumDesks \in Nat /\ Kept \in Nat \ {0}

Desks == 1 .. NumDesks

VARIABLES
  peers,   \* peers_: desks that have signalled us
  outbox,  \* q_
  open,    \* the pacing gate: a gap has gone by since last_send_ms_
  sent,    \* history: the last cue queued for each desk
  told     \* external: desks that received the fallback notice

chatVars == <<peers, outbox, open, sent, told>>

Message == [to: Desks, what: {"on", "off", "notice", "fallback"}]
Msg(d, what) == [to |-> d, what |-> what]

\* A session's ChatSignals, and what the desks of its meeting were sent.
FreshChat(p, o, g, s, t) ==
  /\ p = {} /\ o = <<>> /\ g = TRUE
  /\ s = [d \in Desks |-> "none"] /\ t = {}

ChatInit == FreshChat(peers, outbox, open, sent, told)

NewChat == FreshChat(peers', outbox', open', sent', told')

\* SignalOutbox::Push, of the messages of ms in turn: each one that finds the
\* queue full drops the oldest, so the newest Kept stay.
Over(all) == IF Len(all) > Kept THEN Len(all) - Kept ELSE 0
DropNewest(all) == SubSeq(all, 1, Len(all) - Over(all))  \* mutant
DropOldest(all) == SubSeq(all, Over(all) + 1, Len(all))
Push(q, ms) == DropOldest(q \o ms)

\* The same message for each desk of a set, in the order the set is walked.
ToEach(ds, what) == [i \in 1 .. Cardinality(ds) |-> Msg(SetToSeq(ds)[i], what)]
PushEach(ds, what) == Push(outbox, ToEach(ds, what))

\* SendSignalTo every member of the keyed channel.
SendCue(members, on) ==
  /\ outbox' = PushEach(members, on)
  /\ sent' = [d \in Desks |-> IF d \in members THEN on ELSE sent[d]]
  /\ UNCHANGED <<peers, open, told>>

\* SendAssignNotice: to the members, in words; it shares the outbox with cues.
SendNotices(members) ==
  /\ outbox' = PushEach(members, "notice")
  /\ UNCHANGED <<peers, open, sent, told>>

\* onChatMsgNotification: a decoded signal makes its sender a peer.
Inbound(d) ==
  /\ peers' = peers \cup {d}
  /\ UNCHANGED <<outbox, open, sent, told>>

\* Tick, from the outbox q it finds: PopReady takes the oldest message when
\* the gate is open, and closes it, so one message goes at most; it is gone
\* whether or not its send succeeds.
TickFrom(q, ok) ==
  IF q # <<>> /\ open
  THEN /\ outbox' = Tail(q)
       /\ open' = FALSE
       /\ told' = IF ok /\ q[1].what = "fallback" THEN told \cup {q[1].to} ELSE told
  ELSE outbox' = q /\ UNCHANGED <<open, told>>

Tick(ok) == TickFrom(outbox, ok) /\ UNCHANGED <<peers, sent>>

\* SignalFallback to every peer, then a single Tick: the bring-up gives up.
FallbackAndTick(ok) ==
  /\ TickFrom(PushEach(peers, "fallback"), ok)
  /\ UNCHANGED <<peers, sent>>

\* kMinSendGapMs have gone by (external: the clock).
GapGoesBy ==
  /\ ~open
  /\ open' = TRUE
  /\ UNCHANGED <<peers, outbox, sent, told>>

----------------------------------------------------------------------------
\* The shape of the outbox, within its cap.
ChatTypeOK ==
  /\ peers \subseteq Desks
  /\ outbox \in Seq(Message) /\ Len(outbox) <= Kept
  /\ open \in BOOLEAN
  /\ sent \in [Desks -> {"none", "on", "off"}]
  /\ told \subseteq Desks

\* However much is dropped, by cues or by notices and fallbacks between them,
\* the last cue that waits for a desk is the last one queued for it:
\* drop-oldest, because "a stale cue is worse than no cue" (SignalOutbox::Push,
\* against the cue and notice edges of the main loop).
IsCue(m) == m.what \in {"on", "off"}
NewestKept ==
  \A i \in 1 .. Len(outbox) :
    \/ ~IsCue(outbox[i])
    \/ outbox[i].what = sent[outbox[i].to]
    \/ \E j \in i + 1 .. Len(outbox) : IsCue(outbox[j]) /\ outbox[j].to = outbox[i].to
=============================================================================
