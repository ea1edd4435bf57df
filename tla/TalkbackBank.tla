---------------------------- MODULE TalkbackBank ----------------------------
(***************************************************************************)
(* The channel bank (src/zoom/talkback_channels.cpp): up to 16 talkback    *)
(* channels of one meeting, filled by Zoom's asynchronous responses on the *)
(* pump thread, and read by the TX pacer thread fifty times a second.      *)
(*                                                                         *)
(* Two threads and the service are modelled:                               *)
(*   - the PUMP thread issues the SDK calls and runs the SDK callbacks.    *)
(*     A callback holds m_; OnCreateChannelResponse also runs              *)
(*     RefreshSendIds, which takes send_m_ and copies the ids slot by      *)
(*     slot before it publishes ready_mask_.                               *)
(*   - the PACER thread runs one tick at a time: TxPacer::Run asks the     *)
(*     sink CanSend (which counts ready slots under m_), loads the masks,  *)
(*     and calls SendToSlot for each target: ready_mask_ read outside the  *)
(*     lock, the id read and SendAudio called under send_m_.               *)
(*   - ZOOM grants channels in any order, answers membership requests in   *)
(*     the order it decided them, and drops leavers on its own.            *)
(*                                                                         *)
(* Abstracted: frames carry no samples, last_error_ and the listener count *)
(* are not kept (nothing branches on them), the counters send_failures_    *)
(* and channel_sends_ are left out, and sent_mask_ is kept.                *)
(***************************************************************************)
EXTENDS Naturals, Sequences, FiniteSets

CONSTANTS
  NumSlots,    \* n_channels: how many channels the desk is configured for
  MaxMembers,  \* kMaxMembers: members Zoom allows in one channel
  Users,       \* meeting user ids
  Ids,         \* channel ids Zoom can grant
  NoId,        \* the empty id of a slot no response has filled
  MaxAsked,    \* bound: channels requested and not answered yet
  MaxFlight,   \* bound: membership requests Zoom has not decided yet
  MaxInbox,    \* bound: membership responses not yet delivered
  MaxUnheard   \* bound: removals done under another answer than Ok

ASSUME BankAssumption ==
  /\ NumSlots \in Nat \ {0}
  /\ MaxMembers \in Nat \ {0}
  /\ NoId \notin Ids
  /\ MaxAsked \in Nat
  /\ MaxFlight \in Nat
  /\ MaxInbox \in Nat
  /\ MaxUnheard \in Nat

Slots == 0 .. NumSlots - 1

VARIABLES
  want,        \* want_: 0 until CreateChannels sized the bank, then NumSlots
  channels,    \* channels_: id, ready and confirmed members of each slot
  sendIds,     \* send_ids_: the pacer's copy of the ids
  readyMask,   \* ready_mask_
  keyMask,     \* key_mask_
  sentMask,    \* sent_mask_
  mOwner,      \* the thread inside m_
  sendOwner,   \* the thread inside send_m_
  refresh,     \* where the pump is in RefreshSendIds
  pacer,       \* the pacer's tick: pc, the masks it loaded, the slots to do
  asked,       \* Zoom: channels requested and not answered
  grants,      \* Zoom: granted ids whose response has not been delivered
  granted,     \* Zoom: every id granted in this meeting
  flight,      \* Zoom: membership requests not decided yet
  inbox,       \* Zoom: membership responses on their way, oldest first
  zoomMembers, \* Zoom: who is in each channel
  unheard,     \* history: pairs Zoom took apart under an answer that is not Ok
  wire         \* the last frame handed to SendAudio

bankVars == <<want, channels, sendIds, readyMask, keyMask, sentMask>>
lockVars == <<mOwner, sendOwner, refresh>>
zoomVars == <<asked, grants, granted, flight, inbox, zoomMembers, unheard>>
vars == <<bankVars, lockVars, pacer, zoomVars, wire>>

\* Before the first SendAudio.
NoFrame == [slot |-> 0, id |-> NoId]
Threads == {"none", "pump", "pacer"}
IdlePacer == [pc |-> "idle", keys |-> {}, todo |-> {}]

\* The engine, and with it the pacer, starts once bring-up accepted the bank;
\* the main loop that keys, invites and removes runs only from then on.
StationUp == pacer.pc # "off"

ReadySlots == {s \in Slots : channels[s].ready}

\* SlotForId: the slot holding this id; {} when no slot does.
SlotForId(id) == {s \in Slots : channels[s].id = id}

Init ==
  /\ want = 0
  /\ channels = [s \in Slots |-> [id |-> NoId, ready |-> FALSE, members |-> {}]]
  /\ sendIds = [s \in Slots |-> NoId]
  /\ readyMask = {} /\ keyMask = {} /\ sentMask = {}
  /\ mOwner = "none" /\ sendOwner = "none"
  /\ refresh = [pc |-> "no", at |-> 0]
  /\ pacer = [IdlePacer EXCEPT !.pc = "off"]
  /\ asked = 0 /\ grants = {} /\ granted = {}
  /\ flight = {} /\ inbox = <<>>
  /\ zoomMembers = [c \in Ids |-> {}] /\ unheard = {}
  /\ wire = NoFrame

----------------------------------------------------------------------------
(* The pump thread. It is inside a callback while refresh.pc # "no", and   *)
(* every other step of it is a whole handler: m_ is taken and released     *)
(* within the step, so the step needs m_ free.                             *)

PumpFree == refresh.pc = "no" /\ mOwner = "none"

\* CreateChannels, called by the bring-up loop while no slot is ready. The
\* bank is sized whether or not Zoom takes the call.
CreateChannels(accepted) ==
  /\ PumpFree
  /\ ~StationUp /\ ReadySlots = {}
  /\ want' = NumSlots
  /\ IF accepted
     THEN asked + NumSlots <= MaxAsked /\ asked' = asked + NumSlots
     ELSE UNCHANGED asked
  /\ UNCHANGED <<channels, sendIds, readyMask, keyMask, sentMask, lockVars, pacer,
                 grants, granted, flight, inbox, zoomMembers, unheard, wire>>

\* OnCreateChannelResponse with Ok: the first slot without an id takes the
\* id; with no such slot the id is dropped. Either way RefreshSendIds runs
\* with m_ still held. (The error case only records last_error_.)
EmptySlots == {s \in Slots : s < want /\ channels[s].id = NoId}

TakesId_EveryEmpty(s) == s \in EmptySlots  \* mutant: the loop has no break
TakesId(s) == s \in EmptySlots /\ \A t \in EmptySlots : s <= t

OnCreateChannelResponse(id) ==
  /\ PumpFree
  /\ id \in grants
  /\ grants' = grants \ {id}
  /\ channels' = [s \in Slots |->
       IF TakesId(s)
       THEN [id |-> id, ready |-> TRUE, members |-> channels[s].members]
       ELSE channels[s]]
  /\ mOwner' = "pump"
  /\ refresh' = [pc |-> "lock", at |-> 0]
  /\ UNCHANGED <<want, sendIds, readyMask, keyMask, sentMask, sendOwner, pacer,
                 asked, granted, flight, inbox, zoomMembers, unheard, wire>>

\* RefreshSendIds: take send_m_, ...
RefreshLock ==
  /\ refresh.pc = "lock"
  /\ sendOwner = "none"
  /\ sendOwner' = "pump"
  /\ refresh' = [pc |-> "copy", at |-> 0]
  /\ UNCHANGED <<bankVars, mOwner, pacer, zoomVars, wire>>

CopyEnd_Short == NumSlots - 1  \* mutant: the loop stops one slot early
CopyEnd == NumSlots

\* ... copy one slot's id at a time, ...
RefreshCopy ==
  /\ refresh.pc = "copy"
  /\ refresh.at < CopyEnd
  /\ sendIds' = [sendIds EXCEPT ![refresh.at] = channels[refresh.at].id]
  /\ refresh' = [refresh EXCEPT !.at = @ + 1]
  /\ UNCHANGED <<want, channels, readyMask, keyMask, sentMask, mOwner, sendOwner,
                 pacer, zoomVars, wire>>

PublishedMask == ReadySlots

\* ... and publish the mask last; both locks are released on return.
RefreshPublish ==
  /\ refresh.pc = "copy"
  /\ refresh.at = CopyEnd
  /\ readyMask' = PublishedMask
  /\ mOwner' = "none" /\ sendOwner' = "none"
  /\ refresh' = [pc |-> "no", at |-> 0]
  /\ UNCHANGED <<want, channels, sendIds, keyMask, sentMask, pacer, zoomVars, wire>>

\* The bring-up loop accepts the bank, whole or (after three rounds) with
\* whatever Zoom granted so far, and the engine starts the pacer thread.
StartStation ==
  /\ PumpFree
  /\ ~StationUp /\ ReadySlots # {}
  /\ pacer' = IdlePacer
  /\ UNCHANGED <<bankVars, lockVars, zoomVars, wire>>

\* Invite and InviteMany: refused here when the slot is not ready or the
\* batch would not fit the CONFIRMED members (invites in flight are not
\* counted); otherwise one SDK call for the batch, which may be refused.
CanInvite(s, uids) ==
  /\ channels[s].ready
  /\ Cardinality(channels[s].members) + Cardinality(uids) <= MaxMembers

\* The adapter's batch is begun, filled and executed as one call: the whole
\* batch is in flight, or none of it.
InviteUsers(id, uids) == {[op |-> "invite", id |-> id, uid |-> u] : u \in uids}
RemoveUsers(id, uids) == {[op |-> "remove", id |-> id, uid |-> u] : u \in uids}

InviteMany(s, uids) ==
  /\ PumpFree /\ StationUp
  /\ s < want
  /\ uids # {}
  /\ CanInvite(s, uids)
  /\ flight' = flight \cup InviteUsers(channels[s].id, uids)
  /\ Cardinality(flight') <= MaxFlight
  /\ UNCHANGED <<bankVars, lockVars, pacer, asked, grants, granted, inbox, zoomMembers, unheard,
                 wire>>

\* Remove: only the slot number is checked, so a slot without an id asks
\* Zoom to remove somebody from channel "" (and Zoom refuses the call).
Remove(s, u) ==
  /\ PumpFree /\ StationUp
  /\ s < want
  /\ channels[s].id # NoId
  /\ flight' = flight \cup RemoveUsers(channels[s].id, {u})
  /\ Cardinality(flight') <= MaxFlight
  /\ UNCHANGED <<bankVars, lockVars, pacer, asked, grants, granted, inbox, zoomMembers, unheard,
                 wire>>

\* SetKey: compare-and-swap loop on the atomic mask; no lock.
SetKey(s, down) ==
  /\ refresh.pc = "no" /\ StationUp
  /\ keyMask' = IF down THEN keyMask \cup {s} ELSE keyMask \ {s}
  /\ UNCHANGED <<want, channels, sendIds, readyMask, sentMask, lockVars, pacer,
                 zoomVars, wire>>

\* OnChannelUserJoinResponse / OnChannelUserLeaveResponse: membership is
\* what Zoom confirmed. Ok and AlreadyExists are both presence; only an Ok
\* leave removes; a response for an id no slot holds is ignored.
Confirmed_AnyAnswer == {"Ok", "AlreadyExists", "Rejected"}  \* mutant
Confirmed_OkOnly == {"Ok"}  \* mutant: the code before AlreadyExists counted
Confirmed == {"Ok", "AlreadyExists"}

OnChannelUserJoinResponse(r) ==
  channels' = [s \in Slots |->
    IF s \in SlotForId(r.id) /\ r.event \in Confirmed
    THEN [id |-> r.id, ready |-> channels[s].ready, members |-> channels[s].members \cup {r.uid}]
    ELSE channels[s]]

OnChannelUserLeaveResponse(r) ==
  channels' = [s \in Slots |->
    IF s \in SlotForId(r.id) /\ r.event = "Ok"
    THEN [id |-> r.id, ready |-> channels[s].ready, members |-> channels[s].members \ {r.uid}]
    ELSE channels[s]]

DeliverMembership ==
  /\ PumpFree
  /\ inbox # <<>>
  /\ inbox' = Tail(inbox)
  /\ \/ Head(inbox).op = "join" /\ OnChannelUserJoinResponse(Head(inbox))
     \/ Head(inbox).op = "leave" /\ OnChannelUserLeaveResponse(Head(inbox))
  /\ UNCHANGED <<want, sendIds, readyMask, keyMask, sentMask, lockVars, pacer,
                 asked, grants, granted, flight, zoomMembers, unheard, wire>>

----------------------------------------------------------------------------
(* The pacer thread (TxPacer::Run and ChannelBankSink::Send).              *)

\* The grid instant arrived; the sink is about to be asked CanSend.
PacerTick ==
  /\ pacer.pc = "idle"
  /\ pacer' = [pacer EXCEPT !.pc = "gate"]
  /\ UNCHANGED <<bankVars, lockVars, zoomVars, wire>>

\* CanSend counts the ready slots under m_; with none the tick is gated.
CanSend ==
  /\ pacer.pc = "gate"
  /\ mOwner = "none"
  /\ pacer' = IF ReadySlots # {} THEN [pacer EXCEPT !.pc = "route"] ELSE IdlePacer
  /\ UNCHANGED <<bankVars, lockVars, zoomVars, wire>>

\* Send loads the key mask, the feed targets and the ready mask: the slots
\* to do are the keyed and the feed-carrying ones that are ready.
Route ==
  /\ pacer.pc = "route"
  /\ \E feeds \in SUBSET Slots :
       pacer' = [pc |-> "slot", keys |-> keyMask \cap readyMask,
                 todo |-> (keyMask \cup feeds) \cap readyMask]
  /\ UNCHANGED <<bankVars, lockVars, zoomVars, wire>>

NextSlot(s) == s \in pacer.todo /\ \A t \in pacer.todo : s <= t

\* A slot that only a feed targets may have no feed content this tick:
\* Compose returns false and the slot is skipped.
SkipSlot ==
  /\ pacer.pc = "slot"
  /\ \E s \in pacer.todo \ pacer.keys :
       /\ NextSlot(s)
       /\ pacer' = [pacer EXCEPT !.todo = @ \ {s}]
  /\ UNCHANGED <<bankVars, lockVars, zoomVars, wire>>

\* SendToSlot: ready_mask_ is re-read, then send_m_ taken.
SendLock ==
  /\ pacer.pc = "slot"
  /\ sendOwner = "none"
  /\ \E s \in readyMask : NextSlot(s)
  /\ sendOwner' = "pacer"
  /\ pacer' = [pacer EXCEPT !.pc = "send"]
  /\ UNCHANGED <<bankVars, mOwner, refresh, zoomVars, wire>>

\* The slots a send is done with: a refused frame is counted, not retried.
Served_UntilAccepted(s, accepted) == IF accepted THEN {s} ELSE {}  \* mutant
Served(s, accepted) == {s}

\* SendAudio on the id copied for the slot; sent_mask_ only if Zoom took it.
SendAudio(accepted) ==
  /\ pacer.pc = "send"
  /\ \E s \in Slots :
       /\ NextSlot(s)
       /\ wire' = [slot |-> s, id |-> sendIds[s]]
       /\ sentMask' = IF accepted THEN sentMask \cup {s} ELSE sentMask
       /\ pacer' = [pacer EXCEPT !.pc = "slot",
                                  !.keys = @ \ Served(s, accepted),
                                  !.todo = @ \ Served(s, accepted)]
  /\ sendOwner' = "none"
  /\ UNCHANGED <<want, channels, sendIds, readyMask, keyMask, mOwner, refresh, zoomVars>>

TickDone ==
  /\ pacer.pc = "slot"
  /\ pacer.todo = {}
  /\ pacer' = IdlePacer
  /\ wire' = NoFrame
  /\ UNCHANGED <<bankVars, lockVars, zoomVars>>

----------------------------------------------------------------------------
(* Zoom (external).                                                        *)

\* Zoom grants one requested channel, under an id never used before.
ZoomGrants(id) ==
  /\ asked > 0
  /\ id \in Ids \ granted
  /\ asked' = asked - 1
  /\ grants' = grants \cup {id}
  /\ granted' = granted \cup {id}
  /\ UNCHANGED <<bankVars, lockVars, pacer, flight, inbox, zoomMembers, unheard, wire>>

\* Zoom refuses one requested channel; the handler only logs and records.
ZoomRefusesChannel ==
  /\ asked > 0
  /\ asked' = asked - 1
  /\ UNCHANGED <<bankVars, lockVars, pacer, grants, granted, flight, inbox, zoomMembers, unheard,
                 wire>>

Answer(op, id, u, event) ==
  Append(inbox, [op |-> op, id |-> id, uid |-> u, event |-> event])

\* Zoom decides one invite: present already, no room, accepted (the answer
\* may still be Timeout: the person landed but Zoom reports it late), or
\* rejected.
ZoomDecidesInvite(q, event) ==
  /\ q \in flight
  /\ q.op = "invite"
  /\ Len(inbox) < MaxInbox
  /\ flight' = flight \ {q}
  /\ inbox' = Answer("join", q.id, q.uid, event)
  /\ \/ /\ event = "AlreadyExists"
        /\ q.uid \in zoomMembers[q.id]
        /\ UNCHANGED zoomMembers
     \/ /\ event \in {"Ok", "Timeout"}
        /\ q.uid \notin zoomMembers[q.id]
        /\ Cardinality(zoomMembers[q.id]) < MaxMembers
        /\ zoomMembers' = [zoomMembers EXCEPT ![q.id] = @ \cup {q.uid}]
     \/ /\ event \in {"CountOverflow", "Rejected"}
        /\ q.uid \notin zoomMembers[q.id]
        /\ UNCHANGED zoomMembers
  /\ UNCHANGED <<bankVars, lockVars, pacer, asked, grants, granted, unheard, wire>>

\* Zoom decides one removal: done (the answer may be late here too), nobody
\* there, or rejected.
ZoomDecidesRemove(q, event) ==
  /\ q \in flight
  /\ q.op = "remove"
  /\ Len(inbox) < MaxInbox
  /\ flight' = flight \ {q}
  /\ inbox' = Answer("leave", q.id, q.uid, event)
  /\ \/ /\ event \in {"Ok", "Timeout"}
        /\ q.uid \in zoomMembers[q.id]
        /\ zoomMembers' = [zoomMembers EXCEPT ![q.id] = @ \ {q.uid}]
        /\ event = "Timeout" => Cardinality(unheard) < MaxUnheard
        /\ unheard' = IF event = "Ok" THEN unheard ELSE unheard \cup {<<q.id, q.uid>>}
     \/ /\ event = "NotExist" /\ q.uid \notin zoomMembers[q.id]
        /\ UNCHANGED <<zoomMembers, unheard>>
     \/ /\ event = "Rejected"
        /\ UNCHANGED <<zoomMembers, unheard>>
  /\ UNCHANGED <<bankVars, lockVars, pacer, asked, grants, granted, wire>>

\* Somebody leaves the meeting: Zoom drops them from the channel.
ZoomDropsLeaver(c, u) ==
  /\ u \in zoomMembers[c]
  /\ Len(inbox) < MaxInbox
  /\ zoomMembers' = [zoomMembers EXCEPT ![c] = @ \ {u}]
  /\ inbox' = Answer("leave", c, u, "Ok")
  /\ UNCHANGED <<bankVars, lockVars, pacer, asked, grants, granted, flight, unheard, wire>>

----------------------------------------------------------------------------
JoinEvents == {"Ok", "AlreadyExists", "CountOverflow", "Rejected", "Timeout"}
LeaveEvents == {"Ok", "NotExist", "Rejected", "Timeout"}

Pump ==
  \/ \E accepted \in BOOLEAN : CreateChannels(accepted)
  \/ \E id \in Ids : OnCreateChannelResponse(id)
  \/ RefreshLock \/ RefreshCopy \/ RefreshPublish
  \/ StartStation
  \/ \E s \in Slots, uids \in SUBSET Users : InviteMany(s, uids)
  \/ \E s \in Slots, u \in Users : Remove(s, u)
  \/ \E s \in Slots, down \in BOOLEAN : SetKey(s, down)
  \/ DeliverMembership

Pacer ==
  \/ PacerTick \/ CanSend \/ Route \/ SkipSlot \/ SendLock
  \/ \E accepted \in BOOLEAN : SendAudio(accepted)
  \/ TickDone

Zoom ==
  \/ \E id \in Ids : ZoomGrants(id)
  \/ ZoomRefusesChannel
  \/ \E q \in flight, event \in JoinEvents : ZoomDecidesInvite(q, event)
  \/ \E q \in flight, event \in LeaveEvents : ZoomDecidesRemove(q, event)
  \/ \E c \in Ids, u \in Users : ZoomDropsLeaver(c, u)

Next == Pump \/ Pacer \/ Zoom

\* A callback the pump entered returns, and the pacer thread keeps running
\* through its tick: both are straight-line code between two waits.
Fairness ==
  /\ WF_vars(RefreshLock \/ RefreshCopy \/ RefreshPublish)
  /\ WF_vars(CanSend \/ Route \/ SkipSlot \/ SendLock \/ TickDone
             \/ \E accepted \in BOOLEAN : SendAudio(accepted))

Spec == Init /\ [][Next]_vars

FairSpec == Spec /\ Fairness

----------------------------------------------------------------------------
Response == [op: {"join", "leave"}, id: Ids, uid: Users, event: JoinEvents \cup LeaveEvents]
Request == [op: {"invite", "remove"}, id: Ids, uid: Users]

\* The shape of the state: slots hold an id Zoom can grant or none, the
\* pacer's copies range over the same ids, and every mask is a set of slots.
TypeOK ==
  /\ want \in {0, NumSlots}
  /\ channels \in [Slots -> [id: Ids \cup {NoId}, ready: BOOLEAN, members: SUBSET Users]]
  /\ sendIds \in [Slots -> Ids \cup {NoId}]
  /\ readyMask \in SUBSET Slots
  /\ keyMask \in SUBSET Slots
  /\ sentMask \in SUBSET Slots
  /\ mOwner \in Threads
  /\ sendOwner \in Threads
  /\ refresh \in [pc: {"no", "lock", "copy"}, at: 0 .. NumSlots]
  /\ pacer \in [pc: {"off", "idle", "gate", "route", "slot", "send"}, keys: SUBSET Slots,
                todo: SUBSET Slots]
  /\ asked \in Nat
  /\ grants \in SUBSET Ids
  /\ granted \in SUBSET Ids
  /\ flight \in SUBSET Request
  /\ inbox \in Seq(Response)
  /\ zoomMembers \in [Ids -> SUBSET Users]
  /\ unheard \in SUBSET (Ids \X Users)
  /\ wire \in [slot: Slots, id: Ids \cup {NoId}]

\* Every frame handed to Zoom goes to the channel its slot holds, never to
\* an empty id or to another slot's channel, whatever callback ran between
\* the pacer's look at ready_mask_ and its send (SendToSlot, RefreshSendIds).
WireToOwnChannel ==
  wire # NoFrame => wire.id # NoId /\ wire.id = channels[wire.slot].id

\* Two slots never share a channel: keying one slot is never heard by the
\* members of another (OnCreateChannelResponse fills one slot per response).
DistinctIds ==
  \A s, t \in Slots :
    channels[s].id # NoId /\ channels[s].id = channels[t].id => s = t

\* Whenever no callback is inside m_, the pacer's view is the bank: the
\* ready mask is exactly the ready slots and their ids are copied.
PublishedView ==
  mOwner # "pump" =>
    /\ readyMask = ReadySlots
    /\ \A s \in readyMask : sendIds[s] = channels[s].id

\* The desk never counts somebody as listening whom Zoom does not have in
\* the channel, once the leave responses on their way are delivered, unless
\* Zoom took them out and answered Timeout: only an Ok leave takes a member off
\* the desk (members are what Zoom confirmed, and confirmations arrive in order).
MembersAreReal ==
  \A s \in Slots : \A u \in channels[s].members :
    \/ u \in zoomMembers[channels[s].id]
    \/ <<channels[s].id, u>> \in unheard
    \/ \E i \in 1 .. Len(inbox) :
         /\ inbox[i].op = "leave" /\ inbox[i].event = "Ok"
         /\ inbox[i].id = channels[s].id /\ inbox[i].uid = u

\* Who the desk counts on a slot, but for those Zoom took out unheard.
Heard(s) == {u \in channels[s].members : <<channels[s].id, u>> \notin unheard}

\* But for those, the desk never counts more listeners on a channel than Zoom
\* lets in, so the check of Invite never passes a batch that cannot fit for want
\* of hearing: answers are delivered in the order Zoom decided them, and one
\* that takes somebody out comes before the one that takes the freed place.
MembersFit ==
  \A s \in Slots : IsFiniteSet(Heard(s)) /\ Cardinality(Heard(s)) <= MaxMembers

\* Whoever is inside a lock can go on without the other thread: a pacer
\* holding send_m_ has a frame to send, a pump holding both locks has a slot to
\* copy or the mask to publish, and a pump waiting for send_m_ inside m_ waits
\* for a pacer that wants no lock any more. Between sends the pacer has a
\* published slot to lock for, or is done (RefreshSendIds, SendToSlot).
LocksMove ==
  /\ sendOwner = "pacer" => pacer.pc = "send" /\ \E s \in Slots : NextSlot(s)
  /\ sendOwner = "pump" => refresh.pc = "copy" /\ refresh.at <= CopyEnd
  /\ mOwner = "pump" =>
       \/ refresh.pc = "copy" /\ sendOwner = "pump"
       \/ refresh.pc = "lock" /\ sendOwner # "pump"
  /\ mOwner # "pacer"
  /\ pacer.pc = "slot" => pacer.todo = {} \/ \E s \in readyMask : NextSlot(s)

\* While a tick is in its slots the pacer only leaves slots behind: a frame
\* Zoom refuses, a slot without content or a channel granted meanwhile puts
\* none back, and a send that ends takes its slot with it (SendToSlot).
TickOnlyShrinks ==
  [][pacer.pc \in {"slot", "send"} =>
       /\ pacer'.todo \subseteq pacer.todo
       /\ sendOwner = "pacer" /\ sendOwner' # "pacer" => pacer'.todo # pacer.todo]_vars

\* A tick the pacer started always ends: m_ before send_m_ on the pump, and
\* never both on the pacer, so neither thread waits for the other forever.
TickEnds == pacer.pc \in {"gate", "route", "slot", "send"} ~> pacer.pc = "idle"

----------------------------------------------------------------------------
(* The inductive invariant behind the routing properties.                  *)

\* Who is inside which lock follows from where each thread is.
LockInv ==
  /\ mOwner = (IF refresh.pc = "no" THEN "none" ELSE "pump")
  /\ sendOwner = "pump" <=> refresh.pc = "copy"
  /\ sendOwner = "pacer" <=> pacer.pc = "send"

\* A slot is ready exactly when it holds an id; the id was granted and
\* delivered, and no other slot holds it.
IdInv ==
  /\ \A s \in Slots : channels[s].ready <=> channels[s].id # NoId
  /\ \A s \in Slots : channels[s].id # NoId => channels[s].id \in granted \ grants
  /\ grants \subseteq granted
  /\ DistinctIds

\* A published slot is ready and copied; the loop has copied what it passed.
CopyInv ==
  /\ \A s \in readyMask : channels[s].ready /\ sendIds[s] = channels[s].id
  /\ refresh.pc = "copy" =>
       \A s \in Slots : s < refresh.at => sendIds[s] = channels[s].id
  /\ PublishedView

\* The pacer only ever has published slots to do.
PacerInv == pacer.todo \subseteq readyMask

\* The routing invariant, inductive together with TypeOK.
IInv == LockInv /\ IdInv /\ CopyInv /\ PacerInv /\ WireToOwnChannel
=============================================================================
