------------------------- MODULE TalkbackBankProofs -------------------------
(***************************************************************************)
(* Theorems about TalkbackBank, for every number of slots, users and ids.  *)
(* The routing property (audio only ever goes to the channel its slot      *)
(* holds) is not inductive by itself: IInv adds what each lock protects,   *)
(* that an id belongs to one slot, and that the pacer acts on published    *)
(* slots only. The lemmas below follow the threads of TalkbackBank.        *)
(***************************************************************************)
EXTENDS TalkbackBank, FiniteSetTheorems, SequenceTheorems, WellFoundedInduction, TLAPS

ChannelType == [id: Ids \cup {NoId}, ready: BOOLEAN, members: SUBSET Users]

\* The initial state has the right shape and satisfies the invariant.
LEMMA InitInv == Init => TypeOK /\ IInv
<1> SUFFICES ASSUME Init PROVE TypeOK /\ IInv
  OBVIOUS
<1> USE BankAssumption DEF Init, Slots
<1>1. TypeOK
  BY DEF TypeOK, Threads, IdlePacer, NoFrame
<1>2. LockInv /\ IdInv /\ PacerInv /\ WireToOwnChannel
  BY DEF LockInv, IdInv, PacerInv, WireToOwnChannel, DistinctIds, IdlePacer
<1>3. CopyInv
  BY DEF CopyInv, PublishedView, ReadySlots
<1>4. QED
  BY <1>1, <1>2, <1>3 DEF IInv

\* A step that leaves the bank, the locks, the granted ids and the wire
\* alone, and gives the pacer no new slot, keeps the routing invariant.
LEMMA FrameInv ==
  ASSUME TypeOK, IInv,
         channels' = channels, sendIds' = sendIds, readyMask' = readyMask,
         mOwner' = mOwner, refresh' = refresh, wire' = wire,
         granted \subseteq granted', grants' \cap granted \subseteq grants,
         grants' \subseteq granted',
         pacer'.todo \subseteq readyMask,
         \/ sendOwner' = sendOwner /\ (pacer'.pc = "send" <=> pacer.pc = "send")
         \/ sendOwner = "none" /\ sendOwner' = "pacer" /\ pacer'.pc = "send"
  PROVE  IInv'
<1> USE DEF IInv
<1>1. LockInv'
  BY DEF LockInv
<1>2. IdInv'
  BY DEF IdInv, DistinctIds, TypeOK
<1>3. CopyInv'
  BY DEF CopyInv, PublishedView, ReadySlots
<1>4. PacerInv'
  BY DEF PacerInv
<1>5. WireToOwnChannel'
  BY DEF WireToOwnChannel
<1>6. QED
  BY <1>1, <1>2, <1>3, <1>4, <1>5

\* A response that changes members only: ids and readiness stay.
LEMMA MembersInv ==
  ASSUME TypeOK, IInv, channels' \in [Slots -> ChannelType],
         \A s \in Slots : channels'[s].id = channels[s].id /\ channels'[s].ready = channels[s].ready,
         sendIds' = sendIds, readyMask' = readyMask, mOwner' = mOwner,
         sendOwner' = sendOwner, refresh' = refresh, pacer' = pacer,
         granted' = granted, grants' = grants, wire' = wire
  PROVE  IInv'
<1> USE DEF IInv
<1>1. LockInv' /\ PacerInv'
  BY DEF LockInv, PacerInv
<1>2. IdInv'
  BY DEF IdInv, DistinctIds
<1>3. CopyInv'
  <2>1. readyMask \subseteq Slots /\ ReadySlots' = ReadySlots
    BY DEF TypeOK, ReadySlots
  <2>2. QED
    BY <2>1 DEF CopyInv, PublishedView
<1>4. WireToOwnChannel'
  BY DEF WireToOwnChannel, TypeOK
<1>5. QED
  BY <1>1, <1>2, <1>3, <1>4

\* Granting a slot: the id is new to every slot, so the ids stay distinct;
\* the slot was not published, so what the pacer may use is untouched.
LEMMA CreateResponseInv ==
  ASSUME TypeOK, IInv, NEW id \in Ids, OnCreateChannelResponse(id)
  PROVE  TypeOK' /\ IInv'
<1> USE BankAssumption DEF OnCreateChannelResponse
<1>1. channels' \in [Slots -> ChannelType]
  BY DEF TypeOK, ChannelType
<1>2. TypeOK'
  BY <1>1 DEF TypeOK, Threads, ChannelType
<1>3. LockInv'
  BY DEF IInv, LockInv, PumpFree
<1>4. /\ \A s \in Slots : TakesId(s) => channels[s].id = NoId /\ channels'[s].id = id /\ channels'[s].ready
      /\ \A s \in Slots : ~TakesId(s) => channels'[s] = channels[s]
      /\ \A s, t \in Slots : TakesId(s) /\ TakesId(t) => s = t
  BY DEF TypeOK, TakesId, EmptySlots, Slots
<1>5. IdInv'
  <2>1. \A s \in Slots : channels[s].id # id
    BY DEF IInv, IdInv
  <2>2. DistinctIds'
    BY <1>4, <2>1 DEF IInv, IdInv, DistinctIds
  <2>3. QED
    BY <1>4, <2>2 DEF IInv, IdInv, TypeOK
<1>6. CopyInv'
  BY <1>4 DEF IInv, IdInv, CopyInv, PublishedView, TypeOK
<1>7. PacerInv' /\ WireToOwnChannel'
  BY <1>4 DEF IInv, PacerInv, WireToOwnChannel, TypeOK
<1>8. QED
  BY <1>2, <1>3, <1>5, <1>6, <1>7 DEF IInv

\* RefreshSendIds: the copy never touches what a published slot already
\* shows, and the mask is stored when every slot has been copied.
LEMMA RefreshInv ==
  ASSUME TypeOK, IInv, RefreshLock \/ RefreshCopy \/ RefreshPublish
  PROVE  TypeOK' /\ IInv'
<1> USE BankAssumption
<1>1. CASE RefreshLock
  <2> USE <1>1 DEF RefreshLock, bankVars, zoomVars
  <2>1. TypeOK'
    BY DEF TypeOK, Threads
  <2>2. LockInv' /\ IdInv' /\ PacerInv' /\ WireToOwnChannel'
    BY DEF IInv, LockInv, IdInv, PacerInv, WireToOwnChannel, DistinctIds
  <2>3. CopyInv'
    BY DEF IInv, CopyInv, PublishedView, ReadySlots, Slots
  <2>4. QED
    BY <2>1, <2>2, <2>3 DEF IInv
<1>2. CASE RefreshCopy
  <2> USE <1>2 DEF RefreshCopy, CopyEnd, zoomVars
  <2>1. refresh.at \in Slots /\ refresh.at + 1 \in 0 .. NumSlots
    BY SMTT(60) DEF TypeOK, Slots
  <2>2. /\ refresh'.pc = "copy" /\ refresh'.at = refresh.at + 1
        /\ refresh' \in [pc: {"no", "lock", "copy"}, at: 0 .. NumSlots]
    BY <2>1 DEF TypeOK
  <2>3. sendIds' \in [Slots -> Ids \cup {NoId}]
    BY <2>1 DEF TypeOK
  <2>4. TypeOK'
    BY <2>2, <2>3 DEF TypeOK
  <2>5. LockInv' /\ IdInv' /\ PacerInv' /\ WireToOwnChannel'
    BY <2>2 DEF IInv, LockInv, IdInv, PacerInv, WireToOwnChannel, DistinctIds
  <2>6. \A s \in Slots : sendIds'[s] = IF s = refresh.at THEN channels[s].id ELSE sendIds[s]
    BY <2>1 DEF TypeOK
  <2>7. \A s \in Slots : s < refresh.at + 1 => sendIds'[s] = channels[s].id
    BY <2>1, <2>6 DEF IInv, CopyInv, Slots
  <2>8. \A s \in readyMask : channels[s].ready /\ sendIds'[s] = channels[s].id
    BY <2>6 DEF IInv, CopyInv, TypeOK
  <2>9. CopyInv'
    BY <2>2, <2>7, <2>8 DEF IInv, LockInv, CopyInv, PublishedView
  <2>10. QED
    BY <2>4, <2>5, <2>9 DEF IInv
<1>3. CASE RefreshPublish
  <2> USE <1>3 DEF RefreshPublish, CopyEnd, PublishedMask, zoomVars
  <2>1. TypeOK'
    BY DEF TypeOK, Threads, ReadySlots
  <2>2. \A s \in Slots : sendIds[s] = channels[s].id
    BY DEF IInv, CopyInv, Slots
  <2>3. LockInv' /\ IdInv' /\ WireToOwnChannel'
    BY DEF IInv, LockInv, IdInv, WireToOwnChannel, DistinctIds
  <2>4. CopyInv'
    BY <2>2 DEF CopyInv, PublishedView, ReadySlots
  <2>5. PacerInv'
    BY DEF IInv, CopyInv, PacerInv, ReadySlots, TypeOK
  <2>6. QED
    BY <2>1, <2>3, <2>4, <2>5 DEF IInv
<1>4. QED
  BY <1>1, <1>2, <1>3

\* A delivered membership response touches the members of its slot only.
LEMMA DeliverInv ==
  ASSUME TypeOK, IInv, DeliverMembership
  PROVE  TypeOK' /\ IInv'
<1> USE DEF DeliverMembership, lockVars
<1>1. inbox \in Seq(Response) /\ inbox # <<>>
  BY DEF TypeOK
<1>2. Head(inbox) \in Response /\ inbox' \in Seq(Response)
  BY <1>1
<1>3. /\ channels' \in [Slots -> ChannelType]
      /\ \A s \in Slots : channels'[s].id = channels[s].id /\ channels'[s].ready = channels[s].ready
  <2>1. Head(inbox).uid \in Users /\ channels \in [Slots -> ChannelType]
    BY <1>2 DEF Response, TypeOK, ChannelType
  <2>2. CASE OnChannelUserJoinResponse(Head(inbox))
    BY <2>1, <2>2 DEF OnChannelUserJoinResponse, SlotForId, ChannelType
  <2>3. CASE OnChannelUserLeaveResponse(Head(inbox))
    BY <2>1, <2>3 DEF OnChannelUserLeaveResponse, SlotForId, ChannelType
  <2>4. QED
    BY <2>2, <2>3
<1>4. TypeOK'
  BY <1>2, <1>3 DEF TypeOK, ChannelType
<1>5. IInv'
  BY <1>3, MembersInv
<1>6. QED
  BY <1>4, <1>5

\* The other steps of the pump thread leave routing alone.
LEMMA PumpInv ==
  ASSUME TypeOK, IInv, Pump
  PROVE  TypeOK' /\ IInv'
<1> USE BankAssumption DEF bankVars, lockVars, zoomVars
<1>1. ASSUME NEW accepted \in BOOLEAN, CreateChannels(accepted) PROVE TypeOK' /\ IInv'
  <2> USE <1>1 DEF CreateChannels
  <2>1. TypeOK'
    BY DEF TypeOK
  <2>2. IInv'
    BY FrameInv DEF IInv, IdInv, PacerInv
  <2>3. QED
    BY <2>1, <2>2
<1>2. CASE StartStation
  <2> USE <1>2 DEF StartStation, IdlePacer, StationUp
  <2>1. TypeOK'
    BY DEF TypeOK
  <2>2. IInv'
    BY FrameInv DEF IInv, IdInv, TypeOK
  <2>3. QED
    BY <2>1, <2>2
<1>3. ASSUME NEW s \in Slots, NEW uids \in SUBSET Users, InviteMany(s, uids)
      PROVE  TypeOK' /\ IInv'
  <2> USE <1>3 DEF InviteMany, InviteUsers
  <2>1. channels[s].id \in Ids
    BY DEF TypeOK, IInv, IdInv, CanInvite
  <2>2. TypeOK'
    BY <2>1 DEF TypeOK, Request
  <2>3. IInv'
    BY FrameInv DEF IInv, IdInv, PacerInv
  <2>4. QED
    BY <2>2, <2>3
<1>4. ASSUME NEW s \in Slots, NEW u \in Users, Remove(s, u) PROVE TypeOK' /\ IInv'
  <2> USE <1>4 DEF Remove, RemoveUsers
  <2>1. TypeOK'
    BY DEF TypeOK, Request
  <2>2. IInv'
    BY FrameInv DEF IInv, IdInv, PacerInv
  <2>3. QED
    BY <2>1, <2>2
<1>5. ASSUME NEW s \in Slots, NEW down \in BOOLEAN, SetKey(s, down) PROVE TypeOK' /\ IInv'
  <2> USE <1>5 DEF SetKey
  <2>1. TypeOK'
    BY DEF TypeOK
  <2>2. IInv'
    BY FrameInv DEF IInv, IdInv, PacerInv
  <2>3. QED
    BY <2>1, <2>2
<1>6. QED
  BY <1>1, <1>2, <1>3, <1>4, <1>5, CreateResponseInv, RefreshInv, DeliverInv DEF Pump

\* The pacer: its slots to do come from the published mask, and the id it
\* sends on is the one its slot holds.
LEMMA PacerStepInv ==
  ASSUME TypeOK, IInv, Pacer
  PROVE  TypeOK' /\ IInv'
<1> USE DEF bankVars, lockVars, zoomVars
<1>1. ASSUME /\ pacer' \in [pc: {"off", "idle", "gate", "route", "slot", "send"},
                           keys: SUBSET Slots, todo: SUBSET Slots]
             /\ pacer'.todo \subseteq readyMask
             /\ pacer'.pc # "send" /\ pacer.pc # "send"
             /\ UNCHANGED <<bankVars, lockVars, zoomVars, wire>>
      PROVE  TypeOK' /\ IInv'
  <2>1. TypeOK'
    BY <1>1 DEF TypeOK
  <2>2. IInv'
    BY <1>1, FrameInv DEF IInv, IdInv
  <2>3. QED
    BY <2>1, <2>2
<1>2. /\ pacer \in [pc: {"off", "idle", "gate", "route", "slot", "send"},
                    keys: SUBSET Slots, todo: SUBSET Slots]
      /\ pacer.todo \subseteq readyMask /\ keyMask \in SUBSET Slots
  BY DEF TypeOK, IInv, PacerInv
<1>3. CASE PacerTick
  BY <1>1, <1>2, <1>3 DEF PacerTick
<1>4. CASE CanSend
  BY <1>1, <1>2, <1>4 DEF CanSend, IdlePacer
<1>5. CASE Route
  BY <1>1, <1>2, <1>5 DEF Route
<1>6. CASE SkipSlot
  BY <1>1, <1>2, <1>6 DEF SkipSlot
<1>7. CASE TickDone
  <2> USE <1>7 DEF TickDone, IdlePacer, NoFrame
  <2>1. TypeOK'
    BY BankAssumption, SMTT(60) DEF TypeOK, Slots
  <2>2. IInv'
    BY DEF IInv, LockInv, IdInv, CopyInv, PacerInv, DistinctIds, PublishedView, ReadySlots,
           WireToOwnChannel
  <2>3. QED
    BY <2>1, <2>2
<1>8. CASE SendLock
  <2> USE <1>8 DEF SendLock
  <2>1. /\ pacer' \in [pc: {"off", "idle", "gate", "route", "slot", "send"},
                       keys: SUBSET Slots, todo: SUBSET Slots]
        /\ pacer'.todo = pacer.todo /\ pacer'.pc = "send"
    BY DEF TypeOK
  <2>2. TypeOK'
    BY <2>1 DEF TypeOK, Threads
  <2>3. IInv'
    BY <2>1, FrameInv DEF IInv, IdInv, PacerInv
  <2>4. QED
    BY <2>2, <2>3
<1>9. ASSUME NEW accepted \in BOOLEAN, SendAudio(accepted) PROVE TypeOK' /\ IInv'
  <2> USE <1>9 DEF SendAudio, Served
  <2>1. PICK s \in Slots :
          /\ s \in pacer.todo
          /\ wire' = [slot |-> s, id |-> sendIds[s]]
          /\ sentMask' = IF accepted THEN sentMask \cup {s} ELSE sentMask
          /\ pacer' = [pacer EXCEPT !.pc = "slot", !.keys = @ \ {s}, !.todo = @ \ {s}]
    BY DEF NextSlot
  <2>2. /\ pacer' \in [pc: {"off", "idle", "gate", "route", "slot", "send"},
                       keys: SUBSET Slots, todo: SUBSET Slots]
        /\ pacer'.todo \subseteq pacer.todo /\ pacer'.pc = "slot"
    BY <2>1 DEF TypeOK
  <2>3. channels[s].ready /\ sendIds[s] = channels[s].id /\ channels[s].id # NoId
    BY <2>1 DEF IInv, PacerInv, CopyInv, IdInv
  <2>4. wire' \in [slot: Slots, id: Ids \cup {NoId}]
    BY <2>1 DEF TypeOK
  <2>5. TypeOK'
    BY <2>1, <2>2, <2>4 DEF TypeOK, Threads
  <2>6. LockInv'
    BY <2>2 DEF IInv, LockInv
  <2>7. IdInv' /\ CopyInv' /\ PacerInv'
    BY <2>2 DEF IInv, IdInv, CopyInv, PacerInv, DistinctIds, PublishedView, ReadySlots
  <2>8. WireToOwnChannel'
    BY <2>1, <2>3 DEF WireToOwnChannel
  <2>9. QED
    BY <2>5, <2>6, <2>7, <2>8 DEF IInv
<1>10. QED
  BY <1>3, <1>4, <1>5, <1>6, <1>7, <1>8, <1>9 DEF Pacer

\* Zoom: a new grant is an id nobody has seen; nothing else reaches the bank
\* before a response is delivered.
LEMMA ZoomInv ==
  ASSUME TypeOK, IInv, Zoom
  PROVE  TypeOK' /\ IInv'
<1> USE DEF bankVars, lockVars, zoomVars
<1>1. ASSUME NEW id \in Ids, ZoomGrants(id) PROVE TypeOK' /\ IInv'
  <2> USE <1>1 DEF ZoomGrants
  <2>1. TypeOK'
    BY DEF TypeOK
  <2>2. IInv'
    BY FrameInv DEF IInv, IdInv, PacerInv
  <2>3. QED
    BY <2>1, <2>2
<1>2. CASE ZoomRefusesChannel
  <2> USE <1>2 DEF ZoomRefusesChannel
  <2>1. TypeOK'
    BY DEF TypeOK
  <2>2. IInv'
    BY FrameInv DEF IInv, IdInv, PacerInv
  <2>3. QED
    BY <2>1, <2>2
<1>3. ASSUME NEW op \in {"join", "leave"}, NEW c \in Ids, NEW u \in Users,
             NEW event \in JoinEvents \cup LeaveEvents,
             inbox' = Answer(op, c, u, event), unheard' \in SUBSET (Ids \X Users),
             zoomMembers' \in [Ids -> SUBSET Users], flight' \in SUBSET flight,
             UNCHANGED <<bankVars, lockVars, pacer, asked, grants, granted, wire>>
      PROVE  TypeOK' /\ IInv'
  <2>1. [op |-> op, id |-> c, uid |-> u, event |-> event] \in Response
    BY DEF Response
  <2>2. inbox' \in Seq(Response)
    BY <1>3, <2>1 DEF Answer, TypeOK
  <2>3. TypeOK'
    BY <1>3, <2>2 DEF TypeOK
  <2>4. IInv'
    BY <1>3, FrameInv DEF IInv, IdInv, PacerInv
  <2>5. QED
    BY <2>3, <2>4
<1>4. ASSUME NEW q \in flight, NEW event \in JoinEvents, ZoomDecidesInvite(q, event)
      PROVE  TypeOK' /\ IInv'
  <2> USE <1>4 DEF ZoomDecidesInvite
  <2>1. q.id \in Ids /\ q.uid \in Users
    BY DEF TypeOK, Request
  <2>2. zoomMembers' \in [Ids -> SUBSET Users]
    BY <2>1, SMTT(60) DEF TypeOK
  <2>3. unheard' \in SUBSET (Ids \X Users)
    BY DEF TypeOK
  <2>4. QED
    BY <1>3, <2>1, <2>2, <2>3
<1>5. ASSUME NEW q \in flight, NEW event \in LeaveEvents, ZoomDecidesRemove(q, event)
      PROVE  TypeOK' /\ IInv'
  <2> USE <1>5 DEF ZoomDecidesRemove
  <2>1. q.id \in Ids /\ q.uid \in Users
    BY DEF TypeOK, Request
  <2>2. zoomMembers' \in [Ids -> SUBSET Users]
    BY <2>1, SMTT(60) DEF TypeOK
  <2>3. unheard' \in SUBSET (Ids \X Users)
    BY <2>1 DEF TypeOK
  <2>4. QED
    BY <1>3, <2>1, <2>2, <2>3
<1>6. ASSUME NEW c \in Ids, NEW u \in Users, ZoomDropsLeaver(c, u) PROVE TypeOK' /\ IInv'
  <2> USE <1>6 DEF ZoomDropsLeaver
  <2>1. zoomMembers' \in [Ids -> SUBSET Users] /\ unheard' \in SUBSET (Ids \X Users)
    BY DEF TypeOK
  <2>2. QED
    BY <1>3, <2>1 DEF LeaveEvents
<1>7. QED
  BY <1>1, <1>2, <1>4, <1>5, <1>6 DEF Zoom

\* TypeOK and IInv are preserved by every step, stuttering included.
LEMMA NextInv == TypeOK /\ IInv /\ [Next]_vars => TypeOK' /\ IInv'
<1> SUFFICES ASSUME TypeOK, IInv, [Next]_vars PROVE TypeOK' /\ IInv'
  OBVIOUS
<1>1. CASE Next
  BY <1>1, PumpInv, PacerStepInv, ZoomInv DEF Next
<1>2. CASE UNCHANGED vars
  <2> USE <1>2 DEF vars, bankVars, lockVars, zoomVars
  <2>1. TypeOK'
    BY DEF TypeOK
  <2>2. IInv'
    BY FrameInv DEF IInv, PacerInv, IdInv
  <2>3. QED
    BY <2>1, <2>2
<1>3. QED
  BY <1>1, <1>2

\* The routing invariant holds in every reachable state of the bank.
THEOREM Invariance == Spec => [](TypeOK /\ IInv)
  BY InitInv, NextInv, PTL DEF Spec

\* Type correctness, for every number of slots, users and channel ids.
THEOREM TypeCorrect == Spec => []TypeOK
  BY Invariance, PTL

\* Audio only ever goes to the channel its slot holds: the routing rule of
\* SendToSlot against every interleaving with OnCreateChannelResponse.
THEOREM Routing == Spec => []WireToOwnChannel
<1>1. TypeOK /\ IInv => WireToOwnChannel
  BY DEF IInv
<1>2. QED
  BY <1>1, Invariance, PTL

\* No two slots share a channel.
THEOREM OneSlotPerChannel == Spec => []DistinctIds
<1>1. TypeOK /\ IInv => DistinctIds
  BY DEF IInv, IdInv
<1>2. QED
  BY <1>1, Invariance, PTL

\* The pacer's snapshot is the bank whenever no callback is inside m_.
THEOREM SnapshotAgrees == Spec => []PublishedView
<1>1. TypeOK /\ IInv => PublishedView
  BY DEF IInv, CopyInv
<1>2. QED
  BY <1>1, Invariance, PTL

----------------------------------------------------------------------------
(* Membership: what is on its way to the desk.                             *)

\* A leave of u from channel c, at place i of the inbox.
LeaveAt(i, c, u) ==
  inbox[i].op = "leave" /\ inbox[i].event = "Ok" /\ inbox[i].id = c /\ inbox[i].uid = u

\* Whom the desk may count on a channel: whom Zoom has there, and whom it once
\* took out without an Ok.
Held == [c \in Ids |-> zoomMembers[c] \cup {u \in Users : <<c, u>> \in unheard}]

\* A confirmed join that is still on its way names somebody held, or whose
\* leave comes behind it.
TruthInv ==
  /\ \A s \in Slots : channels[s].members # {} => channels[s].id # NoId
  /\ \A s \in Slots : \A u \in channels[s].members :
       \/ u \in Held[channels[s].id]
       \/ \E i \in 1 .. Len(inbox) : LeaveAt(i, channels[s].id, u)
  /\ \A i \in 1 .. Len(inbox) :
       inbox[i].op = "join" /\ inbox[i].event \in Confirmed =>
         \/ inbox[i].uid \in Held[inbox[i].id]
         \/ \E j \in i + 1 .. Len(inbox) : LeaveAt(j, inbox[i].id, inbox[i].uid)

\* Zoom answers: what an answer takes away, it says.
LEMMA AnswerMembers ==
  ASSUME TypeOK, TruthInv,
         NEW op \in {"join", "leave"}, NEW c \in Ids, NEW u \in Users,
         NEW event \in JoinEvents \cup LeaveEvents,
         inbox' = Answer(op, c, u, event), channels' = channels,
         \A d \in Ids, v \in Users :
           v \in Held[d] /\ v \notin Held'[d] =>
             d = c /\ v = u /\ op = "leave" /\ event = "Ok",
         op = "join" /\ event \in Confirmed => u \in Held'[c]
  PROVE  TruthInv'
<1> DEFINE r == [op |-> op, id |-> c, uid |-> u, event |-> event]
<1>1. /\ inbox \in Seq(Response) /\ r \in Response /\ inbox' = Append(inbox, r)
      /\ channels \in [Slots -> [id: Ids \cup {NoId}, ready: BOOLEAN, members: SUBSET Users]]
  BY DEF TypeOK, Response, Answer
<1>2. /\ Len(inbox') = Len(inbox) + 1 /\ Len(inbox) \in Nat
      /\ inbox'[Len(inbox) + 1] = r
      /\ \A i \in 1 .. Len(inbox) : inbox'[i] = inbox[i] /\ inbox[i] \in Response
  BY <1>1
<1>3. ASSUME NEW d \in Ids, NEW v \in Users, NEW n \in 1 .. Len(inbox) + 1,
             v \in Held[d] \/ \E j \in n .. Len(inbox) : LeaveAt(j, d, v)
      PROVE  v \in Held'[d] \/ \E j \in n .. Len(inbox') : LeaveAt(j, d, v)'
  <2>1. CASE \E j \in n .. Len(inbox) : LeaveAt(j, d, v)
    BY <1>2, <2>1 DEF LeaveAt
  <2>2. CASE v \in Held[d] /\ v \notin Held'[d]
    BY <1>2, <2>2 DEF LeaveAt
  <2>3. QED
    BY <1>3, <2>1, <2>2
<1>4. ASSUME NEW s \in Slots, NEW v \in channels[s].members
      PROVE  \/ v \in Held'[channels[s].id]
             \/ \E j \in 1 .. Len(inbox') : LeaveAt(j, channels[s].id, v)'
  <2>1. v \in Users /\ channels[s].id \in Ids
    BY <1>1 DEF TruthInv
  <2>2. QED
    BY <1>2, <1>3, <2>1 DEF TruthInv
<1>5. ASSUME NEW i \in 1 .. Len(inbox'), inbox'[i].op = "join", inbox'[i].event \in Confirmed
      PROVE  \/ inbox'[i].uid \in Held'[inbox'[i].id]
             \/ \E j \in i + 1 .. Len(inbox') : LeaveAt(j, inbox[i].id, inbox[i].uid)'
  <2>1. CASE i = Len(inbox) + 1
    BY <1>2, <1>5, <2>1
  <2>2. CASE i \in 1 .. Len(inbox)
    <3>1. inbox'[i] = inbox[i] /\ inbox[i].id \in Ids /\ inbox[i].uid \in Users
          /\ i + 1 \in 1 .. Len(inbox) + 1
      BY <1>2, <2>2 DEF Response
    <3>2. \/ inbox[i].uid \in Held[inbox[i].id]
          \/ \E j \in i + 1 .. Len(inbox) : LeaveAt(j, inbox[i].id, inbox[i].uid)
      BY <1>5, <2>2, <3>1 DEF TruthInv
    <3>3. QED
      BY <1>3, <3>1, <3>2
  <2>3. QED
    BY <1>2, <2>1, <2>2
<1>6. QED
  <2>1. \A s \in Slots : channels'[s].members # {} => channels'[s].id # NoId
    BY DEF TruthInv
  <2>2. QED
    BY <1>4, <1>5, <2>1 DEF TruthInv, Confirmed, LeaveAt

\* The desk takes one response in: a join adds somebody Zoom has or is about
\* to lose, a leave takes its person out.
LEMMA DeliverMembers ==
  ASSUME TypeOK, IInv, TruthInv, DeliverMembership
  PROVE  TruthInv'
<1> DEFINE r == Head(inbox)
<1> USE DEF DeliverMembership
<1>1. /\ inbox \in Seq(Response) /\ inbox # <<>> /\ inbox' = Tail(inbox)
      /\ channels \in [Slots -> [id: Ids \cup {NoId}, ready: BOOLEAN, members: SUBSET Users]]
      /\ Held' = Held
  BY DEF TypeOK, Held
<1>2. /\ r = inbox[1] /\ r \in Response /\ Len(inbox) \in Nat /\ Len(inbox) >= 1
      /\ Len(inbox') = Len(inbox) - 1
      /\ \A i \in 1 .. Len(inbox') : inbox'[i] = inbox[i + 1]
  BY <1>1
<1>3. ASSUME NEW d, NEW v, NEW n \in 1 .. Len(inbox') + 1, \E j \in n + 1 .. Len(inbox) : LeaveAt(j, d, v)
      PROVE  \E j \in n .. Len(inbox') : LeaveAt(j, d, v)'
  <2>1. PICK j \in n + 1 .. Len(inbox) : LeaveAt(j, d, v)
    BY <1>3
  <2>2. j - 1 \in n .. Len(inbox') /\ inbox'[j - 1] = inbox[j]
    BY <1>2
  <2>3. QED
    BY <2>1, <2>2 DEF LeaveAt
<1>4. ASSUME NEW s \in Slots
      PROVE  /\ channels'[s].id = channels[s].id
             /\ channels'[s].members # {} => channels[s].members # {} \/ channels[s].id = r.id
             /\ \A v \in channels'[s].members \ channels[s].members :
                  r.op = "join" /\ r.event \in Confirmed /\ channels[s].id = r.id /\ v = r.uid
             /\ r.op = "leave" /\ r.event = "Ok" /\ channels[s].id = r.id =>
                  r.uid \notin channels'[s].members
  BY <1>1, <1>2 DEF OnChannelUserJoinResponse, OnChannelUserLeaveResponse, SlotForId, Response
<1>5. \A s \in Slots : channels'[s].members # {} => channels'[s].id # NoId
  BY <1>2, <1>4, BankAssumption DEF TruthInv, Response
<1>6. ASSUME NEW s \in Slots, NEW v \in channels'[s].members
      PROVE  \/ v \in Held[channels[s].id]
             \/ \E j \in 1 .. Len(inbox') : LeaveAt(j, channels[s].id, v)'
  <2>1. CASE v \in channels[s].members
    <3>1. CASE \E i \in 1 .. Len(inbox) : LeaveAt(i, channels[s].id, v)
      <4>1. PICK i \in 1 .. Len(inbox) : LeaveAt(i, channels[s].id, v)
        BY <3>1
      <4>2. i # 1
        BY <1>2, <1>4, <4>1 DEF LeaveAt
      <4>3. i - 1 \in 1 .. Len(inbox') /\ inbox'[i - 1] = inbox[i]
        BY <1>2, <4>2
      <4>4. QED
        BY <1>4, <4>1, <4>3 DEF LeaveAt
    <3>2. QED
      BY <2>1, <3>1 DEF TruthInv
  <2>2. CASE v \notin channels[s].members
    <3>1. r.op = "join" /\ r.event \in Confirmed /\ channels[s].id = r.id /\ v = r.uid
      BY <1>4, <2>2
    <3>2. v \in Held[channels[s].id] \/ \E j \in 1 + 1 .. Len(inbox) : LeaveAt(j, r.id, r.uid)
      BY <1>2, <3>1 DEF TruthInv
    <3>3. \/ v \in Held[channels[s].id]
          \/ \E j \in 1 .. Len(inbox') :
               /\ inbox'[j].op = "leave" /\ inbox'[j].event = "Ok"
               /\ inbox'[j].id = r.id /\ inbox'[j].uid = r.uid
      BY <1>2, <1>3, <3>2, SMTT(60) DEF LeaveAt
    <3>4. QED
      BY <1>4, <3>1, <3>3 DEF LeaveAt
  <2>3. QED
    BY <2>1, <2>2
<1>7. ASSUME NEW i \in 1 .. Len(inbox'), inbox'[i].op = "join", inbox'[i].event \in Confirmed
      PROVE  \/ inbox'[i].uid \in Held[inbox'[i].id]
             \/ \E j \in i + 1 .. Len(inbox') : LeaveAt(j, inbox[i].id, inbox[i].uid)'
  <2>1. i + 1 \in 1 .. Len(inbox) /\ inbox'[i] = inbox[i + 1] /\ i + 1 \in 1 .. Len(inbox') + 1
    BY <1>2
  <2>2. \/ inbox'[i].uid \in Held[inbox'[i].id]
        \/ \E j \in (i + 1) + 1 .. Len(inbox) : LeaveAt(j, inbox'[i].id, inbox'[i].uid)
    BY <1>7, <2>1 DEF TruthInv
  <2>3. CASE \E j \in (i + 1) + 1 .. Len(inbox) : LeaveAt(j, inbox'[i].id, inbox'[i].uid)
    <3>1. PICK j \in (i + 1) + 1 .. Len(inbox) : LeaveAt(j, inbox'[i].id, inbox'[i].uid)
      BY <2>3
    <3>2. j - 1 \in i + 1 .. Len(inbox') /\ inbox'[j - 1] = inbox[j]
      BY <1>2, <3>1
    <3>3. QED
      BY <3>1, <3>2 DEF LeaveAt
  <2>4. QED
    BY <2>2, <2>3
<1>8. \A s \in Slots : \A v \in channels'[s].members :
        \/ v \in Held'[channels'[s].id]
        \/ \E j \in 1 .. Len(inbox') :
             /\ inbox'[j].op = "leave" /\ inbox'[j].event = "Ok"
             /\ inbox'[j].id = channels'[s].id /\ inbox'[j].uid = v
  BY <1>1, <1>4, <1>6 DEF LeaveAt
<1>9. \A i \in 1 .. Len(inbox') :
        inbox'[i].op = "join" /\ inbox'[i].event \in Confirmed =>
          \/ inbox'[i].uid \in Held'[inbox'[i].id]
          \/ \E j \in i + 1 .. Len(inbox') :
               /\ inbox'[j].op = "leave" /\ inbox'[j].event = "Ok"
               /\ inbox'[j].id = inbox'[i].id /\ inbox'[j].uid = inbox'[i].uid
  BY <1>1, <1>7 DEF LeaveAt
<1>10. Confirmed' = Confirmed
  BY DEF Confirmed
<1>11. QED
  <2> HIDE DEF r
  <2> QED
    BY <1>5, <1>8, <1>9, <1>10 DEF TruthInv, LeaveAt

\* Whatever else changes leaves the channels, the inbox and Zoom's members
\* alone, or only empties and fills slots that have none.
LEMMA QuietMembers ==
  ASSUME TruthInv, inbox' = inbox, zoomMembers' = zoomMembers, unheard' = unheard,
         \A s \in Slots : channels'[s].members = channels[s].members,
         \A s \in Slots : channels[s].id # NoId => channels'[s].id = channels[s].id
  PROVE  TruthInv'
<1>1. Held' = Held
  BY DEF Held
<1> QED
  BY <1>1 DEF TruthInv, LeaveAt, Confirmed

\* Every step keeps it.
LEMMA NextMembers ==
  ASSUME TypeOK, IInv, TruthInv, [Next]_vars
  PROVE  TruthInv'
<1> USE DEF vars, bankVars, lockVars, zoomVars
<1>1. ASSUME channels' = channels, inbox' = inbox, zoomMembers' = zoomMembers,
             unheard' = unheard
      PROVE  TruthInv'
  BY <1>1, QuietMembers
<1>2. ASSUME NEW id \in Ids, OnCreateChannelResponse(id) PROVE TruthInv'
  <2>1. /\ \A s \in Slots : channels'[s].members = channels[s].members
        /\ \A s \in Slots : channels[s].id # NoId => channels'[s].id = channels[s].id
    BY <1>2 DEF OnCreateChannelResponse, TakesId, EmptySlots, TypeOK
  <2>2. QED
    BY <1>2, <2>1, QuietMembers DEF OnCreateChannelResponse
<1>3. CASE DeliverMembership
  BY <1>3, DeliverMembers
<1>4. CASE Pump
  <2>1. ASSUME NEW accepted \in BOOLEAN, CreateChannels(accepted) PROVE TruthInv'
    BY <1>1, <2>1 DEF CreateChannels
  <2>2. CASE RefreshLock \/ RefreshCopy \/ RefreshPublish \/ StartStation
    BY <1>1, <2>2 DEF RefreshLock, RefreshCopy, RefreshPublish, StartStation
  <2>3. ASSUME NEW s \in Slots, NEW uids \in SUBSET Users, InviteMany(s, uids) PROVE TruthInv'
    BY <1>1, <2>3 DEF InviteMany, InviteUsers
  <2>4. ASSUME NEW s \in Slots, NEW u \in Users, Remove(s, u) PROVE TruthInv'
    BY <1>1, <2>4 DEF Remove, RemoveUsers
  <2>5. ASSUME NEW s \in Slots, NEW down \in BOOLEAN, SetKey(s, down) PROVE TruthInv'
    BY <1>1, <2>5 DEF SetKey
  <2>6. QED
    BY <1>2, <1>3, <1>4, <2>1, <2>2, <2>3, <2>4, <2>5 DEF Pump
<1>5. CASE Pacer
  <2>1. ASSUME NEW accepted \in BOOLEAN, SendAudio(accepted) PROVE TruthInv'
    BY <1>1, <2>1 DEF SendAudio
  <2>2. QED
    BY <1>1, <1>5, <2>1 DEF Pacer, PacerTick, CanSend, Route, SkipSlot, SendLock, TickDone
<1>6. CASE Zoom
  <2>1. \A q \in flight : q.id \in Ids /\ q.uid \in Users
    BY DEF TypeOK, Request
  <2>2. zoomMembers \in [Ids -> SUBSET Users]
    BY DEF TypeOK
  <2>3. ASSUME NEW id \in Ids, ZoomGrants(id) PROVE TruthInv'
    BY <1>1, <2>3 DEF ZoomGrants
  <2>4. CASE ZoomRefusesChannel
    BY <1>1, <2>4 DEF ZoomRefusesChannel
  <2>5. ASSUME NEW q \in flight, NEW event \in JoinEvents, ZoomDecidesInvite(q, event)
        PROVE  TruthInv'
    <3>1. /\ inbox' = Answer("join", q.id, q.uid, event) /\ channels' = channels
          /\ unheard' = unheard
          /\ \A d \in Ids, v \in Users : v \in zoomMembers[d] => v \in zoomMembers'[d]
          /\ event \in Confirmed => q.uid \in zoomMembers'[q.id]
      BY <2>1, <2>2, <2>5 DEF ZoomDecidesInvite, Confirmed
    <3>2. /\ \A d \in Ids, v \in Users : v \in Held[d] => v \in Held'[d]
          /\ event \in Confirmed => q.uid \in Held'[q.id]
      BY <2>1, <3>1 DEF Held
    <3>3. QED
      BY <2>1, <3>1, <3>2, AnswerMembers
  <2>6. ASSUME NEW q \in flight, NEW event \in LeaveEvents, ZoomDecidesRemove(q, event)
        PROVE  TruthInv'
    <3>1. inbox' = Answer("leave", q.id, q.uid, event) /\ channels' = channels
      BY <2>6 DEF ZoomDecidesRemove
    <3>2. CASE event = "Ok"
      <4>1. /\ unheard' = unheard
            /\ \A d \in Ids, v \in Users :
                 v \in zoomMembers[d] /\ v \notin zoomMembers'[d] => d = q.id /\ v = q.uid
        BY <2>1, <2>2, <2>6, <3>2 DEF ZoomDecidesRemove
      <4>2. \A d \in Ids, v \in Users : v \in Held[d] /\ v \notin Held'[d] => d = q.id /\ v = q.uid
        BY <4>1 DEF Held
      <4> QED
        BY <2>1, <3>1, <3>2, <4>2, AnswerMembers
    <3>3. CASE event # "Ok"
      <4>1. /\ unheard \subseteq unheard'
            /\ \A d \in Ids, v \in Users :
                 v \in zoomMembers[d] /\ v \notin zoomMembers'[d] => <<d, v>> \in unheard'
        BY <2>1, <2>2, <2>6, <3>3 DEF ZoomDecidesRemove
      <4>2. \A d \in Ids, v \in Users : v \in Held[d] => v \in Held'[d]
        BY <4>1 DEF Held
      <4> QED
        BY <2>1, <3>1, <4>2, AnswerMembers
    <3> QED
      BY <3>2, <3>3
  <2>7. ASSUME NEW c \in Ids, NEW u \in Users, ZoomDropsLeaver(c, u) PROVE TruthInv'
    <3>1. /\ inbox' = Answer("leave", c, u, "Ok") /\ channels' = channels /\ unheard' = unheard
          /\ \A d \in Ids, v \in Users :
               v \in zoomMembers[d] /\ v \notin zoomMembers'[d] => d = c /\ v = u
      BY <2>2, <2>7 DEF ZoomDropsLeaver
    <3>2. \A d \in Ids, v \in Users : v \in Held[d] /\ v \notin Held'[d] => d = c /\ v = u
      BY <3>1 DEF Held
    <3> QED
      BY <3>1, <3>2, AnswerMembers DEF LeaveEvents
  <2>8. QED
    BY <1>6, <2>3, <2>4, <2>5, <2>6, <2>7 DEF Zoom
<1>7. QED
  BY <1>1, <1>4, <1>5, <1>6 DEF Next

\* The desk never counts somebody as listening whom Zoom does not have in the
\* channel, whatever is asked, refused, answered late or left, but for those Zoom
\* took out under a Timeout.
THEOREM Membership == Spec => []MembersAreReal
<1>1. Init => TruthInv
  BY DEF Init, TruthInv
<1>2. TypeOK /\ TruthInv => MembersAreReal
  <2> SUFFICES ASSUME TypeOK, TruthInv, NEW s \in Slots, NEW u \in channels[s].members
               PROVE  \/ u \in zoomMembers[channels[s].id]
                      \/ <<channels[s].id, u>> \in unheard
                      \/ \E i \in 1 .. Len(inbox) : LeaveAt(i, channels[s].id, u)
    BY DEF MembersAreReal, LeaveAt
  <2>1. channels[s].id \in Ids
    BY DEF TypeOK, TruthInv
  <2>2. u \in Held[channels[s].id] \/ \E i \in 1 .. Len(inbox) : LeaveAt(i, channels[s].id, u)
    BY DEF TruthInv
  <2> QED
    BY <2>1, <2>2 DEF Held
<1>3. QED
  BY <1>1, <1>2, NextMembers, Invariance, PTL DEF Spec

----------------------------------------------------------------------------
(* Room in a channel: the answers on their way, taken in one by one.       *)

\* Whom Zoom took out of channel c without an Ok.
Lost(c) == {u \in Users : <<c, u>> \in unheard}

\* Who counts as a member of channel c once r is delivered, if m did before.
After(m, r, c) ==
  IF r.id # c THEN m
  ELSE IF r.op = "join" /\ r.event \in Confirmed THEN m \cup {r.uid}
  ELSE IF r.op = "leave" /\ r.event = "Ok" THEN m \ {r.uid}
  ELSE m

\* What channel c went through while the answers in the inbox were decided:
\* Zoom let nobody in beyond the limit, and each answer says what changed, but
\* for who is lost.
Past(c, z) ==
  /\ z \in [0 .. Len(inbox) -> SUBSET Users]
  /\ z[Len(inbox)] = zoomMembers[c]
  /\ \A k \in 0 .. Len(inbox) : IsFiniteSet(z[k]) /\ Cardinality(z[k]) <= MaxMembers
  /\ \A k \in 1 .. Len(inbox) : After(z[k - 1], inbox[k], c) \ Lost(c) \subseteq z[k]
  /\ \A s \in Slots : channels[s].id = c => channels[s].members \ Lost(c) \subseteq z[0]

FitInv == \A c \in Ids : \E z : Past(c, z)

LEMMA AfterGrows ==
  ASSUME NEW m, NEW n, NEW l, m \ l \subseteq n, NEW r, NEW c
  PROVE  After(m, r, c) \ l \subseteq After(n, r, c)
BY DEF After

\* Such a past, seen from the next state.
LEMMA PastNow ==
  ASSUME NEW c \in Ids, NEW n \in Nat, Len(inbox') = n,
         \E z : /\ z \in [0 .. n -> SUBSET Users]
                /\ z[n] = zoomMembers'[c]
                /\ \A k \in 0 .. n : IsFiniteSet(z[k]) /\ Cardinality(z[k]) <= MaxMembers
                /\ \A k \in 1 .. n : After(z[k - 1], inbox'[k], c) \ Lost(c)' \subseteq z[k]
                /\ \A s \in Slots : channels'[s].id = c => channels'[s].members \ Lost(c)' \subseteq z[0]
  PROVE  \E z : Past(c, z)'
<1> USE DEF After, Confirmed, Lost
<1> QED
  BY DEF Past

\* An answer goes in at the end, with Zoom's members as they are by now.
LEMMA AnswerFits ==
  ASSUME TypeOK, FitInv, channels' = channels, NEW r \in Response, inbox' = Append(inbox, r),
         zoomMembers' \in [Ids -> SUBSET Users], unheard \subseteq unheard',
         \A c \in Ids : After(zoomMembers[c], r, c) \ Lost(c)' \subseteq zoomMembers'[c],
         \A c \in Ids : IsFiniteSet(zoomMembers[c]) /\ Cardinality(zoomMembers[c]) <= MaxMembers
                          => IsFiniteSet(zoomMembers'[c])
                             /\ Cardinality(zoomMembers'[c]) <= MaxMembers
  PROVE  FitInv'
<1> SUFFICES ASSUME NEW c \in Ids PROVE \E z : Past(c, z)'
  BY DEF FitInv
<1>1. PICK z : Past(c, z)
  BY DEF FitInv
<1> DEFINE n == Len(inbox)
           y == [k \in 0 .. n + 1 |-> IF k = n + 1 THEN zoomMembers'[c] ELSE z[k]]
<1> DEFINE gone == Lost(c)
           now == Lost(c)'
<1>0. gone \subseteq now
  BY DEF Lost
<1> HIDE DEF gone, now
<1>2. /\ n \in Nat /\ Len(inbox') = n + 1 /\ inbox'[n + 1] = r
      /\ \A k \in 1 .. n : inbox'[k] = inbox[k]
  BY DEF TypeOK
<1> HIDE DEF n
<1>3. /\ z \in [0 .. n -> SUBSET Users] /\ z[n] = zoomMembers[c]
      /\ \A k \in 0 .. n : IsFiniteSet(z[k]) /\ Cardinality(z[k]) <= MaxMembers
      /\ \A k \in 1 .. n : After(z[k - 1], inbox[k], c) \ gone \subseteq z[k]
      /\ \A s \in Slots : channels[s].id = c => channels[s].members \ gone \subseteq z[0]
  BY <1>1 DEF Past, n, gone
<1>4. /\ y[n + 1] = zoomMembers'[c] /\ \A k \in 0 .. n : y[k] = z[k]
  BY <1>2
<1>5. y \in [0 .. n + 1 -> SUBSET Users]
  BY <1>2, <1>3
<1> HIDE DEF y
<1>6. ASSUME NEW k \in 0 .. n + 1
      PROVE  IsFiniteSet(y[k]) /\ Cardinality(y[k]) <= MaxMembers
  <2>1. CASE k \in 0 .. n
    BY <1>3, <1>4, <2>1
  <2>2. CASE k = n + 1
    <3>1. IsFiniteSet(z[n]) /\ Cardinality(z[n]) <= MaxMembers
      BY <1>2, <1>3
    <3> QED
      BY <1>3, <1>4, <2>2, <3>1
  <2> QED
    BY <1>2, <2>1, <2>2
<1>7. ASSUME NEW k \in 1 .. n + 1
      PROVE  After(y[k - 1], inbox'[k], c) \ now \subseteq y[k]
  <2>1. CASE k \in 1 .. n
    <3>1. k \in 0 .. n /\ k - 1 \in 0 .. n
      BY <1>2, <2>1
    <3> QED
      BY <1>0, <1>2, <1>3, <1>4, <2>1, <3>1
  <2>2. CASE k = n + 1
    <3>1. k - 1 = n /\ n \in 0 .. n
      BY <1>2, <2>2
    <3>2. After(zoomMembers[c], r, c) \ now \subseteq zoomMembers'[c]
      BY DEF now
    <3> QED
      BY <1>2, <1>3, <1>4, <2>2, <3>1, <3>2
  <2> QED
    BY <1>2, <2>1, <2>2
<1>8. \A s \in Slots : channels'[s].id = c => channels'[s].members \ now \subseteq y[0]
  <2>1. 0 \in 0 .. n
    BY <1>2
  <2> QED
    BY <1>0, <1>3, <1>4, <2>1
<1> QED
  BY <1>2, <1>4, <1>5, <1>6, <1>7, <1>8, PastNow DEF now

\* The desk takes the oldest answer in: what it then counts is no more than
\* the channel had once that answer was decided.
LEMMA DeliverFits ==
  ASSUME TypeOK, FitInv, DeliverMembership
  PROVE  FitInv'
<1> SUFFICES ASSUME NEW c \in Ids PROVE \E z : Past(c, z)'
  BY DEF FitInv
<1> DEFINE n == Len(inbox)
           r == Head(inbox)
<1>1. /\ n \in Nat /\ n >= 1 /\ r = inbox[1] /\ Len(inbox') = n - 1 /\ n - 1 \in Nat
      /\ \A k \in 1 .. n - 1 : inbox'[k] = inbox[k + 1]
      /\ zoomMembers' = zoomMembers
  BY DEF TypeOK, DeliverMembership
<1>2. \A s \in Slots : /\ channels'[s].id = channels[s].id
                       /\ channels[s].id = c =>
                            channels'[s].members \subseteq After(channels[s].members, r, c)
  BY DEF DeliverMembership, OnChannelUserJoinResponse, OnChannelUserLeaveResponse, SlotForId,
         After, TypeOK
<1> HIDE DEF n, r
<1> DEFINE gone == Lost(c)
           now == Lost(c)'
<1>0. gone = now
  BY DEF Lost, DeliverMembership
<1> HIDE DEF gone, now
<1>3. PICK z : Past(c, z)
  BY DEF FitInv
<1>4. /\ z \in [0 .. n -> SUBSET Users] /\ z[n] = zoomMembers[c]
      /\ \A k \in 0 .. n : IsFiniteSet(z[k]) /\ Cardinality(z[k]) <= MaxMembers
      /\ \A k \in 1 .. n : After(z[k - 1], inbox[k], c) \ gone \subseteq z[k]
      /\ \A s \in Slots : channels[s].id = c => channels[s].members \ gone \subseteq z[0]
  BY <1>3 DEF Past, n, gone
<1> DEFINE y == [k \in 0 .. n - 1 |-> z[k + 1]]
<1>5. \A k \in 0 .. n - 1 : y[k] = z[k + 1] /\ k + 1 \in 0 .. n
  BY <1>1
<1>6. y \in [0 .. n - 1 -> SUBSET Users]
  BY <1>4, <1>5
<1> HIDE DEF y
<1>7. y[n - 1] = zoomMembers'[c]
  BY <1>1, <1>4, <1>5
<1>8. \A k \in 0 .. n - 1 : IsFiniteSet(y[k]) /\ Cardinality(y[k]) <= MaxMembers
  BY <1>4, <1>5
<1>9. ASSUME NEW k \in 1 .. n - 1
      PROVE  After(y[k - 1], inbox'[k], c) \ now \subseteq y[k]
  <2>1. /\ k - 1 \in 0 .. n - 1 /\ (k - 1) + 1 = k /\ k \in 0 .. n - 1
        /\ k + 1 \in 1 .. n /\ (k + 1) - 1 = k
    <3>1. n \in Nat
      BY <1>1
    <3> QED
      BY <3>1
  <2>2. y[k - 1] = z[k] /\ y[k] = z[k + 1] /\ inbox'[k] = inbox[k + 1]
    BY <1>1, <1>5, <2>1
  <2>3. After(z[(k + 1) - 1], inbox[k + 1], c) \ gone \subseteq z[k + 1]
    BY <1>4, <2>1
  <2> QED
    BY <1>0, <2>1, <2>2, <2>3
<1>10. \A s \in Slots : channels'[s].id = c => channels'[s].members \ now \subseteq y[0]
  <2>1. After(z[0], r, c) \ gone \subseteq z[1] /\ y[0] = z[1]
    <3>1. 1 \in 1 .. n /\ 1 - 1 = 0 /\ 0 \in 0 .. n - 1 /\ 0 + 1 = 1
      BY <1>1
    <3> QED
      BY <1>1, <1>4, <1>5, <3>1
  <2> SUFFICES ASSUME NEW s \in Slots, channels'[s].id = c
               PROVE  channels'[s].members \ now \subseteq y[0]
    OBVIOUS
  <2>2. channels[s].members \ gone \subseteq z[0]
    BY <1>2, <1>4
  <2>3. After(channels[s].members, r, c) \ gone \subseteq After(z[0], r, c)
    BY <2>2, AfterGrows
  <2> QED
    BY <1>0, <1>2, <2>1, <2>3
<1> QED
  BY <1>1, <1>6, <1>7, <1>8, <1>9, <1>10, PastNow DEF now

\* A step that answers and delivers nothing; the slots it fills are empty.
LEMMA QuietFits ==
  ASSUME TypeOK, TruthInv, FitInv,
         inbox' = inbox, zoomMembers' = zoomMembers, unheard' = unheard,
         \A s \in Slots : channels'[s].members = channels[s].members,
         \A s \in Slots : channels[s].id # NoId => channels'[s].id = channels[s].id
  PROVE  FitInv'
<1> SUFFICES ASSUME NEW c \in Ids PROVE \E z : Past(c, z)'
  BY DEF FitInv
<1>1. PICK z : Past(c, z)
  BY DEF FitInv
<1>2. \A s \in Slots : channels'[s].id = c => channels'[s].members \ Lost(c) \subseteq z[0]
  BY <1>1 DEF Past, TruthInv
<1>3. Len(inbox) \in Nat
  BY DEF TypeOK
<1>4. Lost(c)' = Lost(c)
  BY DEF Lost
<1> QED
  BY <1>1, <1>2, <1>3, <1>4, PastNow DEF Past

\* Zoom decides: whom it lets in finds a place, and the answer says no more
\* than what happened.
LEMMA ZoomFits ==
  ASSUME TypeOK, TruthInv, FitInv, Zoom
  PROVE  FitInv'
<1>1. /\ \A q \in flight : q.id \in Ids /\ q.uid \in Users
      /\ zoomMembers \in [Ids -> SUBSET Users] /\ MaxMembers \in Nat
  BY BankAssumption DEF TypeOK, Request
<1>2. ASSUME NEW id \in Ids, ZoomGrants(id) PROVE FitInv'
  BY <1>2, QuietFits DEF ZoomGrants, bankVars
<1>3. CASE ZoomRefusesChannel
  BY <1>3, QuietFits DEF ZoomRefusesChannel, bankVars
<1>4. ASSUME NEW q \in flight, NEW event \in JoinEvents, ZoomDecidesInvite(q, event)
      PROVE  FitInv'
  <2> DEFINE r == [op |-> "join", id |-> q.id, uid |-> q.uid, event |-> event]
  <2>1. r \in Response /\ inbox' = Append(inbox, r) /\ channels' = channels
    BY <1>1, <1>4 DEF ZoomDecidesInvite, Response, Answer, bankVars
  <2>2. zoomMembers' \in [Ids -> SUBSET Users]
    BY <1>1, <1>4 DEF ZoomDecidesInvite
  <2>3. ASSUME NEW c \in Ids PROVE After(zoomMembers[c], r, c) \subseteq zoomMembers'[c]
    BY <1>1, <1>4 DEF ZoomDecidesInvite, After, Confirmed
  <2>5. unheard' = unheard
    BY <1>4 DEF ZoomDecidesInvite
  <2>4. ASSUME NEW c \in Ids,
               IsFiniteSet(zoomMembers[c]), Cardinality(zoomMembers[c]) <= MaxMembers
        PROVE  IsFiniteSet(zoomMembers'[c]) /\ Cardinality(zoomMembers'[c]) <= MaxMembers
    <3>1. CASE zoomMembers'[c] = zoomMembers[c]
      BY <2>4, <3>1
    <3>2. CASE zoomMembers'[c] # zoomMembers[c]
      <4>1. /\ q.uid \notin zoomMembers[c] /\ Cardinality(zoomMembers[c]) < MaxMembers
            /\ zoomMembers'[c] = zoomMembers[c] \cup {q.uid}
        BY <1>1, <1>4, <3>2 DEF ZoomDecidesInvite
      <4>2. /\ IsFiniteSet(zoomMembers[c] \cup {q.uid})
            /\ Cardinality(zoomMembers[c] \cup {q.uid}) = Cardinality(zoomMembers[c]) + 1
        BY <2>4, <4>1, FS_AddElement
      <4>3. Cardinality(zoomMembers[c]) \in Nat
        BY <2>4, FS_CardinalityType
      <4> QED
        BY <1>1, <4>1, <4>2, <4>3
    <3> QED
      BY <3>1, <3>2
  <2> HIDE DEF r
  <2> QED
    BY <2>1, <2>2, <2>3, <2>4, <2>5, AnswerFits
<1>5. ASSUME NEW c \in Ids, NEW u \in Users, NEW event \in LeaveEvents,
             inbox' = Answer("leave", c, u, event), channels' = channels,
             zoomMembers' \in {zoomMembers, [zoomMembers EXCEPT ![c] = @ \ {u}]},
             unheard \subseteq unheard',
             event = "Ok" => zoomMembers' = [zoomMembers EXCEPT ![c] = @ \ {u}],
             event # "Ok" => zoomMembers' = zoomMembers \/ <<c, u>> \in unheard'
      PROVE  FitInv'
  <2> DEFINE r == [op |-> "leave", id |-> c, uid |-> u, event |-> event]
  <2>1. r \in Response /\ inbox' = Append(inbox, r)
    BY <1>5 DEF Response, Answer
  <2>2. zoomMembers' \in [Ids -> SUBSET Users]
    BY <1>1, <1>5
  <2>3. ASSUME NEW d \in Ids PROVE After(zoomMembers[d], r, d) \ Lost(d)' \subseteq zoomMembers'[d]
    <3>1. CASE event = "Ok"
      BY <1>1, <1>5, <3>1 DEF After
    <3>2. CASE event # "Ok"
      BY <1>1, <1>5, <3>2 DEF After, Lost
    <3> QED
      BY <3>1, <3>2
  <2>4. ASSUME NEW d \in Ids,
               IsFiniteSet(zoomMembers[d]), Cardinality(zoomMembers[d]) <= MaxMembers
        PROVE  IsFiniteSet(zoomMembers'[d]) /\ Cardinality(zoomMembers'[d]) <= MaxMembers
    <3>1. zoomMembers'[d] \subseteq zoomMembers[d]
      BY <1>1, <1>5
    <3>2. /\ IsFiniteSet(zoomMembers'[d])
          /\ Cardinality(zoomMembers'[d]) <= Cardinality(zoomMembers[d])
      BY <2>4, <3>1, FS_Subset
    <3>3. Cardinality(zoomMembers[d]) \in Nat /\ Cardinality(zoomMembers'[d]) \in Nat
      BY <2>4, <3>2, FS_CardinalityType
    <3> QED
      BY <1>1, <2>4, <3>2, <3>3
  <2> HIDE DEF r
  <2> QED
    BY <1>5, <2>1, <2>2, <2>3, <2>4, AnswerFits
<1>6. ASSUME NEW q \in flight, NEW event \in LeaveEvents, ZoomDecidesRemove(q, event)
      PROVE  FitInv'
  <2>1. /\ inbox' = Answer("leave", q.id, q.uid, event) /\ channels' = channels
        /\ unheard \subseteq unheard'
        /\ zoomMembers' \in {zoomMembers, [zoomMembers EXCEPT ![q.id] = @ \ {q.uid}]}
        /\ event = "Ok" => zoomMembers' = [zoomMembers EXCEPT ![q.id] = @ \ {q.uid}]
        /\ event # "Ok" => zoomMembers' = zoomMembers \/ <<q.id, q.uid>> \in unheard'
    BY <1>1, <1>6 DEF ZoomDecidesRemove, bankVars
  <2> QED
    BY <1>1, <1>5, <2>1
<1>7. ASSUME NEW c \in Ids, NEW u \in Users, ZoomDropsLeaver(c, u) PROVE FitInv'
  BY <1>5, <1>7 DEF ZoomDropsLeaver, bankVars, LeaveEvents
<1> QED
  BY <1>2, <1>3, <1>4, <1>6, <1>7 DEF Zoom

\* Every step keeps it.
LEMMA NextFits ==
  ASSUME TypeOK, IInv, TruthInv, FitInv, [Next]_vars
  PROVE  FitInv'
<1>1. ASSUME channels' = channels, inbox' = inbox, zoomMembers' = zoomMembers,
             unheard' = unheard
      PROVE  FitInv'
  BY <1>1, QuietFits
<1>2. ASSUME NEW id \in Ids, OnCreateChannelResponse(id) PROVE FitInv'
  <2>1. /\ \A s \in Slots : channels'[s].members = channels[s].members
        /\ \A s \in Slots : channels[s].id # NoId => channels'[s].id = channels[s].id
    BY <1>2 DEF OnCreateChannelResponse, TakesId, EmptySlots, TypeOK
  <2> QED
    BY <1>2, <2>1, QuietFits DEF OnCreateChannelResponse
<1>3. CASE Pump
  <2> USE DEF bankVars, lockVars, zoomVars
  <2>1. ASSUME NEW accepted \in BOOLEAN, CreateChannels(accepted) PROVE FitInv'
    BY <1>1, <2>1 DEF CreateChannels
  <2>2. CASE RefreshLock \/ RefreshCopy \/ RefreshPublish \/ StartStation
    BY <1>1, <2>2 DEF RefreshLock, RefreshCopy, RefreshPublish, StartStation
  <2>3. ASSUME NEW s \in Slots, NEW uids \in SUBSET Users, InviteMany(s, uids) PROVE FitInv'
    BY <1>1, <2>3 DEF InviteMany
  <2>4. ASSUME NEW s \in Slots, NEW u \in Users, Remove(s, u) PROVE FitInv'
    BY <1>1, <2>4 DEF Remove
  <2>5. ASSUME NEW s \in Slots, NEW down \in BOOLEAN, SetKey(s, down) PROVE FitInv'
    BY <1>1, <2>5 DEF SetKey
  <2> QED
    BY <1>2, <1>3, <2>1, <2>2, <2>3, <2>4, <2>5, DeliverFits DEF Pump
<1>4. CASE Pacer
  <2>1. ASSUME NEW accepted \in BOOLEAN, SendAudio(accepted) PROVE FitInv'
    BY <1>1, <2>1 DEF SendAudio, zoomVars
  <2> QED
    BY <1>1, <1>4, <2>1 DEF Pacer, PacerTick, CanSend, Route, SkipSlot, SendLock, TickDone,
                            bankVars, zoomVars
<1>5. CASE UNCHANGED vars
  BY <1>1, <1>5 DEF vars, bankVars, zoomVars
<1> QED
  BY <1>3, <1>4, <1>5, ZoomFits DEF Next

\* No past yet: nothing was answered and nobody is in a channel.
LEMMA NoPast ==
  ASSUME inbox = <<>>, zoomMembers = [c \in Ids |-> {}],
         \A s \in Slots : channels[s].members = {}
  PROVE  FitInv
<1> SUFFICES ASSUME NEW c \in Ids PROVE \E z : Past(c, z)
  BY DEF FitInv
<1> DEFINE z == [k \in 0 .. 0 |-> {}]
<1>1. Len(inbox) = 0 /\ zoomMembers[c] = {}
  BY EmptySeq
<1>2. IsFiniteSet({}) /\ Cardinality({}) = 0 /\ MaxMembers \in Nat
  BY FS_EmptySet, BankAssumption
<1>3. Past(c, z)
  BY <1>1, <1>2 DEF Past
<1> QED
  BY <1>3

\* Whoever is counted was there before the oldest answer: no more than fit.
LEMMA FewAtFirst ==
  ASSUME TypeOK, TruthInv, FitInv, NEW s \in Slots
  PROVE  IsFiniteSet(Heard(s)) /\ Cardinality(Heard(s)) <= MaxMembers
<1>1. CASE channels[s].id = NoId
  <2>1. Heard(s) = {}
    BY <1>1 DEF TruthInv, Heard
  <2>2. IsFiniteSet({}) /\ Cardinality({}) = 0
    BY FS_EmptySet
  <2> QED
    BY <2>1, <2>2, BankAssumption
<1>2. CASE channels[s].id # NoId
  <2>1. channels[s].id \in Ids
    BY <1>2 DEF TypeOK
  <2>2. PICK z : Past(channels[s].id, z)
    BY <2>1 DEF FitInv
  <2>3. 0 \in 0 .. Len(inbox)
    BY DEF TypeOK
  <2>4. /\ Heard(s) \subseteq z[0]
        /\ IsFiniteSet(z[0]) /\ Cardinality(z[0]) <= MaxMembers
    BY <2>1, <2>2, <2>3 DEF Past, Heard, Lost, TypeOK
  <2>5. /\ IsFiniteSet(Heard(s))
        /\ Cardinality(Heard(s)) <= Cardinality(z[0])
    BY <2>4, FS_Subset
  <2>6. Cardinality(z[0]) \in Nat /\ Cardinality(Heard(s)) \in Nat
    BY <2>4, <2>5, FS_CardinalityType
  <2> QED
    BY <2>4, <2>5, <2>6, BankAssumption
<1> QED
  BY <1>1, <1>2

\* But for those Zoom took out under a Timeout, the desk never counts more
\* listeners than Zoom lets in, however many answers are on their way.
THEOREM MembersAreFew == Spec => []MembersFit
<1>1. TypeOK /\ TruthInv /\ FitInv => MembersFit
  BY FewAtFirst DEF MembersFit
<1>2. Init => TruthInv /\ FitInv
  BY NoPast DEF Init, TruthInv
<1> QED
  BY <1>1, <1>2, NextFits, NextMembers, Invariance, PTL DEF Spec

----------------------------------------------------------------------------
(* Why no tick hangs: the part of TickEnds that needs no fairness.         *)

\* Slots are tried in order: a set of them has a first one.
LEMMA FirstSlot ==
  ASSUME NEW S \in SUBSET Slots, S # {}
  PROVE  \E s \in S : \A t \in S : s <= t
<1> DEFINE UpTo(s) == {t \in S : t <= s}
           Starts == {UpTo(s) : s \in S}
           R == StrictSubsetOrdering(S)
<1>1. S \subseteq Nat /\ \A s \in S : s <= NumSlots
  BY BankAssumption DEF Slots
<1>2. IsFiniteSet(S) /\ NumSlots \in Nat
  BY <1>1, BankAssumption, FS_BoundedSetOfNaturals
<1>3. IsWellFoundedOn(R, SUBSET S)
  BY <1>2, FS_StrictSubsetOrderingWellFounded, FS_FiniteSubsetsOfFinite
<1>4. Starts \subseteq SUBSET S /\ Starts # {}
  OBVIOUS
<1>5. PICK A \in Starts : \A B \in Starts : <<B, A>> \notin R
  <2> HIDE DEF Starts, R
  <2> QED
    BY <1>3, <1>4, WFMin
<1>6. PICK s \in S : A = UpTo(s)
  OBVIOUS
<1>7. ASSUME NEW t \in S, ~(s <= t) PROVE FALSE
  <2>1. UpTo(t) \subseteq UpTo(s) /\ s \in UpTo(s) /\ s \notin UpTo(t)
    <3>1. s \in Nat /\ t \in Nat /\ t < s
      BY <1>1, <1>7
    <3>2. \A x \in S : x \in Nat
      BY <1>1
    <3>3. \A x \in S : x <= t => x <= s
      BY <3>1, <3>2
    <3>4. s <= s /\ ~(s <= t)
      BY <3>1
    <3> QED
      BY <3>3, <3>4, Zenon
  <2>2. <<UpTo(t), A>> \in R
    BY <1>4, <1>6, <2>1 DEF StrictSubsetOrdering
  <2> QED
    BY <1>5, <2>2
<1> QED
  BY <1>7

\* The pacer holds send_m_ only with a slot left to send to.
SendInv == sendOwner = "pacer" => pacer.todo # {}

\* Every step keeps it: SendLock takes the lock for a slot, and nothing takes
\* a slot away while it is held.
LEMMA SendKeeps ==
  ASSUME TypeOK, IInv, SendInv, [Next]_vars
  PROVE  SendInv'
<1> USE DEF SendInv
<1>1. CASE Pump
  <2>1. CASE StartStation
    BY <2>1 DEF StartStation, StationUp, lockVars, IInv, LockInv
  <2>2. CASE RefreshLock \/ RefreshPublish
    BY <2>2 DEF RefreshLock, RefreshPublish
  <2>3. ASSUME ~StartStation, ~RefreshLock, ~RefreshPublish
        PROVE  pacer' = pacer /\ sendOwner' = sendOwner
    BY <1>1, <2>3, Zenon DEF Pump, CreateChannels, OnCreateChannelResponse, RefreshCopy,
                InviteMany, Remove, SetKey, DeliverMembership, lockVars
  <2> QED
    BY <2>1, <2>2, <2>3
<1>2. CASE Pacer
  <2>1. CASE PacerTick \/ CanSend \/ Route \/ SkipSlot \/ TickDone
    <3>1. sendOwner' = sendOwner /\ pacer.pc # "send"
      BY <2>1 DEF PacerTick, CanSend, Route, SkipSlot, TickDone, lockVars
    <3> QED
      BY <3>1 DEF IInv, LockInv
  <2>2. CASE SendLock
    <3>1. pacer.todo # {} /\ pacer' = [pacer EXCEPT !.pc = "send"]
      BY <2>2 DEF SendLock, NextSlot
    <3> QED
      BY <3>1 DEF TypeOK
  <2>3. ASSUME NEW accepted \in BOOLEAN, SendAudio(accepted) PROVE sendOwner' = "none"
    BY <2>3 DEF SendAudio
  <2> QED
    BY <1>2, <2>1, <2>2, <2>3 DEF Pacer
<1>3. CASE Zoom
  BY <1>3 DEF Zoom, ZoomGrants, ZoomRefusesChannel, ZoomDecidesInvite, ZoomDecidesRemove,
              ZoomDropsLeaver, lockVars
<1>4. CASE UNCHANGED vars
  BY <1>4 DEF vars, lockVars
<1> QED
  BY <1>1, <1>2, <1>3, <1>4 DEF Next

\* Neither thread waits for a lock whose holder waits for it.
THEOREM NoLockCycle == Spec => []LocksMove
<1>1. TypeOK /\ IInv /\ SendInv => LocksMove
  <2> SUFFICES ASSUME TypeOK, IInv, SendInv PROVE LocksMove
    OBVIOUS
  <2>1. pacer.todo # {} => \E s \in pacer.todo : NextSlot(s)
    BY FirstSlot DEF TypeOK, NextSlot
  <2>2. pacer.todo \subseteq readyMask /\ readyMask \subseteq Slots
    BY DEF IInv, PacerInv, TypeOK
  <2>3. sendOwner = "pump" => refresh.at <= CopyEnd
    BY BankAssumption DEF TypeOK, CopyEnd
  <2>4. mOwner # "pacer"
    BY DEF IInv, LockInv
  <2>5. sendOwner = "pump" => refresh.pc = "copy"
    BY DEF IInv, LockInv
  <2>6. mOwner = "pump" => \/ refresh.pc = "copy" /\ sendOwner = "pump"
                           \/ refresh.pc = "lock" /\ sendOwner # "pump"
    BY DEF IInv, LockInv, TypeOK
  <2>7. sendOwner = "pacer" => pacer.pc = "send" /\ \E s \in Slots : NextSlot(s)
    BY <2>1, <2>2 DEF IInv, LockInv, SendInv
  <2> QED
    BY <2>1, <2>2, <2>3, <2>4, <2>5, <2>6, <2>7 DEF LocksMove
<1>2. Init => SendInv
  BY DEF Init, SendInv
<1> QED
  BY <1>1, <1>2, SendKeeps, Invariance, PTL DEF Spec

\* A tick that reached its slots only ever has fewer of them left.
THEOREM TickRunsDown == Spec => TickOnlyShrinks
<1> DEFINE Shrinks == pacer.pc \in {"slot", "send"} =>
             /\ pacer'.todo \subseteq pacer.todo
             /\ sendOwner = "pacer" /\ sendOwner' # "pacer" => pacer'.todo # pacer.todo
<1>1. ASSUME TypeOK, IInv, [Next]_vars PROVE [Shrinks]_vars
  <2>1. CASE Pump
    BY <1>1, <2>1 DEF Pump, CreateChannels, OnCreateChannelResponse, RefreshLock, RefreshCopy,
                RefreshPublish, StartStation, StationUp, InviteMany, Remove, SetKey,
                DeliverMembership, lockVars, IInv, LockInv, PumpFree
  <2>2. ASSUME NEW accepted \in BOOLEAN, SendAudio(accepted) PROVE Shrinks
    <3>1. PICK s \in Slots : /\ NextSlot(s)
                             /\ pacer' = [pacer EXCEPT !.pc = "slot", !.keys = @ \ {s},
                                                       !.todo = @ \ {s}]
      BY <2>2 DEF SendAudio, Served
    <3>2. pacer'.todo = pacer.todo \ {s} /\ s \in pacer.todo
      BY <1>1, <3>1 DEF TypeOK, NextSlot
    <3> QED
      BY <3>2
  <2>3. CASE Pacer
    BY <1>1, <2>2, <2>3 DEF Pacer, PacerTick, CanSend, Route, SkipSlot, SendLock, TickDone,
                IdlePacer, lockVars, IInv, LockInv, TypeOK
  <2>4. CASE Zoom
    BY <2>4 DEF Zoom, ZoomGrants, ZoomRefusesChannel, ZoomDecidesInvite, ZoomDecidesRemove,
                ZoomDropsLeaver, lockVars
  <2> QED
    BY <1>1, <2>1, <2>3, <2>4 DEF Next
<1> QED
  BY <1>1, Invariance, PTL DEF Spec, TickOnlyShrinks
=============================================================================
