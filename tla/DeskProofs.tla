----------------------------- MODULE DeskProofs -----------------------------
(***************************************************************************)
(* Why the healer never turns destructive, for any number of slots, people *)
(* and refusals.                                                           *)
(*                                                                         *)
(* The argument (PlacedInv): whoever is on a channel, or on the way there  *)
(* as an invite or its answer, was put there by the desk; and as long as   *)
(* they are in the meeting and capable, the desk still wants them there    *)
(* unless the operator took them away. The pruning of intent is the step   *)
(* that could break this: outside breakouts it drops only who is missing   *)
(* from the roster, and that is somebody who parted.                       *)
(***************************************************************************)
EXTENDS Desk, SequenceTheorems, TLAPS

\* The bank's own theorems, about the bank as the desk drives it.
BankProofs == INSTANCE TalkbackBankProofs

\* The channels keep their ids, and Zoom's mail is about them.
ChannelsInv ==
  /\ channels \in [Slots -> [id: Ids, ready: BOOLEAN, members: SUBSET Users]]
  /\ \A s \in Slots : channels[s].id = ChannelId[s]
MailInv == flight \subseteq Bank!Request /\ inbox \in Seq(Bank!Response)

WorldInv ==
  /\ here \subseteq Users /\ eligible \subseteq Users /\ parted \subseteq Users
  /\ intent \subseteq Pairs /\ unassigned \subseteq Pairs
  /\ rooms \in [started: BOOLEAN, away: SUBSET Users]
  /\ ~rooms.started => rooms.away \subseteq parted

\* Invited and not answered; answered and not delivered.
Invited(s, u) == \E q \in flight : q.op = "invite" /\ q.id = ChannelId[s] /\ q.uid = u
Answered(s, u) ==
  \E i \in 1 .. Len(inbox) :
    inbox[i].op = "join" /\ inbox[i].id = ChannelId[s] /\ inbox[i].uid = u

OnTheWay(s, u) == u \in Members(s) \/ Invited(s, u) \/ Answered(s, u)
Placed(s, u) == <<s, u>> \in intent \/ OnTheWay(s, u)

PlacedInv ==
  \A s \in Slots, u \in Users :
    Placed(s, u) => \/ u \in parted
                    \/ u \in here \cap eligible /\ <<s, u>> \in intent \cup unassigned

IInv == ChannelsInv /\ MailInv /\ WorldInv /\ PlacedInv

\* Each slot's id is its own.
LEMMA OwnIds ==
  /\ ChannelId \in [Slots -> Ids]
  /\ \A s, t \in Slots : ChannelId[s] = ChannelId[t] => s = t
BY GrantsAssumption DEF ChannelId

\* At the start there is nobody to remove.
LEMMA Initially == Init => IInv
<1> SUFFICES ASSUME Init PROVE IInv
  OBVIOUS
<1>1. /\ channels = [s \in Slots |-> [id |-> ChannelId[s], ready |-> TRUE, members |-> {}]]
      /\ flight = {} /\ inbox = <<>>
      /\ intent = {} /\ unassigned = {} /\ parted = {}
      /\ here \subseteq Users /\ eligible \subseteq Users
      /\ rooms = [started |-> FALSE, away |-> {}]
  BY DEF Init
<1>2. inbox \in Seq(Bank!Response) /\ Len(inbox) = 0
  BY <1>1, EmptySeq
<1>3. ChannelsInv
  BY <1>1, OwnIds DEF ChannelsInv
<1>4. MailInv /\ WorldInv
  BY <1>1, <1>2 DEF MailInv, WorldInv
<1>5. PlacedInv
  BY <1>1, <1>2 DEF PlacedInv, Placed, OnTheWay, Invited, Answered, Members
<1> QED
  BY <1>3, <1>4, <1>5 DEF IInv

----------------------------------------------------------------------------
(* The bank and Zoom. *)

Minds == UNCHANGED <<intent, unassigned, parted, here, eligible, rooms>>

\* Nothing gets on its way but what was placed already.
LEMMA BankKeeps ==
  ASSUME IInv, Minds, ChannelsInv', MailInv',
         \A s \in Slots, u \in Users : OnTheWay(s, u)' => Placed(s, u)
  PROVE  IInv'
BY DEF IInv, Minds, WorldInv, PlacedInv, Placed

\* A request of the healer's: an invite is of somebody wanted.
LEMMA HealKeeps ==
  ASSUME IInv, HealPass
  PROVE  IInv'
<1>1. Minds /\ UNCHANGED <<channels, inbox>>
  BY ZenonT(60) DEF HealPass, HealIdle, HealInvite, HealRemove, Minds, history, roomVars, worldVars, bankVars,
         Bank!InviteMany, Bank!Remove, Bank!bankVars
<1>2. \/ flight' = flight
      \/ \E s \in Slots : flight' = flight \cup Bank!InviteUsers(channels[s].id, Missing(s))
      \/ \E s \in Slots, u \in Users : flight' = flight \cup Bank!RemoveUsers(channels[s].id, {u})
  BY ZenonT(60) DEF HealPass, HealIdle, HealInvite, HealRemove, bankVars, Bank!InviteMany, Bank!Remove
<1>3. ChannelsInv'
  BY <1>1 DEF IInv, ChannelsInv
<1>4. \A s \in Slots : channels[s].id \in Ids /\ channels[s].id = ChannelId[s]
  BY DEF IInv, ChannelsInv
<1>5. \A s \in Slots : Missing(s) \subseteq Users /\ \A u \in Missing(s) : <<s, u>> \in intent
  BY DEF IInv, WorldInv, Missing, Roster, Wanted
<1>6. MailInv'
  <2>1. CASE flight' = flight
    BY <1>1, <2>1 DEF IInv, MailInv
  <2>2. ASSUME NEW s \in Slots, flight' = flight \cup Bank!InviteUsers(channels[s].id, Missing(s))
        PROVE  MailInv'
    BY <1>1, <1>4, <1>5, <2>2 DEF IInv, MailInv, Bank!InviteUsers, Bank!Request
  <2>3. ASSUME NEW s \in Slots, NEW u \in Users,
               flight' = flight \cup Bank!RemoveUsers(channels[s].id, {u})
        PROVE  MailInv'
    BY <1>1, <1>4, <2>3 DEF IInv, MailInv, Bank!RemoveUsers, Bank!Request
  <2> QED
    BY <1>2, <2>1, <2>2, <2>3
<1>7. ASSUME NEW s \in Slots, NEW u \in Users, Invited(s, u)'
      PROVE  Placed(s, u)
  <2>1. PICK q \in flight' : q.op = "invite" /\ q.id = ChannelId[s] /\ q.uid = u
    BY <1>7 DEF Invited
  <2>2. CASE q \in flight
    BY <2>1, <2>2 DEF Placed, OnTheWay, Invited
  <2>3. CASE q \notin flight
    <3>1. PICK t \in Slots : q \in Bank!InviteUsers(channels[t].id, Missing(t))
      BY <1>2, <2>1, <2>3 DEF Bank!RemoveUsers
    <3>2. q.id = ChannelId[t] /\ u \in Missing(t)
      BY <1>4, <2>1, <3>1 DEF Bank!InviteUsers
    <3>3. t = s
      BY <2>1, <3>2, OwnIds
    <3> QED
      BY <1>5, <3>2, <3>3 DEF Placed
  <2> QED
    BY <2>2, <2>3
<1>8. \A s \in Slots, u \in Users : OnTheWay(s, u)' => Placed(s, u)
  BY <1>1, <1>7 DEF OnTheWay, Placed, Answered, Members
<1> QED
  BY <1>1, <1>3, <1>6, <1>8, BankKeeps

\* What is appended to Zoom's mail.
LEMMA Posted ==
  ASSUME inbox \in Seq(Bank!Response), NEW r \in Bank!Response, inbox' = Append(inbox, r)
  PROVE  /\ inbox' \in Seq(Bank!Response)
         /\ \A i \in 1 .. Len(inbox') : inbox'[i] = r \/ \E j \in 1 .. Len(inbox) : inbox'[i] = inbox[j]
<1>1. /\ Len(inbox') = Len(inbox) + 1 /\ inbox' \in Seq(Bank!Response)
      /\ \A i \in 1 .. Len(inbox) : inbox'[i] = inbox[i]
      /\ inbox'[Len(inbox) + 1] = r /\ Len(inbox) \in Nat
  BY AppendProperties, LenProperties
<1> QED
  BY <1>1

\* Zoom's answer to an invite is about the same person and channel; its other
\* answers take nobody on.
LEMMA ZoomKeeps ==
  ASSUME IInv,
         \/ \E q \in flight : ZoomDecides(q)
         \/ \E c \in Ids, u \in Users : ZoomDrops(c, u)
  PROVE  IInv'
<1>1. Minds /\ UNCHANGED channels
  BY DEF ZoomDecides, ZoomDrops, Zoom, Decide, Minds, history, roomVars, worldVars,
         Bank!ZoomDecidesInvite, Bank!ZoomDecidesRemove, Bank!ZoomDropsLeaver, Bank!bankVars
<1>2. PICK r \in Bank!Response :
        /\ inbox' = Append(inbox, r)
        /\ flight' \subseteq flight
        /\ r.op = "join" => \E q \in flight : q.op = "invite" /\ q.id = r.id /\ q.uid = r.uid
  <2>1. ASSUME NEW q \in flight, ZoomDecides(q)
        PROVE  \E r \in Bank!Response :
                 /\ inbox' = Append(inbox, r)
                 /\ flight' \subseteq flight
                 /\ r.op = "join" => \E p \in flight : p.op = "invite" /\ p.id = r.id /\ p.uid = r.uid
    <3>1. q.id \in Ids /\ q.uid \in Users
      BY DEF IInv, MailInv, Bank!Request
    <3>2. ASSUME NEW event \in Bank!JoinEvents, Bank!ZoomDecidesInvite(q, event)
          PROVE  \E r \in Bank!Response :
                   /\ inbox' = Append(inbox, r)
                   /\ flight' \subseteq flight
                   /\ r.op = "join" =>
                        \E p \in flight : p.op = "invite" /\ p.id = r.id /\ p.uid = r.uid
      <4> DEFINE r == [op |-> "join", id |-> q.id, uid |-> q.uid, event |-> event]
      <4>1. r \in Bank!Response
        BY <3>1 DEF Bank!Response
      <4>2. inbox' = Append(inbox, r) /\ flight' \subseteq flight /\ q.op = "invite"
        BY <3>2 DEF Bank!ZoomDecidesInvite, Bank!Answer
      <4> QED
        BY <4>1, <4>2
    <3>3. ASSUME NEW event \in Bank!LeaveEvents, Bank!ZoomDecidesRemove(q, event)
          PROVE  \E r \in Bank!Response :
                   inbox' = Append(inbox, r) /\ flight' \subseteq flight /\ r.op = "leave"
      <4>1. [op |-> "leave", id |-> q.id, uid |-> q.uid, event |-> event] \in Bank!Response
        BY <3>1 DEF Bank!Response
      <4> QED
        BY <3>3, <4>1 DEF Bank!ZoomDecidesRemove, Bank!Answer
    <3>4. \/ \E event \in Bank!JoinEvents : Bank!ZoomDecidesInvite(q, event)
          \/ \E event \in Bank!LeaveEvents : Bank!ZoomDecidesRemove(q, event)
      BY <2>1 DEF ZoomDecides, Zoom, Decide, Bank!JoinEvents, Bank!LeaveEvents
    <3> QED
      BY <3>2, <3>3, <3>4
  <2>2. ASSUME NEW c \in Ids, NEW u \in Users, ZoomDrops(c, u)
        PROVE  \E r \in Bank!Response :
                 inbox' = Append(inbox, r) /\ flight' \subseteq flight /\ r.op = "leave"
    <3>1. [op |-> "leave", id |-> c, uid |-> u, event |-> "Ok"] \in Bank!Response
      BY DEF Bank!Response, Bank!LeaveEvents
    <3> QED
      BY <2>2, <3>1 DEF ZoomDrops, Zoom, Bank!ZoomDropsLeaver, Bank!Answer
  <2> QED
    BY <2>1, <2>2
<1>3. ChannelsInv'
  BY <1>1 DEF IInv, ChannelsInv
<1>4. /\ inbox' \in Seq(Bank!Response)
      /\ \A i \in 1 .. Len(inbox') : inbox'[i] = r \/ \E j \in 1 .. Len(inbox) : inbox'[i] = inbox[j]
  BY <1>2, Posted DEF IInv, MailInv
<1>5. MailInv'
  BY <1>2, <1>4 DEF IInv, MailInv
<1>6. ASSUME NEW s \in Slots, NEW u \in Users, Answered(s, u)'
      PROVE  Answered(s, u) \/ Invited(s, u)
  <2>1. PICK i \in 1 .. Len(inbox') :
          inbox'[i].op = "join" /\ inbox'[i].id = ChannelId[s] /\ inbox'[i].uid = u
    BY <1>6 DEF Answered
  <2>2. CASE inbox'[i] = r
    BY <1>2, <2>1, <2>2 DEF Invited
  <2>3. CASE \E j \in 1 .. Len(inbox) : inbox'[i] = inbox[j]
    BY <2>1, <2>3 DEF Answered
  <2> QED
    BY <1>4, <2>2, <2>3
<1>7. \A s \in Slots, u \in Users : OnTheWay(s, u)' => Placed(s, u)
  BY <1>1, <1>2, <1>6 DEF OnTheWay, Placed, Invited, Members
<1> QED
  BY <1>1, <1>3, <1>5, <1>7, BankKeeps

\* A delivered answer makes a member of whom it names.
LEMMA DeliverKeeps ==
  ASSUME IInv, Deliver
  PROVE  IInv'
<1>1. Minds /\ flight' = flight /\ inbox # <<>> /\ inbox' = Tail(inbox)
  BY DEF Deliver, Zoom, Minds, history, roomVars, worldVars, Bank!DeliverMembership
<1>2. /\ Len(inbox) \in Nat \ {0} /\ inbox' \in Seq(Bank!Response)
      /\ Len(inbox') = Len(inbox) - 1
      /\ \A i \in 1 .. Len(inbox') : inbox'[i] = inbox[i + 1]
      /\ Head(inbox) = inbox[1] /\ inbox[1] \in Bank!Response
  <2>1. inbox \in Seq(Bank!Response)
    BY DEF IInv, MailInv
  <2> QED
    BY <1>1, <2>1, HeadTailProperties, ElementOfSeq
<1>3. MailInv'
  BY <1>1, <1>2 DEF IInv, MailInv
<1>4. inbox[1].uid \in Users /\ inbox[1].id \in Ids
  BY <1>2 DEF Bank!Response
<1>5. channels \in [Slots -> [id: Ids, ready: BOOLEAN, members: SUBSET Users]]
  BY DEF IInv, ChannelsInv
<1>6. \/ /\ inbox[1].op = "join"
         /\ channels' = [s \in Slots |->
              IF channels[s].id = inbox[1].id /\ inbox[1].event \in Bank!Confirmed
              THEN [id |-> inbox[1].id, ready |-> channels[s].ready,
                    members |-> channels[s].members \cup {inbox[1].uid}]
              ELSE channels[s]]
      \/ /\ inbox[1].op = "leave"
         /\ channels' = [s \in Slots |->
              IF channels[s].id = inbox[1].id /\ inbox[1].event = "Ok"
              THEN [id |-> inbox[1].id, ready |-> channels[s].ready,
                    members |-> channels[s].members \ {inbox[1].uid}]
              ELSE channels[s]]
  BY <1>2 DEF Deliver, Zoom, Bank!DeliverMembership, Bank!OnChannelUserJoinResponse,
         Bank!OnChannelUserLeaveResponse, Bank!SlotForId, Bank!Slots, Slots
<1>7. ASSUME NEW s \in Slots
      PROVE  /\ channels'[s] \in [id: Ids, ready: BOOLEAN, members: SUBSET Users]
             /\ channels'[s].id = channels[s].id
             /\ \A u \in channels'[s].members :
                  \/ u \in channels[s].members
                  \/ inbox[1].op = "join" /\ inbox[1].id = channels[s].id /\ inbox[1].uid = u
  <2>1. channels[s] \in [id: Ids, ready: BOOLEAN, members: SUBSET Users]
    BY <1>5
  <2> QED
    BY <1>4, <1>6, <2>1
<1>8. ChannelsInv'
  <2>1. channels' = [s \in Slots |-> channels'[s]]
    BY <1>6
  <2>2. channels' \in [Slots -> [id: Ids, ready: BOOLEAN, members: SUBSET Users]]
    BY <1>7, <2>1
  <2> QED
    BY <1>7, <2>2 DEF IInv, ChannelsInv
<1>9. \A s \in Slots, u \in Users : OnTheWay(s, u)' => Placed(s, u)
  <2> SUFFICES ASSUME NEW s \in Slots, NEW u \in Users, OnTheWay(s, u)' PROVE OnTheWay(s, u)
    BY DEF Placed
  <2>1. channels[s].id = ChannelId[s] /\ 1 \in 1 .. Len(inbox)
    BY <1>2 DEF IInv, ChannelsInv
  <2>2. CASE u \in Members(s)'
    BY <1>7, <2>1, <2>2 DEF Members, OnTheWay, Answered
  <2>3. CASE Invited(s, u)'
    BY <1>1, <2>3 DEF Invited, OnTheWay
  <2>4. CASE Answered(s, u)'
    <3>1. PICK i \in 1 .. Len(inbox') :
            inbox'[i].op = "join" /\ inbox'[i].id = ChannelId[s] /\ inbox'[i].uid = u
      BY <2>4 DEF Answered
    <3>2. i + 1 \in 1 .. Len(inbox) /\ inbox'[i] = inbox[i + 1]
      BY <1>2
    <3> QED
      BY <3>1, <3>2 DEF Answered, OnTheWay
  <2> QED
    BY <2>2, <2>3, <2>4 DEF OnTheWay
<1> QED
  BY <1>1, <1>3, <1>8, <1>9, BankKeeps

----------------------------------------------------------------------------
(* The desk and the meeting. The bank is as it was. *)

BankSame == UNCHANGED <<channels, flight, inbox>>

\* A step that leaves the bank alone keeps the invariant when nobody loses
\* the reason of a placement, but by leaving the room.
LEMMA DeskKeeps ==
  ASSUME IInv, BankSame, WorldInv', parted \subseteq parted',
         \A s \in Slots, u \in Users :
           u \notin parted' =>
             /\ <<s, u>> \in intent' => u \in here' \cap eligible'
             /\ /\ u \in here \cap eligible
                /\ <<s, u>> \in intent \cup unassigned
                => u \in here' \cap eligible' /\ <<s, u>> \in intent' \cup unassigned'
  PROVE  IInv'
<1>1. ChannelsInv' /\ MailInv'
  BY DEF IInv, ChannelsInv, MailInv, BankSame
<1>2. \A s \in Slots, u \in Users : OnTheWay(s, u)' = OnTheWay(s, u)
  BY DEF OnTheWay, Invited, Answered, Members, BankSame
<1>3. PlacedInv'
  <2> SUFFICES ASSUME NEW s \in Slots, NEW u \in Users, Placed(s, u)', u \notin parted'
               PROVE  u \in here' \cap eligible' /\ <<s, u>> \in intent' \cup unassigned'
    BY Zenon DEF PlacedInv
  <2>1. CASE <<s, u>> \in intent'
    BY <2>1
  <2>2. CASE OnTheWay(s, u)
    BY <2>2 DEF IInv, PlacedInv, Placed
  <2> QED
    BY <1>2, <2>1, <2>2, Zenon DEF Placed
<1> QED
  BY <1>1, <1>3 DEF IInv

\* Housekeeping keeps whoever is wanted, present and capable, and places only
\* people it sees.
LEMMA HousekeepingKeeps ==
  ASSUME IInv, NEW taken, Housekeeping(taken)
  PROVE  IInv'
<1> DEFINE kept == PrunedIntent(rooms.started)
           new == AutoAssign(EligiblePlaced)
           turns == 1 .. Cardinality(new)
<1>1. BankSame /\ UNCHANGED <<unassigned, parted, here, eligible, rooms>>
  BY DEF Housekeeping, BankSame, bankVars, history
<1>2. Place(kept, new)
  BY DEF Housekeeping, BoSnapshot
<1> HIDE DEF kept, new
<1>3. PICK order \in [turns -> new], slot \in [turns -> Slots] :
        intent' = kept \cup {<<slot[k], order[k]>> : k \in turns}
  BY <1>2 DEF Place, Bijection, Injection
<1>4. new \subseteq here \cap eligible /\ eligible \subseteq Users
  BY DEF new, AutoAssign, Roster, IInv, WorldInv
<1>5. kept \subseteq intent
  BY DEF kept, PrunedIntent, EligibleIntent
<1>6. \A p \in intent' : p \in intent \/ p \in Slots \X new
  BY <1>3, <1>5
<1>7. \A s \in Slots, u \in Users :
        u \notin parted /\ u \in here \cap eligible /\ <<s, u>> \in intent => <<s, u>> \in intent'
  <2>1. ~rooms.started => rooms.away \subseteq parted
    BY DEF IInv, WorldInv
  <2> QED
    BY <1>3, <2>1 DEF kept, PrunedIntent, EligibleIntent, SeenIneligible, Roster
<1>8. WorldInv'
  <2>1. intent' \subseteq Pairs
    BY <1>4, <1>6 DEF IInv, WorldInv, Pairs
  <2> QED
    BY <1>1, <2>1 DEF IInv, WorldInv
<1>9. \A s \in Slots, u \in Users :
        u \notin parted /\ <<s, u>> \in intent' => u \in here \cap eligible
  BY <1>4, <1>6 DEF IInv, PlacedInv, Placed
<1> QED
  BY <1>1, <1>7, <1>8, <1>9, DeskKeeps

\* The panel's edges.
LEMMA PanelKeeps ==
  ASSUME IInv, NEW s \in Slots, NEW u \in Users, Assign(s, u) \/ Unassign(s, u)
  PROVE  IInv'
<1>1. BankSame /\ UNCHANGED <<parted, here, eligible, rooms>>
  BY DEF Assign, Unassign, BankSame, bankVars, worldVars, roomVars
<1>2. \/ u \in here \cap eligible /\ intent' = intent \cup {<<s, u>>} /\ unassigned' = unassigned \ {<<s, u>>}
      \/ intent' = intent \ {<<s, u>>} /\ unassigned' = unassigned \cup {<<s, u>>}
  BY DEF Assign, Unassign, Roster
<1>3. WorldInv'
  BY <1>1, <1>2 DEF IInv, WorldInv, Pairs
<1>4. \A t \in Slots, v \in Users :
        v \notin parted' /\ <<t, v>> \in intent' => v \in here' \cap eligible'
  BY <1>1, <1>2 DEF IInv, PlacedInv, Placed
<1>5. intent \cup unassigned \subseteq intent' \cup unassigned'
  BY <1>2
<1> QED
  BY <1>1, <1>3, <1>4, <1>5, DeskKeeps

\* People and rooms: whoever arrives had parted, or was never placed; whoever
\* stops being present or capable parts.
LEMMA PeopleKeep ==
  ASSUME IInv, NEW u \in Users, Arrive(u) \/ Leave(u) \/ ChangeCapability(u) \/ Return(u)
  PROVE  IInv'
<1> USE DEF World, worldVars, history, bankVars
<1>1. BankSame /\ intent' = intent
  BY DEF Arrive, Leave, ChangeCapability, Return, BankSame
<1>2. /\ rooms.away \subseteq Users /\ rooms.started \in BOOLEAN
      /\ ~rooms.started => rooms.away \subseteq parted
      /\ rooms = [started |-> rooms.started, away |-> rooms.away]
  BY DEF IInv, WorldInv
<1>3. CASE Arrive(u)
  <2>1. /\ u \notin here /\ here' = here \cup {u}
        /\ unassigned' = {p \in unassigned : p[2] # u} /\ UNCHANGED <<eligible, rooms, parted>>
    BY <1>3 DEF Arrive
  <2>2. WorldInv'
    BY <1>1, <2>1 DEF IInv, WorldInv
  <2>3. ChannelsInv' /\ MailInv'
    BY <1>1 DEF BankSame, IInv, ChannelsInv, MailInv
  <2>4. PlacedInv'
    <3>1. \A s \in Slots, v \in Users : Placed(s, v)' => Placed(s, v)
      BY <1>1 DEF BankSame, Placed, OnTheWay, Invited, Answered, Members
    <3>2. \A s \in Slots : Placed(s, u) => u \in parted
      BY <2>1 DEF IInv, PlacedInv
    <3>3. \A s \in Slots, v \in Users :
            v # u /\ <<s, v>> \in unassigned => <<s, v>> \in unassigned'
      BY <2>1
    <3> QED
      BY <1>1, <2>1, <3>1, <3>2, <3>3 DEF IInv, PlacedInv
  <2> QED
    BY <2>2, <2>3, <2>4 DEF IInv
<1>4. CASE Leave(u)
  <2>1. /\ here' = here \ {u} /\ parted' = parted \cup {u} /\ UNCHANGED <<eligible, unassigned>>
        /\ rooms' = [started |-> rooms.started, away |-> rooms.away \ {u}]
    BY <1>2, <1>4 DEF Leave
  <2>2. WorldInv'
    BY <1>1, <1>2, <2>1 DEF IInv, WorldInv
  <2> QED
    BY <1>1, <2>1, <2>2, DeskKeeps DEF IInv, PlacedInv, Placed
<1>5. CASE ChangeCapability(u)
  <2>1. /\ eligible' = (eligible \cup {u}) \ (eligible \cap {u})
        /\ parted' = parted \cup (eligible \cap {u})
        /\ UNCHANGED <<here, rooms, unassigned>>
    BY <1>5 DEF ChangeCapability
  <2>2. WorldInv'
    BY <1>1, <1>2, <2>1 DEF IInv, WorldInv
  <2>3. \A v \in Users : v \in eligible /\ v \notin parted' => v \in eligible'
    BY <2>1
  <2> QED
    BY <1>1, <2>1, <2>2, <2>3, DeskKeeps DEF IInv, PlacedInv, Placed
<1>6. CASE Return(u)
  <2>1. /\ rooms' = [started |-> rooms.started, away |-> rooms.away \ {u}]
        /\ UNCHANGED <<here, eligible, unassigned, parted>>
    BY <1>2, <1>6 DEF Return
  <2>2. WorldInv'
    BY <1>1, <1>2, <2>1 DEF IInv, WorldInv
  <2> QED
    BY <1>1, <2>1, <2>2, DeskKeeps DEF IInv, PlacedInv, Placed
<1> QED
  BY <1>3, <1>4, <1>5, <1>6

\* Breakouts that take people away, and end, are such steps.
LEMMA RoomsKeep ==
  ASSUME IInv, NEW away \in SUBSET here, MoveRooms(away) \/ StopRooms(away)
  PROVE  IInv'
<1> USE DEF World, worldVars, history, bankVars
<1>1. /\ BankSame /\ UNCHANGED <<intent, here, eligible, unassigned>>
      /\ away \subseteq Users
  BY DEF MoveRooms, StopRooms, BankSame, IInv, WorldInv
<1>2. CASE MoveRooms(away)
  <2>1. rooms' = [started |-> TRUE, away |-> away] /\ parted' = parted
    BY <1>2 DEF MoveRooms
  <2>2. WorldInv'
    BY <1>1, <2>1 DEF IInv, WorldInv
  <2> QED
    BY <1>1, <2>1, <2>2, DeskKeeps DEF IInv, PlacedInv, Placed
<1>3. CASE StopRooms(away)
  <2>1. rooms' = [started |-> FALSE, away |-> away] /\ parted' = parted \cup away
    BY <1>3 DEF StopRooms
  <2>2. WorldInv'
    BY <1>1, <2>1 DEF IInv, WorldInv
  <2> QED
    BY <1>1, <2>1, <2>2, DeskKeeps DEF IInv, PlacedInv, Placed
<1> QED
  BY <1>2, <1>3

----------------------------------------------------------------------------
(* Theorems. *)

\* Who is on a channel, or on the way there, is somebody the desk put there
\* and wants, whom the operator took away, or who parted.
THEOREM Invariance == Spec => []IInv
<1>1. ASSUME IInv, [Next]_vars
      PROVE  IInv'
  <2>1. CASE \E taken \in BOOLEAN : Housekeeping(taken)
    BY <1>1, <2>1, HousekeepingKeeps
  <2>2. CASE Mute \/ AskToUnmute \/ FlushRooms \/ UNCHANGED vars
    <3>1. BankSame /\ UNCHANGED <<intent, unassigned, parted, here, eligible, rooms>>
      BY <2>2 DEF Mute, AskToUnmute, FlushRooms, World, BankSame, vars, bankVars, worldVars,
                  history, roomVars
    <3>2. WorldInv'
      BY <1>1, <3>1 DEF IInv, WorldInv
    <3> QED
      BY <1>1, <3>1, <3>2, DeskKeeps DEF IInv, PlacedInv, Placed
  <2>3. CASE HealPass
    BY <1>1, <2>3, HealKeeps
  <2>4. ASSUME NEW s \in Slots, NEW u \in Users, Assign(s, u) \/ Unassign(s, u)
        PROVE  IInv'
    BY <1>1, <2>4, PanelKeeps
  <2>5. ASSUME NEW u \in Users, Arrive(u) \/ Leave(u) \/ ChangeCapability(u) \/ Return(u)
        PROVE  IInv'
    BY <1>1, <2>5, PeopleKeep
  <2>6. ASSUME NEW away \in SUBSET here, MoveRooms(away) \/ StopRooms(away)
        PROVE  IInv'
    BY <1>1, <2>6, RoomsKeep
  <2>7. CASE (\E q \in flight : ZoomDecides(q)) \/ \E c \in Ids, u \in Users : ZoomDrops(c, u)
    BY <1>1, <2>7, ZoomKeeps
  <2>8. CASE Deliver
    BY <1>1, <2>8, DeliverKeeps
  <2> QED
    BY <1>1, <2>1, <2>2, <2>3, <2>4, <2>5, <2>6, <2>7, <2>8 DEF Next
<1> QED
  BY <1>1, Initially, PTL DEF Spec

\* The healer only removes whom the operator took away or who parted, however
\* many slots, people, refusals and room moves there are.
THEOREM RemovalsHaveReasons == Spec => RemovesOnPurpose
<1>1. IInv /\ [Next]_vars => [RemovalHasReason]_vars
  <2> SUFFICES ASSUME IInv, NEW s \in Slots, NEW u \in Users, HealRemove(s, u, TRUE)
               PROVE  <<s, u>> \in unassigned \/ u \in parted
    BY DEF RemovalHasReason
  <2>1. u \in Members(s) /\ ~(u \in eligible /\ <<s, u>> \in intent)
    BY DEF HealRemove, Removable, Wanted
  <2> QED
    BY <2>1 DEF IInv, PlacedInv, Placed, OnTheWay
<1> QED
  BY <1>1, Invariance, PTL DEF Spec, RemovesOnPurpose

----------------------------------------------------------------------------
(* The types. *)

\* The backoff of one pair.
Backoff == [attempts: 0 .. MaxAttempts, wait: 0 .. Cap]

\* Every wait the healer sets is within the cap, however often it doubled.
LEMMA BackoffsTyped ==
  ASSUME NEW b \in Backoff, NEW ok \in BOOLEAN
  PROVE  /\ NoBackoff \in Backoff /\ Elapsed(b) \in Backoff
         /\ AfterInvite(b, ok) \in Backoff /\ AfterRemove(b, ok) \in Backoff
<1>1. /\ {Base, Patience, RemoveWait, Cap} \subseteq Nat
      /\ 0 < Base /\ Base <= Patience /\ Patience <= RemoveWait /\ RemoveWait <= Cap
  BY DeskAssumption
<1>2. /\ b.attempts \in 0 .. 4 /\ b.wait \in 0 .. Cap
      /\ b = [attempts |-> b.attempts, wait |-> b.wait]
  BY DEF Backoff, MaxAttempts
<1>3. NoBackoff \in Backoff /\ Elapsed(b) \in Backoff
  BY <1>1, <1>2 DEF Backoff, NoBackoff, Elapsed, MaxAttempts
<1>4. AtMost(b.attempts + 1, 4) \in 0 .. 4
  BY <1>2 DEF AtMost
<1>5. AfterRemove(b, ok) \in Backoff
  BY <1>1, <1>2, <1>4 DEF Backoff, AfterRemove, MaxAttempts
<1>6. ASSUME NEW n \in 0 .. 4 PROVE AtMost(Base * 2 ^ n, Cap) \in 0 .. Cap
  <2>1. 2 ^ 0 = 1 /\ 2 ^ 1 = 2 /\ 2 ^ 2 = 4 /\ 2 ^ 3 = 8 /\ 2 ^ 4 = 16
    OBVIOUS
  <2>2. n = 0 \/ n = 1 \/ n = 2 \/ n = 3 \/ n = 4
    OBVIOUS
  <2> DEFINE m == 2 ^ n
  <2>3. m \in {1, 2, 4, 8, 16}
    <3>1. CASE n = 0
      BY <2>1, <3>1
    <3>2. CASE n = 1
      BY <2>1, <3>2
    <3>3. CASE n = 2
      BY <2>1, <3>3
    <3>4. CASE n = 3
      BY <2>1, <3>4
    <3>5. CASE n = 4
      BY <2>1, <3>5
    <3> QED
      BY <2>2, <3>1, <3>2, <3>3, <3>4, <3>5
  <2>4. Base * m \in Nat
    <3> HIDE DEF m
    <3> QED
      BY <1>1, <2>3
  <2> QED
    BY <1>1, <2>4 DEF AtMost
<1>7. AfterInvite(b, ok) \in Backoff
  <2>1. CASE ok
    BY <1>1, <2>1 DEF Backoff, AfterInvite, MaxAttempts
  <2>2. CASE ~ok
    <3> DEFINE n == AtMost(b.attempts + 1, 4)
    <3>1. n \in 0 .. 4 /\ AtMost(Base * 2 ^ n, Cap) \in 0 .. Cap
      BY <1>4, <1>6
    <3>2. AfterInvite(b, ok) = [attempts |-> n, wait |-> AtMost(Base * 2 ^ n, Cap)]
      BY <2>2 DEF AfterInvite, MaxAttempts
    <3> HIDE DEF n
    <3> QED
      BY <3>1, <3>2 DEF Backoff, MaxAttempts
  <2> QED
    BY <2>1, <2>2
<1> QED
  BY <1>3, <1>5, <1>7

\* The parts of the type invariant the steps below disturb together.
Waits == backoff \in [Pairs -> Backoff] /\ healRr \in Slots
Switches ==
  /\ early \in BOOLEAN /\ roomsDirty \in BOOLEAN
  /\ bo \in [started: BOOLEAN, away: SUBSET Users]
Counts == autoAssigned \in SUBSET Users /\ budget \in 0 .. Budget

\* The backoffs and the turn of the slots.
LEMMA WaitsTyped ==
  ASSUME IInv, Waits, [Next]_vars
  PROVE  Waits'
<1> USE DEF Waits
<1>1. NumSlots \in Nat \ {0} /\ NoBackoff \in Backoff
  BY BankParameters, DeskAssumption DEF NoBackoff, Backoff, MaxAttempts
<1>2. \A p \in Pairs : Settled[p] \in Backoff
  BY BackoffsTyped, <1>1 DEF Settled
<1>3. Settled \in [Pairs -> Backoff]
  BY <1>2 DEF Settled
<1>4. CASE HealPass
  <2>1. CASE HealIdle
    BY <1>3, <2>1 DEF HealIdle
  <2>2. ASSUME NEW s \in Slots, NEW ok \in BOOLEAN, HealInvite(s, ok)
        PROVE  Waits'
    <3>1. healRr' \in Slots
      BY <1>1, <2>2 DEF HealInvite, Slots
    <3>2. PICK took \in BOOLEAN : backoff' = [p \in Pairs |->
            IF p[1] = s /\ p[2] \in Missing(s) THEN AfterInvite(Settled[p], took) ELSE Settled[p]]
      <4>1. (ok /\ Bank!CanInvite(s, Missing(s))) \in BOOLEAN
        OBVIOUS
      <4> QED
        BY <2>2, <4>1, Zenon DEF HealInvite
    <3>3. \A p \in Pairs : AfterInvite(Settled[p], took) \in Backoff
      BY <1>2, BackoffsTyped
    <3> QED
      BY <1>2, <3>1, <3>2, <3>3
  <2>3. ASSUME NEW s \in Slots, NEW u \in Users, NEW ok \in BOOLEAN, HealRemove(s, u, ok)
        PROVE  Waits'
    <3>1. healRr' \in Slots
      BY <1>1, <2>3 DEF HealRemove, Slots
    <3>2. <<s, u>> \in Pairs
      BY DEF Pairs
    <3>3. AfterRemove(Settled[<<s, u>>], ok) \in Backoff
      BY <1>2, <3>2, BackoffsTyped
    <3> QED
      BY <1>3, <2>3, <3>1, <3>3 DEF HealRemove
  <2> QED
    BY <1>4, <2>1, <2>2, <2>3 DEF HealPass
<1>5. CASE \E taken \in BOOLEAN : Housekeeping(taken)
  <2>1. PICK started : backoff' = PrunedBackoff(started) /\ healRr' = healRr
    BY <1>5 DEF Housekeeping
  <2> QED
    BY <1>1, <2>1 DEF PrunedBackoff
<1>6. CASE FlushRooms
  BY <1>1, <1>6 DEF FlushRooms
<1>7. CASE UNCHANGED <<backoff, healRr>>
  BY <1>7
<1>8. [Next]_vars => \/ HealPass \/ FlushRooms \/ UNCHANGED <<backoff, healRr>>
                     \/ \E taken \in BOOLEAN : Housekeeping(taken)
  BY DEF Next, vars, Mute, AskToUnmute, Assign, Unassign, Arrive, Leave, ChangeCapability, Return,
         MoveRooms, StopRooms, World, ZoomDecides, Deliver, ZoomDrops, Zoom
<1> QED
  BY <1>4, <1>5, <1>6, <1>7, <1>8

\* The switches, and the picture of the rooms.
LEMMA SwitchesTyped ==
  ASSUME IInv, Switches, [Next]_vars
  PROVE  Switches'
<1> USE DEF Switches
<1>1. BoSnapshot \in [started: BOOLEAN, away: SUBSET Users]
  BY DEF IInv, WorldInv, BoSnapshot
<1>2. bo' \in {bo, BoSnapshot}
  BY DEF Next, vars, roomVars, Housekeeping, HealPass, FlushRooms, Mute, AskToUnmute, Assign,
         Unassign, Arrive, Leave, ChangeCapability, Return, MoveRooms, StopRooms, World,
         ZoomDecides, Deliver, ZoomDrops, Zoom
<1>3. early' \in {early, TRUE, FALSE}
  BY DEF Next, vars, roomVars, Housekeeping, HealPass, FlushRooms, Mute, AskToUnmute, Assign,
         Unassign, Arrive, Leave, ChangeCapability, Return, MoveRooms, StopRooms, World,
         ZoomDecides, Deliver, ZoomDrops, Zoom
<1>4. roomsDirty' \in {roomsDirty, TRUE, FALSE}
  BY DEF Next, vars, roomVars, Housekeeping, HealPass, FlushRooms, Mute, AskToUnmute, Assign,
         Unassign, Arrive, Leave, ChangeCapability, Return, MoveRooms, StopRooms, World,
         ZoomDecides, Deliver, ZoomDrops, Zoom
<1> QED
  BY <1>1, <1>2, <1>3, <1>4

\* Who was placed, and what is left of the bound.
LEMMA CountsTyped ==
  ASSUME IInv, Counts, [Next]_vars
  PROVE  Counts'
<1> USE DEF Counts
<1>1. /\ here \subseteq Users /\ Budget \in Nat
      /\ \A b \in 0 .. Budget : b > 0 => b - 1 \in 0 .. Budget
  BY DeskAssumption DEF IInv, WorldInv
<1>2. autoAssigned' \in SUBSET Users
  BY <1>1 DEF Next, vars, roomVars, Housekeeping, EligiblePlaced, Roster, HealPass, FlushRooms, Mute,
         AskToUnmute, Assign, Unassign, Arrive, Leave, ChangeCapability, Return, MoveRooms,
         StopRooms, World, ZoomDecides, Deliver, ZoomDrops, Zoom
<1> DEFINE Spent == budget > 0 /\ budget' = budget - 1
           Kept == budget' = budget
<1>3. \A ok : Spend(ok) => Kept \/ Spent
  BY DEF Spend
<1>4. ASSUME (\E taken \in BOOLEAN : Housekeeping(taken)) \/ HealPass PROVE Kept \/ Spent
  BY <1>3, <1>4 DEF Housekeeping, HealPass, HealIdle, HealInvite, HealRemove
<1>5. ASSUME \E q \in flight : ZoomDecides(q) PROVE Kept \/ Spent
  BY <1>5 DEF ZoomDecides, Zoom, Decide
<1>6. [Next]_vars => \/ Kept \/ Spent
                     \/ (\E taken \in BOOLEAN : Housekeeping(taken)) \/ HealPass
                     \/ \E q \in flight : ZoomDecides(q)
  BY DEF Next, vars, FlushRooms, Mute, AskToUnmute, Assign, Unassign, Arrive, Leave,
         ChangeCapability, Return, MoveRooms, StopRooms, World, Deliver, ZoomDrops, Zoom
<1>7. Kept \/ Spent
  BY <1>4, <1>5, <1>6
<1>8. budget' \in 0 .. Budget
  BY <1>1, <1>7
<1> QED
  BY <1>2, <1>8

\* Type correctness of the desk: no wait ever exceeds the cap, and the turn
\* stays on a slot, for any number of channels and people and any backoffs.
THEOREM TypeCorrect == Spec => []TypeOK
<1> DEFINE Typed == Waits /\ Switches /\ Counts
<1>1. Init => Typed
  <2> SUFFICES ASSUME Init PROVE Typed
    OBVIOUS
  <2>1. Waits
    BY BankParameters, DeskAssumption DEF Init, Waits, NoBackoff, Backoff, MaxAttempts, Slots
  <2>2. Switches
    BY Zenon DEF Init, Switches
  <2>3. Counts
    BY DeskAssumption DEF Init, Counts
  <2> QED
    BY <2>1, <2>2, <2>3
<1>2. IInv /\ Typed /\ [Next]_vars => Typed'
  BY WaitsTyped, SwitchesTyped, CountsTyped
<1>3. IInv /\ Typed => TypeOK
  BY DEF IInv, WorldInv, Waits, Switches, Counts, TypeOK, Backoff
<1> QED
  BY <1>1, <1>2, <1>3, Invariance, PTL DEF Spec

----------------------------------------------------------------------------
(* The bank under the desk. What TalkbackBankProofs proves of a bank holds *)
(* of this one too, since the desk only ever drives it by the bank's own   *)
(* actions; it starts with every channel granted.                          *)

\* Whatever the desk, the operator and the meeting do, the bank takes one of
\* its own steps or none.
THEOREM DrivesTheBank == Spec => [][Bank!Next]_(Bank!vars)
<1>1. ASSUME IInv, [Next]_vars
      PROVE  [Bank!Next]_(Bank!vars)
  <2> DEFINE Idle == UNCHANGED bankVars
  <2>1. Idle => UNCHANGED Bank!vars
    BY DEF bankVars, Bank!vars, Bank!bankVars, Bank!lockVars, Bank!zoomVars
  <2> HIDE DEF Idle
  <2>2. ASSUME HealPass PROVE Idle \/ Bank!Next
    <3>1. ASSUME NEW s \in Slots, NEW ok \in BOOLEAN, HealInvite(s, ok) PROVE Idle \/ Bank!Next
      <4>1. Missing(s) \subseteq Users
        BY <1>1 DEF IInv, WorldInv, Missing, Roster
      <4>2. Idle \/ Bank!InviteMany(s, Missing(s))
        BY <3>1, Zenon DEF Idle, HealInvite
      <4> QED
        BY <4>1, <4>2 DEF Bank!Next, Bank!Pump, Slots, Bank!Slots
    <3>2. ASSUME NEW s \in Slots, NEW u \in Users, NEW ok \in BOOLEAN, HealRemove(s, u, ok)
          PROVE  Idle \/ Bank!Next
      <4>1. s \in Bank!Slots
        BY DEF Slots, Bank!Slots
      <4> QED
        BY <3>2, <4>1 DEF Idle, HealRemove, Bank!Next, Bank!Pump
    <3> QED
      BY <2>2, <3>1, <3>2 DEF Idle, HealPass, HealIdle
  <2>3. ASSUME NEW q \in flight, ZoomDecides(q) PROVE Bank!Next
    BY <2>3 DEF ZoomDecides, Zoom, Decide, Bank!Next, Bank!Zoom, Bank!JoinEvents, Bank!LeaveEvents
  <2>4. ASSUME NEW c \in Ids, NEW u \in Users, ZoomDrops(c, u) PROVE Bank!Next
    BY <2>4 DEF ZoomDrops, Zoom, Bank!Next, Bank!Zoom
  <2>5. ASSUME Deliver PROVE Bank!Next
    BY <2>5 DEF Deliver, Zoom, Bank!Next, Bank!Pump
  <2>6. Idle \/ HealPass \/ Deliver \/ (\E q \in flight : ZoomDecides(q))
        \/ \E c \in Ids, u \in Users : ZoomDrops(c, u)
    BY <1>1 DEF Idle, Next, vars, Housekeeping, FlushRooms, Mute, AskToUnmute, Assign, Unassign,
                Arrive, Leave, ChangeCapability, Return, MoveRooms, StopRooms, World
  <2> QED
    BY <2>1, <2>2, <2>3, <2>4, <2>5, <2>6
<1> QED
  BY <1>1, Invariance, PTL DEF Spec

\* What the bank's proofs assume of the constants.
LEMMA BankAssumptionHolds ==
  /\ NumSlots \in Nat \ {0} /\ MaxMembers \in Nat \ {0}
  /\ NoId \notin Ids
  /\ MaxAsked \in Nat /\ MaxFlight \in Nat /\ MaxInbox \in Nat /\ MaxUnheard \in Nat
BY BankParameters

\* The bank's proofs speak of the same actions.
LEMMA SameBank == [Bank!Next]_(Bank!vars) => [BankProofs!Next]_(BankProofs!vars)
<1> SUFFICES ASSUME [Bank!Next]_(Bank!vars) PROVE [BankProofs!Next]_(BankProofs!vars)
  OBVIOUS
<1> QED
  BY Zenon DEF Bank!vars, BankProofs!vars, Bank!bankVars, BankProofs!bankVars,
       Bank!lockVars, BankProofs!lockVars, Bank!zoomVars, BankProofs!zoomVars,
       Bank!Next, BankProofs!Next, Bank!Pump, BankProofs!Pump, Bank!Pacer,
       BankProofs!Pacer, Bank!Zoom, BankProofs!Zoom, Bank!CreateChannels,
       BankProofs!CreateChannels, Bank!OnCreateChannelResponse,
       BankProofs!OnCreateChannelResponse, Bank!RefreshLock, BankProofs!RefreshLock,
       Bank!RefreshCopy, BankProofs!RefreshCopy, Bank!RefreshPublish,
       BankProofs!RefreshPublish, Bank!StartStation, BankProofs!StartStation,
       Bank!InviteMany, BankProofs!InviteMany, Bank!Remove, BankProofs!Remove,
       Bank!SetKey, BankProofs!SetKey, Bank!DeliverMembership,
       BankProofs!DeliverMembership, Bank!PumpFree, BankProofs!PumpFree, Bank!StationUp,
       BankProofs!StationUp, Bank!ReadySlots, BankProofs!ReadySlots, Bank!TakesId,
       BankProofs!TakesId, Bank!EmptySlots, BankProofs!EmptySlots, Bank!CopyEnd,
       BankProofs!CopyEnd, Bank!PublishedMask, BankProofs!PublishedMask, Bank!CanInvite,
       BankProofs!CanInvite, Bank!InviteUsers, BankProofs!InviteUsers, Bank!RemoveUsers,
       BankProofs!RemoveUsers, Bank!OnChannelUserJoinResponse,
       BankProofs!OnChannelUserJoinResponse, Bank!OnChannelUserLeaveResponse,
       BankProofs!OnChannelUserLeaveResponse, Bank!SlotForId, BankProofs!SlotForId,
       Bank!Confirmed, BankProofs!Confirmed, Bank!PacerTick, BankProofs!PacerTick,
       Bank!CanSend, BankProofs!CanSend, Bank!Route, BankProofs!Route, Bank!SkipSlot,
       BankProofs!SkipSlot, Bank!SendLock, BankProofs!SendLock, Bank!SendAudio,
       BankProofs!SendAudio, Bank!TickDone, BankProofs!TickDone, Bank!NextSlot,
       BankProofs!NextSlot, Bank!Served, BankProofs!Served, Bank!IdlePacer,
       BankProofs!IdlePacer, Bank!NoFrame, BankProofs!NoFrame, Bank!ZoomGrants,
       BankProofs!ZoomGrants, Bank!ZoomRefusesChannel, BankProofs!ZoomRefusesChannel,
       Bank!ZoomDecidesInvite, BankProofs!ZoomDecidesInvite, Bank!ZoomDecidesRemove,
       BankProofs!ZoomDecidesRemove, Bank!ZoomDropsLeaver, BankProofs!ZoomDropsLeaver,
       Bank!Answer, BankProofs!Answer, Bank!JoinEvents, BankProofs!JoinEvents,
       Bank!LeaveEvents, BankProofs!LeaveEvents,
       Bank!Slots, BankProofs!Slots, Bank!Cardinality, BankProofs!Cardinality

\* Its mail is answered in order: a join on its way, or taken in, is true or
\* has its leave behind it. At the start there is no member and no mail.
LEMMA BankStarts == Init => BankProofs!TypeOK /\ BankProofs!IInv /\ BankProofs!TruthInv
<1> SUFFICES ASSUME Init PROVE BankProofs!TypeOK /\ BankProofs!IInv /\ BankProofs!TruthInv
  OBVIOUS
<1>1. BankProofs!Slots = Slots /\ 0 \in Slots
  <2>1. 0 \in 0 .. NumSlots - 1
    BY BankParameters
  <2> QED
    BY <2>1 DEF Slots, BankProofs!Slots
<1> USE BankParameters, OwnIds DEF Init
<1>2. channels \in [Slots -> [id: Ids \cup {NoId}, ready: BOOLEAN, members: SUBSET Users]]
  OBVIOUS
<1>3. pacer = [pc |-> "idle", keys |-> {}, todo |-> {}] /\ wire = [slot |-> 0, id |-> NoId]
  BY DEF Bank!IdlePacer, Bank!NoFrame
<1>4. BankProofs!TypeOK
  <2>1. inbox \in Seq(BankProofs!Response)
    BY EmptySeq
  <2> QED
    BY <1>1, <1>2, <1>3, <2>1 DEF BankProofs!TypeOK, BankProofs!Threads
<1>5. BankProofs!ReadySlots = Slots
  BY <1>1 DEF BankProofs!ReadySlots
<1>6. BankProofs!IInv
  BY <1>1, <1>3, <1>5 DEF BankProofs!IInv, BankProofs!LockInv, BankProofs!IdInv, BankProofs!CopyInv,
     BankProofs!PacerInv, BankProofs!WireToOwnChannel, BankProofs!DistinctIds,
     BankProofs!PublishedView, BankProofs!NoFrame
<1>7. BankProofs!TruthInv
  BY <1>1 DEF BankProofs!TruthInv
<1> QED
  BY <1>4, <1>6, <1>7

\* The desk's picture of a channel is Zoom's: nobody it counts as a member is
\* missing there, unless Zoom's word about their leaving is on its way, or Zoom
\* took them out under a Timeout. The
\* healer, its late answers and the leavers only drive the bank, so the
\* bank's own induction (TalkbackBankProofs) carries over.
THEOREM DeskMembership == Spec => []MembersAreReal
<1> DEFINE BankInv == BankProofs!TypeOK /\ BankProofs!IInv /\ BankProofs!TruthInv
<1>1. BankInv /\ [Bank!Next]_(Bank!vars) => BankInv'
  BY SameBank, BankAssumptionHolds, BankProofs!NextInv, BankProofs!NextMembers
<1>2. BankInv => MembersAreReal
  <2> SUFFICES ASSUME BankInv, NEW s \in Slots, NEW u \in channels[s].members
               PROVE  \/ u \in zoomMembers[channels[s].id]
                      \/ <<channels[s].id, u>> \in unheard
                      \/ \E i \in 1 .. Len(inbox) : BankProofs!LeaveAt(i, channels[s].id, u)
    BY DEF MembersAreReal, Bank!MembersAreReal, BankProofs!LeaveAt, Slots, Bank!Slots
  <2>1. s \in BankProofs!Slots
    BY DEF Slots, BankProofs!Slots
  <2>2. channels[s].id \in Ids
    BY <2>1 DEF BankProofs!TypeOK, BankProofs!TruthInv
  <2>3. \/ u \in BankProofs!Held[channels[s].id]
        \/ \E i \in 1 .. Len(inbox) : BankProofs!LeaveAt(i, channels[s].id, u)
    BY <2>1 DEF BankProofs!TruthInv
  <2> QED
    BY <2>2, <2>3 DEF BankProofs!Held
<1> HIDE DEF BankInv
<1>3. Init => BankInv
  BY BankStarts DEF BankInv
<1>4. Spec => []BankInv
  BY <1>1, <1>3, DrivesTheBank, PTL DEF Spec
<1> QED
  BY <1>2, <1>4, PTL

\* Nor, those aside, does it count more people on a channel than Zoom takes
\* there, whatever was retried, answered late or dropped before.
THEOREM DeskMembersAreFew == Spec => []MembersFit
<1> DEFINE BankInv == BankProofs!TypeOK /\ BankProofs!IInv /\ BankProofs!TruthInv
           FitInv == BankProofs!FitInv
<1>1. BankInv /\ FitInv /\ [Bank!Next]_(Bank!vars) => BankInv' /\ FitInv'
  BY SameBank, BankAssumptionHolds, BankProofs!NextInv, BankProofs!NextMembers,
     BankProofs!NextFits
<1>2. BankInv /\ FitInv => MembersFit
  <2> SUFFICES ASSUME BankInv, FitInv, NEW s \in Slots
               PROVE  /\ Bank!IsFiniteSet(Bank!Heard(s))
                      /\ Bank!Cardinality(Bank!Heard(s)) <= MaxMembers
    BY DEF MembersFit, Bank!MembersFit, Slots, Bank!Slots
  <2>1. /\ BankProofs!IsFiniteSet(BankProofs!Heard(s))
        /\ BankProofs!Cardinality(BankProofs!Heard(s)) <= MaxMembers
    BY BankAssumptionHolds, BankProofs!FewAtFirst DEF Slots, BankProofs!Slots
  <2> QED
    BY <2>1 DEF Bank!IsFiniteSet, BankProofs!IsFiniteSet, Bank!Cardinality,
                BankProofs!Cardinality, Bank!Heard, BankProofs!Heard
<1>3. Init => BankInv
  BY BankStarts
<1>4. Init => FitInv
  BY BankAssumptionHolds, BankProofs!NoPast DEF Init, Slots, BankProofs!Slots
<1> HIDE DEF BankInv, FitInv
<1>5. Spec => [](BankInv /\ FitInv)
  BY <1>1, <1>3, <1>4, DrivesTheBank, PTL DEF Spec
<1> QED
  BY <1>2, <1>5, PTL
=============================================================================
