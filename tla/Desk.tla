-------------------------------- MODULE Desk --------------------------------
(***************************************************************************)
(* Who is on which channel: the part of the main loop (src/app/main.cpp)   *)
(* that turns the operator's assignments and the auto-assign policy into   *)
(* intent, and heals the bank's confirmed membership towards it, one paced *)
(* SDK call per pass, through breakout rooms and changes of the roster.    *)
(*                                                                         *)
(* The bank is TalkbackBank, instantiated with its pump idle and the       *)
(* station up; the healer's calls and Zoom's answers are its actions.      *)
(*                                                                         *)
(* Time is counted in healer passes (next_heal_ns, 600 ms): every pass but *)
(* an early one lets one unit elapse. Backoffs are constants in that unit  *)
(* whose order is the code's: 5 s <= 10 s <= 30 s <= 60 s.                 *)
(*                                                                         *)
(* Abstracted: names (a user is eligible or not, and is in the station's   *)
(* room or away from it), the chat notices, the log, admitting from the    *)
(* waiting room, and panel projection. The roster is rebuilt inside the    *)
(* SDK's own join/leave callbacks, so it is always what the SDK shows      *)
(* here; bo_state is a copy that goes stale until the next snapshot.       *)
(***************************************************************************)
EXTENDS StationMic, Naturals, Sequences, FiniteSets, Functions

CONSTANTS
  NumSlots, MaxMembers, Users, Ids, NoId, MaxAsked, MaxFlight, MaxInbox, MaxUnheard,
  Base,        \* first backoff after a refused invite (5 s)
  Patience,    \* wait after an accepted invite (10 s)
  RemoveWait,  \* backoff after a refused remove (30 s)
  Cap,         \* longest backoff (60 s)
  Budget       \* bound: joins, leaves, moves, mutes, panel edges and refusals

ASSUME DeskAssumption ==
  /\ {Base, Patience, RemoveWait, Cap} \subseteq Nat
  /\ 0 < Base /\ Base <= Patience /\ Patience <= RemoveWait /\ RemoveWait <= Cap
  /\ Budget \in Nat

\* What TalkbackBank assumes of the constants it is instantiated with.
ASSUME BankParameters ==
  /\ NumSlots \in Nat \ {0} /\ MaxMembers \in Nat \ {0}
  /\ NoId \notin Ids
  /\ {MaxAsked, MaxFlight, MaxInbox, MaxUnheard} \subseteq Nat

VARIABLES
  want, channels, sendIds, readyMask, keyMask, sentMask, mOwner, sendOwner,
  refresh, pacer, asked, grants, granted, flight, inbox, zoomMembers, unheard, wire,
               \* the variables of TalkbackBank
  intent,      \* the (slot, uid) pairs the desk wants
  autoAssigned,\* auto_assigned: users the policy has already placed
  backoff,     \* invite_backoff: attempts and time still to wait
  healRr,      \* heal_rr: the slot the next pass starts at
  early,       \* next_heal_ns was zeroed: the next pass does not wait
  bo,          \* bo_state: breakouts started, and who is in another room
  roomsDirty,  \* rooms_dirty_
  here,        \* world: who is in the meeting
  eligible,    \* world: who supports talkback and is not the station
  rooms,       \* world: breakouts started, and who is in another room
  budget,      \* what is left of Budget
  unassigned,  \* history: pairs the operator took away since the user came
  parted       \* history: users who left, lost talkback, or came back late
               \* from breakouts that had stopped

bankVars == <<want, channels, sendIds, readyMask, keyMask, sentMask, mOwner, sendOwner,
              refresh, pacer, asked, grants, granted, flight, inbox, zoomMembers, unheard, wire>>
roomVars == <<bo, roomsDirty, rooms>>
worldVars == <<here, eligible, muted>>
history == <<unassigned, parted>>
vars == <<bankVars, intent, autoAssigned, backoff, healRr, early, roomVars, worldVars,
          budget, history>>

Bank == INSTANCE TalkbackBank

Slots == 0 .. NumSlots - 1
Pairs == Slots \X Users
NoBackoff == [attempts |-> 0, wait |-> 0]
MaxAttempts == 4   \* the shift saturates there: 5 s << min(attempts, 4)

\* The SDK's participant list: the people in the station's room.
Roster == here \ rooms.away

\* BreakoutRooms::Snapshot: the rooms are only read while they run.
BoSnapshot == [started |-> rooms.started, away |-> IF rooms.started THEN rooms.away ELSE {}]

SameRoom(u) == ~bo.started \/ u \notin bo.away
Members(s) == channels[s].members

\* Every channel of the bank granted: slot s holds some id of its own.
ChannelId == CHOOSE f \in [Slots -> Ids] : \A s, t \in Slots : f[s] = f[t] => s = t

\* Zoom has an id for every channel.
ASSUME GrantsAssumption == \E f \in [Slots -> Ids] : \A s, t \in Slots : f[s] = f[t] => s = t

Init ==
  /\ want = NumSlots
  /\ channels = [s \in Slots |-> [id |-> ChannelId[s], ready |-> TRUE, members |-> {}]]
  /\ sendIds = ChannelId
  /\ readyMask = Slots /\ keyMask = {} /\ sentMask = {}
  /\ mOwner = "none" /\ sendOwner = "none"
  /\ refresh = [pc |-> "no", at |-> 0]
  /\ pacer = Bank!IdlePacer
  /\ asked = 0 /\ grants = {}
  /\ granted = {ChannelId[s] : s \in Slots}
  /\ flight = {} /\ inbox = <<>>
  /\ zoomMembers = [c \in Ids |-> {}] /\ unheard = {}
  /\ wire = Bank!NoFrame
  /\ intent = {} /\ autoAssigned = {}
  /\ backoff = [p \in Pairs |-> NoBackoff]
  /\ healRr = 0 /\ early = FALSE
  /\ bo = [started |-> FALSE, away |-> {}]
  /\ roomsDirty = FALSE
  /\ here \in SUBSET Users
  /\ eligible \in SUBSET Users
  /\ rooms = [started |-> FALSE, away |-> {}]
  /\ \E joins, muteOnEntry, taken \in BOOLEAN : MicInit(joins, muteOnEntry, taken)
  /\ budget = Budget
  /\ unassigned = {} /\ parted = {}

----------------------------------------------------------------------------
(* Housekeeping, every two seconds.                                        *)

\* PruneIneligibleTalkbackIntent: people the roster shows as ineligible
\* lose their assignments, in breakouts too.
SeenIneligible == Roster \ eligible
EligibleIntent == {p \in intent : p[2] \notin SeenIneligible}
EligiblePlaced == autoAssigned \ SeenIneligible

\* Prune intent of people no longer in the roster, never while breakouts run.
PrunedIntent_AlsoInBreakouts(started) == {p \in EligibleIntent : p[2] \in Roster}  \* mutant
PrunedIntent(started) ==
  {p \in EligibleIntent : started \/ p[2] \in Roster}

PrunedBackoff(started) ==
  [p \in Pairs |-> IF started \/ p[2] \in Roster THEN backoff[p] ELSE NoBackoff]

\* slot_load: confirmed members (but those seen ineligible) and intent.
SlotLoad(s, wanted) ==
  Cardinality((Members(s) \ SeenIneligible) \cup {u \in Users : <<s, u>> \in wanted})

\* The first empty slot, else the least loaded one, lowest number first.
LeastLoaded(wanted) ==
  CHOOSE s \in Slots : \A t \in Slots :
    \/ SlotLoad(s, wanted) < SlotLoad(t, wanted)
    \/ SlotLoad(s, wanted) = SlotLoad(t, wanted) /\ s <= t

\* A new eligible person gets a channel of their own; everybody once.
AutoAssign(placed) == (Roster \cap eligible) \ placed

\* One newcomer after the other gets the slot that is least loaded by then.
Place(wanted, newcomers) ==
  LET turns == 1 .. Cardinality(newcomers) IN
  \E order \in Bijection(turns, newcomers), slot \in [turns -> Slots] :
    /\ \A n \in turns :
         slot[n] = LeastLoaded(wanted \cup {<<slot[k], order[k]>> : k \in 1 .. n - 1})
    /\ intent' = wanted \cup {<<slot[k], order[k]>> : k \in turns}

\* The SDK may refuse any call; TLC spends budget on it.
Spend(ok) == IF ok THEN UNCHANGED budget ELSE budget > 0 /\ budget' = budget - 1

Housekeeping(taken) ==
  /\ bo' = BoSnapshot
  /\ KeepOpen(taken) /\ Spend(taken \/ ~muted)
  /\ backoff' = PrunedBackoff(bo'.started)
  /\ Place(PrunedIntent(bo'.started), AutoAssign(EligiblePlaced))
  /\ autoAssigned' = EligiblePlaced \cup (Roster \cap eligible)
  /\ UNCHANGED <<bankVars, healRr, early, roomsDirty, rooms, here, eligible, history>>

----------------------------------------------------------------------------
(* One pass of the membership healer.                                      *)

Wanted(s, u) == u \in eligible /\ <<s, u>> \in intent

\* NowNs() when the pass looks: an early pass finds no time gone by.
Elapsed(b) == IF early \/ b.wait = 0 THEN b ELSE [b EXCEPT !.wait = @ - 1]
Expired(s, u) == Elapsed(backoff[<<s, u>>]).wait = 0

Missing(s) ==
  {u \in Roster : Wanted(s, u) /\ u \notin Members(s) /\ SameRoom(u) /\ Expired(s, u)}
Removable(s) ==
  {u \in Roster : ~Wanted(s, u) /\ u \in Members(s) /\ SameRoom(u) /\ Expired(s, u)}

HasWork(s) == Missing(s) # {} \/ Removable(s) # {}
Rotation(s) == (s + NumSlots - healRr) % NumSlots
FirstWithWork(s) ==
  HasWork(s) /\ \A t \in Slots : HasWork(t) => Rotation(s) <= Rotation(t)

\* The pass looks at slots in rotation up to the one it acts on; a wanted
\* member found there has its backoff dropped.
Looked(s) == \A t \in Slots : HasWork(t) => Rotation(s) <= Rotation(t)
Settled ==
  [p \in Pairs |->
    IF Looked(p[1]) /\ p[2] \in Roster /\ Wanted(p[1], p[2]) /\ p[2] \in Members(p[1])
    THEN NoBackoff ELSE Elapsed(backoff[p])]

AtMost(n, k) == IF n < k THEN n ELSE k

\* What the pass leaves in invite_backoff after an invite of p: patience
\* once the call is accepted, else a wait that doubles with each attempt
\* (counted before the shift).
AfterInvite(b, ok) ==
  IF ok THEN [attempts |-> 0, wait |-> Patience]
  ELSE LET n == AtMost(b.attempts + 1, MaxAttempts)
       IN  [attempts |-> n, wait |-> AtMost(Base * 2 ^ n, Cap)]

AfterRemove(b, ok) ==
  IF ok THEN b
  ELSE [attempts |-> AtMost(b.attempts + 1, MaxAttempts), wait |-> RemoveWait]

HealIdle ==
  /\ \A s \in Slots : ~HasWork(s)
  /\ backoff' = Settled
  /\ UNCHANGED <<bankVars, healRr, budget>>

\* One batched invite for everybody missing from the slot.
HealInvite(s, taken) ==
  LET ok == taken /\ Bank!CanInvite(s, Missing(s)) IN
  /\ FirstWithWork(s) /\ Missing(s) # {}
  /\ IF ok THEN Bank!InviteMany(s, Missing(s)) ELSE UNCHANGED bankVars
  /\ Spend(taken)
  /\ backoff' = [p \in Pairs |->
       IF p[1] = s /\ p[2] \in Missing(s) THEN AfterInvite(Settled[p], ok) ELSE Settled[p]]
  /\ healRr' = (s + 1) % NumSlots

\* With nobody missing, one person is removed.
HealRemove(s, u, ok) ==
  /\ FirstWithWork(s) /\ Missing(s) = {} /\ u \in Removable(s)
  /\ IF ok THEN Bank!Remove(s, u) ELSE UNCHANGED bankVars
  /\ Spend(ok)
  /\ backoff' = [Settled EXCEPT ![<<s, u>>] = AfterRemove(@, ok)]
  /\ healRr' = (s + 1) % NumSlots

HealPass ==
  /\ \/ HealIdle
     \/ \E s \in Slots, ok \in BOOLEAN : HealInvite(s, ok)
     \/ \E s \in Slots, u \in Users, ok \in BOOLEAN : HealRemove(s, u, ok)
  /\ early' = FALSE
  /\ UNCHANGED <<intent, autoAssigned, roomVars, worldVars, history>>

\* ConsumeRoomsDirty: flush the backoffs and heal on the next loop.
FlushRooms ==
  /\ roomsDirty
  /\ roomsDirty' = FALSE
  /\ bo' = BoSnapshot
  /\ backoff' = [p \in Pairs |-> NoBackoff]
  /\ early' = TRUE
  /\ UNCHANGED <<bankVars, intent, autoAssigned, healRr, rooms, worldVars, budget, history>>

----------------------------------------------------------------------------
(* Assignment edges from the panel.                                        *)

\* CanAssignTalkback: only somebody the roster shows as eligible.
Assign(s, u) ==
  /\ budget > 0 /\ budget' = budget - 1
  /\ u \in Roster \cap eligible
  /\ <<s, u>> \notin intent
  /\ intent' = intent \cup {<<s, u>>}
  /\ unassigned' = unassigned \ {<<s, u>>}
  /\ UNCHANGED <<bankVars, autoAssigned, backoff, healRr, early, roomVars, worldVars, parted>>

Unassign(s, u) ==
  /\ budget > 0 /\ budget' = budget - 1
  /\ <<s, u>> \in intent
  /\ intent' = intent \ {<<s, u>>}
  /\ unassigned' = unassigned \cup {<<s, u>>}
  /\ UNCHANGED <<bankVars, autoAssigned, backoff, healRr, early, roomVars, worldVars, parted>>

----------------------------------------------------------------------------
(* The meeting (external).                                                 *)

World == UNCHANGED <<bankVars, intent, autoAssigned, backoff, healRr, early, bo>>

Arrive(u) ==
  /\ budget > 0 /\ budget' = budget - 1
  /\ u \in Users \ here
  /\ here' = here \cup {u}
  /\ unassigned' = {p \in unassigned : p[2] # u}
  /\ World /\ UNCHANGED <<eligible, muted, rooms, roomsDirty, parted>>

Leave(u) ==
  /\ budget > 0 /\ budget' = budget - 1
  /\ u \in here
  /\ here' = here \ {u}
  /\ rooms' = [rooms EXCEPT !.away = @ \ {u}]
  /\ parted' = parted \cup {u}
  /\ World /\ UNCHANGED <<eligible, muted, roomsDirty, unassigned>>

\* The SDK learns, or loses, that somebody supports talkback.
ChangeCapability(u) ==
  /\ budget > 0 /\ budget' = budget - 1
  /\ eligible' = (eligible \cup {u}) \ (eligible \cap {u})
  /\ parted' = parted \cup (eligible \cap {u})
  /\ World /\ UNCHANGED <<here, muted, rooms, roomsDirty, unassigned>>

\* Any room transition: breakouts start, people or the station move.
MoveRooms(away) ==
  /\ budget > 0 /\ budget' = budget - 1
  /\ away \subseteq here
  /\ rooms' = [started |-> TRUE, away |-> away]
  /\ rooms' # rooms
  /\ roomsDirty' = TRUE
  /\ World /\ UNCHANGED <<worldVars, history>>

\* Breakouts stop: some of who was away is back in the same moment, the
\* others reconnect later and are missing from the roster meanwhile.
StopRooms(late) ==
  /\ budget > 0 /\ budget' = budget - 1
  /\ rooms.started
  /\ late \subseteq rooms.away
  /\ rooms' = [started |-> FALSE, away |-> late]
  /\ roomsDirty' = TRUE
  /\ parted' = parted \cup late
  /\ World /\ UNCHANGED <<worldVars, unassigned>>

Mute ==
  /\ budget > 0 /\ budget' = budget - 1
  /\ ~muted /\ HostMutes
  /\ World /\ UNCHANGED <<here, eligible, rooms, roomsDirty, history>>

AskToUnmute ==
  /\ OnHostRequestStartAudio
  /\ World /\ UNCHANGED <<here, eligible, rooms, roomsDirty, budget, history>>

Return(u) ==
  /\ ~rooms.started /\ u \in rooms.away
  /\ rooms' = [rooms EXCEPT !.away = @ \ {u}]
  /\ World /\ UNCHANGED <<worldVars, roomsDirty, budget, history>>

\* Zoom decides a request: nobody outside the room joins a channel, and a
\* late or refusing answer to anybody else costs budget.
Decide(q) ==
  \/ /\ q.uid \in here
     /\ \E event \in {"Ok", "AlreadyExists"} : Bank!ZoomDecidesInvite(q, event)
     /\ UNCHANGED budget
  \/ /\ q.uid \notin here \/ Cardinality(zoomMembers[q.id]) >= MaxMembers
     /\ Bank!ZoomDecidesInvite(q, "Rejected")
     /\ UNCHANGED budget
  \/ /\ \E event \in {"Timeout", "Rejected"} : Bank!ZoomDecidesInvite(q, event)
     /\ q.uid \in here
     /\ budget > 0 /\ budget' = budget - 1
  \/ /\ \E event \in {"Ok", "NotExist"} : Bank!ZoomDecidesRemove(q, event)
     /\ UNCHANGED budget
  \/ /\ \E event \in {"Timeout", "Rejected"} : Bank!ZoomDecidesRemove(q, event)
     /\ budget > 0 /\ budget' = budget - 1

Zoom(A) == A /\ UNCHANGED <<intent, autoAssigned, backoff, healRr, early, roomVars,
                            worldVars, history>>
ZoomDecides(q) == Zoom(Decide(q))
Deliver == Zoom(Bank!DeliverMembership /\ UNCHANGED budget)
ZoomDrops(c, u) == Zoom(u \notin here /\ Bank!ZoomDropsLeaver(c, u) /\ UNCHANGED budget)

----------------------------------------------------------------------------
Next ==
  \/ \E taken \in BOOLEAN : Housekeeping(taken)
  \/ Mute \/ AskToUnmute
  \/ HealPass
  \/ FlushRooms
  \/ \E s \in Slots, u \in Users : Assign(s, u) \/ Unassign(s, u)
  \/ \E u \in Users : Arrive(u) \/ Leave(u) \/ ChangeCapability(u) \/ Return(u)
  \/ \E away \in SUBSET here : MoveRooms(away) \/ StopRooms(away)
  \/ \E q \in flight : ZoomDecides(q)
  \/ Deliver
  \/ \E c \in Ids, u \in Users : ZoomDrops(c, u)

\* The loop comes round to each of its duties, the pump delivers, and Zoom
\* answers what it was asked, each request in its time: strongly fair, as it is
\* only the bound MaxInbox that can hold an answer back now and then.
Fairness ==
  /\ WF_vars(\E taken \in BOOLEAN : Housekeeping(taken)) /\ WF_vars(HealPass) /\ WF_vars(FlushRooms)
  /\ WF_vars(Deliver)
  /\ \A q \in Bank!Request : SF_vars(q \in flight /\ ZoomDecides(q))
  /\ \A u \in Users : WF_vars(Return(u) \/ \E c \in Ids : ZoomDrops(c, u))

Spec == Init /\ [][Next]_vars
FairSpec == Spec /\ Fairness

----------------------------------------------------------------------------
\* The shape of the desk's own state.
TypeOK ==
  /\ intent \in SUBSET Pairs
  /\ autoAssigned \in SUBSET Users
  /\ backoff \in [Pairs -> [attempts: 0 .. MaxAttempts, wait: 0 .. Cap]]
  /\ healRr \in Slots
  /\ early \in BOOLEAN /\ roomsDirty \in BOOLEAN
  /\ bo \in [started: BOOLEAN, away: SUBSET Users]
  /\ rooms \in [started: BOOLEAN, away: SUBSET Users]
  /\ here \in SUBSET Users /\ eligible \in SUBSET Users
  /\ budget \in 0 .. Budget
  /\ unassigned \in SUBSET Pairs /\ parted \in SUBSET Users

RemovalHasReason ==
  \A s \in Slots, u \in Users :
    HealRemove(s, u, TRUE) => <<s, u>> \in unassigned \/ u \in parted

\* The healer never turns destructive: it only asks Zoom to remove somebody
\* whom the operator took off that channel, or who had left the meeting,
\* lost talkback or was still away after the breakouts stopped, however
\* people moved while they ran (the pruning rule of main.cpp).
RemovesOnPurpose == [][RemovalHasReason]_vars

\* Nobody is on the desk's picture of a channel whom Zoom does not have there,
\* or whose leave is on its way, however invites, removals, retries, leavers and
\* their answers follow each other; but for somebody Zoom took out and answered
\* Timeout, whom the desk goes on counting (Bank!MembersAreReal).
MembersAreReal == Bank!MembersAreReal

\* Nor does the desk's batch inviting, its retries and its late answers ever
\* make it count more listeners than a channel takes, those taken out unheard
\* aside (Bank!MembersFit): the check InviteMany makes before each batch is about
\* people who found room.
MembersFit == Bank!MembersFit

Converged(s, u) == Wanted(s, u) <=> u \in Members(s)

\* Membership converges: once the world and the operator leave a pair alone
\* and its person is in the room, the confirmed membership of the channel
\* ends up being what the desk wants, through refusals and late answers, and
\* the station stays audible to it: "a host mute (or mute-all) silently kills
\* every channel", so the mic is open again, whoever closed it. Excepted is who
\* was taken off a channel with a Timeout for an answer: the desk then asks for
\* the same removal at every pass, and is told NotExist.
Unheard(s, u) == <<channels[s].id, u>> \in unheard

Converges ==
  \A s \in Slots, u \in Users :
    <>[](u \in Roster) => <>[]((Converged(s, u) \/ Unheard(s, u)) /\ ~muted)

\* main.cpp: "a new capable participant gets their OWN channel", and user
\* ids are recycled: whoever arrives under a used id is new. After a
\* housekeeping pass everybody eligible has a channel, unless the operator
\* took it away since they came.
NewcomersHaveAChannel ==
  [][(\E taken \in BOOLEAN : Housekeeping(taken)) =>
       \A u \in Roster \cap eligible :
         \E s \in Slots : <<s, u>> \in intent' \cup unassigned]_vars

\* main.cpp: "Intent is healed against confirmed membership". If it were, a
\* channel with free places and people wanted on it would not stay empty.
\* TLC refutes it: people beyond the cap hold the places the others could have.
WantedChannelsFill ==
  \A s \in Slots :
    <>[](\E u \in Roster : Wanted(s, u)) => <>(Members(s) # {})
=============================================================================
