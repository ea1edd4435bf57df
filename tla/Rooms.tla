-------------------------------- MODULE Rooms --------------------------------
(***************************************************************************)
(* Breakout rooms laid out from the desk: PlanRooms (src/zoom/             *)
(* room_plan.cpp), the bo commands of the main loop (src/app/main.cpp) and *)
(* the calls of BreakoutRooms (src/zoom/breakout.cpp) they end in.         *)
(*                                                                         *)
(* The operator declares a layout once and applies it; every pass compares *)
(* it with a snapshot of the live rooms and asks Zoom for what is missing. *)
(* Zoom does what it was asked later, or not at all, while the host moves  *)
(* people, removes rooms, and grants or takes back the breakout rights.    *)
(*                                                                         *)
(* Rooms and people are known by name only; Zoom's rooms have ids, and two *)
(* may bear one name. Abstracted: the ops log, the reach report, and the   *)
(* station's own moves.                                                    *)
(***************************************************************************)
EXTENDS Naturals, FiniteSets

CONSTANTS
  Names,     \* room names the operator uses
  People,    \* display names of meeting participants
  MaxRooms,  \* rooms Zoom allows in a meeting (50)
  Budget     \* bound: layouts, starts and stops, host moves, lost rights, refusals

ASSUME RoomsAssumption ==
  /\ IsFiniteSet(Names) /\ Names # {}
  /\ MaxRooms \in Nat \ {0} /\ Budget \in Nat

VARIABLES
  desired,   \* desired: the people wanted in each room of the layout
  creator,   \* creator_, admin_, data_: which helpers the desk has
  admin,
  data,
  started,   \* Zoom: breakouts run
  rooms,     \* Zoom: ids of the rooms that exist
  nameOf,    \* Zoom: their names
  at,        \* Zoom: the room each person is assigned to; 0 for none
  creating,  \* Zoom: rooms asked for and not confirmed, by name
  asks,      \* Zoom: moves, start and stop accepted and not done yet
  budget     \* what is left of Budget

deskVars == <<desired, creator, admin, data>>
breakoutVars == <<started, rooms, nameOf, at, creating, asks>>
roomsVars == <<deskVars, breakoutVars, budget>>

RoomIds == 1 .. MaxRooms
Nowhere == 0
Layouts == UNION {[R -> SUBSET People] : R \in SUBSET Names}
Move(p, r) == [op |-> "move", who |-> p, room |-> r]
Control(op) == [op |-> op, who |-> "", room |-> Nowhere]

RoomsInit ==
  /\ desired = [n \in {} |-> {}]
  /\ creator \in BOOLEAN /\ admin \in BOOLEAN /\ data \in BOOLEAN
  /\ started = FALSE
  /\ rooms = {}
  /\ nameOf = [r \in RoomIds |-> CHOOSE n \in Names : TRUE]
  /\ at = [p \in People |-> Nowhere]
  /\ creating = [n \in Names |-> 0]
  /\ asks = {}
  /\ budget = Budget

Spend == budget > 0 /\ budget' = budget - 1

----------------------------------------------------------------------------
(* The snapshot and the plan. *)

\* Snapshot: it returns before reading the rooms unless breakouts run.
SnapshotRooms == IF started /\ data THEN rooms ELSE {}
LiveNames == {nameOf[r] : r \in SnapshotRooms}

Exists(n) == n \in LiveNames

\* person_room: the room the snapshot shows the person in, by name.
Placed_ById(p, n) ==  \* mutant: only the first room of that name counts
  \E r \in SnapshotRooms : at[p] = r /\ nameOf[r] = n /\ \A q \in SnapshotRooms : r <= q
Placed_AnyRoom(p, n) == \E r \in SnapshotRooms : at[p] = r  \* mutant: == end() alone
Placed(p, n) == \E r \in SnapshotRooms : at[p] = r /\ nameOf[r] = n

Wanted == {w \in People \X DOMAIN desired : w[1] \in desired[w[2]]}

\* kCreateRoom, before the start only.
Creates == IF started THEN {} ELSE {n \in DOMAIN desired : ~Exists(n)}

\* kAssignUser before the start; kAssignRunning and kSwitchRunning after it,
\* in rooms that exist.
Fixable_Anywhere(p, n) == \E r \in SnapshotRooms : at[p] = r  \* mutant: switch only
Fixable(p, n) == ~started \/ Exists(n)
Assigns == {w \in Wanted : ~Placed(w[1], w[2]) /\ Fixable(w[1], w[2])}

\* kNeedStart: before the start, with rooms wanted and everything in place.
NeedStart ==
  /\ ~started /\ DOMAIN desired # {}
  /\ \A n \in DOMAIN desired : Exists(n)
  /\ \A w \in Wanted : Placed(w[1], w[2])

PlanEmpty == Creates = {} /\ Assigns = {} /\ ~NeedStart

----------------------------------------------------------------------------
(* Executing the plan. *)

\* CreateRooms: one batch; refused whole without rights or past the cap.
Pending == {c \in Names \X RoomIds : c[2] <= creating[c[1]]}
CanCreate ==
  /\ creator
  /\ Cardinality(rooms) + Cardinality(Pending) + Cardinality(Creates) <= MaxRooms

\* AssignByName looks again: the first room of the name, whether or not
\* breakouts run. It needs the data helper, and creator or admin rights.
RoomNamed(n) == {r \in rooms : nameOf[r] = n /\ \A q \in rooms : nameOf[q] = n => r <= q}
Targets(w) == IF data THEN {Move(w[1], r) : r \in RoomNamed(w[2])} ELSE {}
CanAssign == IF started THEN admin ELSE creator
Moves == IF CanAssign THEN UNION {Targets(w) : w \in Assigns} ELSE {}

\* bo apply: one pass, of whose calls Zoom takes some.
ApplyTaking(create, moves) ==
  /\ creating' = [n \in Names |->
       IF create /\ n \in Creates THEN creating[n] + 1 ELSE creating[n]]
  /\ asks' = asks \cup moves
  /\ UNCHANGED <<deskVars, started, rooms, nameOf, at>>

Apply ==
  /\ ApplyTaking(CanCreate, Moves)
  /\ UNCHANGED budget

\* The same with calls refused by the SDK.
ApplyRefused ==
  /\ Spend
  /\ \E create \in BOOLEAN, moves \in SUBSET Moves :
       /\ create => CanCreate
       /\ ApplyTaking(create, moves)

\* bo layout replaces the layout.
Layout ==
  /\ Spend
  /\ desired' \in Layouts
  /\ UNCHANGED <<creator, admin, data, breakoutVars>>

\* bo start and bo stop.
CanStartBO == ~started /\ rooms # {}

StartSession ==
  /\ Spend
  /\ admin /\ CanStartBO
  /\ asks' = asks \cup {Control("start")}
  /\ UNCHANGED <<deskVars, started, rooms, nameOf, at, creating>>

StopSession ==
  /\ Spend
  /\ admin
  /\ asks' = asks \cup {Control("stop")}
  /\ UNCHANGED <<deskVars, started, rooms, nameOf, at, creating>>

----------------------------------------------------------------------------
(* Rights, granted and taken back with the host role (callbacks). *)

GainRights ==
  /\ creator' = TRUE /\ admin' = TRUE /\ data' = TRUE
  /\ UNCHANGED <<desired, breakoutVars, budget>>

LoseRights ==
  /\ Spend
  /\ \/ creator' = FALSE /\ UNCHANGED <<admin, data>>
     \/ admin' = FALSE /\ UNCHANGED <<creator, data>>
     \/ data' = FALSE /\ UNCHANGED <<creator, admin>>
  /\ UNCHANGED <<desired, breakoutVars>>

----------------------------------------------------------------------------
(* Zoom and the host (external). *)

\* A room asked for is confirmed, under an id of its own, or fails.
ZoomCreates(n) ==
  /\ creating[n] > 0
  /\ creating' = [creating EXCEPT ![n] = @ - 1]
  /\ \/ \E r \in RoomIds \ rooms :
          /\ ~started
          /\ rooms' = rooms \cup {r}
          /\ nameOf' = [nameOf EXCEPT ![r] = n]
     \/ (started \/ rooms = RoomIds) /\ UNCHANGED <<rooms, nameOf>>
  /\ UNCHANGED <<deskVars, started, at, asks, budget>>

\* What was accepted is done, in any order.
ZoomDoes(a) ==
  /\ a \in asks
  /\ asks' = asks \ {a}
  /\ at' = IF a.op = "move" /\ a.room \in rooms THEN [at EXCEPT ![a.who] = a.room] ELSE at
  /\ started' = IF a.op = "start" THEN rooms # {} ELSE IF a.op = "stop" THEN FALSE ELSE started
  /\ UNCHANGED <<deskVars, rooms, nameOf, creating, budget>>

HostMoves(p, r) ==
  /\ Spend
  /\ r \in rooms \cup {Nowhere}
  /\ at' = [at EXCEPT ![p] = r]
  /\ UNCHANGED <<deskVars, started, rooms, nameOf, creating, asks>>

HostRemoves(r) ==
  /\ Spend
  /\ ~started /\ r \in rooms
  /\ rooms' = rooms \ {r}
  /\ at' = [p \in People |-> IF at[p] = r THEN Nowhere ELSE at[p]]
  /\ UNCHANGED <<deskVars, started, nameOf, creating, asks>>

----------------------------------------------------------------------------
RoomsNext ==
  \/ Layout \/ Apply \/ ApplyRefused \/ StartSession \/ StopSession
  \/ GainRights \/ LoseRights
  \/ \E n \in Names : ZoomCreates(n)
  \/ \E a \in asks : ZoomDoes(a)
  \/ \E p \in People, r \in RoomIds \cup {Nowhere} : HostMoves(p, r)
  \/ \E r \in RoomIds : HostRemoves(r)

RoomsSpec == RoomsInit /\ [][RoomsNext]_roomsVars

Asked == {Move(p, r) : p \in People, r \in RoomIds} \cup {Control("start"), Control("stop")}

\* The operator applies again and again, Zoom does what it accepted, and the
\* host gives the rights back.
RoomsFairSpec ==
  /\ RoomsSpec
  /\ WF_roomsVars(Apply) /\ WF_roomsVars(GainRights)
  /\ \A n \in Names : WF_roomsVars(ZoomCreates(n))
  /\ \A a \in Asked : WF_roomsVars(ZoomDoes(a))

----------------------------------------------------------------------------
\* The shape of the state.
RoomsTypeOK ==
  /\ desired \in Layouts
  /\ creator \in BOOLEAN /\ admin \in BOOLEAN /\ data \in BOOLEAN
  /\ started \in BOOLEAN
  /\ rooms \subseteq RoomIds
  /\ nameOf \in [RoomIds -> Names]
  /\ at \in [People -> RoomIds \cup {Nowhere}]
  /\ creating \in [Names -> 0 .. MaxRooms]
  /\ asks \subseteq Asked
  /\ budget \in 0 .. Budget

InRoom(p, n) == at[p] \in rooms /\ nameOf[at[p]] = n
Met == \A w \in Wanted : InRoom(w[1], w[2])

\* Whenever the plan is empty (apply says "layout converged"), everybody is in
\* the room the layout wants, or the rooms run without that room or without the
\* desk being allowed to look: the two cases PlanRooms cannot fix.
ConvergedIsTrue ==
  PlanEmpty =>
    \A w \in Wanted : \/ InRoom(w[1], w[2])
                      \/ started /\ (~data \/ \A r \in rooms : nameOf[r] # w[2])

\* room_plan.h: "Idempotent: a converged state plans {}". While the rooms run,
\* a pass over a layout that is met asks Zoom for nothing.
IdempotentRunning ==
  [][Apply /\ started /\ data /\ Met => UNCHANGED <<creating, asks>>]_roomsVars

\* Once the rooms run for good with the desk's rights, somebody the layout
\* wants in one existing room and nowhere else ends up in a room of that name,
\* whatever was refused, undone by the host or overtaken before.
Converges ==
  \A p \in People, n \in Names :
    <>[](/\ started
         /\ {w \in Wanted : w[1] = p} = {<<p, n>>}
         /\ \E r \in rooms : nameOf[r] = n)
      => <>[]InRoom(p, n)

\* main.cpp: apply "is safe to run repeatedly (idempotent by design)". It
\* never asks for a room that exists already. TLC refutes it: the snapshot is
\* empty until breakouts run.
CreatesOnlyMissing ==
  [][\A n \in Names : creating'[n] > creating[n] => \A r \in rooms : nameOf[r] # n]_roomsVars
=============================================================================
