------------------------------- MODULE Panel -------------------------------
(***************************************************************************)
(* A talk key from the operator's finger to the bank's key mask and back   *)
(* to the panel: the page (src/app/ui_html.h), the control server that     *)
(* carries its verbs and its state (src/app/control_server.cpp), and the   *)
(* verbs and the keying pass of the main loop (src/app/main.cpp).          *)
(*                                                                         *)
(* Every verb is a POST on a connection, and a server thread, of its own,  *)
(* so two verbs may be applied in either order. The page draws the last    *)
(* state it was sent, which may be old.                                    *)
(*                                                                         *)
(* Abstracted: the microphone settings, devices, feeds, rooms and the      *)
(* talent list, whose verbs are requests like these (Session, Ducking,     *)
(* Rooms, Desk); the look of the page; HTTP.                               *)
(***************************************************************************)
EXTENDS Integers, Sequences, SequencesExt, FiniteSets

CONSTANTS
  Slots,       \* channel slots
  MaxPosts,    \* bound: verbs in flight
  MaxPresses,  \* bound: keys and buttons pressed
  MaxChanges   \* bound: changes of a channel's people, sessions and pages

ASSUME PanelAssumption ==
  /\ Slots \subseteq Nat /\ IsFiniteSet(Slots)
  /\ MaxPosts \in Nat /\ MaxPresses \in Nat /\ MaxChanges \in Nat

All == -1                \* the ALL CALL key, as in latch_edges
Nowhere == -2            \* no finger
Keys == Slots \cup {All}
Digits == 1 .. Cardinality(Slots)

VARIABLES
  people,     \* who is on each slot: none, here, or away in another room
  up,         \* a session runs
  talk,       \* ui_talk_mask, and All for ui_allcall
  edges,      \* latch_edges
  latched,    \* latch_mask
  keys,       \* the bank's key mask
  state,      \* state_json_
  S,          \* the page: the last state it was sent
  cells,      \* the page: the grid it drew last
  held,       \* the page: the keys whose press it has sent
  latchMode,  \* the page: the LATCH button
  pointer,    \* the finger on the screen: where it went down, on a live element or not
  digits,     \* the digit keys down
  space,      \* the space bar is down
  posts,      \* verbs in flight
  presses, changes,
  eaten       \* history: keys whose release got lost, or was overtaken

stationVars == <<people, up, talk, edges, latched, keys, state>>
pageVars == <<S, cells, held, latchMode>>
fingerVars == <<pointer, digits, space>>
panelVars == <<stationVars, pageVars, fingerVars, posts, presses, changes, eaten>>

----------------------------------------------------------------------------
(* The state the station publishes, and the grid the page makes of it.     *)

Snapshot == [up |-> up, people |-> people, keys |-> keys, latched |-> latched]

\* publish_phase: no channels outside a session.
NoChannels(s) ==
  [up |-> FALSE, people |-> [c \in Slots |-> "none"], keys |-> {}, latched |-> {}]

\* cellRows, and what of it is in the signature: a cell for every channel
\* with people, keyed or latched, and whether it has a name to show.
Shown(s, c) == s.people[c] # "none" \/ c \in s.keys \/ c \in s.latched
Nth(cs, i) == CHOOSE c \in cs : Cardinality({e \in cs : e <= c}) = i
CellRows(s) ==
  LET shown == {c \in Slots : Shown(s, c)}
  IN  [i \in 1 .. Cardinality(shown) |->
         <<Nth(shown, i), s.people[Nth(shown, i)] # "none">>]

SlotOf(d) == cells[d][1]
Unreachable(c) == S.people[c] = "away"

NoPointer == [on |-> Nowhere, live |-> FALSE]

PanelInit ==
  /\ people = [c \in Slots |-> "here"] /\ up = TRUE
  /\ talk = {} /\ edges = <<>> /\ latched = {} /\ keys = {}
  /\ state = Snapshot /\ S = Snapshot
  /\ cells = CellRows(Snapshot) /\ held = {} /\ latchMode = FALSE
  /\ pointer = NoPointer /\ digits = {} /\ space = FALSE
  /\ posts = <<>> /\ presses = 0 /\ changes = 0 /\ eaten = {}

----------------------------------------------------------------------------
(* The page sends. *)

Verb(v, k, on) == [verb |-> v, key |-> k, on |-> on]
Acts(ps) == Len(posts) + Len(ps) <= MaxPosts /\ posts' = posts \o ps

\* setHeld and allSet: a press or a release is sent once.
SetHeld(k, v) ==
  IF (k \in held) = v
  THEN UNCHANGED <<held, posts>>
  ELSE /\ held' = IF v THEN held \cup {k} ELSE held \ {k}
       /\ Acts(<<Verb("talk", k, v)>>)

Presses == presses < MaxPresses /\ presses' = presses + 1

\* What the cell under the finger does: refused when everybody on it is in
\* another room, a latch in latch mode, else a talk key.
CellPressed(c) ==
  IF Unreachable(c)
  THEN UNCHANGED <<held, posts>>
  ELSE IF latchMode
  THEN Acts(<<Verb("latch", c, c \notin S.latched)>>) /\ UNCHANGED held
  ELSE SetHeld(c, TRUE)

AllPressed ==
  IF latchMode
  THEN Acts(<<Verb("latch", All, S.latched # Slots)>>) /\ UNCHANGED held
  ELSE SetHeld(All, TRUE)

\* The finger goes down on a cell or on ALL CALL; the joined panel shows them.
PointerDown(k) ==
  /\ Presses /\ pointer = NoPointer /\ S.up
  /\ pointer' = [on |-> k, live |-> TRUE]
  /\ IF k = All THEN AllPressed
     ELSE (\E d \in DOMAIN cells : SlotOf(d) = k) /\ CellPressed(k)
  /\ UNCHANGED <<stationVars, S, cells, latchMode, digits, space, changes, eaten>>

\* pointerup and pointercancel reach the element the finger went down on,
\* while it is still in the page.
PointerUp ==
  /\ pointer # NoPointer
  /\ pointer' = NoPointer
  /\ IF pointer.live THEN SetHeld(pointer.on, FALSE) ELSE UNCHANGED <<held, posts>>
  /\ UNCHANGED <<stationVars, S, cells, latchMode, digits, space, presses, changes, eaten>>

\* A digit keys the cell at that place of the grid. No look at reach or mode.
DigitDown(d) ==
  /\ Presses /\ d \notin digits
  /\ digits' = digits \cup {d}
  /\ IF d \in DOMAIN cells THEN SetHeld(SlotOf(d), TRUE) ELSE UNCHANGED <<held, posts>>
  /\ UNCHANGED <<stationVars, S, cells, latchMode, pointer, space, changes, eaten>>

\* The release looks the cell up again.
DigitUp(d) ==
  /\ d \in digits
  /\ digits' = digits \ {d}
  /\ IF d \in DOMAIN cells THEN SetHeld(SlotOf(d), FALSE) ELSE UNCHANGED <<held, posts>>
  /\ UNCHANGED <<stationVars, S, cells, latchMode, pointer, space, presses, changes, eaten>>

SpaceDown ==
  /\ Presses /\ ~space
  /\ space' = TRUE
  /\ SetHeld(All, TRUE)
  /\ UNCHANGED <<stationVars, S, cells, latchMode, pointer, digits, changes, eaten>>

SpaceUp ==
  /\ space
  /\ space' = FALSE
  /\ SetHeld(All, FALSE)
  /\ UNCHANGED <<stationVars, S, cells, latchMode, pointer, digits, presses, changes, eaten>>

\* The window loses the focus: everything held is released. The fingers' own
\* releases go to another window.
Released == held

Blur ==
  /\ pointer # NoPointer \/ digits # {} \/ space
  /\ Acts(SetToSeq({Verb("talk", k, FALSE) : k \in Released}))
  /\ held' = held \ Released
  /\ pointer' = NoPointer /\ digits' = {} /\ space' = FALSE
  /\ UNCHANGED <<stationVars, S, cells, latchMode, presses, changes, eaten>>

LatchButton ==
  /\ Presses
  /\ latchMode' = ~latchMode
  /\ UNCHANGED <<stationVars, S, cells, held, fingerVars, posts, changes, eaten>>

\* A state frame: the grid is rebuilt when its signature changed, with new
\* elements that hold nothing. Outside a session the grid is not touched.
HeldAfterRebuild_Kept == held  \* mutant: the new cells take over the old ones' presses
HeldAfterRebuild == held \cap {All}

Receive ==
  /\ S # state
  /\ S' = state
  /\ IF state.up /\ CellRows(state) # cells
     THEN /\ cells' = CellRows(state)
          /\ held' = HeldAfterRebuild
          /\ eaten' = eaten \cup (held \cap Slots)
          /\ pointer' = IF pointer.on \in Slots THEN [pointer EXCEPT !.live = FALSE] ELSE pointer
     ELSE UNCHANGED <<cells, held, eaten, pointer>>
  /\ UNCHANGED <<stationVars, latchMode, digits, space, posts, presses, changes>>

----------------------------------------------------------------------------
(* The control server: each verb on a thread of its own. *)

SameKey(i) == {j \in DOMAIN posts : posts[j].verb = "talk" /\ posts[j].key = posts[i].key}

\* The talk verb sets or clears a bit with compare-and-swap; talkall stores.
Talks_CallClears(p) ==  \* mutant: the end of an ALL CALL clears the mask
  talk' = IF p.on THEN talk \cup {p.key} ELSE IF p.key = All THEN {} ELSE talk \ {p.key}
Talks(p) == talk' = IF p.on THEN talk \cup {p.key} ELSE talk \ {p.key}

Serve(i) ==
  /\ LET p == posts[i] IN
     IF p.verb = "talk"
     THEN /\ Talks(p)
          /\ eaten' = IF \E j \in SameKey(i) : j < i THEN eaten \cup {p.key}
                      ELSE IF SameKey(i) = {i} /\ p.on = (p.key \in held) THEN eaten \ {p.key}
                      ELSE eaten
          /\ UNCHANGED edges
     ELSE edges' = Append(edges, <<p.key, p.on>>) /\ UNCHANGED <<talk, eaten>>
  /\ posts' = RemoveAt(posts, i)
  /\ UNCHANGED <<people, up, latched, keys, state, pageVars, fingerVars, presses, changes>>

----------------------------------------------------------------------------
(* The main loop. *)

\* Edge after edge: the last one about a channel, or about all of them, holds.
EdgesAbout(c) == {i \in DOMAIN edges : edges[i][1] \in {c, All}}
AllLatched ==
  {c \in Slots :
     \/ \E i \in EdgesAbout(c) : edges[i][2] /\ \A j \in EdgesAbout(c) : j <= i
     \/ EdgesAbout(c) = {} /\ c \in latched}

\* The routing truth: what is latched, what is talked to, and ALL CALL.
KeysOf_Accumulates(l) ==  \* mutant: the mask is added to, not replaced
  keys \cup l \cup (talk \cap Slots) \cup (IF All \in talk THEN Slots ELSE {})
KeysOf(l) == l \cup (talk \cap Slots) \cup (IF All \in talk THEN Slots ELSE {})

Published_Forgets(s) == [s EXCEPT !.keys = state.keys]  \* mutant: the keys are stale
Published(s) == s

\* One pass: the latch edges, the state, published with the keys of the pass
\* before, and the new keys.
Pass ==
  /\ up
  /\ edges' = <<>> /\ latched' = AllLatched
  /\ state' = Published([Snapshot EXCEPT !.latched = latched'])
  /\ keys' = KeysOf(latched')
  /\ UNCHANGED <<people, up, talk, pageVars, fingerVars, posts, presses, changes, eaten>>

\* Outside a session the card publishes no channels. Requests wait.
CardPublishes ==
  /\ ~up
  /\ state' = NoChannels(state)
  /\ UNCHANGED <<people, up, talk, edges, latched, keys, pageVars, fingerVars, posts, presses,
                 changes, eaten>>

----------------------------------------------------------------------------
(* The meeting, and the page's own life. *)

Changes == changes < MaxChanges /\ changes' = changes + 1

\* People come, go, and move between rooms.
PeopleChange(c, p) ==
  /\ Changes /\ people[c] # p
  /\ people' = [people EXCEPT ![c] = p]
  /\ UNCHANGED <<up, talk, edges, latched, keys, state, pageVars, fingerVars, posts, presses,
                 eaten>>

\* A session ends and takes its keys and latches along; another begins. The
\* talk mask is the app's.
SessionToggles ==
  /\ Changes
  /\ up' = ~up /\ latched' = {} /\ keys' = {}
  /\ UNCHANGED <<people, talk, edges, state, pageVars, fingerVars, posts, presses, eaten>>

\* The page is reloaded or crashes: what it held is forgotten.
PageReloads ==
  /\ Changes
  /\ S' = NoChannels(S) /\ cells' = <<>> /\ held' = {} /\ latchMode' = FALSE
  /\ pointer' = NoPointer /\ digits' = {} /\ space' = FALSE
  /\ eaten' = eaten \cup held
  /\ UNCHANGED <<stationVars, posts, presses>>

----------------------------------------------------------------------------
Operator ==
  \/ \E k \in Keys : PointerDown(k)
  \/ PointerUp
  \/ \E d \in Digits : DigitDown(d) \/ DigitUp(d)
  \/ SpaceDown \/ SpaceUp \/ Blur \/ LatchButton

MainLoop == Pass \/ CardPublishes

PanelNext ==
  \/ Operator
  \/ Receive
  \/ \E i \in 1 .. MaxPosts : i \in DOMAIN posts /\ Serve(i)
  \/ MainLoop
  \/ \E c \in Slots, p \in {"none", "here", "away"} : PeopleChange(c, p)
  \/ SessionToggles \/ PageReloads

PanelSpec == PanelInit /\ [][PanelNext]_panelVars

\* Threads serve, the main loop passes, and state frames keep coming; a finger
\* that is down need not come up.
PanelFairSpec ==
  /\ PanelSpec
  /\ WF_panelVars(1 \in DOMAIN posts /\ Serve(1))
  /\ WF_panelVars(Receive) /\ WF_panelVars(MainLoop)

----------------------------------------------------------------------------
(* Properties. *)

SnapshotType ==
  [up : BOOLEAN, people : [Slots -> {"none", "here", "away"}],
   keys : SUBSET Slots, latched : SUBSET Slots]

PanelTypeOK ==
  /\ people \in [Slots -> {"none", "here", "away"}] /\ up \in BOOLEAN
  /\ talk \subseteq Keys /\ latched \subseteq Slots /\ keys \subseteq Slots
  /\ edges \in Seq(Keys \X BOOLEAN)
  /\ state \in SnapshotType /\ S \in SnapshotType
  /\ held \subseteq Keys /\ latchMode \in BOOLEAN /\ eaten \subseteq Keys
  /\ pointer \in [on : Keys \cup {Nowhere}, live : BOOLEAN]
  /\ digits \subseteq Digits /\ space \in BOOLEAN
  /\ posts \in Seq([verb : {"talk", "latch"}, key : Keys, on : BOOLEAN])
  /\ \A d \in DOMAIN cells : cells[d] \in Slots \X BOOLEAN

\* Nothing is held by nobody: a key the page has sent a press for and no
\* release is under a finger whose release will reach it. This is what
\* "rebuilding a grid under a press eats the release" endangers.
HeldIsPressed ==
  \A k \in held :
    \/ pointer = [on |-> k, live |-> TRUE]
    \/ k = All /\ space
    \/ \E d \in digits : d \in DOMAIN cells /\ SlotOf(d) = k

\* The station keys what the page holds, once nothing about that key is in
\* flight: through threads that overtake each other, latches, all-call, new
\* sessions and the loss of the focus. Not when the release was eaten by a
\* rebuilt grid or a dead page, or overtaken by its own press.
TalkIsHeld ==
  \A k \in Keys :
    k \notin eaten /\ (\A j \in DOMAIN posts : posts[j].verb = "talk" => posts[j].key # k)
      => (k \in talk <=> k \in held)

\* Talk is momentary: when the fingers stay up and no release was lost, the
\* bank is left with the latches alone.
TalkEnds ==
  <>[](held = {} /\ eaten = {}) => <>[](keys \subseteq latched)

\* The panel tells the truth in the end: while the keys stay as they are, it
\* comes to show them.
PanelCatchesUp ==
  \A c \in Slots :
    <>[](up /\ c \in keys) => <>[](c \in S.keys)

\* "Fail closed: talkback cannot cross rooms -- refuse a key whose whole
\* population is elsewhere." TLC refutes it: a digit key does not look.
FailClosed ==
  [][\A c \in Slots : c \in held' \ held => ~Unreachable(c)]_panelVars
=============================================================================
