---------------------------- MODULE ShellProofs ----------------------------
(***************************************************************************)
(* Theorems about the desktop shell: the watchdog of the main loop         *)
(* (Lifeline), for any thresholds and any number of client threads, and    *)
(* the page with its talk keys (Panel), for any channels and any number of *)
(* verbs in flight.                                                        *)
(*                                                                         *)
(* The watchdog: while nothing excuses the main thread its beat is no      *)
(* older than its loop is slow (BeatInv), so a loop that keeps up stays    *)
(* below the threshold; and the watch remembers a stall exactly while one  *)
(* was reported and not closed (WatchInv), because the round that crosses  *)
(* the threshold is always due.                                            *)
(*                                                                         *)
(* The page: what is held is under a finger, since a new grid drops the    *)
(* presses of the old one (HeldInv); and of the verbs in flight about a    *)
(* key the last one says what the page holds (VerbsInv), unless the key's  *)
(* release was eaten or one of its verbs was overtaken.                    *)
(***************************************************************************)
EXTENDS Lifeline, Panel, FiniteSetTheorems, SequenceTheorems, TLAPS

AgesOK == slow \in Nat /\ beat \in Nat /\ dog.next \in Nat /\ dog.worst \in Nat

BeatInv == ~excused => main \in Beating /\ ~stuck /\ beat <= slow

WatchInv ==
  /\ dog.stalled <=> open
  /\ dog.stalled <=> dog.worst > 0
  /\ ~dog.stalled => dog.next = 0

IInv == AgesOK /\ BeatInv /\ WatchInv

\* The thresholds are numbers, and the ages go beyond them.
LEMMA Limits == MainLimit \in Nat /\ MainLimit > 1 /\ MaxAge \in Nat /\ MaxAge > MainLimit
BY LifelineAssumption

\* At the launch nobody beats and nothing is watched.
LEMMA Initially == Init => IInv
BY DEF Init, IInv, AgesOK, BeatInv, WatchInv, Calm, Beating

----------------------------------------------------------------------------
(* The steps of the other threads leave the watch and the beat alone. *)

Untouched == UNCHANGED <<mainVars, dog, open>>

\* What is neither main's nor the watchdog's step leaves both alone.
LEMMA Elsewhere ==
  ASSUME Next, ~DogRound, ~MainStep, ~Sticks, ~Returns
  PROVE  Untouched
<1> USE DEF Untouched, mainVars, dogVars
<1>1. CASE ShellStarts \/ PumpDispatches \/ PumpReturns \/ ShellCloses \/ ShellDogRound
  BY <1>1 DEF ShellStarts, PumpDispatches, PumpReturns, ShellCloses, ShellDogRound
<1>2. CASE \E c \in Clients : ServerStep(c)
  BY <1>2 DEF ServerStep, Connects, Receives, AsksToQuit, Disconnects
<1> QED
  BY <1>1, <1>2 DEF Next

\* A round of any wait: the beat is fresh in a phase that beats, and a phase
\* that does not is excused.
LEMMA MainKeeps ==
  ASSUME IInv, MainStep
  PROVE  IInv'
<1>1. UNCHANGED <<dog, open>>
  BY DEF MainStep, MainMoves, dogVars, CardRound, JoinEnds, LoopRound, TeardownEnds,
         StopWatchdog, StopPanel, HardExit
<1>2. \/ UNCHANGED mainVars
      \/ ~stuck /\ ~stuck' /\ \E p \in Phases \cup Unwinding : Enters(p)
  BY DEF MainStep, MainMoves, mainVars, CardRound, JoinEnds, LoopRound, TeardownEnds,
         StopWatchdog, StopPanel, HardExit, Phases, Unwinding
<1>3. CASE UNCHANGED mainVars
  BY <1>1, <1>3 DEF IInv, AgesOK, BeatInv, WatchInv, mainVars
<1>4. ASSUME ~stuck, ~stuck', NEW p \in Phases \cup Unwinding, Enters(p)
      PROVE  IInv'
  <2>1. AgesOK' /\ WatchInv'
    BY <1>1, <1>4 DEF IInv, AgesOK, WatchInv, Enters
  <2>2. CASE p \in Beating
    BY <1>4, <2>1, <2>2 DEF IInv, BeatInv, Enters, Beats
  <2>3. CASE p \notin Beating
    BY <1>4, <2>1, <2>3 DEF IInv, BeatInv, Enters
  <2> QED
    BY <2>2, <2>3
<1> QED
  BY <1>2, <1>3, <1>4

\* StallWatch::Poll and ConsumeRecovery.
LEMMA RoundKeeps ==
  ASSUME IInv, DogRound
  PROVE  IInv'
<1> DEFINE age == Older(beat)
<1>1. age \in Nat /\ age <= beat + 1 /\ beat' = age /\ UNCHANGED <<main, stuck, excused>>
  BY Limits DEF IInv, AgesOK, Older, DogRound
<1>2. AgesOK'
  <2>1. slow' \in Nat /\ beat' \in Nat
    BY <1>1, Limits DEF IInv, AgesOK, DogRound
  <2>2. dog'.next \in Nat /\ dog'.worst \in Nat
    BY <1>1, Limits DEF IInv, AgesOK, DogRound, Round, Polled, Consumed, Sooner, Due
  <2> QED
    BY <2>1, <2>2 DEF AgesOK
<1>3. BeatInv'
  BY <1>1, Limits DEF IInv, AgesOK, BeatInv, DogRound, MainKeepsUp
<1>4. WatchInv'
  <2>1. CASE age < MainLimit
    BY <1>1, <2>1, Limits DEF IInv, AgesOK, WatchInv, DogRound, Round, Polled, Consumed
  <2>2. CASE ~(age < MainLimit)
    BY <1>1, <2>2, Limits DEF IInv, AgesOK, WatchInv, DogRound, Round, Polled, Due
  <2> QED
    BY <2>1, <2>2
<1> QED
  BY <1>2, <1>3, <1>4 DEF IInv

----------------------------------------------------------------------------
(* Theorems. *)

\* The beat, the slowness of the loop and the watch agree in every reachable
\* state.
THEOREM Invariance == Spec => []IInv
<1>1. ASSUME IInv, [Next]_vars
      PROVE  IInv'
  <2>1. CASE MainStep
    BY <1>1, <2>1, MainKeeps
  <2>2. CASE DogRound
    BY <1>1, <2>2, RoundKeeps
  <2>3. CASE Sticks
    BY <1>1, <2>3 DEF Sticks, IInv, AgesOK, BeatInv, WatchInv, dogVars
  <2>4. CASE Returns
    BY <1>1, <2>4 DEF Returns, IInv, AgesOK, BeatInv, WatchInv, dogVars
  <2>5. CASE Untouched
    BY <1>1, <2>5 DEF Untouched, IInv, AgesOK, BeatInv, WatchInv, mainVars
  <2>6. CASE UNCHANGED vars
    BY <2>5, <2>6 DEF vars, Untouched, dogVars
  <2> QED
    BY <1>1, <2>1, <2>2, <2>3, <2>4, <2>5, <2>6, Elsewhere
<1> QED
  BY <1>1, Initially, PTL DEF Spec

\* StallWatch in WatchdogThread: a main loop that comes round, at the card or
\* in the meeting, is never called stalled.
THEOREM AlarmsAreTrue == Spec => NoFalseAlarm
<1>1. ASSUME IInv, DogRound, said' = "stalled"
      PROVE  excused
  <2>1. SUFFICES ASSUME ~excused PROVE FALSE
    OBVIOUS
  <2>2. ~(Older(beat) < MainLimit)
    BY <1>1 DEF DogRound, Round, Polled, Consumed
  <2>3. beat <= slow /\ slow < MainLimit - 1
    BY <1>1, <2>1 DEF IInv, BeatInv, DogRound, MainKeepsUp
  <2> QED
    BY <1>1, <2>2, <2>3, Limits DEF IInv, AgesOK, Older
<1>2. IInv /\ [Next]_vars => [DogRound /\ said' = "stalled" => excused]_vars
  BY <1>1
<1> QED
  BY <1>2, Invariance, PTL DEF Spec, NoFalseAlarm

\* The recovery line comes in the round that finds the loop beating again
\* after a reported stall, and in no other.
THEOREM EveryStallIsClosed == Spec => StallsAreBracketed
<1>1. ASSUME IInv, DogRound
      PROVE  said' = "recovered" <=> open /\ beat' < MainLimit
  <2>1. beat' = Older(beat)
    BY <1>1 DEF DogRound
  <2>2. CASE Older(beat) < MainLimit
    BY <1>1, <2>1, <2>2 DEF IInv, WatchInv, DogRound, Round, Polled
  <2>3. CASE ~(Older(beat) < MainLimit)
    BY <1>1, <2>1, <2>3 DEF DogRound, Round, Polled
  <2> QED
    BY <2>2, <2>3
<1>2. IInv /\ [Next]_vars => [DogRound => (said' = "recovered" <=> open /\ beat' < MainLimit)]_vars
  BY <1>1
<1> QED
  BY <1>2, Invariance, PTL DEF Spec, StallsAreBracketed

\* A round of a watchdog leaves a watch that counts within the ages, whatever
\* it finds.
LEMMA RoundTyped ==
  ASSUME NEW w \in Watches, NEW age \in 0 .. MaxAge, NEW limit \in 1 .. MaxAge
  PROVE  /\ Round(w, age, limit).watch \in Watches
         /\ Round(w, age, limit).says \in {"nothing", "stalled", "recovered"}
<1>1. MaxAge \in Nat
  BY Limits
<1>2. Polled(w, age, limit) \in Watches
  <2>1. CASE age < limit
    <3>1. Polled(w, age, limit) = [stalled |-> FALSE, next |-> 0, worst |-> w.worst]
      BY <2>1 DEF Polled, Watches
    <3> QED
      BY <1>1, <3>1 DEF Watches
  <2>2. CASE ~(age < limit)
    BY <1>1, <2>2 DEF Polled, Watches, Sooner
  <2> QED
    BY <2>1, <2>2
<1> DEFINE p == Polled(w, age, limit)
<1>3. Consumed(p) \in Watches
  BY <1>1, <1>2 DEF Consumed, Watches
<1> HIDE DEF p
<1>4. /\ Round(w, age, limit).watch \in {p, Consumed(p)}
      /\ Round(w, age, limit).says \in {"nothing", "stalled", "recovered"}
  BY DEF Round, p
<1> QED
  BY <1>2, <1>3, <1>4 DEF p

\* An age stays within its bound.
LEMMA OlderTyped == ASSUME NEW a \in 0 .. MaxAge PROVE Older(a) \in 0 .. MaxAge
BY Limits DEF Older

\* The switches; and where each thread is, with its ages and watches. While the
\* process lives, its quit is within the limit.
Switches ==
  /\ stuck \in BOOLEAN /\ guarded \in BOOLEAN /\ quit \in BOOLEAN /\ running \in BOOLEAN
  /\ alive \in BOOLEAN /\ open \in BOOLEAN /\ excused \in BOOLEAN
Gauges ==
  /\ main \in Phases \cup Unwinding /\ slow \in 0 .. MainLimit /\ beat \in 0 .. MaxAge
  /\ dog \in Watches /\ pumpDog \in Watches
  /\ {said, pumpSaid} \subseteq {"nothing", "stalled", "recovered"}
  /\ quitAge \in 0 .. QuitLimit + 1
  /\ alive => quitAge <= QuitLimit
  /\ shell \in {"creating", "idle", "handling", "closing", "closed"} /\ pumpBeat \in 0 .. MaxAge
  /\ client \in [Clients -> {"none", "recv", "events"}]

\* Every step keeps the switches.
LEMMA SwitchesTyped == ASSUME Switches, [Next]_vars PROVE Switches'
<1> USE DEF Switches
<1>1. CASE MainStep
  <2>1. UNCHANGED <<stuck, quit, open>>
    BY <1>1, Zenon DEF MainStep, MainMoves, CardRound, JoinEnds, LoopRound, TeardownEnds,
                       StopWatchdog, StopPanel, HardExit, mainVars, dogVars
  <2>2. guarded' \in BOOLEAN /\ running' \in BOOLEAN /\ alive' \in BOOLEAN
    BY <1>1, Zenon DEF MainStep, MainMoves, CardRound, JoinEnds, LoopRound, TeardownEnds,
                       StopWatchdog, StopPanel, HardExit, serverVars
  <2>3. ASSUME NEW p, Enters(p) PROVE excused' \in BOOLEAN
    BY <2>3 DEF Enters
  <2>4. excused' \in BOOLEAN
    BY <1>1, <2>3, Zenon DEF MainStep, CardRound, JoinEnds, LoopRound, TeardownEnds,
                             StopWatchdog, StopPanel, HardExit, mainVars
  <2> QED
    BY <2>1, <2>2, <2>4, Zenon
<1>2. CASE Sticks \/ Returns
  BY <1>2, Zenon DEF Sticks, Returns, dogVars, serverVars
<1>3. CASE DogRound
  <2>1. alive' \in BOOLEAN
    BY <1>3 DEF DogRound
  <2>2. open' \in BOOLEAN
    BY <1>3 DEF DogRound
  <2> QED
    BY <1>3, <2>1, <2>2, Zenon DEF DogRound, serverVars
<1>4. CASE ShellStarts \/ PumpDispatches \/ PumpReturns \/ ShellCloses \/ ShellDogRound
  BY <1>4, ZenonT(60) DEF ShellStarts, PumpDispatches, PumpReturns, ShellCloses, ShellDogRound,
                     mainVars, dogVars, serverVars
<1>5. ASSUME NEW c \in Clients, ServerStep(c) PROVE Switches'
  BY <1>5, Zenon DEF ServerStep, Connects, Receives, AsksToQuit, Disconnects, mainVars, dogVars
<1>6. CASE UNCHANGED vars
  BY <1>6, Zenon DEF vars, mainVars, dogVars, serverVars
<1> QED
  BY <1>1, <1>2, <1>3, <1>4, <1>5, <1>6 DEF Next

\* Every step keeps the gauges within their bounds.
LEMMA GaugesTyped == ASSUME Gauges, [Next]_vars PROVE Gauges'
<1> USE DEF Gauges
<1>1. /\ MainLimit \in 1 .. MaxAge /\ PumpLimit \in 1 .. MaxAge /\ QuitLimit \in Nat
      /\ MainLimit \in Nat /\ MaxAge \in Nat
  BY LifelineAssumption
<1>2. CASE MainStep
  <2>1. UNCHANGED <<dog, said, quitAge, shell, pumpBeat, pumpDog, pumpSaid, client>>
    BY <1>2, Zenon DEF MainStep, MainMoves, CardRound, JoinEnds, LoopRound, TeardownEnds,
                       StopWatchdog, StopPanel, HardExit, dogVars, shellVars, serverVars
  <2>2. alive' => alive
    BY <1>2, Zenon DEF MainStep, MainMoves, CardRound, JoinEnds, LoopRound, TeardownEnds,
                       StopWatchdog, StopPanel, HardExit
  <2>3. ASSUME NEW p \in Phases \cup Unwinding, Enters(p)
        PROVE  /\ main' \in Phases \cup Unwinding
               /\ slow' \in 0 .. MainLimit /\ beat' \in 0 .. MaxAge
    BY <1>1, <2>3 DEF Enters
  <2>4. \/ UNCHANGED <<main, slow, beat>>
        \/ \E p \in Phases \cup Unwinding : Enters(p)
    BY <1>2 DEF MainStep, CardRound, JoinEnds, LoopRound, TeardownEnds, StopWatchdog,
                StopPanel, HardExit, mainVars, Phases, Unwinding
  <2>5. /\ main' \in Phases \cup Unwinding
        /\ slow' \in 0 .. MainLimit /\ beat' \in 0 .. MaxAge
    BY <2>3, <2>4, Zenon
  <2> QED
    BY <2>1, <2>2, <2>5, Zenon
<1>3. ASSUME UNCHANGED <<alive, quitAge>> PROVE alive' => quitAge' <= QuitLimit
  BY <1>3
<1>4. CASE Sticks \/ Returns
  <2>1. slow' \in 0 .. MainLimit
    BY <1>1, <1>4 DEF Sticks, Returns
  <2>2. alive' => quitAge' <= QuitLimit
    BY <1>4, <1>3, Zenon DEF Sticks, Returns, dogVars
  <2> QED
    BY <1>4, <2>1, <2>2, Zenon DEF Sticks, Returns, dogVars, shellVars, serverVars
<1>5. CASE alive /\ DogRound
  <2>1. beat' \in 0 .. MaxAge /\ beat' = Older(beat)
    BY <1>5, OlderTyped DEF DogRound
  <2>2. dog' \in Watches /\ said' \in {"nothing", "stalled", "recovered"}
    BY <1>1, <1>5, <2>1, RoundTyped DEF DogRound
  <2>3. slow' \in 0 .. MainLimit
    BY <1>1, <1>5 DEF DogRound
  <2>4. quitAge' \in 0 .. QuitLimit + 1 /\ (alive' => quitAge' <= QuitLimit)
    <3>1. quitAge <= QuitLimit
      BY <1>5
    <3>2. quitAge' \in {0, quitAge, quitAge + 1}
      BY <1>5 DEF DogRound, QuitAges, Older
    <3>3. alive' => quitAge' <= QuitLimit
      BY <1>5, Zenon DEF DogRound
    <3>4. quitAge \in Nat
      BY <1>1
    <3> QED
      BY <1>1, <3>1, <3>2, <3>3, <3>4
  <2> QED
    BY <1>5, <2>1, <2>2, <2>3, <2>4, Zenon DEF DogRound, shellVars, serverVars
<1>6. CASE ShellDogRound
  <2>1. pumpBeat' \in 0 .. MaxAge /\ pumpBeat' = Older(pumpBeat)
    BY <1>6, OlderTyped DEF ShellDogRound
  <2>2. pumpDog' \in Watches /\ pumpSaid' \in {"nothing", "stalled", "recovered"}
    BY <1>1, <1>6, <2>1, RoundTyped DEF ShellDogRound
  <2> QED
    BY <1>6, <1>3, <2>1, <2>2, Zenon DEF ShellDogRound, mainVars, dogVars, serverVars
<1>7. CASE ShellStarts \/ PumpDispatches \/ PumpReturns \/ ShellCloses
  <2>1. /\ pumpBeat' \in 0 .. MaxAge
        /\ shell' \in {"creating", "idle", "handling", "closing", "closed"}
    BY <1>1, <1>7 DEF ShellStarts, PumpDispatches, PumpReturns, ShellCloses
  <2> QED
    BY <1>7, <1>3, <2>1, Zenon DEF ShellStarts, PumpDispatches, PumpReturns, ShellCloses,
                             mainVars, dogVars, serverVars
<1>8. ASSUME NEW c \in Clients, ServerStep(c) PROVE Gauges'
  <2>1. client' \in [Clients -> {"none", "recv", "events"}]
    BY <1>8 DEF ServerStep, Connects, Receives, AsksToQuit, Disconnects
  <2> QED
    BY <1>8, <1>3, <2>1, Zenon DEF ServerStep, Connects, Receives, AsksToQuit, Disconnects,
                                   mainVars, dogVars, shellVars
<1>9. CASE UNCHANGED vars
  BY <1>9, Zenon DEF vars, mainVars, dogVars, shellVars, serverVars
<1> QED
  BY <1>2, <1>4, <1>5, <1>6, <1>7, <1>8, <1>9 DEF Next

\* Type correctness of the life line: the watches and the ages stay within
\* their bounds, and so does the wait for a quit.
THEOREM LifelineTypeCorrect == Spec => []TypeOK
<1>1. Init => Switches /\ Gauges
  <2> SUFFICES ASSUME Init PROVE Switches /\ Gauges
    OBVIOUS
  <2>1. Calm \in Watches
    BY Limits DEF Calm, Watches
  <2>2. Gauges
    BY <2>1, LifelineAssumption DEF Init, Gauges, Phases
  <2> QED
    BY <2>2, Zenon DEF Init, Switches
<1>2. Switches /\ Gauges /\ [Next]_vars => Switches' /\ Gauges'
  BY SwitchesTyped, GaugesTyped
<1>3. Switches /\ Gauges => TypeOK
  <2> SUFFICES ASSUME Switches, Gauges PROVE TypeOK
    OBVIOUS
  <2>1. {guarded, quit, running, alive, open, excused} \subseteq BOOLEAN
    BY Zenon DEF Switches
  <2> QED
    BY <2>1, Zenon DEF Switches, Gauges, TypeOK
<1> QED
  BY <1>1, <1>2, <1>3, PTL DEF Spec

----------------------------------------------------------------------------
(* The grid. *)

\* The i-th channel of a set by rank is one of the set's.
LEMMA NthOf ==
  ASSUME NEW cs \in SUBSET Slots, NEW i \in 1 .. Cardinality(cs)
  PROVE  Nth(cs, i) \in cs
<1> DEFINE n == Cardinality(cs)
           Upto(c) == {e \in cs : e <= c}
           rank == [c \in cs |-> Cardinality(Upto(c))]
<1>1. IsFiniteSet(cs) /\ cs \subseteq Nat /\ n \in Nat
  BY PanelAssumption, FS_Subset, FS_CardinalityType
<1>2. \A c \in cs : /\ IsFiniteSet(Upto(c)) /\ Upto(c) \subseteq cs
                    /\ Cardinality(Upto(c)) \in Nat /\ Cardinality(Upto(c)) <= n
  BY <1>1, FS_Subset, FS_CardinalityType
<1>3. \A c \in cs : Cardinality(Upto(c)) # 0
  <2> SUFFICES ASSUME NEW c \in cs PROVE Cardinality(Upto(c)) # 0
    OBVIOUS
  <2>1. c \in Upto(c)
    BY <1>1
  <2> QED
    BY <1>2, <2>1, FS_EmptySet
<1>4. rank \in [cs -> 1 .. n]
  BY <1>1, <1>2, <1>3
<1>5. ASSUME NEW c \in cs, NEW d \in cs, c < d
      PROVE  Cardinality(Upto(c)) # Cardinality(Upto(d))
  <2>1. Upto(c) \in SUBSET Upto(d) /\ d \in Upto(d) /\ d \notin Upto(c)
    <3>1. c \in Nat /\ d \in Nat /\ \A e \in cs : e \in Nat
      BY <1>1
    <3>2. \A e \in cs : e <= c => e <= d
      BY <1>5, <3>1
    <3>3. d <= d /\ ~(d <= c)
      BY <1>5, <3>1
    <3> QED
      BY <3>2, <3>3
  <2>2. Upto(c) # Upto(d)
    BY <2>1
  <2> HIDE DEF Upto
  <2> QED
    BY <1>2, <2>1, <2>2, FS_Subset
<1>6. rank \in Injection(cs, 1 .. n)
  <2>1. ASSUME NEW c \in cs, NEW d \in cs, rank[c] = rank[d] PROVE c = d
    <3>1. c \in Nat /\ d \in Nat
      BY <1>1
    <3>2. Cardinality(Upto(c)) = Cardinality(Upto(d))
      BY <2>1
    <3> HIDE DEF Upto
    <3> QED
      BY <1>5, <3>1, <3>2
  <2>2. IsInjective(rank)
    BY <2>1 DEF IsInjective
  <2> QED
    BY <1>4, <2>2 DEF Injection
<1>7. IsFiniteSet(1 .. n) /\ Cardinality(1 .. n) = n
  <2>1. 1 \in Int /\ n \in Int
    BY <1>1
  <2>2. IsFiniteSet(1 .. n) /\ Cardinality(1 .. n) = IF 1 > n THEN 0 ELSE n - 1 + 1
    BY <2>1, FS_Interval
  <2> HIDE DEF n
  <2> QED
    BY <1>1, <2>2
<1>8. rank \in Surjection(cs, 1 .. n)
  BY <1>6, <1>7, FS_Injection
<1>9. PICK c \in cs : rank[c] = i
  BY <1>8 DEF Surjection
<1>10. Cardinality({e \in cs : e <= c}) = i
  BY <1>9
<1> QED
  BY <1>10 DEF Nth

\* A cell of the grid is a channel's, never ALL CALL's.
CellsOK == \A d \in DOMAIN cells : SlotOf(d) \in Slots

\* Every row of the grid that renderTiles draws is a channel's.
LEMMA Rows == ASSUME NEW s PROVE \A d \in DOMAIN CellRows(s) : CellRows(s)[d][1] \in Slots
<1> DEFINE shown == {c \in Slots : Shown(s, c)}
<1>1. \A d \in 1 .. Cardinality(shown) : Nth(shown, d) \in Slots
  BY NthOf
<1>2. CellRows(s) = [i \in 1 .. Cardinality(shown) |->
                       <<Nth(shown, i), s.people[Nth(shown, i)] # "none">>]
  BY DEF CellRows
<1> HIDE DEF shown
<1> QED
  BY <1>1, <1>2

----------------------------------------------------------------------------
(* The fingers and what is held. *)

HeldInv == held \subseteq Keys /\ CellsOK /\ HeldIsPressed

\* ALL CALL is no channel, and no key is called Nowhere.
LEMMA OddKeys == All \notin Slots /\ Nowhere \notin Keys
BY PanelAssumption DEF All, Nowhere, Keys

\* setHeld leaves a key as it is asked to be.
LEMMA HeldAfter ==
  ASSUME NEW k, NEW v \in BOOLEAN, SetHeld(k, v)
  PROVE  held' = IF v THEN held \cup {k} ELSE held \ {k}
BY DEF SetHeld

\* Whatever the operator does in the page, what it holds is pressed.
LEMMA FingersKeep == ASSUME HeldInv, Operator PROVE HeldInv'
<1> USE DEF HeldInv, HeldIsPressed, SlotOf, CellsOK
<1>1. ASSUME NEW k \in Keys, PointerDown(k) PROVE HeldInv'
  <2>1. /\ pointer = NoPointer /\ pointer' = [on |-> k, live |-> TRUE]
        /\ UNCHANGED <<cells, digits, space>>
    BY <1>1 DEF PointerDown
  <2>2. held' = held \/ held' = held \cup {k}
    BY <1>1, HeldAfter DEF PointerDown, AllPressed, CellPressed
  <2>3. \A h \in Keys : pointer # [on |-> h, live |-> TRUE]
    BY <2>1, OddKeys DEF NoPointer
  <2> QED
    BY <2>1, <2>2, <2>3
<1>2. CASE PointerUp
  <2>1. /\ pointer' = NoPointer /\ UNCHANGED <<cells, digits, space>>
        /\ IF pointer.live THEN SetHeld(pointer.on, FALSE) ELSE UNCHANGED <<held, posts>>
    BY <1>2 DEF PointerUp
  <2>2. CASE pointer.live
    <3>1. held' = held \ {pointer.on}
      BY <2>1, <2>2, HeldAfter
    <3> QED
      BY <2>1, <3>1
  <2>3. CASE ~pointer.live
    BY <2>1, <2>3
  <2> QED
    BY <2>2, <2>3
<1>3. ASSUME NEW d \in Digits, DigitDown(d) PROVE HeldInv'
  <2>1. digits' = digits \cup {d} /\ UNCHANGED <<cells, pointer, space>>
    BY <1>3 DEF DigitDown
  <2>2. \/ held' = held
        \/ d \in DOMAIN cells /\ held' = held \cup {cells[d][1]}
    BY <1>3, HeldAfter DEF DigitDown
  <2>3. d \in DOMAIN cells => cells[d][1] \in Keys
    BY DEF Keys
  <2> QED
    BY <2>1, <2>2, <2>3
<1>4. ASSUME NEW d \in Digits, DigitUp(d) PROVE HeldInv'
  <2>1. digits' = digits \ {d} /\ UNCHANGED <<cells, pointer, space>>
    BY <1>4 DEF DigitUp
  <2>2. \/ d \notin DOMAIN cells /\ held' = held
        \/ d \in DOMAIN cells /\ held' = held \ {cells[d][1]}
    BY <1>4, HeldAfter DEF DigitUp
  <2> QED
    BY <2>1, <2>2
<1>5. CASE SpaceDown
  <2>1. space' = TRUE /\ UNCHANGED <<cells, pointer, digits>> /\ held' = held \cup {All}
    BY <1>5, HeldAfter DEF SpaceDown
  <2> QED
    BY <2>1 DEF Keys
<1>6. CASE SpaceUp
  <2>1. space' = FALSE /\ UNCHANGED <<cells, pointer, digits>> /\ held' = held \ {All}
    BY <1>6, HeldAfter DEF SpaceUp
  <2> QED
    BY <2>1
<1>7. CASE Blur
  BY <1>7 DEF Blur, Released
<1>8. CASE LatchButton
  BY <1>8 DEF LatchButton, fingerVars
<1> QED
  BY <1>1, <1>2, <1>3, <1>4, <1>5, <1>6, <1>7, <1>8 DEF Operator

\* A state frame that rebuilds the grid lets go of what hung on a cell.
LEMMA FramesKeep == ASSUME HeldInv, Receive PROVE HeldInv'
<1>1. UNCHANGED <<digits, space>>
  BY DEF Receive
<1>2. CASE state.up /\ CellRows(state) # cells
  <2>1. /\ cells' = CellRows(state) /\ held' = held \cap {All}
        /\ pointer' = IF pointer.on \in Slots THEN [pointer EXCEPT !.live = FALSE] ELSE pointer
    BY <1>2 DEF Receive, HeldAfterRebuild
  <2>2. CellsOK'
    BY <2>1, Rows DEF CellsOK, SlotOf
  <2>3. All \in held => pointer = [on |-> All, live |-> TRUE] \/ space
    BY OddKeys DEF HeldInv, HeldIsPressed, CellsOK
  <2>4. pointer = [on |-> All, live |-> TRUE] => pointer' = pointer
    BY <2>1, OddKeys
  <2> QED
    BY <1>1, <2>1, <2>2, <2>3, <2>4 DEF HeldInv, HeldIsPressed
<1>3. CASE ~(state.up /\ CellRows(state) # cells)
  BY <1>1, <1>3 DEF Receive, HeldInv, HeldIsPressed, CellsOK, SlotOf
<1> QED
  BY <1>2, <1>3

\* Every step keeps what is held under a finger.
LEMMA HeldKept == ASSUME HeldInv, [PanelNext]_panelVars PROVE HeldInv'
<1>1. CASE PageReloads
  BY <1>1 DEF PageReloads, HeldInv, HeldIsPressed, CellsOK
<1>2. ASSUME UNCHANGED <<pageVars, fingerVars>> PROVE HeldInv'
  BY <1>2 DEF pageVars, fingerVars, HeldInv, HeldIsPressed, CellsOK, SlotOf
<1>3. ASSUME NEW i, Serve(i) PROVE HeldInv'
  BY <1>2, <1>3 DEF Serve
<1>4. CASE MainLoop
  BY <1>2, <1>4 DEF MainLoop, Pass, CardPublishes
<1>5. ASSUME NEW c, NEW p, PeopleChange(c, p) PROVE HeldInv'
  BY <1>2, <1>5 DEF PeopleChange
<1>6. CASE SessionToggles
  BY <1>2, <1>6 DEF SessionToggles
<1>7. CASE UNCHANGED panelVars
  BY <1>2, <1>7 DEF panelVars
<1> QED
  BY <1>1, <1>3, <1>4, <1>5, <1>6, <1>7, FingersKeep, FramesKeep DEF PanelNext

\* Nothing is held by nobody: every key the page has pressed and not released
\* is under a finger whose release will reach it.
THEOREM NothingHangs == PanelSpec => []HeldIsPressed
<1>1. PanelInit => HeldInv
  <2> SUFFICES ASSUME PanelInit PROVE HeldInv
    OBVIOUS
  <2>1. held = {} /\ cells = CellRows(Snapshot)
    BY DEF PanelInit
  <2> QED
    BY <2>1, Rows DEF HeldInv, HeldIsPressed, CellsOK, SlotOf
<1>2. HeldInv => HeldIsPressed
  BY DEF HeldInv
<1> QED
  BY <1>1, <1>2, HeldKept, PTL DEF PanelSpec

----------------------------------------------------------------------------
(* The verbs in flight. *)

Post == [verb : {"talk", "latch"}, key : Keys, on : BOOLEAN]

\* The verb at place i of a queue is about talking to key k, and no later one is.
About(q, k, i) == q[i].verb = "talk" /\ q[i].key = k
LastOf(q, k, i) ==
  i \in 1 .. Len(q) /\ About(q, k, i) /\ \A j \in 1 .. Len(q) : j > i => ~About(q, k, j)

Settled(q, k, t, h) ==
  /\ \A i \in 1 .. Len(q) : LastOf(q, k, i) => (q[i].on <=> k \in h)
  /\ (\A i \in 1 .. Len(q) : ~About(q, k, i)) => (k \in t <=> k \in h)

\* The last verb in flight about a key says what the page holds.
VerbsInv ==
  /\ held \subseteq Keys /\ posts \in Seq(Post)
  /\ \A k \in Keys : k \notin eaten => Settled(posts, k, talk, held)

\* A finger's release is about a key, wherever it reaches.
PointerInv ==
  /\ pointer \in [on : Keys \cup {Nowhere}, live : BOOLEAN]
  /\ pointer.live => pointer.on \in Keys

\* Posting verbs keeps a key settled when the last of them about the key
\* says what the page now holds.
LEMMA SendsKeep ==
  ASSUME NEW q \in Seq(Post), NEW ps \in Seq(Post), NEW k \in Keys, NEW t, NEW h, NEW g,
         Settled(q, k, t, h),
         \A i \in 1 .. Len(ps) : About(ps, k, i) => (ps[i].on <=> k \in g),
         (\A i \in 1 .. Len(ps) : ~About(ps, k, i)) => (k \in g <=> k \in h)
  PROVE  Settled(q \o ps, k, t, g)
<1> DEFINE all == q \o ps
           n == Len(q)
           m == Len(ps)
<1>1. n \in Nat /\ m \in Nat
  OBVIOUS
<1>2. Len(all) = n + m
  BY ConcatProperties
<1>3. /\ \A i \in 1 .. n : i \in 1 .. n + m /\ all[i] = q[i]
      /\ \A i \in 1 .. m : n + i \in 1 .. n + m /\ all[n + i] = ps[i]
  <2>1. \A i \in 1 .. Len(q) + Len(ps) :
          all[i] = IF i <= Len(q) THEN q[i] ELSE ps[i - Len(q)]
    BY ConcatProperties
  <2>2. ASSUME NEW i \in 1 .. n PROVE i \in 1 .. n + m /\ all[i] = q[i]
    BY <1>1, <2>1
  <2>3. ASSUME NEW i \in 1 .. m PROVE n + i \in 1 .. n + m /\ all[n + i] = ps[i]
    <3>1. n + i \in 1 .. n + m /\ ~(n + i <= n) /\ (n + i) - n = i
      BY <1>1
    <3> QED
      BY <2>1, <3>1
  <2> QED
    BY <2>2, <2>3
<1> HIDE DEF all, n, m
<1>4. /\ \A i \in 1 .. n : About(all, k, i) <=> About(q, k, i)
      /\ \A i \in 1 .. m : About(all, k, n + i) <=> About(ps, k, i)
  BY <1>3 DEF About
<1>5. ASSUME NEW i \in 1 .. n + m, LastOf(all, k, i) PROVE all[i].on <=> k \in g
  <2>1. CASE i \in 1 .. n
    <3>1. \A j \in 1 .. m : ~About(ps, k, j)
      <4> SUFFICES ASSUME NEW j \in 1 .. m PROVE ~About(all, k, n + j)
        BY <1>4
      <4>1. n + j > i /\ n + j \in 1 .. n + m
        BY <1>1, <2>1
      <4> QED
        BY <1>2, <1>5, <4>1 DEF LastOf
    <3>2. \A j \in 1 .. n : j > i => ~About(q, k, j)
      BY <1>2, <1>3, <1>4, <1>5 DEF LastOf
    <3>3. LastOf(q, k, i)
      BY <1>4, <1>5, <2>1, <3>2 DEF LastOf, n
    <3>4. q[i].on <=> k \in h
      BY <2>1, <3>3 DEF Settled, n
    <3>5. k \in g <=> k \in h
      BY <3>1 DEF m
    <3>6. all[i] = q[i]
      BY <1>3, <2>1
    <3> QED
      BY <3>4, <3>5, <3>6, Zenon
  <2>2. CASE i \notin 1 .. n
    <3>1. i - n \in 1 .. m /\ n + (i - n) = i
      BY <1>1, <2>2
    <3>2. About(ps, k, i - n)
      BY <1>4, <1>5, <3>1 DEF LastOf
    <3>3. ps[i - n].on <=> k \in g
      BY <3>1, <3>2 DEF m
    <3>4. all[i] = ps[i - n]
      BY <1>3, <3>1
    <3> QED
      BY <3>3, <3>4, Zenon
  <2> QED
    BY <2>1, <2>2
<1>6. ASSUME \A i \in 1 .. n + m : ~About(all, k, i) PROVE k \in t <=> k \in g
  <2>1. \A i \in 1 .. n : ~About(q, k, i)
    BY <1>3, <1>4, <1>6
  <2>2. \A i \in 1 .. m : ~About(ps, k, i)
    BY <1>3, <1>4, <1>6
  <2>3. (k \in t <=> k \in h) /\ (k \in g <=> k \in h)
    BY <2>1, <2>2 DEF Settled, n, m
  <2> QED
    BY <2>3
<1>7. Settled(all, k, t, g)
  BY <1>2, <1>5, <1>6 DEF Settled
<1> QED
  BY <1>7 DEF all

\* A queue without the verb at place i, and the place a verb had before.
Before(i, j) == IF j < i THEN j ELSE j + 1

\* Taking one verb out of a queue shifts those behind it by one place.
LEMMA Removed ==
  ASSUME NEW q \in Seq(Post), NEW i \in 1 .. Len(q)
  PROVE  /\ RemoveAt(q, i) \in Seq(Post) /\ Len(RemoveAt(q, i)) = Len(q) - 1
         /\ \A j \in 1 .. Len(q) - 1 : RemoveAt(q, i)[j] = q[Before(i, j)]
<1> DEFINE n == Len(q)
           front == SubSeq(q, 1, i - 1)
           back == SubSeq(q, i + 1, n)
<1>1. n \in Nat /\ i \in 1 .. n
  OBVIOUS
<1>2. /\ front \in Seq(Post) /\ Len(front) = i - 1
      /\ \A j \in 1 .. i - 1 : front[j] = q[j]
  <2>1. front = [j \in 1 .. i - 1 |-> q[j]]
    BY <1>1
  <2>2. \A j \in 1 .. i - 1 : j \in 1 .. n
    BY <1>1
  <2>3. \A j \in 1 .. i - 1 : q[j] \in Post
    BY <2>2, ElementOfSeq
  <2>4. i - 1 \in Nat
    BY <1>1
  <2> HIDE DEF front
  <2> QED
    BY <2>1, <2>3, <2>4
<1>3. /\ back \in Seq(Post) /\ Len(back) = n - i
      /\ \A j \in 1 .. n - i : back[j] = q[i + j]
  <2>1. back = [j \in 1 .. n - i |-> q[i + j]]
    BY <1>1
  <2>2. \A j \in 1 .. n - i : i + j \in 1 .. n
    BY <1>1
  <2>3. \A j \in 1 .. n - i : q[i + j] \in Post
    BY <2>2, ElementOfSeq
  <2>4. n - i \in Nat
    BY <1>1
  <2> HIDE DEF back
  <2> QED
    BY <2>1, <2>3, <2>4
<1>4. RemoveAt(q, i) = front \o back
  BY DEF RemoveAt
<1> HIDE DEF front, back, n
<1>5. /\ front \o back \in Seq(Post) /\ Len(front \o back) = Len(front) + Len(back)
      /\ \A j \in 1 .. Len(front) + Len(back) :
           (front \o back)[j] = IF j <= Len(front) THEN front[j] ELSE back[j - Len(front)]
  BY <1>2, <1>3, ConcatProperties, ZenonT(60)
<1>6. Len(front) + Len(back) = n - 1
  BY <1>1, <1>2, <1>3
<1>7. ASSUME NEW j \in 1 .. n - 1 PROVE (front \o back)[j] = q[Before(i, j)]
  <2>1. CASE j < i
    <3>1. j \in 1 .. i - 1 /\ j <= Len(front) /\ Before(i, j) = j
      BY <1>1, <1>2, <2>1 DEF Before
    <3> QED
      BY <1>2, <1>5, <1>6, <3>1
  <2>2. CASE ~(j < i)
    <3>1. /\ j - (i - 1) \in 1 .. n - i /\ i + (j - (i - 1)) = j + 1
          /\ ~(j <= i - 1) /\ Before(i, j) = j + 1
      BY <1>1, <2>2 DEF Before
    <3>2. (front \o back)[j] = back[j - (i - 1)]
      BY <1>2, <1>5, <1>6, <3>1
    <3> QED
      BY <1>3, <3>1, <3>2
  <2> QED
    BY <2>1, <2>2
<1> QED
  BY <1>4, <1>5, <1>6, <1>7 DEF n

\* The last verb about a key stays the last, unless it is the one that goes.
LEMMA StillLast ==
  ASSUME NEW q \in Seq(Post), NEW i \in 1 .. Len(q), NEW k \in Keys, NEW j,
         LastOf(RemoveAt(q, i), k, j), ~About(q, k, i) \/ i <= j
  PROVE  /\ LastOf(q, k, Before(i, j))
         /\ RemoveAt(q, i)[j] = q[Before(i, j)]
<1> DEFINE n == Len(q)
           r == RemoveAt(q, i)
<1>1. n \in Nat /\ i \in 1 .. n
  OBVIOUS
<1>2. Len(r) = n - 1 /\ \A l \in 1 .. n - 1 : r[l] = q[Before(i, l)]
  BY Removed
<1> HIDE DEF n, r
<1>3. j \in 1 .. n - 1 /\ About(r, k, j) /\ \A l \in 1 .. n - 1 : l > j => ~About(r, k, l)
  BY <1>2 DEF LastOf, r
<1>4. Before(i, j) \in 1 .. n
  BY <1>1, <1>3 DEF Before
<1>5. About(q, k, Before(i, j))
  BY <1>2, <1>3 DEF About
<1>6. ASSUME NEW l \in 1 .. n, l > Before(i, j) PROVE ~About(q, k, l)
  <2>1. CASE l = i
    <3>1. ~(i <= j)
      BY <1>1, <1>3, <1>6, <2>1 DEF Before
    <3> QED
      BY <2>1, <3>1
  <2>2. CASE l < i
    <3>1. l \in 1 .. n - 1 /\ l > j /\ Before(i, l) = l
      BY <1>1, <1>3, <1>6, <2>2 DEF Before
    <3> QED
      BY <1>2, <1>3, <3>1 DEF About
  <2>3. CASE l > i
    <3>1. l - 1 \in 1 .. n - 1 /\ l - 1 > j /\ Before(i, l - 1) = l
      BY <1>1, <1>3, <1>6, <2>3 DEF Before
    <3> QED
      BY <1>2, <1>3, <3>1 DEF About
  <2> QED
    BY <1>1, <2>1, <2>2, <2>3
<1> QED
  BY <1>2, <1>3, <1>4, <1>5, <1>6 DEF LastOf, n, r

\* When no verb about a key is left, the one taken out was the only one.
LEMMA NoneLeft ==
  ASSUME NEW q \in Seq(Post), NEW i \in 1 .. Len(q), NEW k \in Keys,
         \A j \in 1 .. Len(RemoveAt(q, i)) : ~About(RemoveAt(q, i), k, j)
  PROVE  \A j \in 1 .. Len(q) : j # i => ~About(q, k, j)
<1> DEFINE n == Len(q)
           r == RemoveAt(q, i)
<1>1. n \in Nat /\ i \in 1 .. n
  OBVIOUS
<1>2. Len(r) = n - 1 /\ \A l \in 1 .. n - 1 : r[l] = q[Before(i, l)]
  BY Removed
<1>3. \A l \in 1 .. n - 1 : ~About(r, k, l)
  BY <1>2
<1> HIDE DEF n, r
<1>4. ASSUME NEW j \in 1 .. n, j # i PROVE ~About(q, k, j)
  <2>1. PICK l \in 1 .. n - 1 : Before(i, l) = j
    <3>1. CASE j < i
      <4>1. j \in 1 .. n - 1 /\ Before(i, j) = j
        BY <1>1, <3>1 DEF Before
      <4> QED
        BY <4>1
    <3>2. CASE j > i
      <4>1. j - 1 \in 1 .. n - 1 /\ Before(i, j - 1) = j
        BY <1>1, <3>2 DEF Before
      <4> QED
        BY <4>1
    <3> QED
      BY <1>1, <1>4, <3>1, <3>2
  <2> QED
    BY <1>2, <1>3, <2>1 DEF About
<1> QED
  BY <1>4 DEF n

\* A thread that serves a verb leaves the others settled.
LEMMA OthersSettled ==
  ASSUME NEW q \in Seq(Post), NEW i \in 1 .. Len(q), NEW k \in Keys, NEW t, NEW u, NEW h,
         Settled(q, k, t, h), ~About(q, k, i), k \in u <=> k \in t
  PROVE  Settled(RemoveAt(q, i), k, u, h)
<1>1. ASSUME NEW j \in 1 .. Len(RemoveAt(q, i)), LastOf(RemoveAt(q, i), k, j)
      PROVE  RemoveAt(q, i)[j].on <=> k \in h
  <2>1. LastOf(q, k, Before(i, j)) /\ RemoveAt(q, i)[j] = q[Before(i, j)]
    BY <1>1, StillLast
  <2>2. q[Before(i, j)].on <=> k \in h
    BY <2>1 DEF Settled, LastOf
  <2> QED
    BY <2>1, <2>2, Zenon
<1>2. ASSUME \A j \in 1 .. Len(RemoveAt(q, i)) : ~About(RemoveAt(q, i), k, j)
      PROVE  k \in u <=> k \in h
  <2>1. \A j \in 1 .. Len(q) : ~About(q, k, j)
    BY <1>2, NoneLeft
  <2> QED
    BY <2>1 DEF Settled
<1> QED
  BY <1>1, <1>2 DEF Settled

\* The key of the verb itself is settled if no verb about it went before:
\* either another one follows, or this one is the last.
LEMMA OwnSettled ==
  ASSUME NEW q \in Seq(Post), NEW i \in 1 .. Len(q), NEW k \in Keys, NEW u, NEW h,
         About(q, k, i), \A j \in 1 .. Len(q) : j < i => ~About(q, k, j),
         \A j \in 1 .. Len(q) : LastOf(q, k, j) => (q[j].on <=> k \in h),
         k \in u <=> q[i].on
  PROVE  Settled(RemoveAt(q, i), k, u, h)
<1>1. ASSUME NEW j \in 1 .. Len(RemoveAt(q, i)), LastOf(RemoveAt(q, i), k, j)
      PROVE  RemoveAt(q, i)[j].on <=> k \in h
  <2>1. i <= j
    <3>1. Len(RemoveAt(q, i)) = Len(q) - 1 /\ RemoveAt(q, i)[j] = q[Before(i, j)] /\ Len(q) \in Nat
      BY Removed, SMTT(60)
    <3>2. About(q, k, Before(i, j))
      BY <1>1, <3>1 DEF LastOf, About
    <3>3. CASE j < i
      <4>1. j \in 1 .. Len(q) /\ Before(i, j) = j
        BY <3>1, <3>3 DEF Before
      <4> QED
        BY <3>2, <3>3, <4>1
    <3> QED
      BY <3>1, <3>3
  <2>2. LastOf(q, k, Before(i, j)) /\ RemoveAt(q, i)[j] = q[Before(i, j)]
    BY <1>1, <2>1, StillLast
  <2>3. q[Before(i, j)].on <=> k \in h
    BY <2>2 DEF LastOf
  <2> QED
    BY <2>2, <2>3, Zenon
<1>2. ASSUME \A j \in 1 .. Len(RemoveAt(q, i)) : ~About(RemoveAt(q, i), k, j)
      PROVE  k \in u <=> k \in h
  <2>1. \A j \in 1 .. Len(q) : j # i => ~About(q, k, j)
    BY <1>2, NoneLeft
  <2>2. LastOf(q, k, i)
    <3>1. \A j \in 1 .. Len(q) : j > i => j # i
      OBVIOUS
    <3> QED
      BY <2>1, <3>1 DEF LastOf
  <2>3. q[i].on <=> k \in h
    BY <2>2
  <2> QED
    BY <2>3
<1> QED
  BY <1>1, <1>2 DEF Settled

\* Serving a verb, in turn or out of it, keeps the keys settled: a release
\* that overtook its press is eaten.
LEMMA ServeKeeps ==
  ASSUME VerbsInv, NEW i \in DOMAIN posts, Serve(i)
  PROVE  VerbsInv'
<1> DEFINE p == posts[i]
<1>1. /\ posts \in Seq(Post) /\ held \subseteq Keys
      /\ \A k \in Keys : k \notin eaten => Settled(posts, k, talk, held)
  BY DEF VerbsInv
<1>2. i \in 1 .. Len(posts) /\ p \in Post /\ DOMAIN posts = 1 .. Len(posts)
  BY <1>1, ElementOfSeq
<1>3. posts' = RemoveAt(posts, i) /\ UNCHANGED <<held, cells, pointer>>
  BY DEF Serve, pageVars, fingerVars
<1>4. posts' \in Seq(Post)
  BY <1>1, <1>2, <1>3, Removed
<1>5. ASSUME NEW k \in Keys, k \notin eaten'
      PROVE  Settled(posts', k, talk', held')
  <2>1. CASE p.verb # "talk"
    <3>1. UNCHANGED <<talk, eaten>>
      BY <2>1 DEF Serve
    <3>2. ~About(posts, k, i)
      BY <2>1 DEF About
    <3>3. Settled(RemoveAt(posts, i), k, talk, held)
      BY <1>1, <1>2, <1>5, <3>1, <3>2, OthersSettled
    <3> QED
      BY <1>3, <3>1, <3>3
  <2>2. CASE p.verb = "talk" /\ p.key # k
    <3>1. /\ talk' = IF p.on THEN talk \cup {p.key} ELSE talk \ {p.key}
          /\ \/ eaten' = eaten \cup {p.key} \/ eaten' = eaten \ {p.key} \/ eaten' = eaten
      BY <2>2 DEF Serve, Talks
    <3>2. (k \in talk' <=> k \in talk) /\ (k \in eaten' <=> k \in eaten)
      BY <2>2, <3>1
    <3>3. ~About(posts, k, i)
      BY <2>2 DEF About
    <3>4. Settled(RemoveAt(posts, i), k, talk', held)
      BY <1>1, <1>2, <1>5, <3>2, <3>3, OthersSettled
    <3> QED
      BY <1>3, <3>4
  <2>3. CASE p.verb = "talk" /\ p.key = k
    <3>1. /\ talk' = IF p.on THEN talk \cup {k} ELSE talk \ {k}
          /\ eaten' = IF \E j \in SameKey(i) : j < i THEN eaten \cup {k}
                      ELSE IF SameKey(i) = {i} /\ p.on = (k \in held) THEN eaten \ {k}
                      ELSE eaten
      BY <2>3 DEF Serve, Talks
    <3>2. ~\E j \in SameKey(i) : j < i
      BY <1>5, <3>1
    <3>3. \A j \in 1 .. Len(posts) : About(posts, k, j) <=> j \in SameKey(i)
      BY <1>2, <2>3 DEF About, SameKey
    <3>4. \A j \in 1 .. Len(posts) : j < i => ~About(posts, k, j)
      BY <3>2, <3>3
    <3>5. About(posts, k, i)
      BY <2>3 DEF About
    <3>6. k \in talk' <=> p.on
      BY <3>1
    <3>7. \A j \in 1 .. Len(posts) : LastOf(posts, k, j) => (posts[j].on <=> k \in held)
      <4>1. CASE k \notin eaten
        BY <1>1, <4>1 DEF Settled
      <4>2. CASE k \in eaten
        <5>1. SameKey(i) = {i} /\ p.on = (k \in held)
          BY <1>5, <3>1, <3>2, <4>2
        <5>2. p.on <=> k \in held
          BY <5>1
        <5>3. \A j \in 1 .. Len(posts) : LastOf(posts, k, j) => j = i
          BY <3>3, <5>1 DEF LastOf
        <5> QED
          BY <5>2, <5>3
      <4> QED
        BY <4>1, <4>2
    <3>8. Settled(RemoveAt(posts, i), k, talk', held)
      BY <1>1, <1>2, <3>4, <3>5, <3>6, <3>7, OwnSettled
    <3> QED
      BY <1>3, <3>8
  <2> QED
    BY <2>1, <2>2, <2>3
<1> QED
  BY <1>1, <1>3, <1>4, <1>5 DEF VerbsInv

\* What the page sends at once says what it then holds.
LEMMA ActsKeep ==
  ASSUME VerbsInv, NEW ps \in Seq(Post), Acts(ps), UNCHANGED <<talk, eaten>>, held' \subseteq Keys,
         \A i \in 1 .. Len(ps) : ps[i].verb = "talk" => (ps[i].on <=> ps[i].key \in held'),
         \A k \in Keys : (\A i \in 1 .. Len(ps) : ~About(ps, k, i)) => (k \in held' <=> k \in held)
  PROVE  VerbsInv'
<1>1. posts' = posts \o ps /\ posts \in Seq(Post)
  BY DEF Acts, VerbsInv
<1>2. posts' \in Seq(Post)
  BY <1>1, ConcatProperties
<1>3. ASSUME NEW k \in Keys, k \notin eaten' PROVE Settled(posts', k, talk', held')
  <2>1. Settled(posts, k, talk, held)
    BY <1>3 DEF VerbsInv
  <2>2. \A i \in 1 .. Len(ps) : About(ps, k, i) => (ps[i].on <=> k \in held')
    BY DEF About
  <2>3. PICK g : g = held'
    OBVIOUS
  <2>4. Settled(posts \o ps, k, talk, g)
    BY <1>1, <2>1, <2>2, <2>3, SendsKeep
  <2> QED
    BY <1>1, <2>3, <2>4
<1> QED
  BY <1>2, <1>3 DEF VerbsInv

\* A step that neither posts, serves nor holds keeps the keys settled.
LEMMA NothingSent ==
  ASSUME VerbsInv, UNCHANGED <<held, posts, talk, eaten>>
  PROVE  VerbsInv'
BY DEF VerbsInv

\* A post of one verb, read back.
LEMMA OneVerb ==
  ASSUME NEW v \in {"talk", "latch"}, NEW k \in Keys, NEW on \in BOOLEAN
  PROVE  /\ <<Verb(v, k, on)>> \in Seq(Post)
         /\ Len(<<Verb(v, k, on)>>) = 1 /\ <<Verb(v, k, on)>>[1] = Verb(v, k, on)
         /\ Verb(v, k, on).verb = v /\ Verb(v, k, on).key = k /\ (Verb(v, k, on).on <=> on)
<1>1. Verb(v, k, on) \in Post
  BY DEF Verb, Post
<1>2. Verb(v, k, on).verb = v /\ Verb(v, k, on).key = k /\ (Verb(v, k, on).on <=> on)
  BY DEF Verb
<1> QED
  BY <1>1, <1>2

\* setHeld posts the talk verb that says what it holds.
LEMMA SetHeldKeeps ==
  ASSUME VerbsInv, NEW k \in Keys, NEW v \in BOOLEAN, SetHeld(k, v), UNCHANGED <<talk, eaten>>
  PROVE  VerbsInv'
<1>1. CASE (k \in held) = v
  BY <1>1, NothingSent DEF SetHeld
<1>2. CASE (k \in held) # v
  <2> DEFINE ps == <<Verb("talk", k, v)>>
  <2>1. /\ ps \in Seq(Post) /\ Len(ps) = 1 /\ ps[1] = Verb("talk", k, v)
        /\ ps[1].verb = "talk" /\ ps[1].key = k /\ (ps[1].on <=> v)
    BY OneVerb
  <2>2. Acts(ps) /\ held' = IF v THEN held \cup {k} ELSE held \ {k}
    BY <1>2 DEF SetHeld
  <2>3. held' \subseteq Keys
    BY <2>2 DEF VerbsInv
  <2> HIDE DEF ps
  <2>4. \A i \in 1 .. Len(ps) : i = 1
    BY <2>1
  <2>5. v <=> k \in held'
    BY <2>2
  <2>6. \A i \in 1 .. Len(ps) : ps[i].verb = "talk" => (ps[i].on <=> ps[i].key \in held')
    BY <2>1, <2>4, <2>5
  <2>7. About(ps, k, 1) /\ 1 \in 1 .. Len(ps)
    BY <2>1 DEF About
  <2>8. \A h \in Keys :
          (\A i \in 1 .. Len(ps) : ~About(ps, h, i)) => (h \in held' <=> h \in held)
    BY <2>2, <2>7
  <2> QED
    BY <2>1, <2>2, <2>3, <2>6, <2>8, ActsKeep
<1> QED
  BY <1>1, <1>2

\* A latch verb is not about what is held.
LEMMA LatchVerbKeeps ==
  ASSUME VerbsInv, NEW k \in Keys, NEW v \in BOOLEAN, Acts(<<Verb("latch", k, v)>>),
         UNCHANGED <<held, talk, eaten>>
  PROVE  VerbsInv'
<1> DEFINE ps == <<Verb("latch", k, v)>>
<1>1. ps \in Seq(Post) /\ Len(ps) = 1 /\ ps[1].verb = "latch"
  BY OneVerb
<1>2. Acts(ps) /\ held' \subseteq Keys
  BY DEF VerbsInv
<1> HIDE DEF ps
<1>3. \A i \in 1 .. Len(ps) : ps[i].verb # "talk"
  BY <1>1
<1> QED
  BY <1>1, <1>2, <1>3, ActsKeep

\* Losing the focus releases every key, one verb each.
LEMMA BlurKeeps == ASSUME VerbsInv, Blur PROVE VerbsInv'
<1> DEFINE vs == {Verb("talk", k, FALSE) : k \in held}
           ps == SetToSeq(vs)
           n == Cardinality(vs)
<1>1. held \subseteq Keys /\ IsFiniteSet(held)
  <2>1. IsFiniteSet(Keys)
    BY PanelAssumption, FS_AddElement DEF Keys
  <2> QED
    BY <2>1, FS_Subset DEF VerbsInv
<1>2. IsFiniteSet(vs)
  <2> DEFINE f == [k \in held |-> Verb("talk", k, FALSE)]
  <2>1. f \in Surjection(held, vs)
    BY DEF Surjection
  <2> QED
    BY <1>1, <2>1, FS_Surjection
<1>3. /\ \A v \in vs : v \in Post /\ v.verb = "talk" /\ v.on = FALSE /\ v.key \in held
      /\ \A k \in held : Verb("talk", k, FALSE) \in vs /\ Verb("talk", k, FALSE).key = k
  <2>1. ASSUME NEW k \in held
        PROVE  LET v == Verb("talk", k, FALSE)
               IN  v \in Post /\ v.verb = "talk" /\ v.on = FALSE /\ v.key = k
    BY <1>1 DEF Verb, Post
  <2> QED
    BY <2>1, ZenonT(60)
<1> HIDE DEF vs
<1>4. n \in Nat /\ ExistsBijection(1 .. n, vs)
  BY ONLY <1>2, FS_CardinalityType
<1>5. \E f \in [1 .. n -> vs] : IsInjective(f)
  BY <1>4 DEF ExistsBijection, Bijection, Injection
<1>6. ps \in [1 .. n -> vs] /\ IsInjective(ps)
  BY <1>5 DEF SetToSeq
<1>7. ps \in Injection(1 .. n, vs)
  BY <1>6 DEF Injection
<1>8. IsFiniteSet(1 .. n) /\ Cardinality(1 .. n) = n
  <2>1. 1 \in Int /\ n \in Int
    BY <1>4
  <2>2. IsFiniteSet(1 .. n) /\ Cardinality(1 .. n) = IF 1 > n THEN 0 ELSE n - 1 + 1
    BY <2>1, FS_Interval
  <2> HIDE DEF n
  <2> QED
    BY <1>4, <2>2
<1>9. \A v \in vs : \E i \in 1 .. n : ps[i] = v
  <2> HIDE DEF n, ps
  <2>1. ps \in Surjection(1 .. n, vs)
    <3>1. n = Cardinality(vs)
      BY DEF n
    <3> QED
      BY <1>2, <1>7, <1>8, <3>1, FS_Injection
  <2> QED
    BY <2>1 DEF Surjection
<1>10. Acts(ps) /\ held' = {} /\ UNCHANGED <<talk, eaten>>
  BY DEF Blur, Released, stationVars, vs
<1> HIDE DEF n, ps
<1>11. ps \in Seq(Post) /\ Len(ps) = n
  BY <1>3, <1>4, <1>6
<1>12. \A i \in 1 .. n : ps[i] \in vs
  BY <1>6
<1>13. \A i \in 1 .. Len(ps) : ps[i].verb = "talk" => (ps[i].on <=> ps[i].key \in held')
  BY <1>3, <1>10, <1>11, <1>12
<1>14. ASSUME NEW k \in held PROVE \E i \in 1 .. Len(ps) : About(ps, k, i)
  <2>1. PICK i \in 1 .. n : ps[i] = Verb("talk", k, FALSE)
    BY <1>3, <1>9
  <2>2. ps[i].verb = "talk" /\ ps[i].key = k
    BY <1>3, <2>1
  <2> QED
    BY <1>11, <2>2 DEF About
<1>15. \A k \in Keys :
         (\A i \in 1 .. Len(ps) : ~About(ps, k, i)) => (k \in held' <=> k \in held)
  BY <1>10, <1>14
<1>16. held' \subseteq Keys
  BY <1>10
<1> QED
  BY <1>10, <1>11, <1>13, <1>15, <1>16, ActsKeep

TalkInv == VerbsInv /\ PointerInv /\ CellsOK

\* Whatever the operator does in the page, the verbs say it.
LEMMA FingersSend == ASSUME TalkInv, Operator PROVE VerbsInv'
<1>1. VerbsInv /\ PointerInv /\ CellsOK
  BY DEF TalkInv
<1>2. All \in Keys
  BY DEF Keys
<1>3. ASSUME NEW k \in Keys, PointerDown(k) PROVE VerbsInv'
  <2>1. UNCHANGED <<talk, eaten>>
    BY <1>3 DEF PointerDown, stationVars
  <2>2. \/ UNCHANGED <<held, posts>>
        \/ SetHeld(k, TRUE)
        \/ \E v \in BOOLEAN : Acts(<<Verb("latch", k, v)>>) /\ UNCHANGED held
    BY <1>3 DEF PointerDown, AllPressed, CellPressed
  <2> QED
    BY <1>1, <2>1, <2>2, NothingSent, SetHeldKeeps, LatchVerbKeeps
<1>4. CASE PointerUp
  <2>1. UNCHANGED <<talk, eaten>>
    BY <1>4 DEF PointerUp, stationVars
  <2>2. \/ UNCHANGED <<held, posts>>
        \/ pointer.on \in Keys /\ SetHeld(pointer.on, FALSE)
    BY <1>1, <1>4 DEF PointerUp, PointerInv
  <2> QED
    BY <1>1, <2>1, <2>2, NothingSent, SetHeldKeeps
<1>5. ASSUME NEW d \in Digits, DigitDown(d) \/ DigitUp(d) PROVE VerbsInv'
  <2>1. UNCHANGED <<talk, eaten>>
    BY <1>5 DEF DigitDown, DigitUp, stationVars
  <2>2. \/ UNCHANGED <<held, posts>>
        \/ SlotOf(d) \in Keys /\ \E v \in BOOLEAN : SetHeld(SlotOf(d), v)
    BY <1>1, <1>5 DEF DigitDown, DigitUp, CellsOK, Keys
  <2> QED
    BY <1>1, <2>1, <2>2, NothingSent, SetHeldKeeps
<1>6. CASE SpaceDown \/ SpaceUp
  <2>1. UNCHANGED <<talk, eaten>> /\ \E v \in BOOLEAN : SetHeld(All, v)
    BY <1>6 DEF SpaceDown, SpaceUp, stationVars
  <2> QED
    BY <1>1, <1>2, <2>1, SetHeldKeeps
<1>7. CASE Blur
  BY <1>1, <1>7, BlurKeeps
<1>8. CASE LatchButton
  BY <1>1, <1>8, NothingSent DEF LatchButton, stationVars
<1> QED
  BY <1>3, <1>4, <1>5, <1>6, <1>7, <1>8 DEF Operator

\* A finger is on a key or nowhere, and none of them redraws the grid.
LEMMA FingersStay == ASSUME TalkInv, Operator PROVE PointerInv' /\ CellsOK'
<1>1. PointerInv /\ CellsOK
  BY DEF TalkInv
<1>2. cells' = cells
  BY DEF Operator, PointerDown, PointerUp, DigitDown, DigitUp, SpaceDown, SpaceUp, Blur,
         LatchButton
<1>3. \/ \E k \in Keys : pointer' = [on |-> k, live |-> TRUE]
      \/ pointer' = NoPointer
      \/ pointer' = pointer
  BY DEF Operator, PointerDown, PointerUp, DigitDown, DigitUp, SpaceDown, SpaceUp, Blur,
         LatchButton, fingerVars
<1>4. PointerInv'
  <2>1. CASE \E k \in Keys : pointer' = [on |-> k, live |-> TRUE]
    BY <2>1 DEF PointerInv
  <2>2. CASE pointer' = NoPointer
    BY <2>2 DEF PointerInv, NoPointer
  <2>3. CASE pointer' = pointer
    BY <1>1, <2>3 DEF PointerInv
  <2> QED
    BY <1>3, <2>1, <2>2, <2>3
<1> QED
  BY <1>1, <1>2, <1>4 DEF CellsOK, SlotOf

\* A new grid eats the releases of what it takes from the page, and says so.
LEMMA FramesEat == ASSUME TalkInv, Receive PROVE TalkInv'
<1>1. VerbsInv /\ PointerInv /\ CellsOK
  BY DEF TalkInv
<1>2. UNCHANGED <<posts, talk>>
  BY DEF Receive, stationVars
<1>3. CASE state.up /\ CellRows(state) # cells
  <2>1. /\ cells' = CellRows(state) /\ held' = held \cap {All}
        /\ eaten' = eaten \cup (held \cap Slots)
        /\ pointer' = IF pointer.on \in Slots THEN [pointer EXCEPT !.live = FALSE] ELSE pointer
    BY <1>3 DEF Receive, HeldAfterRebuild
  <2>2. CellsOK'
    BY <2>1, Rows DEF CellsOK, SlotOf
  <2>3. PointerInv'
    BY <1>1, <2>1 DEF PointerInv
  <2>4. ASSUME NEW k \in Keys, k \notin eaten' PROVE Settled(posts', k, talk', held')
    <3>1. k \in held' <=> k \in held
      BY <2>1, <2>4 DEF Keys
    <3>2. Settled(posts, k, talk, held)
      BY <1>1, <2>1, <2>4 DEF VerbsInv
    <3> QED
      BY <1>2, <3>1, <3>2 DEF Settled
  <2>5. held' \subseteq Keys
    BY <1>1, <2>1 DEF VerbsInv
  <2> QED
    BY <1>1, <1>2, <2>2, <2>3, <2>4, <2>5 DEF TalkInv, VerbsInv
<1>4. CASE ~(state.up /\ CellRows(state) # cells)
  BY <1>1, <1>2, <1>4 DEF Receive, TalkInv, VerbsInv, PointerInv, CellsOK, SlotOf
<1> QED
  BY <1>3, <1>4

\* Every step keeps the fingers, the verbs and the grid consistent.
LEMMA TalkKept == ASSUME TalkInv, [PanelNext]_panelVars PROVE TalkInv'
<1>1. VerbsInv /\ PointerInv /\ CellsOK
  BY DEF TalkInv
<1>2. CASE Operator
  BY <1>2, FingersSend, FingersStay DEF TalkInv
<1>3. CASE Receive
  BY <1>3, FramesEat
<1>4. ASSUME NEW i \in DOMAIN posts, Serve(i) PROVE TalkInv'
  <2>1. UNCHANGED <<pointer, cells>>
    BY <1>4 DEF Serve, pageVars, fingerVars
  <2> QED
    BY <1>1, <1>4, <2>1, ServeKeeps DEF TalkInv, PointerInv, CellsOK, SlotOf
<1>5. ASSUME UNCHANGED <<held, posts, talk, eaten, pointer, cells>> PROVE TalkInv'
  BY <1>1, <1>5, NothingSent DEF TalkInv, PointerInv, CellsOK, SlotOf
<1>6. CASE MainLoop
  BY <1>5, <1>6 DEF MainLoop, Pass, CardPublishes, pageVars, fingerVars
<1>7. ASSUME NEW c, NEW p, PeopleChange(c, p) PROVE TalkInv'
  BY <1>5, <1>7 DEF PeopleChange, pageVars, fingerVars
<1>8. CASE SessionToggles
  BY <1>5, <1>8 DEF SessionToggles, pageVars, fingerVars
<1>9. CASE UNCHANGED panelVars
  BY <1>5, <1>9 DEF panelVars, stationVars, pageVars, fingerVars
<1>10. CASE PageReloads
  <2>1. /\ cells' = <<>> /\ held' = {} /\ pointer' = NoPointer /\ eaten' = eaten \cup held
        /\ UNCHANGED <<talk, posts>>
    BY <1>10 DEF PageReloads, stationVars
  <2>2. ASSUME NEW k \in Keys, k \notin eaten' PROVE Settled(posts', k, talk', held')
    BY <1>1, <2>1, <2>2 DEF VerbsInv, Settled
  <2>3. PointerInv' /\ CellsOK'
    BY <2>1 DEF PointerInv, NoPointer, CellsOK
  <2> QED
    BY <1>1, <2>1, <2>2, <2>3 DEF TalkInv, VerbsInv
<1> QED
  BY <1>2, <1>3, <1>4, <1>6, <1>7, <1>8, <1>9, <1>10 DEF PanelNext

\* The station keys what the page holds once nothing about that key is in
\* flight, however the threads of the verbs overtake one another.
THEOREM StationFollows == PanelSpec => []TalkIsHeld
<1>1. PanelInit => TalkInv
  <2> SUFFICES ASSUME PanelInit PROVE TalkInv
    OBVIOUS
  <2>1. held = {} /\ cells = CellRows(Snapshot) /\ talk = {} /\ posts = <<>> /\ pointer = NoPointer
    BY DEF PanelInit
  <2>2. posts \in Seq(Post) /\ Len(posts) = 0
    BY <2>1
  <2>3. VerbsInv
    BY <2>1, <2>2 DEF VerbsInv, Settled
  <2>4. CellsOK
    BY <2>1, Rows DEF CellsOK, SlotOf
  <2>5. PointerInv
    BY <2>1 DEF PointerInv, NoPointer
  <2> QED
    BY <2>3, <2>4, <2>5 DEF TalkInv
<1>2. TalkInv => TalkIsHeld
  <2> SUFFICES ASSUME TalkInv, NEW k \in Keys, k \notin eaten,
                      \A j \in DOMAIN posts : posts[j].verb = "talk" => posts[j].key # k
               PROVE  k \in talk <=> k \in held
    BY DEF TalkIsHeld
  <2>1. posts \in Seq(Post) /\ Settled(posts, k, talk, held)
    BY DEF TalkInv, VerbsInv
  <2>2. \A j \in 1 .. Len(posts) : ~About(posts, k, j)
    BY <2>1 DEF About
  <2> QED
    BY <2>1, <2>2 DEF Settled
<1> QED
  BY <1>1, <1>2, TalkKept, PTL DEF PanelSpec

----------------------------------------------------------------------------
(* The types of the panel and of the station's part in it. *)

Numbers ==
  /\ people \in [Slots -> {"none", "here", "away"}]
  /\ talk \subseteq Keys /\ latched \subseteq Slots /\ keys \subseteq Slots
  /\ eaten \subseteq Keys /\ digits \subseteq Digits
  /\ edges \in Seq(Keys \X BOOLEAN)
Buttons == latchMode \in BOOLEAN /\ space \in BOOLEAN /\ up \in BOOLEAN
Frames == state \in SnapshotType /\ S \in SnapshotType
Grid == \A d \in DOMAIN cells : cells[d] \in Slots \X BOOLEAN

\* The masks, the edges and the people.
LEMMA NumbersTyped == ASSUME TalkInv, Numbers, [PanelNext]_panelVars PROVE Numbers'
<1> USE DEF Numbers
<1>1. posts \in Seq(Post) /\ held \subseteq Keys
  BY DEF TalkInv, VerbsInv
<1>2. ASSUME NEW i \in DOMAIN posts, Serve(i) PROVE Numbers'
  <2>1. posts[i] \in Post
    BY <1>1
  <2>2. posts[i].key \in Keys /\ <<posts[i].key, posts[i].on>> \in Keys \X BOOLEAN
    BY <2>1 DEF Post
  <2>3. UNCHANGED <<people, latched, keys, digits>>
    BY <1>2 DEF Serve, fingerVars
  <2>4. \/ talk' \subseteq talk \cup {posts[i].key} /\ eaten' \subseteq eaten \cup {posts[i].key}
           /\ edges' = edges
        \/ UNCHANGED <<talk, eaten>> /\ edges' = Append(edges, <<posts[i].key, posts[i].on>>)
    BY <1>2 DEF Serve, Talks
  <2>5. edges' \in Seq(Keys \X BOOLEAN)
    <3> DEFINE e == <<posts[i].key, posts[i].on>>
    <3>1. e \in Keys \X BOOLEAN /\ (edges' = edges \/ edges' = Append(edges, e))
      BY <2>2, <2>4
    <3> HIDE DEF e
    <3> QED
      BY <3>1, AppendProperties, SMTT(60)
  <2> QED
    BY <2>2, <2>3, <2>4, <2>5
<1>3. CASE Pass
  <2>1. /\ edges' = <<>> /\ latched' = AllLatched /\ keys' = KeysOf(AllLatched)
        /\ UNCHANGED <<people, talk, eaten, digits>>
    BY <1>3 DEF Pass, fingerVars
  <2>2. AllLatched \subseteq Slots
    BY DEF AllLatched
  <2>3. KeysOf(AllLatched) \subseteq Slots
    BY <2>2 DEF KeysOf
  <2>4. edges' \in Seq(Keys \X BOOLEAN)
    BY <2>1, EmptySeq
  <2> QED
    BY <2>1, <2>2, <2>3, <2>4
<1>4. ASSUME NEW c \in Slots, NEW p \in {"none", "here", "away"}, PeopleChange(c, p) PROVE Numbers'
  BY <1>4 DEF PeopleChange, fingerVars
<1>5. CASE SessionToggles
  BY <1>5 DEF SessionToggles, fingerVars
<1>6. ASSUME UNCHANGED stationVars, eaten' \subseteq eaten \cup held, digits' \subseteq Digits
      PROVE  Numbers'
  BY <1>1, <1>6 DEF stationVars
<1>7. CASE Operator
  <2>1. UNCHANGED stationVars /\ eaten' = eaten
    BY <1>7 DEF Operator, PointerDown, PointerUp, DigitDown, DigitUp, SpaceDown, SpaceUp, Blur,
                LatchButton
  <2>2. digits' \subseteq Digits
    BY <1>7 DEF Operator, PointerDown, PointerUp, DigitDown, DigitUp, SpaceDown, SpaceUp, Blur,
                LatchButton, fingerVars
  <2> QED
    BY <1>6, <2>1, <2>2
<1>8. CASE Receive
  BY <1>6, <1>8 DEF Receive
<1>9. CASE PageReloads
  BY <1>6, <1>9 DEF PageReloads
<1>10. CASE CardPublishes \/ UNCHANGED panelVars
  BY <1>10 DEF CardPublishes, panelVars, stationVars, fingerVars
<1> QED
  BY <1>2, <1>3, <1>4, <1>5, <1>7, <1>8, <1>9, <1>10 DEF PanelNext, MainLoop

\* The LATCH button, the space bar and the session.
LEMMA ButtonsTyped == ASSUME Buttons, [PanelNext]_panelVars PROVE Buttons'
<1>1. latchMode' \in {latchMode, ~latchMode, FALSE}
  BY Zenon DEF PanelNext, panelVars, pageVars, Operator, PointerDown, PointerUp, DigitDown, DigitUp,
     SpaceDown, SpaceUp, Blur, LatchButton, Receive, Serve, MainLoop, Pass, CardPublishes,
     PeopleChange, SessionToggles, PageReloads
<1>2. space' \in {space, TRUE, FALSE}
  BY Zenon DEF PanelNext, panelVars, fingerVars, Operator, PointerDown, PointerUp, DigitDown,
     DigitUp, SpaceDown, SpaceUp, Blur, LatchButton, Receive, Serve, MainLoop, Pass, CardPublishes,
     PeopleChange, SessionToggles, PageReloads
<1>3. up' \in {up, ~up}
  BY Zenon DEF PanelNext, panelVars, stationVars, Operator, PointerDown, PointerUp, DigitDown,
     DigitUp, SpaceDown, SpaceUp, Blur, LatchButton, Receive, Serve, MainLoop, Pass, CardPublishes,
     PeopleChange, SessionToggles, PageReloads
<1> QED
  BY <1>1, <1>2, <1>3, Zenon DEF Buttons

\* What the station publishes, and what the page was last sent.
LEMMA FramesTyped == ASSUME Numbers, Buttons, Frames, [PanelNext]_panelVars PROVE Frames'
<1>1. NoChannels(state) \in SnapshotType /\ NoChannels(S) \in SnapshotType
  BY DEF NoChannels, SnapshotType
<1>2. ASSUME Pass PROVE state' \in SnapshotType
  <2>1. state' = [up |-> up, people |-> people, keys |-> keys, latched |-> AllLatched]
    BY <1>2 DEF Pass, Published, Snapshot
  <2>2. up \in BOOLEAN
    BY Zenon DEF Buttons
  <2> QED
    BY <2>1, <2>2 DEF SnapshotType, Numbers, AllLatched
<1>3. state' \in {state, NoChannels(state)} \/ Pass
  BY Zenon DEF PanelNext, panelVars, stationVars, Operator, PointerDown, PointerUp, DigitDown,
     DigitUp, SpaceDown, SpaceUp, Blur, LatchButton, Receive, Serve, MainLoop, CardPublishes,
     PeopleChange, SessionToggles, PageReloads
<1>4. S' \in {S, state, NoChannels(S)}
  BY Zenon DEF PanelNext, panelVars, pageVars, Operator, PointerDown, PointerUp, DigitDown,
     DigitUp, SpaceDown, SpaceUp, Blur, LatchButton, Receive, Serve, MainLoop, Pass, CardPublishes,
     PeopleChange, SessionToggles, PageReloads
<1> QED
  BY <1>1, <1>2, <1>3, <1>4 DEF Frames

\* A row of the grid is a channel and whether it has a name to show.
LEMMA RowsTyped == ASSUME NEW s PROVE \A d \in DOMAIN CellRows(s) : CellRows(s)[d] \in Slots \X BOOLEAN
<1> DEFINE shown == {c \in Slots : Shown(s, c)}
<1>1. \A d \in 1 .. Cardinality(shown) : Nth(shown, d) \in Slots
  BY NthOf
<1>2. CellRows(s) = [i \in 1 .. Cardinality(shown) |->
                       <<Nth(shown, i), s.people[Nth(shown, i)] # "none">>]
  BY DEF CellRows
<1>3. ASSUME NEW d \in 1 .. Cardinality(shown)
      PROVE  <<Nth(shown, d), s.people[Nth(shown, d)] # "none">> \in Slots \X BOOLEAN
  <2> DEFINE named == s.people[Nth(shown, d)] # "none"
  <2>1. named \in BOOLEAN
    BY Zenon
  <2> HIDE DEF named
  <2>2. <<Nth(shown, d), named>> \in Slots \X BOOLEAN
    BY <1>1, <2>1
  <2> QED
    BY <2>2 DEF named
<1> HIDE DEF shown
<1> QED
  BY <1>2, <1>3, Zenon

\* The grid is drawn from a state, or empty.
LEMMA GridTyped == ASSUME Grid, [PanelNext]_panelVars PROVE Grid'
<1>1. cells' \in {cells, CellRows(state), <<>>}
  BY Zenon DEF PanelNext, panelVars, pageVars, Operator, PointerDown, PointerUp, DigitDown,
     DigitUp, SpaceDown, SpaceUp, Blur, LatchButton, Receive, Serve, MainLoop, Pass, CardPublishes,
     PeopleChange, SessionToggles, PageReloads
<1> QED
  BY <1>1, RowsTyped DEF Grid

\* Type correctness of the panel: no mask names what is no channel, and the
\* grid and the frames are ones the page can draw, for any channels and any
\* bounds.
THEOREM PanelTypeCorrect == PanelSpec => []PanelTypeOK
<1> DEFINE Typed == Numbers /\ Buttons /\ Frames /\ Grid
<1>1. PanelInit => TalkInv /\ Typed
  <2> SUFFICES ASSUME PanelInit PROVE TalkInv /\ Typed
    OBVIOUS
  <2>1. /\ people = [c \in Slots |-> "here"] /\ talk = {} /\ edges = <<>> /\ latched = {}
        /\ keys = {} /\ eaten = {} /\ digits = {} /\ held = {} /\ posts = <<>>
        /\ pointer = NoPointer /\ cells = CellRows(Snapshot) /\ up = TRUE
        /\ state = Snapshot /\ S = Snapshot
    BY Zenon DEF PanelInit
  <2>2. Numbers
    BY <2>1, EmptySeq DEF Numbers
  <2>3. Buttons
    BY Zenon DEF PanelInit, Buttons
  <2>4. Frames
    BY <2>1 DEF Frames, Snapshot, SnapshotType
  <2>5. Grid /\ CellsOK
    BY <2>1, RowsTyped, Rows DEF Grid, CellsOK, SlotOf
  <2>6. VerbsInv
    BY <2>1, EmptySeq DEF VerbsInv, Settled
  <2>7. PointerInv
    BY <2>1 DEF PointerInv, NoPointer
  <2> QED
    BY <2>2, <2>3, <2>4, <2>5, <2>6, <2>7 DEF TalkInv
<1>2. TalkInv /\ Typed /\ [PanelNext]_panelVars => TalkInv' /\ Typed'
  BY TalkKept, NumbersTyped, ButtonsTyped, FramesTyped, GridTyped
<1>3. TalkInv /\ Typed => PanelTypeOK
  BY Zenon DEF TalkInv, VerbsInv, PointerInv, Post, Numbers, Buttons, Frames, Grid, PanelTypeOK
<1> QED
  BY <1>1, <1>2, <1>3, PTL DEF PanelSpec
=============================================================================
