------------------------------ MODULE FeedBank ------------------------------
(***************************************************************************)
(* Extern feeds (FeedBank and ChannelBankSink in src/app/main.cpp,         *)
(* src/audio/extern_feed.cpp, src/audio/signal_gate.cpp): a line of a      *)
(* capture device latched into a talkback channel.                         *)
(*                                                                         *)
(* Three threads meet here:                                                *)
(*   - the MAIN thread runs the operator's verbs, each under m_, and then  *)
(*     SaveEnv; it also keys channels and restores the feeds at launch;    *)
(*   - each feed's DEVICE thread pushes frames without m_, reading the     *)
(*     latch as an atomic;                                                 *)
(*   - the PACER thread ticks: it loads the masks, then pulls one frame    *)
(*     per feed target, each pull under m_.                                *)
(*                                                                         *)
(* A frame is whether it is hot (above the signal gate's threshold). One   *)
(* device callback is one 20 ms frame; the 12 ms latch ramp fits in it.    *)
(* Abstracted: gain, downmix, meters, frame contents, the barge duck.      *)
(***************************************************************************)
EXTENDS Naturals, Sequences, FiniteSets

CONSTANTS
  NumSlots,  \* channels of the bank
  Depth,     \* frames a feed's ring holds: ring_(50)
  Hang       \* SignalGate's hang, in frames: 800 ms

ASSUME FeedAssumption ==
  NumSlots \in Nat \ {0} /\ Depth \in Nat \ {0} /\ Hang \in Nat \ {0}

Slots == 0 .. NumSlots - 1

VARIABLES
  chain,     \* Slot::chain exists
  latch,     \* Slot::cfg.latch, and the chain's latched_
  dev,       \* Slot::dev: none (dev_ok false), running, or gone: unplugged
             \* while started, which running() does not see
  open,      \* FeedChain::latch_env_ is not silent
  ring,      \* FeedChain::ring_: hot or not, oldest first
  hang,      \* Slot::gate: hang left
  latchedMask, drainingMask, activeMask,
  file,      \* feeds.env: the slots saved, with their latch
  saving,    \* main is between a verb and the end of SaveEnv
  missed,    \* history: feeds.env could not be opened the last time
  loud,      \* external: what each line carries now
  ready,     \* the bank's ready_mask_
  keys,      \* the bank's key_mask_
  voiceHang, \* the sink's voice_gate_
  todo       \* the pacer: feed targets of this tick not pulled yet

slotVars == <<chain, latch, dev, open, ring, hang>>
maskVars == <<latchedMask, drainingMask, activeMask>>
diskVars == <<file, saving, missed>>
deskVars == <<ready, keys, voiceHang>>
feedVars == <<slotVars, maskVars, diskVars, loud, deskVars, todo>>

Empty == [s \in Slots |-> <<>>]
Zero == [s \in Slots |-> 0]
No == [s \in Slots |-> FALSE]

Init ==
  /\ chain = No /\ latch = No /\ open = No
  /\ dev = [s \in Slots |-> "none"]
  /\ ring = Empty /\ hang = Zero
  /\ latchedMask = {} /\ drainingMask = {} /\ activeMask = {}
  /\ file = [s \in Slots |-> "absent"]
  /\ saving = FALSE /\ missed = FALSE
  /\ loud = No
  /\ ready = {} /\ keys = {} /\ voiceHang = 0
  /\ todo = {}

\* RefreshMasks, from the chains and latches a verb leaves behind.
Latched(c, l) == {s \in Slots : c[s] /\ l[s]}

\* SignalGate::Update: instant attack, then the hang runs down.
Gate(h, hot) == IF hot THEN Hang ELSE IF h > 0 THEN h - 1 ELSE 0

----------------------------------------------------------------------------
(* Main thread: FeedBank::Apply. A verb that changed something is followed *)
(* by SaveEnv; the next verb waits for it.                                 *)

\* Set: the old device is stopped, the chain and the gate are new, latch is
\* kept. When the device does not start, Set returns before RefreshMasks and
\* Apply before SaveEnv.
SetRefresh_No(c, l) == latchedMask  \* mutant: Set forgets RefreshMasks
SetRefresh(c, l) == Latched(c, l)

\* The capture device after Start: a device that is not found, not opened or
\* not started leaves nothing open.
DevAfter(started) == IF started THEN "running" ELSE "none"

Set(s, started) ==
  /\ ~saving
  /\ chain' = [chain EXCEPT ![s] = TRUE]
  /\ open' = [open EXCEPT ![s] = FALSE]
  /\ ring' = [ring EXCEPT ![s] = <<>>]
  /\ hang' = [hang EXCEPT ![s] = 0]
  /\ dev' = [dev EXCEPT ![s] = DevAfter(started)]
  /\ latchedMask' = IF started THEN SetRefresh(chain', latch) ELSE latchedMask
  /\ saving' = started
  /\ UNCHANGED <<latch, drainingMask, activeMask, file, missed, loud, deskVars, todo>>

SetLatch(s, on) ==
  /\ ~saving
  /\ chain[s]
  /\ latch' = [latch EXCEPT ![s] = on]
  /\ drainingMask' = IF on THEN drainingMask ELSE drainingMask \union {s}
  /\ latchedMask' = Latched(chain, latch')
  /\ saving' = TRUE
  /\ UNCHANGED <<chain, dev, open, ring, hang, activeMask, file, missed, loud, deskVars,
                 todo>>

Off(s) ==
  /\ ~saving
  /\ chain' = [chain EXCEPT ![s] = FALSE]
  /\ latch' = [latch EXCEPT ![s] = FALSE]
  /\ dev' = [dev EXCEPT ![s] = "none"]
  /\ open' = [open EXCEPT ![s] = FALSE]
  /\ ring' = [ring EXCEPT ![s] = <<>>]
  /\ hang' = [hang EXCEPT ![s] = 0]
  /\ latchedMask' = Latched(chain', latch')
  /\ saving' = TRUE
  /\ UNCHANGED <<drainingMask, activeMask, file, missed, loud, deskVars, todo>>

\* SaveEnv: every slot with a chain, its device running or not; a file that
\* cannot be opened keeps what it had.
Saved_Running(s) == chain[s] /\ dev[s] # "none"  \* mutant: dead feeds are lost
Saved(s) == chain[s]

SaveEnv ==
  /\ saving
  /\ saving' = FALSE
  /\ \/ missed' = FALSE
        /\ file' = [s \in Slots |->
             IF ~Saved(s) THEN "absent" ELSE IF latch[s] THEN "latched" ELSE "unlatched"]
     \/ missed' = TRUE /\ UNCHANGED file
  /\ UNCHANGED <<slotVars, maskVars, loud, deskVars, todo>>

\* The app is left and launched again: LoadEnv sets up every saved feed, with
\* its latch, by slot number, and none when the file cannot be opened. Each whose
\* device starts refreshes the latched mask for all set up so far (SetLatch);
\* one whose device does not leaves it alone.
Listed == {s \in Slots : file[s] # "absent"}
Restored(s) == file[s] = "latched"

Launch(kept, started) ==
  /\ ~saving /\ todo = {}
  /\ started \subseteq kept
  /\ chain' = [s \in Slots |-> s \in kept]
  /\ latch' = [s \in Slots |-> s \in kept /\ Restored(s)]
  /\ dev' = [s \in Slots |-> DevAfter(s \in started)]
  /\ open' = No /\ ring' = Empty /\ hang' = Zero
  /\ latchedMask' = {s \in kept : Restored(s) /\ \E t \in started : s <= t}
  /\ drainingMask' = {s \in started : ~Restored(s)}
  /\ activeMask' = {}
  /\ ready' = {} /\ keys' = {} /\ voiceHang' = 0
  /\ UNCHANGED <<file, saving, loud, todo>>

Relaunch(started) ==
  \/ missed' = FALSE /\ Launch(Listed, started)
  \/ missed' = TRUE /\ Listed # {} /\ Launch({}, started)

\* The main loop's keying, when a session's bank exists.
SetKeys(k) ==
  /\ ready # {}
  /\ keys' = k
  /\ UNCHANGED <<slotVars, maskVars, diskVars, loud, ready, voiceHang, todo>>

\* A channel of the bank becomes ready.
ChannelReady(s) ==
  /\ s \notin ready
  /\ ready' = ready \union {s}
  /\ UNCHANGED <<slotVars, maskVars, diskVars, loud, keys, voiceHang, todo>>

\* The session ends: bank, sink and pacer are gone, the feeds stay.
SessionEnds ==
  /\ ready # {} /\ todo = {}
  /\ ready' = {} /\ keys' = {} /\ voiceHang' = 0
  /\ UNCHANGED <<slotVars, maskVars, diskVars, loud, todo>>

----------------------------------------------------------------------------
(* Device threads. *)

\* The ring's Push: drop-oldest.
Pushed(r, f) == Append(IF Len(r) = Depth THEN Tail(r) ELSE r, f)

\* FeedChain::PushInterleaved: latched, or ramping out one last frame; a
\* closed chain produces nothing.
DeviceCallback(s) ==
  /\ dev[s] = "running"
  /\ latch[s] \/ open[s]
  /\ open' = [open EXCEPT ![s] = latch[s]]
  /\ ring' = [ring EXCEPT ![s] = Pushed(@, loud[s])]
  /\ UNCHANGED <<chain, latch, dev, hang, maskVars, diskVars, loud, deskVars, todo>>

\* External: the line starts or stops carrying audio; the device is unplugged.
LineChanges(s) ==
  /\ loud' = [loud EXCEPT ![s] = ~@]
  /\ UNCHANGED <<slotVars, maskVars, diskVars, deskVars, todo>>

Unplug(s) ==
  /\ dev[s] = "running"
  /\ dev' = [dev EXCEPT ![s] = "gone"]
  /\ UNCHANGED <<chain, latch, open, ring, hang, maskVars, diskVars, loud, deskVars, todo>>

----------------------------------------------------------------------------
(* Pacer thread: one tick of ChannelBankSink::Send. *)

send_targets == latchedMask \union drainingMask

\* CanSend, the voice gate, and the masks. Voice is hot only while a key is
\* down: the push-to-talk envelope is closed otherwise.
Tick(hot) ==
  /\ todo = {}
  /\ ready # {}
  /\ hot => keys # {}
  /\ voiceHang' = Gate(voiceHang, hot)
  /\ todo' = send_targets \intersect ready
  /\ UNCHANGED <<slotVars, maskVars, diskVars, loud, ready, keys>>

\* PullFrame(s), by slot number. The gate follows the frame, or the silence
\* of an empty ring; an empty ring takes the active bit down at once, and an
\* unlatched one ends the drain.
Drained_Never(s) == FALSE  \* mutant: the drain never ends
Drained(s) == ~chain[s] \/ (ring[s] = <<>> /\ ~latch[s])

PullFrame(s) ==
  /\ s \in todo /\ \A t \in todo : s <= t
  /\ todo' = todo \ {s}
  /\ drainingMask' = IF Drained(s) THEN drainingMask \ {s} ELSE drainingMask
  /\ ring' = [ring EXCEPT ![s] = IF @ = <<>> THEN @ ELSE Tail(@)]
  /\ hang' = [hang EXCEPT ![s] =
       IF chain[s] THEN Gate(@, ring[s] # <<>> /\ Head(ring[s])) ELSE @]
  /\ activeMask' =
       IF ~chain[s] THEN activeMask
       ELSE IF ring[s] # <<>> /\ hang'[s] > 0 THEN activeMask \union {s}
       ELSE activeMask \ {s}
  /\ UNCHANGED <<chain, latch, dev, open, latchedMask, diskVars, loud, deskVars>>

----------------------------------------------------------------------------
Verb ==
  \/ \E s \in Slots, b \in BOOLEAN : Set(s, b) \/ SetLatch(s, b)
  \/ \E s \in Slots : Off(s)

Main ==
  \/ Verb
  \/ SaveEnv
  \/ \E k \in SUBSET Slots : SetKeys(k)

World == \E s \in Slots : ChannelReady(s) \/ LineChanges(s) \/ Unplug(s)

Audio ==
  \/ \E s \in Slots : DeviceCallback(s) \/ PullFrame(s)
  \/ \E hot \in BOOLEAN : Tick(hot)

----------------------------------------------------------------------------
\* The shape of every variable.
TypeOK ==
  /\ chain \in [Slots -> BOOLEAN] /\ latch \in [Slots -> BOOLEAN]
  /\ open \in [Slots -> BOOLEAN] /\ loud \in [Slots -> BOOLEAN]
  /\ dev \in [Slots -> {"none", "running", "gone"}]
  /\ ring \in [Slots -> Seq(BOOLEAN)]
  /\ \A s \in Slots : Len(ring[s]) <= Depth
  /\ hang \in [Slots -> 0 .. Hang]
  /\ latchedMask \subseteq Slots /\ drainingMask \subseteq Slots
  /\ activeMask \subseteq Slots
  /\ ready \subseteq Slots /\ keys \subseteq Slots /\ todo \subseteq Slots
  /\ file \in [Slots -> {"absent", "unlatched", "latched"}]
  /\ saving \in BOOLEAN /\ missed \in BOOLEAN
  /\ voiceHang \in 0 .. Hang

\* A feed that is latched and has a device is serviced by the pacer, and only
\* a latched feed keeps its slot in the latched mask, whatever order of verbs,
\* failed device starts and relaunches led here (RefreshMasks against Set,
\* SetLatch, Off and LoadEnv).
LatchedIsServed ==
  \A s \in Slots :
    /\ latch[s] /\ dev[s] # "none" => s \in latchedMask
    /\ s \in latchedMask => chain[s] /\ latch[s]

\* feeds.env tells the truth between verbs, unless it could not be opened the
\* last time: a feed it lists is configured with that latch, and it lists every
\* feed that is latched or has a device: all but one whose first device start
\* failed in this run (SaveEnv, LoadEnv).
SavedFeeds ==
  ~saving /\ ~missed => \A s \in Slots :
    /\ file[s] # "absent" => chain[s] /\ (file[s] = "latched" <=> latch[s])
    /\ chain[s] /\ (latch[s] \/ dev[s] # "none") => file[s] # "absent"

\* A launch brings back what the last one was left with: every latch, and every
\* feed with a device, and no feed that was removed; unless the file could not
\* be opened when it was last written or now.
FeedsComeBack ==
  [][(\E started \in SUBSET Slots : Relaunch(started)) /\ ~missed /\ ~missed' =>
       /\ latch' = latch
       /\ \A s \in Slots : /\ chain[s] /\ dev[s] # "none" => chain'[s]
                           /\ chain'[s] => chain[s]]_feedVars

\* While a feed stays unlatched or removed on a ready channel, the pacer stops
\* servicing it (PullFrame's end of drain), until the verb is given again.
UnlatchedGoesQuiet ==
  \A s \in Slots :
    <>[](~latch[s] /\ s \in ready) => []<>(s \notin send_targets)
=============================================================================
