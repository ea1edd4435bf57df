# ZComms: formal model

ZComms is a talkback and IFB panel for Zoom meetings (C++, `src/src`). A station joins a meeting through the
Zoom Meeting SDK, opens up to 16 private talkback channels, keeps people on them, and sends the operator's
microphone and external audio feeds into them; it ducks the meeting in the members' ears while a channel carries audio,
sends chat cues, and lays out breakout rooms. A panel in a window, or in browsers, drives it.

This directory models it in TLA+: what the threads share, what Zoom answers late or refuses, what the
operator's requests race with, what is left after a failure, and who notices that the app hangs. TLC checks small
instances; TLAPS proves the central safety properties for every value of the constants. Paths below are relative to
`src/src` of the repository.

## 1. Threads

| thread | what it runs | shares |
|---|---|---|
| main (also the SDK pump) | `Run` in `app/main.cpp`: join card, bring-up, main loop; every SDK call and nearly every SDK callback | bank (`m_`, `send_m_`), feeds (`m_`), edge lists |
| TX pacer | `TxPacer::Run`, one tick per 20 ms: pop a frame, hand it to the sink (`ChannelBankSink::Send`) | ring, bank, feeds |
| capture and monitor callbacks | `AudioEngine::OnCapture` | ring |
| one device callback per feed | `FeedChain::PushInterleaved` | the feed's ring |
| Zoom's mic thread | `ZoomMicSourceWin::onMic...`: hands a sender over, takes it back | the sender (`sender_m_`), the window |
| control server: accept and one thread per connection | panel verbs: set flags, append to edge lists; the OAuth callback | flags, edge lists, token store (`ZoomOAuth::m_`) |
| shell window | the WebView2 window and its message pump | pump beat, quit flag |
| watchdogs: of main, of the window's pump | look at a beat every round, report silence, end a quit that does not end | beats, flags |
| log pump and console thread | `diag_log`: split what was printed, write the log, feed the console | pipe, console queue |

The audio threads make one SDK call, the send; panel requests make none: main takes them at fixed places of its
loop. That is what makes the interleavings few enough to model, and what most hazards are about.

## 2. Inventory

**Channel bank** (`zoom/talkback_channels`). State: slots (id, ready, confirmed members), the pacer's copy of the
ids, the ready, key and sent masks, two locks. Operations: `CreateChannels`, `InviteMany`, `Remove`, `SetKey`,
`SendToSlot`, the response callbacks. Hard: the pacer reads what callbacks rewrite; responses come in any order, late
or not at all. Correct when audio reaches only the channel its slot holds, no two slots share a channel, nobody
is believed to listen who does not, and a tick always ends.

**Membership desk** (`app/main.cpp`, housekeeping and healer). State: intent, who was auto-assigned, backoffs,
the round-robin slot, a copy of the rooms, the station's own mute. Operations: auto-assign, prune, heal (one SDK call per
pass), rooms flush, assignment edges, keeping the microphone open. Hard: it decides from copies, its calls are refused or
answered late, breakouts hide people from the roster, the host mutes the station. Correct when membership converges on
intent, the channel can be heard, and nobody is removed by mistake.

**Microphone path** (`audio/frame_ring`, `tx_pacer`, `engine`, `frame_accumulator`). State: ring, grid, window, what a
device block leaves of a frame. Hard: two clocks, blocks that fall across frames, overflow, a window that shuts and opens,
a start that fails half-way. Correct when the ring is a drop-oldest queue, no sample is lost, nothing sent is older than
the clocks and the start explain, and no device stays open.

**Virtual microphone** (`audio/mic_source_win`). State: the sender, the window. Hard: Zoom frees the sender on its
own thread while another one sends. Correct when no send runs in a sender that was taken back.

**Audio devices** (`audio/devices`). State: what is open and what runs. Hard: three ways for a start to fail.

**External feeds** (`FeedBank` in `app/main.cpp`, `audio/extern_feed`, `signal_gate`). State: per slot a chain, a
latch, a device, a ring, a gate; the latched, draining and active masks; `feeds.env`. Operations: set, off,
latch, load, save, pull. Hard: the verbs refresh different parts of the derived state, devices fail to start or are
unplugged, the file cannot be opened, the pacer pulls meanwhile, the app is relaunched from the file. Correct when the masks
agree with the slots and a launch brings back what was left.

**Duck planner** (`zoom/duck_plan`). State: believed volume per slot, next time. Hard: refusals, Zoom's own duck at
creation, activity assembled from three sources of different age. Correct when the meeting's volume follows
what carries audio.

**Room plan** (`zoom/room_plan`, `zoom/breakout`, the `bo` commands). State: the desired layout, the rights. Operations:
layout, apply, start, stop. Hard: calls are asynchronous, the host does the same by hand, rights come and go,
names are not unique. Correct when an empty plan is the truth, a met layout is left alone, and passes converge.

**Chat signals** (`zoom/chat_signals`, `signal_outbox`, `signal_protocol`). State: peers, a bounded queue, the
pacing gate. Hard: it loses messages by design. Correct when what it loses is never the newest.

**Session life cycle** (`Run`, `zoom/zoom_client_win`). State: where main is, the SDK, the meeting's status, what Zoom
asks during a join, the reason of a failure, the grace of a room move, pending requests. Hard: every wait can be cut short
by a request or a status, Zoom's last status is not its most telling one, and a dozen failures share one way back. Correct
when the way back leaves nothing behind, a refused join tells why, a passcode given goes out, a room move is not taken for
the meeting's end, and a quit or an ended meeting is always noticed.

**Sign-in** (`app/zoom_oauth`, the sign-in verbs and the join's credentials in `app/main.cpp`). State: the token in memory
and in its file, the nonce and verifier of a sign-in under way, the flag `signed_in`. Operations: begin, callback, refresh,
join credentials, sign-out. Hard: every refresh rotates the token at Zoom before the file has the new one; saving is two
steps; browsers deliver callbacks twice or late. Correct when the file keeps a token that Zoom takes, no live sign-in is
deleted, and a nonce works once.

**Control server and panel** (`app/control_server`, `app/ui_html.h`, the talk verbs and the keying pass in `app/main.cpp`).
State: the edge list, latched keys, the published state; the page's grid, what it holds, its latch mode. Hard: one
connection and thread per verb, so a release may overtake its press; new state rebuilds the grid under a finger;
pages die. Correct when no key is held by nobody, the station keys what the page holds, talk ends, and the page catches up.

**Diagnostics** (`app/diag_log`, `diag_line.h`, `log_parts.h`, `console_queue.h`, `crash_trap`). State: the pipe, the
splitter's held meter, the parts, the console queue, the acknowledgements. Hard: the console may be frozen by a text
selection, a dying process has to get its last words on disk, the parts cycle meanwhile, and one may fail to open. Correct when the log is an
unbroken run of what was printed, up to its end or to a part that could not be opened, an acknowledged flush is in it, and
printing returns.

**Life line** (`app/stall_watch.h`, the watchdogs, the shell window, the return path of `Run`). State: beats, ages, the
watches, the quit. Hard: any call may hang for a while or for ever, the watchers poll. Correct when there is no false
alarm, a hang leaves a trail, a recovery is told once, and a quit ends the process.

### Not modelled

- Floating-point signal processing (`Envelope`, `Limiter`, `ChannelMix`, `EchoCanceller`): out of TLC's reach.
  `SampleRing` is one mutex around a bounded queue.
- Pure I/O and layout: listing the devices, the page's look, WebView2, the settings drawer.
- Scripted and headless runs and a start with the meeting as an argument: they skip the card, and then take the same
  bring-up and loop.
- The wire format of chat signals, the reach report of the breakouts, an exception's description, pruning of old logs.
- `talkback_source` (the first transport experiment, superseded by the bank), the macOS adapter (a second adapter to the same
  contract), measurement tools and spikes, JWT, identity, version and clock helpers, third-party code.

### How the parts interact

The desk calls the bank (`Desk` uses `TalkbackBank`) and keeps the station's microphone open (`StationMic`). Devices fill
the ring, the pacer drains it into a sink (`TxPath` over `FrameRing`, `Devices` and `VirtualMic`; the app's own sink is the
channel bank's: its routing is in `TalkbackBank`, its pulls in `FeedBank`). The planner reads the activity that feeds and
voice produce (`Ducking` over `FeedBank` and `DuckPlan`). The session drives the Zoom client and ticks the chat signals
(`Session` over `ZoomClient` and `ChatSignals`). `SignIn`, `Panel`, `DiagTee` and `Lifeline` touch the rest through a flag, a
request or a log line, and stand alone.

## 3. Modules

| module | models | steps |
|---|---|---|
| `TalkbackBank` | `TalkbackChannels`, `ChannelBankSink`'s routing, the response queue of the adapter | one per lock operation of the callback's id copying and of the pacer's tick; whole handlers elsewhere |
| `Desk` | the loop's membership duties over the bank | one per duty (`Housekeeping`, `HealPass`, `FlushRooms`), panel edge, or event of the meeting |
| `StationMic` | the station's own mute and its re-opening | `KeepOpen` as part of `Housekeeping`; the host's mutes |
| `FrameRing` | `FrameRing` as a circular buffer | `Push`, `Pop` (each under the ring's mutex) |
| `DropQueue` | what the ring promises: a queue that drops its oldest | `Push`, `Pop` |
| `TxPath` | engine, capture, ring, pacer | `CaptureBlock`, `CutsFrame`, `Carries`; `StartCapture`, `StartMonitor`, `Start`, `Stop`, `StopsDevices`; `Tick`, `EntersSend`, `Sends` |
| `VirtualMic` | `ZoomMicSourceWin` as the pacer's sink | one per atomic store or section under `sender_m_` |
| `Devices` | start and stop of a local device | part of the engine's steps |
| `FeedBank` | feed verbs, devices, gates, drains, `feeds.env` | a verb is two steps, its effect and `SaveEnv`; the pacer ticks, then pulls slot by slot |
| `DuckPlan` | `DuckPlanner` and its caller's call to Zoom | `Pass` |
| `Ducking` | feeds, voice gate and planner together | the composition |
| `Rooms` | planner, `bo` commands, `BreakoutRooms` | `Apply` is a whole pass: snapshot, plan, every call it makes |
| `ChatSignals` | outbox, cues, fallback, inbound signals | `SendCue`, `Tick`, `FallbackAndTick`, `Inbound` |
| `ZoomClient` | `ZoomClientWin`: authentication, join, passcode, status, reasons | one per callback, which only come while main pumps |
| `Session` | main's procedure from card to teardown, requests, room moves | one per wait's turn or per stretch of code between two pumps |
| `SignIn` | `ZoomOAuth`, its callers, the token file, Zoom's rotation, crashes | one per outcome of a request to Zoom, per step of a save, and per section under `m_` |
| `Panel` | a talk key from finger to key mask and back | one per DOM event of the page, verb served, pass of the loop, state frame |
| `DiagTee` | a line from `printf` to the log and the console, flushes, parts that do not open, dying | one per write to the pipe, item pumped, wait of a flush, stage of a death |
| `Lifeline` | main's beat, the window's beat, their watchdogs, the exit | one per stretch between two beats, per watchdog round, per join of a thread |

`MC...` are the TLC instances; `...Proofs` hold the theorems. `X_Something` right above an operator `X` is a mutated form of
it, a plausible mistake in that code, kept to show that the properties notice it; nothing else uses it.

Abstractions that matter:

- Time is counted in the unit of the code at hand (healer passes, samples, planner windows, send gaps, rounds of a
  watchdog, "the grace is over"); the constants keep the code's order of durations, not their values.
- In `TalkbackBank` the locks `m_` and `send_m_` are explicit where two threads meet, and handlers that only main runs
  are one step. `Desk` uses the same module with its pump idle: main runs both.
- `Desk` identifies a person with a user id, which Zoom reuses.
- Variables commented `history` record what the properties speak of and decide nothing: `parted` and `unassigned` (`Desk`),
  `unheard` (`TalkbackBank`), `missed` (`FeedBank`), `age`, `slack` and `lead` (`TxPath`), `hasty` and `sent` (`Session`), `eaten`
  (`Panel`), `mixed`, `refused` and `pumped` (`DiagTee`), and so on.
  `slack` also states how far the two clocks may be apart.
- `Session` names a status `ended` when the meeting really ended and `down` when it may come back; the code cannot tell
  them apart, and no step of main does.
- `Rooms` knows rooms and people by name, as the code does, while Zoom's rooms have ids: two may bear one name.
- `SignIn` numbers the refresh tokens as Zoom issues them; Zoom takes the newest and no other.
- Every answer Zoom may give to an invite or a removal is there, also the ones that refuse what Zoom did (`ZoomDecidesInvite`,
  `ZoomDecidesRemove`); the desk erases somebody only for `Ok` (`zoom/talkback_channels.cpp:291`).
- Opening `feeds.env`, a part of the log or the emergency copy's own handle may fail at any time; what an opened file is given
  is in it. A kill in the middle of `SaveEnv` is not modelled (hazards). `DiagTee` has a console, since with neither console nor
  file nothing is started. `Lifeline` counts a report as made whether or not `DiagEmergency` finds a file for it: what then
  becomes of the line is `DiagTee`'s. The flush before the watchdog's kill (`app/main.cpp:1011`), which gives up after a second, is
  part of the kill.
- `TxPath` numbers frames and counts samples; lines in `DiagTee` are numbered in the order in which they enter the pipe.

## 4. Runs

| run | instance | states | what it shows |
|---|---|---|---|
| `BankPacer` | 2 slots, 2 ids, 2 requests for channels under way, 1 person with 1 request or response on the way | 1 million | every interleaving of a pacer tick with grants, in any order and with refusals, and the copying of their ids, while the person is invited, removed and leaves |
| `Desk` | 1 person, 2 channels, 4 requests and 2 answers on the way, any 3 events | 213 thousand | whoever the desk believes to listen does; no accidental remove; membership converges, and is heard |
| `RecycledId` | as `Desk` | violation | an id that comes back is never placed |
| `TxPath` | ring of 4, 9 frames of 2 samples, blocks of up to 3, jitter 2 | 4.1 million | blocks across frames, the ring wrapping and overflowing, the window, the sender's revocation, failed devices |
| `Ducking` | 1 channel, ring of 2, hang 2, pacing 1 and 2 | 739 thousand | masks, gates and drains; feeds come back at a launch; a silent feed leaves the meeting's volume alone |
| `Rooms` | 2 names, 1 person, 2 rooms, any 5 events | 128 thousand | an empty plan is the truth; passes converge |
| `Session` | 1 desk, outbox of 2, 1 bring-up round | 732 thousand | every way back is clean; the newest of two waiting cues is kept; moves are ridden out; reasons and passcodes arrive; quits and ends are noticed |
| `SignIn` | 2 client threads, 3 tokens, 2 sign-ins, 1 crash | 533 thousand | the file keeps a token Zoom takes; a nonce works once |
| `Panel` | 2 channels, 2 verbs in flight, 2 presses, 2 changes | 255 thousand | no key held by nobody; the station follows the fingers; the page follows the station |
| `DiagTee` | 2 threads, pipe of 2, console queue of 1, 2 parts of 2 lines, 4 lines, 1 meter | 2.1 million | nothing missing in the log while a part is open, true acknowledgements, last words, no wait for a frozen console |
| `Lifeline` | thresholds of 2 rounds, quit limit 3, 1 client, ages up to 8 | 275 thousand | no false alarm, every stall reported and closed once, a bounded quit |
| `LastConnection` | as `Lifeline` | violation | an idle connection of the panel outlives the quit |

Why the bounds are enough. Ids and people are compared for equality only, slots are tried in order, and each race involves
two of them at most: two slots for a frame gone astray, two ids for two grants that cross, two rooms of one name
for an ambiguous one, two client threads for a flag that lags. Budgets bound what the outside world may do (arrivals, moves, refusals, host actions,
presses, crashes), never what the code does; three events reach every pair of a cause and its late answer. `TxPath`
counts frames to twice the ring, so that the index wraps and the drop-oldest path is taken repeatedly, and frames of two
samples under blocks of three put a boundary at every place. Three tokens are the one in the file, the one that replaces it, and
one issued for the same grant again. Four lines over two parts of two make a part take up a second life while a copy of it is
under way. Two cues in an outbox of two put an order among what is kept when a third comes; `NewestCueWaits` proves it for any
outbox. `BankPacer` is about channels and ids and says nothing of who listens;
there Zoom refuses no removal it did (`MaxUnheard` is 0). In `Desk`, where it may (`MaxUnheard` admits every pair), invites, removals, leaving and answers on the way overlap for the one person, on one channel and on two;
people do not meet on a channel but at its capacity, which `MembersFit` is proved for. With one channel, `Ducking` says
nothing of channels that compete for the planner's one call per pass, and claims nothing of it: two channels with their rings and gates are out
of TLC's reach, a channel that is refused for ever does starve the higher ones (hazards), and what holds for any number of
channels without fairness is proved (`WorkShrinks`, `RestIsRight`). A console queue of one is always at its limit. The type invariant of every module holds
on these instances; it has no run of its own, since it is proved (section 6).

Deadlock detection is off where the system really stops: the pacer is stopped (`TxPath`), the app exits (`Session`), the
process is over (`DiagTee`, `Lifeline`, `LastConnection`), and the fingers have used up their presses (`Panel`).

### Fairness

- Bank: each thread continues its critical section (`WF` of the refresh steps and of the tick's steps). Nothing is
  assumed of Zoom.
- Desk: the loop comes round to its duties and delivers responses (the pump of every pass), and Zoom answers every request,
  if only with a refusal; strongly fair, because the bound on the answers under way, which the code does not have, disables the
  step now and then. Refusals cost budget, so they do not go on for ever; the property says nothing if they do. A
  self-unmute that is forbidden for ever leaves the channel dead, and the code cannot help it.
- Ducking: the pacer ticks and pulls (its own thread on a timer), running devices call back, a verb reaches the end of
  `SaveEnv`, and time passes. `SF` of an accepted `SetChannelVolume`: the rate limiter refuses a burst, not every
  call for ever.
- Rooms: the operator applies repeatedly, which is what the command is for; Zoom does what it accepted; the host gives
  the rights back.
- Session: main goes on and the grace's clock runs. Requests, statuses and desks have no fairness. The ten minutes after
  which a join is given up have none either: that a quit is noticed must not rest on them.
- SignIn: main and each client thread go on, because the requests to Zoom time out. The operator's steps are not fair.
- Panel: the server comes to serve the oldest verb, the page receives state, the loop passes. Fingers are not fair.
- DiagTee: the log pump and each printing thread go on. Nothing is assumed of the console or of the operator.
- Lifeline: threads go on between calls, watchdogs wake, pages close their event streams when the server has stopped. A
  call that is stuck may stay so for ever.

## 5. Findings

Shown by a run of their own:

- `RecycledId`: `auto_assigned` outlives the person (`app/main.cpp:1575`); who arrives under a recycled id gets no channel,
  although "a new capable participant gets their OWN channel".
- `LastConnection`: `ControlServer::Stop` joins every client thread (`app/control_server.cpp:102`). One that waits for the
  request of an idle connection has no timeout, nobody closes its socket, and the watchdog that bounds a quit was stopped
  just before.

Stated next to the module's properties and refuted by TLC on the instances above unless one is named; no run carries them:

- `WantedChannelsFill` (`Desk`; with two people, one slot, one place): the healer never splits a batch (`app/main.cpp:1649`);
  one person too many keeps the whole batch out, for ever.
- `DuckOnlyWhileActive` (`Ducking`): removing a feed does not clear its activity bit (`app/main.cpp:231`); the channel stays
  ducked.
- `CreatesOnlyMissing` (`Rooms`): the snapshot is empty until breakouts run (`zoom/breakout.cpp:86`); every apply before the
  start creates all rooms again.
- `EveryDeskIsTold` (`Session`; with two desks, an outbox of two, one round): the fallback for every known desk is followed by
  one paced tick (`app/main.cpp:1366`), which sends one message.
- `FlagMirrorsStore` (`SignIn`): the token store and `signed_in` are written in two steps by two threads
  (`app/main.cpp:1143`); a sign-in that lands between them shows the sign-in card again.
- `FailClosed` (`Panel`): a press is refused when everybody on the channel is in another room (`app/ui_html.h:363`), but a
  digit key does not look (`app/ui_html.h:423`).

Excused by name in a property, so that it still catches everything else: a room move ordered in the pass in which the
previous one completes (`hasty`, in `RidesMoves`); people who come back late from breakouts (`parted`, in
`RemovesOnPurpose`); a wanted room missing while breakouts run (in `ConvergedIsTrue`); a release that was overtaken by its press
or lost with its page (`eaten`, in `TalkIsHeld` and `TalkEnds`); a flush that meets another thread's sentinel (`mixed`, in
`AckMeansWritten`); a last line for which there was no file (`refused`, in `FatalIsLogged`); a `feeds.env` that could not be opened
(`missed`, in `FeedsComeBack`); a person whom Zoom took off a channel under an answer that refused (`unheard`, in `MembersAreReal`
and `Converges`); a refresh whose answer was lost, or whose save failed, after Zoom rotated the token (`lost`, in `StoredIsLive`); a
process whose main thread is already joining the panel's clients (in `QuitIsBounded`).

Smaller differences between the code and its words, met on the way:

- `TalkbackChannels` erases a member for `Ok` only (`zoom/talkback_channels.cpp:291`). A removal that Zoom did and answered with a
  timeout, should it do so, leaves the desk believing in a listener: the healer asks again and gets `NotExist`, pass after pass, and when the person is
  wanted again nobody invites them. An invite answered that way heals: the retry's `AlreadyExists` counts as joined.
- After a part of the log could not be opened nothing opens another one: the run has no log from there on
  (`app/diag_log.cpp:107`), while `DiagFlush` is acknowledged as before and the fatal box still names a log.
- A sentinel printed after an unfinished meter is glued to it and goes to the log as text, although `app/diag_log.cpp:169`
  says that it is never emitted.
- Two threads that flush at once may take each other's acknowledgement; one is then told too early.
- A long stay in the waiting room is reported as a stalled main loop, which `app/stall_watch.h:24-26` means to avoid; a
  headless run that waits for input at the card is reported too.
- A passcode submitted when the meeting no longer asks stays pending and answers the next prompt (`app/main.cpp:1195`). A
  second wrong passcode within one pump is not announced again.
- `Leave` leaves only from inside a meeting. A send may still run after Zoom shut the window, since no lock covers that;
  what is locked is the sender's life.
- The shell's `on_closed` holds a reference to a local of `Run` (`app/main.cpp:904`) in a detached thread.

## 6. What is proved

For every value of the constants allowed by the named assumptions (bounds such as `Capacity \in Nat \ {0}`, and that
the constants naming "none" are no members of the sets they stand beside):

- `TalkbackBankProofs`: the type invariant, `WireToOwnChannel`, `DistinctIds`, `PublishedView`, `MembersAreReal`,
  `MembersFit`. Routing is not inductive: a frame is right because the pacer only works on published slots (`PacerInv`), a published slot is ready and its id
  copied, the copy loop being described by what it has passed (`CopyInv`), an id is held by the one slot it was delivered to
  (`IdInv`), and who is inside which lock follows from where the threads are (`LockInv`). For the members, `TruthInv` says what
  Zoom believes together with the answers still on their way; whom Zoom took off under a refusal stays in `unheard` until the desk
  hears of it. `MembersFit`, which leaves those out, needs the order of those answers: a `Past` of a
  channel is a row of sets, one per answer on its way, each of a size Zoom allows, each at least what that answer makes of the
  one before, from whom the desk counts now to whom Zoom has now; `FitInv` says that every channel has one. Zoom's decisions
  lengthen it at the far end, a delivery cuts its near end off. `LocksMove` and `TickOnlyShrinks` are the part of `TickEnds`
  that needs no fairness: no circle of waiting, and a tick that runs down. One lemma per group of steps; steps that touch
  neither ids nor locks share `FrameInv`.
- `TxPathProofs`: for every capacity, `RingInv` (the i-th oldest frame is i places after the head); from it, that the buffer
  implements `DropQueue` under the refinement mapping that reads the ring from its head, and that no frame is replayed. Every
  step of the path is a step of the ring or leaves it alone, so the refinement holds under the engine too. `SenderIsLive`
  from `MicInv`; `DevicesReleased` from `DevicesInv` (what is open follows from where the engine is);
  that every sample is in one frame or held back, from `SamplesInv`; and `Realtime` from `AgeInv`: a tick takes a frame
  whenever there is one, so backlog and slack rise and fall together, and the backlog never exceeds the slack by more than what
  waited at the start, or what a tick that found no whole frame left behind.
- `DuckingProofs`: the feeds' invariant (types, latched feeds are serviced, the file agrees unless it was missed) and the
  planner's (belief is what Zoom accepted) are inductive together with the composition. From them `FeedsComeBack`: whatever
  verbs, failed devices, missed saves and launches came before, what `LoadEnv` restores is what was left (`ComeBack`). Of
  `SilentFeedLeavesUnity` the part below fairness is proved, for any number of channels: `IdleMeansRight` (nothing due, nothing wrong) and `WorkOnlyShrinks` (a settled list gets shorter
  with each call Zoom accepts).
- `DeskProofs`: `RemovesOnPurpose`. Whoever is on a channel, invited to it or about to be reported as joined is either present,
  eligible and intended for it, or was taken off by an operator, or has left meanwhile (`PlacedInv`). It needs what is on its way
  through Zoom (`MailInv`): a grant for a slot is for that slot's id, since slots are created once and each has its own.
  `DrivesTheBank`: whatever the desk, the operator and the meeting do, the bank takes a step of `TalkbackBank` or none. The
  bank's own induction therefore carries over (`TalkbackBankProofs`, instantiated), and gives `MembersAreReal` and
  `MembersFit`, with the same exception, for the bank as the healer drives it, which starts with every channel granted.
- `SessionProofs`: `CleanSdk`, from `ResourceInv` (which phases may hold the SDK and the engine); `RidesMoves`, from
  `MoveInv`: a move under way still has its grace, because `departed` is set only after the station has left for that move. The
  one exception is the hasty move, and the invariant shows that there is no other. `JoinTellsWhy`, from `ReasonInv`: the code
  the client keeps is the first reason Zoom gave, and there is one only where the join has failed or ended. `NewestKept`, from
  `ChatInv`: a push for a set of desks is an append with the oldest dropped beyond the limit, and no cue in the queue is the
  last one of its desk unless it says what was last queued for that desk (`QueuedInTurn`).
  `ConvergedIsTrue` and `IdempotentRunning` of the rooms follow from their types, which rest on `CreatesFit`: a batch of rooms
  is asked for only if it fits under Zoom's limit with those asked for before, so the pending requests inject into it.
- `SignInProofs`: types, `StoredIsLive`, `KeepsSignIn`, `OneUsePerStart`. `LockInv`: a thread inside an operation of the
  store holds its lock. `TokenInv`: what a join loaded is what the file holds, or newer and good, at each point of a refresh.
  `NonceInv`: a pending nonce is the newest start's and unspent.
- `DiagTeeProofs`: the pipe holds exactly the lines that the pump has not taken yet, in order (`PipeInv`), and the sentinel of a
  thread that flushes alone stands behind its lines until they are taken (`FlushInv`). What is filed is what was taken, or, once
  a part could not be opened, what was taken before that; hence `AckMeansWritten`, and that the log skips nothing while a part is
  open. `LogIsTail` and `FatalIsLogged`, from `LogInv`: what is filed is the next line and goes behind all others into the part
  begun last, a roll empties the oldest one or ends the log, the part begun last holds no more lines than its counter says
  (`Counted`); and the last words, if there was a file for them, are in the part that has since aged by the number of rolls
  (`FatalKept`).
- `ShellProofs`: in a loop that beats and is not stuck the beat is no older than its slowest call (`BeatInv`), and a watch is
  between its first report and its recovery line exactly while a stall is open (`WatchInv`); hence `NoFalseAlarm` and
  `StallsAreBracketed`. `HeldIsPressed`, from `HeldInv`: a grid is rebuilt only together with letting go of what hung on its
  cells. `TalkIsHeld`, from `VerbsInv`: the last verb in flight about a key says what the page holds, and with none in flight
  the station does; serving a verb out of turn breaks this only for a key that is then in `eaten`.

Every module that runs also has its types proved. They say more than the shape where the code has a bound: a watchdog counts
no age past its limit, a backoff never exceeds its cap however often it doubled, the pipe, the console queue and the parts of
the log keep their sizes.

Only model-checked: everything under fairness (`TickEnds`, both `Converges`, `UnlatchedGoesQuiet`, `SilentFeedLeavesUnity`,
`QuitEnds`, `EndedMeetingEnds`, `PasscodeGoesOut`, `TalkEnds`, `PanelCatchesUp`, `PrintReturns`, `WedgeLeavesTrail`,
`QuitIsBounded`), since liveness and `ENABLED` are out of the prover's reach. Every safety property that a run checks is
proved. `MembersFit`, `LocksMove`, `TickOnlyShrinks`, `IdleMeansRight` and `WorkOnlyShrinks` stand in no configuration: the
proofs cover every instance of them.

## 7. What is left

1. Proofs: refinements of further compositions (the feeds and the planner under `Ducking`, the client under `Session`), in the
   form of `DrivesTheBank`.
2. `Ducking` with two channels, for the starvation of the planner's rotation and for a talk that ducks its own channel while
   others compete: its product of gates and rings is too large as it stands and would need the feeds abstracted to their activity.
3. A kill in the middle of `SaveEnv`.
4. `Session`: scripted and headless starts, and the edge lists that outlive a session, stated as a property.
