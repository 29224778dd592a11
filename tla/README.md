# c64cast in TLA+

c64cast renders video, audio and generated scenes on a real Commodore 64 over the network. It is a
threaded Python program that owns hardware: a show is a *session* which opens the machine, runs one
playlist thread per C64 and puts the machine back as it found it. What is hard in it is never the
arithmetic of a frame. It is two threads that both believe they own the machine, a write that a dying
connection swallowed without telling anyone, a stop that lands in the middle of a setup, a scene that
gives up its turn and leaves somebody waiting for ever. This directory models that part.

Paths in this file are relative to `src/c64cast/`, except those that begin with `docs/` or `tests/`.

## The system

| part | state it keeps | operations | hard because |
|---|---|---|---|
| `_pollthread.py` `PollThread` | `_thread`, `_stop`, `_start_queued`, two locks | `start`, `stop`, `is_running`, the worker's exit | `stop` gives up on a wedged worker after half a second; a later `start` must neither run beside it nor be forgotten |
| `app/serve.py` `SessionManager` | a state of five, a generation, the session, a run marker on disk | `start`, `stop`, `switch`, `close`, the reaper, recovery at boot | every operation is split between a lock scope and a worker thread; `Thread.start()` may raise; the process may die with the machine open |
| `app/session.py` | the stack, playlists and services of one session | build, start, join, teardown | any step may raise |
| `hw/socket_dma.py` `SocketDMAClient` | the TCP connection, who has unconfirmed commands on it, loss counters, the redial back-off | a command per opcode, `flush`, `check_for_loss`, `connect`, `close` | commands are not acknowledged; a server may close an idle connection (harmless) or die with commands unread (not), and both look alike for a while |
| `hw/backend.py`, `hw/delivery.py`, `hw/api.py` | the write cache, the delivery epoch it was built in, error counters | `write_region`, `write_confirmed`, `flush`, `reset` | a cache built over a loss hides it for as long as the picture holds still |
| `app/playlist.py` `Playlist` | the scene on screen, pending jump and reload, events, debts to the machine | the run loop: pause, reload, advance, setup through an outage, frame, restart, teardown | requests come from keyboard, HTTP, MIDI and signals at any point; links fail and machines restart at any point |
| `app/ensemble.py`, `app/orchestrator.py` | one audio slot and the line for it; the broadcast under way | claim, line up, release; `begin`, `end`, the follower's interlude | several playlist threads, each with all of the above, share one slot and interrupt one another |
| `app/playlist_support.py` `MachineRestartWatch`, `control/keyboard.py` (the poller it borrows from) | a nonce in C64 memory, whether it is armed or owed again, the marks of the link it was written over, a count of restarts | arm, judge a sample, look over REST, re-arm, suspend, restore | the machine, the poller and a reset by another thread move between any two of its steps, and a zero may be its own doing |
| `control/performance.py` `PerformanceSession` | the armed clip and its build, the active clip, what it goes back to, a look's stashed effects | pad, gesture and look events, launch, loop, end, restore | events are queued by other threads and served once a frame; the playlist may drop the clip between two frames |
| `hw/teensyrom_dma.py` `TRClient` | whether the link is out of step or judged dead, when a reply may still come | write, read, span list, file, post, reset, ping; the resynchronisation before the next | bytes without frames or numbers: after a failure only silence tells where the firmware is |
| the rest of `control/`, `sid/`, `audio/`, `video/`, `wled/`, stores | | | see *What is not modelled* |

How they meet. The control plane, the keyboard poller and MIDI reach a playlist only through events
and two locked fields (`_jump_target`, `_pending_scenes`), and the supervisor only through its public
methods. A playlist writes through `write_region`, which writes through the connection; the
connection tells it of losses by two counters (`delivery_epoch`) and by a raise. Playlists of an
ensemble share an `Ensemble` (the slot) and an `Orchestrator` (the broadcast). Pollers everywhere are
`PollThread`s, the supervisor's reaper among them.

What makes each part correct: one worker, the last stop holds and a start is lost in three known ways only (PollThread); one holder of the
machine, freed before the supervisor says it is startable (SessionManager); no loss goes unnoticed and
`flush` never lies (SocketDMAClient); the cache never claims what the machine does not have
(backend); every setup has had its teardown and a stop ends the run from anywhere (Playlist); what sounds
holds the slot or is cut off by an outage, the slot is never stranded and nobody misses a broadcast (ensemble);
a restart is met and a reset c64cast's listener reported is not taken for one (restart watch); a clip on screen has a way back, and a
gate pad holds its clip (clip grid); no command is taken for the rest of another, no reply for
another's (TeensyROM).

## The modules

| module | models | in |
|---|---|---|
| `PollThreadState`, `PollThread` | `_pollthread.py`: its state with what it promises, and its steps | a step per lock scope of a caller or worker; proofs in `RestartWatchProof`, whose poller is a `PollThread` |
| `SessionLifecycle` | the state diagram in the docstring of `serve.py`, with the machine in it | the abstract specification |
| `SessionManager`, `SessionManagerProof` | `serve.py`, with `session.py` as its steps | a step per lock scope and per hardware call outside it; implements `SessionLifecycle` |
| `LossyLink` | what the connection promises: run in order, or lost with all that follows, and then said | the abstract specification |
| `SocketDMA`, `SocketDMAProof` | `socket_dma.py` and the service it talks to | a step per socket call; implements `LossyLink` |
| `WriteCache`, `WriteCacheProof` | `backend.py`, `delivery.py`, the flush and reset of `api.py` | over `LossyLink` (instanced: its link steps are actions of `LossyLink`), not over `SocketDMA` |
| `Playlist`, `PlaylistProof` | the run loop of one system | a step per point where a request, the link or the machine can make a difference |
| `Ensemble`, `EnsembleProof` | the slot, the line and the broadcast, with the run loop of each system reduced to what touches them | the same points |
| `RestartWatch`, `RestartWatchProof` | the watch, the poller's reads, the setups and restores that call it | a step per read, write and locked update; the poller and the other thread move between them |
| `Performance`, `PerformanceProof` | the clip grid over a playlist | a step per event served and per decision of a frame |
| `TeensyLink`, `TeensyLinkProof` | the client and, as external, the firmware it describes | a step per blocking call, with time in ticks |
| `MC...` | instances for TLC | |

`PROJECT.json` maps each definition to the lines it translates. The names are the code's where it has
them: `WaitStops` is the stop branch of a wait, `CloseReaper` the reaper part of `close`.

**PollThread.** `lifecycle` and `handoff` are the two locks; `at` says where each caller and worker is.
A worker's identity is used again once it is dead, so the number of calls is unbounded. The target is
what it may do: return, raise, call `stop()` or `start()` of its own poller, or stay for ever (a target that catches the
error of its own `stop()` goes on as one that made no such call). `lost` is history: what took the last
start away, other than a stop. Its worker may end by itself after it (`ended`); it may have ended by itself before,
and still be registered (`dropped`: `start()` sees a `_thread` whose stop event is clear and does nothing); or
`Thread.start()` raises in the worker that was to hand over (`unspawned`). `StartSticks` speaks of starts with no such loss.
A `Thread.start()` that raises out of `start()` itself has told its caller.

**SessionManager.** `state`, `gen`, `session`, `switching`, `abortSwitch`, `closing`, `cancel` are the
fields of those names. `held` is the set of generations whose build has the machine open and
`resetting` that recovery has: the two things that must not overlap. `marker` survives a crash;
`marked`, `owed` and `unwatched` are history. A recovery's reset may fail (`owed` is then `failed`, and the build goes ahead
on a machine in an unknown state, as the log says); a show may land and its reaper's thread not come up (`LandsRaises`,
`unwatched`). A session is named by the generation that built it.

**SocketDMA.** `wire` holds what was sent and not run, as the thread that sent it (or `Identify`):
opcode and payload make no difference to who is charged for a loss. `fin`, `rst`, `peer` and `quiet`
are what the client can and cannot see of its peer; `dirty`, `lost` and `uncounted` are history, the
truth the client's books are compared with.

**WriteCache.** A region is cut into slabs and a write sends any set of slabs in which cache and
picture differ, one at a time. `picture` changes up to `MaxChanges` times. What the machine will hold of a slab
(`WillHold`) is what the last write on the wire that covers it puts there, or what it holds now.

**Playlist.** The C64 is `up` (the scene whose setup ran and whose teardown has not), `irq` (its raster
handler: none, its own, or leaked by a teardown whose writes were lost) and `lost` (a restart whose
damage has not been put back). Scenes are indices; a setup plays, ends its scene, or raises.

**RestartWatch.** `mem` is what the eight bytes hold and who put it there, which the code cannot see:
the nonce, zeros of the machine's restart, of a reset of c64cast's own that was answered or not, of a tune, or another store.
Resets come from the run loop, from another thread at any point, and with their request failed, when no listener hears
of them (`ResetUnanswered`). The other thread's has three steps: the reset, its listener's look at `_suspended`, its
setting of `_rearm`. `crossed` and `handed` say whether one of those lay across the run loop's look at its
flags or across the handover to a launched program: what the two properties about own resets except. A
read carries what it saw and whether its number is above `_poller_mark`. The link marks are kept as what
the code asks of them: whether they moved. `Playlist` has the restart as something that is found or
not; this module has how.

**Performance.** A launch is a slot, who launched it (pad, gesture, look) and whether a look's effects
were applied to it. `Service` is one frame: reconcile, pad events, look events, the build, the armed
clip, the active clip. `down` (the pads held) and the queue belong to the performer, who may press,
let go and recall at any point.

**TeensyLink.** A command is a sequence of chunks with a reply each. `since`, `due` and `still` are the
clocks the code reads; `fw` is where the firmware waits and whose bytes put it there. The waits of the
client are constants, in the order that its comments claim for them (`Waits`): the resync's outlasts a
command of the firmware's, the bytes it is owed and its discard, on a link judged dead without the discard; the wait
for a span list's header outlasts the firmware's own, a read does not; a drain hears a command's reply; the
ceiling outlasts a job. An answer comes within `Reply`; a slow one within `Late`, which is less than the shortest
resync, or within `Job` for a span list's payload. A later one is read by the next command, as `docs/architecture/hardware-io.md:202` says, and the model leaves it out. `Late` is below the
shortest of the waits (0.6 s from the last byte as shipped), which is less than the code grants where a read has waited out its own 2 s: that
reply has until 0.2 s of silence behind them. A slow answer to a `ping` is left out too, since any byte is its line, and chatter is never
shaped like an ack. `CutBehindPayload` is whether an interrupt may come between a span payload and the line that notes its reply
as due: the run and the theorems have it `FALSE`, and with `TRUE` both properties fail, see below. The run has one choice of numbers in that order, a small one that keeps the waits apart.

**Ensemble.** A scene is `audio`, `quiet` or `span` (a `big_text` that conducts). `claimed` are the
scenes stamped `_audio_lock_held`. `begin` is three steps (open, clear resumes, set interrupts), since
followers look between them; `end` is one. A follower whose build or setup fails leaves the
broadcast early, and so does one that cannot be set up again after a restart; `failed` is history, the broadcast it left.
`up` is the scene whose setup ran through; `live` is what the machine has of it, which a setup that raises or loses its writes has
too, until the teardown. An outage in a setup takes the slot and leaves the machine sounding until the link answers and the
half set up scene is torn down: `OneSounds` names that overlap (`CutOff`), which
`docs/architecture/config.md:403` accepts, and no other. `big_text` is an overlay: it is set up behind the scene's own
outage loop, so an outage there is a frame's.
The line is a sequence without duplicates, from which `remove` takes the first occurrence.

## The runs

| run | instance | shows |
|---|---|---|
| `pollthread` | 2 callers, 3 workers, no bound on calls | `OneWorker`, `StopSticks`, `StartSticks`; `QueuedStartResolves` |
| `session` | 2 generations, 1 switch, spawns that raise, crashes; 335,047 states | `OneHolder`, `ResetBeforeBuild` (a recovery, successful or tried and failed, between a crash and the next build), `StopIsFinal`; that it implements `SessionLifecycle`; a promised stop takes effect (`StopTakesEffect`) and an ended show comes down (`EndedShowsComeDown`), but where no thread could be made for it |
| `socketdma` | 2 threads, 2 commands in flight, 2 faults | `FlushHonest`; that it implements `LossyLink` |
| `writecache` | 1 region of 3 slabs, 2 faults, 1 change of the picture | `CacheIsTrue`, `ConfirmedHasRun`; `PictureHeals` |
| `playlist` | lists of 1 and 2 scenes, looping and not, 2 requests of 6 kinds, 1 fault; 360,757 states | `NothingUnderneath`, `LeakIsOwed`, `RestoredBeforeSetup`; `StopEnds`, `JumpServed`, `NothingStartsEnds`, `ResumeWakes` |
| `ensemble` | 2 systems, one with nothing but audio scenes and a conductor with one, pauses, jumps, stops, 1 fault; 1.46 million states | `OneSounds`, `SlotIsUsed`, `LineIsServed`, `NobodyMissed` |
| `ensemble_live` | 3 systems: 2 in line, 1 conductor | `InterruptedJoin` (the broadcast on air, by all but a follower late from the one before), `WaitersServed` |
| `restart_watch` | a limit of 2 restarts, 1 fault, with and without a poller, another thread that resets, and resets that fail; 403,992 states | `NotItsOwn`, `OwnResetIsOwed`, `RestartsAreBounded`; `RestartIsMet` |
| `performance` | a gate, a toggle and a trigger, 1 build thread, 1 queued event; 748,479 states | `GateIsHeld`, `LookGoesWithItsClip`, `ScreenIsOwned`; `ArmIsServed`, `DoneClipLeaves` |
| `teensyrom` | 8 kinds of command, waits of 1 to 7 ticks, 4 faults, no interrupt behind a payload; 350,233 states | `NothingMisread`, `ReplyIsOwn`; `LinkRecovers` |
| `session_two_switches` | 2 switch workers at once | a disagreement, below |
| `performance_look` | looks and gestures may launch gate clips | a disagreement, below |

Each property of the passing runs has a mutant: a plausible bug in a definition of the model (a dropped
guard, a step in the wrong order) under which the property fails. Each model with proofs has one `TypeOK`
(that of `TeensyLink` is stated with its proofs). It is proved rather than run, as are `IsRunningTruthful`, `StartableIsFree`, `CloseReleases`,
`OpensSettled`, `LossIsCounted`, `StreamInStep` and `ProgramUntouched`: the time of the runs goes to what the proofs
do not cover or to what a mutant should be able to break.

**The bounds and why they are enough.** Three workers are one wedged, one abandoned before it, one
fresh: a fourth cannot be alive, as `OneWorker` and the queue of length one have it. Two generations are
one being torn down and one being built, and what is proved about them is proved for any number. Two
threads on the connection tell own losses from others'; two commands in flight tell "the last one" from
"one before it"; two faults let the second strike the recovery from the first. Three slabs make a push a
single write, a span or several writes, so that it can fail half-way; every region has a cache of its own.
Two scenes tell the next from the same; lists of one take the single-scene branches of the code. Two
requests race with each other, and with the one fault the machine may commit. Three systems are the
fewest in which one waits behind another while a third conducts. Two restarts are one that is counted and
one at the limit. One slot of each pad mode is enough for a clip over a clip over the list; one build
thread is one that a superseded clip can occupy; pad events are served one by one, so one in the queue is
the one that races. Four faults on the TeensyROM's link are a failed command, one that fails in its resynchronisation,
and two more in the drain behind that. Every bound is a constant with a name (`MaxGen`, `MaxSwitch`,
`MaxWire`, `MaxFaults`, `MaxChanges`, `MaxScenes`, `MaxAsks`, `MaxBuilds`, `MaxQueue`), in a guard.

`CHECK_DEADLOCK FALSE` stands where the system really may stop: in the configurations of `Playlist` and
`Performance`, and in `MCEnsemble.cfg`, whose loops end when the show is stopped. Everywhere else TLC looks for
deadlocks too.

**Fairness.** Weak fairness of a thread between two points of its own code, everywhere: Python's
scheduler starves nobody and each blocking call in those steps has a timeout. Beyond that:

* `PollThread`: the target returns, which `QueuedStartResolves` is about (strong, since it may call its own `stop()` and `start()` on the
  way, but not for ever), and an exiting worker gets a lock that is free again and again (strong).
* `SessionManager`: builds, teardowns, the settle window and the reaper's ticks come to an end. Clients owe
  nothing: no property needs an operator to do something.
* `WriteCache`: the playlist renders each region again and again, and every such push asks
  `check_for_loss`. The picture does not have to settle; it runs out of changes.
* `Playlist`: only the loop and the thread inside `request_jump`. That an outage ends (`LinkReturns`)
  and that a card times out (`CardsTimeOut`) are premises of the properties that need them. `StopEnds`
  needs neither.
* `Ensemble`: every system's thread. `WaitersServed` has the premise that tunes, cards and messages
  end and that a follower looks at its resume event within a frame (`ScenesEnd`).
* `RestartWatch`: the run loop and the poller go on and a link that is down comes back. Of the frames,
  the polls and the looks that are tried again and again some succeed (strong): a watch whose every read fails
  cannot find anything.
* `Performance`: the playlist thread serves its frames and builds end. A beat comes at which an armed clip may
  start (strong): the transport's clock runs. `ArmIsServed` and `DoneClipLeaves` have the premise that the
  performer's hands come off the grid.
* `TeensyLink`: time passes, the firmware acts, a command that has begun goes on, and others follow,
  since the render loop writes every frame.

## What is proved

Eight modules hold the proofs, each beside the model named in it; `RestartWatchProof` has those of
`PollThread` in a second part, which takes its variables from `PollThreadState` and its steps from an
instance. Each model has an inductive invariant `IInv` (`PollIInv` for `PollThread`), stated in named parts,
with a theorem that it is invariant (one case per action: `Invariance`, `PollInvariance`, `LinkIsKnown`) and
the theorems below, all for any value of the constants.

| module | invariant in one sentence | theorems |
|---|---|---|
| `RestartWatchProof`, second part | of `PollThread`: which lock each label holds and that nobody else is at such a label, where a live worker can be relative to `thread`, what a spawn in progress has written, and that the last caller's intention agrees with `stopSet` and `queued` outside a lock scope, unless `lost` says what took its start | `OneWorker`, `StopSticks`, `StartSticks`, `IsRunningTruthful` |
| `SessionManagerProof` | at most one starter or stopper is past its claim, a switch in flight keeps others from claiming, who can have the machine open at each label, what the cool-down guards, and that a machine whose reset is due has its marker | `OneHolder`, `StartableIsFree`, `CloseReleases`, `OpensSettled`, `ResetBeforeBuild`, `StopIsFinal`, `ImplementsLifecycle` |
| `SocketDMAProof` | who holds the lock, that every command on the wire has its thread among the writers, that an answer is the last thing on the wire, and that a dropped command is charged to its thread or known by a reset no later command can overtake | `FlushHonest`, `LossIsCounted`, `StreamInStep`, `ImplementsLossyLink` |
| `WriteCacheProof` | the mark is a past value of the count; while it stands, the routine has run or is on a link that owes its thread an answer; and, of the cache, that a region between pushes is what the machine will hold, that the one being pushed differs from it only in slabs still to send, and that a push under way carries an epoch no later than the books | `ConfirmedHasRun`, `CacheIsTrue` |
| `PlaylistProof` | what is up is what is current, only a scene hooks a handler, and from where a restore is owed every way leads through a teardown | `NothingUnderneath`, `RestoredBeforeSetup`, `LeakIsOwed` |
| `EnsembleProof` | at which steps of the run loop a system can have a claim on the slot, and at which it must, and where the machine can have a scene that is not set up; beside it, two more: where a system with a place in the line is, and where each follower is from the opening of a broadcast to its end | `OneSounds`, `SlotIsUsed`, `LineIsServed`, `NobodyMissed` |
| `RestartWatchProof` | where the zeros of a reset of its own can be seen (in memory, in a read in flight, in a sample), a re-arm is owed, the nonce is being written or the report crossed a look; what a report that crosses a handover can still write; restarts met are restarts counted | `NotItsOwn`, `OwnResetIsOwed`, `RestartsAreBounded`, `ProgramUntouched` |
| `TeensyLinkProof` | in a command, where the firmware can be at each label of the client and what the ticks since the last byte say of it; on a link out of step, that the firmware is back at its dispatcher within fewer ticks than the resync waits; under `CutBehindPayload = FALSE` | `NothingMisread`, `ReplyIsOwn` |
| `PerformanceProof` | a look's effects wait for the clip they came with, the session claims no screen it does not have behind the frame's reconcile, a clip on screen or kept has its pad down or its release queued | `ScreenIsOwned`, `LookGoesWithItsClip`, `GateIsHeld` |

None of these properties is inductive by itself. `OneHolder`, for instance, says nothing of a worker that is
about to open the machine, and `OneSounds` nothing of one that is about to set up without a claim: the
invariant has to say where each thread can be while another is where it is. `NothingUnderneath` needs that
nothing is up while nothing is current, because `drop_current` leaves the machine alone then.
`CloseReleases` needs a fact about time: once `closing` is set nothing can claim, so what has come to rest
stays at rest (`AtRest`). `StopIsFinal` needs that a switch still on its way to its claim knows of every
stop promised since it was asked for (`StopHeeded`).

`CacheIsTrue` speaks of the moments between pushes, and what breaks it happens inside one: `CInv` has that a
loss or a failed write at any point of a push leaves the cache's epoch behind for good (`EpochIsPast`), and
that a push under way has sent whatever it no longer lists as to send (`PushIsTrue`). `LineIsServed` needs
that nobody is in the line twice, since `remove` takes one occurrence. `NobodyMissed` needs that a conductor
stays on stage as long as its broadcast is on, that nobody finds a resume event left over from an earlier
one, and that whoever was slow to join the last broadcast still has this one's interrupt (`CastInv`).

`NothingMisread` and `ReplyIsOwn` rest on one operator, `Rests(f, q, n)`: firmware `f`, with the chunks `q`
still to take, is at its dispatcher within `n` ticks whatever it does (`RestsFirmware`), and a tick brings
it one nearer (`RestsTick`). A command that fails leaves `Rests` with what is outlasted by the wait it
records (`EndsWell`: the last byte sent, the discard owed, the reply due); the resync's wait, chosen later,
is longer by at least a tick (`LeftIs`) and hearing something only makes it longer; so at its end the
firmware rests, there is nothing left for it to say, and the next command finds both ends in step. Inside a
command the invariant is the list of places the firmware can be at while the client reads (`Sent`,
`Working`, `Replied`, `Lost`, `Ended`) with at most one reply in the inbox that is no chatter, the command's
own. That an abandoned job is waited for needs a clock of another kind: the payload's reply is due
`JobCeiling` after the payload went out, however long the client has read since.

`ImplementsLossyLink` is a refinement: a flush or a probe puts an `IDENTIFY` behind the commands, which the
abstract link does not have, so its wire is the client's without it (`Accepted`), and its dropped commands
are those the client has not counted yet. Each step of the client and of the network is then a step of the
link or none of its business. It holds of the invariant's states only: that an `IDENTIFY` is the last thing
on the wire is what makes its removal leave the order of the commands alone.

The assumptions are those named in the models (`ThreadsAssumption`, `EnsembleAssumption`, `Grid`, `Bounds`,
`Waits`, ...) and four about what the code is asked to do or meets. `TeensyLinkProof`'s theorems have `CutBehindPayload = FALSE`, with
the counterexample below, and `Waits` has `Reply < MinQuiet` and `Late < DeadQuiet`, the orders described above. `SessionManagerProof` has `OneSwitcher`,
`MaxSwitch <= 1`: with two switch workers alive `OneHolder` is false, see below. `LeakIsOwedHolds` has
`CardMayRaise = FALSE` and `GateIsHeldHolds` has `HandsFreeGates = FALSE`, with the counterexamples below.
The other theorems of `PlaylistProof` and `PerformanceProof` hold either way.

Only model-checked: liveness, which needs fairness and `ENABLED`. Every safety property of the passing runs
is a theorem. Definitions a proof has to see through are kept free of folds and of the recursive operators
of the library: what the wire will have made of the machine (`WillHold`), the order of the dirty slabs
(`Ascending`) and the contents behind a write (`Applied`) are stated by quantifiers. No module has a
recursive operator of its own.

## Where code and text disagree

Two runs end in a counterexample, on purpose.

* `session_two_switches` (`OneHolder`). `_run_switch` takes the lock a second time in its `finally` clause and clears
  `_switching` and `_abort_switch` there (`app/serve.py:739-742`), after the claim has released it. When the build
  fails at once and another `switch()` is accepted in between, that clause clears the flags of the
  later one, a `start()` is let through beside it, and two builds hold the machine. The module says
  "It owns exactly one Session at a time" (`app/serve.py:8-10`).
* `performance_look` (`GateIsHeld`). A next-clip or previous-clip gesture, or a recalled look, arms a gate
  slot without its pad. If that slot's clip is on screen already, held by its pad, the new launch plays over
  the old one and keeps it in `_return`. Letting the pad go takes the first branch of the release
  (`control/performance.py:436-441`), which ends the active clip and restores the one kept: the gate
  clip plays on with its pad up. The third branch is the one that forgets such a clip, and its comment says "Its pad
  is up now, so it must not come back when the clip playing over it ends" (`control/performance.py:452-453`).

Others were met while modelling, and no run is spent on them:

* `request_jump` writes its target under a lock and sets `skip_event` after it
  (`app/playlist.py:516-518`). If the scene ends by itself in between, the jump is taken and the skip ends
  the scene it led to, after a frame.
* `_run_start` reads `_cancel` after it released the lock and calls the public `stop()`
  (`app/serve.py:703-706`): a switch asked for after the operator's stop can be cancelled by that stop.
* `switch()`, `_stop_locked` and the reaper move the state before `Thread.start()` can raise
  (`app/serve.py:547-550`, `633-634`, `821-825`) and do not roll back, as `_begin_start_locked` does and says
  why (`612-614`).
* A resume accepted during the teardown of a pause is wiped by `resume_event.clear()`
  (`app/playlist.py:1622-1627`), which the comment there means to rule out. `ResumeWakes` is about the later part, which the code gets right.
* A reload cuts the scene on screen (`app/playlist.py:1487-1489`); `request_reload` says it waits (`366-368`).
* A card whose setup raises after its release lost its writes leaves a raster handler hooked and
  nothing owed (`app/playlist.py:832-833`; `docs/architecture/config.md:397`). The constant
  `CardMayRaise` admits it; the run has it `FALSE` and `LeakIsOwedHolds` assumes it, since nothing a card
  does in setup is known to raise other than through the link.
* A follower slow to set up comes up bound to a broadcast that is over (`app/playlist_support.py:582`), and if the
  next has begun by then it sits through that one without a picture (`app/orchestrator.py:138-139`).
* A system that is paused when a broadcast begins stays paused (`app/playlist.py:1639`); the comment at
  `app/playlist_support.py:561-563` says that a broadcast overrides a pause.
* `write_spans` notes when a job's reply is due in the statement behind the one that sends its payload
  (`hw/teensyrom_dma.py:879-881`), with the comment "a cut one starts no job". An interrupt between the two has cut
  nothing: the job runs and no reply is due. If the bus stalls it, the resync ends after `_RESYNC_QUIET_S` with the job still
  running, its ack is taken for the next token's (`ReplyIsOwn`), and when the firmware refuses that token the span header
  that follows is read as commands (`NothingMisread`), where the docstring says "in every case the firmware is back at its
  command dispatcher before the next command goes out" (`841-844`). `CutBehindPayload` admits it: with `TRUE` in
  `MCTeensyLink.cfg` TLC refutes either property within three faults. An interrupt behind any other whole chunk is in the run.
* `start()` takes a registered worker whose event is clear for a running one (`_pollthread.py:109-112`), though its target
  may have ended already: the call does nothing and nothing runs once the worker is gone. `tests/test_pollthread.py:169` wants
  a start over a live worker to leave it at that; that the worker may be past its loop is said nowhere. `StartSticks` excepts it by
  name (`dropped`).
* A recovery whose reset fails logs "safe-state recovery failed; starting anyway", clears the marker and builds
  (`app/serve.py:862-866`); a backend that cannot be opened or whose reset raises is logged further in (`240-248`).
  `docs/architecture/control.md:230` calls the reset "the one thing that has to happen". `ResetBeforeBuild` is about the attempt.
* `_run_start` publishes `RUNNING` before it starts the reaper (`app/serve.py:697-702`). If that thread cannot be made, nobody sees the
  show end, and a stop accepted during the build is forgotten, as the worker dies before it looks at `_cancel` (`705`).
  `EndedShowsComeDown` and `StopTakesEffect` except it (`unwatched`).
* `_after_reset` reads `_suspended` and sets `_rearm` without a lock (`app/playlist_support.py:721-723`). A reset of another thread
  reported across the handover to a launched program leaves a re-arm behind, and the nonce is written into that
  program's memory. `ProgramUntouched` excepts it (`handed = "crossed"`).
* A reset of c64cast's own whose request failed or whose answer was lost tells no listener (`hw/api.py:2201-2206`). If the
  machine did reset, the watch finds a restart. So it does where another thread's reset is not yet reported when the run
  loop looks at `_rearm`. `NotItsOwn` excepts both.

## What the models assume

* Network: the server closes only after it has run all that reached it; a command that crosses the
  close draws a reset within `FIN_SETTLE_S` (a LAN); a machine that loses power after its FIN is left out; one connection
  at a time; an explicit `connect()` starts a new account, as the only caller's use of it implies. A
  `KeyboardInterrupt` strikes inside `sendall`, not between it and the line that counts it.
* Sessions: one `close()` at a time; a teardown releases what its session opened, each step guarded.
* Write cache: no other thread resets the machine in the middle of a push.
* Playlist: one `request_jump` at a time; no clip grid; the restore after a restart lands; the
  card does not fade; an audio claim is granted at once (that is `Ensemble`'s subject).
* Ensemble: one conductor, since `big_text` conducts from the rightmost system only
  (`EnsembleAssumption`); `end` is one step; a follower's own outage is part of `Joins`, which takes as
  long as it takes.
* Restart watch: a machine that lost power is not back between a confirmed write and the statement
  after it that records the marks; the frame path's own calls are answered or fail, they do not hang.
* Clip grid: a full queue blocks whoever adds to it, where the code's drops its oldest event
  (`control/performance.py:51-54`), so the loss of a release is left out; a build's `Thread.start()` does not raise (`571-573`);
  the calls a surface defers to the playlist thread, MIDI feedback and the stall of a clip's
  setup on the link (`Playlist`'s subject) are left out; a swap comes up, ends at once, or fails.
* TeensyROM: the client does not stall between two of its blocking calls and bytes are delivered at
  once, as its waits presume; the firmware answers within `Reply`, `Late` or `Job`, and gives up and discards within the times the client's
  constants and comments state (`Waits`); no interrupt comes between a span payload and its deadline (`CutBehindPayload`); a failed job is followed by no discard; data read is not checked, so chatter
  inside it is taken as data, as in the code. `probe_spans`, `sample_watch` and the lock between callers
  are left out: commands hold it from start to end.

## What is not modelled

By component, with the reason:

* *Audio streamer, sampler playback, SID players* (`audio/audio.py`, `audio/sampler.py`, `sid/`). A writer paced by a clock
  ahead of a reader paced by another, with a servo on their distance. What is right about it is arithmetic
  on rates, addresses and jitter: a small instance with the real numbers is not small, and one
  with other numbers checks other code.
* *Video pipeline, scenes and overlays, generators, palettes, audio analysis, DAC calibration.* Numerical code. What a
  scene does to its playlist is in `Playlist`, `Ensemble` and `Performance`; what it draws is data.
* *Transport and tempo.* Arithmetic on time; `Performance` sees a beat come or not.
* *The control plane's HTTP, tokens and first-run gate; keyboard, MIDI and vision controls.* Translation of requests into
  the events that `Playlist`, `Ensemble` and `Performance` take from anybody at any time.
* *TeensyROM above its client* (`hw/teensyrom_api.py`): planning of writes and uploads, sequential over the exchanges that
  `TeensyLink` models.
* *Stores on disk.* Each file is replaced by a rename of a finished temporary one; what a crash leaves is the
  file system's promise, not this code's.
* *WLED output, video receiver.* Queues of bounded length at the edge of the program, fed and drained by `PollThread`s, which are
  modelled; the rest is framing.
* *Configuration, scene factory, doctor, wizard, command line.* Parsing, validation and printing in one thread, tested by
  example.
* *Hardware provisioning and probes.* Sequences of REST calls; what holds them together is the teardown, which is in
  `SessionManager`.
* *6502 routines, the browser console, docs and assets.* Other machines and other languages; the raster handlers are in
  `Playlist` as hooked or released.

These parts are most of the repository by lines: nine of the ten longest Python files are in the list above (the tenth,
`hw/api.py`, is in `WriteCache` in part), and none of them has protocol state of a kind that the modules do not take as
input already. The modules cover the parts in which
threads, failures and other machines meet, which is a small share of the text.

What a next step would be worth: `SocketDMA` under `WriteCache` in place of
`LossyLink`, for one connection and few faults; the bounded queue of the ASID player.
