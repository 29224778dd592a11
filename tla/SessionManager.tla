---------------------------- MODULE SessionManager ----------------------------
(***************************************************************************)
(* The session supervisor of c64cast/app/serve.py: the operations any      *)
(* thread may call (start, stop, switch, close), the worker threads they   *)
(* spawn (_run_start, _run_stop, _run_switch), the reaper's tick, and the  *)
(* run marker that outlives the process.                                   *)
(*                                                                         *)
(* One step per scope of the manager's lock, and one per hardware call     *)
(* made outside it.  A session is named by the generation that built it.   *)
(***************************************************************************)
EXTENDS Naturals, FiniteSets

CONSTANTS
  MaxGen,        \* generations one process lives to see
  MaxSwitch,     \* switch workers that may be alive at once
  SpawnMayFail,  \* Thread.start() may raise ("can't start new thread")
  MayCrash       \* the process may die and be started again

ASSUME MaxGenAssumption == MaxGen \in Nat
ASSUME MaxSwitchAssumption == MaxSwitch \in Nat
ASSUME FlagsAssumption == SpawnMayFail \in BOOLEAN /\ MayCrash \in BOOLEAN

VARIABLES
  state,        \* _state
  gen,          \* _generation
  session,      \* _session: the generation it was built for, or NoSession
  cancel,       \* _cancel.is_set()
  cooling,      \* the clock is still short of _hardware_free_at
  switching,    \* _switching
  abortSwitch,  \* _abort_switch
  closing,      \* _closing
  reaper,       \* _reaper: not started, ticking, or abandoned mid-tick by stop()
  unwatched,    \* history: the last show landed, and its reaper could not be started
  pc,           \* where each worker thread is
  outcome,      \* the state a worker's _settle() will land in
  doomed,       \* _settle()'s local `sess`
  closer,       \* where the thread that calls close() is
  awaited,      \* the workers its join() took on
  gaveUp,       \* history: its last wait or join ran past the deadline
  playing,      \* some playlist thread of the session is alive
  held,         \* generations whose build has the machine open
  resetting,    \* the safe-state recovery has it open
  marker,       \* the run marker exists on disk
  marked,       \* history: the marker was written for the session now up
  owed,         \* history: a marked session died, and its reset is due, or has
                \* been tried and failed (until a build opens all the same)
  stopWanted    \* history: the operator's last accepted request was a stop

memory == <<state, gen, session, cancel, cooling>>
flags == <<switching, abortSwitch, closing>>
watch == <<reaper, unwatched>>
locals == <<outcome, doomed>>
close == <<closer, awaited, gaveUp>>
machine == <<playing, held, resetting>>
disk == <<marker, marked, owed>>
vars == <<memory, flags, watch, pc, locals, close, machine, disk, stopWanted>>

Gens == 1..MaxGen
Switches == 1..MaxSwitch
NoSession == 0
Startable == {"idle", "error"}
Starter(g) == <<"start", g>>
Stopper(g) == <<"stop", g>>
Switcher(i) == <<"switch", i>>
Workers == ({"start", "stop"} \X Gens) \cup ({"switch"} \X Switches)

Goto(w, label) == pc' = [pc EXCEPT ![w] = label]

\* A step of w that moves it on and changes nothing else.
Moves(w, from, to) ==
  /\ pc[w] = from
  /\ Goto(w, to)
  /\ UNCHANGED <<memory, flags, watch, locals, close, machine, disk, stopWanted>>

Init ==
  /\ state = "idle" /\ gen = 0 /\ session = NoSession /\ cancel = FALSE /\ cooling = FALSE
  /\ switching = FALSE /\ abortSwitch = FALSE /\ closing = FALSE
  /\ reaper = "off" /\ unwatched = FALSE
  /\ pc = [w \in Workers |-> "none"]
  /\ outcome = [w \in Workers |-> "idle"]
  /\ doomed = [w \in Workers |-> NoSession]
  /\ closer = "none" /\ awaited = {} /\ gaveUp = FALSE
  /\ playing = FALSE /\ held = {} /\ resetting = FALSE
  /\ marker = FALSE /\ marked = FALSE /\ owed = "no"
  /\ stopWanted = FALSE

-----------------------------------------------------------------------------
(* The two halves every caller shares: _begin_start_locked, _stop_locked.  *)

\* Claims the next generation and spawns its worker; a raising spawn gives the
\* number back and leaves the supervisor startable.
BeginStart(pcs) ==
  /\ session' = NoSession
  /\ cancel' = FALSE
  /\ \/ /\ gen < MaxGen
        /\ gen' = gen + 1
        /\ state' = "starting"
        /\ pc' = [pcs EXCEPT ![Starter(gen + 1)] = "await"]
     \/ /\ SpawnMayFail
        /\ state' = "error"
        /\ pc' = pcs
        /\ UNCHANGED gen

\* Mutant: a build is handed to a stop worker like a running session.
StopInterruptsBuild(pcs) ==
  /\ state' = IF state \in {"starting", "running"} THEN "stopping" ELSE state
  /\ pc' = IF state \in {"starting", "running"}
           THEN [pcs EXCEPT ![Stopper(gen)] = "join"] ELSE pcs
  /\ UNCHANGED cancel

\* A build is only flagged; a running session is handed to a stop worker.
StopLocked(pcs) ==
  \/ /\ state = "starting"
     /\ cancel' = TRUE
     /\ pc' = pcs
     /\ UNCHANGED state
  \/ /\ state = "running"
     /\ state' = "stopping"
     /\ pc' = [pcs EXCEPT ![Stopper(gen)] = "join"]
     /\ UNCHANGED cancel
  \/ /\ state \notin {"starting", "running"}
     /\ pc' = pcs
     /\ UNCHANGED <<state, cancel>>

\* The stop worker's Thread.start() raises out of the caller, in "stopping".
StopRaises(pcs) ==
  /\ SpawnMayFail
  /\ state = "running"
  /\ state' = "stopping"
  /\ pc' = pcs
  /\ UNCHANGED cancel

\* Mutant: stop() consults the state only, and a switch in flight is not told.
FlagOnlyState == UNCHANGED abortSwitch

FlagSwitch == abortSwitch' = (abortSwitch \/ switching)

-----------------------------------------------------------------------------
(* What any client thread may call.                                        *)

\* Mutant: a start during a switch is let through.
StartDuringSwitch ==
  /\ ~closing
  /\ state \in Startable
  /\ BeginStart(pc)
  /\ stopWanted' = FALSE
  /\ UNCHANGED <<cooling, flags, watch, locals, close, machine, disk>>

Start ==
  /\ ~closing
  /\ ~switching
  /\ state \in Startable
  /\ BeginStart(pc)
  /\ stopWanted' = FALSE
  /\ UNCHANGED <<cooling, flags, watch, locals, close, machine, disk>>

\* A stop that finds something to stop is answered with a promise to do so.
Stop ==
  /\ FlagSwitch
  /\ StopLocked(pc) \/ StopRaises(pc)
  /\ stopWanted' = (stopWanted \/ switching \/ state \in {"starting", "running"})
  /\ UNCHANGED <<gen, session, cooling, switching, closing, watch, locals, close,
                 machine, disk>>

\* The flag is raised before the worker's Thread.start() can raise.
Switch(i) ==
  /\ ~closing
  /\ ~switching
  /\ state \in Startable \cup {"running"}
  /\ pc[Switcher(i)] = "none"
  /\ switching' = TRUE
  /\ abortSwitch' = FALSE
  /\ Goto(Switcher(i), "stop") \/ (SpawnMayFail /\ UNCHANGED pc)
  /\ stopWanted' = FALSE
  /\ UNCHANGED <<memory, closing, watch, locals, close, machine, disk>>

-----------------------------------------------------------------------------
(* _run_switch: stop, wait for the teardown, claim unless told not to.     *)

SwitchStops(i) ==
  /\ pc[Switcher(i)] = "stop"
  /\ \/ StopLocked([pc EXCEPT ![Switcher(i)] = "wait"])
     \/ StopRaises([pc EXCEPT ![Switcher(i)] = "finally"])
  /\ UNCHANGED <<gen, session, cooling, flags, watch, locals, close, machine, disk,
                 stopWanted>>

\* wait_for(STARTABLE) returns, in time or not; the lock is not held after it.
SwitchWaits(i) ==
  Moves(Switcher(i), "wait", IF state \in Startable THEN "claim" ELSE "finally")

SwitchAbandons(i) ==
  /\ abortSwitch \/ closing
  /\ Moves(Switcher(i), "claim", "finally")

SwitchClaims(i) ==
  /\ pc[Switcher(i)] = "claim"
  /\ ~abortSwitch /\ ~closing
  /\ switching' = FALSE
  /\ BeginStart([pc EXCEPT ![Switcher(i)] = "finally"])
  /\ UNCHANGED <<cooling, abortSwitch, closing, watch, locals, close, machine, disk,
                 stopWanted>>

\* The finally clause takes the lock again and clears both flags.
SwitchEnds(i) ==
  /\ pc[Switcher(i)] = "finally"
  /\ switching' = FALSE
  /\ abortSwitch' = FALSE
  /\ Goto(Switcher(i), "none")
  /\ UNCHANGED <<memory, closing, watch, locals, close, machine, disk, stopWanted>>

-----------------------------------------------------------------------------
(* _run_start: settle, recover, build, land; or give up and tear down.     *)

\* _await_hardware: through once the window has passed, polling the flag.
Awaits(g) ==
  \/ ~cooling /\ Moves(Starter(g), "await", "recover")
  \/ ~cooling /\ Moves(Starter(g), "awaitAgain", "build")
  \/ cooling /\ cancel /\ (\/ Moves(Starter(g), "await", "quit")
                           \/ Moves(Starter(g), "awaitAgain", "quit"))

\* A marker means the last run died: reset the machine before anything else.
RecoverOpens(g) ==
  /\ pc[Starter(g)] = "recover"
  /\ resetting' = marker
  /\ Goto(Starter(g), IF marker THEN "reset" ELSE "build")
  /\ UNCHANGED <<memory, flags, watch, locals, close, playing, held, disk, stopWanted>>

\* The reset may fail: that is logged, and the build goes ahead on a machine in
\* an unknown state.  Either way the backend is closed again.
RecoverCloses(g) ==
  /\ pc[Starter(g)] = "reset"
  /\ resetting' = FALSE
  /\ owed' \in {"no", IF owed = "no" THEN "no" ELSE "failed"}
  /\ Goto(Starter(g), "unmark")
  /\ UNCHANGED <<memory, flags, watch, locals, close, playing, held, marker, marked,
                 stopWanted>>

\* unlink() may fail: the marker then stays.  The recovery armed a new window.
RecoverEnds(g) ==
  /\ pc[Starter(g)] = "unmark"
  /\ marker' \in {FALSE, marker}
  /\ cooling' = TRUE
  /\ Goto(Starter(g), "awaitAgain")
  /\ UNCHANGED <<state, gen, session, cancel, flags, watch, locals, close, machine,
                 marked, owed, stopWanted>>

\* What a failed reset left behind is this build's to live with.
BuildOpens(g) ==
  /\ pc[Starter(g)] = "build"
  /\ held' = held \cup {g}
  /\ owed' = IF owed = "failed" THEN "no" ELSE owed
  /\ Goto(Starter(g), "opened")
  /\ UNCHANGED <<memory, flags, watch, locals, close, playing, resetting, marker, marked,
                 stopWanted>>

\* build_session() unwinds what it opened when it raises.
BuildUnwinds(g) ==
  /\ pc[Starter(g)] = "opened"
  /\ held' = held \ {g}
  /\ Goto(Starter(g), "quit")
  /\ outcome' = [outcome EXCEPT ![Starter(g)] = "error"]
  /\ UNCHANGED <<memory, flags, watch, doomed, close, playing, resetting, disk,
                 stopWanted>>

\* From here on a failure leaves the machine to this supervisor's teardown.
BuildPublishes(g) ==
  /\ pc[Starter(g)] = "opened"
  /\ session' = g
  /\ Goto(Starter(g), "published")
  /\ UNCHANGED <<state, gen, cancel, cooling, flags, watch, locals, close, machine,
                 disk, stopWanted>>

\* start_services(), or a playlist's Thread.start(), raises.
ServicesRaise(g) ==
  /\ pc[Starter(g)] = "published"
  /\ Goto(Starter(g), "quit")
  /\ outcome' = [outcome EXCEPT ![Starter(g)] = "error"]
  /\ UNCHANGED <<memory, flags, watch, doomed, close, machine, disk, stopWanted>>

ServicesUp(g) ==
  /\ pc[Starter(g)] = "published"
  /\ playing' = TRUE
  /\ Goto(Starter(g), "land")
  /\ UNCHANGED <<memory, flags, watch, locals, close, held, resetting, disk, stopWanted>>

\* Mutant: the reaper is never started.
LandsUnwatched(g) ==
  /\ pc[Starter(g)] = "land"
  /\ session' = g
  /\ marker' \in {TRUE, marker}
  /\ marked' = marker'
  /\ state' = "running"
  /\ unwatched' = FALSE
  /\ Goto(Starter(g), "check")
  /\ UNCHANGED <<gen, cancel, cooling, flags, reaper, locals, close, machine, owed,
                 stopWanted>>

\* Running, with the marker on disk if it could be written; both are published
\* before the reaper is started, which close() being under way forbids.
Publishes(g, label) ==
  /\ pc[Starter(g)] = "land"
  /\ session' = g
  /\ marker' \in {TRUE, marker}
  /\ marked' = marker'
  /\ state' = "running"
  /\ Goto(Starter(g), label)
  /\ UNCHANGED <<gen, cancel, cooling, flags, locals, close, machine, owed, stopWanted>>

Lands(g) ==
  /\ Publishes(g, "check")
  /\ reaper' = IF closing THEN reaper ELSE "on"
  /\ unwatched' = FALSE

\* The reaper's Thread.start() raises out of the worker: the show runs on with
\* nobody to notice its end, and a stop accepted during the build is forgotten,
\* since the worker does not get to that check.
LandsRaises(g) ==
  /\ SpawnMayFail /\ ~closing /\ reaper = "off"
  /\ Publishes(g, "done")
  /\ unwatched' = TRUE
  /\ UNCHANGED reaper

\* Mutant: a stop that arrived during the build is forgotten.
SkipCancel(g) == Moves(Starter(g), "check", "done")

\* The flag is read after the lock has been released.
ChecksCancel(g) == Moves(Starter(g), "check", IF cancel THEN "stop" ELSE "done")

\* stop() on behalf of the caller whose stop arrived mid-build.
StopsItself(g) ==
  LET exited == [pc EXCEPT ![Starter(g)] = "done"] IN
  /\ pc[Starter(g)] = "stop"
  /\ FlagSwitch
  /\ StopLocked(exited) \/ StopRaises(exited)
  /\ UNCHANGED <<gen, session, cooling, switching, closing, watch, locals, close,
                 machine, disk, stopWanted>>

\* _enter_stopping, on the way out of a build that did not come up.
Quits(g) ==
  /\ pc[Starter(g)] = "quit"
  /\ state' = "stopping"
  /\ Goto(Starter(g), "read")
  /\ UNCHANGED <<gen, session, cancel, cooling, flags, watch, locals, close, machine,
                 disk, stopWanted>>

-----------------------------------------------------------------------------
(* _run_stop, and the _settle() both kinds of worker end in.               *)

\* join_playlists: every thread is asked to stop, and joined or abandoned.
Joins(g) ==
  /\ pc[Stopper(g)] = "join"
  /\ playing' = FALSE
  /\ Goto(Stopper(g), "read")
  /\ UNCHANGED <<memory, flags, watch, locals, close, held, resetting, disk, stopWanted>>

ReadsSession(w) ==
  /\ pc[w] = "read"
  /\ doomed' = [doomed EXCEPT ![w] = session]
  /\ Goto(w, "teardown")
  /\ UNCHANGED <<memory, flags, watch, outcome, close, machine, disk, stopWanted>>

\* Mutant: the marker goes before the machine is back in a known state.
UnmarkThenTeardown(w) ==
  /\ pc[w] = "teardown"
  /\ held' = held \ {doomed[w]}
  /\ playing' = FALSE
  /\ marker' = FALSE
  /\ Goto(w, "settle")
  /\ UNCHANGED <<memory, flags, watch, locals, close, resetting, marked, owed, stopWanted>>

\* The teardown of c64cast/app/session.py releases what the session opened,
\* each step guarded; it raises nothing that stops the rest.
TearsDown(w) ==
  /\ pc[w] = "teardown"
  /\ held' = held \ {doomed[w]}
  /\ playing' = FALSE
  /\ Goto(w, "settle")
  /\ UNCHANGED <<memory, flags, watch, locals, close, resetting, disk, stopWanted>>

Settles(w) ==
  /\ pc[w] = "settle"
  /\ session' = NoSession
  /\ marker' \in {FALSE, marker}
  /\ marked' = FALSE
  /\ cooling' = TRUE
  /\ state' = outcome[w]
  /\ Goto(w, "done")
  /\ UNCHANGED <<gen, cancel, flags, watch, locals, close, machine, owed, stopWanted>>

CooldownPasses ==
  /\ cooling
  /\ cooling' = FALSE
  /\ UNCHANGED <<state, gen, session, cancel, flags, watch, pc, locals, close, machine,
                 disk, stopWanted>>

-----------------------------------------------------------------------------
(* The playlists may end by themselves; the reaper's tick notices.         *)

PlaylistsEnd ==
  /\ playing
  /\ playing' = FALSE
  /\ UNCHANGED <<memory, flags, watch, pc, locals, close, held, resetting, disk,
                 stopWanted>>

\* A tick that stop() gave up on still runs, once, and one that raises is the
\* reaper's last (PollThread._call_target).
ReapTick ==
  /\ reaper # "off"
  /\ state = "running" /\ session # NoSession /\ ~playing
  /\ \/ StopLocked(pc) /\ reaper' = IF reaper = "late" THEN "off" ELSE reaper
     \/ StopRaises(pc) /\ reaper' = "off"
  /\ UNCHANGED <<gen, session, cooling, flags, unwatched, locals, close, machine, disk,
                 stopWanted>>

-----------------------------------------------------------------------------
(* close(): terminal.  Every wait of it is bounded.                        *)

Close ==
  /\ closer \in {"none", "done"}
  /\ closing' = TRUE
  /\ closer' = "stop"
  /\ gaveUp' = FALSE
  /\ UNCHANGED <<memory, switching, abortSwitch, watch, pc, locals, awaited, machine,
                 disk, stopWanted>>

CloseStops(here, there) ==
  /\ closer = here
  /\ FlagSwitch
  /\ \/ StopLocked(pc) /\ closer' = there
     \/ StopRaises(pc) /\ closer' = "raised"
  /\ UNCHANGED <<gen, session, cooling, switching, closing, watch, locals, awaited,
                 gaveUp, machine, disk, stopWanted>>

\* wait_for(STARTABLE), whose result is not looked at.
CloseWaits ==
  /\ closer = "wait"
  /\ closer' = "reaper"
  /\ UNCHANGED <<memory, flags, watch, pc, locals, awaited, gaveUp, machine, disk,
                 stopWanted>>

\* _Workers.join takes a copy of the list: a worker spawned later is not in it.
Alive == {w \in Workers : pc[w] \notin {"none", "done"}}

\* A tick blocked on the lock outlives the reaper's bounded join.
CloseReaper ==
  /\ closer = "reaper"
  /\ closer' = "join"
  /\ awaited' = Alive
  /\ reaper' \in (IF reaper = "on" THEN {"off", "late"} ELSE {reaper})
  /\ UNCHANGED <<memory, flags, unwatched, pc, locals, gaveUp, machine, disk, stopWanted>>

CloseJoins(here, there) ==
  /\ closer = here
  /\ closer' = there
  /\ gaveUp' = (gaveUp \/ awaited \cap Alive # {})
  /\ awaited' = {}
  /\ UNCHANGED <<memory, flags, watch, pc, locals, machine, disk, stopWanted>>

CloseVerifies ==
  /\ closer = "verify"
  /\ closer' = IF state \in Startable THEN "done" ELSE "stopAgain"
  /\ UNCHANGED <<memory, flags, watch, pc, locals, awaited, gaveUp, machine, disk,
                 stopWanted>>

CloseWaitsAgain ==
  /\ closer = "waitAgain"
  /\ closer' = "joinAgain"
  /\ awaited' = Alive
  /\ gaveUp' = (state \notin Startable)
  /\ UNCHANGED <<memory, flags, watch, pc, locals, machine, disk, stopWanted>>

Closer ==
  \/ CloseStops("stop", "wait") \/ CloseWaits \/ CloseReaper
  \/ CloseJoins("join", "verify") \/ CloseVerifies
  \/ CloseStops("stopAgain", "waitAgain") \/ CloseWaitsAgain
  \/ CloseJoins("joinAgain", "done")

-----------------------------------------------------------------------------
(* The process dies: its sockets close, the marker and the machine stay.   *)

Crash ==
  /\ MayCrash
  /\ state' = "idle" /\ gen' = 0 /\ session' = NoSession /\ cancel' = FALSE /\ cooling' = FALSE
  /\ switching' = FALSE /\ abortSwitch' = FALSE /\ closing' = FALSE
  /\ reaper' = "off" /\ unwatched' = FALSE
  /\ pc' = [w \in Workers |-> "none"]
  /\ outcome' = [w \in Workers |-> "idle"]
  /\ doomed' = [w \in Workers |-> NoSession]
  /\ closer' = "none" /\ awaited' = {} /\ gaveUp' = FALSE
  /\ playing' = FALSE /\ held' = {} /\ resetting' = FALSE
  /\ owed' = (IF marked THEN "due" ELSE owed) /\ marked' = FALSE
  /\ stopWanted' = FALSE
  /\ UNCHANGED marker

Starters(g) ==
  \/ Awaits(g) \/ RecoverOpens(g) \/ RecoverCloses(g) \/ RecoverEnds(g)
  \/ BuildOpens(g) \/ BuildUnwinds(g) \/ BuildPublishes(g)
  \/ ServicesRaise(g) \/ ServicesUp(g) \/ Lands(g) \/ LandsRaises(g)
  \/ ChecksCancel(g) \/ StopsItself(g) \/ Quits(g)

Settlers(w) == ReadsSession(w) \/ TearsDown(w) \/ Settles(w)

Switchers(i) ==
  SwitchStops(i) \/ SwitchWaits(i) \/ SwitchAbandons(i) \/ SwitchClaims(i) \/ SwitchEnds(i)

Next ==
  \/ Start \/ Stop \/ Close \/ Closer \/ ReapTick
  \/ \E i \in Switches : Switch(i) \/ Switchers(i)
  \/ \E g \in Gens : Starters(g) \/ Joins(g)
  \/ \E w \in Workers : Settlers(w)
  \/ CooldownPasses \/ PlaylistsEnd \/ Crash

Spec == Init /\ [][Next]_vars

-----------------------------------------------------------------------------
(* Properties.                                                             *)

WorkerPC == {"none", "await", "recover", "reset", "unmark", "awaitAgain", "build",
             "opened", "published", "land", "check", "stop", "quit", "join", "read",
             "teardown", "settle", "done", "wait", "claim", "finally"}
CloserPC == {"none", "stop", "wait", "reaper", "join", "verify", "stopAgain",
             "waitAgain", "joinAgain", "done", "raised"}

\* Every variable stays in the range the code gives it.
TypeOK ==
  /\ state \in {"idle", "starting", "running", "stopping", "error"}
  /\ gen \in 0..MaxGen
  /\ session \in Gens \cup {NoSession}
  /\ cancel \in BOOLEAN /\ cooling \in BOOLEAN
  /\ switching \in BOOLEAN /\ abortSwitch \in BOOLEAN /\ closing \in BOOLEAN
  /\ reaper \in {"off", "on", "late"}
  /\ pc \in [Workers -> WorkerPC]
  /\ outcome \in [Workers -> Startable]
  /\ doomed \in [Workers -> Gens \cup {NoSession}]
  /\ closer \in CloserPC /\ awaited \subseteq Workers /\ gaveUp \in BOOLEAN
  /\ playing \in BOOLEAN /\ held \subseteq Gens /\ resetting \in BOOLEAN
  /\ marker \in BOOLEAN /\ marked \in BOOLEAN
  /\ owed \in {"no", "due", "failed"} /\ unwatched \in BOOLEAN
  /\ stopWanted \in BOOLEAN

\* "It owns exactly one Session at a time": no two builds, nor a build and the
\* recovery, ever have the machine open together, whatever the order of calls.
OneHolder ==
  /\ \A g, h \in held : g = h
  /\ resetting => held = {}

\* "No hardware is left held": once the supervisor can be started again, no
\* build or recovery has the machine and no session is left unreleased.
StartableIsFree == state \in Startable => held = {} /\ ~resetting /\ session = NoSession

\* When close() returns without its last wait and join having run past their
\* deadlines, the machine is free and nothing is on its way up or down.
CloseReleases ==
  closer = "done" /\ ~gaveUp => held = {} /\ ~resetting /\ state \in Startable

\* The settle window: the machine is never opened, by a build or by the
\* recovery, before the window after the last close of it has passed.
OpensSettled ==
  [][~(held' \subseteq held) \/ (resetting' /\ ~resetting) => ~cooling]_vars

\* A session that died with its marker on disk is followed by its recovery before
\* any build opens the machine, whatever crash or start comes in between: by a
\* reset, or by one that was tried, failed and was logged ("safe-state recovery
\* failed; starting anyway"), never by none.
ResetBeforeBuild == [][~(held' \subseteq held) => owed # "due"]_vars

\* "Press stop, get 202, machine starts a show" is not in the contract: a
\* promised stop is never followed by a claim nobody asked for after it.
StopIsFinal == [][gen' > gen => ~stopWanted']_vars

\* The state diagram of the module docstring, with the machine in it.
Lifecycle == INSTANCE SessionLifecycle
  WITH phase <- state, generation <- gen,
       holders <- held \cup (IF resetting THEN {gen} ELSE {})

\* The supervisor implements that diagram.
ImplementsLifecycle == Lifecycle!Spec

-----------------------------------------------------------------------------
(* Worker threads and the reaper run, builds and teardowns end (each       *)
(* blocking call in them has a timeout), and the settle window passes.     *)
(* Clients owe nothing.                                                    *)

Fairness ==
  /\ \A g \in Gens : WF_vars(Starters(g)) /\ WF_vars(Joins(g))
  /\ \A w \in Workers : WF_vars(Settlers(w))
  /\ \A i \in Switches : WF_vars(Switchers(i))
  /\ WF_vars(CooldownPasses)
  /\ WF_vars(ReapTick)
  /\ WF_vars(Closer)

FairSpec == Spec /\ Fairness

\* A Thread.start() that raised left a switch, or a teardown, with no worker to
\* end it, or a show with no reaper and its start worker dead before its last
\* check: only a start undoes itself then (serve.py:611-620).
Stranded ==
  \/ switching /\ \A i \in Switches : pc[Switcher(i)] \in {"none", "done"}
  \/ state = "stopping" /\ \A w \in Workers : pc[w] \in {"none", "done"}
  \/ state = "running" /\ unwatched

\* A promised stop brings the machine down, whatever crashes or fails, unless
\* the operator starts or switches after it, or a worker could not be spawned.
StopTakesEffect == stopWanted ~> ~stopWanted \/ (state \in Startable /\ ~switching) \/ Stranded

\* A show whose playlists have all ended is taken down, and nobody has to ask,
\* provided that its reaper's thread could be made when it landed.
EndedShowsComeDown == state = "running" /\ ~playing ~> state # "running" \/ unwatched

=============================================================================
