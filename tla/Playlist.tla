------------------------------ MODULE Playlist ------------------------------
(***************************************************************************)
(* The run loop of one system (app/playlist.py): one thread walks a list   *)
(* of scenes, showing an "UP NEXT" card before each, while other threads   *)
(* (keyboard poller, control plane, MIDI reader, SIGHUP) set events it     *)
(* reads between frames.  `pc` is the place the loop has reached; a step   *)
(* of it runs up to the next point at which a request, the link or the     *)
(* machine can make a difference.                                          *)
(*                                                                         *)
(* The C64 is abstracted to what a scene leaves on it: `up`, the scene     *)
(* whose setup ran and whose teardown has not; `irq`, its raster handler,  *)
(* "leaked" once a teardown lost the writes that unhook it; and `lost`, a  *)
(* restart or crash whose damage has not been put back.                    *)
(*                                                                         *)
(* No ensemble and no clip grid: an audio claim is granted at once and     *)
(* PerformanceSession.service never owns the program.                      *)
(***************************************************************************)
EXTENDS Integers, FiniteSets

CONSTANTS
  MaxScenes,    \* longest scene list
  Outcomes,     \* what a listed scene's setup may come to
  CardMayRaise, \* whether the setup of an "UP NEXT" card may raise
  Loops,        \* the values of [playlist].loop
  LossyTries,   \* SETUP_LOSSY_TRIES
  Requests,     \* the requests other threads make
  MaxAsks,      \* bound on the number of requests
  MaxFaults     \* bound on losses of writes, outages and machine restarts

ASSUME PlaylistAssumption ==
  /\ MaxScenes \in Nat \ {0} /\ LossyTries \in Nat \ {0}
  /\ MaxAsks \in Nat /\ MaxFaults \in Nat
  /\ Loops \subseteq BOOLEAN /\ CardMayRaise \in BOOLEAN
  /\ Outcomes \subseteq {"plays", "ends", "raises"}
  /\ Requests \subseteq {"skip", "jump", "pause", "resume", "reload", "stop"}

VARIABLES
  pc,           \* where the run loop is
  loop,         \* self.loop
  n, index,     \* length of self.scenes, self.index
  current,      \* self.current: "none", "card" or "scene"
  done, spent,  \* current.is_done, _content_done
  failed,       \* _failed_setup is current
  again,        \* this setup follows a machine restart under the scene
  tries,        \* lossy_tries
  unstartable,  \* _unstartable
  owed,         \* _irq_release_owed
  restoreOwed,  \* _restore_after_teardown
  swap,         \* new_scenes of an _apply_reload under way (its length)
  stop, pauseEv, resumeEv, skipEv,
  pending,      \* _pending_scenes (its length, 0 for None)
  jump, hard,   \* _jump_target, _jump_skip_interstitial
  asking,       \* a request_jump has set its target and not yet skip_event
  up, irq, lost, link, \* the machine and the link to it
  asks, faults

loopVars == <<loop, n, index, current, done, spent, failed, again, tries, unstartable, swap>>
machine  == <<up, irq, owed, restoreOwed, lost, faults>>
events   == <<stop, pauseEv, resumeEv, skipEv, pending, jump, hard, asking, asks>>
vars     == <<pc, loopVars, machine, events, link>>

NoJump == -1
Single == n = 1                                       \* self.single_scene

Init ==
  /\ pc = "top" /\ loop \in Loops /\ n \in 1..MaxScenes /\ index = 0
  /\ current = "none" /\ done = FALSE /\ spent = FALSE /\ failed = FALSE
  /\ again = FALSE /\ tries = 0 /\ unstartable = {} /\ swap = 0
  /\ owed = FALSE /\ restoreOwed = FALSE
  /\ stop = FALSE /\ pauseEv = FALSE /\ resumeEv = FALSE /\ skipEv = FALSE
  /\ pending = 0 /\ jump = NoJump /\ hard = FALSE /\ asking = FALSE
  /\ up = "none" /\ irq = "clean" /\ lost = FALSE /\ link = "up"
  /\ asks = 0 /\ faults = 0

-----------------------------------------------------------------------------
(* Requests of other threads. *)

Ask(kind) == kind \in Requests /\ asks < MaxAsks /\ asks' = asks + 1

RequestSkip ==
  /\ Ask("skip")
  /\ skipEv' = TRUE
  /\ UNCHANGED <<pc, loopVars, machine, link, stop, pauseEv, resumeEv, pending, jump, hard, asking>>

(* request_jump checks the bounds and writes the target under _jump_lock,   *)
(* and sets skip_event after it let go of the lock.  One request_jump at a  *)
(* time is modelled.                                                        *)
RequestJump ==
  /\ Ask("jump") /\ ~asking /\ ~Single
  /\ \E target \in 0..(n - 1) : jump' = target
  /\ hard' \in BOOLEAN /\ asking' = TRUE
  /\ UNCHANGED <<pc, loopVars, machine, link, stop, pauseEv, resumeEv, skipEv, pending>>

\* Mutant: the jump waits for the scene to end by itself.
JumpWithoutSkip ==
  /\ asking /\ asking' = FALSE
  /\ UNCHANGED <<pc, loopVars, machine, link, stop, pauseEv, resumeEv, skipEv, pending, jump, hard, asks>>

JumpSkips ==
  /\ asking /\ asking' = FALSE /\ skipEv' = TRUE
  /\ UNCHANGED <<pc, loopVars, machine, link, stop, pauseEv, resumeEv, pending, jump, hard, asks>>

RequestPause ==
  /\ Ask("pause") /\ pauseEv' = TRUE
  /\ UNCHANGED <<pc, loopVars, machine, link, stop, resumeEv, skipEv, pending, jump, hard, asking>>

(* POST /resume and the held Commodore key act only on a paused system. *)
RequestResume ==
  /\ Ask("resume") /\ pauseEv /\ resumeEv' = TRUE
  /\ UNCHANGED <<pc, loopVars, machine, link, stop, pauseEv, skipEv, pending, jump, hard, asking>>

RequestReload ==
  /\ Ask("reload") /\ pending' \in 1..MaxScenes
  /\ UNCHANGED <<pc, loopVars, machine, link, stop, pauseEv, resumeEv, skipEv, jump, hard, asking>>

RequestStop ==
  /\ Ask("stop") /\ stop' = TRUE
  /\ UNCHANGED <<pc, loopVars, machine, link, pauseEv, resumeEv, skipEv, pending, jump, hard, asking>>

-----------------------------------------------------------------------------
(* The machine and the link. *)

LinkFails ==
  /\ link = "up" /\ faults < MaxFaults
  /\ link' = "down" /\ faults' = faults + 1
  /\ UNCHANGED <<pc, loopVars, events, up, irq, owed, restoreOwed, lost>>

LinkHeals ==
  /\ link = "down" /\ link' = "up"
  /\ UNCHANGED <<pc, loopVars, events, machine>>

(* A power blip or a reset: whatever was hooked is gone with the rest. *)
MachineRestarts ==
  /\ faults < MaxFaults /\ faults' = faults + 1
  /\ lost' = TRUE /\ irq' = "clean"
  /\ UNCHANGED <<pc, loopVars, events, up, owed, restoreOwed, link>>

(* Writes are lost while the link is down, and by chance while it is up. *)
Loses == IF link = "down" THEN {TRUE} ELSE IF faults < MaxFaults THEN BOOLEAN ELSE {FALSE}
Charge(loses) == faults' = IF loses /\ link = "up" THEN faults + 1 ELSE faults

(* What a teardown leaves hooked, when it loses writes. *)
Unhooked(loses) == IF irq = "own" THEN (IF loses THEN "leaked" ELSE "clean") ELSE irq

(* safe_teardown of the current scene.  The restore of on_machine_restart   *)
(* is taken to land: it resets the machine, which clears any handler.       *)
\* Mutant: the restore waits for the next teardown.
TeardownRestoresLater ==
  \E loses \in Loses :
    /\ up' = "none" /\ Charge(loses)
    /\ UNCHANGED restoreOwed
    /\ owed' = (owed \/ current # "card") /\ irq' = Unhooked(loses) /\ UNCHANGED lost

SafeTeardown ==
  \E loses \in Loses :
    /\ up' = "none" /\ Charge(loses)
    /\ restoreOwed' = FALSE
    /\ IF restoreOwed
       THEN irq' = "clean" /\ lost' = FALSE /\ owed' = FALSE
       ELSE /\ irq' = Unhooked(loses) /\ UNCHANGED lost
            /\ owed' = (owed \/ current # "card")

(* is_done and the failed setup go with the scene.                          *)
DropCurrent ==
  /\ current' = "none" /\ done' = FALSE /\ failed' = FALSE
  /\ IF current = "none" THEN UNCHANGED machine ELSE SafeTeardown

-----------------------------------------------------------------------------
(* The top of the loop: stop, pause, reload, in this order. *)

Leaves ==
  /\ pc = "top" /\ stop /\ pc' = "exit"
  /\ UNCHANGED <<loopVars, machine, events, link>>

NotPaused ==
  /\ pc = "top" /\ ~stop /\ ~pauseEv /\ pc' = "reload"
  /\ UNCHANGED <<loopVars, machine, events, link>>

(* _handle_pause: the scene goes, a release owed is sent, resume_event is    *)
(* cleared, and only then does the machine idle.                            *)
PauseDrops ==
  /\ pc = "top" /\ ~stop /\ pauseEv
  /\ DropCurrent /\ pc' = "pausing"
  /\ UNCHANGED <<loop, n, index, spent, again, tries, unstartable, swap, events, link>>

PauseReleases ==
  /\ pc = "pausing" /\ pc' = "idling" /\ resumeEv' = FALSE
  /\ \E loses \in Loses :
       /\ Charge(loses)
       /\ owed' = (owed /\ loses)
       /\ irq' = IF owed /\ ~loses THEN "clean" ELSE irq
  /\ UNCHANGED <<loopVars, up, restoreOwed, lost, link, stop, pauseEv, skipEv, pending, jump,
                 hard, asking, asks>>

\* Mutant: resume_event is cleared once the machine idles.
IdleThenClear ==
  /\ pc = "idling" /\ pc' = "paused" /\ resumeEv' = FALSE
  /\ UNCHANGED <<loopVars, machine, link, stop, pauseEv, skipEv, pending, jump, hard, asking, asks>>

PauseIdles ==
  /\ pc = "idling" /\ pc' = "paused"
  /\ UNCHANGED <<loopVars, machine, events, link>>

PauseStops ==
  /\ pc = "paused" /\ stop /\ pc' = "exit"
  /\ UNCHANGED <<loopVars, machine, events, link>>

SeesResume ==
  /\ pc = "paused" /\ ~stop /\ resumeEv /\ pc' = "resuming"
  /\ UNCHANGED <<loopVars, machine, events, link>>

(* The reset, the clear loop, and both events cleared behind them; the     *)
(* loop looks at stop_event before it goes on to the reload.               *)
Resumes ==
  /\ pc = "resuming"
  /\ pauseEv' = FALSE /\ resumeEv' = FALSE
  /\ irq' = IF link = "up" THEN "clean" ELSE irq
  /\ pc' = IF stop THEN "exit" ELSE "reload"
  /\ UNCHANGED <<loopVars, up, owed, restoreOwed, lost, faults, link, stop, skipEv, pending,
                 jump, hard, asking, asks>>

NoReload ==
  /\ pc = "reload" /\ pending = 0 /\ pc' = "advance"
  /\ UNCHANGED <<loopVars, machine, events, link>>

(* _apply_reload takes the request under _reload_lock ...                  *)
ReloadTakes ==
  /\ pc = "reload" /\ pending # 0
  /\ swap' = pending /\ pending' = 0 /\ pc' = "swap"
  /\ UNCHANGED <<loop, n, index, current, done, spent, failed, again, tries, unstartable, machine,
                 link, stop, pauseEv, resumeEv, skipEv, jump, hard, asking, asks>>

\* Mutant: the list is swapped under the scene on screen.
SwapUnderneath ==
  /\ pc = "swap" /\ current' = "none" /\ jump' = NoJump
  /\ n' = swap /\ swap' = 0 /\ index' = 0 /\ unstartable' = {} /\ pc' = "advance"
  /\ UNCHANGED <<loop, done, spent, failed, again, tries, machine, link, stop, pauseEv, resumeEv, skipEv,
                 pending, hard, asking, asks>>

(* ... and swaps the list under _jump_lock, the old scene torn down.       *)
ReloadSwaps ==
  /\ pc = "swap" /\ DropCurrent /\ jump' = NoJump /\ hard' = FALSE
  /\ n' = swap /\ swap' = 0 /\ index' = 0 /\ unstartable' = {} /\ pc' = "advance"
  /\ UNCHANGED <<loop, spent, again, tries, link, stop, pauseEv, resumeEv, skipEv,
                 pending, asking, asks>>

-----------------------------------------------------------------------------
(* _advance: what the loop does next, with `current` and its is_done.       *)

\* Control only: `to` is where the loop goes, nothing else changes.
Goes(to) == pc' = to /\ UNCHANGED <<loopVars, machine, events, link>>

AdvanceFirst   == pc = "advance" /\ current = "none" /\ Goes(IF Single THEN "cut" ELSE "announce")
AdvancePlaying == pc = "advance" /\ current # "none" /\ ~done /\ Goes("frame")
AdvanceEnded   == pc = "advance" /\ current = "scene" /\ done /\ ~(Single /\ failed) /\ Goes("fade")

(* A failed setup of the only scene: _stop_on_failed_start.                 *)
OnlySceneFailed ==
  /\ pc = "advance" /\ current = "scene" /\ done /\ Single /\ failed
  /\ stop' = TRUE /\ pc' = "frame"
  /\ UNCHANGED <<loopVars, machine, link, pauseEv, resumeEv, skipEv, pending, jump, hard,
                 asking, asks>>

(* _take_jump, with _jump_to up to the set-up of what it leads to.          *)
TakeJump ==
  /\ index' = jump /\ jump' = NoJump /\ hard' = FALSE
  /\ pc' = IF hard THEN "cut" ELSE "announce"

(* The card is over: the jump asked for during it, or the scene it announced. *)
CardJumps ==
  /\ pc = "advance" /\ current = "card" /\ done /\ jump # NoJump
  /\ TakeJump /\ DropCurrent
  /\ UNCHANGED <<loop, n, spent, again, tries, unstartable, swap, link, stop,
                 pauseEv, resumeEv, skipEv, pending, asking, asks>>

CardEnds ==
  /\ pc = "advance" /\ current = "card" /\ done /\ jump = NoJump
  /\ DropCurrent /\ pc' = "cut"
  /\ UNCHANGED <<loop, n, index, spent, again, tries, unstartable, swap, link, events>>

(* SceneFades.fade_out, for as many frames: a skip ends a running fade and  *)
(* is consumed by it; a scene that cannot fade leaves the skip alone.       *)
FadesOut ==
  /\ pc = "fade" /\ pc' = "tear"
  /\ skipEv' \in {skipEv, FALSE}
  /\ UNCHANGED <<loopVars, machine, link, stop, pauseEv, resumeEv, pending, jump, hard, asking, asks>>

SceneTornDown ==
  /\ pc = "tear" /\ DropCurrent /\ pc' = "choose"
  /\ UNCHANGED <<loop, n, index, spent, again, tries, unstartable, swap, link, events>>

ChooseJump ==
  /\ pc = "choose" /\ ~Single /\ jump # NoJump
  /\ TakeJump
  /\ UNCHANGED <<loop, n, current, done, spent, failed, again, tries, unstartable, swap, machine, link,
                 stop, pauseEv, resumeEv, skipEv, pending, asking, asks>>

(* The next index, from the top again only on a looping playlist.           *)
ChooseNext ==
  /\ pc = "choose" /\ ~Single /\ jump = NoJump /\ (loop \/ index + 1 < n)
  /\ index' = (index + 1) % n /\ pc' = "announce"
  /\ UNCHANGED <<loop, n, current, done, spent, failed, again, tries, unstartable, swap, machine, events, link>>

ChooseLap == pc = "choose" /\ Single /\ loop /\ Goes("cut")

ChooseEnd ==
  /\ pc = "choose" /\ ~loop /\ (Single \/ (jump = NoJump /\ index + 1 = n))
  /\ stop' = TRUE /\ pc' = "frame"
  /\ UNCHANGED <<loopVars, machine, link, pauseEv, resumeEv, skipEv, pending, jump, hard,
                 asking, asks>>

-----------------------------------------------------------------------------
(* safe_setup. *)

BeginSetup(what) ==
  /\ current' = what /\ done' = FALSE /\ failed' = FALSE /\ tries' = 0 /\ pc' = "setup"

(* _enter_interstitial: the card's own setup releases a leaked handler.     *)
Announce ==
  /\ pc = "announce" /\ BeginSetup("card")
  /\ owed' = FALSE
  /\ UNCHANGED <<loop, n, index, spent, again, unstartable, swap, up, irq, restoreOwed, lost, faults,
                 events, link>>

Cut ==
  /\ pc = "cut" /\ BeginSetup("scene")
  /\ UNCHANGED <<loop, n, index, spent, again, unstartable, swap, machine, events, link>>

SetupOutcomes ==
  IF current = "scene" THEN Outcomes
  ELSE {"plays"} \cup (IF CardMayRaise THEN {"raises"} ELSE {})

(* One lap of _setup_through_outage: a restart noticed since the last       *)
(* landed frame is put right, the release owed is sent, and setup() runs.   *)
(* Whether the release landed is known apart from the loss mark, which is   *)
(* taken behind it.                                                         *)
SetsUp ==
  /\ pc = "setup"
  /\ \E noticed \in {FALSE} \cup {lost}, loses \in Loses, released \in BOOLEAN,
        outcome \in SetupOutcomes, hooks \in BOOLEAN :
       LET owes    == owed /\ ~noticed
           clears  == (owes \/ current = "card") /\ released
           handler == IF noticed \/ (clears /\ irq = "leaked") THEN "clean" ELSE irq
       IN  /\ ~loses => released
           /\ Charge(loses)
           /\ lost' = (lost /\ ~noticed)
           /\ owed' = (owes /\ ~released)
           /\ irq' = IF handler = "leaked" THEN "leaked"
                     ELSE IF hooks /\ current = "scene" THEN "own" ELSE "clean"
           /\ up' = current
           /\ failed' = (outcome = "raises") /\ done' = (outcome = "ends")
           /\ pc' = IF loses /\ outcome # "raises" THEN "lossy" ELSE "judge"
  /\ UNCHANGED <<loop, n, index, current, spent, again, tries, unstartable, swap, restoreOwed, events, link>>

(* The link answers: another try, or the setup kept as it is.  A card kept  *)
(* so may have lost its release, which is owed again.                       *)
\* Mutant: a kept card owes nothing.
KeepsCardFree ==
  /\ pc = "lossy" /\ link = "up"
  /\ tries' = tries + 1
  /\ pc' = IF tries' >= LossyTries THEN "judge" ELSE "retry"
  /\ UNCHANGED <<loop, n, index, current, done, spent, failed, again, unstartable, swap, machine, events, link>>

CountsLossy ==
  /\ pc = "lossy" /\ link = "up"
  /\ tries' = tries + 1
  /\ pc' = IF tries' >= LossyTries THEN "judge" ELSE "retry"
  /\ owed' = (owed \/ (current = "card" /\ tries' >= LossyTries))
  /\ UNCHANGED <<loop, n, index, current, done, spent, failed, again, unstartable, swap,
                 up, irq, restoreOwed, lost, faults, events, link>>

LinkIsDown == pc = "lossy" /\ link = "down" /\ Goes("linkwait")

(* Both waits are on stop_event; a stop leaves the scene as it is.          *)
\* Mutant: the wait for the link does not look at stop_event.
WaitsThroughStop == pc = "retry" /\ stop /\ Goes("judge")

WaitStops == pc \in {"retry", "linkwait"} /\ stop /\ Goes("judge")

TriesAgain ==
  /\ pc = "retry" \/ (pc = "linkwait" /\ link = "up")
  /\ ~stop /\ pc' = "setup"
  /\ \E loses \in Loses :
       /\ up' = "none" /\ irq' = Unhooked(loses) /\ Charge(loses)
       /\ owed' = (owed \/ current # "card")
  /\ UNCHANGED <<loopVars, restoreOwed, lost, events, link>>

(* What the caller makes of the setup.  A card plays in any case, and so    *)
(* does a scene set up again after a restart.                               *)
SetUpAgain ==
  /\ pc = "judge" /\ again
  /\ again' = FALSE /\ done' = FALSE /\ pc' = "top"
  /\ UNCHANGED <<loop, n, index, current, spent, failed, tries, unstartable, swap, machine, events, link>>

CardIsUp == pc = "judge" /\ ~again /\ current = "card" /\ Goes("frame")

(* _set_up_listed_scene. *)
ListedStarts ==
  /\ pc = "judge" /\ ~again /\ current = "scene" /\ ~Single
  /\ stop \/ ~(failed \/ done)
  /\ unstartable' = IF stop THEN unstartable ELSE {}
  /\ pc' = "frame"
  /\ UNCHANGED <<loop, n, index, current, done, spent, failed, again, tries, swap, machine, events, link>>

\* Mutant: only a setup that ended its scene counts.
RaisesUncounted ==
  /\ pc = "judge" /\ ~again /\ current = "scene" /\ ~Single
  /\ ~stop /\ (failed \/ done)
  /\ unstartable' = IF done THEN unstartable \cup {index} ELSE unstartable
  /\ stop' = (Cardinality(unstartable') >= n)
  /\ pc' = "frame"
  /\ UNCHANGED <<loop, n, index, current, done, spent, failed, again, tries, swap, machine, link,
                 pauseEv, resumeEv, skipEv, pending, jump, hard, asking, asks>>

ListedFails ==
  /\ pc = "judge" /\ ~again /\ current = "scene" /\ ~Single
  /\ ~stop /\ (failed \/ done)
  /\ unstartable' = unstartable \cup {index}
  /\ stop' = (Cardinality(unstartable') >= n)
  /\ pc' = "frame"
  /\ UNCHANGED <<loop, n, index, current, done, spent, failed, again, tries, swap, machine, link,
                 pauseEv, resumeEv, skipEv, pending, jump, hard, asking, asks>>

(* _set_up_single_scene; a raise is judged once the scene has ended.        *)
SingleJudged ==
  /\ pc = "judge" /\ ~again /\ current = "scene" /\ Single
  /\ stop' = (stop \/ done)
  /\ pc' = "frame"
  /\ UNCHANGED <<loopVars, machine, link, pauseEv, resumeEv, skipEv, pending, jump, hard,
                 asking, asks>>

-----------------------------------------------------------------------------
(* A frame, and what the loop looks at behind it. *)

FrameStops == pc = "frame" /\ stop /\ Goes("exit")

(* run_one_frame of a scene whose setup raised. *)
FailedEnds ==
  /\ pc = "frame" /\ ~stop /\ failed
  /\ done' = TRUE /\ pc' = "watch"
  /\ UNCHANGED <<loop, n, index, current, spent, failed, again, tries, unstartable, swap, machine, events, link>>

(* A scene whose setup ended it: process_frame has nothing to show.         *)
EndedBySetup == current = "scene" /\ index \in unstartable

(* run_one_frame, with _apply_frame_events: the scene may end by itself, an *)
(* overlay may hold it on screen, and a skip ends it regardless.            *)
Frame ==
  /\ pc = "frame" /\ ~stop /\ ~failed
  /\ \E ends \in (IF EndedBySetup THEN {TRUE} ELSE BOOLEAN), busy \in BOOLEAN :
       /\ spent' = ends
       /\ done' = ((ends /\ ~busy) \/ (skipEv /\ ~Single))
  /\ skipEv' = FALSE
  /\ pc' = "watch"
  /\ UNCHANGED <<loop, n, index, current, failed, again, tries, unstartable, swap, machine, link,
                 stop, pauseEv, resumeEv, pending, jump, hard, asking, asks>>

(* Every frame writes _content_done anew, so it is forgotten behind it.     *)
NothingSeen ==
  /\ pc = "watch" /\ pc' = "top" /\ spent' = FALSE
  /\ UNCHANGED <<loop, n, index, current, done, failed, again, tries, unstartable, swap,
                 machine, events, link>>

(* The audio stall watchdog found the C64 crashed, or a restart is found on *)
(* the frame the scene ends: the restore waits for the teardown.            *)
EndsForRestore ==
  /\ pc = "watch" /\ lost
  /\ done' = TRUE /\ spent' = FALSE /\ restoreOwed' = TRUE /\ pc' = "top"
  /\ UNCHANGED <<loop, n, index, current, failed, again, tries, unstartable, swap,
                 up, irq, owed, lost, faults, events, link>>

(* _set_up_again_after_restart: teardown, restore, and the setup again,     *)
(* unless the run stops.                                                    *)
RestartSeen ==
  /\ pc = "watch" /\ lost /\ ~done /\ ~spent
  /\ up' = "none" /\ irq' = "clean" /\ lost' = FALSE
  /\ IF stop
     THEN /\ current' = "none" /\ pc' = "top"
          /\ owed' = (owed \/ current # "card")
          /\ UNCHANGED <<done, failed, tries, again>>
     ELSE BeginSetup(current) /\ again' = TRUE /\ owed' = FALSE
  /\ UNCHANGED <<loop, n, index, spent, unstartable, swap, restoreOwed, faults, events, link>>

Exits ==
  /\ pc = "exit" /\ DropCurrent /\ pc' = "ended"
  /\ UNCHANGED <<loop, n, index, spent, again, tries, unstartable, swap, events, link>>

Run ==
  \/ Leaves \/ NotPaused \/ PauseDrops \/ PauseReleases \/ PauseIdles \/ PauseStops \/ SeesResume \/ Resumes
  \/ NoReload \/ ReloadTakes \/ ReloadSwaps
  \/ AdvanceFirst \/ AdvancePlaying \/ AdvanceEnded \/ OnlySceneFailed
  \/ CardJumps \/ CardEnds \/ FadesOut \/ SceneTornDown
  \/ ChooseJump \/ ChooseNext \/ ChooseLap \/ ChooseEnd
  \/ Announce \/ Cut \/ SetsUp \/ CountsLossy \/ LinkIsDown \/ WaitStops \/ TriesAgain
  \/ SetUpAgain \/ CardIsUp \/ ListedStarts \/ ListedFails \/ SingleJudged
  \/ FrameStops \/ FailedEnds \/ Frame \/ NothingSeen \/ EndsForRestore \/ RestartSeen
  \/ Exits

Asks ==
  \/ RequestSkip \/ RequestJump \/ RequestPause \/ RequestResume \/ RequestReload \/ RequestStop

Environment == LinkFails \/ LinkHeals \/ MachineRestarts

Next == Run \/ Asks \/ JumpSkips \/ Environment

Spec == Init /\ [][Next]_vars

(* The run loop's thread and the thread inside request_jump are scheduled.  *)
FairSpec == Spec /\ WF_vars(Run) /\ WF_vars(JumpSkips)

(* What some of the promises below rest on: that an outage ends, and that a *)
(* card times out (InterstitialScene.process_frame) and an overlay lets go  *)
(* of a scene that has nothing to show.                                     *)
Expires == Frame /\ (current = "card" \/ EndedBySetup) /\ done'
LinkReturns == WF_vars(LinkHeals)
CardsTimeOut == SF_vars(Expires)

-----------------------------------------------------------------------------
Places == {"top", "pausing", "idling", "paused", "resuming", "reload", "swap", "advance", "fade", "tear",
           "choose", "announce", "cut", "setup", "lossy", "retry", "linkwait", "judge",
           "frame", "watch", "exit", "ended"}
Kinds == {"none", "card", "scene"}

(* What each variable holds; the others are flags.                          *)
TypeOK ==
  /\ pc \in Places /\ n \in 1..MaxScenes /\ index \in 0..(MaxScenes - 1)
  /\ current \in Kinds /\ up \in Kinds /\ irq \in {"clean", "own", "leaked"}
  /\ link \in {"up", "down"}
  /\ tries \in Nat /\ unstartable \subseteq 0..(MaxScenes - 1)
  /\ swap \in 0..MaxScenes /\ pending \in 0..MaxScenes
  /\ jump \in {NoJump} \cup 0..(MaxScenes - 1)
  /\ asks \in 0..MaxAsks /\ faults \in 0..MaxFaults

(* No scene sets up over another, and a pause and the end of the run leave  *)
(* none behind: on every way round the loop (jump, reload, pause, outage,   *)
(* restart, stop) each setup has had its teardown first (drop_current,      *)
(* safe_teardown, playlist.py:1150-1187).                                   *)
NothingUnderneath ==
  pc \in {"setup", "announce", "cut", "choose", "pausing", "idling", "paused", "resuming", "ended"}
    => up = "none"

(* "The debt stands until a release lands" (docs/architecture/config.md:397):*)
(* a raster handler a teardown left hooked is owed a release, through       *)
(* outages, kept lossy setups, pauses and reloads, until one clears it.     *)
LeakIsOwed ==
  irq = "leaked" /\ ~stop
    => owed \/ (current = "card" /\ pc \in {"setup", "lossy", "retry", "linkwait"})

(* A restart or crash found as a scene ended is put back before anything    *)
(* else sets up (playlist.py:1183-1187), whatever comes between.            *)
RestoredBeforeSetup == pc = "setup" => ~restoreOwed

(* A stop ends the run and tears the scene down, wherever the loop is: in a *)
(* pause, a fade, a retry, or waiting on a link that never comes back.      *)
StopEnds == stop ~> (pc = "ended" /\ up = "none")

(* A jump is taken, or goes with the list it was aimed at, without waiting  *)
(* for the scene on screen to end; only a pause holds it back.              *)
JumpServed ==
  LinkReturns /\ CardsTimeOut => (jump # NoJump ~> (jump = NoJump \/ stop \/ pauseEv))

(* A playlist none of whose scenes comes up stops instead of going round    *)
(* (playlist.py:679-694, 663-677), unless it is paused.                     *)
NothingComesUp == pc = "frame" /\ current = "scene" => failed \/ EndedBySetup
NothingStartsEnds ==
  LinkReturns /\ CardsTimeOut /\ [](NothingComesUp /\ ~pauseEv) => <>(pc = "ended")

(* A resume that comes while the machine is brought to idle is not wiped    *)
(* (playlist.py:1623-1626).                                                 *)
ResumeWakes == (pc \in {"idling", "paused"} /\ resumeEv) ~> pc \notin {"idling", "paused"}
=============================================================================
