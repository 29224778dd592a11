---------------------------- MODULE Performance ----------------------------
(***************************************************************************)
(* PerformanceSession (control/performance.py): the grid of clips that     *)
(* pads, gestures and recalled looks launch over the playlist.             *)
(*                                                                         *)
(* The surfaces only queue events.  The playlist thread serves them once a *)
(* frame, in a fixed order: reconcile, pad events, look events, start of a *)
(* build, the armed clip, the active clip; then the playlist may advance   *)
(* and the frame renders.  Builds run on threads of their own, and a pause,*)
(* a reload or a broadcast may drop the clip on screen between two frames. *)
(*                                                                         *)
(* A scene object is known by the launch it was built for.  "fx" says that *)
(* the launch applied a look's effects to it.                              *)
(***************************************************************************)
EXTENDS Naturals, Sequences

CONSTANTS
    Slots,
    Gates, Toggles,   \* the other slots are triggers
    Loops,            \* slots whose clip starts over when it is done
    MaxBuilds,        \* MAX_CLIP_BUILDS
    MaxQueue,         \* bound: events queued and not yet served (MAX_QUEUED_EVENTS)
    HandsFreeGates    \* whether a look or a gesture may launch a gate clip
                      \* though no pad is held for it

ASSUME Grid ==
    /\ "none" \notin Slots
    /\ Gates \subseteq Slots /\ Toggles \subseteq Slots \ Gates /\ Loops \subseteq Slots
    /\ MaxBuilds \in Nat \ {0} /\ MaxQueue \in Nat \ {0} /\ HandsFreeGates \in BOOLEAN

NoClip == [by |-> "nobody"]
TheList == [by |-> "playlist"]
Clip(slot, by, fx) == [slot |-> slot, by |-> by, fx |-> fx]
IsClip(clip) == clip \notin {NoClip, TheList}

VARIABLES
    queue,     \* pad events not served yet
    looks,     \* look events not served yet
    take,      \* how many of the queue this frame still serves
    down,      \* the gates whose pads are held
    saved,     \* the clip of the stored look, if there is one and it names one
    armed,     \* the armed clip and how far its build is
    pending,   \* a recalled look's effects wait for the armed clip
    strays,    \* builds of arms that were dropped, still running
    active,    \* the clip on screen, as the session knows it
    ret,       \* what it goes back to
    current,   \* what the playlist has set up: "none", "list" or "clip"
    done, failed,   \* of what is on screen: is_done, and its setup raised
    stopping,
    pc

surfaces == <<queue, looks, take, down>>
grid == <<armed, pending, strays>>
screen == <<active, ret, current, done, failed, stopping>>
vars == <<surfaces, grid, screen, saved, pc>>

NoArm == [stage |-> "none"]
Stages == {"waiting", "building", "built", "error"}
Arms == [stage : Stages, slot : Slots, by : {"pad", "swipe", "look"}]

Labels == {"service", "drain", "looks", "build", "armed", "active", "advance", "render", "stopped"}

OfTheGrid(clip) == IsClip(clip) => clip.slot \in Slots /\ clip.by \in {"pad", "swipe", "look"}

\* The other variables are flags.
TypeOK ==
    /\ queue \in Seq([slot : Slots, pressed : BOOLEAN, by : {"pad", "swipe"}])
    /\ looks \in Seq({"save", "recall"})
    /\ take \in 0 .. Len(queue) /\ down \subseteq Gates
    /\ saved \in Slots \cup {"none"}
    /\ armed \in Arms \cup {NoArm} /\ strays \in 0 .. MaxBuilds
    /\ active # TheList /\ OfTheGrid(active) /\ OfTheGrid(ret)
    /\ current \in {"none", "list", "clip"} /\ pc \in Labels

Init ==
    /\ queue = <<>> /\ looks = <<>> /\ take = 0 /\ down = {}
    /\ saved = "none"
    /\ armed = NoArm /\ pending = FALSE /\ strays = 0
    /\ active = NoClip /\ ret = NoClip
    /\ current = "list" /\ done = FALSE /\ failed = FALSE /\ stopping = FALSE
    /\ pc = "service"

-----------------------------------------------------------------------------
(* The surfaces: enqueue, enqueue_look, advance_clip. *)

Enqueue(s, pressed, by) ==
    /\ Len(queue) < MaxQueue
    /\ queue' = Append(queue, [slot |-> s, pressed |-> pressed, by |-> by])
    /\ UNCHANGED <<looks, take, grid, screen, saved, pc>>

Press(s) == s \notin down /\ down' = down \cup ({s} \cap Gates) /\ Enqueue(s, TRUE, "pad")

\* The release of any other pad is ignored.
Release(s) == s \in down /\ down' = down \ {s} /\ Enqueue(s, FALSE, "pad")

\* The swipe: the next clip of the row, which nothing releases; for a clip that
\* is not a gate the same as a press.  The order of the row is left open.
AdvanceClip(s) ==
    /\ s \in Gates => HandsFreeGates
    /\ UNCHANGED down /\ Enqueue(s, TRUE, IF s \in Gates THEN "swipe" ELSE "pad")

EnqueueLook(what) ==
    /\ looks = <<>> /\ looks' = <<what>>
    /\ UNCHANGED <<queue, take, down, grid, screen, saved, pc>>

-----------------------------------------------------------------------------
(* A swap: perf_swap_scene tears down what is on screen and sets the other *)
(* scene up.  The setup may raise, or leave a scene that is done already,  *)
(* and a stop may end the wait for the ensemble's audio slot.              *)

Outcomes == {"up", "dud", "raised", "stopped"}

Swap(what, o) ==
    /\ current' = IF o = "stopped" THEN "none" ELSE what
    /\ done' = (o = "dud") /\ failed' = (o = "raised")
    /\ stopping' = (stopping \/ o = "stopped")

\* Mutant: the restored clip is on screen, but no one's.
RestoreClipUnowned(clip, o) == Swap("clip", o) /\ active' = NoClip /\ ret' = NoClip

\* _restore_clip: the chain is one level deep.
RestoreClip(clip, o) ==
    /\ Swap("clip", o)
    /\ IF o = "stopped" THEN active' = NoClip /\ ret' = NoClip
       ELSE active' = clip /\ ret' = TheList

\* _end_active.
EndActive ==
    \E o \in Outcomes :
        IF IsClip(ret) THEN RestoreClip(ret, o)
        ELSE Swap("list", o) /\ active' = NoClip /\ ret' = NoClip

\* The dropped arm's build cannot be stopped.
Abandoned == IF armed.stage = "building" THEN strays + 1 ELSE strays

\* Mutant: the effects outlive the arm they came with.
KeepsEffects == UNCHANGED pending
DropsEffects == pending' = FALSE

\* _cancel_arm.
CancelArm == armed' = NoArm /\ strays' = Abandoned /\ DropsEffects

Arm(s, by) ==
    armed' = [stage |-> "waiting", slot |-> s, by |-> by] /\ strays' = Abandoned

-----------------------------------------------------------------------------
(* One frame's service. *)

\* _reconcile, and _drain taking what the queue holds now.
Reconcile ==
    /\ pc = "service" /\ pc' = "drain"
    /\ take' = Len(queue)
    /\ IF active # NoClip /\ current # "clip"
       THEN active' = NoClip /\ ret' = NoClip /\ CancelArm
       ELSE UNCHANGED <<active, ret, grid>>
    /\ UNCHANGED <<queue, looks, down, current, done, failed, stopping, saved>>

Event == Head(queue)

Serves ==
    /\ pc = "drain" /\ take > 0
    /\ queue' = Tail(queue) /\ take' = take - 1
    /\ UNCHANGED <<looks, down, saved, pc>>

IsOn(s) == active # NoClip /\ active.slot = s
IsArmed(s) == armed # NoArm /\ armed.slot = s

\* A press: a toggle that is on goes off, any other clip is armed.
ServesPress ==
    /\ Serves /\ Event.pressed
    /\ IF Event.slot \in Toggles /\ IsOn(Event.slot)
       THEN EndActive /\ UNCHANGED grid
       ELSE Arm(Event.slot, Event.by) /\ DropsEffects /\ UNCHANGED screen

\* Mutant: as before _returns_to_gate was added.
ForgetsNothing(s) == UNCHANGED <<ret, active, current, done, failed, stopping>>

\* Its pad is up now, so it must not come back.
ForgetsReturn(s) ==
    /\ ret' = IF IsClip(ret) /\ ret.slot = s THEN TheList ELSE ret
    /\ UNCHANGED <<active, current, done, failed, stopping>>

\* The release of a gate's pad: the first branch that applies.
ServesRelease ==
    /\ Serves /\ ~Event.pressed
    /\ LET s == Event.slot IN
       \/ IsOn(s) /\ EndActive /\ UNCHANGED grid
       \/ ~IsOn(s) /\ IsArmed(s) /\ CancelArm /\ UNCHANGED screen
       \/ ~IsOn(s) /\ ~IsArmed(s) /\ ForgetsReturn(s) /\ UNCHANGED grid

Drained ==
    /\ pc = "drain" /\ take = 0 /\ pc' = "looks"
    /\ UNCHANGED <<surfaces, grid, screen, saved>>

\* _snapshot_look.  With hands-free gates left out, a look of a gate is one of
\* those refused for their slot.
SavesLook ==
    /\ pc = "looks" /\ looks = <<"save">> /\ looks' = <<>>
    /\ saved' = IF active = NoClip THEN "none"
                ELSE IF active.slot \in Gates /\ ~HandsFreeGates THEN saved ELSE active.slot
    /\ pc' = "build"
    /\ UNCHANGED <<queue, take, down, grid, screen>>

\* _recall_look: the effects are stashed after _arm, which clears an earlier
\* recall's.  A look that names no clip is applied to what is on screen.
RecallsLook ==
    /\ pc = "looks" /\ looks = <<"recall">> /\ looks' = <<>>
    /\ IF saved \in Slots THEN Arm(saved, "look") /\ pending' = TRUE ELSE UNCHANGED grid
    /\ pc' = "build"
    /\ UNCHANGED <<queue, take, down, screen, saved>>

NoLook ==
    /\ pc = "looks" /\ looks = <<>> /\ pc' = "build"
    /\ UNCHANGED <<surfaces, grid, screen, saved>>

\* _start_build: only builds that are alive count.
StartBuild ==
    /\ pc = "build" /\ pc' = "armed"
    /\ IF armed.stage = "waiting" /\ strays < MaxBuilds
       THEN armed' = [armed EXCEPT !.stage = "building"] ELSE UNCHANGED armed
    /\ UNCHANGED <<pending, strays, surfaces, screen, saved>>

\* The build thread.
BuildEnds ==
    /\ armed.stage = "building"
    /\ \E s \in {"built", "error"} : armed' = [armed EXCEPT !.stage = s]
    /\ UNCHANGED <<pending, strays, surfaces, screen, saved, pc>>

\* Mutant: a build that ended still counts.
DeadBuildCounts == strays > 0 /\ UNCHANGED vars

StrayEnds ==
    /\ strays > 0 /\ strays' = strays - 1
    /\ UNCHANGED <<armed, pending, surfaces, screen, saved, pc>>

\* _progress_armed: nothing built yet, or the beat to wait for has not come.
ArmWaits ==
    /\ pc = "armed" /\ pc' = "active" /\ armed.stage # "error"
    /\ UNCHANGED <<surfaces, grid, screen, saved>>

ArmFailed ==
    /\ pc = "armed" /\ pc' = "active" /\ armed.stage = "error"
    /\ CancelArm
    /\ UNCHANGED <<surfaces, screen, saved>>

\* _activate: a swap that a stop ended leaves the effects where they are.
Activate ==
    /\ pc = "armed" /\ pc' = "active" /\ armed.stage = "built"
    /\ armed' = NoArm
    /\ \E o \in Outcomes :
        /\ Swap("clip", o)
        /\ IF o = "stopped"
           THEN active' = NoClip /\ ret' = NoClip /\ UNCHANGED pending
           ELSE /\ active' = Clip(armed.slot, armed.by, pending)
                /\ ret' = IF active = NoClip THEN TheList ELSE active
                /\ pending' = FALSE
    /\ UNCHANGED <<strays, surfaces, saved>>

\* Mutant: a loop whose setup raises is set up again, and again.
StartsAnyOver == active.slot \in Loops
StartsOver == active.slot \in Loops /\ ~failed

NothingDone ==
    /\ pc = "active" /\ ~(active # NoClip /\ done)
    /\ pc' = "advance"
    /\ UNCHANGED <<surfaces, grid, screen, saved>>

\* _progress_active: a loop starts over, and stays unless it is done at once.
LoopsAgain ==
    /\ pc = "active" /\ active # NoClip /\ done /\ StartsOver
    /\ \E o \in Outcomes \ {"dud"} : Swap("clip", o)
    /\ pc' = "advance"
    /\ UNCHANGED <<active, ret, surfaces, grid, saved>>

\* A one-shot, a clip that cannot start, or a loop done as soon as set up again.
ClipEnds ==
    /\ pc = "active" /\ active # NoClip /\ done
    /\ EndActive
    /\ pc' = "advance"
    /\ UNCHANGED <<surfaces, grid, saved>>

-----------------------------------------------------------------------------
(* The rest of the run loop's turn. *)

\* _advance: with a clip on screen the playlist stays where it is.  A stop,
\* or nothing on screen, ends the run.
Advances ==
    /\ pc = "advance"
    /\ IF active = NoClip
       THEN /\ current' = IF stopping THEN current ELSE "list"
            /\ done' = (stopping /\ done) /\ failed' = FALSE
       ELSE UNCHANGED <<current, done, failed>>
    /\ pc' = IF stopping \/ current' = "none" THEN "stopped" ELSE "render"
    /\ UNCHANGED <<active, ret, stopping, surfaces, grid, saved>>

\* run_one_frame: the scene may end with the frame or be skipped; one whose
\* setup raised ends for certain.
Renders ==
    /\ pc = "render" /\ pc' = "service"
    /\ \E d \in {done, TRUE} : (failed => d) /\ done' = d
    /\ UNCHANGED <<active, ret, current, failed, stopping, surfaces, grid, saved>>

\* A pause, a reload or a broadcast, between two frames: drop_current.  The
\* loop comes back with nothing on screen.
TearsDown ==
    /\ pc = "service" /\ current # "none"
    /\ current' = "none" /\ done' = FALSE /\ failed' = FALSE
    /\ UNCHANGED <<active, ret, stopping, surfaces, grid, saved, pc>>

Next ==
    \/ \E s \in Slots : Press(s) \/ Release(s) \/ AdvanceClip(s)
    \/ \E what \in {"save", "recall"} : EnqueueLook(what)
    \/ Reconcile \/ ServesPress \/ ServesRelease \/ Drained
    \/ SavesLook \/ RecallsLook \/ NoLook
    \/ StartBuild \/ BuildEnds \/ StrayEnds
    \/ ArmWaits \/ ArmFailed \/ Activate
    \/ NothingDone \/ LoopsAgain \/ ClipEnds
    \/ Advances \/ Renders \/ TearsDown

Spec == Init /\ [][Next]_vars

Service ==
    \/ Reconcile \/ ServesPress \/ ServesRelease \/ Drained
    \/ SavesLook \/ RecallsLook \/ NoLook \/ StartBuild
    \/ ArmWaits \/ ArmFailed \/ Activate \/ NothingDone \/ LoopsAgain \/ ClipEnds
    \/ Advances \/ Renders

\* The playlist thread and the builds go on, and a beat comes at which the
\* armed clip may start.
FairSpec ==
    /\ Spec
    /\ WF_vars(Service) /\ WF_vars(BuildEnds) /\ WF_vars(StrayEnds) /\ SF_vars(Activate)

-----------------------------------------------------------------------------
ReleaseQueued(s) == \E i \in 1 .. Len(queue) : queue[i].slot = s /\ ~queue[i].pressed

\* A gate clip its pad launched is on screen only while the pad is held, or
\* its release has yet to be served: it neither outlives its pad nor comes
\* back after the clip that played over it.
GateIsHeld ==
    active # NoClip /\ active.slot \in Gates /\ active.by = "pad"
        => active.slot \in down \/ ReleaseQueued(active.slot)

\* The effects of a recalled look reach the clip the recall launched, and no
\* other, whatever was armed, dropped or cancelled in between.
LookGoesWithItsClip == active # NoClip => (active.fx <=> active.by = "look")

\* A clip on screen is the session's, with something to go back to: the
\* playlist never advances over it; and after a frame's service the session
\* claims no screen it does not have.
ScreenIsOwned ==
    /\ current = "clip" => active # NoClip /\ ret # NoClip
    /\ pc = "advance" /\ active # NoClip => current = "clip" \/ stopping

HandsOff == queue = <<>> /\ looks = <<>>

\* When the performer's hands are off the grid, what was armed is launched or
\* given up, even if every build thread was busy with superseded clips.
ArmIsServed == <>[]HandsOff => <>[](armed = NoArm \/ pc = "stopped")

\* A clip that is over, or cannot start, does not hold the screen: nothing but
\* new launches keeps what is on screen from being up.
DoneClipLeaves == <>[]HandsOff => []<>(~(active # NoClip /\ (done \/ failed)) \/ pc = "stopped")
=============================================================================
