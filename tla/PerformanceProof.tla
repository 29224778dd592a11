-------------------------- MODULE PerformanceProof --------------------------
(***************************************************************************)
(* Theorems about Performance, for any grid, any number of builds and any  *)
(* bound on the queue: a clip on screen is the session's, the effects of a *)
(* look stay with the clip the look launched, and a gate clip is on screen *)
(* only while its pad is held or its release waits to be served.           *)
(***************************************************************************)
EXTENDS Performance, TLAPS

(* Effects wait for the clip they came with, or were left by a swap that a *)
(* stop ended, in the last frame there is.                                 *)
PendingIsArmed ==
    /\ armed # NoArm => (pending <=> armed.by = "look")
    /\ pending /\ armed = NoArm => stopping /\ pc \in {"active", "advance", "stopped"}

(* The clip on screen and the one it returns to have their own effects.    *)
Effects == \A clip \in {active, ret} : IsClip(clip) => (clip.fx <=> clip.by = "look")

(* Behind _reconcile the session claims no screen it does not have.        *)
Claimed ==
    pc \notin {"service", "stopped"} /\ active # NoClip
        => current = "clip" \/ (pc = "advance" /\ stopping)

(* A stop is seen in the frame it comes in.                                *)
Running == pc \in {"render", "service"} => ~stopping

(* What is on screen is the session's.                                     *)
Owned == current = "clip" => active # NoClip /\ ret # NoClip

(* A build that is dropped is counted with the others.                     *)
BuildsFit == armed.stage = "building" => strays < MaxBuilds

(* The inductive invariant of a frame.                                     *)
IInv ==
    /\ TypeOK
    /\ BuildsFit /\ PendingIsArmed /\ Effects /\ Claimed /\ Running /\ Owned

(* The first of a sequence is one of it.                                    *)
LEMMA HeadIsOne == ASSUME NEW S, NEW s \in Seq(S), Len(s) > 0 PROVE Head(s) \in S
OBVIOUS

(* Dropping an arm is within the builds there may be.                       *)
LEMMA Dropped ==
  ASSUME TypeOK, BuildsFit
  PROVE  Abandoned \in 0 .. MaxBuilds
BY Grid DEF TypeOK, BuildsFit, Abandoned, Arms, NoArm

(* A clip that ends gives the screen to its return, or back to the list.    *)
LEMMA Ended ==
  ASSUME IInv, EndActive
  PROVE  /\ active' # TheList
         /\ OfTheGrid(active') /\ OfTheGrid(ret')
         /\ active' # NoClip => active' = ret /\ current' = "clip"
         /\ ~IsClip(ret')
         /\ current' \in {"none", "list", "clip"} /\ Effects' /\ Owned'
         /\ stopping => stopping'
<1> USE DEF IInv, TypeOK, Effects, Owned, Swap, IsClip, OfTheGrid
<1>0. NoClip # TheList
  BY DEF NoClip, TheList
<1>1. PICK o \in Outcomes :
        IF IsClip(ret) THEN RestoreClip(ret, o)
        ELSE Swap("list", o) /\ active' = NoClip /\ ret' = NoClip
  BY DEF EndActive
<1>2. CASE IsClip(ret)
  BY <1>0, <1>1, <1>2 DEF RestoreClip
<1>3. CASE ~IsClip(ret)
  BY <1>0, <1>1, <1>3
<1> QED
  BY <1>2, <1>3

(* With the playlist on screen nothing is claimed, armed or stashed.        *)
THEOREM IInvInit == Init => IInv
BY Grid DEF Init, Stages, Arms, TheList, IInv, TypeOK, BuildsFit, PendingIsArmed, Effects, Claimed, Running, Owned,
   IsClip, OfTheGrid, NoClip,
   NoArm, Labels

(* Every frame, event and build keeps it.                                   *)
THEOREM IInvStep == IInv /\ [Next]_vars => IInv'
<1> SUFFICES ASSUME IInv, [Next]_vars PROVE IInv'
  OBVIOUS
<1> USE Grid DEF IInv, TypeOK, BuildsFit, PendingIsArmed, Effects, Claimed, Running, Owned,
     IsClip, OfTheGrid, NoClip, NoArm,
     Arms, Stages, Labels, TheList, surfaces, grid, screen
<1>1. ASSUME NEW s \in Slots, Press(s) PROVE IInv'
  BY <1>1 DEF Press, Enqueue
<1>2. ASSUME NEW s \in Slots, Release(s) PROVE IInv'
  BY <1>2 DEF Release, Enqueue
<1>3. ASSUME NEW s \in Slots, AdvanceClip(s) PROVE IInv'
  BY <1>3 DEF AdvanceClip, Enqueue
<1>4. ASSUME NEW s \in {"save", "recall"}, EnqueueLook(s) PROVE IInv'
  BY <1>4 DEF EnqueueLook
<1>5. CASE Reconcile
  <2>1. CASE active # NoClip /\ current # "clip"
    BY <1>5, <2>1, Dropped DEF Reconcile, CancelArm, DropsEffects
  <2>2. CASE ~(active # NoClip /\ current # "clip")
    BY <1>5, <2>2 DEF Reconcile
  <2> QED
    BY <2>1, <2>2
<1>6. CASE ServesPress
  <2>1. /\ pc = "drain" /\ UNCHANGED <<looks, down, saved, pc>>
        /\ queue' \in Seq([slot : Slots, pressed : BOOLEAN, by : {"pad", "swipe"}])
        /\ take' \in 0 .. Len(queue')
    BY <1>6 DEF ServesPress, Serves
  <2>2. CASE EndActive /\ UNCHANGED grid
    <3>1. /\ active' # TheList /\ OfTheGrid(active') /\ OfTheGrid(ret')
          /\ active' # NoClip => active' = ret /\ current' = "clip"
          /\ current' \in {"none", "list", "clip"} /\ Effects' /\ Owned'
          /\ stopping => stopping'
      BY <2>2, Ended
    <3> QED
      BY <2>1, <2>2, <3>1
  <2>3. CASE Arm(Event.slot, Event.by) /\ DropsEffects /\ UNCHANGED screen
    <3>1. Event.slot \in Slots /\ Event.by \in {"pad", "swipe"}
      <4>1. Len(queue) > 0
        BY <1>6 DEF ServesPress, Serves
      <4>2. Head(queue) \in [slot : Slots, pressed : BOOLEAN, by : {"pad", "swipe"}]
        BY <4>1, HeadIsOne
      <4> QED
        BY <4>2 DEF Event
    <3> QED
      BY <2>1, <2>3, <3>1, Dropped DEF Arm, DropsEffects
  <2> QED
    BY <1>6, <2>2, <2>3 DEF ServesPress
<1>7. CASE ServesRelease
  <2>1. /\ pc = "drain" /\ UNCHANGED <<looks, down, saved, pc>>
        /\ queue' \in Seq([slot : Slots, pressed : BOOLEAN, by : {"pad", "swipe"}])
        /\ take' \in 0 .. Len(queue')
    BY <1>7 DEF ServesRelease, Serves
  <2>2. CASE EndActive /\ UNCHANGED grid
    <3>1. /\ active' # TheList /\ OfTheGrid(active') /\ OfTheGrid(ret')
          /\ active' # NoClip => active' = ret /\ current' = "clip"
          /\ current' \in {"none", "list", "clip"} /\ Effects' /\ Owned'
          /\ stopping => stopping'
      BY <2>2, Ended
    <3> QED
      BY <2>1, <2>2, <3>1
  <2>3. CASE CancelArm /\ UNCHANGED screen
    BY <2>1, <2>3, Dropped DEF CancelArm, DropsEffects
  <2>4. CASE ForgetsReturn(Event.slot) /\ UNCHANGED grid
    BY <2>1, <2>4 DEF ForgetsReturn
  <2> QED
    BY <1>7, <2>2, <2>3, <2>4 DEF ServesRelease
<1>8. CASE Drained
  BY <1>8 DEF Drained
<1>9. CASE SavesLook
  BY <1>9 DEF SavesLook
<1>10. CASE RecallsLook
  <2>1. CASE saved \in Slots /\ Arm(saved, "look") /\ pending' = TRUE
    BY <1>10, <2>1, Dropped DEF RecallsLook, Arm
  <2>2. CASE UNCHANGED grid
    BY <1>10, <2>2 DEF RecallsLook
  <2> QED
    BY <1>10, <2>1, <2>2 DEF RecallsLook
<1>11. CASE NoLook
  BY <1>11 DEF NoLook
<1>12. CASE StartBuild
  BY <1>12 DEF StartBuild
<1>13. CASE BuildEnds
  BY <1>13 DEF BuildEnds
<1>14. CASE StrayEnds
  BY <1>14 DEF StrayEnds
<1>15. CASE ArmWaits
  BY <1>15 DEF ArmWaits
<1>16. CASE ArmFailed
  BY <1>16 DEF ArmFailed, CancelArm, Abandoned, DropsEffects
<1>17. CASE Activate
  <2>1. PICK o \in Outcomes :
          /\ Swap("clip", o)
          /\ IF o = "stopped"
             THEN active' = NoClip /\ ret' = NoClip /\ UNCHANGED pending
             ELSE /\ active' = Clip(armed.slot, armed.by, pending)
                  /\ ret' = IF active = NoClip THEN TheList ELSE active
                  /\ pending' = FALSE
    BY <1>17 DEF Activate
  <2>2. /\ pc = "armed" /\ pc' = "active" /\ armed.stage = "built" /\ armed' = NoArm
        /\ UNCHANGED <<strays, surfaces, saved>>
    BY <1>17 DEF Activate
  <2>3. CASE o = "stopped"
    <3>1. current' = "none" /\ stopping' /\ active' = NoClip /\ ret' = NoClip /\ pending' = pending
      BY <2>1, <2>3 DEF Swap
    <3> QED
      BY <2>2, <3>1
  <2>4. CASE o # "stopped"
    <3>1. armed # NoArm /\ armed \in Arms
      BY <2>2
    <3>2. OfTheGrid(active') /\ IsClip(active')
      BY <2>1, <2>4, <3>1 DEF Clip
    <3>3. OfTheGrid(ret') /\ ret' # NoClip /\ current' = "clip"
      BY <2>1, <2>4 DEF Swap
    <3>4. Effects'
      BY <2>1, <2>4, <3>1 DEF Clip
    <3> QED
      BY <2>1, <2>2, <2>4, <3>2, <3>3, <3>4 DEF Swap
  <2> QED
    BY <2>3, <2>4
<1>18. CASE NothingDone
  BY <1>18 DEF NothingDone
<1>19. CASE LoopsAgain
  <2>1. PICK o \in Outcomes \ {"dud"} : Swap("clip", o)
    BY <1>19 DEF LoopsAgain
  <2>2. /\ current' \in {"none", "clip"} /\ (current' = "none" => stopping') /\ (stopping => stopping')
        /\ ret # NoClip
    BY <1>19, <2>1 DEF Swap, Outcomes, LoopsAgain
  <2> QED
    BY <1>19, <2>2 DEF LoopsAgain
<1>20. CASE ClipEnds
  <2>1. /\ active' # TheList /\ OfTheGrid(active') /\ OfTheGrid(ret')
        /\ active' # NoClip => active' = ret /\ current' = "clip"
        /\ current' \in {"none", "list", "clip"} /\ Effects' /\ Owned'
        /\ stopping => stopping'
    BY <1>20, Ended DEF ClipEnds
  <2> QED
    BY <1>20, <2>1 DEF ClipEnds
<1>21. CASE Advances
  BY <1>21 DEF Advances
<1>22. CASE Renders
  BY <1>22 DEF Renders
<1>23. CASE TearsDown
  BY <1>23 DEF TearsDown
<1>24. CASE UNCHANGED vars
  BY <1>24 DEF vars
<1> QED
  BY <1>1, <1>2, <1>3, <1>4, <1>5, <1>6, <1>7, <1>8, <1>9, <1>10, <1>11, <1>12, <1>13, <1>14,
     <1>15, <1>16, <1>17, <1>18, <1>19, <1>20, <1>21, <1>22, <1>23, <1>24 DEF Next

-----------------------------------------------------------------------------
(* Gates, where no look and no gesture launches them.  What a gate clip    *)
(* needs is that the queue tells the whole story of its pad: presses and   *)
(* releases alternate, the last one is how the pad is now, and the first   *)
(* one to come for a clip that is on, on its way or to be returned to is   *)
(* its release.                                                            *)

(* On screen, to be returned to, or armed.                                 *)
On(s) ==
    \/ active # NoClip /\ active.slot = s
    \/ IsClip(ret) /\ ret.slot = s
    \/ armed # NoArm /\ armed.slot = s

(* A gate's clip is one of these at a time.                                *)
Once ==
    /\ active # NoClip /\ active.slot \in Gates /\ IsClip(ret) => ret.slot # active.slot
    /\ active # NoClip /\ active.slot \in Gates /\ armed # NoArm => armed.slot # active.slot
    /\ IsClip(ret) /\ ret.slot \in Gates /\ armed # NoArm => armed.slot # ret.slot

PressAt(i, s) == queue[i].slot = s /\ queue[i].pressed
ReleaseAt(i, s) == queue[i].slot = s /\ ~queue[i].pressed

(* Between two presses of a gate there is a release of it.                 *)
Alternate(s) ==
    \A i, j \in 1 .. Len(queue) :
        i < j /\ PressAt(i, s) /\ PressAt(j, s)
            => \E k \in 1 .. Len(queue) : i < k /\ k < j /\ ReleaseAt(k, s)

(* A press not followed by a release is of a pad that is down.             *)
Last(s) ==
    \A i \in 1 .. Len(queue) :
        PressAt(i, s) => s \in down \/ \E k \in 1 .. Len(queue) : i < k /\ ReleaseAt(k, s)

(* A press of what is on comes behind a release of it.                     *)
First(s) ==
    \A i \in 1 .. Len(queue) :
        PressAt(i, s) => \E k \in 1 .. Len(queue) : k < i /\ ReleaseAt(k, s)

(* A clip that is on is held, or its release is to come.                   *)
Held(s) == s \in down \/ \E k \in 1 .. Len(queue) : ReleaseAt(k, s)

(* The story of one gate.                                                  *)
Gate(s) == Alternate(s) /\ Last(s) /\ (On(s) => First(s) /\ Held(s))

(* The inductive invariant of the gates.                                   *)
GInv == Once /\ saved \notin Gates /\ \A s \in Gates : Gate(s)

(* A step that leaves the pads and the queue alone, and turns no gate on.  *)
LEMMA Quiet ==
  ASSUME GInv, UNCHANGED <<queue, down>>, saved' \notin Gates, Once', \A s \in Gates : On(s)' => On(s)
  PROVE  GInv'
<1> SUFFICES ASSUME NEW s \in Gates PROVE Gate(s)'
  BY DEF GInv
<1>1. Alternate(s)' /\ Last(s)'
  BY DEF GInv, Gate, Alternate, Last, PressAt, ReleaseAt
<1>2. On(s)' => First(s)' /\ Held(s)'
  BY DEF GInv, Gate, First, Held, PressAt, ReleaseAt
<1> QED
  BY <1>1, <1>2 DEF Gate

(* Serving an event: what a gate's events were, its later events are.      *)
LEMMA Shorter ==
  ASSUME NEW S, queue \in Seq(S), Len(queue) > 0, queue' = Tail(queue), down' = down,
         NEW s, Alternate(s), Last(s)
  PROVE  /\ Alternate(s)' /\ Last(s)'
         /\ PressAt(1, s) => First(s)' /\ Held(s)'
         /\ First(s) /\ Held(s) /\ queue[1].slot # s => First(s)' /\ Held(s)'
<1>1. Len(queue') = Len(queue) - 1 /\ \A i \in 1 .. Len(queue) - 1 : queue'[i] = queue[i + 1]
  OBVIOUS
<1>2. Len(queue) \in Nat
  OBVIOUS
<1>3. \A i \in 1 .. Len(queue') : i + 1 \in 1 .. Len(queue)
  BY <1>1, <1>2
<1>4. \A i \in 1 .. Len(queue') :
        (PressAt(i, s)' <=> PressAt(i + 1, s)) /\ (ReleaseAt(i, s)' <=> ReleaseAt(i + 1, s))
  BY <1>1, <1>2 DEF PressAt, ReleaseAt
<1>5. \A k \in 1 .. Len(queue) :
        k > 1 => k - 1 \in 1 .. Len(queue') /\ (ReleaseAt(k - 1, s)' <=> ReleaseAt(k, s))
  BY <1>1, <1>2 DEF ReleaseAt
<1>6. Alternate(s)'
  <2> SUFFICES ASSUME NEW i \in 1 .. Len(queue'), NEW j \in 1 .. Len(queue'), i < j,
                      PressAt(i, s)', PressAt(j, s)'
               PROVE  \E k \in 1 .. Len(queue') : i < k /\ k < j /\ ReleaseAt(k, s)'
    BY DEF Alternate
  <2>1. PICK k \in 1 .. Len(queue) : i + 1 < k /\ k < j + 1 /\ ReleaseAt(k, s)
    BY <1>2, <1>3, <1>4 DEF Alternate
  <2>2. i < k - 1 /\ k - 1 < j /\ k > 1
    BY <2>1, <1>1, <1>2
  <2> QED
    BY <2>1, <2>2, <1>5
<1>7. Last(s)'
  <2> SUFFICES ASSUME NEW i \in 1 .. Len(queue'), PressAt(i, s)', s \notin down
               PROVE  \E k \in 1 .. Len(queue') : i < k /\ ReleaseAt(k, s)'
    BY DEF Last
  <2>1. PICK k \in 1 .. Len(queue) : i + 1 < k /\ ReleaseAt(k, s)
    BY <1>2, <1>3, <1>4 DEF Last
  <2>2. i < k - 1 /\ k > 1
    BY <2>1, <1>1, <1>2
  <2> QED
    BY <2>1, <2>2, <1>5
<1>8. ASSUME PressAt(1, s) PROVE First(s)' /\ Held(s)'
  <2>1. ASSUME NEW i \in 1 .. Len(queue'), PressAt(i, s)'
        PROVE  \E k \in 1 .. Len(queue') : k < i /\ ReleaseAt(k, s)'
    <3>1. PICK k \in 1 .. Len(queue) : 1 < k /\ k < i + 1 /\ ReleaseAt(k, s)
      BY <1>2, <1>3, <1>4, <1>8, <2>1 DEF Alternate
    <3>2. k - 1 < i /\ k > 1
      BY <3>1, <1>1, <1>2
    <3> QED
      BY <3>1, <3>2, <1>5
  <2>2. s \in down \/ \E k \in 1 .. Len(queue) : 1 < k /\ ReleaseAt(k, s)
    BY <1>2, <1>8 DEF Last
  <2>3. Held(s)'
    BY <2>2, <1>5 DEF Held
  <2> QED
    BY <2>1, <2>3 DEF First
<1>9. ASSUME First(s), Held(s), queue[1].slot # s PROVE First(s)' /\ Held(s)'
  <2>0. ~ReleaseAt(1, s)
    BY <1>9 DEF ReleaseAt
  <2>1. ASSUME NEW i \in 1 .. Len(queue'), PressAt(i, s)'
        PROVE  \E k \in 1 .. Len(queue') : k < i /\ ReleaseAt(k, s)'
    <3>1. PICK k \in 1 .. Len(queue) : k < i + 1 /\ ReleaseAt(k, s)
      BY <1>2, <1>3, <1>4, <1>9, <2>1 DEF First
    <3>2. k > 1 /\ k - 1 < i
      BY <2>0, <3>1, <1>1, <1>2
    <3> QED
      BY <3>1, <3>2, <1>5
  <2>2. s \in down \/ \E k \in 1 .. Len(queue) : 1 < k /\ ReleaseAt(k, s)
    BY <1>9, <2>0 DEF Held
  <2>3. Held(s)'
    BY <2>2, <1>5 DEF Held
  <2> QED
    BY <2>1, <2>3 DEF First
<1> QED
  BY <1>6, <1>7, <1>8, <1>9

(* A new event of another slot changes nothing for s.                      *)
LEMMA Elsewhere ==
  ASSUME NEW S, queue \in Seq(S), NEW e \in S, queue' = Append(queue, e), NEW s, e.slot # s,
         s \in down' <=> s \in down, On(s)' = On(s), Gate(s)
  PROVE  Gate(s)'
<1>1. Len(queue') = Len(queue) + 1 /\ Len(queue) \in Nat /\ queue'[Len(queue) + 1] = e
  OBVIOUS
<1>2. \A i \in 1 .. Len(queue) : queue'[i] = queue[i] /\ i \in 1 .. Len(queue')
  OBVIOUS
<1>3. \A i \in 1 .. Len(queue') : PressAt(i, s)' => i \in 1 .. Len(queue) /\ PressAt(i, s)
  BY <1>1, <1>2 DEF PressAt
<1>4. \A i \in 1 .. Len(queue) : ReleaseAt(i, s) => i \in 1 .. Len(queue') /\ ReleaseAt(i, s)'
  BY <1>1, <1>2 DEF ReleaseAt
<1>5. Alternate(s)'
  BY <1>3, <1>4 DEF Gate, Alternate
<1>6. Last(s)'
  BY <1>3, <1>4 DEF Gate, Last
<1>7. On(s)' => First(s)' /\ Held(s)'
  BY <1>3, <1>4 DEF Gate, First, Held
<1> QED
  BY <1>5, <1>6, <1>7 DEF Gate

(* A press of a pad that was up goes on with its own story.                 *)
LEMMA OwnPress ==
  ASSUME NEW S, queue \in Seq(S), NEW e \in S, queue' = Append(queue, e), NEW s, e.slot = s, e.pressed,
         s \notin down, s \in down', On(s)' = On(s), Gate(s)
  PROVE  Gate(s)'
<1>1. Len(queue') = Len(queue) + 1 /\ Len(queue) \in Nat /\ queue'[Len(queue) + 1] = e
  OBVIOUS
<1>2. \A i \in 1 .. Len(queue) : queue'[i] = queue[i] /\ i \in 1 .. Len(queue')
  OBVIOUS
<1>3. \A i \in 1 .. Len(queue) :
        (PressAt(i, s)' <=> PressAt(i, s)) /\ (ReleaseAt(i, s)' <=> ReleaseAt(i, s))
  BY <1>2 DEF PressAt, ReleaseAt
<1>4. \A i \in 1 .. Len(queue) : PressAt(i, s) => \E k \in 1 .. Len(queue) : i < k /\ ReleaseAt(k, s)
  BY DEF Gate, Last
<1>5. Alternate(s)'
  <2> SUFFICES ASSUME NEW i \in 1 .. Len(queue'), NEW j \in 1 .. Len(queue'), i < j,
                      PressAt(i, s)', PressAt(j, s)'
               PROVE  \E k \in 1 .. Len(queue') : i < k /\ k < j /\ ReleaseAt(k, s)'
    BY DEF Alternate
  <2>1. i \in 1 .. Len(queue) /\ PressAt(i, s)
    BY <1>1, <1>3
  <2>2. CASE j \in 1 .. Len(queue)
    <3>1. PICK k \in 1 .. Len(queue) : i < k /\ k < j /\ ReleaseAt(k, s)
      BY <1>3, <2>1, <2>2 DEF Gate, Alternate
    <3> QED
      BY <1>2, <1>3, <3>1
  <2>3. CASE j = Len(queue) + 1
    <3>1. PICK k \in 1 .. Len(queue) : i < k /\ ReleaseAt(k, s)
      BY <1>4, <2>1
    <3> QED
      BY <1>1, <1>2, <1>3, <2>3, <3>1
  <2> QED
    BY <1>1, <2>2, <2>3
<1>6. Last(s)'
  BY DEF Last
<1>7. ASSUME On(s) PROVE First(s)'
  <2> SUFFICES ASSUME NEW i \in 1 .. Len(queue'), PressAt(i, s)'
               PROVE  \E k \in 1 .. Len(queue') : k < i /\ ReleaseAt(k, s)'
    BY DEF First
  <2>1. CASE i \in 1 .. Len(queue)
    <3>1. PICK k \in 1 .. Len(queue) : k < i /\ ReleaseAt(k, s)
      BY <1>3, <1>7, <2>1 DEF Gate, First
    <3> QED
      BY <1>2, <1>3, <3>1
  <2>2. CASE i = Len(queue) + 1
    <3>1. PICK k \in 1 .. Len(queue) : ReleaseAt(k, s)
      BY <1>7 DEF Gate, Held
    <3> QED
      BY <1>1, <1>2, <1>3, <2>2, <3>1
  <2> QED
    BY <1>1, <2>1, <2>2
<1>8. Held(s)'
  BY DEF Held
<1> QED
  BY <1>5, <1>6, <1>7, <1>8 DEF Gate

(* So does its release.                                                     *)
LEMMA OwnRelease ==
  ASSUME NEW S, queue \in Seq(S), NEW e \in S, queue' = Append(queue, e), NEW s, e.slot = s, ~e.pressed,
         On(s)' = On(s), Gate(s)
  PROVE  Gate(s)'
<1>1. Len(queue') = Len(queue) + 1 /\ Len(queue) \in Nat /\ queue'[Len(queue) + 1] = e
  OBVIOUS
<1>2. \A i \in 1 .. Len(queue) : queue'[i] = queue[i] /\ i \in 1 .. Len(queue')
  OBVIOUS
<1>3. \A i \in 1 .. Len(queue') : PressAt(i, s)' => i \in 1 .. Len(queue) /\ PressAt(i, s)
  BY <1>1, <1>2 DEF PressAt
<1>4. \A i \in 1 .. Len(queue) : ReleaseAt(i, s) => i \in 1 .. Len(queue') /\ ReleaseAt(i, s)'
  BY <1>1, <1>2 DEF ReleaseAt
<1>0. PICK n \in Nat : n = Len(queue) + 1
  BY <1>1
<1>5. ReleaseAt(n, s)' /\ n \in 1 .. Len(queue')
  BY <1>0, <1>1 DEF ReleaseAt
<1>6. Alternate(s)'
  BY <1>3, <1>4 DEF Gate, Alternate
<1>7. Last(s)'
  <2> SUFFICES ASSUME NEW i \in 1 .. Len(queue'), PressAt(i, s)'
               PROVE  \E k \in 1 .. Len(queue') : i < k /\ ReleaseAt(k, s)'
    BY DEF Last
  <2>1. i < n
    BY <1>0, <1>1, <1>3
  <2> QED
    BY <1>5, <2>1
<1>8. On(s)' => First(s)' /\ Held(s)'
  BY <1>3, <1>4, <1>5 DEF Gate, First, Held
<1> QED
  BY <1>6, <1>7, <1>8 DEF Gate

(* A clip that ends turns nothing on.                                       *)
LEMMA EndedGates ==
  ASSUME IInv, GInv, EndActive, UNCHANGED grid
  PROVE  /\ Once' /\ \A s \in Gates : On(s)' => On(s)
         /\ \A s \in Gates : active # NoClip /\ active.slot = s => ~On(s)'
<1>1. /\ active' # NoClip => active' = ret
      /\ ~IsClip(ret') /\ active' # TheList /\ armed' = armed
  BY Ended DEF grid
<1> QED
  BY <1>1 DEF GInv, Once, On, IsClip

(* Nothing is on, and nothing queued.                                       *)
LEMMA GInvInit == Init => GInv
BY Grid DEF Init, GInv, Once, Gate, Alternate, Last, First, Held, On, PressAt, ReleaseAt, IsClip,
   NoClip, NoArm

(* Every step keeps the story of every gate.                                *)
LEMMA GInvStep ==
  ASSUME HandsFreeGates = FALSE, IInv, GInv, [Next]_vars
  PROVE  GInv'
<1> DEFINE Events == [slot : Slots, pressed : BOOLEAN, by : {"pad", "swipe"}]
<1> USE Grid
<1>0. queue \in Seq(Events) /\ down \subseteq Gates /\ Gates \subseteq Slots
  BY DEF IInv, TypeOK
<1>1. ASSUME NEW s \in Slots, Press(s) PROVE GInv'
  <2>1. PICK e \in Events : e.slot = s /\ e.pressed /\ queue' = Append(queue, e)
    BY <1>1 DEF Press, Enqueue
  <2>2. /\ s \notin down /\ down' = down \cup ({s} \cap Gates) /\ UNCHANGED <<grid, screen, saved>>
    BY <1>1 DEF Press, Enqueue
  <2>3. Once' /\ saved' \notin Gates /\ \A t \in Gates : On(t)' = On(t)
    BY <2>2 DEF GInv, Once, On, grid, screen
  <2>4. ASSUME NEW t \in Gates PROVE Gate(t)'
    <3>1. Gate(t) /\ On(t)' = On(t)
      BY <2>3 DEF GInv
    <3>2. CASE t = s
      <4>1. s \in down'
        BY <2>2, <3>2
      <4> QED
        BY <1>0, <2>1, <2>2, <3>1, <3>2, <4>1, OwnPress
    <3>3. CASE t # s
      <4>1. t \in down' <=> t \in down
        BY <2>2, <3>3
      <4> QED
        BY <1>0, <2>1, <3>1, <3>3, <4>1, Elsewhere
    <3> QED
      BY <3>2, <3>3
  <2> QED
    BY <2>3, <2>4 DEF GInv
<1>2. ASSUME NEW s \in Slots, Release(s) PROVE GInv'
  <2>1. PICK e \in Events : e.slot = s /\ ~e.pressed /\ queue' = Append(queue, e)
    BY <1>2 DEF Release, Enqueue
  <2>2. down' = down \ {s} /\ UNCHANGED <<grid, screen, saved>>
    BY <1>2 DEF Release, Enqueue
  <2>3. Once' /\ saved' \notin Gates /\ \A t \in Gates : On(t)' = On(t)
    BY <2>2 DEF GInv, Once, On, grid, screen
  <2>4. ASSUME NEW t \in Gates PROVE Gate(t)'
    <3>1. Gate(t) /\ On(t)' = On(t)
      BY <2>3 DEF GInv
    <3>2. CASE t = s
      BY <1>0, <2>1, <3>1, <3>2, OwnRelease
    <3>3. CASE t # s
      <4>1. t \in down' <=> t \in down
        BY <2>2, <3>3
      <4> QED
        BY <1>0, <2>1, <3>1, <3>3, <4>1, Elsewhere
    <3> QED
      BY <3>2, <3>3
  <2> QED
    BY <2>3, <2>4 DEF GInv
<1>3. ASSUME NEW s \in Slots, AdvanceClip(s) PROVE GInv'
  <2>1. PICK e \in Events : e.slot = s /\ queue' = Append(queue, e)
    BY <1>3 DEF AdvanceClip, Enqueue
  <2>2. s \notin Gates /\ down' = down /\ UNCHANGED <<grid, screen, saved>>
    BY <1>3 DEF AdvanceClip, Enqueue
  <2>3. Once' /\ saved' \notin Gates /\ \A t \in Gates : On(t)' = On(t)
    BY <2>2 DEF GInv, Once, On, grid, screen
  <2>4. ASSUME NEW t \in Gates PROVE Gate(t)'
    <3>1. Gate(t) /\ On(t)' = On(t)
      BY <2>3 DEF GInv
    <3>2. t # s /\ (t \in down' <=> t \in down)
      BY <2>2
    <3> QED
      BY <1>0, <2>1, <3>1, <3>2, Elsewhere
  <2> QED
    BY <2>3, <2>4 DEF GInv
<1>4. CASE ServesPress
  <2>1. /\ Len(queue) > 0 /\ queue' = Tail(queue) /\ Event = queue[1] /\ queue[1].pressed
        /\ UNCHANGED <<down, saved>>
    BY <1>0, <1>4 DEF ServesPress, Serves, Event, IInv, TypeOK
  <2>2. \A t \in Gates : On(t) => queue[1].slot # t
    BY <1>0, <2>1 DEF GInv, Gate, First, PressAt
  <2>3. Once' /\ \A t \in Gates : On(t)' => On(t) \/ queue[1].slot = t
    <3>1. CASE EndActive /\ UNCHANGED grid
      BY <3>1, EndedGates
    <3>2. CASE Arm(Event.slot, Event.by) /\ UNCHANGED screen
      BY <2>1, <2>2, <3>2 DEF GInv, Once, On, Arm, screen
    <3> QED
      BY <1>4, <3>1, <3>2 DEF ServesPress
  <2>4. ASSUME NEW t \in Gates PROVE Gate(t)'
    <3>1. Gate(t)
      BY DEF GInv
    <3>2. /\ Alternate(t)' /\ Last(t)'
          /\ PressAt(1, t) => First(t)' /\ Held(t)'
          /\ First(t) /\ Held(t) /\ queue[1].slot # t => First(t)' /\ Held(t)'
      BY <1>0, <2>1, <3>1, Shorter DEF Gate
    <3>3. CASE queue[1].slot = t
      BY <2>1, <3>2, <3>3 DEF Gate, PressAt
    <3>4. CASE queue[1].slot # t
      BY <2>3, <3>1, <3>2, <3>4 DEF Gate
    <3> QED
      BY <3>3, <3>4
  <2> QED
    BY <2>1, <2>3, <2>4 DEF GInv
<1>5. CASE ServesRelease
  <2>1. /\ Len(queue) > 0 /\ queue' = Tail(queue) /\ Event = queue[1]
        /\ UNCHANGED <<down, saved>>
    BY <1>0, <1>5 DEF ServesRelease, Serves, Event, IInv, TypeOK
  <2>2. Once' /\ \A t \in Gates : On(t)' => On(t) /\ queue[1].slot # t
    <3>1. CASE IsOn(Event.slot) /\ EndActive /\ UNCHANGED grid
      BY <2>1, <3>1, EndedGates DEF IsOn
    <3>2. CASE ~IsOn(Event.slot) /\ IsArmed(Event.slot) /\ CancelArm /\ UNCHANGED screen
      BY <2>1, <3>2 DEF GInv, Once, On, IsOn, IsArmed, CancelArm, screen
    <3>3. CASE ~IsOn(Event.slot) /\ ~IsArmed(Event.slot) /\ ForgetsReturn(Event.slot) /\ UNCHANGED grid
      BY <2>1, <3>3 DEF GInv, Once, On, IsOn, IsArmed, ForgetsReturn, grid, IsClip
    <3> QED
      BY <1>5, <3>1, <3>2, <3>3 DEF ServesRelease
  <2>3. ASSUME NEW t \in Gates PROVE Gate(t)'
    <3>1. Gate(t)
      BY DEF GInv
    <3>2. /\ Alternate(t)' /\ Last(t)'
          /\ First(t) /\ Held(t) /\ queue[1].slot # t => First(t)' /\ Held(t)'
      BY <1>0, <2>1, <3>1, Shorter DEF Gate
    <3> QED
      BY <2>2, <3>1, <3>2 DEF Gate
  <2> QED
    BY <2>1, <2>2, <2>3 DEF GInv
<1>6. ASSUME UNCHANGED <<queue, down>>, saved' \notin Gates, Once', \A s \in Gates : On(s)' => On(s)
      PROVE  GInv'
  BY <1>6, Quiet
<1>7. ASSUME NEW what \in {"save", "recall"}, EnqueueLook(what) PROVE GInv'
  <2>1. UNCHANGED <<queue, down>> /\ saved' \notin Gates
    BY <1>7, Grid DEF EnqueueLook, GInv, surfaces
  <2>2. Once' /\ \A s \in Gates : On(s)' => On(s)
    BY <1>7 DEF EnqueueLook, GInv, Once, On, IsClip, surfaces, grid, screen
  <2> QED
    BY <1>6, <2>1, <2>2
<1>8. CASE Reconcile
  <2>1. UNCHANGED <<queue, down>> /\ saved' \notin Gates
    BY <1>8, Grid DEF Reconcile, GInv, surfaces
  <2>2. Once' /\ \A s \in Gates : On(s)' => On(s)
    BY <1>8 DEF Reconcile, CancelArm, NoArm, GInv, Once, On, IsClip, surfaces, grid, screen
  <2> QED
    BY <1>6, <2>1, <2>2
<1>9. CASE Drained
  <2>1. UNCHANGED <<queue, down>> /\ saved' \notin Gates
    BY <1>9, Grid DEF Drained, GInv, surfaces
  <2>2. Once' /\ \A s \in Gates : On(s)' => On(s)
    BY <1>9 DEF Drained, GInv, Once, On, IsClip, surfaces, grid, screen
  <2> QED
    BY <1>6, <2>1, <2>2
<1>10. CASE SavesLook
  <2>1. UNCHANGED <<queue, down>> /\ saved' \notin Gates
    BY <1>10, Grid DEF SavesLook, GInv, surfaces
  <2>2. Once' /\ \A s \in Gates : On(s)' => On(s)
    BY <1>10 DEF SavesLook, GInv, Once, On, IsClip, surfaces, grid, screen
  <2> QED
    BY <1>6, <2>1, <2>2
<1>11. CASE RecallsLook
  <2>1. UNCHANGED <<queue, down>> /\ saved' \notin Gates
    BY <1>11, Grid DEF RecallsLook, GInv, surfaces
  <2>2. Once' /\ \A s \in Gates : On(s)' => On(s)
    BY <1>11 DEF RecallsLook, Arm, IInv, TypeOK, GInv, Once, On, IsClip, surfaces, grid, screen
  <2> QED
    BY <1>6, <2>1, <2>2
<1>12. CASE NoLook
  <2>1. UNCHANGED <<queue, down>> /\ saved' \notin Gates
    BY <1>12, Grid DEF NoLook, GInv, surfaces
  <2>2. Once' /\ \A s \in Gates : On(s)' => On(s)
    BY <1>12 DEF NoLook, GInv, Once, On, IsClip, surfaces, grid, screen
  <2> QED
    BY <1>6, <2>1, <2>2
<1>13. CASE StartBuild
  <2>1. UNCHANGED <<queue, down>> /\ saved' \notin Gates
    BY <1>13, Grid DEF StartBuild, GInv, surfaces
  <2>2. Once' /\ \A s \in Gates : On(s)' => On(s)
    BY <1>13 DEF StartBuild, NoArm, Arms, Stages, IInv, TypeOK, GInv, Once, On, IsClip,
       surfaces, grid, screen
  <2> QED
    BY <1>6, <2>1, <2>2
<1>14. CASE BuildEnds
  <2>1. UNCHANGED <<queue, down>> /\ saved' \notin Gates
    BY <1>14, Grid DEF BuildEnds, GInv, surfaces
  <2>2. Once' /\ \A s \in Gates : On(s)' => On(s)
    BY <1>14 DEF BuildEnds, NoArm, Arms, Stages, IInv, TypeOK, GInv, Once, On, IsClip, surfaces,
       grid, screen
  <2> QED
    BY <1>6, <2>1, <2>2
<1>15. CASE StrayEnds
  <2>1. UNCHANGED <<queue, down>> /\ saved' \notin Gates
    BY <1>15, Grid DEF StrayEnds, GInv, surfaces
  <2>2. Once' /\ \A s \in Gates : On(s)' => On(s)
    BY <1>15 DEF StrayEnds, GInv, Once, On, IsClip, surfaces, grid, screen
  <2> QED
    BY <1>6, <2>1, <2>2
<1>16. CASE ArmWaits
  <2>1. UNCHANGED <<queue, down>> /\ saved' \notin Gates
    BY <1>16, Grid DEF ArmWaits, GInv, surfaces
  <2>2. Once' /\ \A s \in Gates : On(s)' => On(s)
    BY <1>16 DEF ArmWaits, GInv, Once, On, IsClip, surfaces, grid, screen
  <2> QED
    BY <1>6, <2>1, <2>2
<1>17. CASE ArmFailed
  <2>1. UNCHANGED <<queue, down>> /\ saved' \notin Gates
    BY <1>17, Grid DEF ArmFailed, GInv, surfaces
  <2>2. Once' /\ \A s \in Gates : On(s)' => On(s)
    BY <1>17 DEF ArmFailed, CancelArm, GInv, Once, On, IsClip, surfaces, grid, screen
  <2> QED
    BY <1>6, <2>1, <2>2
<1>18. CASE Activate
  <2>1. UNCHANGED <<queue, down>> /\ saved' \notin Gates
    BY <1>18, Grid DEF Activate, GInv, surfaces
  <2>2. Once' /\ \A s \in Gates : On(s)' => On(s)
    BY <1>18 DEF Activate, Swap, Clip, NoArm, NoClip, TheList, GInv, Once, On, IsClip, surfaces,
       grid, screen
  <2> QED
    BY <1>6, <2>1, <2>2
<1>19. CASE NothingDone
  <2>1. UNCHANGED <<queue, down>> /\ saved' \notin Gates
    BY <1>19, Grid DEF NothingDone, GInv, surfaces
  <2>2. Once' /\ \A s \in Gates : On(s)' => On(s)
    BY <1>19 DEF NothingDone, GInv, Once, On, IsClip, surfaces, grid, screen
  <2> QED
    BY <1>6, <2>1, <2>2
<1>20. CASE LoopsAgain
  <2>1. UNCHANGED <<queue, down>> /\ saved' \notin Gates
    BY <1>20, Grid DEF LoopsAgain, GInv, surfaces
  <2>2. Once' /\ \A s \in Gates : On(s)' => On(s)
    BY <1>20 DEF LoopsAgain, StartsOver, Swap, GInv, Once, On, IsClip, surfaces, grid, screen
  <2> QED
    BY <1>6, <2>1, <2>2
<1>21. CASE ClipEnds
  <2>1. Once' /\ \A s \in Gates : On(s)' => On(s)
    BY <1>21, EndedGates DEF ClipEnds
  <2>2. UNCHANGED <<queue, down, saved>> /\ saved \notin Gates
    BY <1>21 DEF ClipEnds, surfaces, GInv
  <2> QED
    BY <1>6, <2>1, <2>2
<1>22. CASE Advances
  <2>1. UNCHANGED <<queue, down>> /\ saved' \notin Gates
    BY <1>22, Grid DEF Advances, GInv, surfaces
  <2>2. Once' /\ \A s \in Gates : On(s)' => On(s)
    BY <1>22 DEF Advances, GInv, Once, On, IsClip, surfaces, grid, screen
  <2> QED
    BY <1>6, <2>1, <2>2
<1>23. CASE Renders
  <2>1. UNCHANGED <<queue, down>> /\ saved' \notin Gates
    BY <1>23, Grid DEF Renders, GInv, surfaces
  <2>2. Once' /\ \A s \in Gates : On(s)' => On(s)
    BY <1>23 DEF Renders, GInv, Once, On, IsClip, surfaces, grid, screen
  <2> QED
    BY <1>6, <2>1, <2>2
<1>24. CASE TearsDown
  <2>1. UNCHANGED <<queue, down>> /\ saved' \notin Gates
    BY <1>24, Grid DEF TearsDown, GInv, surfaces
  <2>2. Once' /\ \A s \in Gates : On(s)' => On(s)
    BY <1>24 DEF TearsDown, GInv, Once, On, IsClip, surfaces, grid, screen
  <2> QED
    BY <1>6, <2>1, <2>2
<1>25. CASE UNCHANGED vars
  <2>1. UNCHANGED <<queue, down>> /\ saved' \notin Gates /\ Once' /\ \A s \in Gates : On(s)' => On(s)
    BY <1>25 DEF vars, GInv, Once, On, IsClip, surfaces, grid, screen
  <2> QED
    BY <1>6, <2>1
<1> QED
  BY <1>1, <1>2, <1>3, <1>4, <1>5, <1>7, <1>8, <1>9, <1>10, <1>11, <1>12, <1>13, <1>14, <1>15,
     <1>16, <1>17, <1>18, <1>19, <1>20, <1>21, <1>22, <1>23, <1>24, <1>25 DEF Next

(* The invariant of a frame holds of every behaviour.                       *)
THEOREM Invariance == Spec => []IInv
BY IInvInit, IInvStep, PTL DEF Spec

(* Every variable that is not a flag keeps its type.                        *)
THEOREM TypeCorrect == Spec => []TypeOK
<1>1. IInv => TypeOK
  BY DEF IInv
<1> QED
  BY <1>1, Invariance, PTL

(* A clip on screen is the session's, and the session's clip is on screen.  *)
THEOREM ScreenIsOwnedHolds == Spec => []ScreenIsOwned
<1>1. IInv => ScreenIsOwned
  BY DEF IInv, Owned, Claimed, ScreenIsOwned
<1> QED
  BY <1>1, Invariance, PTL

(* A recalled look's effects reach its own clip, and no other.              *)
THEOREM LookGoesWithItsClipHolds == Spec => []LookGoesWithItsClip
<1>1. IInv => LookGoesWithItsClip
  BY DEF IInv, TypeOK, Effects, LookGoesWithItsClip, IsClip
<1> QED
  BY <1>1, Invariance, PTL

(* A gate clip is on screen only while its pad is held or its release has   *)
(* yet to be served, where no look and no gesture launches gates.           *)
THEOREM GateIsHeldHolds == ASSUME HandsFreeGates = FALSE PROVE Spec => []GateIsHeld
<1>1. Init => GInv
  BY GInvInit
<1>2. IInv /\ GInv /\ [Next]_vars => GInv'
  BY GInvStep
<1>3. GInv => GateIsHeld
  <2> SUFFICES ASSUME GInv, active # NoClip, active.slot \in Gates
               PROVE  active.slot \in down \/ ReleaseQueued(active.slot)
    BY DEF GateIsHeld
  <2>1. Held(active.slot)
    BY DEF GInv, Gate, On
  <2> QED
    BY <2>1 DEF Held, ReleaseAt, ReleaseQueued
<1> QED
  BY <1>1, <1>2, <1>3, Invariance, PTL DEF Spec
=============================================================================
