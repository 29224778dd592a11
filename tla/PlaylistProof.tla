--------------------------- MODULE PlaylistProof ---------------------------
(***************************************************************************)
(* Theorems about Playlist, for scene lists of any length and any number   *)
(* of requests, faults and tries of a lossy setup: no scene sets up over   *)
(* another or over damage not put back, and a leaked raster handler is     *)
(* owed a release.                                                         *)
(*                                                                         *)
(* What makes NothingUnderneath inductive is that drop_current leaves the  *)
(* machine alone when nothing is current: so nothing may be up then.  What *)
(* makes LeakIsOwed so is that a card never leaves a handler of its own.   *)
(***************************************************************************)
EXTENDS Playlist, TLAPS

(* What is up is what is current, and only a scene hooks a handler.         *)
Machine ==
  /\ up \in {"none", current}
  /\ irq = "own" => up = "scene"

(* A reload under way has its list.                                         *)
Reloading == pc = "swap" => swap # 0

(* A frame with nothing on screen is the last.                              *)
OnScreen ==
  /\ pc \in {"watch", "judge", "lossy", "retry", "linkwait", "setup"} => current # "none"
  /\ pc = "frame" /\ current = "none" => stop

(* From where a restore is owed every way leads through a teardown.         *)
Restores ==
  restoreOwed =>
    /\ current # "none"
    /\ \/ done /\ pc \in {"top", "reload", "swap", "advance", "fade", "tear"}
       \/ stop /\ pc = "frame"
       \/ pc = "exit"

(* The inductive invariant.                                                 *)
IInv == TypeOK /\ Machine /\ Reloading /\ OnScreen /\ Restores /\ NothingUnderneath

(* Losing writes stays within the bound.                                    *)
LEMMA Charged ==
  ASSUME TypeOK, NEW loses \in Loses, Charge(loses)
  PROVE  faults' \in 0..MaxFaults
<1> USE PlaylistAssumption DEF TypeOK
<1>1. CASE link = "down"
  BY <1>1 DEF Charge
<1>2. CASE link = "up" /\ faults < MaxFaults
  BY <1>2 DEF Charge
<1>3. CASE link = "up" /\ ~(faults < MaxFaults)
  <2>1. ~loses
    BY <1>3 DEF Loses
  <2> QED
    BY <1>3, <2>1 DEF Charge
<1> QED
  BY <1>1, <1>2, <1>3

(* drop_current leaves nothing up, and no restore owed.                     *)
LEMMA Dropped ==
  ASSUME IInv, DropCurrent
  PROVE  /\ current' = "none" /\ up' = "none" /\ irq' \in {"clean", "leaked"}
         /\ ~restoreOwed' /\ faults' \in 0..MaxFaults
<1> USE DEF IInv, TypeOK, Machine, Restores, Kinds
<1>1. CASE current = "none"
  BY <1>1 DEF DropCurrent, machine
<1>2. CASE current # "none"
  <2>1. PICK loses \in Loses : Charge(loses)
    BY <1>2 DEF DropCurrent, SafeTeardown
  <2>2. faults' \in 0..MaxFaults
    BY <2>1, Charged
  <2>3. up' = "none" /\ current' = "none" /\ ~restoreOwed'
    BY <1>2 DEF DropCurrent, SafeTeardown
  <2>4. irq' \in {"clean", "leaked"}
    BY <1>2 DEF DropCurrent, SafeTeardown, Unhooked
  <2> QED
    BY <2>2, <2>3, <2>4
<1> QED
  BY <1>1, <1>2

(* Before the first scene nothing is up, owed or asked for.                 *)
THEOREM IInvInit == Init => IInv
BY PlaylistAssumption DEF Init, IInv, TypeOK, Machine, Reloading, OnScreen, Restores,
   NothingUnderneath, Places, Kinds, NoJump

(* Every step of the run loop, request and fault keeps it.                  *)
THEOREM IInvStep == IInv /\ [Next]_vars => IInv'
<1> SUFFICES ASSUME IInv, [Next]_vars PROVE IInv'
  OBVIOUS
<1> USE PlaylistAssumption DEF IInv, TypeOK, Machine, Reloading, OnScreen, Restores, NothingUnderneath,
     Places, Kinds, NoJump, loopVars, machine, events
<1>1. CASE Leaves
  BY <1>1 DEF Leaves
<1>2. CASE NotPaused
  BY <1>2 DEF NotPaused
<1>3. CASE PauseDrops
  <2>1. DropCurrent
    BY <1>3 DEF PauseDrops
  <2>2. /\ current' = "none" /\ up' = "none" /\ irq' \in {"clean", "leaked"}
        /\ ~restoreOwed' /\ faults' \in 0..MaxFaults
    BY <2>1, Dropped
  <2> QED
    BY <1>3, <2>2 DEF PauseDrops
<1>4. CASE PauseReleases
  <2>1. PICK loses \in Loses :
          /\ Charge(loses)
          /\ irq' = IF owed /\ ~loses THEN "clean" ELSE irq
    BY <1>4 DEF PauseReleases
  <2>2. faults' \in 0..MaxFaults
    BY <2>1, Charged
  <2> QED
    BY <1>4, <2>1, <2>2 DEF PauseReleases
<1>5. CASE PauseIdles
  BY <1>5 DEF PauseIdles
<1>6. CASE PauseStops
  BY <1>6 DEF PauseStops
<1>7. CASE SeesResume
  BY <1>7 DEF SeesResume
<1>8. CASE Resumes
  BY <1>8 DEF Resumes
<1>9. CASE NoReload
  BY <1>9 DEF NoReload
<1>10. CASE ReloadTakes
  BY <1>10 DEF ReloadTakes
<1>11. CASE ReloadSwaps
  <2>1. DropCurrent
    BY <1>11 DEF ReloadSwaps
  <2>2. /\ current' = "none" /\ up' = "none" /\ irq' \in {"clean", "leaked"}
        /\ ~restoreOwed' /\ faults' \in 0..MaxFaults
    BY <2>1, Dropped
  <2> QED
    BY <1>11, <2>2 DEF ReloadSwaps
<1>12. CASE AdvanceFirst
  BY <1>12 DEF AdvanceFirst, Goes, Single
<1>13. CASE AdvancePlaying
  BY <1>13 DEF AdvancePlaying, Goes
<1>14. CASE AdvanceEnded
  BY <1>14 DEF AdvanceEnded, Single, Goes
<1>15. CASE OnlySceneFailed
  BY <1>15 DEF OnlySceneFailed, Single
<1>16. CASE CardJumps
  <2>1. DropCurrent
    BY <1>16 DEF CardJumps
  <2>2. /\ current' = "none" /\ up' = "none" /\ irq' \in {"clean", "leaked"}
        /\ ~restoreOwed' /\ faults' \in 0..MaxFaults
    BY <2>1, Dropped
  <2> QED
    BY <1>16, <2>2 DEF CardJumps, TakeJump, NoJump
<1>17. CASE CardEnds
  <2>1. DropCurrent
    BY <1>17 DEF CardEnds
  <2>2. /\ current' = "none" /\ up' = "none" /\ irq' \in {"clean", "leaked"}
        /\ ~restoreOwed' /\ faults' \in 0..MaxFaults
    BY <2>1, Dropped
  <2> QED
    BY <1>17, <2>2 DEF CardEnds
<1>18. CASE FadesOut
  BY <1>18 DEF FadesOut
<1>19. CASE SceneTornDown
  <2>1. DropCurrent
    BY <1>19 DEF SceneTornDown
  <2>2. /\ current' = "none" /\ up' = "none" /\ irq' \in {"clean", "leaked"}
        /\ ~restoreOwed' /\ faults' \in 0..MaxFaults
    BY <2>1, Dropped
  <2> QED
    BY <1>19, <2>2 DEF SceneTornDown
<1>20. CASE ChooseJump
  BY <1>20 DEF ChooseJump, Single, TakeJump
<1>21. CASE ChooseNext
  BY <1>21 DEF ChooseNext, Single
<1>22. CASE ChooseLap
  BY <1>22 DEF ChooseLap, Single, Goes
<1>23. CASE ChooseEnd
  BY <1>23 DEF ChooseEnd, Single
<1>24. CASE Announce
  BY <1>24 DEF Announce, BeginSetup
<1>25. CASE Cut
  BY <1>25 DEF Cut, BeginSetup
<1>26. CASE SetsUp
  <2>1. PICK loses \in Loses : Charge(loses)
    BY <1>26 DEF SetsUp
  <2>2. faults' \in 0..MaxFaults
    BY <2>1, Charged
  <2>3. /\ pc = "setup" /\ pc' \in {"lossy", "judge"} /\ up' = current
        /\ irq' \in {"clean", "own", "leaked"} /\ (irq' = "own" => current = "scene")
    BY <1>26 DEF SetsUp
  <2>4. UNCHANGED <<loop, n, index, current, spent, again, tries, unstartable, swap, restoreOwed, events, link>>
    BY <1>26 DEF SetsUp
  <2> QED
    BY <2>2, <2>3, <2>4
<1>27. CASE CountsLossy
  BY <1>27 DEF CountsLossy
<1>28. CASE LinkIsDown
  BY <1>28 DEF LinkIsDown, Goes
<1>29. CASE WaitStops
  BY <1>29 DEF WaitStops, Goes
<1>30. CASE TriesAgain
  <2>1. PICK loses \in Loses : Charge(loses)
    BY <1>30 DEF TriesAgain
  <2>2. faults' \in 0..MaxFaults
    BY <2>1, Charged
  <2>3. up' = "none" /\ irq' \in {"clean", "leaked"} /\ pc' = "setup" /\ current # "none"
    BY <1>30 DEF TriesAgain, Unhooked
  <2>4. ~restoreOwed'
    BY <1>30 DEF TriesAgain
  <2> QED
    BY <1>30, <2>2, <2>3, <2>4 DEF TriesAgain
<1>31. CASE SetUpAgain
  BY <1>31 DEF SetUpAgain
<1>32. CASE CardIsUp
  BY <1>32 DEF CardIsUp, Goes
<1>33. CASE ListedStarts
  BY <1>33 DEF ListedStarts, Single
<1>34. CASE ListedFails
  BY <1>34 DEF ListedFails, Single
<1>35. CASE SingleJudged
  BY <1>35 DEF SingleJudged, Single
<1>36. CASE FrameStops
  BY <1>36 DEF FrameStops, Goes
<1>37. CASE FailedEnds
  BY <1>37 DEF FailedEnds
<1>38. CASE Frame
  BY <1>38 DEF Frame, EndedBySetup, Single
<1>39. CASE NothingSeen
  BY <1>39 DEF NothingSeen
<1>40. CASE EndsForRestore
  BY <1>40 DEF EndsForRestore
<1>41. CASE RestartSeen
  BY <1>41 DEF RestartSeen, BeginSetup
<1>42. CASE Exits
  <2>1. DropCurrent
    BY <1>42 DEF Exits
  <2>2. /\ current' = "none" /\ up' = "none" /\ irq' \in {"clean", "leaked"}
        /\ ~restoreOwed' /\ faults' \in 0..MaxFaults
    BY <2>1, Dropped
  <2> QED
    BY <1>42, <2>2 DEF Exits
<1>43. CASE RequestSkip
  BY <1>43 DEF RequestSkip, Ask
<1>44. CASE RequestJump
  BY <1>44 DEF RequestJump, Ask, Single
<1>45. CASE RequestPause
  BY <1>45 DEF RequestPause, Ask
<1>46. CASE RequestResume
  BY <1>46 DEF RequestResume, Ask
<1>47. CASE RequestReload
  BY <1>47 DEF RequestReload, Ask
<1>48. CASE RequestStop
  BY <1>48 DEF RequestStop, Ask
<1>49. CASE JumpSkips
  BY <1>49 DEF JumpSkips
<1>50. CASE LinkFails
  BY <1>50 DEF LinkFails
<1>51. CASE LinkHeals
  BY <1>51 DEF LinkHeals
<1>52. CASE MachineRestarts
  BY <1>52 DEF MachineRestarts
<1>53. CASE UNCHANGED vars
  BY <1>53 DEF vars
<1> QED
  BY <1>1, <1>2, <1>3, <1>4, <1>5, <1>6, <1>7, <1>8, <1>9, <1>10, <1>11, <1>12, <1>13, <1>14,
     <1>15, <1>16, <1>17, <1>18, <1>19, <1>20, <1>21, <1>22, <1>23, <1>24, <1>25, <1>26, <1>27,
     <1>28, <1>29, <1>30, <1>31, <1>32, <1>33, <1>34, <1>35, <1>36, <1>37, <1>38, <1>39, <1>40,
     <1>41, <1>42, <1>43, <1>44, <1>45, <1>46, <1>47, <1>48, <1>49, <1>50, <1>51, <1>52, <1>53
     DEF Next, Run, Asks, Environment

(* A leak stays owed while no card's setup raises.                          *)
LEMMA LeakStep ==
  ASSUME CardMayRaise = FALSE, IInv, LeakIsOwed, [Next]_vars
  PROVE  LeakIsOwed'
<1> USE PlaylistAssumption DEF IInv, TypeOK, Machine, OnScreen, Restores, LeakIsOwed, Places, Kinds,
     loopVars, machine, events
<1>1. CASE Leaves
  BY <1>1 DEF Leaves
<1>2. CASE NotPaused
  BY <1>2 DEF NotPaused
<1>3. CASE PauseDrops
  BY <1>3 DEF PauseDrops, DropCurrent, SafeTeardown, Loses, Charge, Unhooked
<1>4. CASE PauseReleases
  BY <1>4 DEF PauseReleases, Loses, Charge
<1>5. CASE PauseIdles
  BY <1>5 DEF PauseIdles
<1>6. CASE PauseStops
  BY <1>6 DEF PauseStops
<1>7. CASE SeesResume
  BY <1>7 DEF SeesResume
<1>8. CASE Resumes
  BY <1>8 DEF Resumes
<1>9. CASE NoReload
  BY <1>9 DEF NoReload
<1>10. CASE ReloadTakes
  BY <1>10 DEF ReloadTakes
<1>11. CASE ReloadSwaps
  BY <1>11 DEF ReloadSwaps, DropCurrent, SafeTeardown, Loses, Charge, Unhooked
<1>12. CASE AdvanceFirst
  BY <1>12 DEF AdvanceFirst, Goes, Single
<1>13. CASE AdvancePlaying
  BY <1>13 DEF AdvancePlaying, Goes
<1>14. CASE AdvanceEnded
  BY <1>14 DEF AdvanceEnded, Single, Goes
<1>15. CASE OnlySceneFailed
  BY <1>15 DEF OnlySceneFailed, Single
<1>16. CASE CardJumps
  BY <1>16 DEF CardJumps, TakeJump, DropCurrent, SafeTeardown, Loses, Charge, Unhooked
<1>17. CASE CardEnds
  BY <1>17 DEF CardEnds, DropCurrent, SafeTeardown, Loses, Charge, Unhooked
<1>18. CASE FadesOut
  BY <1>18 DEF FadesOut
<1>19. CASE SceneTornDown
  BY <1>19 DEF SceneTornDown, DropCurrent, SafeTeardown, Loses, Charge, Unhooked
<1>20. CASE ChooseJump
  BY <1>20 DEF ChooseJump, Single, TakeJump
<1>21. CASE ChooseNext
  BY <1>21 DEF ChooseNext, Single
<1>22. CASE ChooseLap
  BY <1>22 DEF ChooseLap, Single, Goes
<1>23. CASE ChooseEnd
  BY <1>23 DEF ChooseEnd, Single
<1>24. CASE Announce
  BY <1>24 DEF Announce, BeginSetup
<1>25. CASE Cut
  BY <1>25 DEF Cut, BeginSetup
<1>26. CASE SetsUp
  <2>1. pc = "setup" /\ UNCHANGED <<current, stop>> /\ current # "none"
    BY <1>26 DEF SetsUp
  <2>2. CASE current = "card"
    <3>1. irq' = "leaked" => pc' = "lossy"
      BY <1>26, <2>2 DEF SetsUp, SetupOutcomes
    <3> QED
      BY <2>1, <2>2, <3>1
  <2>3. CASE current # "card"
    <3>1. irq = "leaked" /\ ~stop => owed
      BY <2>3
    <3>2. irq' = "leaked" => irq = "leaked"
      BY <1>26 DEF SetsUp
    <3>3. irq' = "leaked" /\ owed => owed'
      BY <1>26, <2>3 DEF SetsUp
    <3> QED
      BY <2>1, <3>1, <3>2, <3>3
  <2> QED
    BY <2>2, <2>3
<1>27. CASE CountsLossy
  BY <1>27 DEF CountsLossy
<1>28. CASE LinkIsDown
  BY <1>28 DEF LinkIsDown, Goes
<1>29. CASE WaitStops
  BY <1>29 DEF WaitStops, Goes
<1>30. CASE TriesAgain
  BY <1>30 DEF TriesAgain, Loses, Unhooked, Charge
<1>31. CASE SetUpAgain
  BY <1>31 DEF SetUpAgain
<1>32. CASE CardIsUp
  BY <1>32 DEF CardIsUp, Goes
<1>33. CASE ListedStarts
  BY <1>33 DEF ListedStarts, Single
<1>34. CASE ListedFails
  BY <1>34 DEF ListedFails, Single
<1>35. CASE SingleJudged
  BY <1>35 DEF SingleJudged, Single
<1>36. CASE FrameStops
  BY <1>36 DEF FrameStops, Goes
<1>37. CASE FailedEnds
  BY <1>37 DEF FailedEnds
<1>38. CASE Frame
  BY <1>38 DEF Frame, EndedBySetup, Single
<1>39. CASE NothingSeen
  BY <1>39 DEF NothingSeen
<1>40. CASE EndsForRestore
  BY <1>40 DEF EndsForRestore
<1>41. CASE RestartSeen
  BY <1>41 DEF RestartSeen, BeginSetup
<1>42. CASE Exits
  BY <1>42 DEF Exits, DropCurrent, SafeTeardown, Loses, Charge, Unhooked
<1>43. CASE RequestSkip
  BY <1>43 DEF RequestSkip, Ask
<1>44. CASE RequestJump
  BY <1>44 DEF RequestJump, Ask, Single
<1>45. CASE RequestPause
  BY <1>45 DEF RequestPause, Ask
<1>46. CASE RequestResume
  BY <1>46 DEF RequestResume, Ask
<1>47. CASE RequestReload
  BY <1>47 DEF RequestReload, Ask
<1>48. CASE RequestStop
  BY <1>48 DEF RequestStop, Ask
<1>49. CASE JumpSkips
  BY <1>49 DEF JumpSkips
<1>50. CASE LinkFails
  BY <1>50 DEF LinkFails
<1>51. CASE LinkHeals
  BY <1>51 DEF LinkHeals
<1>52. CASE MachineRestarts
  BY <1>52 DEF MachineRestarts
<1>53. CASE UNCHANGED vars
  BY <1>53 DEF vars
<1> QED
  BY <1>1, <1>2, <1>3, <1>4, <1>5, <1>6, <1>7, <1>8, <1>9, <1>10, <1>11, <1>12, <1>13, <1>14,
     <1>15, <1>16, <1>17, <1>18, <1>19, <1>20, <1>21, <1>22, <1>23, <1>24, <1>25, <1>26, <1>27,
     <1>28, <1>29, <1>30, <1>31, <1>32, <1>33, <1>34, <1>35, <1>36, <1>37, <1>38, <1>39, <1>40,
     <1>41, <1>42, <1>43, <1>44, <1>45, <1>46, <1>47, <1>48, <1>49, <1>50, <1>51, <1>52, <1>53
     DEF Next, Run, Asks, Environment

(* The invariant holds of every behaviour of the run loop.                  *)
THEOREM Invariance == Spec => []IInv
BY IInvInit, IInvStep, PTL DEF Spec

(* Every variable that is not a flag keeps its type.                        *)
THEOREM TypeCorrect == Spec => []TypeOK
<1>1. IInv => TypeOK
  BY DEF IInv
<1> QED
  BY <1>1, Invariance, PTL

(* No scene sets up over another, and nothing is left behind.               *)
THEOREM NothingUnderneathHolds == Spec => []NothingUnderneath
<1>1. IInv => NothingUnderneath
  BY DEF IInv
<1> QED
  BY <1>1, Invariance, PTL

(* No setup over a restart or a crash whose damage is not put back.         *)
THEOREM RestoredBeforeSetupHolds == Spec => []RestoredBeforeSetup
<1>1. IInv => RestoredBeforeSetup
  BY DEF IInv, Restores, RestoredBeforeSetup
<1> QED
  BY <1>1, Invariance, PTL

(* A handler a teardown left hooked is owed a release until one clears it,  *)
(* if no card's setup raises.                                               *)
THEOREM LeakIsOwedHolds == ASSUME CardMayRaise = FALSE PROVE Spec => []LeakIsOwed
<1>1. Init => LeakIsOwed
  BY DEF Init, LeakIsOwed
<1>2. IInv /\ LeakIsOwed /\ [Next]_vars => LeakIsOwed'
  BY LeakStep
<1> QED
  BY <1>1, <1>2, Invariance, PTL DEF Spec
=============================================================================
