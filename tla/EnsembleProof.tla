--------------------------- MODULE EnsembleProof ---------------------------
(***************************************************************************)
(* Theorems about Ensemble, for any number of systems, any shows and any   *)
(* number of faults: what sounds holds the audio slot, or is cut off from a  *)
(* link that took it; the slot is never stranded, nobody holds a place in   *)
(* the line without polling, and no system misses a broadcast.              *)
(*                                                                         *)
(* None is inductive.  What sounds has to have claimed its slot before     *)
(* its setup and kept it through whatever came since, and a slot given up  *)
(* (an outage, an interlude, a card that lapsed) has to be claimed again   *)
(* before the next setup: IInv says at which steps of the run loop a       *)
(* system can have a claim, and at which it must.  Line adds that nobody   *)
(* is in the line twice, so that leaving it once is enough.  CastInv adds  *)
(* that the conductor of a broadcast stays on stage as long as it is on,   *)
(* and that nobody finds a resume event of an earlier one in it.           *)
(***************************************************************************)
EXTENDS Ensemble, SequenceTheorems, TLAPS

(* Something is up only on screen, between its setup and its teardown.      *)
Up(s) ==
  /\ up[s] => current[s] # "none"
  /\ pc[s] \notin {"top", "cast", "advance", "joining", "follow"} => ~up[s]

(* So is what a setup left on the machine, until its teardown.              *)
Live(s) ==
  live[s] => /\ current[s] = "scene"
             /\ pc[s] \in {"top", "cast", "advance", "joining", "sceneDown", "sceneBack", "exit"}

(* Where a system can have no claim.                                        *)
Unclaimed(s) ==
  /\ pc[s] \in {"resolve", "gated", "claim", "join", "wait", "paused", "follow", "cardDown",
                "ended"} => claimed[s] = {}
  /\ current[s] \in {"none", "follower"} /\ pc[s] # "announce" => claimed[s] = {}

(* A claim is the slot's, for the scene that is next or on.                 *)
Claim(s) == claimed[s] # {} => holder = s /\ claimed[s] = {index[s]}

(* A setup is of the scene.                                                 *)
SetupIsScene(s) ==
  pc[s] \in {"setup", "opened", "begun", "sceneDown", "sceneBack"} => current[s] = "scene"

(* A setup remembers a claim it gave up to an outage, and has none.         *)
Remembers(s) ==
  claimant[s] => pc[s] \in {"sceneDown", "sceneBack", "exit", "ended"} /\ claimed[s] = {}

(* Where a scene that competes has its claim, or knows that it gave it up.  *)
Plays(s) ==
  Competes(s, index[s]) =>
    /\ pc[s] \in {"setup", "opened", "begun"} => index[s] \in claimed[s]
    /\ current[s] = "scene" /\ up[s] => index[s] \in claimed[s]
    /\ live[s] \/ pc[s] \in {"sceneDown", "sceneBack"} => index[s] \in claimed[s] \/ claimant[s]

(* All this of one system.                                                  *)
Own(s) ==
  /\ Up(s) /\ Live(s) /\ Unclaimed(s) /\ Claim(s) /\ SetupIsScene(s) /\ Remembers(s)
  /\ Plays(s)

(* The holder has a claim.                                                  *)
Held == holder # Nobody => claimed[holder] # {}

(* Every flag has one entry per system.                                     *)
Flags ==
  /\ DOMAIN up = Systems /\ DOMAIN live = Systems /\ DOMAIN claimant = Systems

(* The inductive invariant.                                                 *)
IInv ==
  /\ TypeOK /\ Flags /\ Held
  /\ \A s \in Systems : Own(s)

(* A scene's place in its list.                                             *)
LEMMA Place == ASSUME NEW a \in Nat, NEW b \in Nat, b # 0 PROVE (a % b) + 1 \in 1 .. b
<1>1. a % b \in 0 .. b - 1
  OBVIOUS
<1> QED
  BY <1>1

(* A claim let go is gone, and the slot with it.                            *)
LEMMA ClaimReleased ==
  ASSUME IInv, NEW s \in Systems, ReleaseClaim(s, index[s])
  PROVE  claimed' = [claimed EXCEPT ![s] = {}] /\ holder' = IF holder = s THEN Nobody ELSE holder
<1> USE DEF IInv, Own, TypeOK, Held, Claim
<1>1. CASE index[s] \in claimed[s]
  BY <1>1 DEF ReleaseClaim, Release
<1>2. CASE index[s] \notin claimed[s]
  <2>1. claimed[s] = {} /\ holder # s
    BY <1>2, EnsembleAssumption
  <2> QED
    BY <1>2, <2>1 DEF ReleaseClaim
<1> QED
  BY <1>1, <1>2

(* So is that of whatever scene or card is dropped.                         *)
LEMMA LetGo ==
  ASSUME IInv, NEW s \in Systems, LetsGo(s), pc[s] # "announce"
  PROVE  /\ claimed' = [claimed EXCEPT ![s] = {}]
         /\ holder' = IF holder = s THEN Nobody ELSE holder
         /\ active' \in 0..2
<1>1. CASE current[s] = "scene"
  BY <1>1, ClaimReleased DEF LetsGo, TeardownScene, IInv, TypeOK
<1>2. CASE current[s] = "card"
  BY <1>2, ClaimReleased DEF LetsGo, IInv, TypeOK
<1>3. CASE current[s] \in {"none", "follower"}
  <2>1. claimed[s] = {} /\ holder # s
    BY <1>3, EnsembleAssumption DEF IInv, Own, Unclaimed, Held
  <2>2. UNCHANGED <<claimed, holder, active>>
    BY <1>3 DEF LetsGo
  <2> QED
    BY <2>1, <2>2 DEF IInv, TypeOK
<1> QED
  BY <1>1, <1>2, <1>3 DEF IInv, TypeOK

(* An interrupt is taken at once; what is done of it is for later.           *)
LEMMA InterruptTaken ==
  ASSUME IInv, NEW s \in Systems, NEW from, NEW to \in {"advance", "join", "resolve"},
         Interrupted(s, from, to)
  PROVE  /\ pc[s] = from /\ pc' \in [Systems -> Places]
         /\ pc' \in {[pc EXCEPT ![s] = to], [pc EXCEPT ![s] = "joining"]}
         /\ following' \in [Systems -> 0..2] /\ failed' \in [Systems -> 0..2]
         /\ back' \in [Systems -> {"advance", "join", "resolve"}]
<1> USE DEF IInv, TypeOK, Interrupted, At, To, Places
<1>1. CASE StaleInterrupt
  <2>1. pc[s] = from /\ pc' = [pc EXCEPT ![s] = to] /\ UNCHANGED <<following, failed, back>>
    BY <1>1
  <2> QED
    BY <2>1
<1>2. CASE ~StaleInterrupt
  <2>1. /\ following' = [following EXCEPT ![s] = active] /\ failed' = [failed EXCEPT ![s] = 0]
        /\ back' = [back EXCEPT ![s] = to]
    BY <1>2
  <2>2. pc' = [pc EXCEPT ![s] = "joining"]
    BY <1>2
  <2> QED
    BY <2>1, <2>2
<1> QED
  BY <1>1, <1>2

(* A step of s leaves the claims of the others, and the slot of whoever     *)
(* else has it.                                                             *)
LEMMA OfOne ==
  ASSUME IInv, NEW s \in Systems, TypeOK', Flags',
         \A t \in Systems \ {s} :
           /\ pc'[t] = pc[t] /\ index'[t] = index[t] /\ current'[t] = current[t]
           /\ up'[t] = up[t] /\ live'[t] = live[t]
           /\ claimed'[t] = claimed[t] /\ claimant'[t] = claimant[t],
         holder' = holder \/ (holder \in {s, Nobody} /\ holder' \in {s, Nobody}),
         holder' = s => claimed'[s] # {},
         Own(s)'
  PROVE  IInv'
<1>1. ASSUME NEW t \in Systems \ {s}
      PROVE  (Up(t) /\ Live(t) /\ Unclaimed(t) /\ SetupIsScene(t) /\ Remembers(t) /\ Plays(t))'
  BY <1>1 DEF IInv, Own, Up, Live, Unclaimed, SetupIsScene, Remembers, Plays, Competes
<1>2. ASSUME NEW t \in Systems \ {s} PROVE Claim(t)'
  BY <1>2, EnsembleAssumption DEF IInv, Own, Claim
<1>3. Held'
  BY EnsembleAssumption DEF IInv, Held, TypeOK
<1> QED
  BY <1>1, <1>2, <1>3 DEF IInv, Own

(* Before the first scene nobody has the slot.                              *)
THEOREM IInvInit == Init => IInv
<1> QED
  BY EnsembleAssumption DEF Init, IInv, Own, TypeOK, Flags, Held, Up, Live, Unclaimed, Claim,
     SetupIsScene, Remembers, Plays, Places, Scenes

(* Every step of a system's run loop, every fault and every request of an   *)
(* operator keeps it.                                                       *)
THEOREM IInvStep == IInv /\ [Next]_vars => IInv'
<1> SUFFICES ASSUME IInv, [Next]_vars PROVE IInv'
  OBVIOUS
<1> USE EnsembleAssumption DEF IInv, Own, TypeOK, Flags, Held, Up, Live, Unclaimed, Claim,
     SetupIsScene, Remembers, Plays, Places, Scenes, Single, slot, cast, local
<1>0. CASE AskStop \/ UNCHANGED vars
  BY <1>0 DEF AskStop, vars
<1> SUFFICES ASSUME NEW s \in Systems, Step(s) \/ Upset(s) PROVE IInv'
  BY <1>0 DEF Next
<1>1. CASE Exits(s)
  <2>1. LetsGo(s) /\ pc[s] # "announce"
    BY <1>1 DEF Exits, At, To, DropCurrent
  <2>2. claimed' = [claimed EXCEPT ![s] = {}] /\ holder' = (IF holder = s THEN Nobody ELSE holder)
        /\ active' \in 0..2
    BY <2>1, LetGo
  <2>3. (TypeOK /\ Flags)'
    BY <1>1, <2>2 DEF Exits, At, To, DropCurrent
  <2>4. Own(s)'
    BY <1>1, <2>2 DEF Exits, At, To, DropCurrent
  <2> QED
    BY <1>1, <2>2, <2>3, <2>4, OfOne DEF Exits, At, To, DropCurrent
<1>2. CASE Pauses(s)
  <2>1. LetsGo(s) /\ pc[s] # "announce"
    BY <1>2 DEF Pauses, At, To, DropCurrent
  <2>2. claimed' = [claimed EXCEPT ![s] = {}] /\ holder' = (IF holder = s THEN Nobody ELSE holder)
        /\ active' \in 0..2
    BY <2>1, LetGo
  <2>3. (TypeOK /\ Flags)'
    BY <1>2, <2>2 DEF Pauses, At, To, DropCurrent
  <2>4. Own(s)'
    BY <1>2, <2>2 DEF Pauses, At, To, DropCurrent
  <2> QED
    BY <1>2, <2>2, <2>3, <2>4, OfOne DEF Pauses, At, To, DropCurrent
<1>3. CASE Resumes(s)
  BY <1>3 DEF Resumes, At, To
<1>4. CASE PauseStops(s)
  BY <1>4 DEF PauseStops, At, Goes, To
<1>5. CASE NotPaused(s)
  BY <1>5 DEF NotPaused, At, Goes, To
<1>6. CASE NoInterrupt(s)
  BY <1>6 DEF NoInterrupt, At, Goes, To
<1>7. CASE InterruptedOnAir(s)
  <2>1. /\ pc[s] = "cast" /\ pc' \in [Systems -> Places]
        /\ pc' \in {[pc EXCEPT ![s] = "advance"], [pc EXCEPT ![s] = "joining"]}
        /\ following' \in [Systems -> 0..2] /\ failed' \in [Systems -> 0..2]
        /\ back' \in [Systems -> {"advance", "join", "resolve"}]
    BY <1>7, InterruptTaken DEF InterruptedOnAir
  <2>2. UNCHANGED <<slot, active, instance, index, current, up, live, claimed, claimant, probe,
                    faults>>
    BY <1>7 DEF InterruptedOnAir
  <2> QED
    BY <2>1, <2>2
<1>8. CASE InterruptedInLine(s)
  <2>1. PICK from \in {"wait", "gated"}, to \in {"join", "resolve"} :
          Interrupted(s, from, to)
    BY <1>8 DEF InterruptedInLine
  <2>2. /\ pc[s] \in {"wait", "gated"} /\ pc' \in [Systems -> Places]
        /\ pc' \in {[pc EXCEPT ![s] = "join"], [pc EXCEPT ![s] = "resolve"],
                   [pc EXCEPT ![s] = "joining"]}
        /\ following' \in [Systems -> 0..2] /\ failed' \in [Systems -> 0..2]
        /\ back' \in [Systems -> {"advance", "join", "resolve"}]
    BY <2>1, InterruptTaken
  <2>3. /\ UNCHANGED <<holder, active, instance, index, up, live, claimed, claimant, faults>>
        /\ current' = [current EXCEPT ![s] = "none"] /\ probe' = [probe EXCEPT ![s] = 0]
    BY <1>8 DEF InterruptedInLine
  <2>4. (TypeOK /\ Flags)'
    BY <2>2, <2>3
  <2>5. Own(s)'
    <3>1. pc'[s] \in {"join", "resolve", "joining"} /\ current'[s] = "none"
      BY <2>2, <2>3
    <3>2. ~up'[s] /\ ~live'[s] /\ ~claimant'[s] /\ claimed'[s] = {} /\ index' = index
      BY <2>2, <2>3
    <3> QED
      BY <3>1, <3>2
  <2> QED
    BY <2>2, <2>3, <2>4, <2>5, OfOne
<1>9. CASE Joins(s)
  <2>1. LetsGo(s) /\ pc[s] # "announce"
    BY <1>9 DEF Joins, At, To
  <2>2. claimed' = [claimed EXCEPT ![s] = {}] /\ holder' = (IF holder = s THEN Nobody ELSE holder)
        /\ active' \in 0..2
    BY <2>1, LetGo
  <2>3. (TypeOK /\ Flags)'
    BY <1>9, <2>2 DEF Joins, At, To
  <2>4. Own(s)'
    BY <1>9, <2>2 DEF Joins, At, To
  <2> QED
    BY <1>9, <2>2, <2>3, <2>4, OfOne DEF Joins, At, To
<1>10. CASE Unfollows(s)
  <2>1. /\ pc[s] = "follow" /\ pc' \in {[pc EXCEPT ![s] = "exit"], [pc EXCEPT ![s] = back[s]]}
        /\ current' = [current EXCEPT ![s] = "none"] /\ up' = [up EXCEPT ![s] = FALSE]
        /\ UNCHANGED <<slot, active, instance, index, live, claimed, claimant, probe, failed,
                       faults>>
        /\ back' = [back EXCEPT ![s] = "advance"] /\ following' = [following EXCEPT ![s] = 0]
    BY <1>10 DEF Unfollows, Returns, At, To
  <2>2. pc' \in [Systems -> Places] /\ pc'[s] \in {"exit", "advance", "join", "resolve"}
    <3>1. PICK to \in {"exit", "advance", "join", "resolve"} : pc' = [pc EXCEPT ![s] = to]
      BY <2>1
    <3> QED
      BY <3>1
  <2>3. (TypeOK /\ Flags)'
    BY <2>1, <2>2
  <2>4. Own(s)'
    <3>1. claimed'[s] = {} /\ current'[s] = "none" /\ ~up'[s] /\ ~live'[s] /\ ~claimant'[s]
      BY <2>1
    <3> QED
      BY <2>2, <3>1
  <2> QED
    BY <2>1, <2>3, <2>4, OfOne
<1>11. CASE AdvanceFirst(s)
  BY <1>11 DEF AdvanceFirst, At, Goes, To
<1>12. CASE Renders(s)
  BY <1>12 DEF Renders, At, Goes, To
<1>13. CASE MessageEnds(s)
  BY <1>13 DEF MessageEnds, At, Conducts, Kind, EndCast, To
<1>14. CASE SceneEnds(s)
  <2>1. LetsGo(s) /\ pc[s] # "announce"
    BY <1>14 DEF SceneEnds, At, To, DropCurrent
  <2>2. claimed' = [claimed EXCEPT ![s] = {}] /\ holder' = (IF holder = s THEN Nobody ELSE holder)
        /\ active' \in 0..2
    BY <2>1, LetGo
  <2>3. (TypeOK /\ Flags)'
    BY <1>14, <2>2 DEF SceneEnds, At, To, DropCurrent
  <2>4. Own(s)'
    BY <1>14, <2>2 DEF SceneEnds, At, To, DropCurrent
  <2>5. holder' = holder \/ (holder \in {s, Nobody} /\ holder' \in {s, Nobody})
    BY <1>14, <2>2 DEF SceneEnds, At, To, DropCurrent
  <2>6. holder' = s => claimed'[s] # {}
    BY <1>14, <2>2 DEF SceneEnds, At, To, DropCurrent
  <2>7. \A t \in Systems \ {s} :
          /\ pc'[t] = pc[t] /\ index'[t] = index[t] /\ current'[t] = current[t]
          /\ up'[t] = up[t] /\ live'[t] = live[t]
          /\ claimed'[t] = claimed[t] /\ claimant'[t] = claimant[t]
    BY <1>14, <2>2 DEF SceneEnds, At, To, DropCurrent
  <2> QED
    BY <2>3, <2>4, <2>5, <2>6, <2>7, OfOne
<1>15. CASE CardEnds(s)
  <2>1. pc' \in {[pc EXCEPT ![s] = "resolve"], [pc EXCEPT ![s] = "setup"]}
    BY <1>15 DEF CardEnds, To
  <2>2. current' \in {[current EXCEPT ![s] = "none"], [current EXCEPT ![s] = "scene"]}
    BY <1>15 DEF CardEnds
  <2>3. (TypeOK /\ Flags)'
    <3>1. pc' \in [Systems -> Places]
      BY <2>1
    <3>2. current' \in [Systems -> {"none", "card", "scene", "follower"}]
      BY <2>2
    <3>3. /\ DOMAIN up' = Systems /\ DOMAIN live' = Systems
          /\ UNCHANGED <<holder, active, instance, index, live, claimed, claimant, probe,
                         following, failed, back, faults>>
      BY <1>15 DEF CardEnds
    <3> QED
      BY <3>1, <3>2, <3>3
  <2>4. Own(s)'
    BY <1>15 DEF CardEnds, At, Competes, To
  <2> QED
    BY <1>15, <2>3, <2>4, OfOne DEF CardEnds, At, Competes, To
<1>16. CASE ResolveStops(s)
  BY <1>16 DEF ResolveStops, At, To
<1>17. CASE Resolves(s)
  <2>1. Candidate(s) \in Scenes(s) /\ Candidate(s) \in Nat
    <3>1. Len(Shows[s]) \in Nat \ {0} /\ index[s] - 1 + probe[s] \in Nat
      OBVIOUS
    <3>2. ((index[s] - 1 + probe[s]) % Len(Shows[s])) + 1 \in 1 .. Len(Shows[s])
      BY ONLY <3>1, Place
    <3>3. Candidate(s) \in 1 .. Len(Shows[s])
      BY ONLY <3>2 DEF Candidate
    <3>4. Scenes(s) = 1 .. Len(Shows[s])
      OBVIOUS
    <3> QED
      BY <3>3, <3>4
  <2>2. /\ claimed' \in [Systems -> SUBSET Nat]
        /\ \A t \in Systems : claimed'[t] \subseteq Scenes(t)
        /\ index' \in [Systems -> Nat] /\ \A t \in Systems : index'[t] \in Scenes(t)
    BY <1>17, <2>1 DEF Resolves
  <2>3. (TypeOK /\ Flags)'
    BY <1>17, <2>2 DEF Resolves, To
  <2>4. Own(s)'
    BY <1>17 DEF Resolves, At, Competes, Claimable, To
  <2>5. holder' = holder \/ (holder \in {s, Nobody} /\ holder' \in {s, Nobody})
    BY <1>17 DEF Resolves, At, Competes, Claimable, To
  <2>6. holder' = s => claimed'[s] # {}
    BY <1>17 DEF Resolves, At, Competes, Claimable, To
  <2>7. \A t \in Systems \ {s} :
          /\ pc'[t] = pc[t] /\ index'[t] = index[t] /\ current'[t] = current[t]
          /\ up'[t] = up[t] /\ live'[t] = live[t]
          /\ claimed'[t] = claimed[t] /\ claimant'[t] = claimant[t]
    BY <1>17 DEF Resolves, At, Competes, Claimable, To
  <2> QED
    BY <2>3, <2>4, <2>5, <2>6, <2>7, OfOne
<1>18. CASE Refused(s)
  <2>1. probe' \in [Systems -> Nat] /\ \A t \in Systems : probe'[t] <= Len(Shows[t])
    BY <1>18 DEF Refused
  <2>2. UNCHANGED <<slot, cast, pc, index, current, up, live, claimed, claimant, following,
                    failed, back, faults>>
    BY <1>18 DEF Refused
  <2> QED
    BY <2>1, <2>2 DEF Competes
<1>19. CASE AllGated(s)
  BY <1>19 DEF AllGated, At, To
<1>20. CASE PollsAgain(s)
  BY <1>20 DEF PollsAgain, At, To
<1>21. CASE NoClaimNeeded(s)
  <2>1. /\ pc[s] = "claim" /\ pc' = [pc EXCEPT ![s] = "setup"]
        /\ current' = [current EXCEPT ![s] = "scene"] /\ Shows[s][index[s]] # "audio"
        /\ UNCHANGED <<slot, cast, index, up, live, claimed, claimant, probe, following, failed,
                       back, faults>>
    BY <1>21 DEF NoClaimNeeded, At, Competes, To
  <2>2. (TypeOK /\ Flags /\ Held)'
    BY <2>1
  <2>3. Own(s)'
    BY <2>1 DEF Competes
  <2> QED
    BY <2>1, <2>2, <2>3, OfOne
<1>22. CASE Lines(s)
  BY <1>22 DEF Lines, At, Competes, To
<1>23. CASE Claims(s)
  <2>1. /\ pc[s] = "wait" /\ pc' = [pc EXCEPT ![s] = "setup"]
        /\ current' = [current EXCEPT ![s] = "scene"]
        /\ claimed' = [claimed EXCEPT ![s] = @ \cup {index[s]}]
        /\ holder \in {s, Nobody} /\ holder' = s
        /\ UNCHANGED <<cast, index, up, live, claimant, probe, following, failed, back, faults>>
    BY <1>23 DEF Claims, At, Claimable, To
  <2>2. (TypeOK /\ Flags)'
    BY <2>1
  <2>3. Own(s)'
    BY <2>1 DEF Competes
  <2>4. \A t \in Systems \ {s} :
          /\ pc'[t] = pc[t] /\ index'[t] = index[t] /\ current'[t] = current[t]
          /\ up'[t] = up[t] /\ live'[t] = live[t]
          /\ claimed'[t] = claimed[t] /\ claimant'[t] = claimant[t]
    BY <2>1
  <2>5. holder \in {s, Nobody} /\ holder' \in {s, Nobody} /\ (holder' = s => claimed'[s] # {})
    BY <2>1
  <2> QED
    BY <2>2, <2>3, <2>4, <2>5, OfOne
<1>24. CASE WaitStops(s)
  BY <1>24 DEF WaitStops, At, To
<1>25. CASE Announces(s)
  BY <1>25 DEF Announces, At, To
<1>26. CASE SetsUp(s)
  BY <1>26 DEF SetsUp, At, Kind, To
<1>27. CASE Begins(s)
  <2>1. pc' = [pc EXCEPT ![s] = "opened"] /\ pc[s] = "setup"
    BY <1>27 DEF Begins, At, To
  <2>2. active' \in 0..2 /\ instance' \in 1..2
    BY <1>27 DEF Begins, InstallsConductor
  <2>3. UNCHANGED <<slot, local, faults>>
    BY <1>27 DEF Begins
  <2>4. (TypeOK /\ Flags)'
    BY <2>1, <2>2, <2>3
  <2>5. Own(s)'
    BY <2>1, <2>3 DEF Competes
  <2>6. \A t \in Systems \ {s} :
          /\ pc'[t] = pc[t] /\ index'[t] = index[t] /\ current'[t] = current[t]
          /\ up'[t] = up[t] /\ live'[t] = live[t]
          /\ claimed'[t] = claimed[t] /\ claimant'[t] = claimant[t]
    BY <2>1, <2>3
  <2>7. holder' = holder /\ (holder' = s => claimed'[s] # {})
    BY <2>3
  <2> QED
    BY <2>4, <2>5, <2>6, <2>7, OfOne
<1>28. CASE Clears(s)
  BY <1>28 DEF Clears, At, To
<1>29. CASE Broadcasts(s)
  BY <1>29 DEF Broadcasts, At, To
<1>30. CASE SceneRetries(s)
  BY <1>30 DEF SceneRetries, At, To
<1>31. CASE CardRetries(s)
  BY <1>31 DEF CardRetries, At, Goes, To
<1>32. CASE OutageStops(s)
  BY <1>32 DEF OutageStops, Goes, To
<1>33. CASE Reloads(s)
  <2>1. LetsGo(s) /\ pc[s] # "announce"
    BY <1>33 DEF Reloads, At, DropCurrent
  <2>2. claimed' = [claimed EXCEPT ![s] = {}] /\ holder' = (IF holder = s THEN Nobody ELSE holder)
        /\ active' \in 0..2
    BY <2>1, LetGo
  <2>3. (TypeOK /\ Flags)'
    <3>1. index' \in [Systems -> Nat] /\ \A t \in Systems : index'[t] \in Scenes(t)
      BY <1>33 DEF Reloads
    <3>2. /\ current' \in [Systems -> {"none", "card", "scene", "follower"}]
          /\ DOMAIN up' = Systems /\ DOMAIN live' = Systems /\ faults' \in 0..MaxFaults
      BY <1>33 DEF Reloads, DropCurrent
    <3>3. UNCHANGED <<instance, pc, claimant, probe, following, failed, back>>
      BY <1>33 DEF Reloads
    <3> QED
      BY <2>2, <3>1, <3>2, <3>3
  <2>4. Own(s)'
    BY <1>33, <2>2 DEF Reloads, At, DropCurrent
  <2> QED
    BY <1>33, <2>2, <2>3, <2>4, OfOne DEF Reloads, At, DropCurrent
<1>34. CASE JoinFails(s)
  <2>1. LetsGo(s) /\ pc[s] # "announce"
    BY <1>34 DEF JoinFails, At, To, DropCurrent
  <2>2. claimed' = [claimed EXCEPT ![s] = {}] /\ holder' = (IF holder = s THEN Nobody ELSE holder)
        /\ active' \in 0..2
    BY <2>1, LetGo
  <2>3. (TypeOK /\ Flags)'
    <3>1. pc' \in [Systems -> Places]
      BY <1>34 DEF JoinFails, Returns, To
    <3>2. /\ following' \in [Systems -> 0..2] /\ failed' \in [Systems -> 0..2]
          /\ faults' \in 0..MaxFaults
      BY <1>34 DEF JoinFails, GivesUp
    <3>4. /\ current' \in [Systems -> {"none", "card", "scene", "follower"}]
          /\ DOMAIN up' = Systems /\ DOMAIN live' = Systems
      BY <1>34 DEF JoinFails, DropCurrent
    <3>3. UNCHANGED <<instance, index, claimant, probe>> /\ back' = [back EXCEPT ![s] = "advance"]
      BY <1>34 DEF JoinFails, Returns
    <3> QED
      BY <2>2, <3>1, <3>2, <3>3, <3>4
  <2>4. Own(s)'
    BY <1>34, <2>2 DEF JoinFails, Returns, At, To, DropCurrent
  <2> QED
    BY <1>34, <2>2, <2>3, <2>4, OfOne DEF JoinFails, Returns, At, To, DropCurrent
<1>35. CASE Jumps(s)
  <2>1. LetsGo(s) /\ pc[s] # "announce"
    BY <1>35 DEF Jumps, At, DropCurrent
  <2>2. claimed' = [claimed EXCEPT ![s] = {}] /\ holder' = (IF holder = s THEN Nobody ELSE holder)
        /\ active' \in 0..2
    BY <2>1, LetGo
  <2>5. index' \in [Systems -> Nat] /\ \A t \in Systems : index'[t] \in Scenes(t)
    BY <1>35 DEF Jumps
  <2>6. pc' \in [Systems -> Places]
    <3>1. PICK to \in {"claim", "resolve"} : pc' = [pc EXCEPT ![s] = to]
      BY <1>35 DEF Jumps
    <3> QED
      BY <3>1
  <2>3. (TypeOK /\ Flags)'
    BY <1>35, <2>2, <2>5, <2>6 DEF Jumps, DropCurrent
  <2>4. Own(s)'
    <3>1. pc[s] = "advance" /\ pc'[s] \in {"claim", "resolve"}
      BY <1>35 DEF Jumps, At
    <3>2. claimed'[s] = {} /\ current'[s] = "none" /\ ~up'[s] /\ ~live'[s] /\ ~claimant'[s]
      BY <1>35, <2>2, <3>1 DEF Jumps, DropCurrent
    <3> QED
      BY <3>1, <3>2
  <2> QED
    <3>1. \A t \in Systems \ {s} :
            /\ pc'[t] = pc[t] /\ index'[t] = index[t] /\ current'[t] = current[t]
            /\ up'[t] = up[t] /\ live'[t] = live[t]
            /\ claimed'[t] = claimed[t] /\ claimant'[t] = claimant[t]
      BY <1>35, <2>2 DEF Jumps, DropCurrent
    <3>2. holder' = holder \/ (holder \in {s, Nobody} /\ holder' \in {s, Nobody})
      BY <2>2
    <3>3. holder' # s
      BY <2>2
    <3> QED
      BY <2>3, <2>4, <3>1, <3>2, <3>3, OfOne
<1>36. CASE Restarts(s)
  <2>1. LetsGo(s) /\ pc[s] # "announce"
    BY <1>36 DEF Restarts, At, To, DropCurrent
  <2>2. claimed' = [claimed EXCEPT ![s] = {}] /\ holder' = (IF holder = s THEN Nobody ELSE holder)
        /\ active' \in 0..2
    BY <2>1, LetGo
  <2>3. (TypeOK /\ Flags)'
    <3>1. pc' \in [Systems -> Places]
      BY <1>36 DEF Restarts, To
    <3>2. /\ current' \in [Systems -> {"none", "card", "scene", "follower"}]
          /\ DOMAIN up' = Systems /\ DOMAIN live' = Systems /\ faults' \in 0..MaxFaults
      BY <1>36 DEF Restarts, DropCurrent
    <3>3. UNCHANGED <<instance, index, claimant, probe, following, failed, back>>
      BY <1>36 DEF Restarts
    <3> QED
      BY <2>2, <3>1, <3>2, <3>3
  <2>4. Own(s)'
    BY <1>36, <2>2 DEF Restarts, At, To, DropCurrent
  <2> QED
    BY <1>36, <2>2, <2>3, <2>4, OfOne DEF Restarts, At, To, DropCurrent
<1>37. CASE AnnounceMeetsOutage(s)
  <2>0. claimed' = [claimed EXCEPT ![s] = {}] /\ holder' = (IF holder = s THEN Nobody ELSE holder)
    BY <1>37, ClaimReleased DEF AnnounceMeetsOutage
  <2>3. (TypeOK /\ Flags)'
    BY <1>37, <2>0 DEF AnnounceMeetsOutage, At, To
  <2>4. Own(s)'
    BY <1>37, <2>0 DEF AnnounceMeetsOutage, At, To
  <2> QED
    BY <1>37, <2>0, <2>3, <2>4, OfOne DEF AnnounceMeetsOutage, At, To
<1>38. CASE SetupRaises(s)
  BY <1>38 DEF SetupRaises, At, InstallsConductor, Kind, To
<1>39. CASE SetupMeetsOutage(s)
  <2>0. claimed' = [claimed EXCEPT ![s] = {}] /\ holder' = (IF holder = s THEN Nobody ELSE holder)
    BY <1>39, ClaimReleased DEF SetupMeetsOutage
  <2>3. (TypeOK /\ Flags)'
    <3>1. pc' \in [Systems -> Places] /\ DOMAIN claimant' = Systems
      BY <1>39 DEF SetupMeetsOutage, To
    <3>2. active' \in 0..2 /\ instance' \in 1..2
      BY <1>39 DEF SetupMeetsOutage, InstallsConductor
    <3>3. /\ UNCHANGED <<index, current, up, probe, following, failed, back>>
          /\ DOMAIN live' = Systems /\ faults' \in 0..MaxFaults
      BY <1>39 DEF SetupMeetsOutage
    <3> QED
      BY <2>0, <3>1, <3>2, <3>3
  <2>4. Own(s)'
    BY <1>39, <2>0 DEF SetupMeetsOutage, InstallsConductor, Kind, At, To
  <2>5. holder' = holder \/ (holder \in {s, Nobody} /\ holder' \in {s, Nobody})
    BY <1>39, <2>0 DEF SetupMeetsOutage, InstallsConductor, Kind, At, To
  <2>6. holder' = s => claimed'[s] # {}
    BY <1>39, <2>0 DEF SetupMeetsOutage, InstallsConductor, Kind, At, To
  <2>7. \A t \in Systems \ {s} :
          /\ pc'[t] = pc[t] /\ index'[t] = index[t] /\ current'[t] = current[t]
          /\ up'[t] = up[t] /\ live'[t] = live[t]
          /\ claimed'[t] = claimed[t] /\ claimant'[t] = claimant[t]
    BY <1>39, <2>0 DEF SetupMeetsOutage, InstallsConductor, Kind, At, To
  <2> QED
    BY <2>3, <2>4, <2>5, <2>6, <2>7, OfOne
<1>40. CASE AskPause(s)
  BY <1>40 DEF AskPause
<1>41. CASE AskResume(s)
  BY <1>41 DEF AskResume
<1>42. CASE FollowerFails(s)
  <2>1. /\ pc[s] = "follow" /\ pc' = [pc EXCEPT ![s] = back[s]]
        /\ current' = [current EXCEPT ![s] = "none"] /\ up' = [up EXCEPT ![s] = FALSE]
        /\ UNCHANGED <<slot, active, instance, index, live, claimed, claimant, probe>>
        /\ back' = [back EXCEPT ![s] = "advance"]
    BY <1>42 DEF FollowerFails, Returns, At, To
  <2>2. /\ following' \in [Systems -> 0..2] /\ failed' \in [Systems -> 0..2]
        /\ faults' \in 0..MaxFaults
    BY <1>42 DEF FollowerFails, GivesUp
  <2> QED
    BY <2>1, <2>2
<1>43. CASE LinkAnswers(s)
  BY <1>43 DEF LinkAnswers, At, Goes, To
<1>44. CASE BigTextFails(s)
  BY <1>44 DEF BigTextFails, At, InstallsConductor, Kind, To
<1>45. CASE SetupLosesWrites(s)
  BY <1>45 DEF SetupLosesWrites, At, InstallsConductor, Kind, To
<1> QED
  BY <1>1, <1>2, <1>3, <1>4, <1>5, <1>6, <1>7, <1>8, <1>9, <1>10, <1>11, <1>12, <1>13, <1>14,
     <1>15, <1>16, <1>17, <1>18, <1>19, <1>20, <1>21, <1>22, <1>23, <1>24, <1>25, <1>26, <1>27,
     <1>28, <1>29, <1>30, <1>31, <1>32, <1>33, <1>34, <1>35, <1>36, <1>37, <1>38, <1>39, <1>40,
     <1>41, <1>42, <1>43, <1>44, <1>45 DEF Step, Upset, Follower

(* The invariant holds of every behaviour of the ensemble.                  *)
THEOREM Invariance == Spec => []IInv
BY IInvInit, IInvStep, PTL DEF Spec

(* Every variable that is not a flag keeps its type.                        *)
THEOREM TypeCorrect == Spec => []TypeOK
<1>1. IInv => TypeOK
  BY DEF IInv
<1> QED
  BY <1>1, Invariance, PTL

(* What sounds holds the slot, except for a scene cut off by the outage     *)
(* that took it, and that one only until its teardown.                      *)
THEOREM OneSoundsHolds == Spec => []OneSounds
<1>1. IInv => OneSounds
  BY DEF IInv, Own, Live, Remembers, Plays, Claim, OneSounds, Sounds, CutOff
<1> QED
  BY <1>1, Invariance, PTL

(* The slot is never stranded.                                              *)
THEOREM SlotIsUsedHolds == Spec => []SlotIsUsed
<1>1. IInv => SlotIsUsed
  <2> SUFFICES ASSUME IInv PROVE SlotIsUsed
    OBVIOUS
  <2>1. \A s \in Systems : claimed[s] # {} => holder = s /\ claimed[s] = {index[s]}
    BY DEF IInv, Own, Claim
  <2>2. ASSUME holder # Nobody
        PROVE  /\ claimed[holder] # {}
               /\ current[holder] \in {"card", "scene"} \/ pc[holder] = "announce"
    BY <2>2 DEF IInv, Own, TypeOK, Held, Unclaimed
  <2> QED
    BY <2>1, <2>2 DEF SlotIsUsed
<1> QED
  BY <1>1, Invariance, PTL

(* A step of s is about s: what the others do, play and follow is theirs.   *)
Elsewhere(s) ==
  \A t \in Systems \ {s} :
    /\ pc'[t] = pc[t] /\ index'[t] = index[t] /\ current'[t] = current[t]
    /\ following'[t] = following[t] /\ failed'[t] = failed[t]

(* Every step but a stop is such a step of some system.                    *)
LEMMA StepsAlone ==
  ASSUME NEW s \in Systems, TypeOK, Step(s) \/ Upset(s)
  PROVE  Elsewhere(s)
<1> USE DEF TypeOK, Elsewhere, At, To, Goes, local
<1>1. CASE Exits(s) \/ Pauses(s) \/ Resumes(s) \/ PauseStops(s) \/ NotPaused(s) \/ NoInterrupt(s)
  BY <1>1 DEF Exits, Pauses, Resumes, PauseStops, NotPaused, NoInterrupt, DropCurrent
<1>2. CASE InterruptedOnAir(s)
  BY <1>2 DEF InterruptedOnAir, Interrupted
<1>3. CASE InterruptedInLine(s)
  BY <1>3 DEF InterruptedInLine, Interrupted
<1>4. CASE Joins(s) \/ Unfollows(s)
  BY <1>4 DEF Joins, Unfollows, Returns
<1>5. CASE AdvanceFirst(s) \/ Renders(s) \/ MessageEnds(s) \/ SceneEnds(s)
  BY <1>5 DEF AdvanceFirst, Renders, MessageEnds, SceneEnds, DropCurrent
<1>6. CASE CardEnds(s)
  BY <1>6 DEF CardEnds
<1>7. CASE ResolveStops(s) \/ Resolves(s) \/ Refused(s) \/ AllGated(s) \/ PollsAgain(s)
  BY <1>7 DEF ResolveStops, Resolves, Refused, AllGated, PollsAgain
<1>8. CASE NoClaimNeeded(s) \/ Lines(s) \/ Claims(s) \/ WaitStops(s)
  BY <1>8 DEF NoClaimNeeded, Lines, Claims, WaitStops
<1>9. CASE Announces(s) \/ SetsUp(s) \/ Begins(s) \/ Clears(s) \/ Broadcasts(s)
  BY <1>9 DEF Announces, SetsUp, Begins, Clears, Broadcasts
<1>10. CASE LinkAnswers(s) \/ SceneRetries(s) \/ CardRetries(s) \/ OutageStops(s)
  BY <1>10 DEF LinkAnswers, SceneRetries, CardRetries, OutageStops
<1>11. CASE Reloads(s) \/ JoinFails(s) \/ FollowerFails(s)
  BY <1>11 DEF Reloads, JoinFails, FollowerFails, Returns, GivesUp, DropCurrent
<1>12. CASE Jumps(s)
  BY <1>12 DEF Jumps, DropCurrent
<1>13. CASE Restarts(s) \/ AnnounceMeetsOutage(s) \/ BigTextFails(s) \/ SetupRaises(s)
  BY <1>13 DEF Restarts, AnnounceMeetsOutage, BigTextFails, SetupRaises, DropCurrent
<1>15. CASE SetupMeetsOutage(s) \/ SetupLosesWrites(s)
  BY <1>15 DEF SetupMeetsOutage, SetupLosesWrites
<1>14. CASE AskPause(s) \/ AskResume(s)
  BY <1>14 DEF AskPause, AskResume
<1> QED
  BY <1>1, <1>2, <1>3, <1>4, <1>5, <1>6, <1>7, <1>8, <1>9, <1>10, <1>11, <1>12, <1>13, <1>14,
     <1>15 DEF Step, Upset, Follower

-----------------------------------------------------------------------------
(* The line. *)

(* Nobody stands in line twice.                                             *)
Once(q) == \A i, j \in DOMAIN q : q[i] = q[j] => i = j

(* Out of the line at i, the rest keep their order.                         *)
LEMMA RemovedAt ==
  ASSUME NEW S, NEW q \in Seq(S), NEW i \in 1 .. Len(q)
  PROVE  /\ RemoveAt(q, i) \in Seq(S) /\ Len(RemoveAt(q, i)) = Len(q) - 1
         /\ \A j \in 1 .. Len(q) - 1 : RemoveAt(q, i)[j] = IF j < i THEN q[j] ELSE q[j + 1]
<1> DEFINE a == SubSeq(q, 1, i - 1)
           b == SubSeq(q, i + 1, Len(q))
<1>1. Len(q) \in Nat /\ i \in Int /\ 1 =< i /\ i =< Len(q) /\ \A j \in 1 .. Len(q) : q[j] \in S
  BY LenProperties
<1>2. a \in Seq(S) /\ Len(a) = i - 1 /\ \A j \in 1 .. i - 1 : a[j] = q[j]
  <2>1. /\ SubSeq(q, 1, i - 1) \in Seq(S)
        /\ Len(SubSeq(q, 1, i - 1)) = IF 1 <= i - 1 THEN i - 1 - 1 + 1 ELSE 0
        /\ \A j \in 1 .. i - 1 - 1 + 1 : SubSeq(q, 1, i - 1)[j] = q[1 + j - 1]
    <3>1. i - 1 \in Int /\ \A j \in 1 .. i - 1 : q[j] \in S
      BY <1>1
    <3> QED
      BY <3>1, SubSeqProperties
  <2> QED
    BY <1>1, <2>1
<1>3. b \in Seq(S) /\ Len(b) = Len(q) - i /\ \A j \in 1 .. Len(q) - i : b[j] = q[i + j]
  <2>1. /\ SubSeq(q, i + 1, Len(q)) \in Seq(S)
        /\ Len(SubSeq(q, i + 1, Len(q))) = IF i + 1 <= Len(q) THEN Len(q) - (i + 1) + 1 ELSE 0
        /\ \A j \in 1 .. Len(q) - (i + 1) + 1 : SubSeq(q, i + 1, Len(q))[j] = q[i + 1 + j - 1]
    <3>1. i + 1 \in Int /\ Len(q) \in Int /\ \A j \in i + 1 .. Len(q) : q[j] \in S
      BY <1>1
    <3> QED
      BY <3>1, SubSeqProperties
  <2> QED
    BY <1>1, <2>1
<1> HIDE DEF a, b
<1>4. /\ a \o b \in Seq(S) /\ Len(a \o b) = Len(q) - 1
      /\ \A j \in 1 .. Len(q) - 1 : (a \o b)[j] = IF j <= i - 1 THEN a[j] ELSE b[j - (i - 1)]
  <2>1. /\ a \o b \in Seq(S) /\ Len(a \o b) = Len(a) + Len(b)
        /\ \A j \in 1 .. Len(a) + Len(b) : (a \o b)[j] = IF j <= Len(a) THEN a[j] ELSE b[j - Len(a)]
    BY <1>2, <1>3, ConcatProperties
  <2>2. Len(a) + Len(b) = Len(q) - 1
    BY <1>1, <1>2, <1>3
  <2> QED
    BY <1>2, <2>1, <2>2
<1>5. ASSUME NEW j \in 1 .. Len(q) - 1 PROVE (a \o b)[j] = IF j < i THEN q[j] ELSE q[j + 1]
  <2>1. CASE j < i
    BY <1>1, <1>2, <1>4, <2>1
  <2>2. CASE ~(j < i)
    <3>1. j - (i - 1) \in 1 .. Len(q) - i /\ i + (j - (i - 1)) = j + 1
      BY <1>1, <2>2
    <3>2. b[j - (i - 1)] = q[j + 1]
      BY <1>3, <3>1
    <3> QED
      BY <1>1, <1>4, <2>2, <3>2
  <2> QED
    BY <2>1, <2>2
<1>6. RemoveAt(q, i) = a \o b
  BY DEF RemoveAt, a, b
<1> QED
  BY <1>4, <1>5, <1>6

(* Leaving the line, one is out of it, and nobody else's place is doubled.  *)
LEMMA OutOfLine ==
  ASSUME NEW S, NEW q \in Seq(S), Once(q), NEW s
  PROVE  /\ RemoveFirst(q, s) \in Seq(S) /\ Once(RemoveFirst(q, s))
         /\ ToSet(RemoveFirst(q, s)) \subseteq ToSet(q) \ {s}
<1>1. Len(q) \in Nat /\ DOMAIN q = 1 .. Len(q)
  BY LenProperties
<1>2. CASE \A i \in 1 .. Len(q) : q[i] # s
  BY <1>1, <1>2 DEF RemoveFirst, ToSet
<1>3. ASSUME NEW i \in 1 .. Len(q), q[i] = s
      PROVE  /\ RemoveFirst(q, s) \in Seq(S) /\ Once(RemoveFirst(q, s))
             /\ ToSet(RemoveFirst(q, s)) \subseteq ToSet(q) \ {s}
  <2>1. {j \in 1 .. Len(q) : q[j] = s} = {i}
    BY <1>1, <1>3 DEF Once
  <2>2. Min({i}) = i
    BY <1>1 DEF Min
  <2>3. SelectInSeq(q, LAMBDA v : v = s) = i
    BY <2>1, <2>2 DEF SelectInSeq
  <2>4. RemoveFirst(q, s) = RemoveAt(q, i)
    BY <1>3, <2>3 DEF RemoveFirst
  <2> DEFINE r == RemoveAt(q, i)
  <2>5. /\ r \in Seq(S) /\ Len(r) = Len(q) - 1
        /\ \A j \in 1 .. Len(q) - 1 : r[j] = IF j < i THEN q[j] ELSE q[j + 1]
    BY RemovedAt
  <2>6. DOMAIN r = 1 .. Len(q) - 1
    BY <2>5, LenProperties
  <2> HIDE DEF r
  <2>7. \A j \in DOMAIN r : \E k \in DOMAIN q : k # i /\ r[j] = q[k] /\ k = IF j < i THEN j ELSE j + 1
    BY <1>1, <2>5, <2>6
  <2>8. Once(r)
    <3> SUFFICES ASSUME NEW j \in DOMAIN r, NEW k \in DOMAIN r, r[j] = r[k] PROVE j = k
      BY DEF Once
    <3>1. (IF j < i THEN j ELSE j + 1) = (IF k < i THEN k ELSE k + 1)
      BY <2>7 DEF Once
    <3>2. i \in Int /\ j \in Int /\ k \in Int
      BY <1>1, <2>6
    <3> QED
      BY <3>1, <3>2
  <2>9. ToSet(r) \subseteq ToSet(q) \ {s}
    BY <1>1, <1>3, <2>7 DEF ToSet, Once
  <2> QED
    BY <2>4, <2>5, <2>8, <2>9 DEF r
<1> QED
  BY <1>2, <1>3

(* Joining it, one is at its end.                                           *)
LEMMA AtItsEnd ==
  ASSUME NEW S, NEW q \in Seq(S), Once(q), NEW s \in S, s \notin ToSet(q)
  PROVE  /\ Append(q, s) \in Seq(S) /\ Once(Append(q, s))
         /\ ToSet(Append(q, s)) \subseteq ToSet(q) \cup {s}
<1> DEFINE r == Append(q, s)
<1>1. Len(q) \in Nat /\ DOMAIN q = 1 .. Len(q)
  BY LenProperties
<1>2. /\ r \in Seq(S) /\ Len(r) = Len(q) + 1
      /\ \A i \in 1 .. Len(q) : r[i] = q[i]
      /\ r[Len(q) + 1] = s
  BY AppendProperties
<1>3. DOMAIN r = 1 .. Len(q) + 1
  BY <1>2, LenProperties
<1> HIDE DEF r
<1>4. \A i \in DOMAIN r : (i \in DOMAIN q /\ r[i] = q[i]) \/ (i = Len(q) + 1 /\ r[i] = s)
  BY <1>1, <1>2, <1>3
<1>5. \A i \in DOMAIN q : q[i] # s
  BY DEF ToSet
<1>6. Once(r)
  BY <1>4, <1>5 DEF Once
<1>7. ToSet(r) \subseteq ToSet(q) \cup {s}
  BY <1>4 DEF ToSet
<1> QED
  BY <1>2, <1>6, <1>7 DEF r

(* Where a system tries for the slot again and again.                      *)
Polling == {"wait", "gated", "resolve"}

(* Nobody is in the line twice, and who is in it polls.                    *)
Line == queue \in Seq(Systems) /\ Once(queue) /\ LineIsServed

(* It outlives a step that leaves the line alone, at which s does not stop *)
(* polling;                                                                *)
LEMMA LineKept ==
  ASSUME NEW s \in Systems, Line, Elsewhere(s), queue' = queue,
         pc[s] \in Polling => pc'[s] \in Polling
  PROVE  Line'
BY DEF Line, Once, LineIsServed, ToSet, Elsewhere, Polling

(* one by which s leaves the line, wherever it goes;                       *)
LEMMA LineLeft ==
  ASSUME NEW s \in Systems, Line, Elsewhere(s), LeaveQueue(s)
  PROVE  Line'
<1>1. queue' \in Seq(Systems) /\ Once(queue') /\ ToSet(queue') \subseteq ToSet(queue) \ {s}
  BY OutOfLine DEF Line, LeaveQueue
<1>2. LineIsServed'
  BY <1>1 DEF Line, LineIsServed, Elsewhere
<1> QED
  BY <1>1, <1>2 DEF Line, Once

(* and one by which it joins it, to poll.                                  *)
LEMMA LineJoined ==
  ASSUME NEW s \in Systems, Line, Elsewhere(s), JoinQueue(s), pc'[s] \in Polling
  PROVE  Line'
<1>1. queue' \in Seq(Systems) /\ Once(queue') /\ ToSet(queue') \subseteq ToSet(queue) \cup {s}
  BY AtItsEnd DEF Line, JoinQueue
<1>2. LineIsServed'
  BY <1>1 DEF Line, LineIsServed, Elsewhere, Polling
<1> QED
  BY <1>1, <1>2 DEF Line, Once

(* There is no line at first.                                              *)
THEOREM LineInit == Init => Line
BY DEF Init, Line, Once, LineIsServed, ToSet

(* Every step keeps it: whoever stops polling leaves the line with the     *)
(* same step.                                                              *)
THEOREM LineStep == TypeOK /\ Line /\ [Next]_vars => Line'
<1> SUFFICES ASSUME TypeOK, Line, [Next]_vars PROVE Line'
  OBVIOUS
<1>0. CASE AskStop \/ UNCHANGED vars
  BY <1>0 DEF AskStop, vars, slot, Line, Once, LineIsServed, ToSet
<1> SUFFICES ASSUME NEW s \in Systems, Step(s) \/ Upset(s) PROVE Line'
  BY <1>0 DEF Next
<1>1. Elsewhere(s)
  BY StepsAlone
<1>2. CASE InterruptedInLine(s) \/ ResolveStops(s) \/ Resolves(s) \/ Claims(s) \/ WaitStops(s)
  <2>1. LeaveQueue(s)
    BY <1>2 DEF InterruptedInLine, ResolveStops, Resolves, Claims, WaitStops
  <2> QED
    BY <1>1, <2>1, LineLeft
<1>3. CASE AllGated(s) \/ Lines(s)
  <2>1. JoinQueue(s) /\ pc'[s] \in Polling
    BY <1>3 DEF AllGated, Lines, To, TypeOK, Polling
  <2> QED
    BY <1>1, <2>1, LineJoined
<1>4. CASE Refused(s) \/ PollsAgain(s) \/ AskPause(s) \/ AskResume(s)
  <2>1. queue' = queue /\ (pc[s] \in Polling => pc'[s] \in Polling)
    BY <1>4 DEF Refused, PollsAgain, AskPause, AskResume, slot, To, TypeOK, Polling
  <2> QED
    BY <1>1, <2>1, LineKept
<1> USE DEF At, Goes, slot, Polling
<1>5. CASE Exits(s) \/ Pauses(s) \/ Resumes(s) \/ PauseStops(s) \/ NotPaused(s) \/ NoInterrupt(s)
  <2>1. queue' = queue /\ pc[s] \notin Polling
    BY <1>5 DEF Exits, Pauses, Resumes, PauseStops, NotPaused, NoInterrupt
  <2> QED
    BY <1>1, <2>1, LineKept
<1>6. CASE InterruptedOnAir(s) \/ Joins(s) \/ Unfollows(s)
  <2>1. queue' = queue /\ pc[s] \notin Polling
    BY <1>6 DEF InterruptedOnAir, Interrupted, Joins, Unfollows
  <2> QED
    BY <1>1, <2>1, LineKept
<1>7. CASE AdvanceFirst(s) \/ Renders(s) \/ MessageEnds(s) \/ SceneEnds(s) \/ CardEnds(s)
  <2>1. queue' = queue /\ pc[s] \notin Polling
    BY <1>7 DEF AdvanceFirst, Renders, MessageEnds, SceneEnds, CardEnds
  <2> QED
    BY <1>1, <2>1, LineKept
<1>8. CASE NoClaimNeeded(s) \/ Announces(s) \/ SetsUp(s) \/ Begins(s) \/ Clears(s) \/ Broadcasts(s)
  <2>1. queue' = queue /\ pc[s] \notin Polling
    BY <1>8 DEF NoClaimNeeded, Announces, SetsUp, Begins, Clears, Broadcasts
  <2> QED
    BY <1>1, <2>1, LineKept
<1>9. CASE LinkAnswers(s) \/ SceneRetries(s) \/ CardRetries(s) \/ OutageStops(s)
  <2>1. queue' = queue /\ pc[s] \notin Polling
    BY <1>9 DEF LinkAnswers, SceneRetries, CardRetries, OutageStops
  <2> QED
    BY <1>1, <2>1, LineKept
<1>10. CASE Reloads(s) \/ JoinFails(s) \/ FollowerFails(s) \/ Jumps(s) \/ Restarts(s)
  <2>1. queue' = queue /\ pc[s] \notin Polling
    BY <1>10 DEF Reloads, JoinFails, FollowerFails, Jumps, Restarts
  <2> QED
    BY <1>1, <2>1, LineKept
<1>11. CASE \/ AnnounceMeetsOutage(s) \/ BigTextFails(s) \/ SetupRaises(s)
           \/ SetupMeetsOutage(s) \/ SetupLosesWrites(s)
  <2>1. queue' = queue /\ pc[s] \notin Polling
    BY <1>11 DEF AnnounceMeetsOutage, BigTextFails, SetupRaises, SetupMeetsOutage, SetupLosesWrites
  <2> QED
    BY <1>1, <2>1, LineKept
<1> QED
  BY <1>2, <1>3, <1>4, <1>5, <1>6, <1>7, <1>8, <1>9, <1>10, <1>11 DEF Step, Upset, Follower

(* A place in the line is held only by a system that polls.                 *)
THEOREM LineIsServedHolds == Spec => []LineIsServed
<1>1. IInv => TypeOK
  BY DEF IInv
<1>2. Line => LineIsServed
  BY DEF Line
<1> QED
  BY <1>1, <1>2, Invariance, LineInit, LineStep, PTL DEF Spec

-----------------------------------------------------------------------------
(* The broadcast. *)

(* Where no scene is on screen: what is dropped or looked for there is not  *)
(* the conductor's.                                                         *)
Offstage(s) ==
  /\ pc[s] \in {"resolve", "gated", "announce", "cardDown", "follow", "join"} =>
       current[s] # "scene"
  /\ pc[s] = "wait" => ~Conducts(s)
  /\ pc[s] \in {"joining", "follow"} => failed[s] = 0

(* t follows the broadcast, is about to, could not, or has stopped.         *)
Covered(t) == interrupt[t] \/ following[t] = active \/ failed[t] = active \/ stop

(* While a broadcast is on, its conductor is on stage; once the resume      *)
(* events are cleared none is set, and once the interrupts are set, all the *)
(* others are covered.                                                      *)
Broadcast ==
  on =>
    /\ active # 0
    /\ \E c \in Systems : Conducts(c)
    /\ \A c \in Systems : Conducts(c) =>
         /\ pc[c] # "opened" => \A t \in Followers(c) : ~resume[t]
         /\ pc[c] \notin {"opened", "begun"} => \A t \in Followers(c) : Covered(t)

(* Both events exist for every system.                                     *)
CastFlags == DOMAIN interrupt = Systems /\ DOMAIN resume = Systems

(* What is inductive, with IInv.                                           *)
CastInv == CastFlags /\ Broadcast /\ \A s \in Systems : Offstage(s)

(* Only one system has span scenes,                                        *)
LEMMA OneConductor ==
  ASSUME TypeOK, NEW s \in Systems, NEW t \in Systems, Kind(s) = "span", Kind(t) = "span"
  PROVE  s = t
BY EnsembleAssumption DEF TypeOK, Scenes, Kind

(* so while a broadcast is on, a system whose place is at one conducts it.  *)
LEMMA TheConductor ==
  ASSUME TypeOK, Broadcast, on, NEW s \in Systems, Kind(s) = "span"
  PROVE  Conducts(s)
BY OneConductor DEF Broadcast, Conducts

(* A step of s that leaves the broadcast as it is: it neither enters nor    *)
(* leaves the stage as the conductor, sets no resume event, takes nobody    *)
(* else's interrupt, and is still covered itself if it was.                 *)
LEMMA BroadcastKept ==
  ASSUME TypeOK, Broadcast, NEW s \in Systems, Elsewhere(s),
         on' => /\ on /\ active' = active /\ (stop => stop')
                /\ Conducts(s)' <=> Conducts(s)
                /\ \A t \in Systems : resume'[t] => resume[t]
                /\ \A t \in Systems \ {s} : interrupt[t] => interrupt'[t]
                /\ Conducts(s) =>
                     /\ pc'[s] # "opened" => pc[s] # "opened"
                     /\ pc'[s] \notin {"opened", "begun"} => pc[s] \notin {"opened", "begun"}
                /\ ~resume[s] /\ ~Conducts(s) /\ Covered(s) => Covered(s)'
  PROVE  Broadcast'
<1> SUFFICES ASSUME on' PROVE Broadcast'
  BY DEF Broadcast
<1>1. \A t \in Systems \ {s} : (Conducts(t)' <=> Conducts(t)) /\ pc'[t] = pc[t]
  BY DEF Elsewhere, Conducts, Kind
<1>2. \A t \in Systems \ {s} : Covered(t) => Covered(t)'
  BY DEF Elsewhere, Covered
<1>3. active' # 0 /\ \E c \in Systems : Conducts(c)'
  BY <1>1 DEF Broadcast
<1>4. ASSUME NEW c \in Systems, Conducts(c)'
      PROVE  /\ pc'[c] # "opened" => \A t \in Followers(c) : ~resume'[t]
             /\ pc'[c] \notin {"opened", "begun"} => \A t \in Followers(c) : Covered(t)'
  <2>1. Conducts(c) /\ (c # s => ~Conducts(s) \/ pc'[c] = pc[c])
    BY <1>1, <1>4
  <2>2. /\ pc'[c] # "opened" => pc[c] # "opened"
        /\ pc'[c] \notin {"opened", "begun"} => pc[c] \notin {"opened", "begun"}
    BY <1>1, <1>4, <2>1
  <2>3. pc'[c] # "opened" => \A t \in Followers(c) : ~resume'[t]
    BY <2>1, <2>2 DEF Broadcast, Followers
  <2>4. ASSUME pc'[c] \notin {"opened", "begun"}, NEW t \in Followers(c) PROVE Covered(t)'
    <3>1. Covered(t) /\ ~resume[t] /\ t \in Systems /\ t # c
      BY <2>1, <2>2, <2>4 DEF Broadcast, Followers
    <3>2. CASE t = s
      BY <2>1, <3>1, <3>2, OneConductor DEF Conducts
    <3> QED
      BY <1>2, <3>1, <3>2
  <2> QED
    BY <2>3, <2>4
<1> QED
  BY <1>3, <1>4 DEF Broadcast, Followers

(* A conductor that is dropped ends its broadcast; another leaves it as it  *)
(* is.                                                                      *)
LEMMA Dropped ==
  ASSUME TypeOK, Broadcast, NEW s \in Systems, Elsewhere(s), LetsGo(s), current'[s] # "scene",
         UNCHANGED <<interrupt, stop>>, active' = active /\ Covered(s) => Covered(s)'
  PROVE  Broadcast'
<1>1. CASE Conducts(s)
  <2>1. ~on'
    BY <1>1 DEF LetsGo, TeardownScene, EndCast, Conducts
  <2> QED
    BY <2>1 DEF Broadcast
<1>2. CASE ~Conducts(s)
  <2>1. UNCHANGED <<on, resume, active>>
    BY <1>2 DEF LetsGo, TeardownScene
  <2>2. ~Conducts(s)'
    BY DEF Conducts
  <2> QED
    BY <1>2, <2>1, <2>2, BroadcastKept
<1> QED
  BY <1>1, <1>2

(* So does a step of control.                                               *)
LEMMA GoesOn ==
  ASSUME TypeOK, Broadcast, NEW s \in Systems, Elsewhere(s),
         UNCHANGED <<cast, stop, following, failed>>,
         on => (Conducts(s)' <=> Conducts(s)),
         Conducts(s) => pc[s] \notin {"opened", "begun"}
  PROVE  Broadcast'
<1>1. Covered(s) => Covered(s)'
  BY DEF Covered, cast
<1> QED
  BY <1>1, BroadcastKept DEF cast

(* No broadcast is on at first.                                             *)
THEOREM CastInit == Init => CastInv
BY DEF Init, CastInv, CastFlags, Broadcast, Offstage, Conducts

(* The events stay those of all the systems;                                *)
LEMMA CastFlagsStep == ASSUME CastFlags, [Next]_vars PROVE CastFlags'
<1> USE DEF CastFlags, cast
<1>0. CASE AskStop \/ UNCHANGED vars
  BY <1>0 DEF AskStop, vars
<1> SUFFICES ASSUME NEW s \in Systems, Step(s) \/ Upset(s) PROVE CastFlags'
  BY <1>0 DEF Next
<1> USE DEF DropCurrent, LetsGo, TeardownScene, EndCast, Goes
<1>1. CASE Exits(s) \/ Pauses(s) \/ Resumes(s) \/ PauseStops(s) \/ NotPaused(s) \/ NoInterrupt(s)
  BY <1>1 DEF Exits, Pauses, Resumes, PauseStops, NotPaused, NoInterrupt
<1>2. CASE InterruptedOnAir(s) \/ InterruptedInLine(s)
  BY <1>2 DEF InterruptedOnAir, InterruptedInLine, Interrupted
<1>3. CASE Joins(s) \/ Unfollows(s)
  BY <1>3 DEF Joins, Unfollows
<1>4. CASE AdvanceFirst(s) \/ Renders(s) \/ MessageEnds(s) \/ SceneEnds(s) \/ CardEnds(s)
  BY <1>4 DEF AdvanceFirst, Renders, MessageEnds, SceneEnds, CardEnds
<1>5. CASE ResolveStops(s) \/ Resolves(s) \/ Refused(s) \/ AllGated(s) \/ PollsAgain(s)
  BY <1>5 DEF ResolveStops, Resolves, Refused, AllGated, PollsAgain
<1>6. CASE NoClaimNeeded(s) \/ Lines(s) \/ Claims(s) \/ WaitStops(s)
  BY <1>6 DEF NoClaimNeeded, Lines, Claims, WaitStops
<1>7. CASE Announces(s) \/ SetsUp(s) \/ Begins(s) \/ Clears(s) \/ Broadcasts(s)
  BY <1>7 DEF Announces, SetsUp, Begins, Clears, Broadcasts, ClearResumes, SetInterrupts
<1>8. CASE LinkAnswers(s) \/ SceneRetries(s) \/ CardRetries(s) \/ OutageStops(s)
  BY <1>8 DEF LinkAnswers, SceneRetries, CardRetries, OutageStops
<1>9. CASE Reloads(s) \/ JoinFails(s) \/ FollowerFails(s) \/ Jumps(s) \/ Restarts(s)
  BY <1>9 DEF Reloads, JoinFails, FollowerFails, Jumps, Restarts
<1>10. CASE \/ AnnounceMeetsOutage(s) \/ BigTextFails(s) \/ SetupRaises(s)
           \/ SetupMeetsOutage(s) \/ SetupLosesWrites(s)
  BY <1>10 DEF AnnounceMeetsOutage, BigTextFails, SetupRaises, SetupMeetsOutage, SetupLosesWrites
<1>11. CASE AskPause(s) \/ AskResume(s)
  BY <1>11 DEF AskPause, AskResume
<1> QED
  BY <1>1, <1>2, <1>3, <1>4, <1>5, <1>6, <1>7, <1>8, <1>9, <1>10, <1>11 DEF Step, Upset, Follower

(* nobody takes a scene where none is on screen;                            *)
LEMMA OffstageStep ==
  ASSUME TypeOK, NEW s \in Systems, Offstage(s), Step(s) \/ Upset(s)
  PROVE  Offstage(s)'
<1> USE DEF TypeOK, Offstage, At, To, Goes, local, Conducts, Kind
<1>1. CASE Exits(s) \/ Pauses(s) \/ Resumes(s) \/ PauseStops(s) \/ NotPaused(s) \/ NoInterrupt(s)
  BY <1>1 DEF Exits, Pauses, Resumes, PauseStops, NotPaused, NoInterrupt
<1>2. CASE InterruptedOnAir(s)
  BY <1>2 DEF InterruptedOnAir, Interrupted
<1>3. CASE InterruptedInLine(s)
  BY <1>3 DEF InterruptedInLine, Interrupted
<1>4. CASE Joins(s) \/ Unfollows(s)
  BY <1>4 DEF Joins, Unfollows, Returns
<1>5. CASE AdvanceFirst(s) \/ Renders(s) \/ MessageEnds(s) \/ SceneEnds(s)
  BY <1>5 DEF AdvanceFirst, Renders, MessageEnds, SceneEnds, DropCurrent
<1>6. CASE CardEnds(s)
  BY <1>6 DEF CardEnds
<1>7. CASE ResolveStops(s) \/ Resolves(s) \/ Refused(s) \/ AllGated(s) \/ PollsAgain(s)
  BY <1>7 DEF ResolveStops, Resolves, Refused, AllGated, PollsAgain
<1>8. CASE NoClaimNeeded(s) \/ Lines(s) \/ Claims(s) \/ WaitStops(s)
  BY <1>8 DEF NoClaimNeeded, Lines, Claims, WaitStops, Competes
<1>9. CASE Announces(s) \/ SetsUp(s) \/ Begins(s) \/ Clears(s) \/ Broadcasts(s)
  BY <1>9 DEF Announces, SetsUp, Begins, Clears, Broadcasts
<1>10. CASE LinkAnswers(s) \/ SceneRetries(s) \/ CardRetries(s) \/ OutageStops(s)
  BY <1>10 DEF LinkAnswers, SceneRetries, CardRetries, OutageStops
<1>11. CASE Reloads(s) \/ JoinFails(s) \/ FollowerFails(s)
  BY <1>11 DEF Reloads, JoinFails, FollowerFails, Returns, DropCurrent
<1>12. CASE Jumps(s)
  BY <1>12 DEF Jumps, DropCurrent
<1>13. CASE Restarts(s) \/ AnnounceMeetsOutage(s) \/ BigTextFails(s) \/ SetupRaises(s)
  BY <1>13 DEF Restarts, AnnounceMeetsOutage, BigTextFails, SetupRaises, DropCurrent
<1>15. CASE SetupMeetsOutage(s) \/ SetupLosesWrites(s)
  BY <1>15 DEF SetupMeetsOutage, SetupLosesWrites
<1>14. CASE AskPause(s) \/ AskResume(s)
  BY <1>14 DEF AskPause, AskResume
<1> QED
  BY <1>1, <1>2, <1>3, <1>4, <1>5, <1>6, <1>7, <1>8, <1>9, <1>10, <1>11, <1>12, <1>13, <1>14,
     <1>15 DEF Step, Upset, Follower

(* and every step of a system keeps the broadcast whole.                    *)
LEMMA BroadcastStep ==
  ASSUME IInv, CastInv, NEW s \in Systems, Step(s) \/ Upset(s)
  PROVE  Broadcast'
<1>0. TypeOK /\ Broadcast /\ CastFlags /\ Offstage(s) /\ Elsewhere(s) /\ SetupIsScene(s)
  BY StepsAlone DEF IInv, Own, CastInv
<1> USE DEF At, To, Goes, local, DropCurrent
<1>1. CASE Exits(s) \/ Pauses(s) \/ SceneEnds(s) \/ Reloads(s) \/ Jumps(s) \/ Restarts(s)
  <2>1. /\ LetsGo(s) /\ UNCHANGED <<interrupt, stop, following, failed>>
        /\ current' = [current EXCEPT ![s] = "none"]
    BY <1>1 DEF Exits, Pauses, SceneEnds, Reloads, Jumps, Restarts
  <2>2. current'[s] # "scene" /\ (active' = active /\ Covered(s) => Covered(s)')
    BY <1>0, <2>1 DEF TypeOK, Covered
  <2> QED
    BY <1>0, <2>1, <2>2, Dropped
<1>2. CASE Joins(s)
  <2>1. /\ LetsGo(s) /\ UNCHANGED <<interrupt, stop, following, failed>>
        /\ current' = [current EXCEPT ![s] = "follower"]
    BY <1>2 DEF Joins
  <2>2. current'[s] # "scene" /\ (active' = active /\ Covered(s) => Covered(s)')
    BY <1>0, <2>1 DEF TypeOK, Covered
  <2> QED
    BY <1>0, <2>1, <2>2, Dropped
<1>3. CASE JoinFails(s)
  <2>1. /\ LetsGo(s) /\ UNCHANGED <<interrupt, stop>> /\ pc[s] = "joining"
        /\ current' = [current EXCEPT ![s] = "none"]
        /\ failed' = [failed EXCEPT ![s] = following[s]]
    BY <1>3 DEF JoinFails, GivesUp
  <2>2. current'[s] # "scene" /\ failed'[s] = following[s] /\ failed[s] = 0
    BY <1>0, <2>1 DEF TypeOK, Offstage
  <2>3. CASE on
    <3>1. active' = active /\ Covered(s) => Covered(s)'
      BY <1>0, <2>1, <2>2, <2>3 DEF Covered, Broadcast
    <3> QED
      BY <1>0, <2>1, <2>2, <3>1, Dropped
  <2>4. CASE ~on
    <3>1. ~on'
      BY <2>1, <2>4 DEF LetsGo, TeardownScene, EndCast
    <3> QED
      BY <3>1 DEF Broadcast
  <2> QED
    BY <2>3, <2>4
<1>4. CASE \/ Resumes(s) \/ PauseStops(s) \/ NotPaused(s) \/ NoInterrupt(s) \/ AdvanceFirst(s)
           \/ Renders(s) \/ ResolveStops(s) \/ Refused(s) \/ AllGated(s) \/ PollsAgain(s)
  <2>1. /\ UNCHANGED <<cast, stop, following, failed, index, current>>
        /\ pc[s] \notin {"opened", "begun"}
    BY <1>4 DEF Resumes, PauseStops, NotPaused, NoInterrupt, AdvanceFirst, Renders, ResolveStops,
       Refused, AllGated, PollsAgain
  <2>2. Conducts(s)' <=> Conducts(s)
    BY <2>1 DEF Conducts, Kind
  <2> QED
    BY <1>0, <2>1, <2>2, GoesOn
<1>5. CASE \/ Lines(s) \/ WaitStops(s) \/ SetsUp(s) \/ LinkAnswers(s) \/ SceneRetries(s)
           \/ CardRetries(s) \/ OutageStops(s)
  <2>1. /\ UNCHANGED <<cast, stop, following, failed, index, current>>
        /\ pc[s] \notin {"opened", "begun"}
    BY <1>5 DEF Lines, WaitStops, SetsUp, LinkAnswers, SceneRetries, CardRetries, OutageStops
  <2>2. Conducts(s)' <=> Conducts(s)
    BY <2>1 DEF Conducts, Kind
  <2> QED
    BY <1>0, <2>1, <2>2, GoesOn
<1>6. CASE Resolves(s) \/ Announces(s) \/ AnnounceMeetsOutage(s)
  <2>1. UNCHANGED <<cast, stop, following, failed>> /\ pc[s] \in {"resolve", "announce"}
        /\ current' \in {current, [current EXCEPT ![s] = "card"]}
    BY <1>6 DEF Resolves, Announces, AnnounceMeetsOutage
  <2>2. current[s] # "scene" /\ current'[s] # "scene"
    BY <1>0, <2>1 DEF Offstage, TypeOK
  <2> QED
    BY <1>0, <2>1, <2>2, GoesOn DEF Conducts
<1>7. CASE CardEnds(s) \/ NoClaimNeeded(s) \/ Claims(s)
  <2>1. UNCHANGED <<cast, stop, following, failed, index>> /\ pc[s] \in {"advance", "claim", "wait"}
        /\ current' \in {[current EXCEPT ![s] = "none"], [current EXCEPT ![s] = "scene"]}
    BY <1>7 DEF CardEnds, NoClaimNeeded, Claims
  <2>2. Conducts(s) => current'[s] = "scene"
    <3>1. CASE CardEnds(s)
      BY <3>1 DEF CardEnds, Conducts
    <3>2. CASE NoClaimNeeded(s) \/ Claims(s)
      BY <1>0, <3>2 DEF NoClaimNeeded, Claims, TypeOK
    <3> QED
      BY <1>7, <3>1, <3>2
  <2>3. on => (Conducts(s)' <=> Conducts(s))
    BY <1>0, <2>1, <2>2, TheConductor DEF Conducts, Kind
  <2> QED
    BY <1>0, <2>1, <2>3, GoesOn
<1>8. CASE InterruptedOnAir(s) \/ InterruptedInLine(s)
  <2>1. /\ UNCHANGED <<active, on, resume, stop, index>>
        /\ interrupt' = [interrupt EXCEPT ![s] = FALSE]
        /\ StaleInterrupt \/ following' = [following EXCEPT ![s] = active]
        /\ \/ pc[s] = "cast" /\ current' = current
           \/ pc[s] \in {"wait", "gated"} /\ current' = [current EXCEPT ![s] = "none"]
    BY <1>8 DEF InterruptedOnAir, InterruptedInLine, Interrupted
  <2>2. Conducts(s)' <=> Conducts(s)
    BY <1>0, <2>1 DEF Offstage, Conducts, Kind, TypeOK
  <2>3. on => Covered(s)'
    BY <1>0, <2>1 DEF StaleInterrupt, Broadcast, Covered, TypeOK
  <2>4. \A t \in Systems \ {s} : interrupt[t] => interrupt'[t]
    BY <1>0, <2>1 DEF CastFlags
  <2>5. pc[s] \notin {"opened", "begun"}
    BY <2>1
  <2> QED
    BY <1>0, <2>1, <2>2, <2>3, <2>4, <2>5, BroadcastKept
<1>9. CASE Unfollows(s) \/ FollowerFails(s)
  <2>1. /\ UNCHANGED <<active, on, interrupt, stop, index>> /\ pc[s] = "follow"
        /\ current' = [current EXCEPT ![s] = "none"] /\ resume' = [resume EXCEPT ![s] = FALSE]
    BY <1>9 DEF Unfollows, FollowerFails
  <2>2. ~Conducts(s) /\ ~Conducts(s)'
    BY <1>0, <2>1 DEF Offstage, Conducts, TypeOK
  <2>3. \A t \in Systems : resume'[t] => resume[t]
    BY <1>0, <2>1 DEF CastFlags
  <2>4. on /\ ~resume[s] /\ Covered(s) => Covered(s)'
    <3>1. CASE Unfollows(s)
      BY <3>1 DEF Unfollows, Covered
    <3>2. CASE FollowerFails(s) /\ on
      <4>1. failed'[s] = following[s] /\ UNCHANGED <<active, interrupt, stop>>
        BY <1>0, <3>2 DEF FollowerFails, GivesUp, TypeOK
      <4>2. failed[s] # active
        BY <1>0, <2>1, <3>2 DEF Offstage, Broadcast
      <4> QED
        BY <4>1, <4>2 DEF Covered
    <3> QED
      BY <1>9, <3>1, <3>2
  <2> QED
    BY <1>0, <2>1, <2>2, <2>3, <2>4, BroadcastKept
<1>10. CASE MessageEnds(s)
  BY <1>10 DEF MessageEnds, EndCast, Broadcast
<1>11. CASE Begins(s)
  <2>1. /\ pc[s] = "setup" /\ pc' = [pc EXCEPT ![s] = "opened"] /\ UNCHANGED <<index, current>>
        /\ active' # 0 /\ Kind(s) = "span"
    BY <1>0, <1>11, EnsembleAssumption DEF Begins, InstallsConductor, IInv, TypeOK
  <2>2. Conducts(s)' /\ pc'[s] = "opened"
    BY <1>0, <2>1 DEF SetupIsScene, Conducts, Kind, TypeOK
  <2>3. \A c \in Systems : Conducts(c)' => c = s
    BY <1>0, <2>1, OneConductor DEF Conducts, Kind
  <2> QED
    BY <2>1, <2>2, <2>3 DEF Broadcast
<1>12. CASE Clears(s)
  <2>1. /\ pc[s] = "opened" /\ pc' = [pc EXCEPT ![s] = "begun"]
        /\ UNCHANGED <<active, on, interrupt, stop, index, current, following, failed>>
        /\ resume' = [t \in Systems |-> t = s /\ resume[t]]
    BY <1>12 DEF Clears, ClearResumes
  <2>2. \A t \in Systems : (resume'[t] => resume[t]) /\ (t # s => ~resume'[t])
    BY <2>1
  <2>3. \A c \in Systems : Conducts(c)' <=> Conducts(c)
    BY <2>1 DEF Conducts, Kind
  <2>4. pc'[s] = "begun" /\ \A t \in Systems \ {s} : pc'[t] = pc[t]
    BY <1>0, <2>1 DEF TypeOK
  <2>5. ASSUME on, NEW c \in Systems, Conducts(c), NEW t \in Followers(c)
        PROVE  /\ pc'[c] # "opened" => ~resume'[t]
               /\ pc'[c] \notin {"opened", "begun"} => Covered(t)'
    <3>1. CASE c = s
      BY <2>2, <2>4, <3>1 DEF Followers
    <3>2. CASE c # s
      BY <1>0, <2>1, <2>2, <2>4, <2>5, <3>2 DEF Broadcast, Followers, Covered
    <3> QED
      BY <3>1, <3>2
  <2> QED
    BY <1>0, <2>1, <2>3, <2>5 DEF Broadcast, Followers
<1>13. CASE BigTextFails(s) \/ SetupRaises(s) \/ SetupLosesWrites(s)
  <2>1. /\ pc[s] = "setup"
        /\ UNCHANGED <<on, interrupt, resume, stop, index, current, following, failed>>
        /\ active # 0 => active' = active
    BY <1>13 DEF BigTextFails, SetupRaises, SetupLosesWrites, InstallsConductor
  <2>2. Conducts(s)' <=> Conducts(s)
    BY <2>1 DEF Conducts, Kind
  <2>3. on => active' = active
    BY <1>0, <2>1 DEF Broadcast
  <2>5. active' = active /\ Covered(s) => Covered(s)'
    BY <2>1 DEF Covered
  <2> QED
    BY <1>0, <2>1, <2>2, <2>3, <2>5, BroadcastKept
<1>14. CASE AskPause(s) \/ AskResume(s)
  <2>1. UNCHANGED <<active, on, interrupt, resume, stop, pc, index, current, following, failed>>
    BY <1>14 DEF AskPause, AskResume, cast
  <2>2. (Conducts(s)' <=> Conducts(s)) /\ (Covered(s)' <=> Covered(s))
    BY <2>1 DEF Conducts, Kind, Covered
  <2> QED
    BY <1>0, <2>1, <2>2, BroadcastKept
<1>15. CASE Broadcasts(s) \/ SetupMeetsOutage(s)
  <2>1. /\ pc[s] \in {"setup", "begun"}
        /\ UNCHANGED <<on, resume, stop, index, current, following, failed>>
        /\ active # 0 => active' = active
        /\ interrupt' = IF pc[s] = "begun" THEN [t \in Systems |-> t # s \/ interrupt[t]]
                                          ELSE interrupt
    BY <1>15 DEF Broadcasts, SetupMeetsOutage, InstallsConductor, SetInterrupts
  <2>2. on => active' = active
    BY <1>0, <2>1 DEF Broadcast
  <2>3. \A c \in Systems : Conducts(c)' <=> Conducts(c)
    BY <2>1 DEF Conducts, Kind
  <2>4. \A t \in Systems :
          (interrupt[t] => interrupt'[t]) /\ (pc[s] = "begun" /\ t # s => interrupt'[t])
    BY <2>1
  <2>5. ASSUME on, NEW c \in Systems, Conducts(c), NEW t \in Followers(c)
        PROVE  /\ pc'[c] # "opened" => ~resume'[t]
               /\ pc'[c] \notin {"opened", "begun"} => Covered(t)'
    <3>1. Covered(t) => Covered(t)'
      BY <2>1, <2>2, <2>4, <2>5 DEF Covered, Followers
    <3>2. CASE c = s
      BY <1>0, <2>1, <2>4, <2>5, <3>1, <3>2 DEF Broadcast, Followers, Covered
    <3>3. CASE c # s
      BY <1>0, <2>1, <2>5, <3>1, <3>3 DEF Broadcast, Followers, Elsewhere
    <3> QED
      BY <3>2, <3>3
  <2> QED
    BY <1>0, <2>1, <2>2, <2>3, <2>5 DEF Broadcast, Followers
<1> QED
  BY <1>1, <1>2, <1>3, <1>4, <1>5, <1>6, <1>7, <1>8, <1>9, <1>10, <1>11, <1>12, <1>13, <1>14, <1>15
     DEF Step, Upset, Follower

(* The cast's invariant holds of every step.                                *)
THEOREM CastStep == IInv /\ CastInv /\ [Next]_vars => CastInv'
<1> SUFFICES ASSUME IInv, CastInv, [Next]_vars PROVE CastInv'
  OBVIOUS
<1>1. CASE AskStop
  <2>1. stop' /\ UNCHANGED <<cast, pc, local>>
    BY <1>1 DEF AskStop
  <2> QED
    BY <2>1 DEF CastInv, CastFlags, Broadcast, Offstage, Conducts, Kind, Covered, cast, local
<1>2. CASE UNCHANGED vars
  BY <1>2 DEF vars, CastInv, CastFlags, Broadcast, Offstage, Conducts, Kind, Covered, cast, local
<1>3. ASSUME NEW s \in Systems, Step(s) \/ Upset(s) PROVE CastInv'
  <2>1. Elsewhere(s)
    BY <1>3, StepsAlone DEF IInv
  <2>2. \A t \in Systems : Offstage(t)'
    BY <1>3, <2>1, OffstageStep DEF IInv, CastInv, Elsewhere, Offstage, Conducts, Kind
  <2> QED
    BY <1>3, <2>2, BroadcastStep, CastFlagsStep DEF CastInv
<1> QED
  BY <1>1, <1>2, <1>3 DEF Next

(* No system misses a broadcast.                                            *)
THEOREM NobodyMissedHolds == Spec => []NobodyMissed
<1>1. IInv /\ CastInv => NobodyMissed
  BY DEF IInv, Own, CastInv, Broadcast, NobodyMissed, Covered, Up, SetupIsScene
<1> QED
  BY <1>1, Invariance, CastInit, CastStep, PTL DEF Spec
=============================================================================
