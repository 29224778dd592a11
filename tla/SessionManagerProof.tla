-------------------------- MODULE SessionManagerProof --------------------------
(***************************************************************************)
(* Proofs about SessionManager, for any number of generations, with spawn  *)
(* failures and crashes or without, and at most one switch worker alive    *)
(* (with two, OneHolder is false: see the run session_two_switches).       *)
(*                                                                         *)
(* IInv says who is at work: at most one worker is building or settling,   *)
(* it belongs to the current generation, and `state` says which it does.   *)
(* What has the machine open then follows from where that worker is.       *)
(***************************************************************************)
EXTENDS SessionManager, TLAPS

OneSwitcher == MaxSwitch <= 1

BuildPC == {"await", "recover", "reset", "unmark", "awaitAgain", "build", "opened",
            "published", "land", "quit"}
SettlePC == {"join", "read", "teardown", "settle"}
BusyPC == BuildPC \cup SettlePC

\* A builder is the current start worker, in "starting"; a settler is one of
\* the current generation's workers, in "stopping"; there is never a second.
OneAtWork ==
  /\ \A w \in Workers : pc[w] \in BuildPC => w = Starter(gen) /\ state = "starting"
  /\ \A w \in Workers : pc[w] \in SettlePC => state = "stopping"
  /\ \A v, w \in Workers : pc[v] \in BusyPC /\ pc[w] \in BusyPC => v = w

\* While a switch is in flight nothing else may claim, so what its worker found
\* startable still is.
SwitchExcludes ==
  \A i \in Switches :
    /\ pc[Switcher(i)] \in {"stop", "wait", "claim"} => switching
    /\ pc[Switcher(i)] = "claim" => state \in Startable

\* What is open, by where the worker is.
HeldBy ==
  /\ held \subseteq {gen}
  /\ resetting => \E w \in Workers : pc[w] = "reset"
  /\ \A w \in Workers :
       /\ pc[w] \in BuildPC \ {"opened", "published", "land", "quit"} => held = {}
       /\ pc[w] \in {"opened", "published", "land"} => held = {gen}
       /\ pc[w] \in {"published", "land"} => session = gen
       /\ pc[w] \in {"quit", "join", "read"} => held \subseteq {session}
       /\ pc[w] = "teardown" => held \subseteq {doomed[w]}
       /\ pc[w] = "settle" => held = {}
  /\ state = "running" => held = {session}
  /\ state \in Startable => held = {} /\ session = NoSession

\* The window has passed where the machine is about to be opened.
Settled == \A w \in Workers : pc[w] \in {"recover", "build"} => ~cooling

\* A reset that is owed is one the next start cannot miss.
DebtIsMarked ==
  /\ marked => marker /\ state \in {"running", "stopping"}
  /\ owed = "due" =>
       /\ marker /\ ~cooling /\ ~marked
       /\ state \in Startable \cup {"starting"}
       /\ \A w \in Workers : pc[w] \in BusyPC => pc[w] \in {"await", "recover", "reset"}

\* The two halves of TypeOK.
TypeFlags ==
  /\ cancel \in BOOLEAN /\ cooling \in BOOLEAN
  /\ switching \in BOOLEAN /\ abortSwitch \in BOOLEAN /\ closing \in BOOLEAN
  /\ gaveUp \in BOOLEAN /\ playing \in BOOLEAN /\ resetting \in BOOLEAN
  /\ marker \in BOOLEAN /\ marked \in BOOLEAN /\ unwatched \in BOOLEAN
  /\ stopWanted \in BOOLEAN

TypeRest ==
  /\ state \in {"idle", "starting", "running", "stopping", "error"}
  /\ gen \in 0..MaxGen
  /\ session \in Gens \cup {NoSession}
  /\ reaper \in {"off", "on", "late"}
  /\ owed \in {"no", "due", "failed"}
  /\ pc \in [Workers -> WorkerPC]
  /\ outcome \in [Workers -> Startable]
  /\ doomed \in [Workers -> Gens \cup {NoSession}]
  /\ closer \in CloserPC /\ awaited \subseteq Workers
  /\ held \subseteq Gens

IInv == TypeOK /\ OneAtWork /\ SwitchExcludes /\ HeldBy /\ Settled /\ DebtIsMarked
-----------------------------------------------------------------------------
\* Workers of different kinds or generations are different threads.
LEMMA WorkerNames ==
  /\ \A g \in Gens : Starter(g) \in Workers /\ Stopper(g) \in Workers
  /\ \A i \in Switches : Switcher(i) \in Workers
  /\ \A g, h : /\ Starter(g) # Stopper(h)
               /\ Starter(g) # Switcher(h)
               /\ Stopper(g) # Switcher(h)
               /\ Starter(g) = Starter(h) => g = h
               /\ Switcher(g) = Switcher(h) => g = h
BY DEF Starter, Stopper, Switcher, Workers

LEMMA IInvInit == Init => IInv
<1> SUFFICES ASSUME Init PROVE IInv
  OBVIOUS
<1>1. TypeOK
  <2>1. TypeFlags
    BY DEF Init, TypeFlags
  <2>2. TypeRest
    BY MaxGenAssumption DEF Init, TypeRest, NoSession, Startable, WorkerPC, CloserPC
  <2> QED
    BY <2>1, <2>2 DEF TypeOK, TypeFlags, TypeRest
<1>2. OneAtWork /\ SwitchExcludes /\ HeldBy /\ Settled /\ DebtIsMarked
  BY WorkerNames DEF Init, OneAtWork, SwitchExcludes, HeldBy, Settled, DebtIsMarked, BuildPC, SettlePC,
     BusyPC, Startable
<1> QED
  BY <1>1, <1>2 DEF IInv

LEMMA FlagsStep ==
  ASSUME TypeFlags, cancel' = TRUE \/ UNCHANGED cancel, {abortSwitch', stopWanted'} \subseteq BOOLEAN,
         UNCHANGED <<cooling, switching, closing, gaveUp, playing, resetting, marker, marked, unwatched>>
  PROVE  TypeFlags'
BY DEF TypeFlags

\* The inductive step, one action at a time.
LEMMA IInvStep == ASSUME OneSwitcher, IInv, [Next]_vars PROVE IInv'
<1> USE MaxGenAssumption, MaxSwitchAssumption, WorkerNames
    DEF IInv, OneSwitcher, NoSession, Startable, Goto, Moves,
        memory, flags, watch, locals, close, machine, disk
<1>1. ASSUME Start PROVE IInv'
  <2> USE <1>1 DEF Start, BeginStart
  <2>1. TypeOK'
    <3>1. TypeFlags'
      BY ZenonT(40) DEF TypeOK, TypeFlags
    <3>2. TypeRest'
      BY DEF TypeOK, TypeRest, Gens, WorkerPC, CloserPC
    <3> QED
      BY <3>1, <3>2 DEF TypeOK, TypeFlags, TypeRest
  <2>2. OneAtWork'
    BY DEF TypeOK, OneAtWork, BuildPC, SettlePC, BusyPC, Gens
  <2>3. SwitchExcludes'
    BY DEF TypeOK, OneAtWork, SwitchExcludes, BuildPC, SettlePC, BusyPC, Switches, Gens
  <2>4. HeldBy'
    BY DEF TypeOK, OneAtWork, HeldBy, BuildPC, SettlePC, BusyPC, Gens
  <2>5. Settled'
    BY DEF TypeOK, OneAtWork, Settled, BuildPC, SettlePC, BusyPC, Gens
  <2>6. DebtIsMarked'
    BY DEF TypeOK, OneAtWork, DebtIsMarked, BuildPC, SettlePC, BusyPC, Gens
  <2> QED
    BY <2>1, <2>2, <2>3, <2>4, <2>5, <2>6
<1>2. ASSUME Stop PROVE IInv'
  <2> USE <1>2 DEF Stop, FlagSwitch, StopLocked, StopRaises
  <2>1. TypeOK'
    <3>1. TypeFlags'
      <4>1. TypeFlags
        BY DEF TypeOK, TypeFlags
      <4>2. cancel' = TRUE \/ UNCHANGED cancel
        OBVIOUS
      <4>3. UNCHANGED <<cooling, switching, closing, gaveUp, playing, resetting, marker, marked, unwatched>>
        OBVIOUS
      <4>4. {abortSwitch', stopWanted'} \subseteq BOOLEAN
        BY <4>1 DEF TypeFlags
      <4> HIDE DEF Stop, FlagSwitch, StopLocked, StopRaises
      <4> QED
        BY ONLY <4>1, <4>2, <4>3, <4>4, FlagsStep
    <3>2. TypeRest'
      BY DEF TypeOK, TypeRest, Gens, WorkerPC, CloserPC
    <3> QED
      BY <3>1, <3>2 DEF TypeOK, TypeFlags, TypeRest
  <2>2. OneAtWork'
    BY DEF TypeOK, OneAtWork, BuildPC, SettlePC, BusyPC, Gens
  <2>3. SwitchExcludes'
    BY DEF TypeOK, OneAtWork, SwitchExcludes, BuildPC, SettlePC, BusyPC, Switches, Gens
  <2>4. HeldBy'
    BY DEF TypeOK, OneAtWork, HeldBy, BuildPC, SettlePC, BusyPC, Gens
  <2>5. Settled'
    BY DEF TypeOK, OneAtWork, Settled, BuildPC, SettlePC, BusyPC, Gens
  <2>6. DebtIsMarked'
    BY DEF TypeOK, OneAtWork, DebtIsMarked, BuildPC, SettlePC, BusyPC, Gens
  <2> QED
    BY <2>1, <2>2, <2>3, <2>4, <2>5, <2>6
<1>3. ASSUME Close PROVE IInv'
  <2> USE <1>3 DEF Close
  <2>1. TypeOK'
    <3>1. TypeFlags'
      BY ZenonT(40) DEF TypeOK, TypeFlags
    <3>2. TypeRest'
      BY DEF TypeOK, TypeRest, Gens, WorkerPC, CloserPC
    <3> QED
      BY <3>1, <3>2 DEF TypeOK, TypeFlags, TypeRest
  <2>2. OneAtWork'
    BY DEF TypeOK, OneAtWork, BuildPC, SettlePC, BusyPC, Gens
  <2>3. SwitchExcludes'
    BY DEF TypeOK, OneAtWork, SwitchExcludes, BuildPC, SettlePC, BusyPC, Switches, Gens
  <2>4. HeldBy'
    BY DEF TypeOK, OneAtWork, HeldBy, BuildPC, SettlePC, BusyPC, Gens
  <2>5. Settled'
    BY DEF TypeOK, OneAtWork, Settled, BuildPC, SettlePC, BusyPC, Gens
  <2>6. DebtIsMarked'
    BY DEF TypeOK, OneAtWork, DebtIsMarked, BuildPC, SettlePC, BusyPC, Gens
  <2> QED
    BY <2>1, <2>2, <2>3, <2>4, <2>5, <2>6
<1>4. ASSUME NEW here \in CloserPC, NEW there \in CloserPC, CloseStops(here, there) PROVE IInv'
  <2> USE <1>4 DEF CloseStops, FlagSwitch, StopLocked, StopRaises
  <2>1. TypeOK'
    <3>1. TypeFlags'
      <4>1. TypeFlags
        BY DEF TypeOK, TypeFlags
      <4>2. cancel' = TRUE \/ UNCHANGED cancel
        OBVIOUS
      <4>3. UNCHANGED <<cooling, switching, closing, gaveUp, playing, resetting, marker, marked, unwatched>>
        OBVIOUS
      <4>4. {abortSwitch', stopWanted'} \subseteq BOOLEAN
        BY <4>1 DEF TypeFlags
      <4> HIDE DEF CloseStops, FlagSwitch, StopLocked, StopRaises
      <4> QED
        BY ONLY <4>1, <4>2, <4>3, <4>4, FlagsStep
    <3>2. TypeRest'
      BY DEF TypeOK, TypeRest, Gens, WorkerPC, CloserPC
    <3> QED
      BY <3>1, <3>2 DEF TypeOK, TypeFlags, TypeRest
  <2>2. OneAtWork'
    BY DEF TypeOK, OneAtWork, BuildPC, SettlePC, BusyPC, Gens
  <2>3. SwitchExcludes'
    BY DEF TypeOK, OneAtWork, SwitchExcludes, BuildPC, SettlePC, BusyPC, Switches, Gens
  <2>4. HeldBy'
    BY DEF TypeOK, OneAtWork, HeldBy, BuildPC, SettlePC, BusyPC, Gens
  <2>5. Settled'
    BY DEF TypeOK, OneAtWork, Settled, BuildPC, SettlePC, BusyPC, Gens
  <2>6. DebtIsMarked'
    BY DEF TypeOK, OneAtWork, DebtIsMarked, BuildPC, SettlePC, BusyPC, Gens
  <2> QED
    BY <2>1, <2>2, <2>3, <2>4, <2>5, <2>6
<1>5. ASSUME CloseWaits PROVE IInv'
  <2> USE <1>5 DEF CloseWaits
  <2>1. TypeOK'
    <3>1. TypeFlags'
      BY ZenonT(40) DEF TypeOK, TypeFlags
    <3>2. TypeRest'
      BY DEF TypeOK, TypeRest, Gens, WorkerPC, CloserPC
    <3> QED
      BY <3>1, <3>2 DEF TypeOK, TypeFlags, TypeRest
  <2>2. OneAtWork'
    BY DEF TypeOK, OneAtWork, BuildPC, SettlePC, BusyPC, Gens
  <2>3. SwitchExcludes'
    BY DEF TypeOK, OneAtWork, SwitchExcludes, BuildPC, SettlePC, BusyPC, Switches, Gens
  <2>4. HeldBy'
    BY DEF TypeOK, OneAtWork, HeldBy, BuildPC, SettlePC, BusyPC, Gens
  <2>5. Settled'
    BY DEF TypeOK, OneAtWork, Settled, BuildPC, SettlePC, BusyPC, Gens
  <2>6. DebtIsMarked'
    BY DEF TypeOK, OneAtWork, DebtIsMarked, BuildPC, SettlePC, BusyPC, Gens
  <2> QED
    BY <2>1, <2>2, <2>3, <2>4, <2>5, <2>6
<1>6. ASSUME CloseReaper PROVE IInv'
  <2> USE <1>6 DEF CloseReaper, Alive
  <2>1. TypeOK'
    <3>1. TypeFlags'
      BY ZenonT(40) DEF TypeOK, TypeFlags
    <3>2. TypeRest'
      BY DEF TypeOK, TypeRest, Gens, WorkerPC, CloserPC
    <3> QED
      BY <3>1, <3>2 DEF TypeOK, TypeFlags, TypeRest
  <2>2. OneAtWork'
    BY DEF TypeOK, OneAtWork, BuildPC, SettlePC, BusyPC, Gens
  <2>3. SwitchExcludes'
    BY DEF TypeOK, OneAtWork, SwitchExcludes, BuildPC, SettlePC, BusyPC, Switches, Gens
  <2>4. HeldBy'
    BY DEF TypeOK, OneAtWork, HeldBy, BuildPC, SettlePC, BusyPC, Gens
  <2>5. Settled'
    BY DEF TypeOK, OneAtWork, Settled, BuildPC, SettlePC, BusyPC, Gens
  <2>6. DebtIsMarked'
    BY DEF TypeOK, OneAtWork, DebtIsMarked, BuildPC, SettlePC, BusyPC, Gens
  <2> QED
    BY <2>1, <2>2, <2>3, <2>4, <2>5, <2>6
<1>7. ASSUME NEW here \in CloserPC, NEW there \in CloserPC, CloseJoins(here, there) PROVE IInv'
  <2> USE <1>7 DEF CloseJoins
  <2>1. TypeOK'
    <3>1. TypeFlags'
      BY ZenonT(40) DEF TypeOK, TypeFlags
    <3>2. TypeRest'
      BY DEF TypeOK, TypeRest, Gens, WorkerPC, CloserPC
    <3> QED
      BY <3>1, <3>2 DEF TypeOK, TypeFlags, TypeRest
  <2>2. OneAtWork'
    BY DEF TypeOK, OneAtWork, BuildPC, SettlePC, BusyPC, Gens
  <2>3. SwitchExcludes'
    BY DEF TypeOK, OneAtWork, SwitchExcludes, BuildPC, SettlePC, BusyPC, Switches, Gens
  <2>4. HeldBy'
    BY DEF TypeOK, OneAtWork, HeldBy, BuildPC, SettlePC, BusyPC, Gens
  <2>5. Settled'
    BY DEF TypeOK, OneAtWork, Settled, BuildPC, SettlePC, BusyPC, Gens
  <2>6. DebtIsMarked'
    BY DEF TypeOK, OneAtWork, DebtIsMarked, BuildPC, SettlePC, BusyPC, Gens
  <2> QED
    BY <2>1, <2>2, <2>3, <2>4, <2>5, <2>6
<1>8. ASSUME CloseVerifies PROVE IInv'
  <2> USE <1>8 DEF CloseVerifies
  <2>1. TypeOK'
    <3>1. TypeFlags'
      BY ZenonT(40) DEF TypeOK, TypeFlags
    <3>2. TypeRest'
      BY DEF TypeOK, TypeRest, Gens, WorkerPC, CloserPC
    <3> QED
      BY <3>1, <3>2 DEF TypeOK, TypeFlags, TypeRest
  <2>2. OneAtWork'
    BY DEF TypeOK, OneAtWork, BuildPC, SettlePC, BusyPC, Gens
  <2>3. SwitchExcludes'
    BY DEF TypeOK, OneAtWork, SwitchExcludes, BuildPC, SettlePC, BusyPC, Switches, Gens
  <2>4. HeldBy'
    BY DEF TypeOK, OneAtWork, HeldBy, BuildPC, SettlePC, BusyPC, Gens
  <2>5. Settled'
    BY DEF TypeOK, OneAtWork, Settled, BuildPC, SettlePC, BusyPC, Gens
  <2>6. DebtIsMarked'
    BY DEF TypeOK, OneAtWork, DebtIsMarked, BuildPC, SettlePC, BusyPC, Gens
  <2> QED
    BY <2>1, <2>2, <2>3, <2>4, <2>5, <2>6
<1>9. ASSUME CloseWaitsAgain PROVE IInv'
  <2> USE <1>9 DEF CloseWaitsAgain, Alive
  <2>1. TypeOK'
    <3>1. TypeFlags'
      BY ZenonT(40) DEF TypeOK, TypeFlags
    <3>2. TypeRest'
      BY DEF TypeOK, TypeRest, Gens, WorkerPC, CloserPC
    <3> QED
      BY <3>1, <3>2 DEF TypeOK, TypeFlags, TypeRest
  <2>2. OneAtWork'
    BY DEF TypeOK, OneAtWork, BuildPC, SettlePC, BusyPC, Gens
  <2>3. SwitchExcludes'
    BY DEF TypeOK, OneAtWork, SwitchExcludes, BuildPC, SettlePC, BusyPC, Switches, Gens
  <2>4. HeldBy'
    BY DEF TypeOK, OneAtWork, HeldBy, BuildPC, SettlePC, BusyPC, Gens
  <2>5. Settled'
    BY DEF TypeOK, OneAtWork, Settled, BuildPC, SettlePC, BusyPC, Gens
  <2>6. DebtIsMarked'
    BY DEF TypeOK, OneAtWork, DebtIsMarked, BuildPC, SettlePC, BusyPC, Gens
  <2> QED
    BY <2>1, <2>2, <2>3, <2>4, <2>5, <2>6
<1>10. ASSUME ReapTick PROVE IInv'
  <2> USE <1>10 DEF ReapTick, StopLocked, StopRaises
  <2>1. TypeOK'
    <3>1. TypeFlags'
      <4>1. TypeFlags
        BY DEF TypeOK, TypeFlags
      <4>2. cancel' = TRUE \/ UNCHANGED cancel
        OBVIOUS
      <4>3. UNCHANGED <<cooling, switching, closing, gaveUp, playing, resetting, marker, marked, unwatched>>
        OBVIOUS
      <4>4. {abortSwitch', stopWanted'} \subseteq BOOLEAN
        BY <4>1 DEF TypeFlags
      <4> HIDE DEF ReapTick, StopLocked, StopRaises
      <4> QED
        BY ONLY <4>1, <4>2, <4>3, <4>4, FlagsStep
    <3>2. TypeRest'
      BY DEF TypeOK, TypeRest, Gens, WorkerPC, CloserPC
    <3> QED
      BY <3>1, <3>2 DEF TypeOK, TypeFlags, TypeRest
  <2>2. OneAtWork'
    BY DEF TypeOK, OneAtWork, BuildPC, SettlePC, BusyPC, Gens
  <2>3. SwitchExcludes'
    BY DEF TypeOK, OneAtWork, SwitchExcludes, BuildPC, SettlePC, BusyPC, Switches, Gens
  <2>4. HeldBy'
    BY DEF TypeOK, OneAtWork, HeldBy, BuildPC, SettlePC, BusyPC, Gens
  <2>5. Settled'
    BY DEF TypeOK, OneAtWork, Settled, BuildPC, SettlePC, BusyPC, Gens
  <2>6. DebtIsMarked'
    BY DEF TypeOK, OneAtWork, DebtIsMarked, BuildPC, SettlePC, BusyPC, Gens
  <2> QED
    BY <2>1, <2>2, <2>3, <2>4, <2>5, <2>6
<1>11. ASSUME NEW i \in Switches, Switch(i) PROVE IInv'
  <2> USE <1>11 DEF Switch
  <2>1. TypeOK'
    <3>1. TypeFlags'
      BY ZenonT(40) DEF TypeOK, TypeFlags
    <3>2. TypeRest'
      BY DEF TypeOK, TypeRest, Gens, WorkerPC, CloserPC
    <3> QED
      BY <3>1, <3>2 DEF TypeOK, TypeFlags, TypeRest
  <2>2. OneAtWork'
    BY DEF TypeOK, OneAtWork, BuildPC, SettlePC, BusyPC, Gens
  <2>3. SwitchExcludes'
    BY DEF TypeOK, OneAtWork, SwitchExcludes, BuildPC, SettlePC, BusyPC, Switches, Gens
  <2>4. HeldBy'
    BY DEF TypeOK, OneAtWork, HeldBy, BuildPC, SettlePC, BusyPC, Gens
  <2>5. Settled'
    BY DEF TypeOK, OneAtWork, Settled, BuildPC, SettlePC, BusyPC, Gens
  <2>6. DebtIsMarked'
    BY DEF TypeOK, OneAtWork, DebtIsMarked, BuildPC, SettlePC, BusyPC, Gens
  <2> QED
    BY <2>1, <2>2, <2>3, <2>4, <2>5, <2>6
<1>12. ASSUME NEW i \in Switches, SwitchStops(i) PROVE IInv'
  <2> USE <1>12 DEF SwitchStops, StopLocked, StopRaises
  <2>1. TypeOK'
    <3>1. TypeFlags'
      <4>1. TypeFlags
        BY DEF TypeOK, TypeFlags
      <4>2. cancel' = TRUE \/ UNCHANGED cancel
        OBVIOUS
      <4>3. UNCHANGED <<cooling, switching, closing, gaveUp, playing, resetting, marker, marked, unwatched>>
        OBVIOUS
      <4>4. {abortSwitch', stopWanted'} \subseteq BOOLEAN
        BY <4>1 DEF TypeFlags
      <4> HIDE DEF SwitchStops, StopLocked, StopRaises
      <4> QED
        BY ONLY <4>1, <4>2, <4>3, <4>4, FlagsStep
    <3>2. TypeRest'
      BY DEF TypeOK, TypeRest, Gens, WorkerPC, CloserPC
    <3> QED
      BY <3>1, <3>2 DEF TypeOK, TypeFlags, TypeRest
  <2>2. OneAtWork'
    BY DEF TypeOK, OneAtWork, BuildPC, SettlePC, BusyPC, Gens
  <2>3. SwitchExcludes'
    BY DEF TypeOK, OneAtWork, SwitchExcludes, BuildPC, SettlePC, BusyPC, Switches, Gens
  <2>4. HeldBy'
    BY DEF TypeOK, OneAtWork, HeldBy, BuildPC, SettlePC, BusyPC, Gens
  <2>5. Settled'
    BY DEF TypeOK, OneAtWork, Settled, BuildPC, SettlePC, BusyPC, Gens
  <2>6. DebtIsMarked'
    BY DEF TypeOK, OneAtWork, DebtIsMarked, BuildPC, SettlePC, BusyPC, Gens
  <2> QED
    BY <2>1, <2>2, <2>3, <2>4, <2>5, <2>6
<1>13. ASSUME NEW i \in Switches, SwitchWaits(i) PROVE IInv'
  <2> USE <1>13 DEF SwitchWaits
  <2>1. TypeOK'
    <3>1. TypeFlags'
      BY ZenonT(40) DEF TypeOK, TypeFlags
    <3>2. TypeRest'
      BY DEF TypeOK, TypeRest, Gens, WorkerPC, CloserPC
    <3> QED
      BY <3>1, <3>2 DEF TypeOK, TypeFlags, TypeRest
  <2>2. OneAtWork'
    BY DEF TypeOK, OneAtWork, BuildPC, SettlePC, BusyPC, Gens
  <2>3. SwitchExcludes'
    BY DEF TypeOK, OneAtWork, SwitchExcludes, BuildPC, SettlePC, BusyPC, Switches, Gens
  <2>4. HeldBy'
    BY DEF TypeOK, OneAtWork, HeldBy, BuildPC, SettlePC, BusyPC, Gens
  <2>5. Settled'
    BY DEF TypeOK, OneAtWork, Settled, BuildPC, SettlePC, BusyPC, Gens
  <2>6. DebtIsMarked'
    BY DEF TypeOK, OneAtWork, DebtIsMarked, BuildPC, SettlePC, BusyPC, Gens
  <2> QED
    BY <2>1, <2>2, <2>3, <2>4, <2>5, <2>6
<1>14. ASSUME NEW i \in Switches, SwitchAbandons(i) PROVE IInv'
  <2> USE <1>14 DEF SwitchAbandons
  <2>1. TypeOK'
    <3>1. TypeFlags'
      BY ZenonT(40) DEF TypeOK, TypeFlags
    <3>2. TypeRest'
      BY DEF TypeOK, TypeRest, Gens, WorkerPC, CloserPC
    <3> QED
      BY <3>1, <3>2 DEF TypeOK, TypeFlags, TypeRest
  <2>2. OneAtWork'
    BY DEF TypeOK, OneAtWork, BuildPC, SettlePC, BusyPC, Gens
  <2>3. SwitchExcludes'
    BY DEF TypeOK, OneAtWork, SwitchExcludes, BuildPC, SettlePC, BusyPC, Switches, Gens
  <2>4. HeldBy'
    BY DEF TypeOK, OneAtWork, HeldBy, BuildPC, SettlePC, BusyPC, Gens
  <2>5. Settled'
    BY DEF TypeOK, OneAtWork, Settled, BuildPC, SettlePC, BusyPC, Gens
  <2>6. DebtIsMarked'
    BY DEF TypeOK, OneAtWork, DebtIsMarked, BuildPC, SettlePC, BusyPC, Gens
  <2> QED
    BY <2>1, <2>2, <2>3, <2>4, <2>5, <2>6
<1>15. ASSUME NEW i \in Switches, SwitchClaims(i) PROVE IInv'
  <2> USE <1>15 DEF SwitchClaims, BeginStart
  <2>1. TypeOK'
    <3>1. TypeFlags'
      BY ZenonT(40) DEF TypeOK, TypeFlags
    <3>2. TypeRest'
      BY DEF TypeOK, TypeRest, Gens, WorkerPC, CloserPC
    <3> QED
      BY <3>1, <3>2 DEF TypeOK, TypeFlags, TypeRest
  <2>2. OneAtWork'
    BY DEF TypeOK, OneAtWork, BuildPC, SettlePC, BusyPC, Gens, SwitchExcludes
  <2>3. SwitchExcludes'
    BY DEF TypeOK, OneAtWork, SwitchExcludes, BuildPC, SettlePC, BusyPC, Switches, Gens
  <2>4. HeldBy'
    BY DEF TypeOK, OneAtWork, HeldBy, BuildPC, SettlePC, BusyPC, Gens, SwitchExcludes
  <2>5. Settled'
    BY DEF TypeOK, OneAtWork, Settled, BuildPC, SettlePC, BusyPC, Gens, SwitchExcludes
  <2>6. DebtIsMarked'
    BY DEF TypeOK, OneAtWork, DebtIsMarked, BuildPC, SettlePC, BusyPC, Gens, SwitchExcludes
  <2> QED
    BY <2>1, <2>2, <2>3, <2>4, <2>5, <2>6
<1>16. ASSUME NEW i \in Switches, SwitchEnds(i) PROVE IInv'
  <2> USE <1>16 DEF SwitchEnds
  <2>1. TypeOK'
    <3>1. TypeFlags'
      BY ZenonT(40) DEF TypeOK, TypeFlags
    <3>2. TypeRest'
      BY DEF TypeOK, TypeRest, Gens, WorkerPC, CloserPC
    <3> QED
      BY <3>1, <3>2 DEF TypeOK, TypeFlags, TypeRest
  <2>2. OneAtWork'
    BY DEF TypeOK, OneAtWork, BuildPC, SettlePC, BusyPC, Gens
  <2>3. SwitchExcludes'
    BY DEF TypeOK, OneAtWork, SwitchExcludes, BuildPC, SettlePC, BusyPC, Switches, Gens
  <2>4. HeldBy'
    BY DEF TypeOK, OneAtWork, HeldBy, BuildPC, SettlePC, BusyPC, Gens
  <2>5. Settled'
    BY DEF TypeOK, OneAtWork, Settled, BuildPC, SettlePC, BusyPC, Gens
  <2>6. DebtIsMarked'
    BY DEF TypeOK, OneAtWork, DebtIsMarked, BuildPC, SettlePC, BusyPC, Gens
  <2> QED
    BY <2>1, <2>2, <2>3, <2>4, <2>5, <2>6
<1>17. ASSUME NEW g \in Gens, Awaits(g) PROVE IInv'
  <2> USE <1>17 DEF Awaits
  <2>1. PICK label \in {"recover", "build", "quit"} :
          /\ pc[Starter(g)] \in {"await", "awaitAgain"}
          /\ Goto(Starter(g), label)
          /\ cooling <=> label = "quit"
          /\ label = "recover" => pc[Starter(g)] = "await"
          /\ label = "build" => pc[Starter(g)] = "awaitAgain"
    OBVIOUS
  <2>2. UNCHANGED <<memory, flags, watch, locals, close, machine, disk, stopWanted>>
    OBVIOUS
  <2> HIDE <1>17 DEF Awaits
  <2> USE <2>1, <2>2
  <2>3. TypeOK'
    <3>1. TypeFlags'
      BY ZenonT(40) DEF TypeOK, TypeFlags
    <3>2. TypeRest'
      BY DEF TypeOK, TypeRest, Gens, WorkerPC, CloserPC
    <3> QED
      BY <3>1, <3>2 DEF TypeOK, TypeFlags, TypeRest
  <2>4. OneAtWork'
    BY DEF TypeOK, OneAtWork, BuildPC, SettlePC, BusyPC, Gens
  <2>5. SwitchExcludes'
    BY DEF TypeOK, OneAtWork, SwitchExcludes, BuildPC, SettlePC, BusyPC, Switches, Gens
  <2>6. HeldBy'
    BY DEF TypeOK, OneAtWork, HeldBy, BuildPC, SettlePC, BusyPC, Gens
  <2>7. Settled'
    BY DEF TypeOK, OneAtWork, Settled, BuildPC, SettlePC, BusyPC, Gens
  <2>8. DebtIsMarked'
    BY DEF TypeOK, OneAtWork, DebtIsMarked, BuildPC, SettlePC, BusyPC, Gens
  <2> QED
    BY <2>3, <2>4, <2>5, <2>6, <2>7, <2>8
<1>18. ASSUME NEW g \in Gens, RecoverOpens(g) PROVE IInv'
  <2> USE <1>18 DEF RecoverOpens
  <2>1. TypeOK'
    <3>1. TypeFlags'
      BY ZenonT(40) DEF TypeOK, TypeFlags
    <3>2. TypeRest'
      BY DEF TypeOK, TypeRest, Gens, WorkerPC, CloserPC
    <3> QED
      BY <3>1, <3>2 DEF TypeOK, TypeFlags, TypeRest
  <2>2. OneAtWork'
    BY DEF TypeOK, OneAtWork, BuildPC, SettlePC, BusyPC, Gens
  <2>3. SwitchExcludes'
    BY DEF TypeOK, OneAtWork, SwitchExcludes, BuildPC, SettlePC, BusyPC, Switches, Gens
  <2>4. HeldBy'
    BY DEF TypeOK, OneAtWork, HeldBy, BuildPC, SettlePC, BusyPC, Gens
  <2>5. Settled'
    BY DEF TypeOK, OneAtWork, Settled, BuildPC, SettlePC, BusyPC, Gens
  <2>6. DebtIsMarked'
    BY DEF TypeOK, OneAtWork, DebtIsMarked, BuildPC, SettlePC, BusyPC, Gens
  <2> QED
    BY <2>1, <2>2, <2>3, <2>4, <2>5, <2>6
<1>19. ASSUME NEW g \in Gens, RecoverCloses(g) PROVE IInv'
  <2> USE <1>19 DEF RecoverCloses
  <2>1. TypeOK'
    <3>1. TypeFlags'
      BY ZenonT(40) DEF TypeOK, TypeFlags
    <3>2. TypeRest'
      BY DEF TypeOK, TypeRest, Gens, WorkerPC, CloserPC
    <3> QED
      BY <3>1, <3>2 DEF TypeOK, TypeFlags, TypeRest
  <2>2. OneAtWork'
    BY DEF TypeOK, OneAtWork, BuildPC, SettlePC, BusyPC, Gens
  <2>3. SwitchExcludes'
    BY DEF TypeOK, OneAtWork, SwitchExcludes, BuildPC, SettlePC, BusyPC, Switches, Gens
  <2>4. HeldBy'
    BY DEF TypeOK, OneAtWork, HeldBy, BuildPC, SettlePC, BusyPC, Gens
  <2>5. Settled'
    BY DEF TypeOK, OneAtWork, Settled, BuildPC, SettlePC, BusyPC, Gens
  <2>6. DebtIsMarked'
    BY DEF TypeOK, OneAtWork, DebtIsMarked, BuildPC, SettlePC, BusyPC, Gens
  <2> QED
    BY <2>1, <2>2, <2>3, <2>4, <2>5, <2>6
<1>20. ASSUME NEW g \in Gens, RecoverEnds(g) PROVE IInv'
  <2> USE <1>20 DEF RecoverEnds
  <2>1. TypeOK'
    <3>1. TypeFlags'
      BY ZenonT(40) DEF TypeOK, TypeFlags
    <3>2. TypeRest'
      BY DEF TypeOK, TypeRest, Gens, WorkerPC, CloserPC
    <3> QED
      BY <3>1, <3>2 DEF TypeOK, TypeFlags, TypeRest
  <2>2. OneAtWork'
    BY DEF TypeOK, OneAtWork, BuildPC, SettlePC, BusyPC, Gens
  <2>3. SwitchExcludes'
    BY DEF TypeOK, OneAtWork, SwitchExcludes, BuildPC, SettlePC, BusyPC, Switches, Gens
  <2>4. HeldBy'
    BY DEF TypeOK, OneAtWork, HeldBy, BuildPC, SettlePC, BusyPC, Gens
  <2>5. Settled'
    BY DEF TypeOK, OneAtWork, Settled, BuildPC, SettlePC, BusyPC, Gens
  <2>6. DebtIsMarked'
    BY DEF TypeOK, OneAtWork, DebtIsMarked, BuildPC, SettlePC, BusyPC, Gens
  <2> QED
    BY <2>1, <2>2, <2>3, <2>4, <2>5, <2>6
<1>21. ASSUME NEW g \in Gens, BuildOpens(g) PROVE IInv'
  <2> USE <1>21 DEF BuildOpens
  <2>1. TypeOK'
    <3>1. TypeFlags'
      BY ZenonT(40) DEF TypeOK, TypeFlags
    <3>2. TypeRest'
      BY DEF TypeOK, TypeRest, Gens, WorkerPC, CloserPC
    <3> QED
      BY <3>1, <3>2 DEF TypeOK, TypeFlags, TypeRest
  <2>2. OneAtWork'
    BY DEF TypeOK, OneAtWork, BuildPC, SettlePC, BusyPC, Gens
  <2>3. SwitchExcludes'
    BY DEF TypeOK, OneAtWork, SwitchExcludes, BuildPC, SettlePC, BusyPC, Switches, Gens
  <2>4. HeldBy'
    BY ZenonT(40) DEF TypeOK, OneAtWork, HeldBy, BuildPC, SettlePC, BusyPC, Gens
  <2>5. Settled'
    BY DEF TypeOK, OneAtWork, Settled, BuildPC, SettlePC, BusyPC, Gens
  <2>6. DebtIsMarked'
    BY DEF TypeOK, OneAtWork, DebtIsMarked, BuildPC, SettlePC, BusyPC, Gens
  <2> QED
    BY <2>1, <2>2, <2>3, <2>4, <2>5, <2>6
<1>22. ASSUME NEW g \in Gens, BuildUnwinds(g) PROVE IInv'
  <2> USE <1>22 DEF BuildUnwinds
  <2>1. TypeOK'
    <3>1. TypeFlags'
      BY ZenonT(40) DEF TypeOK, TypeFlags
    <3>2. TypeRest'
      BY DEF TypeOK, TypeRest, Gens, WorkerPC, CloserPC
    <3> QED
      BY <3>1, <3>2 DEF TypeOK, TypeFlags, TypeRest
  <2>2. OneAtWork'
    BY DEF TypeOK, OneAtWork, BuildPC, SettlePC, BusyPC, Gens
  <2>3. SwitchExcludes'
    BY DEF TypeOK, OneAtWork, SwitchExcludes, BuildPC, SettlePC, BusyPC, Switches, Gens
  <2>4. HeldBy'
    BY DEF TypeOK, OneAtWork, HeldBy, BuildPC, SettlePC, BusyPC, Gens
  <2>5. Settled'
    BY DEF TypeOK, OneAtWork, Settled, BuildPC, SettlePC, BusyPC, Gens
  <2>6. DebtIsMarked'
    BY DEF TypeOK, OneAtWork, DebtIsMarked, BuildPC, SettlePC, BusyPC, Gens
  <2> QED
    BY <2>1, <2>2, <2>3, <2>4, <2>5, <2>6
<1>23. ASSUME NEW g \in Gens, BuildPublishes(g) PROVE IInv'
  <2> USE <1>23 DEF BuildPublishes
  <2>1. TypeOK'
    <3>1. TypeFlags'
      BY ZenonT(40) DEF TypeOK, TypeFlags
    <3>2. TypeRest'
      BY DEF TypeOK, TypeRest, Gens, WorkerPC, CloserPC
    <3> QED
      BY <3>1, <3>2 DEF TypeOK, TypeFlags, TypeRest
  <2>2. OneAtWork'
    BY DEF TypeOK, OneAtWork, BuildPC, SettlePC, BusyPC, Gens
  <2>3. SwitchExcludes'
    BY DEF TypeOK, OneAtWork, SwitchExcludes, BuildPC, SettlePC, BusyPC, Switches, Gens
  <2>4. HeldBy'
    BY DEF TypeOK, OneAtWork, HeldBy, BuildPC, SettlePC, BusyPC, Gens
  <2>5. Settled'
    BY DEF TypeOK, OneAtWork, Settled, BuildPC, SettlePC, BusyPC, Gens
  <2>6. DebtIsMarked'
    BY DEF TypeOK, OneAtWork, DebtIsMarked, BuildPC, SettlePC, BusyPC, Gens
  <2> QED
    BY <2>1, <2>2, <2>3, <2>4, <2>5, <2>6
<1>24. ASSUME NEW g \in Gens, ServicesRaise(g) PROVE IInv'
  <2> USE <1>24 DEF ServicesRaise
  <2>1. TypeOK'
    <3>1. TypeFlags'
      BY ZenonT(40) DEF TypeOK, TypeFlags
    <3>2. TypeRest'
      BY DEF TypeOK, TypeRest, Gens, WorkerPC, CloserPC
    <3> QED
      BY <3>1, <3>2 DEF TypeOK, TypeFlags, TypeRest
  <2>2. OneAtWork'
    BY DEF TypeOK, OneAtWork, BuildPC, SettlePC, BusyPC, Gens
  <2>3. SwitchExcludes'
    BY DEF TypeOK, OneAtWork, SwitchExcludes, BuildPC, SettlePC, BusyPC, Switches, Gens
  <2>4. HeldBy'
    BY DEF TypeOK, OneAtWork, HeldBy, BuildPC, SettlePC, BusyPC, Gens
  <2>5. Settled'
    BY DEF TypeOK, OneAtWork, Settled, BuildPC, SettlePC, BusyPC, Gens
  <2>6. DebtIsMarked'
    BY DEF TypeOK, OneAtWork, DebtIsMarked, BuildPC, SettlePC, BusyPC, Gens
  <2> QED
    BY <2>1, <2>2, <2>3, <2>4, <2>5, <2>6
<1>25. ASSUME NEW g \in Gens, ServicesUp(g) PROVE IInv'
  <2> USE <1>25 DEF ServicesUp
  <2>1. TypeOK'
    <3>1. TypeFlags'
      BY ZenonT(40) DEF TypeOK, TypeFlags
    <3>2. TypeRest'
      BY DEF TypeOK, TypeRest, Gens, WorkerPC, CloserPC
    <3> QED
      BY <3>1, <3>2 DEF TypeOK, TypeFlags, TypeRest
  <2>2. OneAtWork'
    BY DEF TypeOK, OneAtWork, BuildPC, SettlePC, BusyPC, Gens
  <2>3. SwitchExcludes'
    BY DEF TypeOK, OneAtWork, SwitchExcludes, BuildPC, SettlePC, BusyPC, Switches, Gens
  <2>4. HeldBy'
    BY DEF TypeOK, OneAtWork, HeldBy, BuildPC, SettlePC, BusyPC, Gens
  <2>5. Settled'
    BY DEF TypeOK, OneAtWork, Settled, BuildPC, SettlePC, BusyPC, Gens
  <2>6. DebtIsMarked'
    BY DEF TypeOK, OneAtWork, DebtIsMarked, BuildPC, SettlePC, BusyPC, Gens
  <2> QED
    BY <2>1, <2>2, <2>3, <2>4, <2>5, <2>6
<1>26. ASSUME NEW g \in Gens, Lands(g) PROVE IInv'
  <2> USE <1>26 DEF Lands, Publishes
  <2>1. TypeOK'
    <3>1. TypeFlags'
      BY ZenonT(40) DEF TypeOK, TypeFlags
    <3>2. TypeRest'
      BY DEF TypeOK, TypeRest, Gens, WorkerPC, CloserPC
    <3> QED
      BY <3>1, <3>2 DEF TypeOK, TypeFlags, TypeRest
  <2>2. OneAtWork'
    BY DEF TypeOK, OneAtWork, BuildPC, SettlePC, BusyPC, Gens
  <2>3. SwitchExcludes'
    BY DEF TypeOK, OneAtWork, SwitchExcludes, BuildPC, SettlePC, BusyPC, Switches, Gens
  <2>4. HeldBy'
    BY DEF TypeOK, OneAtWork, HeldBy, BuildPC, SettlePC, BusyPC, Gens
  <2>5. Settled'
    BY DEF TypeOK, OneAtWork, Settled, BuildPC, SettlePC, BusyPC, Gens
  <2>6. DebtIsMarked'
    BY DEF TypeOK, OneAtWork, DebtIsMarked, BuildPC, SettlePC, BusyPC, Gens
  <2> QED
    BY <2>1, <2>2, <2>3, <2>4, <2>5, <2>6
<1>27. ASSUME NEW g \in Gens, ChecksCancel(g) PROVE IInv'
  <2> USE <1>27 DEF ChecksCancel
  <2>1. TypeOK'
    <3>1. TypeFlags'
      BY ZenonT(40) DEF TypeOK, TypeFlags
    <3>2. TypeRest'
      BY DEF TypeOK, TypeRest, Gens, WorkerPC, CloserPC
    <3> QED
      BY <3>1, <3>2 DEF TypeOK, TypeFlags, TypeRest
  <2>2. OneAtWork'
    BY DEF TypeOK, OneAtWork, BuildPC, SettlePC, BusyPC, Gens
  <2>3. SwitchExcludes'
    BY DEF TypeOK, OneAtWork, SwitchExcludes, BuildPC, SettlePC, BusyPC, Switches, Gens
  <2>4. HeldBy'
    BY DEF TypeOK, OneAtWork, HeldBy, BuildPC, SettlePC, BusyPC, Gens
  <2>5. Settled'
    BY DEF TypeOK, OneAtWork, Settled, BuildPC, SettlePC, BusyPC, Gens
  <2>6. DebtIsMarked'
    BY DEF TypeOK, OneAtWork, DebtIsMarked, BuildPC, SettlePC, BusyPC, Gens
  <2> QED
    BY <2>1, <2>2, <2>3, <2>4, <2>5, <2>6
<1>28. ASSUME NEW g \in Gens, StopsItself(g) PROVE IInv'
  <2> USE <1>28 DEF StopsItself, FlagSwitch, StopLocked, StopRaises
  <2>1. TypeOK'
    <3>1. TypeFlags'
      <4>1. TypeFlags
        BY DEF TypeOK, TypeFlags
      <4>2. cancel' = TRUE \/ UNCHANGED cancel
        OBVIOUS
      <4>3. UNCHANGED <<cooling, switching, closing, gaveUp, playing, resetting, marker, marked, unwatched>>
        OBVIOUS
      <4>4. {abortSwitch', stopWanted'} \subseteq BOOLEAN
        BY <4>1 DEF TypeFlags
      <4> HIDE DEF StopsItself, FlagSwitch, StopLocked, StopRaises
      <4> QED
        BY ONLY <4>1, <4>2, <4>3, <4>4, FlagsStep
    <3>2. TypeRest'
      BY DEF TypeOK, TypeRest, Gens, WorkerPC, CloserPC
    <3> QED
      BY <3>1, <3>2 DEF TypeOK, TypeFlags, TypeRest
  <2>2. OneAtWork'
    BY DEF TypeOK, OneAtWork, BuildPC, SettlePC, BusyPC, Gens
  <2>3. SwitchExcludes'
    BY DEF TypeOK, OneAtWork, SwitchExcludes, BuildPC, SettlePC, BusyPC, Switches, Gens
  <2>4. HeldBy'
    BY DEF TypeOK, OneAtWork, HeldBy, BuildPC, SettlePC, BusyPC, Gens
  <2>5. Settled'
    BY DEF TypeOK, OneAtWork, Settled, BuildPC, SettlePC, BusyPC, Gens
  <2>6. DebtIsMarked'
    BY DEF TypeOK, OneAtWork, DebtIsMarked, BuildPC, SettlePC, BusyPC, Gens
  <2> QED
    BY <2>1, <2>2, <2>3, <2>4, <2>5, <2>6
<1>29. ASSUME NEW g \in Gens, Quits(g) PROVE IInv'
  <2> USE <1>29 DEF Quits
  <2>1. TypeOK'
    <3>1. TypeFlags'
      BY ZenonT(40) DEF TypeOK, TypeFlags
    <3>2. TypeRest'
      BY DEF TypeOK, TypeRest, Gens, WorkerPC, CloserPC
    <3> QED
      BY <3>1, <3>2 DEF TypeOK, TypeFlags, TypeRest
  <2>2. OneAtWork'
    BY DEF TypeOK, OneAtWork, BuildPC, SettlePC, BusyPC, Gens
  <2>3. SwitchExcludes'
    BY DEF TypeOK, OneAtWork, SwitchExcludes, BuildPC, SettlePC, BusyPC, Switches, Gens
  <2>4. HeldBy'
    BY DEF TypeOK, OneAtWork, HeldBy, BuildPC, SettlePC, BusyPC, Gens
  <2>5. Settled'
    BY DEF TypeOK, OneAtWork, Settled, BuildPC, SettlePC, BusyPC, Gens
  <2>6. DebtIsMarked'
    BY DEF TypeOK, OneAtWork, DebtIsMarked, BuildPC, SettlePC, BusyPC, Gens
  <2> QED
    BY <2>1, <2>2, <2>3, <2>4, <2>5, <2>6
<1>30. ASSUME NEW g \in Gens, Joins(g) PROVE IInv'
  <2> USE <1>30 DEF Joins
  <2>1. TypeOK'
    <3>1. TypeFlags'
      BY ZenonT(40) DEF TypeOK, TypeFlags
    <3>2. TypeRest'
      BY DEF TypeOK, TypeRest, Gens, WorkerPC, CloserPC
    <3> QED
      BY <3>1, <3>2 DEF TypeOK, TypeFlags, TypeRest
  <2>2. OneAtWork'
    BY DEF TypeOK, OneAtWork, BuildPC, SettlePC, BusyPC, Gens
  <2>3. SwitchExcludes'
    BY DEF TypeOK, OneAtWork, SwitchExcludes, BuildPC, SettlePC, BusyPC, Switches, Gens
  <2>4. HeldBy'
    BY DEF TypeOK, OneAtWork, HeldBy, BuildPC, SettlePC, BusyPC, Gens
  <2>5. Settled'
    BY DEF TypeOK, OneAtWork, Settled, BuildPC, SettlePC, BusyPC, Gens
  <2>6. DebtIsMarked'
    BY DEF TypeOK, OneAtWork, DebtIsMarked, BuildPC, SettlePC, BusyPC, Gens
  <2> QED
    BY <2>1, <2>2, <2>3, <2>4, <2>5, <2>6
<1>31. ASSUME NEW w \in Workers, ReadsSession(w) PROVE IInv'
  <2> USE <1>31 DEF ReadsSession
  <2>1. TypeOK'
    <3>1. TypeFlags'
      BY ZenonT(40) DEF TypeOK, TypeFlags
    <3>2. TypeRest'
      BY DEF TypeOK, TypeRest, Gens, WorkerPC, CloserPC
    <3> QED
      BY <3>1, <3>2 DEF TypeOK, TypeFlags, TypeRest
  <2>2. OneAtWork'
    BY DEF TypeOK, OneAtWork, BuildPC, SettlePC, BusyPC, Gens
  <2>3. SwitchExcludes'
    BY DEF TypeOK, OneAtWork, SwitchExcludes, BuildPC, SettlePC, BusyPC, Switches, Gens
  <2>4. HeldBy'
    BY DEF TypeOK, OneAtWork, HeldBy, BuildPC, SettlePC, BusyPC, Gens
  <2>5. Settled'
    BY DEF TypeOK, OneAtWork, Settled, BuildPC, SettlePC, BusyPC, Gens
  <2>6. DebtIsMarked'
    BY DEF TypeOK, OneAtWork, DebtIsMarked, BuildPC, SettlePC, BusyPC, Gens
  <2> QED
    BY <2>1, <2>2, <2>3, <2>4, <2>5, <2>6
<1>32. ASSUME NEW w \in Workers, TearsDown(w) PROVE IInv'
  <2> USE <1>32 DEF TearsDown
  <2>1. TypeOK'
    <3>1. TypeFlags'
      BY ZenonT(40) DEF TypeOK, TypeFlags
    <3>2. TypeRest'
      BY DEF TypeOK, TypeRest, Gens, WorkerPC, CloserPC
    <3> QED
      BY <3>1, <3>2 DEF TypeOK, TypeFlags, TypeRest
  <2>2. OneAtWork'
    BY DEF TypeOK, OneAtWork, BuildPC, SettlePC, BusyPC, Gens
  <2>3. SwitchExcludes'
    BY DEF TypeOK, OneAtWork, SwitchExcludes, BuildPC, SettlePC, BusyPC, Switches, Gens
  <2>4. HeldBy'
    BY DEF TypeOK, OneAtWork, HeldBy, BuildPC, SettlePC, BusyPC, Gens
  <2>5. Settled'
    BY DEF TypeOK, OneAtWork, Settled, BuildPC, SettlePC, BusyPC, Gens
  <2>6. DebtIsMarked'
    BY DEF TypeOK, OneAtWork, DebtIsMarked, BuildPC, SettlePC, BusyPC, Gens
  <2> QED
    BY <2>1, <2>2, <2>3, <2>4, <2>5, <2>6
<1>33. ASSUME NEW w \in Workers, Settles(w) PROVE IInv'
  <2> USE <1>33 DEF Settles
  <2>1. TypeOK'
    <3>1. TypeFlags'
      BY ZenonT(40) DEF TypeOK, TypeFlags
    <3>2. TypeRest'
      BY DEF TypeOK, TypeRest, Gens, WorkerPC, CloserPC
    <3> QED
      BY <3>1, <3>2 DEF TypeOK, TypeFlags, TypeRest
  <2>2. OneAtWork'
    BY DEF TypeOK, OneAtWork, BuildPC, SettlePC, BusyPC, Gens
  <2>3. SwitchExcludes'
    BY DEF TypeOK, OneAtWork, SwitchExcludes, BuildPC, SettlePC, BusyPC, Switches, Gens
  <2>4. HeldBy'
    BY DEF TypeOK, OneAtWork, HeldBy, BuildPC, SettlePC, BusyPC, Gens
  <2>5. Settled'
    BY DEF TypeOK, OneAtWork, Settled, BuildPC, SettlePC, BusyPC, Gens
  <2>6. DebtIsMarked'
    BY DEF TypeOK, OneAtWork, DebtIsMarked, BuildPC, SettlePC, BusyPC, Gens
  <2> QED
    BY <2>1, <2>2, <2>3, <2>4, <2>5, <2>6
<1>34. ASSUME CooldownPasses PROVE IInv'
  <2> USE <1>34 DEF CooldownPasses
  <2>1. TypeOK'
    <3>1. TypeFlags'
      BY ZenonT(40) DEF TypeOK, TypeFlags
    <3>2. TypeRest'
      BY DEF TypeOK, TypeRest, Gens, WorkerPC, CloserPC
    <3> QED
      BY <3>1, <3>2 DEF TypeOK, TypeFlags, TypeRest
  <2>2. OneAtWork'
    BY DEF TypeOK, OneAtWork, BuildPC, SettlePC, BusyPC, Gens
  <2>3. SwitchExcludes'
    BY DEF TypeOK, OneAtWork, SwitchExcludes, BuildPC, SettlePC, BusyPC, Switches, Gens
  <2>4. HeldBy'
    BY DEF TypeOK, OneAtWork, HeldBy, BuildPC, SettlePC, BusyPC, Gens
  <2>5. Settled'
    BY DEF TypeOK, OneAtWork, Settled, BuildPC, SettlePC, BusyPC, Gens
  <2>6. DebtIsMarked'
    BY DEF TypeOK, OneAtWork, DebtIsMarked, BuildPC, SettlePC, BusyPC, Gens
  <2> QED
    BY <2>1, <2>2, <2>3, <2>4, <2>5, <2>6
<1>35. ASSUME PlaylistsEnd PROVE IInv'
  <2> USE <1>35 DEF PlaylistsEnd
  <2>1. TypeOK'
    <3>1. TypeFlags'
      BY ZenonT(40) DEF TypeOK, TypeFlags
    <3>2. TypeRest'
      BY DEF TypeOK, TypeRest, Gens, WorkerPC, CloserPC
    <3> QED
      BY <3>1, <3>2 DEF TypeOK, TypeFlags, TypeRest
  <2>2. OneAtWork'
    BY DEF TypeOK, OneAtWork, BuildPC, SettlePC, BusyPC, Gens
  <2>3. SwitchExcludes'
    BY DEF TypeOK, OneAtWork, SwitchExcludes, BuildPC, SettlePC, BusyPC, Switches, Gens
  <2>4. HeldBy'
    BY DEF TypeOK, OneAtWork, HeldBy, BuildPC, SettlePC, BusyPC, Gens
  <2>5. Settled'
    BY DEF TypeOK, OneAtWork, Settled, BuildPC, SettlePC, BusyPC, Gens
  <2>6. DebtIsMarked'
    BY DEF TypeOK, OneAtWork, DebtIsMarked, BuildPC, SettlePC, BusyPC, Gens
  <2> QED
    BY <2>1, <2>2, <2>3, <2>4, <2>5, <2>6
<1>36. ASSUME Crash PROVE IInv'
  <2> USE <1>36 DEF Crash
  <2>1. TypeOK'
    <3>1. TypeFlags'
      BY ZenonT(40) DEF TypeOK, TypeFlags
    <3>2. TypeRest'
      BY DEF TypeOK, TypeRest, Gens, WorkerPC, CloserPC
    <3> QED
      BY <3>1, <3>2 DEF TypeOK, TypeFlags, TypeRest
  <2>2. OneAtWork'
    BY DEF TypeOK, OneAtWork, BuildPC, SettlePC, BusyPC, Gens
  <2>3. SwitchExcludes'
    BY DEF TypeOK, OneAtWork, SwitchExcludes, BuildPC, SettlePC, BusyPC, Switches, Gens
  <2>4. HeldBy'
    BY DEF TypeOK, OneAtWork, HeldBy, BuildPC, SettlePC, BusyPC, Gens
  <2>5. Settled'
    BY DEF TypeOK, OneAtWork, Settled, BuildPC, SettlePC, BusyPC, Gens
  <2>6. DebtIsMarked'
    BY DEF TypeOK, OneAtWork, DebtIsMarked, BuildPC, SettlePC, BusyPC, Gens
  <2> QED
    BY <2>1, <2>2, <2>3, <2>4, <2>5, <2>6
<1>37. ASSUME UNCHANGED vars PROVE IInv'
  <2> USE <1>37 DEF vars
  <2>1. TypeOK'
    <3>1. TypeFlags'
      BY ZenonT(40) DEF TypeOK, TypeFlags
    <3>2. TypeRest'
      BY DEF TypeOK, TypeRest, Gens, WorkerPC, CloserPC
    <3> QED
      BY <3>1, <3>2 DEF TypeOK, TypeFlags, TypeRest
  <2>2. OneAtWork'
    BY DEF TypeOK, OneAtWork, BuildPC, SettlePC, BusyPC, Gens
  <2>3. SwitchExcludes'
    BY DEF TypeOK, OneAtWork, SwitchExcludes, BuildPC, SettlePC, BusyPC, Switches, Gens
  <2>4. HeldBy'
    BY DEF TypeOK, OneAtWork, HeldBy, BuildPC, SettlePC, BusyPC, Gens
  <2>5. Settled'
    BY DEF TypeOK, OneAtWork, Settled, BuildPC, SettlePC, BusyPC, Gens
  <2>6. DebtIsMarked'
    BY DEF TypeOK, OneAtWork, DebtIsMarked, BuildPC, SettlePC, BusyPC, Gens
  <2> QED
    BY <2>1, <2>2, <2>3, <2>4, <2>5, <2>6
<1>38. ASSUME NEW g \in Gens, LandsRaises(g) PROVE IInv'
  <2> USE <1>38 DEF LandsRaises, Publishes
  <2>1. TypeOK'
    <3>1. TypeFlags'
      BY ZenonT(40) DEF TypeOK, TypeFlags
    <3>2. TypeRest'
      BY DEF TypeOK, TypeRest, Gens, WorkerPC, CloserPC
    <3> QED
      BY <3>1, <3>2 DEF TypeOK, TypeFlags, TypeRest
  <2>2. OneAtWork'
    BY DEF TypeOK, OneAtWork, BuildPC, SettlePC, BusyPC, Gens
  <2>3. SwitchExcludes'
    BY DEF TypeOK, OneAtWork, SwitchExcludes, BuildPC, SettlePC, BusyPC, Switches, Gens
  <2>4. HeldBy'
    BY DEF TypeOK, OneAtWork, HeldBy, BuildPC, SettlePC, BusyPC, Gens
  <2>5. Settled'
    BY DEF TypeOK, OneAtWork, Settled, BuildPC, SettlePC, BusyPC, Gens
  <2>6. DebtIsMarked'
    BY DEF TypeOK, OneAtWork, DebtIsMarked, BuildPC, SettlePC, BusyPC, Gens
  <2> QED
    BY <2>1, <2>2, <2>3, <2>4, <2>5, <2>6
<1> QED
  BY <1>1, <1>2, <1>3, <1>4, <1>5, <1>6, <1>7, <1>8, <1>9, <1>10, <1>11, <1>12, <1>13, <1>14, <1>15, <1>16, <1>17, <1>18, <1>19, <1>20, <1>21, <1>22, <1>23, <1>24, <1>25, <1>26, <1>27, <1>28, <1>29, <1>30, <1>31, <1>32, <1>33, <1>34, <1>35, <1>36, <1>37, <1>38 DEF Next, Closer, Starters, Settlers, Switchers, CloserPC

-----------------------------------------------------------------------------
LEMMA Invariance == ASSUME OneSwitcher PROVE Spec => []IInv
<1>1. IInv /\ [Next]_vars => IInv'
  BY IInvStep
<1> QED
  BY IInvInit, <1>1, PTL DEF Spec

\* Every variable keeps its type, in every behaviour.
THEOREM TypeCorrect == ASSUME OneSwitcher PROVE Spec => []TypeOK
BY Invariance, PTL DEF IInv

\* No two builds or recoveries ever have the machine open together.
THEOREM OneHolderHolds == ASSUME OneSwitcher PROVE Spec => []OneHolder
<1>1. IInv => OneHolder
  BY DEF IInv, OneHolder, HeldBy, BuildPC
<1> QED
  BY <1>1, Invariance, PTL

\* Whenever the supervisor can be started again, the machine is free.
THEOREM StartableIsFreeHolds == ASSUME OneSwitcher PROVE Spec => []StartableIsFree
<1>1. IInv => StartableIsFree
  BY DEF IInv, StartableIsFree, HeldBy, OneAtWork, BuildPC, Startable
<1> QED
  BY <1>1, Invariance, PTL

\* Once close() has begun nothing can claim, so what has come to rest stays so.
AtRest ==
  /\ closer # "none" => closing
  /\ closer \in {"joinAgain", "done"} /\ ~gaveUp => state \in Startable

LEMMA RestStays ==
  ASSUME IInv, [Next]_vars, closing, state \in Startable
  PROVE  (state' \in Startable /\ closing') \/ Crash
<1> DEFINE Rests == state' \in Startable /\ closing'
<1> USE DEF Startable
<1>1. ~Start
  BY DEF Start
<1>2. Stop \/ Close \/ Closer \/ ReapTick => Rests
  BY DEF Stop, Close, Closer, CloseStops, CloseWaits, CloseReaper, CloseJoins, CloseVerifies,
         CloseWaitsAgain, ReapTick, StopLocked, StopRaises, memory, flags
<1>3. ASSUME NEW i \in Switches, Switch(i) \/ Switchers(i) PROVE Rests
  BY <1>3 DEF Switch, Switchers, SwitchStops, SwitchWaits, SwitchAbandons, SwitchClaims,
              SwitchEnds, StopLocked, StopRaises, Moves, memory, flags
<1>4. ASSUME NEW g \in Gens, Starters(g) \/ Joins(g) PROVE Rests
  <2>1. pc[Starter(g)] \notin BuildPC
    BY WorkerNames DEF IInv, OneAtWork
  <2>2. ~Lands(g) /\ ~LandsRaises(g) /\ ~Quits(g)
    BY <2>1 DEF Lands, LandsRaises, Publishes, Quits, BuildPC
  <2>3. Awaits(g) \/ ChecksCancel(g) => Rests
    BY DEF Awaits, ChecksCancel, Moves, memory, flags
  <2>4. RecoverOpens(g) \/ RecoverCloses(g) \/ RecoverEnds(g) \/ BuildOpens(g) => Rests
    BY DEF RecoverOpens, RecoverCloses, RecoverEnds, BuildOpens, memory, flags
  <2>5. BuildUnwinds(g) \/ BuildPublishes(g) \/ ServicesRaise(g) \/ ServicesUp(g) => Rests
    BY DEF BuildUnwinds, BuildPublishes, ServicesRaise, ServicesUp, memory, flags
  <2>6. StopsItself(g) \/ Joins(g) => Rests
    BY DEF StopsItself, Joins, StopLocked, StopRaises, memory, flags
  <2> QED
    BY <1>4, <2>2, <2>3, <2>4, <2>5, <2>6 DEF Starters
<1>5. ASSUME NEW w \in Workers, Settlers(w) PROVE Rests
  BY <1>5 DEF Settlers, ReadsSession, TearsDown, Settles, memory, flags, IInv, TypeOK
<1>6. CooldownPasses \/ PlaylistsEnd \/ UNCHANGED vars => Rests
  BY DEF CooldownPasses, PlaylistsEnd, vars, memory, flags
<1> QED
  BY <1>1, <1>2, <1>3, <1>4, <1>5, <1>6 DEF Next

LEMMA AtRestStep == ASSUME IInv, AtRest, [Next]_vars PROVE AtRest'
<1>1. CASE Crash
  BY <1>1 DEF Crash, AtRest
<1>2. CASE Close
  BY <1>2 DEF Close, AtRest
<1>3. CASE Closer
  <2>1. ASSUME NEW here, NEW there, CloseStops(here, there),
               here \notin {"none", "joinAgain", "done"}, there \in {"wait", "waitAgain"}
        PROVE  AtRest'
    BY <2>1 DEF CloseStops, AtRest
  <2>2. CloseWaits \/ CloseReaper => AtRest'
    BY DEF CloseWaits, CloseReaper, AtRest, flags
  <2>3. CloseJoins("join", "verify") \/ CloseJoins("joinAgain", "done") => AtRest'
    BY DEF CloseJoins, AtRest, memory, flags, IInv, TypeOK
  <2>4. CloseVerifies => AtRest'
    BY DEF CloseVerifies, AtRest, memory, flags
  <2>5. ASSUME CloseWaitsAgain PROVE AtRest'
    <3>1. ~gaveUp' => state \in Startable
      BY <2>5, Zenon DEF CloseWaitsAgain
    <3> QED
      BY <2>5, <3>1 DEF CloseWaitsAgain, AtRest, memory, flags
  <2> QED
    BY <1>3, <2>1, <2>2, <2>3, <2>4, <2>5 DEF Closer
<1>4. CASE ~Crash /\ ~Close /\ ~Closer
  <2>1. UNCHANGED <<closer, gaveUp>> /\ (closing => closing')
    <3>1. Start \/ Stop \/ ReapTick => UNCHANGED <<closer, gaveUp, closing>>
      BY DEF Start, Stop, ReapTick, close, flags
    <3>2. ASSUME NEW i \in Switches, Switch(i) \/ Switchers(i)
          PROVE  UNCHANGED <<closer, gaveUp, closing>>
      BY <3>2 DEF Switch, Switchers, SwitchStops, SwitchWaits, SwitchAbandons, SwitchClaims,
                  SwitchEnds, Moves, close, flags
    <3>3. ASSUME NEW g \in Gens, Starters(g) \/ Joins(g)
          PROVE  UNCHANGED <<closer, gaveUp, closing>>
      <4>1. Awaits(g) \/ ChecksCancel(g) => UNCHANGED <<closer, gaveUp, closing>>
        BY DEF Awaits, ChecksCancel, Moves, close, flags
      <4>2. RecoverOpens(g) \/ RecoverCloses(g) \/ RecoverEnds(g) \/ BuildOpens(g)
              => UNCHANGED <<closer, gaveUp, closing>>
        BY DEF RecoverOpens, RecoverCloses, RecoverEnds, BuildOpens, close, flags
      <4>3. BuildUnwinds(g) \/ BuildPublishes(g) \/ ServicesRaise(g) \/ ServicesUp(g)
              => UNCHANGED <<closer, gaveUp, closing>>
        BY DEF BuildUnwinds, BuildPublishes, ServicesRaise, ServicesUp, close, flags
      <4>4. Lands(g) \/ LandsRaises(g) \/ StopsItself(g) \/ Quits(g) \/ Joins(g)
              => UNCHANGED <<closer, gaveUp, closing>>
        BY DEF Lands, LandsRaises, Publishes, StopsItself, Quits, Joins, close, flags
      <4> QED
        BY <3>3, <4>1, <4>2, <4>3, <4>4 DEF Starters
    <3>4. ASSUME NEW w \in Workers, Settlers(w) PROVE UNCHANGED <<closer, gaveUp, closing>>
      BY <3>4 DEF Settlers, ReadsSession, TearsDown, Settles, close, flags
    <3>5. CooldownPasses \/ PlaylistsEnd \/ UNCHANGED vars
            => UNCHANGED <<closer, gaveUp, closing>>
      BY DEF CooldownPasses, PlaylistsEnd, vars, close, flags
    <3> QED
      BY <1>4, <3>1, <3>2, <3>3, <3>4, <3>5 DEF Next
  <2> QED
    BY <1>4, <2>1, RestStays DEF AtRest
<1> QED
  BY <1>1, <1>2, <1>3, <1>4

\* A close() that ran past none of its last deadlines leaves the machine free.
THEOREM CloseReleasesHolds == ASSUME OneSwitcher PROVE Spec => []CloseReleases
<1>1. Init => AtRest
  BY DEF Init, AtRest
<1>2. IInv /\ AtRest /\ [Next]_vars => AtRest'
  BY AtRestStep
<1>3. IInv /\ AtRest => CloseReleases
  BY DEF IInv, AtRest, CloseReleases, HeldBy, OneAtWork, BuildPC, Startable
<1> QED
  BY <1>1, <1>2, <1>3, Invariance, PTL DEF Spec

\* Steps other than the two that open the machine leave it no more open.
LEMMA OnlyTheseOpen ==
  ASSUME IInv, [Next]_vars, ~(held' \subseteq held) \/ (resetting' /\ ~resetting)
  PROVE  \E g \in Gens : BuildOpens(g) \/ RecoverOpens(g)
<1> DEFINE Quiet == held' \subseteq held /\ (resetting' => resetting)
<1>1. Start \/ Stop \/ Close \/ Closer \/ ReapTick => Quiet
  BY DEF Start, Stop, Close, Closer, CloseStops, CloseWaits, CloseReaper, CloseJoins,
         CloseVerifies, CloseWaitsAgain, ReapTick, machine
<1>2. ASSUME NEW i \in Switches, Switch(i) \/ Switchers(i) PROVE Quiet
  BY <1>2 DEF Switch, Switchers, SwitchStops, SwitchWaits, SwitchAbandons, SwitchClaims,
              SwitchEnds, Moves, machine
<1>3. ASSUME NEW g \in Gens, Starters(g) \/ Joins(g), ~BuildOpens(g), ~RecoverOpens(g)
      PROVE  Quiet
  <2>1. RecoverCloses(g) => Quiet
    BY DEF RecoverCloses
  <2>2. BuildUnwinds(g) => Quiet
    BY DEF BuildUnwinds
  <2>3. Awaits(g) \/ ChecksCancel(g) => Quiet
    BY DEF Awaits, ChecksCancel, Moves, machine
  <2>4. RecoverEnds(g) \/ BuildPublishes(g) \/ ServicesRaise(g) \/ ServicesUp(g)
          => UNCHANGED <<held, resetting>>
    BY DEF RecoverEnds, BuildPublishes, ServicesRaise, ServicesUp, machine
  <2>5. Lands(g) \/ LandsRaises(g) \/ StopsItself(g) \/ Quits(g) \/ Joins(g) => UNCHANGED <<held, resetting>>
    BY DEF Lands, LandsRaises, Publishes, StopsItself, Quits, Joins, machine
  <2> QED
    BY <1>3, <2>1, <2>2, <2>3, <2>4, <2>5 DEF Starters
<1>4. ASSUME NEW w \in Workers, Settlers(w) PROVE Quiet
  BY <1>4 DEF Settlers, ReadsSession, TearsDown, Settles, machine
<1>5. CooldownPasses \/ PlaylistsEnd \/ Crash \/ UNCHANGED vars => Quiet
  BY DEF CooldownPasses, PlaylistsEnd, Crash, vars, machine
<1> QED
  BY <1>1, <1>2, <1>3, <1>4, <1>5 DEF Next

\* The machine is never opened before the settle window of its last close.
THEOREM OpensSettledHolds == ASSUME OneSwitcher PROVE Spec => OpensSettled
<1>1. ASSUME IInv, [Next]_vars
      PROVE  [~(held' \subseteq held) \/ (resetting' /\ ~resetting) => ~cooling]_vars
  BY <1>1, OnlyTheseOpen, WorkerNames DEF IInv, Settled, BuildOpens, RecoverOpens
<1> QED
  BY <1>1, Invariance, PTL DEF Spec, OpensSettled

\* A marked session that died is followed by its recovery before any build: a
\* reset, or one that was tried, failed and was logged.
THEOREM ResetBeforeBuildHolds == ASSUME OneSwitcher PROVE Spec => ResetBeforeBuild
<1>1. ASSUME IInv, [Next]_vars
      PROVE  [~(held' \subseteq held) => owed # "due"]_vars
  <2>1. ASSUME NEW g \in Gens, BuildOpens(g) PROVE owed # "due"
    BY <1>1, <2>1, WorkerNames DEF IInv, DebtIsMarked, BuildOpens, BusyPC, BuildPC
  <2>2. ASSUME NEW g \in Gens, RecoverOpens(g) PROVE UNCHANGED held
    BY <2>2 DEF RecoverOpens
  <2> QED
    BY <1>1, <2>1, <2>2, OnlyTheseOpen
<1> QED
  BY <1>1, Invariance, PTL DEF Spec, ResetBeforeBuild

-----------------------------------------------------------------------------
\* A switch still on its way to its claim knows of any stop accepted since it
\* was asked for: it is not needed that the stop found a session to stop.
Ahead == {"stop", "wait", "claim"}

StopHeeded ==
  stopWanted => \A i \in Switches : pc[Switcher(i)] \in Ahead => abortSwitch

\* The workers that are not switching do not bring a switch nearer its claim.
NoNearer == \A i \in Switches : pc'[Switcher(i)] \in Ahead => pc[Switcher(i)] \in Ahead

LEMMA StopKeepsSwitches ==
  ASSUME NEW pcs \in [Workers -> WorkerPC], StopLocked(pcs) \/ StopRaises(pcs)
  PROVE  \A i \in Switches : pc'[Switcher(i)] = pcs[Switcher(i)]
<1>1. pc' = pcs \/ pc' = [pcs EXCEPT ![Stopper(gen)] = "join"]
  BY DEF StopLocked, StopRaises
<1> QED
  BY <1>1, WorkerNames

LEMMA OthersNoNearer ==
  ASSUME IInv,
         \/ ReapTick \/ Close \/ Closer \/ CooldownPasses \/ PlaylistsEnd \/ UNCHANGED vars
         \/ \E g \in Gens : Starters(g) \/ Joins(g)
         \/ \E w \in Workers : Settlers(w)
  PROVE  NoNearer
<1> USE WorkerNames DEF NoNearer, Ahead, Goto, Moves
<1>1. pc \in [Workers -> WorkerPC] /\ \A i \in Switches : Switcher(i) \in Workers
  BY DEF IInv, TypeOK
<1>2. CASE ReapTick
  BY <1>1, <1>2, StopKeepsSwitches DEF ReapTick
<1>3. CASE Close \/ CooldownPasses \/ PlaylistsEnd \/ UNCHANGED vars
  BY <1>3 DEF Close, CooldownPasses, PlaylistsEnd, vars
<1>4. CASE Closer
  <2>1. ASSUME NEW here, NEW there, CloseStops(here, there) PROVE NoNearer
    BY <1>1, <2>1, StopKeepsSwitches DEF CloseStops
  <2>2. CloseWaits \/ CloseReaper \/ CloseVerifies \/ CloseWaitsAgain => NoNearer
    BY DEF CloseWaits, CloseReaper, CloseVerifies, CloseWaitsAgain
  <2>3. CloseJoins("join", "verify") \/ CloseJoins("joinAgain", "done") => NoNearer
    BY DEF CloseJoins
  <2> QED
    BY <1>4, <2>1, <2>2, <2>3 DEF Closer
<1>5. ASSUME NEW g \in Gens, Starters(g) \/ Joins(g) PROVE NoNearer
  <2>1. ASSUME StopsItself(g) PROVE NoNearer
    <3> DEFINE exited == [pc EXCEPT ![Starter(g)] = "done"]
    <3>1. /\ StopLocked(exited) \/ StopRaises(exited)
          /\ exited \in [Workers -> WorkerPC]
      BY <1>1, <2>1 DEF StopsItself, WorkerPC
    <3>2. \A i \in Switches : pc'[Switcher(i)] = exited[Switcher(i)]
      BY <3>1, StopKeepsSwitches
    <3> QED
      BY <3>2
  <2>2. ASSUME NEW w \in {Starter(g), Stopper(g)}, NEW label, Goto(w, label) PROVE NoNearer
    BY <2>2
  <2>3. Awaits(g) \/ ChecksCancel(g) => NoNearer
    BY <2>2 DEF Awaits, ChecksCancel
  <2>4. RecoverOpens(g) \/ RecoverCloses(g) \/ RecoverEnds(g) \/ BuildOpens(g) => NoNearer
    BY <2>2 DEF RecoverOpens, RecoverCloses, RecoverEnds, BuildOpens
  <2>5. BuildUnwinds(g) \/ BuildPublishes(g) \/ ServicesRaise(g) \/ ServicesUp(g) => NoNearer
    BY <2>2 DEF BuildUnwinds, BuildPublishes, ServicesRaise, ServicesUp
  <2>6. Lands(g) \/ LandsRaises(g) \/ Quits(g) \/ Joins(g) => NoNearer
    BY <2>2 DEF Lands, LandsRaises, Publishes, Quits, Joins
  <2> QED
    BY <1>5, <2>1, <2>3, <2>4, <2>5, <2>6 DEF Starters
<1>6. ASSUME NEW w \in Workers, Settlers(w) PROVE NoNearer
  BY <1>1, <1>6 DEF Settlers, ReadsSession, TearsDown, Settles
<1> QED
  BY <1>2, <1>3, <1>4, <1>5, <1>6

LEMMA StopHeededStep == ASSUME OneSwitcher, IInv, StopHeeded, [Next]_vars PROVE StopHeeded'
<1> USE DEF StopHeeded
<1>1. CASE Start \/ Crash \/ \E i \in Switches : Switch(i)
  BY <1>1 DEF Start, Crash, Switch
<1>2. CASE Stop
  <2>1. \A i \in Switches : pc'[Switcher(i)] = pc[Switcher(i)]
    BY <1>2, StopKeepsSwitches DEF Stop, IInv, TypeOK
  <2>2. (\E i \in Switches : pc[Switcher(i)] \in Ahead) => switching
    BY DEF IInv, SwitchExcludes, Ahead
  <2> QED
    BY <1>2, <2>1, <2>2 DEF Stop, FlagSwitch
<1>3. ASSUME NEW i \in Switches, Switchers(i) PROVE StopHeeded'
  <2>1. \A j \in Switches : j = i
    BY MaxSwitchAssumption DEF OneSwitcher, Switches
  <2>2. pc \in [Workers -> WorkerPC] /\ Switcher(i) \in Workers
    BY WorkerNames DEF IInv, TypeOK
  <2>3. CASE SwitchStops(i)
    <3> DEFINE waits == [pc EXCEPT ![Switcher(i)] = "wait"]
               ends == [pc EXCEPT ![Switcher(i)] = "finally"]
    <3>1. UNCHANGED <<abortSwitch, stopWanted>> /\ pc[Switcher(i)] \in Ahead
      BY <2>3 DEF SwitchStops, flags, Ahead
    <3> QED
      BY <2>1, <3>1
  <2>4. CASE SwitchWaits(i) \/ SwitchAbandons(i)
    <3>1. UNCHANGED <<abortSwitch, stopWanted>> /\ pc[Switcher(i)] \in Ahead
      BY <2>4 DEF SwitchWaits, SwitchAbandons, Moves, flags, Ahead
    <3> QED
      BY <2>1, <3>1
  <2>5. CASE SwitchClaims(i)
    <3>1. UNCHANGED <<abortSwitch, stopWanted>> /\ pc[Switcher(i)] \in Ahead
      BY <2>5 DEF SwitchClaims, Ahead
    <3> QED
      BY <2>1, <3>1
  <2>6. CASE SwitchEnds(i)
    <3>1. pc'[Switcher(i)] = "none"
      BY <2>2, <2>6 DEF SwitchEnds, Goto
    <3> QED
      BY <2>1, <3>1 DEF Ahead
  <2> QED
    BY <1>3, <2>3, <2>4, <2>5, <2>6 DEF Switchers
<1>4. CASE \/ ReapTick \/ Close \/ Closer \/ CooldownPasses \/ PlaylistsEnd \/ UNCHANGED vars
           \/ \E g \in Gens : Starters(g) \/ Joins(g)
           \/ \E w \in Workers : Settlers(w)
  <2>1. NoNearer
    BY <1>4, OthersNoNearer
  <2>2. UNCHANGED stopWanted /\ (abortSwitch => abortSwitch')
    <3>1. ReapTick \/ Close \/ CooldownPasses \/ PlaylistsEnd \/ UNCHANGED vars
            => UNCHANGED <<stopWanted, abortSwitch>>
      BY DEF ReapTick, Close, CooldownPasses, PlaylistsEnd, vars, flags
    <3>2. Closer => UNCHANGED stopWanted /\ (abortSwitch => abortSwitch')
      <4>1. ASSUME NEW here, NEW there, CloseStops(here, there)
            PROVE  UNCHANGED stopWanted /\ (abortSwitch => abortSwitch')
        BY <4>1 DEF CloseStops, FlagSwitch
      <4>2. CloseWaits \/ CloseReaper \/ CloseVerifies \/ CloseWaitsAgain
              => UNCHANGED <<stopWanted, abortSwitch>>
        BY DEF CloseWaits, CloseReaper, CloseVerifies, CloseWaitsAgain, flags
      <4>3. CloseJoins("join", "verify") \/ CloseJoins("joinAgain", "done")
              => UNCHANGED <<stopWanted, abortSwitch>>
        BY DEF CloseJoins, flags
      <4> QED
        BY <4>1, <4>2, <4>3 DEF Closer
    <3>3. ASSUME NEW g \in Gens, Starters(g) \/ Joins(g)
          PROVE  UNCHANGED stopWanted /\ (abortSwitch => abortSwitch')
      <4>1. Awaits(g) \/ ChecksCancel(g) => UNCHANGED <<stopWanted, abortSwitch>>
        BY DEF Awaits, ChecksCancel, Moves, flags
      <4>2. RecoverOpens(g) \/ RecoverCloses(g) \/ RecoverEnds(g) \/ BuildOpens(g)
              => UNCHANGED <<stopWanted, abortSwitch>>
        BY DEF RecoverOpens, RecoverCloses, RecoverEnds, BuildOpens, flags
      <4>3. BuildUnwinds(g) \/ BuildPublishes(g) \/ ServicesRaise(g) \/ ServicesUp(g)
              => UNCHANGED <<stopWanted, abortSwitch>>
        BY DEF BuildUnwinds, BuildPublishes, ServicesRaise, ServicesUp, flags
      <4>4. Lands(g) \/ LandsRaises(g) \/ Quits(g) \/ Joins(g) => UNCHANGED <<stopWanted, abortSwitch>>
        BY DEF Lands, LandsRaises, Publishes, Quits, Joins, flags
      <4>5. StopsItself(g) => UNCHANGED stopWanted /\ (abortSwitch => abortSwitch')
        BY DEF StopsItself, FlagSwitch
      <4> QED
        BY <3>3, <4>1, <4>2, <4>3, <4>4, <4>5 DEF Starters
    <3>4. ASSUME NEW w \in Workers, Settlers(w) PROVE UNCHANGED <<stopWanted, abortSwitch>>
      BY <3>4 DEF Settlers, ReadsSession, TearsDown, Settles, flags
    <3> QED
      BY <1>4, <3>1, <3>2, <3>3, <3>4
  <2> QED
    BY <2>1, <2>2 DEF NoNearer
<1> QED
  BY <1>1, <1>2, <1>3, <1>4 DEF Next

\* Only a start and the claim of a switch take a new generation.
LEMMA OnlyTheseClaim ==
  ASSUME IInv, [Next]_vars, gen' > gen
  PROVE  Start \/ \E i \in Switches : SwitchClaims(i)
<1> DEFINE Same == UNCHANGED gen
<1>1. Stop \/ Close \/ Closer \/ ReapTick \/ CooldownPasses \/ PlaylistsEnd \/ UNCHANGED vars
        => Same
  BY DEF Stop, Close, Closer, CloseStops, CloseWaits, CloseReaper, CloseJoins, CloseVerifies,
         CloseWaitsAgain, ReapTick, CooldownPasses, PlaylistsEnd, vars, memory
<1>2. ASSUME NEW i \in Switches, Switch(i) \/ Switchers(i), ~SwitchClaims(i) PROVE Same
  BY <1>2 DEF Switch, Switchers, SwitchStops, SwitchWaits, SwitchAbandons, SwitchEnds, Moves,
              memory
<1>3. ASSUME NEW g \in Gens, Starters(g) \/ Joins(g) PROVE Same
  <2>1. Awaits(g) \/ ChecksCancel(g) => Same
    BY DEF Awaits, ChecksCancel, Moves, memory
  <2>2. RecoverOpens(g) \/ RecoverCloses(g) \/ RecoverEnds(g) \/ BuildOpens(g) => Same
    BY DEF RecoverOpens, RecoverCloses, RecoverEnds, BuildOpens, memory
  <2>3. BuildUnwinds(g) \/ BuildPublishes(g) \/ ServicesRaise(g) \/ ServicesUp(g) => Same
    BY DEF BuildUnwinds, BuildPublishes, ServicesRaise, ServicesUp, memory
  <2>4. Lands(g) \/ LandsRaises(g) \/ StopsItself(g) \/ Quits(g) \/ Joins(g) => Same
    BY DEF Lands, LandsRaises, Publishes, StopsItself, Quits, Joins, memory
  <2> QED
    BY <1>3, <2>1, <2>2, <2>3, <2>4 DEF Starters
<1>4. ASSUME NEW w \in Workers, Settlers(w) PROVE Same
  BY <1>4 DEF Settlers, ReadsSession, TearsDown, Settles, memory
<1>5. gen \in Nat
  BY MaxGenAssumption DEF IInv, TypeOK
<1>6. ~Same
  BY <1>5
<1>7. ~Crash
  BY <1>5 DEF Crash
<1> QED
  BY <1>1, <1>2, <1>3, <1>4, <1>6, <1>7 DEF Next

\* A promised stop is never followed by a claim nobody asked for after it.
THEOREM StopIsFinalHolds == ASSUME OneSwitcher PROVE Spec => StopIsFinal
<1>1. Init => StopHeeded
  BY DEF Init, StopHeeded
<1>2. IInv /\ StopHeeded /\ [Next]_vars => StopHeeded'
  BY StopHeededStep
<1>3. ASSUME IInv, StopHeeded, [Next]_vars
      PROVE  [gen' > gen => ~stopWanted']_vars
  <2>1. Start => ~stopWanted'
    BY DEF Start
  <2>2. ASSUME NEW i \in Switches, SwitchClaims(i) PROVE ~stopWanted'
    BY <1>3, <2>2 DEF SwitchClaims, StopHeeded, Ahead
  <2> QED
    BY <1>3, <2>1, <2>2, OnlyTheseClaim
<1> QED
  BY <1>1, <1>2, <1>3, Invariance, PTL DEF Spec, StopIsFinal

-----------------------------------------------------------------------------
\* Each step of the supervisor is a step of the diagram, or none.
LEMMA StepImplements ==
  ASSUME IInv, IInv', [Next]_vars
  PROVE  [Lifecycle!Next]_(Lifecycle!lifecycleVars)
<1> DEFINE users == held \cup (IF resetting THEN {gen} ELSE {})
           Still == UNCHANGED <<state, gen, held, resetting>>
<1> USE MaxGenAssumption, WorkerNames
    DEF IInv, OneAtWork, HeldBy, BuildPC, SettlePC, BusyPC, Startable, NoSession,
        Goto, Moves, memory, machine
<1>1. Still => UNCHANGED Lifecycle!lifecycleVars
  BY DEF Lifecycle!lifecycleVars
<1>2. ~resetting => users = held
  OBVIOUS
<1>3. ~resetting' => users' = held'
  OBVIOUS
<1>4. ASSUME NEW pcs, BeginStart(pcs), state \in Startable, UNCHANGED machine
      PROVE  Lifecycle!Claim \/ Lifecycle!Refuse
  BY <1>4 DEF BeginStart, Lifecycle!Claim, Lifecycle!Refuse, Lifecycle!Idle
<1>5. ASSUME NEW pcs, StopLocked(pcs) \/ StopRaises(pcs), UNCHANGED <<gen, machine>>
      PROVE  Lifecycle!WindDown \/ Still
  BY <1>5 DEF StopLocked, StopRaises, Lifecycle!WindDown
<1>6. ASSUME NEW g \in Gens, RecoverOpens(g) PROVE Lifecycle!Open \/ Still
  <2>1. CASE marker
    BY <1>6, <2>1 DEF RecoverOpens, Lifecycle!Open
  <2>2. CASE ~marker
    <3>1. ~resetting' /\ UNCHANGED <<state, gen, held>>
      BY <1>6, <2>2 DEF RecoverOpens
    <3>2. ~resetting
      BY <1>6 DEF RecoverOpens
    <3> QED
      BY <3>1, <3>2, <1>6, <2>2 DEF RecoverOpens, TypeOK
  <2> QED
    BY <2>1, <2>2
<1>7. ASSUME NEW g \in Gens, BuildOpens(g) PROVE Lifecycle!Open
  BY <1>7 DEF BuildOpens, Lifecycle!Open
<1>8. ASSUME NEW g \in Gens, RecoverCloses(g) \/ BuildUnwinds(g) PROVE Lifecycle!Drop
  BY <1>8 DEF RecoverCloses, BuildUnwinds, Lifecycle!Drop
<1>9. ASSUME NEW g \in Gens, Lands(g) \/ LandsRaises(g) PROVE Lifecycle!BuildOK
  BY <1>9 DEF Lands, LandsRaises, Publishes, Lifecycle!BuildOK
<1>10. ASSUME NEW g \in Gens, Quits(g) PROVE Lifecycle!WindDown
  BY <1>10 DEF Quits, Lifecycle!WindDown
<1>11. ASSUME NEW w \in Workers, TearsDown(w) PROVE Lifecycle!Drop
  BY <1>11 DEF TearsDown, Lifecycle!Drop
<1>12. ASSUME NEW w \in Workers, Settles(w) PROVE Lifecycle!TeardownDone
  BY <1>12 DEF Settles, TypeOK, Lifecycle!TeardownDone, Lifecycle!Idle
<1>13. ASSUME Crash PROVE Lifecycle!Die
  BY <1>13 DEF Crash, Lifecycle!Die
<1>14. Start \/ Stop \/ Close \/ Closer \/ ReapTick
         => Lifecycle!Claim \/ Lifecycle!Refuse \/ Lifecycle!WindDown \/ Still
  BY <1>4, <1>5 DEF Start, Stop, Close, Closer, CloseStops, CloseWaits, CloseReaper, CloseJoins,
     CloseVerifies, CloseWaitsAgain, ReapTick
<1>15. ASSUME NEW i \in Switches, Switch(i) \/ Switchers(i)
       PROVE  Lifecycle!Claim \/ Lifecycle!Refuse \/ Lifecycle!WindDown \/ Still
  BY <1>4, <1>5, <1>15 DEF Switch, Switchers, SwitchStops, SwitchWaits, SwitchAbandons,
     SwitchClaims, SwitchEnds, SwitchExcludes
<1>16. ASSUME NEW g \in Gens, StopsItself(g) PROVE Lifecycle!WindDown \/ Still
  BY <1>5, <1>16 DEF StopsItself
<1>17. ASSUME NEW g \in Gens,
              \/ Awaits(g) \/ RecoverEnds(g) \/ BuildPublishes(g) \/ ServicesRaise(g)
              \/ ServicesUp(g) \/ ChecksCancel(g) \/ Joins(g)
       PROVE  Still
  BY <1>17 DEF Awaits, RecoverEnds, BuildPublishes, ServicesRaise, ServicesUp, ChecksCancel, Joins
<1>18. ASSUME NEW w \in Workers, ReadsSession(w) PROVE Still
  BY <1>18 DEF ReadsSession
<1>19. CooldownPasses \/ PlaylistsEnd \/ UNCHANGED vars => Still
  BY DEF CooldownPasses, PlaylistsEnd, vars
<1> QED
  BY <1>1, <1>6, <1>7, <1>8, <1>9, <1>10, <1>11, <1>12, <1>13, <1>14, <1>15, <1>16, <1>17,
     <1>18, <1>19 DEF Next, Starters, Settlers, Lifecycle!Next

\* The supervisor implements the state diagram of its docstring.
THEOREM ImplementsLifecycleHolds == ASSUME OneSwitcher PROVE Spec => ImplementsLifecycle
<1>1. Init => Lifecycle!Init
  BY DEF Init, Lifecycle!Init
<1>2. IInv /\ IInv' /\ [Next]_vars => [Lifecycle!Next]_(Lifecycle!lifecycleVars)
  BY StepImplements
<1> QED
  BY <1>1, <1>2, Invariance, PTL DEF Spec, ImplementsLifecycle, Lifecycle!Spec

=============================================================================
