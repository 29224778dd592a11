----------------------------- MODULE PollThread -----------------------------
(***************************************************************************)
(* The background-loop idiom of c64cast/_pollthread.py: one object that    *)
(* any thread may start() and stop(), and at most one worker thread that   *)
(* runs its target.  stop() joins the worker for a bounded time only, so a *)
(* worker whose target is wedged outlives it ("abandoned"); a start() in   *)
(* that window is queued and the abandoned worker hands over as it exits.  *)
(*                                                                         *)
(* Two locks: _lifecycle serializes start() and stop() and is held across  *)
(* the join; _handoff guards _thread and _start_queued and is the only one *)
(* the exiting worker takes.  Lock scopes are steps here, and inside a     *)
(* scope every assignment another thread can see without that lock is a    *)
(* step of its own (the stop event is read by a worker that holds none).   *)
(***************************************************************************)
EXTENDS PollThreadState

vars == <<lifecycle, handoff, stopSet, thread, queued, at, fresh, joining,
          wanted, lost>>

Goto(t, label) == at' = [at EXCEPT ![t] = label]
Unused == {w \in Workers : at[w] = "dead" /\ \A c \in Callers : joining[c] # w}

Init ==
  /\ lifecycle = NoThread
  /\ handoff = NoThread
  /\ stopSet = FALSE
  /\ thread = NoThread
  /\ queued = FALSE
  /\ at = [t \in Threads |-> IF t \in Callers THEN "idle" ELSE "dead"]
  /\ fresh = NoThread
  /\ joining = [c \in Callers |-> NoThread]
  /\ wanted = FALSE
  /\ lost = "no"

-----------------------------------------------------------------------------
(* start(): both locks, then spawn, queue, or leave a running worker be. *)

CallStart(c) ==
  /\ at[c] = "idle"
  /\ lifecycle = NoThread
  /\ lifecycle' = c
  /\ Goto(c, "start")
  /\ UNCHANGED <<handoff, stopSet, thread, queued, fresh, joining, wanted, lost>>

\* A target that starts its own poller, as one that finds itself stopped may.
SelfStart(w) ==
  /\ at[w] = "target"
  /\ lifecycle = NoThread
  /\ lifecycle' = w
  /\ Goto(w, "start")
  /\ UNCHANGED <<handoff, stopSet, thread, queued, fresh, joining, wanted, lost>>

StartAcquire(t) ==
  /\ at[t] = "start"
  /\ handoff = NoThread
  /\ handoff' = t
  /\ Goto(t, "startLocked")
  /\ UNCHANGED <<lifecycle, stopSet, thread, queued, fresh, joining, wanted, lost>>

\* Where a start() returns to.
Started(t) == Goto(t, IF t \in Callers THEN "idle" ELSE "target")

\* Mutant: a start() behind an abandoned worker is not queued.
StartForgets(t) ==
  /\ at[t] = "startLocked"
  /\ thread # NoThread
  /\ wanted' = TRUE
  /\ lost' = IF ~stopSet /\ at[thread] = "exit" THEN "dropped" ELSE "no"
  /\ lifecycle' = NoThread
  /\ handoff' = NoThread
  /\ Started(t)
  /\ UNCHANGED <<stopSet, thread, queued, fresh, joining>>

StartSpawns(t) ==
  /\ at[t] = "startLocked"
  /\ thread = NoThread
  /\ wanted' = TRUE
  /\ lost' = "no"
  /\ Goto(t, "clear")
  /\ UNCHANGED <<lifecycle, handoff, stopSet, thread, queued, fresh, joining>>

\* Queued behind a worker that was told to stop; nothing to do beside one that
\* was not, although that one may have ended already.
StartKeeps(t) ==
  /\ at[t] = "startLocked"
  /\ thread # NoThread
  /\ queued' = (queued \/ stopSet)
  /\ wanted' = TRUE
  /\ lost' = IF ~stopSet /\ at[thread] = "exit" THEN "dropped" ELSE "no"
  /\ lifecycle' = NoThread
  /\ handoff' = NoThread
  /\ Started(t)
  /\ UNCHANGED <<stopSet, thread, fresh, joining>>

-----------------------------------------------------------------------------
(* _spawn(), run under _handoff by start() or by the exiting worker: clear *)
(* the stop event, start the thread, and only then publish it.             *)

SpawnClear(t) ==
  /\ at[t] = "clear"
  /\ stopSet' = FALSE
  /\ Goto(t, "create")
  /\ UNCHANGED <<lifecycle, handoff, thread, queued, fresh, joining, wanted, lost>>

SpawnStart(t) ==
  /\ at[t] = "create"
  /\ \E w \in Unused :
       /\ fresh' = w
       /\ at' = [at EXCEPT ![t] = "publish", ![w] = "loop"]
  /\ UNCHANGED <<lifecycle, handoff, stopSet, thread, queued, joining, wanted, lost>>

\* Thread.start() raises: out of start() to its caller, who so knows that nothing
\* runs, or out of the worker's finally clause, and the start it had queued with
\* it.
SpawnFails(t) ==
  /\ at[t] = "create"
  /\ handoff' = NoThread
  /\ lifecycle' = IF t \in Callers THEN NoThread ELSE lifecycle
  /\ wanted' = (wanted /\ t \notin Callers)
  /\ lost' = IF t \in Callers THEN lost ELSE "unspawned"
  /\ Goto(t, IF t \in Callers THEN "idle" ELSE "dead")
  /\ UNCHANGED <<stopSet, thread, queued, fresh, joining>>

\* _spawn()'s last assignment, and the release of the locks it ran under.
SpawnPublish(t) ==
  /\ at[t] = "publish"
  /\ thread' = fresh
  /\ fresh' = NoThread
  /\ handoff' = NoThread
  /\ lifecycle' = IF t \in Callers THEN NoThread ELSE lifecycle
  /\ Goto(t, IF t \in Callers THEN "idle" ELSE "dead")
  /\ UNCHANGED <<stopSet, queued, joining, wanted, lost>>

-----------------------------------------------------------------------------
(* stop(): cancel a queued start and set the event, then a bounded join.   *)

CallStop(c) ==
  /\ at[c] = "idle"
  /\ lifecycle = NoThread
  /\ lifecycle' = c
  /\ Goto(c, "stop")
  /\ UNCHANGED <<handoff, stopSet, thread, queued, fresh, joining, wanted, lost>>

\* A target that stops its own poller: the lock is reentrant, so this is not a
\* deadlock, but the join that follows raises.
SelfStop(w) ==
  /\ at[w] = "target"
  /\ lifecycle = NoThread
  /\ lifecycle' = w
  /\ Goto(w, "stop")
  /\ UNCHANGED <<handoff, stopSet, thread, queued, fresh, joining, wanted, lost>>

\* Mutant: stop() leaves a queued start in place.
RequestStopKeepsQueue ==
  /\ stopSet' = TRUE
  /\ wanted' = FALSE
  /\ handoff' = NoThread
  /\ UNCHANGED <<thread, queued, fresh, lost>>

\* Mutant: stop() discards the thread reference whether or not it has exited.
RequestStopDiscards ==
  /\ queued' = FALSE
  /\ stopSet' = TRUE
  /\ wanted' = FALSE
  /\ thread' = NoThread
  /\ handoff' = NoThread
  /\ UNCHANGED <<fresh, lost>>

StopAcquire(t) ==
  /\ at[t] = "stop"
  /\ handoff = NoThread
  /\ handoff' = t
  /\ Goto(t, "stopLocked")
  /\ UNCHANGED <<lifecycle, stopSet, thread, queued, fresh, joining, wanted, lost>>

RequestStop ==
  /\ queued' = FALSE
  /\ stopSet' = TRUE
  /\ wanted' = FALSE
  /\ handoff' = NoThread
  /\ UNCHANGED <<thread, fresh, lost>>

StopRequest(c) ==
  /\ at[c] = "stopLocked"
  /\ RequestStop
  /\ joining' = [joining EXCEPT ![c] = thread]
  /\ Goto(c, "join")
  /\ UNCHANGED lifecycle

\* "cannot join current thread": _call_target catches it and the loop ends.
SelfStopRaises(w) ==
  /\ at[w] = "stopLocked"
  /\ RequestStop
  /\ lifecycle' = NoThread
  /\ Goto(w, "exit")
  /\ UNCHANGED joining

\* The join ends with the thread, or at join_timeout with it still alive; it
\* is skipped when there was no thread.  Which of the two comes first is not
\* up to stop(), so the step needs no guard on the worker.
StopReturn(c) ==
  /\ at[c] = "join"
  /\ joining' = [joining EXCEPT ![c] = NoThread]
  /\ lifecycle' = NoThread
  /\ Goto(c, "idle")
  /\ UNCHANGED <<handoff, stopSet, thread, queued, fresh, wanted, lost>>

-----------------------------------------------------------------------------
(* The worker: _loop(), then the hand-over in _run()'s finally clause.     *)

LoopCheck(w) ==
  /\ at[w] = "loop"
  /\ Goto(w, IF stopSet THEN "exit" ELSE "target")
  /\ UNCHANGED <<lifecycle, handoff, stopSet, thread, queued, fresh, joining, wanted, lost>>

\* The target returned; the wait for the period ends early if the event is set.
TargetReturns(w) ==
  /\ at[w] = "target"
  /\ Goto(w, "loop")
  /\ UNCHANGED <<lifecycle, handoff, stopSet, thread, queued, fresh, joining, wanted, lost>>

\* Mutant: the exiting worker does not look at the queued start.
ExitWithoutHandover(w) ==
  /\ at[w] = "exit"
  /\ handoff = NoThread
  /\ thread' = NoThread
  /\ Goto(w, "dead")
  /\ UNCHANGED <<lifecycle, handoff, stopSet, queued, fresh, joining, wanted, lost>>

\* The target raised (_call_target returned False), or a manual target returned.
TargetEnds(w) ==
  /\ at[w] = "target"
  /\ Goto(w, "exit")
  /\ lost' = IF stopSet THEN lost ELSE "ended"
  /\ UNCHANGED <<lifecycle, handoff, stopSet, thread, queued, fresh, joining, wanted>>

ExitHandover(w) ==
  /\ at[w] = "exit"
  /\ handoff = NoThread
  /\ thread' = NoThread
  /\ queued' = FALSE
  /\ IF queued THEN /\ handoff' = w
                    /\ Goto(w, "clear")
               ELSE /\ handoff' = handoff
                    /\ Goto(w, "dead")
  /\ UNCHANGED <<lifecycle, stopSet, fresh, joining, wanted, lost>>

-----------------------------------------------------------------------------
CallerNext(c) ==
  \/ CallStart(c) \/ CallStop(c) \/ StopRequest(c) \/ StopReturn(c)

WorkerNext(w) ==
  \/ LoopCheck(w) \/ TargetReturns(w) \/ TargetEnds(w) \/ ExitHandover(w)
  \/ SelfStart(w) \/ SelfStop(w) \/ SelfStopRaises(w)

EitherNext(t) ==
  \/ StartAcquire(t) \/ StartSpawns(t) \/ StartKeeps(t) \/ StopAcquire(t)
  \/ SpawnClear(t) \/ SpawnStart(t) \/ SpawnFails(t) \/ SpawnPublish(t)

Next ==
  \/ \E c \in Callers : CallerNext(c)
  \/ \E w \in Workers : WorkerNext(w)
  \/ \E t \in Threads : EitherNext(t)

Spec == Init /\ [][Next]_vars

(***************************************************************************)
(* Fairness.  Whoever is inside start(), stop() or the worker's own loop   *)
(* code is a runnable thread.  A target may be wedged for as long as it    *)
(* likes; the one liveness property asks what happens if it returns, so    *)
(* its return is part of the fairness (SF: it may start and stop its own   *)
(* poller on the way, but not for ever).  The exiting worker gets _handoff *)
(* when the lock is free again and again (SF): callers hold it for a few   *)
(* assignments only.                                                       *)
(***************************************************************************)
CallProgress(c) == StopRequest(c) \/ StopReturn(c)
WorkerProgress(w) == LoopCheck(w) \/ ExitHandover(w) \/ SelfStopRaises(w)

FairSpec ==
  /\ Spec
  /\ \A c \in Callers : WF_vars(CallProgress(c))
  /\ \A t \in Threads : WF_vars(EitherNext(t))
  /\ \A w \in Workers : /\ WF_vars(WorkerProgress(w))
                        /\ SF_vars(TargetReturns(w) \/ TargetEnds(w))
                        /\ SF_vars(ExitHandover(w))

-----------------------------------------------------------------------------
(* Every variable has its type. *)
TypeOK ==
  /\ lifecycle \in Threads \cup {NoThread}
  /\ handoff \in Threads \cup {NoThread}
  /\ stopSet \in BOOLEAN
  /\ thread \in Workers \cup {NoThread}
  /\ queued \in BOOLEAN
  /\ at \in [Threads -> CallerPC \cup WorkerPC]
  /\ fresh \in Workers \cup {NoThread}
  /\ joining \in [Callers -> Workers \cup {NoThread}]
  /\ wanted \in BOOLEAN
  /\ lost \in Losses

\* A start() that was queued behind an abandoned worker is run or cancelled,
\* given that the worker's target does return: it is not forgotten.
QueuedStartResolves == queued ~> ~queued
=============================================================================
