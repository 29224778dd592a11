--------------------------- MODULE PollThreadState ---------------------------
(***************************************************************************)
(* A PollThread (c64cast/_pollthread.py): its attributes, where its        *)
(* callers and workers are, and what it promises of them.  PollThread has  *)
(* the steps.                                                              *)
(***************************************************************************)
EXTENDS Naturals, FiniteSets

CONSTANTS
  Callers,   \* threads that call start() and stop()
  Workers,   \* identities of the threads _spawn() creates; one is reused once
             \* its thread is dead and no join() still names it
  NoThread   \* None

ASSUME CallersAssumption == NoThread \notin Callers \cup Workers
ASSUME DisjointAssumption == Callers \cap Workers = {}

VARIABLES
  lifecycle,  \* holder of _lifecycle, or NoThread
  handoff,    \* holder of _handoff, or NoThread
  stopSet,    \* _stop.is_set()
  thread,     \* _thread
  queued,     \* _start_queued
  at,         \* where each thread is
  fresh,      \* the thread object a _spawn() in progress has created
  joining,    \* stop()'s local `thread`
  wanted,     \* history: TRUE after a start(), FALSE after a stop()
  lost        \* history: what, other than a stop(), took that start away (Losses)

Threads == Callers \cup Workers

\* A worker in one of these runs the target, now or at its next turn; in the
\* last two its target is inside a start() of its own poller.
Looping == {"loop", "target", "start", "startLocked"}
Spawning == {"clear", "create", "publish"}
CallerPC == {"idle", "start", "startLocked", "stop", "stopLocked", "join"} \cup Spawning
WorkerPC == {"dead", "stop", "stopLocked", "exit"} \cup Looping \cup Spawning

\* "ended": its worker's target raised or returned.  "dropped": the start() came
\* after that and before the worker was off the books, which start() takes for a
\* running one.  "unspawned": the handover to it could not make a thread.
Losses == {"no", "ended", "dropped", "unspawned"}

-----------------------------------------------------------------------------
(* What it promises. *)

\* "nor run a second worker beside it": however start() and stop() interleave
\* with a wedged worker's exit, two workers never run the target together.
OneWorker ==
  \A v, w \in Workers : at[v] \in Looping /\ at[w] \in Looping => v = w

\* The latest stop() holds: whoever is still in the loop sees the event set at
\* its next check, and no queued start survives to run it again.
StopSticks ==
  ~wanted => /\ ~queued
             /\ \A w \in Workers : at[w] \in Looping => stopSet

\* The latest start() is served: there is a worker that will go on, or a live one
\* that will hand over to it.  Three things take a start away, and nothing else
\* does (Losses): its worker ends by itself after it, its worker had ended by
\* itself but was still registered when it came, or no thread could be made.
StartSticks ==
  (wanted /\ lost = "no" /\ handoff = NoThread) =>
    /\ thread # NoThread
    /\ at[thread] # "dead"
    /\ stopSet => queued
    /\ ~stopSet => at[thread] \in Looping \cup {"stop"}

\* is_running() tells the truth whenever it can be asked: an abandoned worker is
\* reported for as long as it runs, and a dead one is not.
IsRunningTruthful ==
  handoff = NoThread => \A w \in Workers : at[w] # "dead" <=> thread = w
=============================================================================
