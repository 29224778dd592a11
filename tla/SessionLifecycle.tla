--------------------------- MODULE SessionLifecycle ---------------------------
(***************************************************************************)
(* What the session supervisor of c64cast/app/serve.py promises, after the *)
(* state diagram of its module docstring: one generation at a time, the    *)
(* machine held only between its claim and its teardown, and nothing       *)
(* claimed again until the last holder has let go.                         *)
(***************************************************************************)
EXTENDS Naturals

VARIABLES
  phase,       \* the supervisor's state
  generation,  \* the number of the last claim
  holders      \* generations that have the machine open

lifecycleVars == <<phase, generation, holders>>

Idle == {"idle", "error"}

Init ==
  /\ phase = "idle"
  /\ generation = 0
  /\ holders = {}

\* start(req): from idle or error only, and only once the machine is free.
Claim ==
  /\ phase \in Idle
  /\ holders = {}
  /\ phase' = "starting"
  /\ generation' = generation + 1
  /\ UNCHANGED holders

\* The claim could not be given a thread of its own.
Refuse ==
  /\ phase \in Idle
  /\ phase' = "error"
  /\ UNCHANGED <<generation, holders>>

\* The claiming generation opens the machine, and may let go of it again.
Open ==
  /\ phase = "starting"
  /\ holders = {}
  /\ holders' = {generation}
  /\ UNCHANGED <<phase, generation>>

Drop ==
  /\ phase \in {"starting", "stopping"}
  /\ holders' = {}
  /\ UNCHANGED <<phase, generation>>

BuildOK ==
  /\ phase = "starting"
  /\ holders = {generation}
  /\ phase' = "running"
  /\ UNCHANGED <<generation, holders>>

\* The build raised or was cancelled, the operator stopped it, or it ended.
WindDown ==
  /\ phase \in {"starting", "running"}
  /\ phase' = "stopping"
  /\ UNCHANGED <<generation, holders>>

TeardownDone ==
  /\ phase = "stopping"
  /\ holders = {}
  /\ phase' \in Idle
  /\ UNCHANGED <<generation, holders>>

\* The process dies and is started again.
Die ==
  /\ phase' = "idle"
  /\ generation' = 0
  /\ holders' = {}

Next == Claim \/ Refuse \/ Open \/ Drop \/ BuildOK \/ WindDown \/ TeardownDone \/ Die

Spec == Init /\ [][Next]_lifecycleVars
=============================================================================
