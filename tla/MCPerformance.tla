--------------------------- MODULE MCPerformance ---------------------------
(* The grid of Performance that TLC checks: a gate, a toggle and a one-shot *)
(* trigger.                                                                 *)
EXTENDS Performance

CONSTANTS gate, toggle, trigger
=============================================================================
