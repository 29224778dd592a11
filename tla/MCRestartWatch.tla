--------------------------- MODULE MCRestartWatch ---------------------------
(* The instance of RestartWatch that TLC checks: two restarts of a scene are *)
(* the limit, and one thing goes wrong outside of it.                        *)
EXTENDS RestartWatch
=============================================================================
