---------------------------- MODULE MCTeensyLink ----------------------------
(* TeensyLink with waits of a few ticks, in the order the code has them.     *)
EXTENDS TeensyLink
=============================================================================
