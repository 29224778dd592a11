---------------------------- MODULE MCPollThread ----------------------------
(* Instance of PollThread for TLC.  Worker identities are reused, so the       *)
(* state space is finite without any bound on the number of calls.            *)
EXTENDS PollThread
=============================================================================
