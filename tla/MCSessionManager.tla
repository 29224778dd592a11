--------------------------- MODULE MCSessionManager ---------------------------
(* Small instances of SessionManager for TLC; each cfg gives the constants. *)
EXTENDS SessionManager
=============================================================================
