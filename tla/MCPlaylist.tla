----------------------------- MODULE MCPlaylist -----------------------------
(* Instance of Playlist for TLC: every kind of request from other threads,  *)
(* setups that play, that end their scene at once and that raise.           *)
EXTENDS Playlist
=============================================================================
