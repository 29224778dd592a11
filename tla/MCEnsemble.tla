----------------------------- MODULE MCEnsemble -----------------------------
(* Shows for TLC: a system all of whose scenes can be gated, beside a       *)
(* conductor that wants the slot too; and two systems that want it while a  *)
(* third conducts.                                                          *)
EXTENDS Ensemble, TLC

CONSTANTS left, middle, right

MixedShows  == left :> <<"audio", "audio">> @@ right :> <<"span", "audio">>
WaitShows   == left :> <<"audio">> @@ middle :> <<"audio">> @@ right :> <<"span">>
=============================================================================
