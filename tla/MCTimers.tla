------------------------------ MODULE MCTimers ------------------------------
(* Model values for TLC.                                                   *)
EXTENDS Timers, TLC

MCLimits == {-1, 1}
MCRequests == {<<"scenario", 1>>, <<"scenario_offset", 1>>, <<"wall", 1>>, <<"wall_offset", 0>>}
MCZeroTimes == {<<1, 0>>}
=============================================================================
