-------------------------- MODULE MCdevTcp4Server --------------------------
(* The instance of devTcp4Server that is checked.                          *)
EXTENDS devTcp4Server, TLC

\* What follows an overlap is not explored: every property excuses it.
BeforeOverlap == "overlap" \notin mishaps
=============================================================================
