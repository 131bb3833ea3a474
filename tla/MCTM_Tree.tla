----------------------------- MODULE MCTM_Tree ------------------------------
(* Model values for TLC.                                                   *)
EXTENDS TM_Tree, TLC

CONSTANTS u1, u2

MCUsers == {u1, u2}
MCHasAux == {u2}
MCConfigured == [d \in Demuxes |->
    IF d = 1 THEN {<<u1, "PrimaryInput", 0>>, <<u2, "AuxInput", 0>>} ELSE {<<u1, "PrimaryInput", 1>>}]
=============================================================================
