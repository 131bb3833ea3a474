----------------------------- MODULE MCBaseTask -----------------------------
(* Model values and bounds for BaseTask. *)
EXTENDS BaseTask, TLC

ControllerSymmetry == Permutations(Controllers)
=============================================================================
