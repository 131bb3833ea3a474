---------------------------- MODULE MCPacedLink -----------------------------
(* Definitions for the runs of PacedLink. *)
EXTENDS PacedLink, TLC

=============================================================================
