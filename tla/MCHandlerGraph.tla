--------------------------- MODULE MCHandlerGraph ---------------------------
(* Model values and symmetry for HandlerGraph. *)
EXTENDS HandlerGraph, TLC

\* Handlers differ only in whether they have an auxiliary queue.
Symmetry == Permutations(Handlers \ HasAux)
=============================================================================
