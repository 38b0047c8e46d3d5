----------------------------- MODULE MCLifecycle -----------------------------
(* Model values and symmetry for checking Lifecycle.                       *)
EXTENDS Lifecycle, TLC

Symmetry == Permutations(Procs)
=============================================================================
