---------------------------- MODULE MCTreMining ----------------------------
(* Model values and symmetry for checking TreMining.                       *)
EXTENDS TreMining, TLC

Symmetry == Permutations(Threads)
=============================================================================
