--------------------------- MODULE MCChainSession ---------------------------
(* Model values and symmetry for checking ChainSession.                     *)
EXTENDS ChainSession, TLC

Symmetry == Permutations(Slots)
=============================================================================
