----------------------------- MODULE MCTreStores -----------------------------
(* Model values and symmetry for checking TreStores.                        *)
EXTENDS TreStores, TLC

Symmetry == Permutations(Threads) \cup Permutations(Codes)
=============================================================================
