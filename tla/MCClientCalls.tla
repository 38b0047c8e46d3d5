---------------------------- MODULE MCClientCalls ----------------------------
(* Model values and symmetry for checking ClientCalls.                      *)
EXTENDS ClientCalls, TLC

Symmetry == Permutations(Calls) \cup Permutations(Factories) \cup Permutations(Salts)
=============================================================================
