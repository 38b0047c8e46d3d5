---------------------------- MODULE MCInstanceId ----------------------------
(* Model values and symmetry for checking InstanceId.                      *)
EXTENDS InstanceId, TLC

Symmetry == Permutations(Calls)
=============================================================================
