----------------------------- MODULE MCFixtures -----------------------------
(* Model values and symmetry for checking Fixtures.                        *)
EXTENDS Fixtures, TLC

Symmetry == Permutations(FixtureFns)
=============================================================================
