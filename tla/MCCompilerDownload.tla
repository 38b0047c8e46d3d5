-------------------------- MODULE MCCompilerDownload --------------------------
(* Model values and symmetry for checking CompilerDownload.                *)
EXTENDS CompilerDownload, TLC

Symmetry == Permutations(Procs)
=============================================================================
