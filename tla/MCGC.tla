-------------------------------- MODULE MCGC --------------------------------
(* Model values and symmetry for GC. *)
EXTENDS GC, TLC

Symmetric == Permutations(Object)
=============================================================================
