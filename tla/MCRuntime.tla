------------------------------ MODULE MCRuntime ------------------------------
(* Runtime for TLC; the callers are alike. *)
EXTENDS Runtime, TLC
Symmetry == Permutations(Callers)
=============================================================================
