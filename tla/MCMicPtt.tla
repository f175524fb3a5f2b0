------------------------------ MODULE MCMicPtt ------------------------------
(* MicPtt on a small instance.  Sessions, callers and streams are model values
   that no definition tells apart. *)
EXTENDS MicPtt, TLC

Symmetry == Permutations(Sessions) \cup Permutations(Callers) \cup Permutations(Streams)
=============================================================================
