----------------------------- MODULE MCMicKeys -----------------------------
(* MicKeys on a small instance: two keys, a script of both. *)
EXTENDS MicKeys

CONSTANTS up, p1

MCKeys == {up, p1}
MCScript == <<p1, up>>
NoScript == <<>>
=============================================================================
