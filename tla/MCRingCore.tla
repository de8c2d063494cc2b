----------------------------- MODULE MCRingCore -----------------------------
(* Instances of RingCore for TLC.                                           *)
EXTENDS RingCore, TLC

Threads == Permutations(Producers)
=============================================================================
