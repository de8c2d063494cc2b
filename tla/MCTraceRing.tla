---------------------------- MODULE MCTraceRing -----------------------------
(* Instances of TraceRing for TLC.                                          *)
EXTENDS TraceRing, TLC

Threads == Permutations(Producers)
=============================================================================
