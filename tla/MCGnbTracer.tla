---------------------------- MODULE MCGnbTracer -----------------------------
(* Instances of GnbTracer for TLC.                                          *)
EXTENDS GnbTracer
=============================================================================
