--------------------------- MODULE MCGstReceiver ---------------------------
(* Instances of GstReceiver for TLC.                                        *)
EXTENDS GstReceiver
=============================================================================
