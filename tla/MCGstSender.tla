---------------------------- MODULE MCGstSender ----------------------------
(* Instances of GstSender for TLC.                                          *)
EXTENDS GstSender
=============================================================================
