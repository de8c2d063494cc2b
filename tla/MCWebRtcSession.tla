-------------------------- MODULE MCWebRtcSession --------------------------
(* Instances of WebRtcSession for TLC.                                      *)
EXTENDS WebRtcSession
=============================================================================
