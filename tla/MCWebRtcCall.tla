---------------------------- MODULE MCWebRtcCall ----------------------------
(* Instances of WebRtcCall for TLC.                                         *)
EXTENDS WebRtcCall, TLC

CONSTANTS s1, s2, s3, r1, r2, camA, camB, edge

\* Two processes in turn for camera A, one for camera B, one receiver id.
TwoCameras == (s1 :> camA) @@ (s2 :> camA) @@ (s3 :> camB)
OneEdge == [r \in Receivers |-> edge]
ToOneEdge == [s \in Senders |-> edge]
=============================================================================
