--------------------------- MODULE MCControlPlane ---------------------------
(* Instances of ControlPlane for TLC.                                       *)
EXTENDS ControlPlane, TLC

CONSTANTS s1, s2, r1, r2, camA, camB, edge, edge2

\* Restarts: two processes in turn for one camera and one receiver.
OneCamera == [s \in Senders |-> camA]
OneEdge == [r \in Receivers |-> edge]
ToOneEdge == [s \in Senders |-> edge]

\* Two cameras, each with its own receiver or both for the same one.
TwoCameras == (s1 :> camA) @@ (s2 :> camB)
TwoEdges == (r1 :> edge) @@ (r2 :> edge2)
=============================================================================
