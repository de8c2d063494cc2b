--------------------------- MODULE MCDepacketizer ---------------------------
(* Instances of Depacketizer for TLC.                                       *)
EXTENDS Depacketizer, TLC

\* Packet ts: whole NAL units, or fragment i of n of one.
Nals(ts, ids, marker) ==
  [ts |-> ts, marker |-> marker, fu |-> FALSE, s |-> FALSE, e |-> FALSE,
   bad |-> FALSE, pieces |-> [j \in DOMAIN ids |-> <<ids[j], 1, 1>>]]
Frag(ts, id, i, n, marker) ==
  [ts |-> ts, marker |-> marker, fu |-> TRUE, s |-> i = 1, e |-> i = n,
   bad |-> FALSE, pieces |-> << <<id, i, n>> >>]

(* An IDR with its parameter sets, an AU of two fragmented NAL units, an AU  *)
(* in one packet, and a last one that begins with a fragment.               *)
FourAus ==
  << Nals(1, <<1, 2, 8>>, FALSE), Frag(1, 3, 1, 3, FALSE), Frag(1, 3, 2, 3, FALSE),
     Frag(1, 3, 3, 3, TRUE),
     Frag(2, 4, 1, 2, FALSE), Frag(2, 4, 2, 2, FALSE), Frag(2, 5, 1, 2, FALSE),
     Frag(2, 5, 2, 2, TRUE),
     Nals(3, <<6>>, TRUE),
     Frag(4, 7, 1, 2, FALSE), Frag(4, 7, 2, 2, TRUE) >>
=============================================================================
