---------------------------- MODULE MCSenderGrid ----------------------------
(* Instances of SenderGrid for TLC.                                         *)
EXTENDS SenderGrid, TLC

\* Before the epoch, and in the middle of the third slot.
EarlyOrLate == {-1, 5}
=============================================================================
