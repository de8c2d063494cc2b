------------------------------ MODULE TraceLog ------------------------------
(***************************************************************************)
(* What a trace ring promises its callers (trace_ring.h lines 18-28): a     *)
(* bounded FIFO between the threads that offer rows and the file.  A row    *)
(* is either accepted, and then logged exactly once and in the order of     *)
(* acceptance, or it is dropped and counted.  No more than Cap rows are     *)
(* accepted and not yet logged.                                            *)
(***************************************************************************)
EXTENDS Integers, Sequences

CONSTANTS Row,      \* the rows callers may offer
          Cap       \* rows the ring holds

VARIABLES accepted, \* rows in the order in which they were accepted
          logged,   \* rows in the order in which they were written
          dropped   \* rows turned away, counted

logVars == <<accepted, logged, dropped>>

LogInit == accepted = <<>> /\ logged = <<>> /\ dropped = 0

Accept(r) ==
  /\ Len(accepted) - Len(logged) < Cap
  /\ accepted' = Append(accepted, r)
  /\ UNCHANGED <<logged, dropped>>

Drop ==
  /\ dropped' = dropped + 1
  /\ UNCHANGED <<accepted, logged>>

Log ==
  /\ Len(logged) < Len(accepted)
  /\ logged' = Append(logged, accepted[Len(logged) + 1])
  /\ UNCHANGED <<accepted, dropped>>

LogNext == (\E r \in Row : Accept(r)) \/ Drop \/ Log

LogSpec == LogInit /\ [][LogNext]_logVars
=============================================================================
