-------------------------- MODULE GnbTracerProofs ---------------------------
(***************************************************************************)
(* The gNB's tracer keeps to the protocol of RingCore although shutdown     *)
(* waits for no producer, so rows are neither torn nor logged twice in it,  *)
(* and its rings are never flushed by two threads; and what its footer says *)
(* of the file is true as far as that goes (ShutdownInv of GnbTracer).      *)
(***************************************************************************)
EXTENDS GnbTracer, RingCoreProofs, SequenceTheorems

(* Every step of the gNB's tracer is a step of its ring or leaves it alone. *)
LEMMA GnbStepIsCoreStep == [GnbNext]_gnbVars => [CoreNext]_coreVars
<1> SUFFICES ASSUME [GnbNext]_gnbVars PROVE [CoreNext]_coreVars
  OBVIOUS
<1>1. CASE UNCHANGED gnbVars
  BY <1>1 DEF gnbVars
<1>2. ASSUME NEW p \in Producers, ProducerNext(p) PROVE [CoreNext]_coreVars
  BY <1>2 DEF ProducerNext, CheckActive, CheckClosed, WriteOn, StopProducer,
              CoreNext
<1>3. CASE FlushStep
  BY <1>3 DEF FlushStep, FlushBegin, FlushOpen, FlushOpenFails, FlushScan,
              WriteFooter, FlushClose, FlushCloseFails, CoreNext
<1>4. CASE FlusherNext
  BY <1>4 DEF FlusherNext, TestRunning, Wake, threadKeeps
<1>5. CASE ShutdownNext
  BY <1>5 DEF ShutdownNext, CallShutdown, StopFlusher, Join, CloseRing,
              threadKeeps
<1> QED BY <1>1, <1>2, <1>3, <1>4, <1>5 DEF GnbNext

\* By the composition of its actions the tracer only takes the core's steps.
LEMMA GnbImplementsCore == GnbSpec => CoreSpec
<1>1. GnbInit => CoreInit
  BY DEF GnbInit
<1> QED BY <1>1, GnbStepIsCoreStep, PTL DEF GnbSpec, CoreSpec

(* However many RAN threads write to a ring, and whenever the gNB stops, no *)
(* row is torn and the flusher formats the claimed rows in order.           *)
THEOREM GnbKeepsCoreSafety == GnbSpec => [](NoTornAccess /\ LogIsClaimPrefix)
BY GnbImplementsCore, NoTornAccessHolds, LogIsClaimPrefixHolds, PTL

-----------------------------------------------------------------------------
LEMMA FlushHandOverStep == FlushHandOver /\ [GnbNext]_gnbVars => FlushHandOver'
<1> SUFFICES ASSUME FlushHandOver, [GnbNext]_gnbVars PROVE FlushHandOver'
  OBVIOUS
<1> USE DEF FlushHandOver
<1>1. CASE UNCHANGED gnbVars
  BY <1>1 DEF gnbVars, stopVars
<1>2. ASSUME NEW p \in Producers, ProducerNext(p) PROVE FlushHandOver'
  BY <1>2 DEF ProducerNext, CheckActive, CheckClosed, WriteOn, StopProducer,
              stopVars
<1>3. CASE FlushStep
  <2>1. CASE fstep' = "none" /\ Return
    BY <1>3, <2>1 DEF Return, FlushStep, FlushBegin, FlushOpen,
              FlushOpenFails, FlushScan, WriteFooter, FlushClose,
              FlushCloseFails
  <2>2. CASE fstep' # "none" /\ UNCHANGED <<flusher, closer>>
    BY <1>3, <2>2 DEF FlushStep, FlushBegin, FlushOpen, FlushOpenFails,
              FlushScan, WriteFooter, FlushClose, FlushCloseFails
  <2> QED
    BY <1>3, <2>1, <2>2 DEF FlushStep, FlushBegin, FlushOpen, FlushOpenFails,
              FlushScan, WriteFooter, FlushClose, FlushCloseFails, Return,
              Proceed
<1>4. CASE FlusherNext
  BY <1>4 DEF FlusherNext, TestRunning, Wake
<1>5. CASE ShutdownNext
  BY <1>5 DEF ShutdownNext, CallShutdown, StopFlusher, Join, CloseRing
<1> QED BY <1>1, <1>2, <1>3, <1>4, <1>5 DEF GnbNext

(* flush never runs on two threads at a time.                               *)
THEOREM OneFlushHolds == GnbSpec => []OneFlush
<1>1. GnbInit => FlushHandOver
  BY DEF GnbInit, FlushHandOver
<1>2. FlushHandOver => OneFlush
  BY DEF FlushHandOver, OneFlush
<1> QED BY <1>1, <1>2, FlushHandOverStep, PTL DEF GnbSpec

-----------------------------------------------------------------------------
(* The shutdown protocol and the file.                                      *)

LEMMA ShutdownInvInit == GnbInit => ShutdownInv
<1> SUFFICES ASSUME GnbInit PROVE ShutdownInv
  OBVIOUS
<1>1. NoneTurnedAway
  BY RefusedAtFirst DEF GnbInit, NoneTurnedAway
<1>2. disk \in Seq(Row \cup {NoRow}) /\ Len(disk) = 0 /\ Len(log) = 0
  BY DEF GnbInit, CoreInit
<1>3. GnbTypeOK
  BY <1>2 DEF GnbInit, GnbTypeOK
<1>4. FlushHandOver /\ ShutdownInOrder /\ ScanInFlush
  BY DEF GnbInit, CoreInit, FlushHandOver, ShutdownInOrder, ScanInFlush
<1>5. DiskCountTells /\ LastFlushSeesAll
  BY <1>2 DEF GnbInit, DiskCountTells, Handed, LastFlushSeesAll
<1> QED BY <1>1, <1>3, <1>4, <1>5 DEF ShutdownInv

(* What producers do concerns the counters only; they do nothing after an   *)
(* orderly shutdown, and before it none of them is turned away.             *)
LEMMA ProducerStepKeeps ==
  ASSUME TypeInv, ShutdownInv, NEW p \in Producers, ProducerNext(p)
  PROVE  ShutdownInv'
<1> USE DEF ShutdownInv
<1>1. /\ UNCHANGED <<enabled, stopVars, fileVars, scan, m, end, log>>
      /\ p \notin stopped
  BY DEF ProducerNext, CheckActive, CheckClosed, WriteOn, StopProducer,
         RefuseWrite, EnterWrite, WriteStep, LoadClaimed, CheckFull,
         CasSucceeds, CasFails, CopyRow, Publish, scanVars, coreVars,
         ShutdownInOrder
<1>2. ~orderly
  BY <1>1 DEF ShutdownInOrder
<1>3. /\ stopped' \subseteq Producers /\ gate' \subseteq Producers
      /\ \A q \in stopped' : pc'[q] = "idle" /\ q \notin gate'
  <2>1. CASE CheckActive(p) \/ StopProducer(p)
    BY <1>1, <2>1 DEF CheckActive, StopProducer, RefuseWrite, coreVars,
                      ShutdownInOrder, GnbTypeOK
  <2>2. CASE CheckClosed(p) \/ WriteOn(p)
    <3>1. /\ stopped' = stopped /\ gate' \subseteq gate
          /\ \A q \in Producers \ {p} : pc'[q] = pc[q]
      BY <2>2 DEF CheckClosed, WriteOn, EnterWrite, RefuseWrite, WriteStep,
                  LoadClaimed, CheckFull, CasSucceeds, CasFails, CopyRow,
                  Publish, TypeInv, CoreTypeOK
    <3> QED BY <1>1, <3>1 DEF ShutdownInOrder, GnbTypeOK
  <2> QED BY <2>1, <2>2 DEF ProducerNext
<1>4. NoneTurnedAway'
  <2> SUFFICES ASSUME enabled, closer = "up" PROVE Refused' = 0
    BY <1>1, <1>2 DEF NoneTurnedAway, stopVars
  <2>1. Refused = 0 /\ active /\ ~closed
    BY DEF NoneTurnedAway, ShutdownInOrder
  <2>2. CASE CheckActive(p) \/ StopProducer(p)
    BY <2>1, <2>2, ScanKeepsRefused DEF CheckActive, StopProducer
  <2>3. CASE CheckClosed(p)
    BY <2>1, <2>3, WriteKeepsRefused DEF CheckClosed
  <2>4. CASE WriteOn(p)
    BY <2>1, <2>4, WriteKeepsRefused DEF WriteOn
  <2> QED BY <2>2, <2>3, <2>4 DEF ProducerNext
<1>5. GnbTypeOK' /\ FlushHandOver' /\ ShutdownInOrder'
  BY <1>1, <1>2, <1>3
  DEF GnbTypeOK, FlushHandOver, ShutdownInOrder, stopVars, fileVars
<1>6. ScanInFlush' /\ DiskCountTells'
  BY <1>1 DEF ScanInFlush, DiskCountTells, Handed, stopVars, fileVars
<1>7. LastFlushSeesAll'
  BY <1>1, <1>2 DEF LastFlushSeesAll, stopVars, fileVars
<1> QED BY <1>4, <1>5, <1>6, <1>7

(* Steps of the flusher thread and of shutdown outside flush.               *)
LEMMA ThreadStepKeeps ==
  ASSUME TypeInv, ShutdownInv, FlusherNext \/ ShutdownNext
  PROVE  ShutdownInv'
<1> USE DEF ShutdownInv
<1>1. UNCHANGED <<coreVars, enabled, gate, stopped, fileVars>>
  BY DEF FlusherNext, TestRunning, Wake, threadKeeps, ShutdownNext,
         CallShutdown, StopFlusher, Join, CloseRing
<1>2. UNCHANGED <<pc, scan, m, end, log, claimed, claimLog, overflow>>
  BY <1>1 DEF coreVars, scanVars
<1>3. FlushHandOver'
  BY DEF FlushHandOver, FlusherNext, TestRunning, Wake, ShutdownNext,
         CallShutdown, StopFlusher, Join, CloseRing
<1>4. \/ fstep' = fstep /\ UNCHANGED final
      \/ fstep = "none" /\ fstep' = "begin"
  BY DEF FlushHandOver, FlusherNext, TestRunning, Wake, ShutdownNext,
         CallShutdown, StopFlusher, Join, CloseRing
<1>5. GnbTypeOK' /\ ShutdownInOrder'
  <2> USE DEF GnbTypeOK, ShutdownInOrder
  <2>1. CASE TestRunning
    BY <1>1, <1>2, <2>1 DEF TestRunning, fileVars
  <2>2. CASE Wake
    BY <1>1, <1>2, <2>2 DEF Wake, FlushHandOver, fileVars
  <2>3. CASE CallShutdown
    BY <1>1, <1>2, <2>3 DEF CallShutdown, fileVars
  <2>4. CASE StopFlusher \/ Join
    BY <1>1, <1>2, <2>4 DEF StopFlusher, Join, fileVars
  <2>5. CASE CloseRing
    BY <1>1, <1>2, <2>5 DEF CloseRing, fileVars
  <2> QED BY <2>1, <2>2, <2>3, <2>4, <2>5 DEF FlusherNext, ShutdownNext
<1>6. ScanInFlush' /\ DiskCountTells'
  BY <1>1, <1>2, <1>4 DEF ScanInFlush, DiskCountTells, Handed, fileVars
<1>7. closer' = "up" \/ orderly' => closer = "up" \/ orderly
  BY DEF FlusherNext, TestRunning, Wake, ShutdownNext, CallShutdown,
         StopFlusher, Join, CloseRing
<1>8. NoneTurnedAway'
  BY <1>1, <1>7, ScanKeepsRefused DEF NoneTurnedAway
<1>9. LastFlushSeesAll'
  <2>1. CASE CallShutdown
    BY <1>1, <1>2, <2>1
    DEF CallShutdown, LastFlushSeesAll, ShutdownInOrder, fileVars
  <2>2. CASE ~CallShutdown
    <3>1. UNCHANGED orderly
      BY <2>2 DEF FlusherNext, TestRunning, Wake, ShutdownNext, StopFlusher,
                  Join, CloseRing
    <3>2. closer \in {"flushing", "down"} => closer' = closer
      BY DEF FlusherNext, TestRunning, Wake, ShutdownNext, CallShutdown,
             StopFlusher, Join, CloseRing
    <3>3. footer # NoFooter => fstep' = fstep
      BY <1>4 DEF LastFlushSeesAll, FlushHandOver, FlusherNext, TestRunning,
             Wake, ShutdownNext, CallShutdown, StopFlusher, Join, CloseRing
    <3> QED
      BY <1>1, <1>2, <1>4, <3>1, <3>2, <3>3 DEF LastFlushSeesAll, fileVars
  <2> QED BY <2>1, <2>2
<1> QED BY <1>3, <1>5, <1>6, <1>8, <1>9

(* Steps of flush: the caller's place and the types ...                     *)
LEMMA FlushKeepsOrder ==
  ASSUME TypeInv, ShutdownInv, FlushStep
  PROVE  /\ GnbTypeOK' /\ FlushHandOver' /\ ShutdownInOrder' /\ NoneTurnedAway'
         /\ UNCHANGED <<enabled, orderly, final, overflow, claimed, claimLog, pc>>
<1> USE DEF ShutdownInv
<1>1. UNCHANGED <<enabled, gate, stopped, active, closed, orderly, final>>
  BY DEF FlushStep, FlushBegin, FlushOpen, FlushOpenFails, FlushScan,
         WriteFooter, FlushClose, FlushCloseFails, flushKeeps
<1>2. BeginScan \/ ScanStep \/ AbandonScan \/ UNCHANGED coreVars
  BY DEF FlushStep, FlushBegin, FlushOpen, FlushOpenFails, FlushScan,
         WriteFooter, FlushClose, FlushCloseFails
<1>3. UNCHANGED <<overflow, claimed, claimLog, pc>>
  BY <1>2 DEF BeginScan, ScanStep, FoundReady, FormatRow, ReleaseSlot,
              EndScan, AbandonScan, coreVars, prodVars
<1>4. \/ Return
      \/ \E s \in {"fopen", "scan", "account", "fclose"} :
           enabled /\ Proceed(s)
  BY DEF FlushStep, FlushBegin, FlushOpen, FlushOpenFails, FlushScan,
         WriteFooter, FlushClose, FlushCloseFails,
         ShutdownInOrder
<1>5. fstep # "none"
  BY DEF FlushStep, FlushBegin, FlushOpen, FlushOpenFails, FlushScan,
         WriteFooter, FlushClose, FlushCloseFails
<1>6. closer' = closer \/ (closer = "flushing" /\ closer' = "down")
  BY <1>4 DEF Return, Proceed
<1>7. FlushHandOver'
  BY <1>4, <1>5 DEF FlushHandOver, Return, Proceed
<1>8. ShutdownInOrder'
  BY <1>1, <1>3, <1>4, <1>6 DEF ShutdownInOrder, Return, Proceed
<1>9. NoneTurnedAway'
  BY <1>1, <1>2, <1>6, ScanKeepsRefused DEF NoneTurnedAway
<1>10. batch' \in Nat /\ disk' \in Seq(Row \cup {NoRow})
  <2>1. log \in Seq(Row \cup {NoRow}) /\ Len(log) \in Nat
    BY DEF TypeInv, CoreTypeOK
  <2>2. CASE FlushBegin \/ FlushOpen \/ FlushOpenFails \/ FlushScan \/ WriteFooter
    BY <2>1, <2>2 DEF FlushBegin, FlushOpen, FlushOpenFails, FlushScan,
                      WriteFooter, GnbTypeOK, fileVars
  <2>3. CASE FlushClose
    BY <2>1, <2>3 DEF FlushClose, GnbTypeOK
  <2>4. CASE FlushCloseFails
    <3>1. PICK k \in batch .. Len(log) :
                 disk' = disk \o SubSeq(log, batch + 1, k)
      BY <2>4 DEF FlushCloseFails
    <3>2. SubSeq(log, batch + 1, k) \in Seq(Row \cup {NoRow})
      BY <2>1, <3>1 DEF GnbTypeOK
    <3> QED BY <2>4, <3>1, <3>2 DEF FlushCloseFails, GnbTypeOK
  <2> QED BY <2>2, <2>3, <2>4 DEF FlushStep
<1>11. GnbTypeOK'
  BY <1>1, <1>4, <1>6, <1>10 DEF GnbTypeOK, Return, Proceed
<1> QED BY <1>1, <1>3, <1>7, <1>8, <1>9, <1>11

(* ... how much of the log a batch adds to the file ...                     *)
LEMMA BatchWritten ==
  ASSUME TypeInv, ShutdownInv, fstep = "fclose", fstep' = "none",
         UNCHANGED log, NEW k \in batch .. Len(log),
         disk' = disk \o SubSeq(log, batch + 1, k)
  PROVE  DiskCountTells'
<1> USE DEF ShutdownInv
<1> DEFINE tail == SubSeq(log, batch + 1, k)
<1>1. /\ Len(log) \in Nat /\ Len(disk) \in Nat /\ batch \in Nat /\ k \in Nat
      /\ log \in Seq(Row \cup {NoRow}) /\ disk \in Seq(Row \cup {NoRow})
  BY DEF TypeInv, CoreTypeOK, GnbTypeOK
<1>2. Len(disk) <= batch /\ batch <= k /\ k <= Len(log)
  BY <1>1 DEF DiskCountTells, Handed
<1>3. /\ tail \in Seq(Row \cup {NoRow}) /\ Len(tail) = k - batch
      /\ \A j \in 1 .. Len(tail) : tail[j] = log[batch + j]
  BY <1>1, <1>2
<1> HIDE DEF tail
<1>4. disk' = disk \o tail
  BY DEF tail
<1>5. /\ Len(disk \o tail) = Len(disk) + Len(tail)
      /\ \A j \in 1 .. Len(disk) : (disk \o tail)[j] = disk[j]
      /\ \A j \in 1 .. Len(tail) : (disk \o tail)[Len(disk) + j] = tail[j]
  <2>1. /\ Len(disk \o tail) = Len(disk) + Len(tail)
        /\ \A i \in 1 .. Len(disk) + Len(tail) : (disk \o tail)[i] =
             IF i <= Len(disk) THEN disk[i] ELSE tail[i - Len(disk)]
    BY <1>1, <1>3, ConcatProperties
  <2>2. Len(tail) \in Nat
    BY <1>3
  <2>3. ASSUME NEW j \in 1 .. Len(disk) PROVE (disk \o tail)[j] = disk[j]
    BY <1>1, <2>1, <2>2
  <2>4. ASSUME NEW j \in 1 .. Len(tail)
        PROVE  (disk \o tail)[Len(disk) + j] = tail[j]
    <3>1. /\ Len(disk) + j \in 1 .. Len(disk) + Len(tail)
          /\ ~(Len(disk) + j <= Len(disk)) /\ (Len(disk) + j) - Len(disk) = j
      BY <1>1, <2>2
    <3> QED BY <2>1, <3>1
  <2> QED BY <2>1, <2>3, <2>4
<1>6. ASSUME Len(disk') = Len(log), NEW j \in 1 .. Len(log)
      PROVE  disk'[j] = log[j]
  <2>1. Len(disk) = batch /\ Len(tail) = Len(log) - batch
    BY <1>1, <1>2, <1>3, <1>4, <1>5, <1>6
  <2>2. CASE j <= batch
    <3>1. \A i \in 1 .. Len(disk) : disk[i] = log[i]
      BY <2>1 DEF DiskCountTells, Handed
    <3>2. j \in 1 .. Len(disk)
      BY <1>1, <2>1, <2>2
    <3>3. disk'[j] = disk[j]
      BY <1>4, <1>5, <3>2
    <3> QED BY <3>1, <3>2, <3>3
  <2>3. CASE j > batch
    <3>1. j - batch \in 1 .. Len(tail) /\ batch + (j - batch) = j
      BY <1>1, <2>1, <2>3
    <3>2. disk'[j] = tail[j - batch]
      BY <1>4, <1>5, <2>1, <3>1
    <3> QED BY <1>3, <3>1, <3>2
  <2> QED BY <1>1, <1>6, <2>2, <2>3
<1>7. Handed' = Len(log)
  BY DEF Handed
<1> QED BY <1>1, <1>2, <1>3, <1>4, <1>5, <1>6, <1>7 DEF DiskCountTells

LEMMA FlushFollowsLog ==
  ASSUME TypeInv, RingInv, ShutdownInv, FlushStep
  PROVE  ScanInFlush' /\ DiskCountTells'
<1> USE DEF ShutdownInv
<1>0. /\ Len(log) \in Nat /\ Len(disk) \in Nat /\ batch \in Nat
      /\ log \in Seq(Row \cup {NoRow}) /\ disk \in Seq(Row \cup {NoRow})
  BY DEF TypeInv, CoreTypeOK, GnbTypeOK
<1>1. CASE FlushBegin
  BY <1>0, <1>1 DEF FlushBegin, Return, Proceed, BeginScan, ScanInFlush,
                    DiskCountTells, Handed, coreVars, scanVars, fileVars
<1>2. CASE FlushOpen
  BY <1>0, <1>2 DEF FlushOpen, Proceed, ScanInFlush, DiskCountTells, Handed,
                    coreVars, scanVars
<1>3. CASE FlushOpenFails
  BY <1>0, <1>3 DEF FlushOpenFails, Return, AbandonScan, ScanInFlush,
                    DiskCountTells, Handed
<1>4. CASE FlushScan
  <2>1. \/ log' = log
        \/ log' = Append(log, row[Slot(m)]) /\ row[Slot(m)] \in Row \cup {NoRow}
    BY <1>4, SlotInRing DEF FlushScan, ScanStep, FoundReady, FormatRow,
              ReleaseSlot, EndScan, TypeInv, CoreTypeOK
  <2>2. /\ Len(log') \in Nat /\ Len(log) <= Len(log')
        /\ \A k \in 1 .. Len(log) : log'[k] = log[k]
    BY <1>0, <2>1
  <2>3. /\ UNCHANGED <<batch, disk, final>> /\ fstep = "scan"
        /\ fstep' = IF scan' # "idle" THEN "scan"
                    ELSE IF final THEN "account" ELSE "fclose"
    BY <1>4 DEF FlushScan, Proceed, flushKeeps, fileVars
  <2>4. DiskCountTells'
    BY <1>0, <2>2, <2>3 DEF DiskCountTells, Handed
  <2> QED BY <2>3, <2>4 DEF ScanInFlush
<1>5. CASE WriteFooter
  BY <1>0, <1>5 DEF WriteFooter, Proceed, ScanInFlush, DiskCountTells,
                    Handed, coreVars, scanVars
<1>6. CASE FlushClose \/ FlushCloseFails
  <2>1. UNCHANGED <<scan, log>> /\ fstep = "fclose" /\ fstep' = "none"
    BY <1>6 DEF FlushClose, FlushCloseFails, Return, coreVars, scanVars
  <2>2. \E k \in batch .. Len(log) : disk' = disk \o SubSeq(log, batch + 1, k)
    <3>1. Len(log) \in batch .. Len(log)
      BY <1>0, <2>1 DEF DiskCountTells, Handed
    <3> QED BY <1>6, <3>1 DEF FlushClose, FlushCloseFails
  <2>3. DiskCountTells'
    BY <2>1, <2>2, BatchWritten
  <2> QED BY <2>1, <2>3 DEF ScanInFlush
<1> QED BY <1>1, <1>2, <1>3, <1>4, <1>5, <1>6 DEF FlushStep

(* ... and what the last call of it finds and reports.                      *)
LEMMA FlushSeals ==
  ASSUME TypeInv, RingInv, NoneForgotten, ShutdownInv, FlushStep
  PROVE  LastFlushSeesAll'
<1> USE DEF ShutdownInv
<1>0. UNCHANGED <<enabled, orderly, final, overflow, claimed, claimLog, pc>>
  BY FlushKeepsOrder
<1>1. footer = NoFooter \/ (closer = "flushing" /\ fstep = "fclose")
  BY DEF LastFlushSeesAll, FlushHandOver, FlushStep, FlushBegin, FlushOpen, FlushOpenFails, FlushScan,
         WriteFooter, FlushClose, FlushCloseFails
<1>2. CASE FlushBegin
  BY <1>0, <1>1, <1>2 DEF FlushBegin, Return, Proceed, BeginScan, fileVars,
     LastFlushSeesAll
<1>3. CASE FlushOpen \/ FlushOpenFails
  BY <1>0, <1>1, <1>3 DEF FlushOpen, FlushOpenFails, Proceed, Return,
     AbandonScan, LastFlushSeesAll, coreVars, scanVars
<1>4. CASE FlushScan
  <2>1. /\ UNCHANGED <<end, footer, closer>> /\ fstep = "scan"
        /\ fstep' = IF scan' # "idle" THEN "scan"
                    ELSE IF final THEN "account" ELSE "fclose"
    BY <1>4 DEF FlushScan, ScanStep, FoundReady, FormatRow, ReleaseSlot,
                EndScan, Proceed, fileVars
  <2>2. footer = NoFooter
    BY <1>1, <2>1
  <2>3. ASSUME orderly, final, fstep' \in {"account", "fclose"} PROVE m' = end'
    <3>1. EndScan /\ m' = m
      BY <1>4, <2>1, <2>3 DEF FlushScan, ScanStep, FoundReady, FormatRow,
                ReleaseSlot, EndScan
    <3>2. \A p \in Producers : ~Copying(p)
      BY <2>3 DEF ShutdownInOrder, Copying
    <3>3. end = claimed
      BY <2>1, <2>3 DEF LastFlushSeesAll
    <3>4. m = end
      BY <3>1, <3>2, <3>3, NextIsPublished DEF EndScan
    <3> QED BY <2>1, <3>1, <3>4
  <2> QED BY <1>0, <2>1, <2>2, <2>3 DEF LastFlushSeesAll
<1>5. CASE WriteFooter
  <2>1. /\ UNCHANGED <<coreVars, closer>> /\ fstep = "account" /\ fstep' = "fclose"
        /\ footer' = [rows |-> Len(log), overflow |-> overflow]
    BY <1>5 DEF WriteFooter, Proceed
  <2>2. Len(log) = m /\ claimed = Len(claimLog)
    BY <2>1 DEF RingInv, LogFollowsScan, ScanInFlush, ScanInWindow, WindowFits
  <2>3. final /\ enabled /\ closer = "flushing"
    BY <2>1 DEF ScanInFlush, ShutdownInOrder, FlushHandOver
  <2>4. orderly => end = claimed /\ m = end
    BY <2>1, <2>3 DEF LastFlushSeesAll
  <2>5. footer'.rows = Len(log) /\ footer'.overflow = overflow
    BY <2>1
  <2>6. UNCHANGED <<log, m, end>>
    BY <2>1 DEF coreVars, scanVars
  <2> QED
    BY <1>0, <2>1, <2>2, <2>3, <2>4, <2>5, <2>6 DEF LastFlushSeesAll
<1>6. CASE FlushClose
  <2>1. UNCHANGED <<log, m, end, footer>> /\ fstep = "fclose" /\ fstep' = "none"
    BY <1>6 DEF FlushClose, Return, coreVars, scanVars
  <2>2. closer = "flushing" => closer' = "down"
    BY <1>6 DEF FlushClose, Return, FlushHandOver
  <2> QED BY <1>0, <1>1, <2>1, <2>2 DEF LastFlushSeesAll
<1>7. CASE FlushCloseFails
  BY <1>0, <1>7 DEF FlushCloseFails, Return, LastFlushSeesAll
<1> QED BY <1>2, <1>3, <1>4, <1>5, <1>6, <1>7 DEF FlushStep

LEMMA ShutdownInvStep ==
  TypeInv /\ RingInv /\ NoneForgotten /\ ShutdownInv /\ [GnbNext]_gnbVars
    => ShutdownInv'
<1> SUFFICES ASSUME TypeInv, RingInv, NoneForgotten, ShutdownInv,
                    [GnbNext]_gnbVars
             PROVE  ShutdownInv'
  OBVIOUS
<1>1. CASE UNCHANGED gnbVars
  <2>1. NoneTurnedAway'
    BY <1>1, ScanKeepsRefused DEF gnbVars, stopVars, ShutdownInv, NoneTurnedAway
  <2> QED
    BY <1>1, <2>1
    DEF ShutdownInv, GnbTypeOK, FlushHandOver, ShutdownInOrder, ScanInFlush,
        DiskCountTells, Handed, LastFlushSeesAll, gnbVars, stopVars, fileVars,
        coreVars, scanVars
<1>2. CASE FlushStep
  BY <1>2, FlushKeepsOrder, FlushFollowsLog, FlushSeals DEF ShutdownInv
<1> QED
  BY <1>1, <1>2, ProducerStepKeeps, ThreadStepKeeps DEF GnbNext

(* Rows, counters, file and the steps of shutdown agree at every moment, for *)
(* any number of RAN threads, rows, slots and file errors.                  *)
THEOREM GnbInvariant ==
  GnbSpec => [](TypeInv /\ RingInv /\ NoneForgotten /\ ShutdownInv)
<1>1. GnbInit => NoneForgotten /\ ShutdownInv
  BY NoneForgottenInit, ShutdownInvInit DEF GnbInit
<1>2. GnbSpec => [](TypeInv /\ RingInv)
  BY GnbImplementsCore, CoreInvariant, PTL
<1>3. TypeInv /\ RingInv /\ NoneForgotten /\ ShutdownInv /\ [GnbNext]_gnbVars
        => (NoneForgotten /\ ShutdownInv)'
  BY ShutdownInvStep, NoneForgottenStep, GnbStepIsCoreStep
<1> QED BY <1>1, <1>2, <1>3, PTL DEF GnbSpec

(* A file with as many rows as its footer says is the beginning of what was *)
(* claimed.                                                                *)
LEMMA FooterFits ==
  ASSUME TypeInv, RingInv, ShutdownInv, closer = "down", Len(disk) = footer.rows
  PROVE  /\ footer # NoFooter /\ Len(disk) = Len(log)
         /\ Len(disk) <= Len(claimLog)
         /\ disk = SubSeq(claimLog, 1, Len(disk))
         /\ Len(disk) = Len(claimLog) => disk = claimLog
<1> USE DEF ShutdownInv
<1>1. /\ disk \in Seq(Row \cup {NoRow}) /\ claimLog \in Seq(Row)
      /\ Len(disk) \in Nat /\ Len(claimLog) \in Nat
  BY DEF TypeInv, CoreTypeOK, GnbTypeOK
<1>2. footer # NoFooter
  BY <1>1 DEF NoFooter
<1>3. Len(disk) = Len(log)
  BY <1>2 DEF LastFlushSeesAll
<1>4. fstep = "none"
  BY DEF FlushHandOver
<1>5. \A k \in 1 .. Len(disk) : disk[k] = log[k]
  BY <1>3, <1>4 DEF DiskCountTells, Handed
<1>6. /\ Len(log) <= Len(claimLog)
      /\ \A k \in 1 .. Len(log) : log[k] = claimLog[k]
  BY DEF TypeInv, CoreTypeOK, RingInv, LogFollowsScan, ScanInWindow, WindowFits
<1>7. \A k \in 1 .. Len(disk) : disk[k] = claimLog[k]
  BY <1>3, <1>5, <1>6
<1>8. disk = SubSeq(claimLog, 1, Len(disk))
  BY <1>1, <1>3, <1>6, <1>7
<1>9. ASSUME Len(disk) = Len(claimLog) PROVE disk = claimLog
  BY <1>1, <1>7, <1>9
<1> QED BY <1>2, <1>3, <1>6, <1>8, <1>9

(* Whatever RAN threads do during shutdown, only the end of such a file is  *)
(* missing ...                                                              *)
THEOREM OnlyTailMissingHolds == GnbSpec => []OnlyTailMissing
<1>1. TypeInv /\ RingInv /\ ShutdownInv => OnlyTailMissing
  BY FooterFits DEF OnlyTailMissing
<1> QED BY <1>1, GnbInvariant, PTL

(* ... and nothing at all, but what the footer counts, if they had ended.   *)
THEOREM FooterTellsAllHolds == GnbSpec => []FooterTellsAll
<1>1. TypeInv /\ RingInv /\ ShutdownInv => FooterTellsAll
  <2> SUFFICES ASSUME TypeInv, RingInv, ShutdownInv, closer = "down", orderly,
                      Len(disk) = footer.rows
               PROVE  disk = claimLog /\ footer.rows + footer.overflow = Offered
    BY DEF FooterTellsAll
  <2>1. /\ enabled /\ footer.overflow = overflow /\ Len(log) = Len(claimLog)
        /\ footer.rows = Len(claimLog) /\ disk = claimLog
    BY FooterFits DEF ShutdownInv, LastFlushSeesAll
  <2>2. InWriteUnclaimed = {}
    BY DEF ShutdownInv, ShutdownInOrder, InWriteUnclaimed
  <2>3. Offered = overflow + Len(claimLog)
    BY <2>1, <2>2, CountsFinite, FS_EmptySet
    DEF ShutdownInv, NoneTurnedAway, Refused
  <2> QED BY <2>1, <2>3, CountsFinite
<1> QED BY <1>1, GnbInvariant, PTL
=============================================================================
