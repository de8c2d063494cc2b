-------------------------- MODULE TraceRingProofs ---------------------------
(***************************************************************************)
(* TraceRing (flusher thread, file, close protocol) uses the ring as        *)
(* RingCore says, whether or not the producers stop before Close, so what   *)
(* RingCoreProofs establishes holds of it; and what counters, sidecar and   *)
(* file say after Close is true (CloseInv of TraceRing).                    *)
(***************************************************************************)
EXTENDS TraceRing, RingCoreProofs

(* Every step of the app ring is a step of the core ring or leaves it alone.*)
LEMMA RingStepIsCoreStep == [RingNext]_ringVars => [CoreNext]_coreVars
<1> SUFFICES ASSUME [RingNext]_ringVars PROVE [CoreNext]_coreVars
  OBVIOUS
<1>1. CASE UNCHANGED ringVars
  BY <1>1 DEF ringVars
<1>2. ASSUME NEW p \in Producers, ProducerNext(p) PROVE [CoreNext]_coreVars
  BY <1>2 DEF ProducerNext, OfferRow, WriteOn, StopProducer, CoreNext
<1>3. CASE FlushStep
  BY <1>3 DEF FlushStep, FlushBegin, FlushOpen, FlushOpenFails, FlushScan,
              WriteFooter, FlushClose, FlushCloseFails, CoreNext
<1>4. CASE FlusherNext
  BY <1>4 DEF FlusherNext, TestRunning, Wake, flusherKeeps
<1>5. CASE CloserNext
  BY <1>5 DEF CloserNext, CallClose, StopFlusher, Join, DrainOrSeal, NapEnds,
              closerKeeps
<1> QED BY <1>1, <1>2, <1>3, <1>4, <1>5 DEF RingNext

\* By the composition of its actions the app ring only takes the core's steps.
LEMMA RingImplementsCore == RingSpec => CoreSpec
<1>1. RingInit => CoreInit
  BY DEF RingInit
<1> QED BY <1>1, RingStepIsCoreStep, PTL DEF RingSpec, CoreSpec

(* In the apps too, no two threads are ever in one slot, and the flusher    *)
(* formats the claimed rows once each and in order.                        *)
THEOREM RingKeepsCoreSafety == RingSpec => [](NoTornAccess /\ LogIsClaimPrefix)
BY RingImplementsCore, NoTornAccessHolds, LogIsClaimPrefixHolds, PTL

-----------------------------------------------------------------------------
LEMMA HandOverStep == HandOver /\ [RingNext]_ringVars => HandOver'
<1> SUFFICES ASSUME HandOver, [RingNext]_ringVars PROVE HandOver'
  OBVIOUS
<1> USE DEF HandOver
<1>1. CASE UNCHANGED ringVars
  BY <1>1 DEF ringVars, flushVars
<1>2. ASSUME NEW p \in Producers, ProducerNext(p) PROVE HandOver'
  BY <1>2 DEF ProducerNext, OfferRow, WriteOn, StopProducer, controlVars,
              flushVars
<1>3. CASE FlushStep
  <2>1. CASE fstep' = "none" /\ Return
    BY <1>3, <2>1 DEF Return, FlushStep, FlushBegin, FlushOpen,
              FlushOpenFails, FlushScan, WriteFooter, FlushClose,
              FlushCloseFails
  <2>2. CASE fstep' # "none" /\ UNCHANGED <<flusher, closer>>
    BY <1>3, <2>2 DEF FlushStep, FlushBegin, FlushOpen, FlushOpenFails,
              FlushScan, WriteFooter, FlushClose, FlushCloseFails
  <2> QED
    BY <1>3, <2>1, <2>2 DEF FlushStep, FlushBegin, FlushOpen, FlushOpenFails,
              FlushScan, WriteFooter, FlushClose, FlushCloseFails, Return,
              Proceed
<1>4. CASE FlusherNext
  BY <1>4 DEF FlusherNext, TestRunning, Wake, flusherKeeps, CallFlush
<1>5. CASE CloserNext
  BY <1>5 DEF CloserNext, CallClose, StopFlusher, Join, DrainOrSeal, NapEnds,
              closerKeeps, CallFlush
<1> QED BY <1>1, <1>2, <1>3, <1>4, <1>5 DEF RingNext

(* FlushOnce never runs on two threads at a time.                           *)
THEOREM OneFlusherHolds == RingSpec => []OneFlusher
<1>1. RingInit => HandOver
  BY DEF RingInit, HandOver
<1>2. HandOver => OneFlusher
  BY DEF HandOver, OneFlusher
<1> QED BY <1>1, <1>2, HandOverStep, PTL DEF RingSpec

-----------------------------------------------------------------------------
(* The close protocol and the file.                                         *)

LEMMA CloseInvInit == RingInit => CloseInv
<1> SUFFICES ASSUME RingInit PROVE CloseInv
  OBVIOUS
<1>1. LateIsRefused
  BY RefusedAtFirst DEF RingInit, LateIsRefused
<1>2. disk \in Seq(Row \cup {NoRow}) /\ Len(disk) = 0 /\ Len(log) = 0
  BY DEF RingInit, CoreInit
<1> QED
  BY <1>1, <1>2
  DEF RingInit, CoreInit, CloseInv, RingTypeOK, HandOver, CloseInOrder,
      ScanInFlush, DiskFollowsLog, SealSeesAll, Accounted

(* What producers do concerns the counters only, and after an orderly Close *)
(* they do nothing.                                                        *)
LEMMA ProducerStepCloses ==
  ASSUME TypeInv, CloseInv, NEW p \in Producers, ProducerNext(p)
  PROVE  CloseInv'
<1> USE DEF CloseInv
<1>1. /\ UNCHANGED <<closed, flusher, closer, orderly, flushVars, scan, m, end, log>>
      /\ p \notin stopped
  BY DEF ProducerNext, OfferRow, WriteOn, StopProducer, controlVars,
         RefuseWrite, EnterWrite, WriteStep, LoadClaimed, CheckFull,
         CasSucceeds, CasFails, CopyRow, Publish, scanVars, coreVars,
         CloseInOrder
<1>2. ~orderly
  BY <1>1 DEF CloseInOrder
<1>3. /\ stopped' \subseteq Producers
      /\ \A q \in stopped' : pc'[q] = "idle"
  BY <1>1 DEF ProducerNext, OfferRow, WriteOn, StopProducer, controlVars,
         RefuseWrite, EnterWrite, WriteStep, LoadClaimed, CheckFull,
         CasSucceeds, CasFails, CopyRow, Publish, coreVars, CloseInOrder,
         RingTypeOK, TypeInv, CoreTypeOK
<1>4. LateIsRefused' /\ late' \in Nat
  <2>1. CASE OfferRow(p) /\ closed
    BY <2>1, RefusalCounts DEF OfferRow, LateIsRefused, RingTypeOK
  <2>2. CASE OfferRow(p) /\ ~closed
    BY <2>2, WriteKeepsRefused DEF OfferRow, LateIsRefused, RingTypeOK
  <2>3. CASE WriteOn(p)
    BY <2>3, WriteKeepsRefused DEF WriteOn, LateIsRefused, RingTypeOK
  <2>4. CASE StopProducer(p)
    BY <2>4, ScanKeepsRefused DEF StopProducer, LateIsRefused, RingTypeOK
  <2> QED BY <2>1, <2>2, <2>3, <2>4 DEF ProducerNext
<1>5. RingTypeOK' /\ HandOver' /\ CloseInOrder'
  BY <1>1, <1>2, <1>3, <1>4 DEF RingTypeOK, HandOver, CloseInOrder, flushVars
<1>6. ScanInFlush' /\ DiskFollowsLog'
  BY <1>1 DEF ScanInFlush, DiskFollowsLog, flushVars
<1>7. SealSeesAll'
  BY <1>1, <1>2 DEF SealSeesAll, Accounted, flushVars
<1> QED BY <1>4, <1>5, <1>6, <1>7

(* Steps of the two threads outside FlushOnce.                              *)
LEMMA ThreadStepCloses ==
  ASSUME TypeInv, RingInv, CloseInv, FlusherNext \/ CloserNext
  PROVE  CloseInv'
<1> USE DEF CloseInv
<1>1. UNCHANGED <<coreVars, late, stopped, batch, disk, footer, sidecar>>
  BY DEF FlusherNext, TestRunning, Wake, flusherKeeps, CloserNext, CallClose,
         StopFlusher, Join, DrainOrSeal, NapEnds, closerKeeps
<1>2. HandOver'
  BY DEF HandOver, FlusherNext, TestRunning, Wake, flusherKeeps, CallFlush,
         CloserNext, CallClose, StopFlusher, Join, DrainOrSeal, NapEnds,
         closerKeeps
<1>3. RingTypeOK' /\ CloseInOrder'
  <2> USE DEF RingTypeOK, CloseInOrder
  <2>0. UNCHANGED pc
    BY <1>1 DEF coreVars
  <2>1. CASE TestRunning
    BY <2>0, <2>1 DEF TestRunning, flusherKeeps
  <2>5. CASE Wake
    BY <2>0, <2>5 DEF HandOver, Wake, flusherKeeps, CallFlush
  <2>2. CASE CallClose
    BY <2>0, <2>2 DEF CallClose, closerKeeps
  <2>3. CASE StopFlusher \/ Join \/ NapEnds
    BY <1>1, <2>3 DEF StopFlusher, Join, NapEnds, closerKeeps, coreVars,
         prodVars
  <2>4. CASE DrainOrSeal
    BY <1>1, <2>4 DEF DrainOrSeal, CallFlush, closerKeeps, coreVars, prodVars
  <2> QED BY <2>1, <2>2, <2>3, <2>4, <2>5 DEF CloserNext, FlusherNext
<1>4. \/ fstep' = fstep /\ UNCHANGED final
      \/ fstep = "none" /\ fstep' = "begin"
  BY DEF HandOver, FlusherNext, TestRunning, Wake, flusherKeeps, CallFlush,
         CloserNext, CallClose, StopFlusher, Join, DrainOrSeal, NapEnds,
         closerKeeps
<1>5. ScanInFlush' /\ DiskFollowsLog'
  BY <1>1, <1>4 DEF ScanInFlush, DiskFollowsLog, coreVars, scanVars
<1>6. SealSeesAll'
  <2>1. Accounted' <=> Accounted
    BY <1>4 DEF Accounted, HandOver, FlusherNext, TestRunning, Wake,
         flusherKeeps, CallFlush, CloserNext, CallClose, StopFlusher, Join,
         DrainOrSeal, NapEnds, closerKeeps
  <2>2. CASE UNCHANGED orderly
    BY <1>1, <1>4, <2>1, <2>2 DEF SealSeesAll, coreVars, scanVars
  <2>3. CASE CallClose
    BY <1>1, <2>1, <2>3
    DEF CallClose, SealSeesAll, CloseInOrder, Accounted, RingTypeOK
  <2> QED
    BY <2>2, <2>3 DEF FlusherNext, TestRunning, Wake, flusherKeeps,
         CloserNext, StopFlusher, Join, DrainOrSeal, NapEnds
<1>7. LateIsRefused'
  BY <1>1, ScanKeepsRefused DEF LateIsRefused
<1> QED BY <1>2, <1>3, <1>5, <1>6, <1>7

(* Steps of FlushOnce: the caller's place and the types ...                 *)
LEMMA FlushKeepsOrder ==
  ASSUME TypeInv, CloseInv, FlushStep
  PROVE  /\ RingTypeOK' /\ HandOver' /\ CloseInOrder' /\ LateIsRefused'
         /\ UNCHANGED <<orderly, final, late, overflow, claimed, claimLog, pc>>
<1> USE DEF CloseInv
<1>1. UNCHANGED <<closed, late, stopped, orderly, final>>
  BY DEF FlushStep, FlushBegin, FlushOpen, FlushOpenFails, FlushScan,
         WriteFooter, FlushClose, FlushCloseFails, flushKeeps
<1>2. BeginScan \/ ScanStep \/ AbandonScan \/ UNCHANGED coreVars
  BY DEF FlushStep, FlushBegin, FlushOpen, FlushOpenFails, FlushScan,
         WriteFooter, FlushClose, FlushCloseFails
<1>3. UNCHANGED <<overflow, claimed, claimLog, pc>>
  BY <1>2 DEF BeginScan, ScanStep, FoundReady, FormatRow, ReleaseSlot,
              EndScan, AbandonScan, coreVars, prodVars
<1>4. LateIsRefused'
  BY <1>1, <1>2, ScanKeepsRefused DEF LateIsRefused
<1>5. \/ Return
      \/ \E s \in {"fopen", "scan", "account", "fclose"} :
           fstep # "none" /\ Proceed(s)
  BY DEF FlushStep, FlushBegin, FlushOpen, FlushOpenFails, FlushScan,
         WriteFooter, FlushClose, FlushCloseFails
<1>6. fstep # "none"
  BY DEF FlushStep, FlushBegin, FlushOpen, FlushOpenFails, FlushScan,
         WriteFooter, FlushClose, FlushCloseFails
<1>7. HandOver' /\ CloseInOrder'
  BY <1>1, <1>3, <1>5, <1>6 DEF HandOver, CloseInOrder, Return, Proceed
<1>8. batch' \in Nat /\ sidecar' \in BOOLEAN /\ disk' \in Seq(Row \cup {NoRow})
  <2>1. log \in Seq(Row \cup {NoRow}) /\ Len(log) \in Nat
    BY DEF TypeInv, CoreTypeOK
  <2>2. CASE FlushBegin \/ FlushOpen \/ FlushOpenFails \/ FlushScan \/ WriteFooter
    BY <2>1, <2>2 DEF FlushBegin, FlushOpen, FlushOpenFails, FlushScan,
                      WriteFooter, RingTypeOK
  <2>3. CASE FlushClose
    BY <2>1, <2>3 DEF FlushClose, RingTypeOK
  <2>4. CASE FlushCloseFails
    <3>1. PICK k \in batch .. Len(log) :
                 disk' = disk \o SubSeq(log, batch + 1, k)
      BY <2>4 DEF FlushCloseFails
    <3>2. SubSeq(log, batch + 1, k) \in Seq(Row \cup {NoRow})
      BY <2>1, <3>1 DEF RingTypeOK
    <3> QED BY <2>4, <3>1, <3>2 DEF FlushCloseFails, RingTypeOK
  <2> QED BY <2>2, <2>3, <2>4 DEF FlushStep
<1>9. RingTypeOK'
  BY <1>1, <1>5, <1>8 DEF RingTypeOK, Return, Proceed
<1> QED BY <1>1, <1>3, <1>4, <1>7, <1>9

(* ... the batch and the file ...                                           *)
LEMMA FlushFollowsLog ==
  ASSUME TypeInv, RingInv, CloseInv, FlushStep
  PROVE  ScanInFlush' /\ DiskFollowsLog'
<1> USE DEF CloseInv
<1>0. /\ Len(log) \in Nat /\ Len(disk) \in Nat /\ batch \in Nat
      /\ log \in Seq(Row \cup {NoRow}) /\ disk \in Seq(Row \cup {NoRow})
  BY DEF TypeInv, CoreTypeOK, RingTypeOK
<1>1. CASE FlushBegin
  BY <1>0, <1>1 DEF FlushBegin, Return, Proceed, BeginScan, ScanInFlush,
                    DiskFollowsLog, coreVars, scanVars
<1>2. CASE FlushOpen
  BY <1>0, <1>2 DEF FlushOpen, Proceed, ScanInFlush, DiskFollowsLog,
                    coreVars, scanVars
<1>3. CASE FlushOpenFails
  BY <1>0, <1>3 DEF FlushOpenFails, Return, AbandonScan, ScanInFlush,
                    DiskFollowsLog
<1>4. CASE FlushScan
  <2>1. \/ log' = log
        \/ log' = Append(log, row[Slot(m)]) /\ row[Slot(m)] \in Row \cup {NoRow}
    BY <1>4, SlotInRing DEF FlushScan, ScanStep, FoundReady, FormatRow,
              ReleaseSlot, EndScan, TypeInv, CoreTypeOK
  <2>2. Len(log) <= Len(log') /\ \A k \in 1 .. Len(log) : log'[k] = log[k]
    BY <1>0, <2>1
  <2>3. /\ UNCHANGED <<batch, disk, sidecar, final>> /\ fstep = "scan"
        /\ fstep' = IF scan' # "idle" THEN "scan"
                    ELSE IF final THEN "account" ELSE "fclose"
    BY <1>4 DEF FlushScan, Proceed, flushKeeps
  <2>5. Len(log') \in Nat
    BY <1>0, <2>1
  <2>4. DiskFollowsLog'
    BY <1>0, <2>2, <2>3, <2>5 DEF DiskFollowsLog
  <2> QED BY <2>3, <2>4 DEF ScanInFlush
<1>5. CASE WriteFooter
  BY <1>0, <1>5 DEF WriteFooter, Proceed, ScanInFlush, DiskFollowsLog,
                    coreVars, scanVars, RingTypeOK
<1>6. CASE FlushClose
  <2>1. /\ fstep = "fclose" /\ fstep' = "none" /\ UNCHANGED <<scan, log, sidecar>>
        /\ disk' = disk \o SubSeq(log, batch + 1, Len(log))
    BY <1>6 DEF FlushClose, Return, coreVars, scanVars
  <2>2. ASSUME ~sidecar
        PROVE  Len(disk') = Len(log) /\ \A k \in 1 .. Len(disk') : disk'[k] = log[k]
    <3>1. batch <= Len(log) /\ Len(disk) = batch
      BY <2>1, <2>2 DEF DiskFollowsLog
    <3> DEFINE tail == SubSeq(log, batch + 1, Len(log))
    <3>2. /\ tail \in Seq(Row \cup {NoRow}) /\ Len(tail) = Len(log) - batch
          /\ \A j \in 1 .. Len(tail) : tail[j] = log[batch + j]
      BY <1>0, <3>1
    <3>3. disk' = disk \o tail
      BY <2>1
    <3> HIDE DEF tail
    <3>4. Len(disk') = Len(log)
      BY <1>0, <3>1, <3>2, <3>3
    <3>5. ASSUME NEW k \in 1 .. Len(log) PROVE disk'[k] = log[k]
      <4>1. CASE k <= batch
        BY <1>0, <2>1, <2>2, <3>1, <3>2, <3>3, <4>1 DEF DiskFollowsLog
      <4>2. CASE k > batch
        <5>1. disk'[k] = tail[k - batch] /\ k - batch \in 1 .. Len(tail)
          BY <1>0, <3>1, <3>2, <3>3, <4>2
        <5> QED BY <1>0, <3>1, <3>2, <5>1
      <4> QED BY <1>0, <4>1, <4>2
    <3> QED BY <3>4, <3>5
  <2> QED BY <2>1, <2>2 DEF ScanInFlush, DiskFollowsLog
<1>7. CASE FlushCloseFails
  BY <1>0, <1>7 DEF FlushCloseFails, Return, ScanInFlush, DiskFollowsLog,
                    coreVars, scanVars
<1> QED BY <1>1, <1>2, <1>3, <1>4, <1>5, <1>6, <1>7 DEF FlushStep

(* ... and what the last call of it finds and reports.                      *)
LEMMA FlushSeals ==
  ASSUME TypeInv, RingInv, NoneForgotten, CloseInv, FlushStep
  PROVE  SealSeesAll'
<1> USE DEF CloseInv
<1>0. UNCHANGED <<orderly, final, late, overflow, claimed, claimLog, pc>>
  BY FlushKeepsOrder
<1>1. Accounted' => closer \in {"sealing", "closed"} /\ final
  BY FlushKeepsOrder DEF Accounted, CloseInOrder
<1>2. ~Accounted \/ fstep = "fclose"
  BY DEF FlushStep, FlushBegin, FlushOpen, FlushOpenFails, FlushScan,
         WriteFooter, FlushClose, FlushCloseFails, Accounted, HandOver
<1>3. CASE FlushBegin
  BY <1>0, <1>2, <1>3 DEF FlushBegin, Return, Proceed, BeginScan, SealSeesAll,
     Accounted, CloseInOrder, HandOver
<1>4. CASE FlushOpen
  BY <1>0, <1>2, <1>4 DEF FlushOpen, Proceed, SealSeesAll, Accounted, coreVars,
     scanVars
<1>5. CASE FlushOpenFails
  BY <1>0, <1>2, <1>5 DEF FlushOpenFails, Return, AbandonScan, SealSeesAll, Accounted
<1>6. CASE FlushScan
  <2>1. /\ UNCHANGED <<end, footer, sidecar, closer>> /\ fstep = "scan"
        /\ fstep' = IF scan' # "idle" THEN "scan"
                    ELSE IF final THEN "account" ELSE "fclose"
    BY <1>6 DEF FlushScan, ScanStep, FoundReady, FormatRow, ReleaseSlot,
                EndScan, Proceed
  <2>2. footer = NoFooter /\ ~Accounted'
    BY <1>2, <2>1, FlushKeepsOrder DEF SealSeesAll, Accounted, CloseInOrder, HandOver
  <2>3. ASSUME orderly, final, fstep' \in {"account", "fclose"} PROVE m' = end'
    <3>1. EndScan /\ m' = m
      BY <1>6, <2>1, <2>3 DEF FlushScan, ScanStep, FoundReady, FormatRow,
                ReleaseSlot, EndScan, ScanInFlush
    <3>2. \A p \in Producers : ~Copying(p)
      BY <2>3 DEF CloseInOrder, Copying
    <3>3. end = claimed
      BY <2>1, <2>3 DEF SealSeesAll
    <3>4. m = end
      BY <3>1, <3>2, <3>3, NextIsPublished DEF EndScan
    <3> QED BY <2>1, <3>1, <3>4
  <2> QED BY <1>0, <2>1, <2>2, <2>3 DEF SealSeesAll
<1>7. CASE WriteFooter
  <2>1. /\ UNCHANGED <<coreVars, closer>> /\ fstep = "account" /\ fstep' = "fclose"
        /\ footer' = [rows |-> Len(log), overflow |-> overflow, late |-> late,
                      unpublished |-> end - m]
        /\ sidecar' = (sidecar \/ overflow # 0 \/ late # 0 \/ end # m)
    BY <1>7 DEF WriteFooter, Proceed
  <2>2. Len(log) = m /\ claimed = Len(claimLog) /\ m \in Nat /\ end \in Nat
    BY <2>1 DEF RingInv, LogFollowsScan, ScanInFlush, ScanInWindow, WindowFits,
                TypeInv, CoreTypeOK
  <2>3. footer' # NoFooter
    <3>1. footer'.rows # NoFooter.rows
      BY <2>1, <2>2 DEF NoFooter
    <3> QED BY <3>1
  <2>4. Accounted'
    BY <2>1 DEF Accounted, CloseInOrder, ScanInFlush, HandOver
  <2>5. ASSUME orderly
        PROVE  end = claimed /\ m = end
    BY <2>1, <2>4, <2>5, <1>1 DEF SealSeesAll
  <2>6. UNCHANGED <<log, claimLog, m, end>>
    BY <2>1 DEF coreVars, scanVars
  <2>7. ASSUME orderly
        PROVE  /\ footer' = [rows |-> Len(log), overflow |-> overflow,
                             late |-> late, unpublished |-> 0]
               /\ Len(log) = Len(claimLog)
    BY <2>1, <2>2, <2>5, <2>7
  <2>8. ASSUME ~sidecar' PROVE overflow = 0 /\ late = 0
    BY <2>1, <2>8
  <2> QED
    BY <1>0, <2>1, <2>3, <2>4, <2>5, <2>6, <2>7, <2>8 DEF SealSeesAll
<1>8. CASE FlushClose
  <2>1. /\ UNCHANGED <<coreVars, footer, sidecar>> /\ fstep = "fclose"
        /\ fstep' = "none"
        /\ Accounted' => Accounted
    BY <1>1, <1>8 DEF FlushClose, Return, Accounted, HandOver
  <2>2. Accounted => Accounted'
    BY <1>8 DEF FlushClose, Return, Accounted, HandOver
  <2> QED BY <1>0, <2>1, <2>2 DEF SealSeesAll, coreVars, scanVars
<1>9. CASE FlushCloseFails
  BY <1>0, <1>9 DEF FlushCloseFails, Return, SealSeesAll
<1> QED BY <1>3, <1>4, <1>5, <1>6, <1>7, <1>8, <1>9 DEF FlushStep

(* What the invariant says when Close has returned.                         *)
LEMMA OrderlyIsQuiet ==
  ASSUME TypeInv, CloseInv, orderly
  PROVE  Cardinality(InWriteUnclaimed) = 0
<1>1. InWriteUnclaimed = {}
  BY DEF CloseInv, CloseInOrder, InWriteUnclaimed
<1> QED BY <1>1, FS_EmptySet

LEMMA ClosedDisk ==
  ASSUME TypeInv, CloseInv, closer = "closed", ~sidecar
  PROVE  /\ Len(disk) = Len(log)
         /\ \A k \in 1 .. Len(disk) : disk[k] = log[k]
<1>1. fstep = "none"
  BY DEF CloseInv, HandOver
<1> QED BY <1>1 DEF CloseInv, DiskFollowsLog

LEMMA DiskIsPrefix ==
  ASSUME TypeInv, RingInv, CloseInv, Len(disk) = Len(log),
         \A k \in 1 .. Len(disk) : disk[k] = log[k]
  PROVE  /\ Len(disk) <= Len(claimLog)
         /\ disk = SubSeq(claimLog, 1, Len(disk))
         /\ Len(disk) = Len(claimLog) => disk = claimLog
<1>1. /\ Len(log) <= Len(claimLog)
      /\ \A k \in 1 .. Len(log) : log[k] = claimLog[k]
  BY DEF TypeInv, CoreTypeOK, RingInv, LogFollowsScan, ScanInWindow, WindowFits
<1>2. /\ disk \in Seq(Row \cup {NoRow}) /\ claimLog \in Seq(Row)
      /\ Len(disk) \in Nat /\ Len(claimLog) \in Nat
  BY DEF TypeInv, CoreTypeOK, CloseInv, RingTypeOK
<1>3. \A k \in 1 .. Len(disk) : disk[k] = claimLog[k]
  BY <1>1
<1>4. disk = SubSeq(claimLog, 1, Len(disk))
  BY <1>1, <1>2, <1>3
<1>5. ASSUME Len(disk) = Len(claimLog) PROVE disk = claimLog
  BY <1>2, <1>3, <1>5
<1> QED BY <1>1, <1>4, <1>5

LEMMA CloseInvStep ==
  TypeInv /\ RingInv /\ NoneForgotten /\ CloseInv /\ [RingNext]_ringVars
    => CloseInv'
<1> SUFFICES ASSUME TypeInv, RingInv, NoneForgotten, CloseInv,
                    [RingNext]_ringVars
             PROVE  CloseInv'
  OBVIOUS
<1>1. CASE UNCHANGED ringVars
  <2>1. LateIsRefused'
    BY <1>1, ScanKeepsRefused DEF ringVars, CloseInv, LateIsRefused
  <2> QED
    BY <1>1, <2>1
    DEF CloseInv, RingTypeOK, HandOver, CloseInOrder, ScanInFlush,
        DiskFollowsLog, SealSeesAll, Accounted, ringVars, flushVars, coreVars,
        scanVars
<1>2. CASE FlushStep
  BY <1>2, FlushKeepsOrder, FlushFollowsLog, FlushSeals DEF CloseInv
<1> QED
  BY <1>1, <1>2, ProducerStepCloses, ThreadStepCloses DEF RingNext

(* Rows, counters, file and the protocol of Close agree at every moment, for *)
(* any number of producers, rows, slots, grace rounds and file errors.      *)
THEOREM RingInvariant ==
  RingSpec => [](TypeInv /\ RingInv /\ NoneForgotten /\ CloseInv)
<1>1. RingInit => NoneForgotten /\ CloseInv
  BY NoneForgottenInit, CloseInvInit DEF RingInit
<1>2. RingSpec => [](TypeInv /\ RingInv)
  BY RingImplementsCore, CoreInvariant, PTL
<1>3. TypeInv /\ RingInv /\ NoneForgotten /\ CloseInv /\ [RingNext]_ringVars
        => (NoneForgotten /\ CloseInv)'
  BY CloseInvStep, NoneForgottenStep, RingStepIsCoreStep
<1> QED BY <1>1, <1>2, <1>3, PTL DEF RingSpec

(* No row is lost between the counters, and after an orderly Close those in *)
(* the footer add up to the rows offered.                                  *)
THEOREM EveryRowCountedHolds == RingSpec => []EveryRowCounted
<1>1. TypeInv /\ CloseInv => EveryRowCounted
  <2> SUFFICES ASSUME TypeInv, CloseInv PROVE EveryRowCounted
    OBVIOUS
  <2>1. Offered = overflow + late + Len(claimLog) + Cardinality(InWriteUnclaimed)
    BY CountsFinite DEF CloseInv, LateIsRefused, Refused
  <2>2. ASSUME closer = "closed", orderly, footer # NoFooter
        PROVE  /\ footer.rows + footer.overflow + footer.late = Offered
               /\ footer.unpublished = 0
    <3>1. Cardinality(InWriteUnclaimed) = 0
      BY <2>2, OrderlyIsQuiet
    <3>2. footer = [rows |-> Len(claimLog), overflow |-> overflow,
                    late |-> late, unpublished |-> 0]
      BY <2>2 DEF CloseInv, SealSeesAll
    <3>3. /\ footer.rows = Len(claimLog) /\ footer.overflow = overflow
          /\ footer.late = late /\ footer.unpublished = 0
      BY <3>2
    <3> QED BY <2>1, <3>1, <3>3, CountsFinite DEF CloseInv, RingTypeOK
  <2> QED BY <2>1, <2>2 DEF EveryRowCounted
<1> QED BY <1>1, RingInvariant, PTL

(* After an orderly Close a file without sidecar has every row offered.     *)
THEOREM CleanMeansCompleteHolds == RingSpec => []CleanMeansComplete
<1>1. TypeInv /\ RingInv /\ CloseInv => CleanMeansComplete
  <2> SUFFICES ASSUME TypeInv, RingInv, CloseInv,
                      closer = "closed", orderly, ~sidecar
               PROVE  /\ disk = claimLog /\ Len(disk) = Offered
                      /\ footer.rows = Offered
    BY DEF CleanMeansComplete
  <2>1. Cardinality(InWriteUnclaimed) = 0
    BY OrderlyIsQuiet
  <2>2. /\ footer = [rows |-> Len(log), overflow |-> overflow, late |-> late,
                     unpublished |-> 0]
        /\ Len(log) = Len(claimLog) /\ overflow = 0 /\ late = 0
    BY DEF CloseInv, SealSeesAll, Accounted
  <2>3. footer.rows = Len(log)
    BY <2>2
  <2>4. Offered = Len(claimLog)
    BY <2>1, <2>2, CountsFinite DEF CloseInv, LateIsRefused, Refused
  <2>5. disk = claimLog
    BY <2>2, ClosedDisk, DiskIsPrefix
  <2> QED BY <2>2, <2>3, <2>4, <2>5
<1> QED BY <1>1, RingInvariant, PTL

(* However Close was called, a file without sidecar has no hole.            *)
THEOREM CleanMeansNoGapHolds == RingSpec => []CleanMeansNoGap
<1>1. TypeInv /\ RingInv /\ CloseInv => CleanMeansNoGap
  BY ClosedDisk, DiskIsPrefix DEF CleanMeansNoGap
<1> QED BY <1>1, RingInvariant, PTL
=============================================================================
