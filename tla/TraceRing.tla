----------------------------- MODULE TraceRing ------------------------------
(***************************************************************************)
(* TraceRing of the three app trees (apps/common/trace_ring.h): the ring    *)
(* of RingCore with its flusher thread, its file and its close protocol.    *)
(*                                                                         *)
(*   Write      counts a row as late once the ring is closed               *)
(*   FlushLoop  the flusher thread: sleep, FlushOnce(false), until told     *)
(*   FlushOnce  open, format the published rows, free them, close; a last   *)
(*              call adds the footer and the .ERROR sidecar                *)
(*   Close      stop and join the flusher, up to Grace more rounds for      *)
(*              stragglers, then the last FlushOnce                        *)
(*                                                                         *)
(* fopen and fclose may fail, MaxFaults times in all.  A batch whose fclose *)
(* fails is lost in the file from some row on.                             *)
(***************************************************************************)
EXTENDS RingCore

CONSTANTS
  Grace,          \* rounds of Close's loop: 100 in the code
  MaxFaults       \* bound: file operations that fail

ASSUME GraceAssumption == Grace \in Nat /\ MaxFaults \in Nat

NoFooter == [rows |-> -1, overflow |-> 0, late |-> 0, unpublished |-> 0]

VARIABLES
  closed, running, late,  \* atomics
  stopped,    \* producers whose thread has ended
  flusher,    \* flusher thread: "test", "asleep", "flushing", "exited"
  closer,     \* thread in Close: "open" (not called), "stopping", "joining",
              \* "draining", "flushing", "napping", "sealing", "closed"
  round,      \* i of Close's loop
  orderly,    \* history: the caller kept to line 84, "Call once after the
              \* producers have stopped"
  fstep,      \* FlushOnce: "none", "begin", "fopen", "scan", "account", "fclose"
  final,      \* its argument
  batch,      \* Len(log) when the file was opened
  disk,       \* rows that reached the file
  footer,     \* footer as read back from the file
  sidecar,    \* <path>.ERROR exists
  faults

flushVars == <<fstep, final, batch, disk, footer, sidecar, faults>>
ringVars == <<coreVars, closed, running, late, stopped, flusher, closer,
              round, orderly, flushVars>>

RingInit ==
  /\ CoreInit
  /\ closed = FALSE /\ running = TRUE /\ late = 0
  /\ stopped = {}
  /\ flusher = "test" /\ closer = "open" /\ round = 0
  /\ orderly = FALSE
  /\ fstep = "none" /\ final = FALSE /\ batch = 0
  /\ disk = <<>> /\ footer = NoFooter /\ sidecar = FALSE /\ faults = 0

-----------------------------------------------------------------------------
(* Producers                                                                *)

controlVars == <<closed, running, stopped, flusher, closer, round, orderly,
                 flushVars>>

OfferRow(p) ==
  /\ p \notin stopped
  /\ \/ closed /\ RefuseWrite(p) /\ late' = late + 1
     \/ ~closed /\ EnterWrite(p) /\ UNCHANGED late
  /\ UNCHANGED controlVars

WriteOn(p) == WriteStep(p) /\ UNCHANGED <<late, controlVars>>

\* The thread that owns the producer's calls ends between two of them.
StopProducer(p) ==
  /\ pc[p] = "idle" /\ p \notin stopped
  /\ stopped' = stopped \cup {p}
  /\ UNCHANGED <<coreVars, closed, running, late, flusher, closer, round,
                 orderly, flushVars>>

-----------------------------------------------------------------------------
(* FlushOnce, on whichever thread called it                                 *)

\* FlushOnce returns to the flusher's loop, to Close's loop or to Close's end.
Return ==
  /\ fstep' = "none"
  /\ \/ flusher = "flushing" /\ flusher' = "test" /\ UNCHANGED closer
     \/ closer = "flushing" /\ closer' = "napping" /\ UNCHANGED flusher
     \/ closer = "sealing" /\ closer' = "closed" /\ UNCHANGED flusher

Proceed(step) == fstep' = step /\ UNCHANGED <<flusher, closer>>

\* What no step of FlushOnce changes.
flushKeeps == <<closed, running, late, stopped, round, orderly, final>>

\* m = consumed_, end = claimed_: nothing to do, unless it is the last call.
FlushBegin ==
  /\ fstep = "begin"
  /\ \/ consumed = claimed /\ ~final /\ Return /\ UNCHANGED coreVars
     \/ (consumed # claimed \/ final) /\ BeginScan /\ Proceed("fopen")
  /\ UNCHANGED <<batch, disk, footer, sidecar, faults, flushKeeps>>

FlushOpen ==
  /\ fstep = "fopen"
  /\ batch' = Len(log)
  /\ Proceed("scan")
  /\ UNCHANGED <<coreVars, disk, footer, sidecar, faults, flushKeeps>>

\* Giving up on the file without leaving a mark.
FlushOpenFails_Silent ==
  /\ fstep = "fopen" /\ faults < MaxFaults
  /\ AbandonScan
  /\ faults' = faults + 1
  /\ Return
  /\ UNCHANGED <<sidecar, batch, disk, footer, flushKeeps>>

FlushOpenFails ==
  /\ fstep = "fopen" /\ faults < MaxFaults
  /\ AbandonScan
  /\ faults' = faults + 1
  /\ sidecar' = TRUE
  /\ Return
  /\ UNCHANGED <<batch, disk, footer, flushKeeps>>

FlushScan ==
  /\ fstep = "scan"
  /\ ScanStep
  /\ Proceed(IF scan' # "idle" THEN "scan" ELSE IF final THEN "account" ELSE "fclose")
  /\ UNCHANGED <<batch, disk, footer, sidecar, faults, flushKeeps>>

\* The footer and, if a row is missing, the sidecar.
WriteFooter ==
  /\ fstep = "account"
  /\ footer' = [rows |-> Len(log), overflow |-> overflow, late |-> late,
                unpublished |-> end - m]
  /\ sidecar' = (sidecar \/ overflow # 0 \/ late # 0 \/ end # m)
  /\ Proceed("fclose")
  /\ UNCHANGED <<coreVars, batch, disk, faults, flushKeeps>>

FlushClose ==
  /\ fstep = "fclose"
  /\ disk' = disk \o SubSeq(log, batch + 1, Len(log))
  /\ Return
  /\ UNCHANGED <<coreVars, batch, footer, sidecar, faults, flushKeeps>>

\* Not looking at what fclose returns.
FlushCloseFails_Unchecked ==
  /\ fstep = "fclose" /\ faults < MaxFaults
  /\ \E k \in batch .. Len(log) : disk' = disk \o SubSeq(log, batch + 1, k)
  /\ footer' = NoFooter
  /\ faults' = faults + 1
  /\ Return
  /\ UNCHANGED <<coreVars, batch, sidecar, flushKeeps>>

\* The buffered rows are written only up to the k-th; a footer comes last.
FlushCloseFails ==
  /\ fstep = "fclose" /\ faults < MaxFaults
  /\ \E k \in batch .. Len(log) : disk' = disk \o SubSeq(log, batch + 1, k)
  /\ footer' = NoFooter
  /\ faults' = faults + 1
  /\ sidecar' = TRUE
  /\ Return
  /\ UNCHANGED <<coreVars, batch, flushKeeps>>

FlushStep ==
  \/ FlushBegin \/ FlushOpen \/ FlushOpenFails \/ FlushScan
  \/ WriteFooter \/ FlushClose \/ FlushCloseFails

CallFlush(isFinal) == fstep' = "begin" /\ final' = isFinal

-----------------------------------------------------------------------------
(* FlushLoop                                                                *)

flusherKeeps == <<coreVars, closed, running, late, stopped, closer, round,
                  orderly, batch, disk, footer, sidecar, faults>>

TestRunning ==
  /\ flusher = "test"
  /\ flusher' = IF running THEN "asleep" ELSE "exited"
  /\ UNCHANGED <<flusherKeeps, fstep, final>>

Wake ==
  /\ flusher = "asleep"
  /\ flusher' = "flushing"
  /\ CallFlush(FALSE)
  /\ UNCHANGED flusherKeeps

-----------------------------------------------------------------------------
(* Close                                                                    *)

closerKeeps == <<coreVars, late, stopped, flusher, batch, disk, footer,
                 sidecar, faults>>

\* closed_.exchange(true) returned false.  A second call returns at once.
CallClose ==
  /\ closer = "open"
  /\ closed' = TRUE
  /\ orderly' = (stopped = Producers)
  /\ closer' = "stopping"
  /\ UNCHANGED <<closerKeeps, running, round, fstep, final>>

StopFlusher ==
  /\ closer = "stopping"
  /\ running' = FALSE
  /\ closer' = "joining"
  /\ UNCHANGED <<closerKeeps, orderly, closed, round, fstep, final>>

\* Taking over the ring without waiting for the flusher.
Join_NoWait ==
  /\ closer = "joining"
  /\ closer' = "draining"
  /\ UNCHANGED <<closerKeeps, orderly, closed, running, round, fstep, final>>

Join ==
  /\ closer = "joining" /\ flusher = "exited"
  /\ closer' = "draining"
  /\ UNCHANGED <<closerKeeps, orderly, closed, running, round, fstep, final>>

\* The loop that waits for stragglers, and then the last FlushOnce.
DrainOrSeal ==
  /\ closer = "draining"
  /\ \/ /\ round < Grace /\ consumed # claimed
        /\ closer' = "flushing" /\ CallFlush(FALSE)
     \/ /\ round = Grace \/ consumed = claimed
        /\ closer' = "sealing" /\ CallFlush(TRUE)
  /\ UNCHANGED <<closerKeeps, orderly, closed, running, round>>

\* A round that does not count lets a stalled producer hold Close for ever.
NapEnds_Uncounted ==
  /\ closer = "napping"
  /\ closer' = "draining"
  /\ UNCHANGED <<closerKeeps, orderly, closed, running, round, fstep, final>>

NapEnds ==
  /\ closer = "napping"
  /\ round' = round + 1
  /\ closer' = "draining"
  /\ UNCHANGED <<closerKeeps, orderly, closed, running, fstep, final>>

-----------------------------------------------------------------------------
ProducerNext(p) == OfferRow(p) \/ WriteOn(p) \/ StopProducer(p)
FlusherNext == TestRunning \/ Wake
CloserNext == CallClose \/ StopFlusher \/ Join \/ DrainOrSeal \/ NapEnds

RingNext ==
  \/ \E p \in Producers : ProducerNext(p)
  \/ FlushStep
  \/ FlusherNext
  \/ CloserNext

RingSpec == RingInit /\ [][RingNext]_ringVars

(* The flusher and the thread in Close are ordinary threads: whatever they  *)
(* can do they do.  Nothing is assumed of the producers, nor that anyone    *)
(* ever calls Close.                                                       *)
RingFairness ==
  /\ WF_ringVars(FlushStep) /\ WF_ringVars(FlusherNext)
  /\ WF_ringVars(StopFlusher \/ Join \/ DrainOrSeal \/ NapEnds)

FairRingSpec == RingSpec /\ RingFairness

-----------------------------------------------------------------------------
(* Properties                                                               *)

(* FlushOnce has non-atomic state (written_, the file, the slots it reads): *)
(* the flusher and the thread in Close never run it at the same time.       *)
OneFlusher ==
  /\ ~(flusher = "flushing" /\ closer \in {"flushing", "sealing"})
  /\ fstep # "none" <=>
       flusher = "flushing" \/ closer \in {"flushing", "sealing"}

(* No row is lost between the counters: at every moment the rows offered    *)
(* are those dropped and counted, those turned away as late, those claimed, *)
(* and those still on their way through Write.  When the producers stopped  *)
(* before Close, the counters in the footer add up to the rows offered.     *)
EveryRowCounted ==
  /\ Offered = overflow + late + Len(claimLog) + Cardinality(InWriteUnclaimed)
  /\ closer = "closed" /\ orderly /\ footer # NoFooter =>
       /\ footer.rows + footer.overflow + footer.late = Offered
       /\ footer.unpublished = 0

(* The reader's contract (TRACE_SCHEMA.md lines 73-80), when the producers  *)
(* stopped before Close: no .ERROR sidecar means that every row offered is  *)
(* in the file, once, in claim order, and the footer says how many.         *)
CleanMeansComplete ==
  closer = "closed" /\ orderly /\ ~sidecar =>
    disk = claimLog /\ Len(disk) = Offered /\ footer.rows = Offered

(* Whatever the producers do during Close, a file without sidecar has no    *)
(* hole: it is the beginning of the claimed sequence.                       *)
CleanMeansNoGap ==
  closer = "closed" /\ ~sidecar =>
    /\ Len(disk) <= Len(claimLog)
    /\ disk = SubSeq(claimLog, 1, Len(disk))

(* Close comes back although a producer may be stalled in the middle of     *)
(* Write for ever: the grace loop is bounded and the join cannot hang.      *)
CloseReturns == closer = "stopping" ~> closer = "closed"

\* The rows with sequence numbers below k are all published.
Published(k) ==
  Len(claimLog) >= k /\ \A p \in Producers : Copying(p) => idx[p] >= k

(* A row whose predecessors are published too gets to the file, or the      *)
(* sidecar says that something is missing, when the producers stop before   *)
(* Close; until then a producer stalled behind that row does not matter.    *)
(* (Published(k) stays true, so this is Published(k) ~> ... for every k.)   *)
PublishedReachesDisk ==
  []<>(\/ closer # "open" /\ ~orderly
       \/ sidecar
       \/ \A k \in 1 .. Len(claimLog) : Published(k) => Len(disk) >= k)
-----------------------------------------------------------------------------
(* The inductive invariant of the close protocol, beside that of RingCore.  *)

RingTypeOK ==
  /\ closed \in BOOLEAN /\ final \in BOOLEAN /\ sidecar \in BOOLEAN
  /\ late \in Nat /\ batch \in Nat
  /\ stopped \subseteq Producers
  /\ flusher \in {"test", "asleep", "flushing", "exited"}
  /\ closer \in {"open", "stopping", "joining", "draining", "flushing",
                 "napping", "sealing", "closed"}
  /\ fstep \in {"none", "begin", "fopen", "scan", "account", "fclose"}
  /\ disk \in Seq(Row \cup {NoRow})

(* The thread in Close takes FlushOnce over only from a flusher that is     *)
(* gone for good (the join), and FlushOnce is under way just while one of   *)
(* the two has called it.                                                  *)
HandOver ==
  /\ fstep # "none" <=>
       flusher = "flushing" \/ closer \in {"flushing", "sealing"}
  /\ closer \in {"draining", "flushing", "napping", "sealing", "closed"} =>
       flusher = "exited"

\* Stopped producers are outside Write, and an orderly Close finds all stopped.
CloseInOrder ==
  /\ closed <=> closer # "open"
  /\ final <=> closer \in {"sealing", "closed"}
  /\ orderly => closer # "open" /\ stopped = Producers
  /\ \A p \in stopped : pc[p] = "idle"

\* The scan runs within FlushOnce, between fopen and what follows the loop.
ScanInFlush ==
  /\ fstep \in {"none", "begin", "account", "fclose"} => scan = "idle"
  /\ fstep = "fopen" => scan = "test"
  /\ fstep = "scan" => scan # "idle"
  /\ fstep = "account" => final

\* The file has what was formatted before the batch that is open.
DiskFollowsLog ==
  /\ fstep \in {"scan", "account", "fclose"} => batch <= Len(log)
  /\ ~sidecar =>
       /\ Len(disk) = IF fstep \in {"scan", "account", "fclose"}
                       THEN batch ELSE Len(log)
       /\ \A k \in 1 .. Len(disk) : disk[k] = log[k]

\* The last FlushOnce, once its footer is due.
Accounted == closer = "closed" \/ (closer = "sealing" /\ fstep = "fclose")

\* After an orderly Close the last scan starts with all there will ever be,
\* finds all of it published, and the footer and the sidecar say so.
SealSeesAll ==
  /\ orderly /\ final /\ fstep \in {"fopen", "scan", "account", "fclose"} =>
       end = claimed
  /\ orderly /\ final /\ fstep \in {"account", "fclose"} => m = end
  /\ footer # NoFooter => Accounted
  /\ orderly /\ footer # NoFooter =>
       /\ footer = [rows |-> Len(log), overflow |-> overflow, late |-> late,
                    unpublished |-> 0]
       /\ Len(log) = Len(claimLog)
  /\ ~sidecar /\ Accounted => footer # NoFooter
  /\ orderly /\ ~sidecar /\ Accounted => overflow = 0 /\ late = 0

(* Every row a caller refused was counted as late.                          *)
LateIsRefused == Refused = late

CloseInv ==
  /\ RingTypeOK /\ HandOver /\ CloseInOrder /\ ScanInFlush
  /\ DiskFollowsLog /\ SealSeesAll /\ LateIsRefused
=============================================================================
