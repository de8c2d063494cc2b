----------------------------- MODULE GnbTracer ------------------------------
(***************************************************************************)
(* The gNB's tracer (patches/srsran_gnb/p5g_gnb_tracer.h): one of its       *)
(* rings, the flusher thread and shutdown.  The ring is that of RingCore;   *)
(* what surrounds it differs from the apps' TraceRing:                      *)
(*   - an emitter looks at `active` and then, inside write, at `closed`,    *)
(*     and a row it turns away is not counted;                             *)
(*   - close does not wait for producers that are inside write;             *)
(*   - a flush that cannot open the file returns without a mark, and        *)
(*     nothing looks at what fclose returns.                               *)
(* The state begins after init_from_env, which runs before any RAN thread.  *)
(* A ring whose file could not be created is not `enabled`.                 *)
(***************************************************************************)
EXTENDS RingCore

CONSTANT MaxFaults      \* bound: file operations that fail

ASSUME MaxFaultsAssumption == MaxFaults \in Nat

NoFooter == [rows |-> -1, overflow |-> 0]

VARIABLES
  enabled,                \* the ring's file could be created
  active, running, closed,  \* atomics
  gate,       \* producers that passed enabled() and are not yet in write
  stopped,    \* producers whose thread has ended
  flusher,    \* "test", "asleep", "flushing", "exited"
  closer,     \* thread in shutdown: "up" (not called), "stopping", "joining",
              \* "closing", "flushing", "down"
  orderly,    \* history: shutdown was called after the producers had stopped
  fstep,      \* flush: "none", "begin", "fopen", "scan", "account", "fclose"
  final,      \* its argument
  batch,      \* Len(log) when the file was opened
  disk,       \* rows that reached the file
  footer, sidecar, faults

fileVars == <<batch, disk, footer, sidecar, faults>>
stopVars == <<active, running, closed, flusher, closer, orderly, fstep, final>>
gnbVars == <<coreVars, enabled, gate, stopped, stopVars, fileVars>>

GnbInit ==
  /\ CoreInit
  /\ enabled \in BOOLEAN /\ sidecar = ~enabled
  /\ active = TRUE /\ running = TRUE /\ closed = FALSE
  /\ gate = {} /\ stopped = {}
  /\ flusher = "test" /\ closer = "up" /\ orderly = FALSE
  /\ fstep = "none" /\ final = FALSE
  /\ batch = 0 /\ disk = <<>> /\ footer = NoFooter /\ faults = 0

-----------------------------------------------------------------------------
(* Producers: on_sched_dl, on_rlc_ul, ...                                   *)

\* `if (enabled())` of an emitter; a row for an inactive tracer is dropped.
CheckActive(p) ==
  /\ pc[p] = "idle" /\ writes[p] < MaxWrites /\ p \notin gate \cup stopped
  /\ \/ active /\ gate' = gate \cup {p} /\ UNCHANGED coreVars
     \/ ~active /\ RefuseWrite(p) /\ UNCHANGED gate
  /\ UNCHANGED <<enabled, stopped, stopVars, fileVars>>

\* The first line of write.
CheckClosed(p) ==
  /\ p \in gate
  /\ gate' = gate \ {p}
  /\ \/ enabled /\ ~closed /\ EnterWrite(p)
     \/ (~enabled \/ closed) /\ RefuseWrite(p)
  /\ UNCHANGED <<enabled, stopped, stopVars, fileVars>>

WriteOn(p) == WriteStep(p) /\ UNCHANGED <<enabled, gate, stopped, stopVars, fileVars>>

\* A RAN thread ends between two calls.
StopProducer(p) ==
  /\ pc[p] = "idle" /\ p \notin gate \cup stopped
  /\ stopped' = stopped \cup {p}
  /\ UNCHANGED <<coreVars, enabled, gate, stopVars, fileVars>>

-----------------------------------------------------------------------------
(* flush, on the flusher thread or on the one in shutdown                   *)

flushKeeps == <<enabled, gate, stopped, active, running, closed, orderly, final>>

Return ==
  /\ fstep' = "none"
  /\ \/ flusher = "flushing" /\ flusher' = "test" /\ UNCHANGED closer
     \/ closer = "flushing" /\ closer' = "down" /\ UNCHANGED flusher

Proceed(step) == fstep' = step /\ UNCHANGED <<flusher, closer>>

FlushBegin ==
  /\ fstep = "begin"
  /\ \/ /\ ~enabled \/ (consumed = claimed /\ ~final)
        /\ Return /\ UNCHANGED coreVars
     \/ /\ enabled /\ (consumed # claimed \/ final)
        /\ BeginScan /\ Proceed("fopen")
  /\ UNCHANGED <<fileVars, flushKeeps>>

FlushOpen ==
  /\ fstep = "fopen"
  /\ batch' = Len(log)
  /\ Proceed("scan")
  /\ UNCHANGED <<coreVars, disk, footer, sidecar, faults, flushKeeps>>

\* The rows stay in the ring for the next flush, if there is one.
FlushOpenFails ==
  /\ fstep = "fopen" /\ faults < MaxFaults
  /\ AbandonScan
  /\ faults' = faults + 1
  /\ Return
  /\ UNCHANGED <<batch, disk, footer, sidecar, flushKeeps>>

FlushScan ==
  /\ fstep = "scan"
  /\ ScanStep
  /\ Proceed(IF scan' # "idle" THEN "scan" ELSE IF final THEN "account" ELSE "fclose")
  /\ UNCHANGED <<fileVars, flushKeeps>>

WriteFooter ==
  /\ fstep = "account"
  /\ footer' = [rows |-> Len(log), overflow |-> overflow]
  /\ sidecar' = (sidecar \/ overflow # 0)
  /\ Proceed("fclose")
  /\ UNCHANGED <<coreVars, batch, disk, faults, flushKeeps>>

FlushClose ==
  /\ fstep = "fclose"
  /\ disk' = disk \o SubSeq(log, batch + 1, Len(log))
  /\ Return
  /\ UNCHANGED <<coreVars, batch, footer, sidecar, faults, flushKeeps>>

\* The buffered rows are written only up to the k-th, and nobody notices.
FlushCloseFails ==
  /\ fstep = "fclose" /\ faults < MaxFaults
  /\ \E k \in batch .. Len(log) : disk' = disk \o SubSeq(log, batch + 1, k)
  /\ footer' = NoFooter
  /\ faults' = faults + 1
  /\ Return
  /\ UNCHANGED <<coreVars, batch, sidecar, flushKeeps>>

FlushStep ==
  \/ FlushBegin \/ FlushOpen \/ FlushOpenFails \/ FlushScan
  \/ WriteFooter \/ FlushClose \/ FlushCloseFails

-----------------------------------------------------------------------------
(* flush_loop and shutdown                                                  *)

threadKeeps == <<coreVars, enabled, gate, stopped, fileVars>>

TestRunning ==
  /\ flusher = "test"
  /\ flusher' = IF running THEN "asleep" ELSE "exited"
  /\ UNCHANGED <<threadKeeps, active, running, closed, closer, orderly, fstep, final>>

Wake ==
  /\ flusher = "asleep" /\ flusher' = "flushing"
  /\ fstep' = "begin" /\ final' = FALSE
  /\ UNCHANGED <<threadKeeps, active, running, closed, closer, orderly>>

\* active.exchange(false); the destructor's second call returns here.
CallShutdown ==
  /\ closer = "up" /\ closer' = "stopping"
  /\ active' = FALSE
  /\ orderly' = (stopped = Producers)
  /\ UNCHANGED <<threadKeeps, running, closed, flusher, fstep, final>>

\* Joining a flusher that was never told to stop.
StopFlusher_Forgets ==
  /\ closer = "stopping" /\ closer' = "joining"
  /\ UNCHANGED <<threadKeeps, running, active, closed, flusher, orderly, fstep, final>>

StopFlusher ==
  /\ closer = "stopping" /\ closer' = "joining"
  /\ running' = FALSE
  /\ UNCHANGED <<threadKeeps, active, closed, flusher, orderly, fstep, final>>

Join ==
  /\ closer = "joining" /\ flusher = "exited" /\ closer' = "closing"
  /\ UNCHANGED <<threadKeeps, active, running, closed, flusher, orderly, fstep, final>>

\* close: closed.exchange(true), flush(true)
CloseRing ==
  /\ closer = "closing"
  /\ \/ ~enabled /\ closer' = "down" /\ UNCHANGED <<closed, fstep, final>>
     \/ /\ enabled
        /\ closed' = TRUE
        /\ closer' = "flushing" /\ fstep' = "begin" /\ final' = TRUE
  /\ UNCHANGED <<threadKeeps, active, running, flusher, orderly>>

-----------------------------------------------------------------------------
ProducerNext(p) == CheckActive(p) \/ CheckClosed(p) \/ WriteOn(p) \/ StopProducer(p)
FlusherNext == TestRunning \/ Wake
ShutdownNext == CallShutdown \/ StopFlusher \/ Join \/ CloseRing

GnbNext ==
  \/ \E p \in Producers : ProducerNext(p)
  \/ FlushStep
  \/ FlusherNext
  \/ ShutdownNext

GnbSpec == GnbInit /\ [][GnbNext]_gnbVars

(* The flusher has the lowest priority but runs, and so does the main       *)
(* thread once it has called shutdown.  Nothing is assumed of the others.   *)
GnbFairness ==
  /\ WF_gnbVars(FlushStep) /\ WF_gnbVars(FlusherNext)
  /\ WF_gnbVars(StopFlusher \/ Join \/ CloseRing)

FairGnbSpec == GnbSpec /\ GnbFairness

-----------------------------------------------------------------------------
(* Properties                                                               *)

(* The file, `written` and the slots being read belong to one flush at a    *)
(* time: the flusher thread is gone when shutdown flushes.                  *)
OneFlush ==
  /\ ~(flusher = "flushing" /\ closer = "flushing")
  /\ fstep # "none" <=> flusher = "flushing" \/ closer = "flushing"

(* What a reader can rely on when the RAN threads ended before shutdown     *)
(* (the scope guard at the top of main): a file with as many rows as its    *)
(* footer says has every row that was not counted as overflow, in order,    *)
(* although failed file operations leave no mark.                           *)
FooterTellsAll ==
  closer = "down" /\ orderly /\ Len(disk) = footer.rows =>
    disk = claimLog /\ footer.rows + footer.overflow = Offered

(* If threads go on during shutdown, rows may be missing at the end of such *)
(* a file and nowhere else.                                                *)
OnlyTailMissing ==
  closer = "down" /\ Len(disk) = footer.rows =>
    Len(disk) <= Len(claimLog) /\ disk = SubSeq(claimLog, 1, Len(disk))

(* shutdown returns, wherever RAN threads are stalled inside write.         *)
ShutdownReturns == closer = "stopping" ~> closer = "down"

-----------------------------------------------------------------------------
(* The inductive invariant of the shutdown protocol, beside that of         *)
(* RingCore.                                                               *)

GnbTypeOK ==
  /\ final \in BOOLEAN /\ batch \in Nat
  /\ gate \subseteq Producers /\ stopped \subseteq Producers
  /\ closer \in {"up", "stopping", "joining", "closing", "flushing", "down"}
  /\ fstep \in {"none", "begin", "fopen", "scan", "account", "fclose"}
  /\ disk \in Seq(Row \cup {NoRow})

(* shutdown is past its join only when the flusher is gone for good, and a  *)
(* flush is under way just while one of the two has called it.              *)
FlushHandOver ==
  /\ fstep # "none" <=> flusher = "flushing" \/ closer = "flushing"
  /\ closer \in {"closing", "flushing", "down"} => flusher = "exited"

\* Stopped threads are outside every emitter, and an orderly shutdown finds
\* all stopped.  A last flush, or a file at all, is of an enabled ring.
ShutdownInOrder ==
  /\ active <=> closer = "up"
  /\ closed => closer \in {"flushing", "down"}
  /\ final => closer \in {"flushing", "down"}
  /\ closer = "flushing" => final
  /\ orderly => closer # "up" /\ stopped = Producers
  /\ \A p \in stopped : pc[p] = "idle" /\ p \notin gate
  /\ fstep \in {"fopen", "scan", "account", "fclose"} => enabled

\* The scan runs within flush, between fopen and what follows the loop.
ScanInFlush ==
  /\ fstep \in {"none", "begin", "account", "fclose"} => scan = "idle"
  /\ fstep = "fopen" => scan = "test"
  /\ fstep = "scan" => scan # "idle"
  /\ fstep = "account" => final

\* Rows formatted before the batch that is open.
Handed == IF fstep \in {"scan", "account", "fclose"} THEN batch ELSE Len(log)

\* A failed operation loses rows and never adds one, so a file with as many
\* rows as were handed to it has all of them.
DiskCountTells ==
  /\ Handed <= Len(log)
  /\ Len(disk) <= Handed
  /\ Len(disk) = Handed => \A k \in 1 .. Len(disk) : disk[k] = log[k]

\* After an orderly shutdown the last scan starts with all there will ever be
\* and finds all of it published; no row is logged after a footer.
LastFlushSeesAll ==
  /\ orderly /\ final /\ fstep \in {"fopen", "scan", "account", "fclose"} =>
       end = claimed
  /\ orderly /\ final /\ fstep \in {"account", "fclose"} => m = end
  /\ footer # NoFooter =>
       /\ closer = "down" \/ (closer = "flushing" /\ fstep = "fclose")
       /\ enabled /\ footer.rows = Len(log)
       /\ orderly => footer.overflow = overflow /\ Len(log) = Len(claimLog)

\* Nobody is turned away before shutdown, nor after an orderly one.
NoneTurnedAway == enabled /\ (closer = "up" \/ orderly) => Refused = 0

ShutdownInv ==
  /\ GnbTypeOK /\ FlushHandOver /\ ShutdownInOrder /\ ScanInFlush
  /\ DiskCountTells /\ LastFlushSeesAll /\ NoneTurnedAway

-----------------------------------------------------------------------------
(* What the repository says and the code does not always do                 *)

(* docs/TRACE_SCHEMA.md line 76: a file is incomplete if it has a           *)
(* sidecar "(ring overflow, write failure)", and verify_run.py passes one   *)
(* that has a footer and no sidecar.                                       *)
NoSidecarMeansComplete ==
  closer = "down" /\ orderly /\ footer # NoFooter /\ ~sidecar => disk = claimLog
=============================================================================
