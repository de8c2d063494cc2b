----------------------------- MODULE SenderGrid -----------------------------
(***************************************************************************)
(* The ffmpeg video_sender as a program of four threads                     *)
(* (ffmpeg/apps/sender/video_sender.cc):                                    *)
(*   main   Run, the tick loop, Shutdown                                    *)
(*   rx     ControlClient's receive thread: stream-ack starts the grid, a   *)
(*          profile picks the rung (bit rate) wanted                        *)
(*   grid   GridLoop: one access unit per slot of the capture grid; slots   *)
(*          that a blocked send ran over are recorded as missed             *)
(*   rtcp   RtcpRxLoop                                                      *)
(* The handshake before the ack is in ControlPlane.                         *)
(*                                                                         *)
(* Time is counted from the capture epoch: slot k lasts from k * Interval   *)
(* to (k + 1) * Interval.  It passes at any moment, also inside a send and  *)
(* between two statements, and stops at MaxTime.                            *)
(***************************************************************************)
EXTENDS Integers, Sequences, FiniteSets

CONSTANTS
  Interval,     \* time units per slot
  Frames, Idr,  \* AUs in the source file, and those that are IDRs
  Phase,        \* phase_slots - content_origin
  Rungs,        \* bit rates the file exists in
  Starts,       \* when, on the epoch's clock, the grid thread may start
  MaxTime       \* bound

ASSUME GridAssumption ==
  /\ Interval \in Nat \ {0} /\ Frames \in Nat \ {0}
  /\ Idr \subseteq 0 .. (Frames - 1) /\ Idr # {}
  /\ Phase \in Int /\ Starts \subseteq Int /\ MaxTime \in Nat

VARIABLES
  now,
  main,      \* where the main thread is in Run, the tick loop or Shutdown
  ctlStopped,  \* the control socket is shut down
  rx,        \* "off", "listening", "spawning" (inside OnMessage), "exited"
  running, started,  \* running_, started_
  grid,      \* where GridLoop is
  slot, resume,      \* its locals
  curRung, wantRung,
  rtcp,      \* "off", "receiving", "exited"
  rtcpRunning,
  closed,    \* the traces are closed
  late,      \* rows offered to a closed trace
  \* history
  first,     \* slot the loop began with
  rows,      \* rows of tx-frames
  endedAt    \* time read for the rows after the loop

gridVars == <<grid, slot, resume, curRung, first, rows, endedAt>>
rxVars == <<rx, running, started, wantRung>>
mainVars == <<main, ctlStopped, rtcpRunning, closed>>
vars == <<now, mainVars, rxVars, gridVars, rtcp, late>>

Init ==
  /\ now \in Starts
  /\ main = "connecting" /\ ctlStopped = FALSE
  /\ rx = "off" /\ running = FALSE /\ started = FALSE
  /\ grid = "off" /\ slot = 0 /\ resume = 0
  /\ curRung \in Rungs /\ wantRung = curRung
  /\ rtcp = "off" /\ rtcpRunning = TRUE
  /\ closed = FALSE /\ late = 0
  /\ first = 0 /\ rows = <<>> /\ endedAt = 0

Pass ==
  /\ grid \notin {"off", "exited"} /\ now < MaxTime
  /\ now' = now + 1
  /\ UNCHANGED <<mainVars, rxVars, gridVars, rtcp, late>>

-----------------------------------------------------------------------------
(* Main thread                                                              *)

mainKeeps == <<now, gridVars, rtcp, late>>

\* Connect gives up after its attempts: Run returns false.
ConnectFails ==
  /\ main = "connecting" /\ main' = "failed"
  /\ UNCHANGED <<mainKeeps, ctlStopped, rtcpRunning, closed, rxVars>>

\* Run: the control client's thread, then the RTCP thread.
StartThreads ==
  /\ main = "connecting" /\ main' = "registering"
  /\ rx' = "listening" /\ rtcp' = "receiving"
  /\ UNCHANGED <<now, gridVars, late, ctlStopped, rtcpRunning, closed, running,
                 started, wantRung>>

Registered ==
  /\ main = "registering" /\ main' = "ticking"
  /\ UNCHANGED <<mainKeeps, ctlStopped, rtcpRunning, closed, rxVars>>

\* The connection broke before the registration: Run returns false.
RegisterFails ==
  /\ main = "registering" /\ main' = "failed"
  /\ UNCHANGED <<mainKeeps, ctlStopped, rtcpRunning, closed, rxVars>>

(* main returns 1, which destroys the Sender without Shutdown: ~ControlClient *)
(* joins the control thread, and the destructor of a thread that was started  *)
(* and not joined calls std::terminate.                                      *)
DestroySender ==
  /\ main = "failed"
  /\ main' = IF rtcp = "off" THEN "returned" ELSE "terminated"
  /\ UNCHANGED <<mainKeeps, ctlStopped, rtcpRunning, closed, rxVars>>

\* A signal or the end of --duration: Shutdown, and in it ControlClient::Stop.
StopControl ==
  /\ main = "ticking" /\ main' = "joining rx"
  /\ ctlStopped' = TRUE
  /\ UNCHANGED <<mainKeeps, rtcpRunning, closed, rxVars>>

\* Stopping the grid without waiting for the thread that may start it.
JoinRx_NoWait ==
  /\ main = "joining rx" /\ main' = "joining grid"
  /\ running' = FALSE
  /\ UNCHANGED <<mainKeeps, ctlStopped, rtcpRunning, closed, rx, started, wantRung>>

\* The join in Stop; then running_ = false.
JoinRx ==
  /\ main = "joining rx" /\ rx = "exited" /\ main' = "joining grid"
  /\ running' = FALSE
  /\ UNCHANGED <<mainKeeps, ctlStopped, rtcpRunning, closed, rx, started, wantRung>>

\* grid_.join() if there is a grid thread; then rtcp_rx_running_ = false.
JoinGrid ==
  /\ main = "joining grid" /\ grid \in {"off", "exited"}
  /\ main' = "joining rtcp"
  /\ rtcpRunning' = FALSE
  /\ UNCHANGED <<mainKeeps, ctlStopped, closed, rxVars>>

JoinRtcp ==
  /\ main = "joining rtcp" /\ rtcp = "exited" /\ main' = "trailer"
  /\ UNCHANGED <<mainKeeps, ctlStopped, rtcpRunning, closed, rxVars>>

\* A row for a trace that may be closed.
Offer(n) == late' = IF closed THEN late + n ELSE late

\* av_write_trailer: the RTCP BYE is a row of tx-rtcp.
WriteTrailer ==
  /\ main = "trailer" /\ main' = "closing"
  /\ Offer(1)
  /\ UNCHANGED <<now, gridVars, rtcp, ctlStopped, rtcpRunning, closed, rxVars>>

CloseTraces ==
  /\ main = "closing" /\ main' = "closed"
  /\ closed' = TRUE
  /\ UNCHANGED <<mainKeeps, ctlStopped, rtcpRunning, rxVars>>

\* Shutdown has returned; the Sender is destroyed and main returns 0.
Leave ==
  /\ main = "closed" /\ main' = "returned"
  /\ UNCHANGED <<mainKeeps, ctlStopped, rtcpRunning, closed, rxVars>>

MainNext ==
  \/ ConnectFails \/ StartThreads \/ Registered \/ RegisterFails \/ DestroySender
  \/ StopControl \/ JoinRx \/ JoinGrid \/ JoinRtcp \/ WriteTrailer \/ CloseTraces
  \/ Leave

-----------------------------------------------------------------------------
(* Control and RTCP threads                                                 *)

\* The accepting stream-ack; the grid thread is created a little later.
OnAck ==
  /\ rx = "listening" /\ ~started
  /\ rx' = "spawning" /\ running' = TRUE /\ started' = TRUE
  /\ UNCHANGED <<now, mainVars, gridVars, wantRung, rtcp, late>>

SpawnGrid ==
  /\ rx = "spawning" /\ rx' = "listening"
  /\ grid' = "choosing"
  /\ UNCHANGED <<now, mainVars, running, started, wantRung, slot, resume,
                 curRung, first, rows, endedAt, rtcp, late>>

OnProfile(r) ==
  /\ rx = "listening"
  /\ wantRung' = r
  /\ UNCHANGED <<now, mainVars, gridVars, rx, running, started, rtcp, late>>

\* RecvLoop returns once the socket is shut down, after the lines it has.
RxExits ==
  /\ rx = "listening" /\ ctlStopped
  /\ rx' = "exited"
  /\ UNCHANGED <<now, mainVars, gridVars, running, started, wantRung, rtcp, late>>

RtcpReceives ==
  /\ rtcp = "receiving" /\ rtcpRunning
  /\ Offer(1)
  /\ UNCHANGED <<now, mainVars, rxVars, gridVars, rtcp>>

RtcpExits ==
  /\ rtcp = "receiving" /\ ~rtcpRunning
  /\ rtcp' = "exited"
  /\ UNCHANGED <<now, mainVars, rxVars, gridVars, late>>

-----------------------------------------------------------------------------
(* GridLoop                                                                 *)

FileIdx(s) == (s + Phase) % Frames
IsIdr(s) == FileIdx(s) \in Idr

\* The first IDR slot from s on, as a set of one; IDRs recur every Frames slots.
FirstIdrSlot(s) == {k \in s .. (s + Frames) :
                      IsIdr(k) /\ \A j \in s .. (k - 1) : ~IsIdr(j)}

gridKeeps == <<now, mainVars, rxVars, rtcp>>

\* Lines 324-330: the first IDR slot, or the next one if the epoch is past.
ChooseFirstSlot ==
  /\ grid = "choosing"
  /\ \E s \in FirstIdrSlot(IF now >= Interval THEN now \div Interval + 1 ELSE 0) :
       slot' = s /\ first' = s
  /\ grid' = "sleeping"
  /\ UNCHANGED <<gridKeeps, late, resume, curRung, rows, endedAt>>

\* A sleep that does not look at running_.
SleepEnds_Deaf ==
  /\ grid = "sleeping"
  /\ now >= slot * Interval /\ grid' = IF running THEN "awake" ELSE "leaving"
  /\ UNCHANGED <<gridKeeps, late, slot, resume, curRung, first, rows, endedAt>>

\* The loop's test and SleepUntilMonoUs, which looks at running_ in slices.
SleepEnds ==
  /\ grid = "sleeping"
  /\ \/ ~running /\ grid' = "leaving"
     \/ running /\ now >= slot * Interval /\ grid' = "awake"
  /\ UNCHANGED <<gridKeeps, late, slot, resume, curRung, first, rows, endedAt>>

\* Lines 335-337: is this slot over already?
CheckBehind ==
  /\ grid = "awake"
  /\ \/ now < (slot + 1) * Interval /\ grid' = "sending" /\ UNCHANGED resume
     \/ /\ now >= (slot + 1) * Interval
        /\ resume' = now \div Interval
        /\ grid' = "catching up"
  /\ UNCHANGED <<gridKeeps, late, slot, curRung, first, rows, endedAt>>

Row(sent) == [slot |-> slot, sent |-> sent, rung |-> curRung, at |-> now]

EmitMissed ==
  /\ rows' = Append(rows, Row(FALSE)) /\ slot' = slot + 1
  /\ Offer(1)

CatchUp ==
  /\ grid = "catching up"
  /\ \/ /\ slot < resume /\ running
        /\ EmitMissed
        /\ UNCHANGED grid
     \/ /\ slot >= resume \/ ~running
        /\ grid' = "sending"
        /\ UNCHANGED <<rows, slot, late>>
  /\ UNCHANGED <<gridKeeps, resume, curRung, first, endedAt>>

\* Line 341 and EmitSlot up to the send: a rung switch waits for an IDR.
BeginSend ==
  /\ grid = "sending"
  /\ \/ ~running /\ grid' = "leaving" /\ UNCHANGED curRung
     \/ /\ running
        /\ curRung' = IF IsIdr(slot) THEN wantRung ELSE curRung
        /\ grid' = "in send"
  /\ UNCHANGED <<gridKeeps, late, slot, resume, first, rows, endedAt>>

\* av_write_frame returns, having taken the AU or not; its row; next slot.
EndSend ==
  /\ grid = "in send"
  /\ \E sent \in BOOLEAN : rows' = Append(rows, Row(sent))
  /\ Offer(1)
  /\ slot' = slot + 1
  /\ grid' = "sleeping"
  /\ UNCHANGED <<gridKeeps, resume, curRung, first, endedAt>>

\* Leaving without the slots that passed since the last one handled.
LeaveLoop_Forgets ==
  /\ grid = "leaving"
  /\ endedAt' = now /\ grid' = "exited"
  /\ UNCHANGED <<gridKeeps, late, slot, resume, curRung, first, rows>>

LeaveLoop ==
  /\ grid = "leaving"
  /\ endedAt' = now /\ grid' = "closing rows"
  /\ UNCHANGED <<gridKeeps, late, slot, resume, curRung, first, rows>>

\* Line 346: the slots that were over when the loop ended are missed ones.
RecordTail ==
  /\ grid = "closing rows"
  /\ \/ /\ (slot + 1) * Interval <= endedAt
        /\ EmitMissed
        /\ UNCHANGED grid
     \/ /\ (slot + 1) * Interval > endedAt
        /\ grid' = "exited"
        /\ UNCHANGED <<rows, slot, late>>
  /\ UNCHANGED <<gridKeeps, resume, curRung, first, endedAt>>

GridNext ==
  \/ ChooseFirstSlot \/ SleepEnds \/ CheckBehind \/ CatchUp
  \/ BeginSend \/ EndSend \/ LeaveLoop \/ RecordTail

-----------------------------------------------------------------------------
Ended == main \in {"returned", "terminated"}

RxNext == OnAck \/ SpawnGrid \/ (\E r \in Rungs : OnProfile(r)) \/ RxExits
RtcpNext == RtcpReceives \/ RtcpExits

Next == ~Ended /\ (Pass \/ MainNext \/ RxNext \/ GridNext \/ RtcpNext)

Spec == Init /\ [][Next]_vars

(* Threads that can go on do; the RTCP socket has a receive timeout and the  *)
(* control socket's recv returns after shutdown.  The main thread need not   *)
(* ever stop the run, but once it does it carries on.                       *)
Fairness ==
  /\ WF_vars(~Ended /\ GridNext)
  /\ WF_vars(~Ended /\ SpawnGrid) /\ SF_vars(~Ended /\ RxExits)
  /\ WF_vars(~Ended /\ RtcpExits)
  /\ WF_vars(JoinRx \/ JoinGrid \/ JoinRtcp \/ WriteTrailer \/ CloseTraces \/ Leave)

FairSpec == Spec /\ Fairness

-----------------------------------------------------------------------------
(* Properties                                                               *)

(* The traces are closed after the threads that write them have ended, the   *)
(* condition TraceRing::Close is used under ("Call once after the producers  *)
(* have stopped"), even when the accepting ack arrives during Shutdown; so   *)
(* no row comes late.                                                       *)
ProducersStopFirst ==
  closed => grid \in {"off", "exited"} /\ rx = "exited" /\ rtcp = "exited" /\ late = 0

(* Every slot from the first one on is in tx-frames once, sent or missed, in *)
(* order, none before it began; when the grid has ended, none that was over  *)
(* is missing, however sends blocked and wherever the stop came.            *)
EverySlotHasItsRow ==
  /\ \A i \in DOMAIN rows :
       rows[i].slot = first + i - 1 /\ rows[i].slot * Interval <= rows[i].at
  /\ grid = "exited" => first + Len(rows) >= endedAt \div Interval

(* Shutdown ends: no thread is left waiting in a sleep, a receive or a join. *)
ShutdownEnds == main = "joining rx" ~> main = "returned"

-----------------------------------------------------------------------------
(* What the repository says and the code does not always do                 *)

\* What entered the muxer, in order.
Sent == SelectSeq(rows, LAMBDA r : r.sent)

(* video_sender.cc line 362: the rung is switched "only at an IDR ..., so    *)
(* the decoder never sees a reference gap": of two AUs that leave one after *)
(* the other at different rates, the second is an IDR.                      *)
NoReferenceGap ==
  \A i \in 1 .. (Len(Sent) - 1) :
    Sent[i].rung # Sent[i + 1].rung => IsIdr(Sent[i + 1].slot)

(* video_sender.cc lines 308-309: a sender that starts late "begins at the   *)
(* next IDR slot of its timeline (the decoder needs one)".                  *)
StartsWithIdr == Sent # <<>> => IsIdr(Head(Sent).slot)

(* video_sender.cc line 519: when Run fails the program returns 1.           *)
FailedRunReturns == main # "terminated"
=============================================================================
