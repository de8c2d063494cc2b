----------------------------- MODULE GstSender -----------------------------
(***************************************************************************)
(* The gstreamer sender: the capture grid of gstreamer/apps/common/         *)
(* video_source.h, which pushes frames into appsrc, the streaming threads    *)
(* that log them on their way out, and Shutdown of gstreamer/apps/sender/   *)
(* video_sender.cc, which drains the pipeline by watching what has come out *)
(* of it.                                                                   *)
(*                                                                         *)
(* GStreamer is external.  appsrc holds QMax frames and blocks the pusher   *)
(* when it is full, until end-of-stream or flushing; encoder, payloader and *)
(* sink are one thread ("profile"), or rtpgccbwe paces packets out on its   *)
(* own thread and forwards EOS past its queue ("gcc").  Nothing says that   *)
(* the encoder ever finishes a frame: no fairness is assumed of it.  A      *)
(* frame stands for its packets, the last of which carries the marker.      *)
(* Time is counted in slots of the grid; rtp_ts is the slot.                *)
(***************************************************************************)
EXTENDS Integers, Sequences, SequencesExt

CONSTANTS Modes,    \* values of --cc
          QMax,     \* frames appsrc holds (max-bytes / frame_bytes)
          MaxNow    \* bound: slots that pass before the run is stopped

ASSUME GstSenderAssumption ==
  Modes \subseteq {"profile", "gcc"} /\ QMax \in Nat \ {0} /\ MaxNow \in Nat

VARIABLES
  cc,         \* --cc
  ctl,        \* control thread
  started,    \* started_
  now,        \* the slot that has come
  running, loopDone,  \* running_, loop_done_
  grid,       \* grid thread in Loop
  slot,       \* next slot
  resume,     \* the time Loop last read
  pushed,     \* last_pushed_ts_
  rows,       \* tx-frames
  queue,      \* in appsrc
  eos,        \* appsrc was told end-of-stream
  flushing,   \* the pipeline leaves PLAYING
  enc,        \* frame in the encoder, or none (0)
  wire,       \* frames between encoder and udpsink
  encoded,    \* tx-encoded; its last is last_encoded_ts_
  sent,       \* markers in tx-rtp; the last is last_sent_ts_
  eosSeen,    \* eos_seen_
  main,       \* main thread in Shutdown
  target,     \* last_pushed
  warned,     \* warnings logged
  drained,    \* EOS was seen while Shutdown waited for it
  traces      \* "open" or "closed"

ctlVars == <<ctl, started>>
gridVars == <<running, loopDone, grid, slot, resume, pushed, rows>>
pipeVars == <<queue, eos, flushing, enc, wire, encoded, sent, eosSeen>>
mainVars == <<main, target, warned, drained, traces>>
sendVars == <<cc, now, ctlVars, gridVars, pipeVars, mainVars>>

SendInit ==
  /\ cc \in Modes
  /\ ctl = "idle" /\ started = FALSE
  /\ now = 0
  /\ running = FALSE /\ loopDone = FALSE /\ grid = "none"
  /\ slot = 0 /\ resume = 0 /\ pushed = 0 /\ rows = <<>>
  /\ queue = <<>> /\ eos = FALSE /\ flushing = FALSE
  /\ enc = 0 /\ wire = <<>> /\ encoded = <<>> /\ sent = <<>> /\ eosSeen = FALSE
  /\ main = "running" /\ target = 0 /\ warned = {} /\ drained = FALSE
  /\ traces = "open"

\* The atomics the drain compares: 0 before the first frame.
LastOf(s) == IF s = <<>> THEN 0 ELSE Last(s)
lastEncoded == LastOf(encoded)
lastSent == LastOf(sent)

-----------------------------------------------------------------------------
(* Control thread: OnMessage.  receiver-ready and what it answers are in    *)
(* ControlPlane; a profile touches the bitrate alone.                       *)

ReceiverReady ==
  /\ ctl = "idle" /\ main = "running" /\ ~started
  /\ ctl' = "awaiting" /\ UNCHANGED <<started, running, grid, slot>>

\* stream-ack: the pipeline goes to PLAYING ...
StreamAck ==
  /\ ctl = "awaiting" /\ main = "running"
  /\ ctl' = "playing" /\ UNCHANGED <<started, running, grid, slot>>

\* ... then the grid is started ...
StartGrid ==
  /\ ctl = "playing" /\ ctl' = "starting"
  /\ running' = TRUE /\ grid' = "test" /\ slot' = now + 1
  /\ UNCHANGED started

\* ... and only then started_ set.
SetStarted ==
  /\ ctl = "starting" /\ ctl' = "idle"
  /\ started' = TRUE /\ UNCHANGED <<running, grid, slot>>

CtlStep ==
  /\ ReceiverReady \/ StreamAck \/ StartGrid \/ SetStarted
  /\ UNCHANGED <<cc, now, loopDone, resume, pushed, rows, pipeVars, mainVars>>

-----------------------------------------------------------------------------
(* Grid thread: Loop                                                        *)

Row(s, ok) == rows' = Append(rows, [slot |-> s, ok |-> ok])

LoopTest ==
  /\ grid = "test"
  /\ \/ running /\ slot <= MaxNow /\ grid' = "sleep"
     \/ ~running /\ grid' = "stopped"
  /\ UNCHANGED <<running, loopDone, slot, resume, pushed, rows, queue>>

Wake ==
  /\ grid = "sleep" /\ now >= slot
  /\ resume' = now
  /\ grid' = IF now >= slot + 1 THEN "behind" ELSE "push"
  /\ UNCHANGED <<running, loopDone, slot, pushed, rows, queue>>

\* Realigning without a row for what was missed.
EmitMissed_Silent ==
  /\ grid = "behind" /\ grid' = "push"
  /\ slot' = IF running THEN resume ELSE slot
  /\ UNCHANGED <<running, loopDone, resume, pushed, rows, queue>>

\* A row for each slot missed, as long as nobody stops the grid.
EmitMissed ==
  /\ grid = "behind"
  /\ IF slot < resume /\ running
       THEN Row(slot, FALSE) /\ slot' = slot + 1 /\ UNCHANGED grid
       ELSE grid' = "push" /\ UNCHANGED <<slot, rows>>
  /\ UNCHANGED <<running, loopDone, resume, pushed, queue>>

\* gst_app_src_push_buffer blocks on a full queue.
Push ==
  /\ grid = "push"
  /\ \/ (eos \/ flushing) /\ grid' = "refused" /\ UNCHANGED queue
     \/ /\ ~(eos \/ flushing) /\ Len(queue) < QMax
        /\ grid' = "accepted" /\ queue' = Append(queue, slot)
  /\ UNCHANGED <<running, loopDone, slot, resume, pushed, rows>>

EmitRow ==
  /\ grid \in {"accepted", "refused"}
  /\ pushed' = IF grid = "accepted" THEN slot ELSE pushed
  /\ Row(slot, grid = "accepted")
  /\ slot' = slot + 1 /\ grid' = "test"
  /\ UNCHANGED <<running, loopDone, resume, queue>>

\* After the loop: the slots that passed during the last push.
ReadTail ==
  /\ grid = "stopped" /\ grid' = "tail" /\ resume' = now
  /\ UNCHANGED <<running, loopDone, slot, pushed, rows, queue>>

EmitTail ==
  /\ grid = "tail"
  /\ IF slot + 1 <= resume
       THEN Row(slot, FALSE) /\ slot' = slot + 1 /\ UNCHANGED <<grid, loopDone>>
       ELSE grid' = "done" /\ loopDone' = TRUE /\ UNCHANGED <<slot, rows>>
  /\ UNCHANGED <<running, resume, pushed, queue>>

GridStep ==
  /\ \/ LoopTest \/ Wake \/ EmitMissed \/ Push \/ EmitRow
     \/ ReadTail \/ EmitTail
  /\ UNCHANGED <<cc, now, ctlVars, mainVars, eos, flushing, enc, wire, encoded,
                 sent, eosSeen>>

Tick ==
  /\ now < MaxNow /\ now' = now + 1
  /\ UNCHANGED <<cc, ctlVars, gridVars, pipeVars, mainVars>>

-----------------------------------------------------------------------------
(* Streaming threads                                                        *)

EncTake ==
  /\ enc = 0 /\ queue # <<>> /\ ~flushing
  /\ cc = "profile" => wire = <<>>
  /\ enc' = Head(queue) /\ queue' = Tail(queue)
  /\ UNCHANGED <<eos, flushing, wire, encoded, sent, eosSeen>>

OnEncoded ==
  /\ enc # 0 /\ enc' = 0
  /\ encoded' = Append(encoded, enc) /\ wire' = Append(wire, enc)
  /\ UNCHANGED <<queue, eos, flushing, sent, eosSeen>>

OnRtpOut ==
  /\ wire # <<>>
  /\ sent' = Append(sent, Head(wire)) /\ wire' = Tail(wire)
  /\ UNCHANGED <<queue, eos, flushing, enc, encoded, eosSeen>>

\* EOS follows the last frame to the sinks; rtpgccbwe lets it overtake.
EosOut ==
  /\ eos /\ ~eosSeen /\ ~flushing /\ queue = <<>> /\ enc = 0
  /\ cc = "profile" => wire = <<>>
  /\ eosSeen' = TRUE /\ wire' = <<>>
  /\ UNCHANGED <<queue, eos, flushing, enc, encoded, sent>>

\* Pads that flush drop what comes.
FlushOut ==
  /\ flushing /\ (enc # 0 \/ wire # <<>>)
  /\ enc' = 0 /\ wire' = <<>>
  /\ UNCHANGED <<queue, eos, flushing, encoded, sent, eosSeen>>

PipeStep ==
  /\ EncTake \/ OnEncoded \/ OnRtpOut \/ EosOut \/ FlushOut
  /\ UNCHANGED <<cc, now, ctlVars, gridVars, mainVars>>

-----------------------------------------------------------------------------
(* Main thread: Shutdown, lines 148-189                                     *)

Goto(p) == main' = p /\ UNCHANGED <<target, warned, drained, traces>>

\* A wait that ends in time, or in a warning; then main goes on at p.
WaitFor(ok, warning, p) ==
  /\ main' = p
  /\ warned' = IF ok THEN warned ELSE warned \cup {warning}
  /\ UNCHANGED <<target, drained, traces>>

StopControl ==
  /\ main = "running" /\ ctl \in {"idle", "awaiting"}
  /\ Goto("controlStopped")
  /\ UNCHANGED <<running, eos, flushing>>

RequestStop ==
  /\ main = "controlStopped" /\ Goto("stopping")
  /\ running' = FALSE
  /\ UNCHANGED <<eos, flushing>>

AfterStop == IF started THEN "read" ELSE "flush"

\* Waiting for the grid however long it takes.
WaitStopped_Unbounded ==
  /\ main = "stopping" /\ (loopDone \/ ~started)
  /\ WaitFor(loopDone, "grid", AfterStop)
  /\ UNCHANGED <<running, eos, flushing>>

\* Not waiting for the grid.
WaitStopped_Skipped ==
  /\ main = "stopping"
  /\ Goto(AfterStop)
  /\ UNCHANGED <<running, eos, flushing>>

WaitStopped ==
  /\ main = "stopping"
  /\ WaitFor(loopDone, "grid", AfterStop)
  /\ UNCHANGED <<running, eos, flushing>>

ReadPushed ==
  /\ main = "read" /\ main' = "encoder" /\ target' = pushed
  /\ UNCHANGED <<warned, drained, traces, running, eos, flushing>>

\* A frame that does not come out of the encoder in time has EOS sent.
WaitEncoder ==
  /\ main = "encoder"
  /\ \/ lastEncoded = target /\ Goto("sender") /\ UNCHANGED eos
     \/ /\ lastEncoded # target
        /\ WaitFor(FALSE, "encoder", "eos") /\ eos' = TRUE
  /\ UNCHANGED <<running, flushing>>

WaitEos ==
  /\ main = "eos" /\ main' = "sender" /\ drained' = eosSeen
  /\ UNCHANGED <<target, warned, traces, running, eos, flushing>>

WaitSender ==
  /\ main = "sender"
  /\ WaitFor(lastSent = lastEncoded, "sender", "flush")
  /\ UNCHANGED <<running, eos, flushing>>

SetNull ==
  /\ main = "flush" /\ Goto("null")
  /\ flushing' = TRUE
  /\ UNCHANGED <<running, eos>>

\* set_state returns when the streaming threads are out of the pipeline.
NullDone ==
  /\ main = "null" /\ enc = 0 /\ wire = <<>>
  /\ Goto("join")
  /\ UNCHANGED <<running, eos, flushing>>

\* Going on without the grid thread.
Join_Skipped ==
  /\ main = "join"
  /\ Goto("close")
  /\ UNCHANGED <<running, eos, flushing>>

Join ==
  /\ main = "join" /\ grid \in {"none", "done"}
  /\ Goto("close")
  /\ UNCHANGED <<running, eos, flushing>>

CloseTraces ==
  /\ main = "close" /\ main' = "closed" /\ traces' = "closed"
  /\ UNCHANGED <<target, warned, drained, running, eos, flushing>>

ShutdownStep ==
  /\ \/ RequestStop \/ WaitStopped \/ ReadPushed \/ WaitEncoder \/ WaitEos
     \/ WaitSender \/ SetNull \/ NullDone \/ Join \/ CloseTraces
  /\ UNCHANGED <<cc, now, ctlVars, loopDone, grid, slot, resume, pushed, rows,
                 queue, enc, wire, encoded, sent, eosSeen>>

BeginShutdown ==
  /\ StopControl
  /\ UNCHANGED <<cc, now, ctlVars, loopDone, grid, slot, resume, pushed, rows,
                 queue, enc, wire, encoded, sent, eosSeen>>

SendNext == CtlStep \/ GridStep \/ Tick \/ PipeStep \/ BeginShutdown \/ ShutdownStep

(* The process's own threads and the clock go on; a pipeline that flushes   *)
(* lets go of what it holds.  When the run is stopped, and whether a frame  *)
(* ever leaves the encoder, is left open.                                   *)
SendFairness ==
  /\ WF_sendVars(GridStep) /\ WF_sendVars(Tick) /\ WF_sendVars(ShutdownStep)
  /\ WF_sendVars(FlushOut /\ PipeStep)

SendSpec == SendInit /\ [][SendNext]_sendVars /\ SendFairness

-----------------------------------------------------------------------------
(* Properties                                                               *)

\* The slots whose frames appsrc took, as tx-frames says.
Accepted == {rows[i].slot : i \in {j \in DOMAIN rows : rows[j].ok}}

Increasing(s) == \A i, j \in DOMAIN s : i < j => s[i] < s[j]

(* A shutdown that does not say otherwise has lost nothing: every frame     *)
(* that tx-frames reports as given to the encoder is in tx-encoded and, to  *)
(* its last packet, in tx-rtp (comment at lines 141-147), although only the *)
(* last values are compared.  It says otherwise by the warning about the    *)
(* sender, or by one about grid or encoder without EOS coming through.      *)
DrainComplete ==
  main = "closed" /\ "sender" \notin warned /\ (warned = {} \/ ~started \/ drained)
    => Range(encoded) = Accepted /\ Increasing(encoded) /\ sent = encoded

(* tx-frames has one row per slot from the first to the moment the grid     *)
(* stopped, none left out when a push blocked, when Shutdown came in the    *)
(* middle of catching up, or when end-of-stream released the push; and no   *)
(* frame was captured before its slot.                                     *)
EverySlotOnce ==
  /\ \A i \in DOMAIN rows : rows[i].slot = rows[1].slot + i - 1
  /\ rows # <<>> => slot = Last(rows).slot + 1 /\ Last(rows).slot <= now
  /\ grid = "done" => slot + 1 > resume

(* When the traces are closed nobody writes to them any more.               *)
ClosedIsFinal ==
  [][traces = "closed" => UNCHANGED <<rows, encoded, sent>>]_sendVars

(* Shutdown ends, even if the encoder never gives a frame back and the grid *)
(* is blocked in a push (comment at lines 145-147).                         *)
ShutdownEnds == main = "controlStopped" ~> main = "closed"

-----------------------------------------------------------------------------
(* Inductive invariants.                                                    *)

TxRow == [slot : Nat, ok : BOOLEAN]

SendTypeOK ==
  /\ started \in BOOLEAN /\ running \in BOOLEAN /\ eos \in BOOLEAN
  /\ flushing \in BOOLEAN /\ eosSeen \in BOOLEAN /\ drained \in BOOLEAN
  /\ now \in Nat /\ slot \in Nat /\ resume \in Nat /\ pushed \in Nat
  /\ enc \in Nat /\ target \in Nat
  /\ rows \in Seq(TxRow)
  /\ queue \in Seq(Nat) /\ wire \in Seq(Nat)
  /\ encoded \in Seq(Nat) /\ sent \in Seq(Nat)

\* The grid is started once, by the one accepting ack, and stays started.
StartedOnce ==
  /\ grid = "none" <=> ~(started \/ ctl = "starting")
  /\ ctl \in {"awaiting", "playing", "starting"} => ~started
  /\ grid = "none" =>
       /\ rows = <<>> /\ pushed = 0
       /\ queue = <<>> /\ enc = 0 /\ wire = <<>>
       /\ encoded = <<>> /\ sent = <<>>
  /\ grid # "none" => slot >= 1
  /\ loopDone => grid = "done"

\* The rows are an interval of slots that ends before the next slot ...
OneRowPerSlot ==
  /\ \A i \in DOMAIN rows : rows[i].slot = slot - Len(rows) + i - 1
  /\ slot >= Len(rows)

\* ... and each slot had come when its row was written.
OnTime ==
  /\ rows # <<>> => slot <= now + 1
  /\ grid \in {"behind", "tail", "push", "accepted", "refused"} => resume <= now
  /\ grid \in {"behind", "push", "accepted", "refused"} => slot <= now
  /\ grid = "behind" => slot <= resume
  /\ grid = "done" => slot + 1 > resume

(* The frames between appsrc and encoder output, in the order of the slots. *)
Flow == Range(encoded) \cup (IF enc = 0 THEN {} ELSE {enc}) \cup Range(queue)

\* The frame that appsrc took and tx-frames does not say so yet.
Pending == IF grid = "accepted" THEN {slot} ELSE {}

FlowInOrder ==
  /\ Increasing(encoded) /\ Increasing(queue)
  /\ \A i \in DOMAIN encoded : encoded[i] >= 1 /\ (enc # 0 => encoded[i] < enc)
  /\ \A j \in DOMAIN queue : queue[j] >= 1 /\ enc < queue[j]
  /\ \A i \in DOMAIN encoded, j \in DOMAIN queue : encoded[i] < queue[j]
  /\ \A x \in Flow : x < slot \/ x \in Pending

\* What was sent is the beginning of what was encoded, and the wire goes on
\* from there.
SentIsPrefix ==
  /\ Len(sent) + Len(wire) <= Len(encoded)
  /\ \A i \in 1 .. Len(sent) : sent[i] = encoded[i]
  /\ \A i \in 1 .. Len(wire) : wire[i] = encoded[Len(sent) + i]
  /\ enc # 0 \/ (~flushing /\ ~eosSeen) => Len(sent) + Len(wire) = Len(encoded)

PushedIsLast ==
  /\ \A x \in Accepted : 1 <= x /\ x <= pushed
  /\ pushed \in Accepted \cup {0}

Settled == enc = 0 /\ queue = <<>>

\* End-of-stream gets through when nothing is left behind it to encode.
EosIsLast ==
  /\ eosSeen => eos /\ Settled /\ wire = <<>>
  /\ drained => eosSeen

\* Past the waits of Shutdown, without the warnings that would say so.
PastEncoder ==
  /\ main \in {"sender", "flush", "null", "join", "close", "closed"}
  /\ started /\ (drained \/ warned \subseteq {"sender"})
Clean ==
  /\ main \in {"flush", "null", "join", "close", "closed"}
  /\ started /\ (drained \/ warned = {}) /\ "sender" \notin warned

(* Each wait of Shutdown establishes one fact that lasts: the grid is done, *)
(* the encoder has given back all it got, all of that has been sent.        *)
WaitsInOrder ==
  /\ flushing => main \in {"null", "join", "close", "closed"}
  /\ main # "running" => ctl \in {"idle", "awaiting"}
  /\ main \notin {"running", "controlStopped", "stopping"} /\ started
        /\ "grid" \notin warned => grid = "done"
  /\ main \in {"read", "encoder", "eos", "sender"} => started
  /\ main \in {"encoder", "eos"} /\ "grid" \notin warned => target = pushed
  /\ main = "eos" => "encoder" \in warned
  /\ drained => main \notin {"running", "controlStopped", "stopping", "read",
                            "encoder", "eos"}

EncoderEmptied == PastEncoder => Settled /\ (drained \/ grid = "done")

AllSent == Clean => sent = encoded /\ wire = <<>>

\* No frame is lost in the pipeline, unless it flushes before it is drained.
NoneLost == ~flushing \/ Clean => Flow = Accepted \cup Pending

WaitsTell == WaitsInOrder /\ EncoderEmptied /\ AllSent /\ NoneLost

DrainInv ==
  /\ SendTypeOK /\ StartedOnce /\ OneRowPerSlot /\ OnTime /\ FlowInOrder
  /\ SentIsPrefix /\ PushedIsLast /\ EosIsLast /\ WaitsTell
=============================================================================
