---------------------------- MODULE GstReceiver ----------------------------
(***************************************************************************)
(* The gstreamer receiver (gstreamer/apps/receiver/video_receiver.cc): its  *)
(* control thread, the udpsrc thread that logs and counts packets, the      *)
(* jitter buffer's thread that looks frames up and logs them, the RTCP      *)
(* thread that learns where reports go, and the main thread that closes.    *)
(* The arrival ring is ArrivalRing; here it is decided who writes and       *)
(* looks up what, and when.                                                 *)
(*                                                                         *)
(* GStreamer is external: rtpbin adds a pad for every SSRC and hands on     *)
(* each source's frames in order, whole or not, some time after a packet of *)
(* theirs came; set_state(NULL) returns when no streaming thread is inside  *)
(* the pipeline.  An earlier sender may still be sending to the port; the   *)
(* announced one starts after the stream-ack (module ControlPlane).         *)
(***************************************************************************)
EXTENDS ArrivalRing

CONSTANTS Ours, Foreign,  \* SSRCs: the announced sender's, an earlier one's
          NoSource,
          Packets,        \* packets of a frame
          Reorder,        \* frames by which the network may reorder packets
          MaxStrays       \* bound: packets of the earlier sender

Sources == {Ours, Foreign}

ASSUME GstAssumption ==
  /\ Packets \in Nat \ {0} /\ MaxStrays \in Nat
  /\ NoSource \notin Sources /\ Ours # Foreign
  /\ Reorder \in Nat /\ Reorder < Ring   \* no packet is a whole ring late

VARIABLES
  ctl,      \* control thread: the statement of OnMessage it has come to
  acked,    \* stream-ack was sent
  traces,   \* "none", "open", "closed"
  rtpOn, framesOn,    \* rtp_p_ and frames_p_ are set
  ssrc,     \* ssrc_
  reports,  \* where RTCP reports go: "nowhere", "told", "learned"
  linked,   \* the source linked to the depayloader, or NoSource
  came,     \* came[f]: packets of frame f of Ours that came in
  strays,
  newest,   \* newest frame of Ours so far
  waiting,  \* frames of the linked source that the jitter buffer holds
  next,     \* no earlier frame leaves the jitter buffer any more
  au,       \* the frame between depayloader and sink, or NoFrame
  main,     \* main thread in Shutdown
  \* history
  packetRows, \* rows of Ours in rx-rtp
  frameRows,  \* rows in rx-frames, each with the summary it carries
  times,      \* times[f]: when the packets of f were counted
  floor,      \* packets of `au` counted before its lookup began
  excuse,     \* a write to the slot came in the way of that lookup
  sr          \* a sender report of Ours was handled

ctlVars == <<ctl, acked, traces, rtpOn, framesOn, ssrc>>
rtcpVars == <<reports, sr>>
udpVars == <<linked, came, strays, newest, packetRows, times>>
outVars == <<next, au, frameRows, floor>>
gstVars == <<ringVars, ctlVars, rtcpVars, udpVars, waiting, outVars, excuse, main>>

GstInit ==
  /\ RingInit
  /\ ctl = "idle" /\ acked = FALSE /\ traces = "none"
  /\ rtpOn = FALSE /\ framesOn = FALSE /\ ssrc = NoSource
  /\ reports = "nowhere" /\ sr = FALSE
  /\ linked = NoSource
  /\ came = [f \in Frames |-> 0] /\ strays = 0 /\ newest = NoFrame
  /\ waiting = {} /\ next = 0 /\ au = NoFrame
  /\ main = "running"
  /\ packetRows = 0 /\ frameRows = {} /\ times = [f \in Frames |-> {}]
  /\ floor = 0 /\ excuse = FALSE

-----------------------------------------------------------------------------
(* Control thread: OnMessage of the first stream-start, lines 387-425.  A   *)
(* second stream is refused without touching any of this.                   *)

\* The rings are created ...
OpenTraces ==
  /\ ctl = "idle" /\ traces = "none" /\ main = "running"
  /\ traces' = "open" /\ ctl' = "opened"
  /\ UNCHANGED <<acked, rtpOn, framesOn, ssrc, reports>>

PublishSsrc ==
  /\ ctl = "opened" /\ ctl' = "known"
  /\ ssrc' = Ours
  /\ UNCHANGED <<acked, traces, rtpOn, framesOn, reports>>

\* ... and then shown to the streaming threads.
PublishRtp ==
  /\ ctl = "known" /\ ctl' = "logging"
  /\ rtpOn' = TRUE
  /\ UNCHANGED <<acked, traces, framesOn, ssrc, reports>>

PublishFrames ==
  /\ ctl = "logging" /\ ctl' = "published"
  /\ framesOn' = TRUE
  /\ UNCHANGED <<acked, traces, rtpOn, ssrc, reports>>

\* Reports go to the announced address until RTCP comes in.
TellReports ==
  /\ ctl = "published" /\ ctl' = "told"
  /\ reports' = "told"
  /\ UNCHANGED <<acked, traces, rtpOn, framesOn, ssrc>>

\* Acknowledging as soon as the SSRC is known.
SendAck_Early ==
  /\ ctl \in {"known", "told"}
  /\ ctl' = IF ctl = "told" THEN "idle" ELSE ctl
  /\ acked' = TRUE
  /\ UNCHANGED <<traces, rtpOn, framesOn, ssrc, reports>>

SendAck ==
  /\ ctl = "told" /\ ctl' = "idle"
  /\ acked' = TRUE
  /\ UNCHANGED <<traces, rtpOn, framesOn, ssrc, reports>>

CtlStep ==
  /\ \/ OpenTraces \/ PublishSsrc \/ PublishRtp \/ PublishFrames
     \/ TellReports \/ SendAck
  /\ UNCHANGED <<ringVars, sr, udpVars, waiting, outVars, excuse, main>>

-----------------------------------------------------------------------------
(* udpsrc thread: OnRtpIn, then rtpbin with OnPadAdded                      *)

Flowing == main \in {"running", "ctlStopped"}

\* The first source to come is linked, any other goes to a fakesink.
Link(src) == linked' = IF linked = NoSource THEN src ELSE linked

\* A packet of the announced stream is logged and counted.
Receive(f) ==
  /\ Flowing /\ acked /\ writing = NoSlot
  /\ came[f] < Packets /\ f >= newest - Reorder
  /\ came' = [came EXCEPT ![f] = @ + 1]
  /\ newest' = IF f > newest THEN f ELSE newest
  /\ packetRows' = packetRows + (IF rtpOn /\ traces = "open" THEN 1 ELSE 0)
  /\ IF ssrc = Ours
       THEN /\ BeginWrite(f)
            /\ times' = [times EXCEPT ![f] = @ \cup {clock + 1}]
            /\ excuse' = (excuse \/ (step # "idle" /\ Slot(want) = Slot(f)))
       ELSE UNCHANGED <<ringVars, times, excuse>>
  /\ Link(Ours)
  /\ waiting' = IF linked' = Ours THEN waiting \cup {f} ELSE waiting
  /\ UNCHANGED <<ctlVars, rtcpVars, strays, outVars, main>>

\* A packet of a sender that was not announced: not counted.
ReceiveStray(f) ==
  /\ Flowing /\ writing = NoSlot /\ strays < MaxStrays
  /\ strays' = strays + 1
  /\ Link(Foreign)
  /\ waiting' = IF linked' = Foreign THEN waiting \cup {f} ELSE waiting
  /\ UNCHANGED <<ringVars, ctlVars, rtcpVars, came, newest, packetRows, times,
                 outVars, excuse, main>>

-----------------------------------------------------------------------------
(* Jitter buffer's thread: OnDepayOut, decoder, OnFrame                     *)

\* A frame leaves the depayloader and is looked up.
DepayOut(f) ==
  /\ Flowing /\ au = NoFrame /\ f \in waiting /\ f >= next
  /\ waiting' = {g \in waiting : g > f} /\ next' = f + 1 /\ au' = f
  /\ Lookup(f)
  /\ floor' = Cardinality(times[f]) /\ excuse' = (writing = Slot(f))
  /\ UNCHANGED <<ctlVars, rtcpVars, udpVars, frameRows, main>>

\* The decoded frame reaches the sink.
OnFrame ==
  /\ Flowing /\ au # NoFrame /\ step = "idle"
  /\ frameRows' = IF framesOn /\ traces = "open"
       THEN frameRows \cup {[src |-> linked, frame |-> au, sum |-> found,
                             floor |-> floor,
                             excuse |-> excuse \/ newest >= au + Ring]}
       ELSE frameRows
  /\ au' = NoFrame /\ floor' = 0 /\ excuse' = FALSE
  /\ UNCHANGED <<ringVars, ctlVars, rtcpVars, udpVars, waiting, next, main>>

ProbeStep ==
  /\ WriteStep \/ LookupStep
  /\ UNCHANGED <<ctlVars, rtcpVars, udpVars, waiting, outVars, excuse, main>>

(* RTCP thread: the first report of the announced SSRC decides where ours   *)
(* go; later ones from there change nothing.                               *)
OnRtcpIn ==
  /\ Flowing /\ acked /\ ssrc = Ours /\ ~sr
  /\ reports' = "learned" /\ sr' = TRUE
  /\ UNCHANGED <<ringVars, ctlVars, udpVars, waiting, outVars, excuse, main>>

-----------------------------------------------------------------------------
(* Main thread: Shutdown, lines 96-106                                      *)

\* ctl_.Stop joins the control thread.
StopControl ==
  /\ main = "running" /\ ctl = "idle"
  /\ main' = "ctlStopped"
  /\ UNCHANGED traces

\* set_state(NULL) returns when no streaming thread is inside a probe.
SetNull ==
  /\ main = "ctlStopped" /\ writing = NoSlot /\ step = "idle" /\ au = NoFrame
  /\ main' = "null"
  /\ UNCHANGED traces

CloseTraces ==
  /\ main = "null" /\ main' = "closed"
  /\ traces' = IF traces = "open" THEN "closed" ELSE traces

MainStep ==
  /\ StopControl \/ SetNull \/ CloseTraces
  /\ UNCHANGED <<ringVars, ctl, acked, rtpOn, framesOn, ssrc, rtcpVars, udpVars,
                 waiting, outVars, excuse>>

GstNext ==
  \/ CtlStep \/ ProbeStep \/ OnFrame \/ OnRtcpIn \/ MainStep
  \/ \E f \in Frames : Receive(f) \/ ReceiveStray(f) \/ DepayOut(f)

GstSpec == GstInit /\ [][GstNext]_gstVars

-----------------------------------------------------------------------------
(* Properties                                                               *)

\* A summary of all packets up to its last arrival, of those that came ...
WholeOf(e, mine) ==
  /\ {e.first, e.last} \subseteq mine
  /\ \A t \in mine : e.first <= t
  /\ e.n = Cardinality({t \in mine : t <= e.last})

\* ... for its own frame.
Whole(e) == WholeOf(e, times[e.key])

(* The packet statistics of a row in rx-frames are those of its own frame   *)
(* and of a prefix of its packets: the first arrival is the first packet's, *)
(* the count is that of the packets up to the last arrival, and none that   *)
(* had been counted before the lookup is missing, however slots are reused  *)
(* and packets come late (docs/TRACE_SCHEMA.md: num_packets,                *)
(* first_pkt_mono_ns, last_pkt_mono_ns of rx-frames).                       *)
ReportsAreWhole ==
  \A row \in frameRows : row.sum # NoEntry =>
    row.sum.key = row.frame /\ Whole(row.sum) /\ row.sum.n >= row.floor

(* A frame of the announced stream goes without statistics only if a packet *)
(* was being counted in its slot during the lookup, or frames a whole ring  *)
(* later had come before it was decoded (lines 260-263).                    *)
UnknownHasReason ==
  \A row \in frameRows :
    row.src = Ours /\ row.sum = NoEntry => row.excuse

(* The stream-ack means what the sender takes it for (comment at line 423): *)
(* from the first packet on every packet is logged and counted, to the      *)
(* closing of the traces, and the address learned from the sender's RTCP is *)
(* not replaced by the announced one.                                      *)
AckMeansReady ==
  /\ packetRows = clock
  /\ \A f \in Frames : Cardinality(times[f]) = came[f]
  /\ sr => reports = "learned"

-----------------------------------------------------------------------------
(* What the source says and the code does not always do                     *)

(* Lines 12-13: "a second SSRC on the port is logged and discarded, never   *)
(* mixed into the traces".  It is the first to come that is decoded.        *)
SecondSourceKeptOut == \A row \in frameRows : row.src = Ours

-----------------------------------------------------------------------------
(* Inductive invariants.                                                    *)

\* The statements of OnMessage come in order; the ack is the last.
AckIsLast ==
  /\ ctl \in {"idle", "opened", "known", "logging", "published", "told"}
  /\ traces \in {"none", "open", "closed"}
  /\ ctl # "idle" => ~acked /\ traces # "none"
  /\ ctl \in {"known", "logging", "published", "told"} => ssrc = Ours
  /\ ctl \in {"logging", "published", "told"} => rtpOn
  /\ acked => ssrc = Ours /\ rtpOn /\ traces # "none"
  /\ traces = "closed" => main = "closed"
  /\ sr => acked /\ reports = "learned"

\* Every packet is one row and one more arrival of its frame.
PacketsCounted ==
  /\ clock \in Nat /\ packetRows = clock
  /\ came \in [Frames -> Nat] /\ times \in [Frames -> SUBSET Nat]
  /\ \A f \in Frames :
       /\ IsFiniteSet(times[f]) /\ Cardinality(times[f]) = came[f]
       /\ \A t \in times[f] : t <= clock

AckInv == AckIsLast /\ PacketsCounted

\* What the udpsrc thread has made of a slot, or is making of it.
Summary(s) == IF writing = s THEN new ELSE stable[s]

\* A slot belongs to the newest of its frames and counts all its packets.
SlotIsNewest ==
  /\ newest \in Frames \cup {NoFrame}
  /\ \A f \in Frames : times[f] # {} =>
       f <= newest /\ f <= Summary(Slot(f)).key
  /\ \A s \in Slots : LET e == Summary(s) IN e.key # NoFrame =>
       Slot(e.key) = s /\ Whole(e) /\ \A t \in times[e.key] : t <= e.last

\* What the lookup for `au` is about, and what it may have found.
LookedUp ==
  /\ au \in Frames \cup {NoFrame} /\ waiting \subseteq Frames /\ floor \in Nat
  /\ step # "idle" => want = au /\ au # NoFrame
  /\ au # NoFrame /\ step # "idle" => floor <= Cardinality(times[au])
  /\ au # NoFrame /\ step = "idle" /\ found # NoEntry =>
       found.key = au /\ Whole(found) /\ found.n >= floor
  /\ \A row \in frameRows : row.frame \in Frames /\ row.sum \in Entries

\* A lookup nobody wrote in the way of sees its slot at rest, and misses its
\* frame only when a newer one has taken the slot.
NobodyInTheWay ==
  /\ linked = NoSource => waiting = {} /\ au = NoFrame
  /\ linked = Ours =>
       \A f \in waiting \cup ({au} \ {NoFrame}) : times[f] # {}
  /\ step # "idle" /\ ~excuse =>
       writing # Slot(want) /\ (step = "load" => s0 = seq[Slot(want)])
  /\ linked = Ours /\ au # NoFrame /\ step = "idle" /\ found = NoEntry =>
       excuse \/ newest >= au + Ring

ReportsInv ==
  /\ AckInv /\ SlotIsNewest /\ LookedUp /\ NobodyInTheWay
  /\ ReportsAreWhole /\ UnknownHasReason
=============================================================================
