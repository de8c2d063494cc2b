---------------------------- MODULE WebRtcSession ----------------------------
(***************************************************************************)
(* The threads of one WebRTC process, sender or receiver                    *)
(* (webrtc/apps/{sender,receiver}/video_*.cc): the main thread with its      *)
(* statistics and Shutdown, the receive thread of signaling_client.h, the   *)
(* signaling thread of libwebrtc on which every call of the peer connection *)
(* runs, the capture thread (sender), and the media threads that write the  *)
(* ledgers of webrtc_tracing.h.                                            *)
(*                                                                         *)
(* Two mutexes, mu_ and the client's tx_mu_, and calls that wait for the    *)
(* signaling thread while mu_ is held.  One trace stands for those of the   *)
(* frames (capture or sink), one for those of the media threads; rows are   *)
(* written in two steps, a writer is at "row" between them.  What a message *)
(* says, and who sends it, is WebRtcCall.                                  *)
(***************************************************************************)
EXTENDS Naturals

CONSTANTS
  Roles,     \* a subset of {"sender", "receiver"}
  MaxMsgs,   \* bound: messages the relay sends
  MaxTicks   \* bound: statistics samples

ASSUME SessionAssumption ==
  Roles \subseteq {"sender", "receiver"} /\ MaxMsgs \in Nat /\ MaxTicks \in Nat

VARIABLES
  role,
  main,      \* where the main thread is
  rx,        \* "recv", "lock", "called", "back", "exit"
  msg,       \* the message rx handles: "opening" (ready or offer), "answer"
  sig,       \* signaling thread: "idle", "send", "remove", "close"
  calls,     \* closures that wait for it
  gathering, \* the SDP: "none", "running", "sent"
  stats,     \* "none", "asked", "there"
  mu, tx,    \* holder of mu_ / tx_mu_, or "none"
  socket,    \* "open", "shut", "closed"
  peer,      \* the connection is in peers_
  pc,        \* "none", "open", "closed"
  capture,   \* "none", "grid", "sleep", "row", "off"
  running,   \* the capturer's running_
  sink,      \* receiver's FrameSink: "none", "on", "off"
  media,     \* media threads: "idle", "row" (ledgers), "frame" (inside the sink)
  frameTrace, mediaTrace,  \* "none", "open", "closed"
  msgs, ticks

mainVars == <<main, ticks>>
rxVars == <<rx, msg, msgs>>
sigVars == <<sig, calls, gathering>>
locks == <<mu, tx, socket>>
mediaVars == <<capture, running, sink, media>>
traces == <<frameTrace, mediaTrace>>
sessionVars == <<role, mainVars, rxVars, sigVars, stats, locks, peer, pc, mediaVars, traces>>

SessionInit ==
  /\ role \in Roles /\ main = "loop" /\ ticks = 0
  /\ rx = "recv" /\ msg = "none" /\ msgs = 0
  /\ sig = "idle" /\ calls = {} /\ gathering = "none" /\ stats = "none"
  /\ mu = "none" /\ tx = "none" /\ socket = "open"
  /\ peer = FALSE /\ pc = "none"
  /\ capture = "none" /\ running = FALSE /\ sink = "none" /\ media = "idle"
  /\ frameTrace = "none" /\ mediaTrace = "none"

\* BlockingCall, and every call of the peer connection's proxy
Posted(what) == calls' = calls \cup {what}

-----------------------------------------------------------------------------
(* Receive thread                                                           *)

(* RecvLoop takes a line, also one that came before the stop with the chunk *)
(* it is working on; answers are the sender's.                             *)
RxReceives ==
  /\ rx = "recv" /\ msgs < MaxMsgs
  /\ \E m \in IF role = "sender" THEN {"opening", "answer"} ELSE {"opening"} :
       msg' = m
  /\ rx' = "lock" /\ msgs' = msgs + 1
  /\ UNCHANGED <<role, mainVars, sigVars, stats, locks, peer, pc, mediaVars, traces>>

\* recv returns nothing after shutdown(), or because the relay hangs up.
RxExits ==
  /\ rx = "recv" /\ rx' = "exit"
  /\ UNCHANGED <<role, mainVars, msg, msgs, sigVars, stats, locks, peer, pc,
                 mediaVars, traces>>

\* OnMessage and Connect under mu_: what needs no call is done at once.
RxLocks ==
  /\ rx = "lock" /\ mu = "none"
  /\ IF peer = (msg = "answer")
       THEN /\ mu' = "rx" /\ rx' = "called"
            /\ Posted(msg)
            /\ IF msg = "opening" /\ role = "sender"
                 THEN /\ frameTrace' = "open"
                      /\ capture' = "grid" /\ running' = TRUE
                 ELSE UNCHANGED <<frameTrace, capture, running>>
       ELSE rx' = "recv" /\ UNCHANGED <<mu, calls, frameTrace, capture, running>>
  /\ UNCHANGED <<role, mainVars, msg, msgs, sig, gathering, stats, tx, socket,
                 peer, pc, sink, media, mediaTrace>>

RxUnlocks ==
  /\ rx = "back" /\ rx' = "recv"
  /\ peer' = TRUE /\ mu' = "none"
  /\ UNCHANGED <<role, mainVars, msg, msgs, sigVars, stats, tx, socket, pc,
                 mediaVars, traces>>

RxStep == RxReceives \/ RxExits \/ RxLocks \/ RxUnlocks

-----------------------------------------------------------------------------
(* Signaling thread (libwebrtc's; it runs one closure after the other)      *)

Calls(what) == sig = "idle" /\ what \in calls /\ calls' = calls \ {what}

\* Init or HandleOffer; a receiver's track arrives with the offer (OnTrack).
OpenPeer ==
  /\ Calls("opening") /\ rx' = "back"
  /\ pc' = "open" /\ gathering' = "running" /\ mediaTrace' = "open"
  /\ IF role = "receiver" THEN sink' = "on" /\ frameTrace' = "open"
                          ELSE UNCHANGED <<sink, frameTrace>>
  /\ UNCHANGED <<role, mainVars, msg, msgs, sig, stats, locks, peer, capture,
                 running, media>>

ApplyAnswer ==
  /\ Calls("answer") /\ rx' = "back"
  /\ UNCHANGED <<role, mainVars, msg, msgs, sig, gathering, stats, locks, peer,
                 pc, mediaVars, traces>>

\* GetStats returns; the report comes later, on the same thread.
AskStats ==
  /\ Calls("stats") /\ stats' = "asked" /\ main' = "await"
  /\ UNCHANGED <<role, ticks, rxVars, sig, gathering, locks, peer, pc,
                 mediaVars, traces>>

DeliverStats ==
  /\ sig = "idle" /\ stats = "asked" /\ stats' = "there"
  /\ UNCHANGED <<role, mainVars, rxVars, sigVars, locks, peer, pc, mediaVars, traces>>

\* Taking mu_ to look up the peer before the SDP is sent.
GatheringEnds_UnderMu ==
  /\ gathering = "running" /\ pc = "open" /\ sig \in {"idle", "wantmu"}
  /\ IF mu = "none"
       THEN tx = "none" /\ sig' = "send" /\ tx' = "sig" /\ gathering' = "sent"
       ELSE sig = "idle" /\ sig' = "wantmu" /\ UNCHANGED <<tx, gathering>>
  /\ UNCHANGED <<role, mainVars, rxVars, calls, stats, mu, socket, peer, pc,
                 mediaVars, traces>>

\* OnIceGatheringChange, up to the lock of Send
GatheringEnds ==
  /\ sig = "idle" /\ gathering = "running" /\ pc = "open" /\ tx = "none"
  /\ sig' = "send" /\ tx' = "sig" /\ gathering' = "sent"
  /\ UNCHANGED <<role, mainVars, rxVars, calls, stats, mu, socket, peer, pc,
                 mediaVars, traces>>

\* One SDP fits the socket's buffer, so that send() does not wait for the relay.
SendReturns ==
  /\ sig = "send" /\ sig' = "idle" /\ tx' = "none"
  /\ UNCHANGED <<role, mainVars, rxVars, calls, gathering, stats, mu, socket,
                 peer, pc, mediaVars, traces>>

\* The closure of Shutdown; a receiver first takes its sink off the track.
BeginClose ==
  /\ Calls("close")
  /\ sig' = IF role = "receiver" THEN "remove" ELSE "close"
  /\ UNCHANGED <<role, mainVars, rxVars, gathering, stats, locks, peer, pc,
                 mediaVars, traces>>

\* RemoveSink waits for a frame that is being delivered.
RemoveSink ==
  /\ sig = "remove" /\ media # "frame"
  /\ sig' = "close" /\ sink' = IF sink = "on" THEN "off" ELSE sink
  /\ UNCHANGED <<role, mainVars, rxVars, calls, gathering, stats, locks, peer,
                 pc, capture, running, media, traces>>

\* A receiver closes its frame and decoder traces here, after its connection.
ClosePeer ==
  /\ sig = "close" /\ (pc = "open" => media = "idle")
  /\ sig' = "idle" /\ main' = "close"
  /\ pc' = IF pc = "open" THEN "closed" ELSE pc
  /\ frameTrace' = IF role = "receiver" /\ frameTrace = "open" THEN "closed" ELSE frameTrace
  /\ UNCHANGED <<role, ticks, rxVars, calls, gathering, stats, locks, peer,
                 mediaVars, mediaTrace>>

SigStep ==
  \/ OpenPeer \/ ApplyAnswer \/ AskStats \/ DeliverStats
  \/ GatheringEnds \/ SendReturns \/ BeginClose \/ RemoveSink \/ ClosePeer

-----------------------------------------------------------------------------
(* Capture and media threads                                                *)

\* Loop: the flag is tested before the sleep, a slot emitted after it.
CaptureSleeps ==
  /\ capture = "grid" /\ running /\ capture' = "sleep"
  /\ UNCHANGED <<role, mainVars, rxVars, sigVars, stats, locks, peer, pc,
                 running, sink, media, traces>>
\* EmitSlot, once an encoder wants frames
CaptureWakes ==
  /\ capture = "sleep"
  /\ capture' \in IF pc = "none" THEN {"grid"} ELSE {"grid", "row"}
  /\ UNCHANGED <<role, mainVars, rxVars, sigVars, stats, locks, peer, pc,
                 running, sink, media, traces>>
CaptureWrites ==
  /\ capture = "row" /\ capture' = "grid"
  /\ UNCHANGED <<role, mainVars, rxVars, sigVars, stats, locks, peer, pc,
                 running, sink, media, traces>>
CaptureExits ==
  /\ capture = "grid" /\ ~running /\ capture' = "off"
  /\ UNCHANGED <<role, mainVars, rxVars, sigVars, stats, locks, peer, pc,
                 running, sink, media, traces>>
CaptureStep == CaptureSleeps \/ CaptureWakes \/ CaptureWrites \/ CaptureExits

\* A ledger row, or a decoded frame on its way through the sink.
MediaBegins ==
  /\ media = "idle" /\ pc = "open" /\ sig # "close"
  /\ media' \in IF sink = "on" /\ sig # "remove" THEN {"row", "frame"} ELSE {"row"}
  /\ UNCHANGED <<role, mainVars, rxVars, sigVars, stats, locks, peer, pc,
                 capture, running, sink, traces>>
MediaWrites ==
  /\ media # "idle" /\ media' = "idle"
  /\ UNCHANGED <<role, mainVars, rxVars, sigVars, stats, locks, peer, pc,
                 capture, running, sink, traces>>
MediaStep == MediaBegins \/ MediaWrites

-----------------------------------------------------------------------------
(* Main thread                                                              *)

\* RunUntilShutdown: a sample is due.
TickDue ==
  /\ main = "loop" /\ ticks < MaxTicks /\ main' = "tick" /\ ticks' = ticks + 1
  /\ UNCHANGED <<role, rxVars, sigVars, stats, locks, peer, pc, mediaVars, traces>>

\* AppendStats: GetStats for each peer, under mu_.
Tick ==
  /\ main = "tick" /\ mu = "none"
  /\ IF peer THEN mu' = "main" /\ main' = "called" /\ Posted("stats")
             ELSE main' = "loop" /\ UNCHANGED <<mu, calls>>
  /\ UNCHANGED <<role, ticks, rxVars, sig, gathering, stats, tx, socket, peer, pc,
                 mediaVars, traces>>

\* Wait returns when the report is there or after two seconds.
StatsEnd ==
  /\ main = "await" /\ main' = "loop" /\ mu' = "none"
  /\ UNCHANGED <<role, ticks, rxVars, sigVars, stats, tx, socket, peer, pc,
                 mediaVars, traces>>

\* Shutdown taking mu_ before it stops the client.
StopRequested_LocksFirst ==
  /\ main = "loop" /\ mu = "none" /\ mu' = "main"
  /\ main' = "join" /\ socket' = "shut"
  /\ UNCHANGED <<role, ticks, rxVars, sigVars, stats, tx, peer, pc, mediaVars, traces>>

\* A signal or --duration ends the loop; Stop shuts the socket down.
StopRequested ==
  /\ main = "loop" /\ main' = "join" /\ socket' = "shut"
  /\ UNCHANGED <<role, ticks, rxVars, sigVars, stats, mu, tx, peer, pc,
                 mediaVars, traces>>

\* Stop joins the receive thread and closes the socket under tx_mu_.
JoinRx ==
  /\ main = "join" /\ rx = "exit" /\ tx = "none"
  /\ main' = "lock" /\ socket' = "closed"
  /\ UNCHANGED <<role, ticks, rxVars, sigVars, stats, mu, tx, peer, pc,
                 mediaVars, traces>>

\* mu_, then StopCapture's flag
StopCapture ==
  /\ main = "lock" /\ mu # "rx" /\ mu' = "main"
  /\ main' = "joinCapture" /\ running' = FALSE
  /\ UNCHANGED <<role, ticks, rxVars, sigVars, stats, tx, socket, peer, pc,
                 capture, sink, media, traces>>

\* A capturer that is told to stop and not joined.
JoinCapture_NoWait ==
  /\ main = "joinCapture" /\ main' = "called" /\ Posted("close")
  /\ UNCHANGED <<role, ticks, rxVars, sig, gathering, stats, locks, peer, pc,
                 mediaVars, traces>>

\* StopCapture returns, then BlockingCall
JoinCapture ==
  /\ main = "joinCapture" /\ capture \in {"none", "off"}
  /\ main' = "called" /\ Posted("close")
  /\ UNCHANGED <<role, ticks, rxVars, sig, gathering, stats, locks, peer, pc,
                 mediaVars, traces>>

CloseTraces ==
  /\ main = "close" /\ main' = "gone" /\ mu' = "none"
  /\ frameTrace' = IF frameTrace = "open" THEN "closed" ELSE frameTrace
  /\ mediaTrace' = IF mediaTrace = "open" THEN "closed" ELSE mediaTrace
  /\ UNCHANGED <<role, ticks, rxVars, sigVars, stats, tx, socket, peer, pc, mediaVars>>

MainStep == Tick \/ StatsEnd \/ JoinRx \/ StopCapture \/ JoinCapture \/ CloseTraces

SessionNext ==
  RxStep \/ SigStep \/ CaptureStep \/ MediaStep \/ TickDue \/ StopRequested \/ MainStep

\* Threads run; the relay need not send, frames need not come, nor the stop.
SessionFairness ==
  /\ WF_sessionVars(MainStep) /\ WF_sessionVars(SigStep)
  /\ WF_sessionVars(RxLocks \/ RxUnlocks)
  /\ WF_sessionVars(socket # "open" /\ RxExits)
  /\ WF_sessionVars(CaptureStep) /\ WF_sessionVars(MediaWrites)

SessionSpec == SessionInit /\ [][SessionNext]_sessionVars /\ SessionFairness

-----------------------------------------------------------------------------
(* Properties                                                               *)

(* "No writer left dangling" (comment at Shutdown): no thread has a row in  *)
(* hand for a trace that is closed, and a message that was being handled    *)
(* when the stop came has not opened traces behind it.                     *)
NoWriterLeft ==
  /\ frameTrace = "closed" => capture # "row" /\ media # "frame"
  /\ mediaTrace = "closed" => media = "idle"
  /\ main = "gone" => frameTrace # "open" /\ mediaTrace # "open"

(* Nobody waits for ever: a call on the signaling thread made under mu_     *)
(* returns (mu_ is "never taken on the WebRTC signaling thread").          *)
CallsReturn == main = "called" \/ rx = "called" ~> main # "called" /\ rx # "called"

(* Once stopped the process ends, whatever message, sample or frame the     *)
(* stop meets: Shutdown waits for three threads in turn.                   *)
SessionEnds == main = "join" ~> main = "gone"
=============================================================================
