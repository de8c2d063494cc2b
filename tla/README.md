# Verification of private-5g-industrial

A testbed that streams H.264 video over a private 5G network and logs every
frame, packet and scheduler event.  Its results are its trace files, so the
properties that matter are of three kinds: the traces say what happened
(nothing torn, lost unnoticed or counted twice), the programs find each other
and stop properly, and what the receiver rebuilds from packets is what the
sender sent.  This directory holds TLA+ models of the parts that decide this,
their TLC runs and their machine-checked proofs.

Paths below are relative to the repository.  "FR" stands for
`ffmpeg/apps/common/trace_ring.h`.

## 1. Inventory

| Component | State | Operations | Hard because |
|---|---|---|---|
| trace ring (`*/apps/common/trace_ring.h`, one text in three trees; the webrtc one differs in its row types) | `claimed_`, `consumed_`, `overflow_`, `late_`, `closed_`, `running_`, slots with a flag and a plain row, the file, the `.ERROR` sidecar | `Write`, `FlushOnce`, `FlushLoop`, `Close` | lock-free, several producers, a flusher, a closer; file operations fail one by one |
| gNB tracer (`patches/srsran_gnb/p5g_gnb_tracer.h`) | the same kind of ring, several under one `active` flag and one flusher, without `late_`, grace rounds and "unpublished" | `write`, `flush`, `close`, `shutdown` | scheduler, MAC, RLC and PDCP threads may still write while it closes |
| control server (`{ffmpeg,gstreamer}/apps/control/control_server.py`) | tables of senders and receivers, `peers`, pending acks, a generation counter | `register`, `route_stream_start`, `route_stream_ack`, `route_profile`, `unregister` | one asyncio task per connection with awaits inside; peers die and return under the same name |
| control client (`control_client.h`) | a socket, a receive thread | `Connect`, `Start`, `Send`, `Stop` | callbacks on its thread race `Stop` and the main thread |
| ffmpeg sender (`ffmpeg/apps/sender/video_sender.cc`) | handshake state, ack deadline, slot grid, rung, RTCP thread | `Run`, `OnMessage`, `Tick`, `GridLoop`, `EmitSlot`, `Shutdown` | four threads, blocked sends, late starts, stops at any moment |
| ffmpeg receiver (`ffmpeg/apps/receiver/video_receiver.cc`) | stream it serves, depacketizer, decoder, RTCP state | `OnMessage`, the receive loop, `Shutdown` | a single stream per process; the decoder keeps buffers |
| depacketizer (`ffmpeg/apps/common/rtp_util.h`) | last sequence number, open AU, open fragment, three buffers | `Push` and its helpers | loss, repetition, reordering and wrap-around |
| gstreamer sender (`gstreamer/apps/sender/video_sender.cc`, `common/video_source.h`) | the capture grid, appsrc's queue, the last timestamps pushed, encoded and sent | `OnMessage`, `Loop`, the pad probes, `Shutdown` | a push that blocks; a shutdown that drains by watching what comes out |
| gstreamer receiver (`gstreamer/apps/receiver/video_receiver.cc`) | the arrival ring (a seqlock), ledgers published to streaming threads, where RTCP reports go | `OnMessage`, `OnRtpIn`, `LookupArrival`, `OnFrame`, `OnPadAdded`, `OnRtcpIn`, `Shutdown` | control, udpsrc, jitter buffer and RTCP threads share it without a lock |
| WebRTC signaling (`webrtc/apps/signaling/signaling_server.py`) | tables of senders and receivers | `register`, `route_offer`, `route_answer`, `unregister` | a relay that binds no answer to an offer |
| WebRTC sender and receiver (`webrtc/apps/`) | peers, two mutexes, capturer, sink, ledgers | `OnMessage`, `Connect`, `AppendStats`, `Shutdown`, libwebrtc's callbacks | blocking calls on libwebrtc's thread under a mutex; writers on threads of libwebrtc |
| analysis (`analysis/*.py`) | finished trace files | joins and statistics | sequential |
| scripts, RAN configuration, docs, vendored `json.hpp`, tests | | | not program logic |

How they interact.  A sender and a receiver each open one TCP connection to
the control server, which tells a sender that its receiver is there
(`receiver-ready`), hands over the announcement of a stream (`stream-start`)
and returns the answer (`stream-ack`).  The accepting answer starts the
sender's grid thread, whose packets go straight to the ports the receiver
published in `receiver-ready`; the receiver rebuilds AUs from them.  The
gstreamer programs use the same server and protocol; the WebRTC programs find
each other through their own relay by an offer and an answer.  All
programs write rows to trace rings from their threads, and close the rings
after they joined those threads.

## 2. Modules

| Module | Models | Proofs |
|---|---|---|
| `TraceLog` | abstract: a bounded FIFO log; a row is accepted and logged once, in order, or dropped and counted (FR 18-28) | |
| `RingCore` | `TraceRing::Write` after the gate and the scan of `FlushOnce`, one step per access of an atomic or a row | `RingCoreProofs` |
| `TraceRing` | `RingCore` with the gate, the flusher thread, the file, failing `fopen`/`fclose`, the sidecar, the footer and `Close` | `TraceRingProofs` |
| `GnbTracer` | `RingCore` with the two gates of an emitter, the flusher and `shutdown` of the gNB's tracer | `GnbTracerProofs` |
| `ControlPlane` | control server, control clients, the handshake of sender and receiver, the sender's ack watchdog | `ControlPlaneProofs` |
| `Depacketizer` | `H264Depacketizer::Push` under a lossy, repeating, reordering network | `FfmpegProofs` |
| `SenderGrid` | main, control, grid and RTCP threads of the ffmpeg sender, with `Shutdown` | `FfmpegProofs` |
| `ArrivalMap` | abstract: a table of per-frame packet counts and arrival times, updated and read at once | |
| `ArrivalRing` | the seqlock ring of the gstreamer receiver, one step per load, store and fence-delimited choice of order | `GstReceiverProofs` |
| `GstReceiver` | `ArrivalRing` with the control, udpsrc, jitter buffer, RTCP and main threads around it | `GstReceiverProofs` |
| `GstSender` | the gstreamer sender's capture grid, streaming threads and draining `Shutdown` | `GstSenderProofs` |
| `WebRtcCall` | the WebRTC relay and the negotiation of senders and receivers through it | `WebRtcProofs` |
| `WebRtcSession` | the threads and locks of one WebRTC process, with `Shutdown` | `WebRtcProofs` |

`MC*` modules give the constants their values for TLC.  The inductive invariants
of the larger proofs stand at the end of the component's own module, where TLC
can evaluate them; the proofs module has the lemmas and the proofs.

### RingCore and TraceLog

`claimed`, `consumed`, `overflow`, `ready[s]`, `row[s]` are the members of the
class; `pc`, `idx` and `writes` are where each producer is in `Write` and its
local `i`; `scan`, `m` and `end` belong to `FlushOnce`.  `log` and `claimLog`
are history: the rows formatted so far, and the rows in the order of the
successful compare-and-swaps.  A producer at "copy" is inside the plain
assignment of the row, the flusher at "format" inside its reading, so that a
race on a row is a state (`NoTornAccess`).  `compare_exchange_weak` may fail
spuriously.  `LooksFull` is the test of line 69 on `size_t`: a difference below
zero wraps and looks full.  `EnterWrite`, `RefuseWrite`, `BeginScan` and
`AbandonScan` are open to whoever calls; `TraceRing` decides who does.

Interleaving is sequentially consistent.  The relaxed load of `claimed_`
may return an old value in the code; the delay between `LoadClaimed` and
`CheckFull` has the same effect, since the compare-and-swap decides.

`RingCore` implements `TraceLog` (`ImplementsLog`) under: accepted =
`claimLog`, logged = `log`, dropped = `overflow`.

### TraceRing

`FlushOnce` is one machine (`fstep`) that runs on the flusher thread
(`flusher = "flushing"`) or on the thread in `Close` (`closer` = "flushing" for
a grace round, "sealing" for the last one); `OneFlusher` says that never both
do.  `closed`, `running` and `late` are the atomics.  `orderly` is history:
`Close` was called after the producers had stopped, as its comment demands;
`CallClose` itself may happen at any time.  `FlushOpenFails` and
`FlushCloseFails` are the error paths; a batch whose `fclose` fails reaches
`disk` up to an arbitrary row.  A producer may stop being scheduled anywhere.

At the start the file exists and the header is written (`enabled_`).  The C
library is assumed to report a lost write at `fclose`, and the sidecar, an
empty file, to be created.  Destruction is the caller's: nobody calls `Write`
after it.

### GnbTracer

The second composition over `RingCore`.  `gate` holds the emitters that found
the tracer active and have not yet tested `closed`; `CallShutdown`,
`StopFlusher`, `Join` and `CloseRing` are the statements of `shutdown`, and one
ring stands for all.  `enabled` may be false from the start (the file could not
be created).  It keeps less than `TraceRing`: rows turned away are not counted,
a producer inside `write` at the end is not waited for, and only a full ring or
the failure to create the file leaves a sidecar.  What remains is that the
footer counts what was formatted and dropped (`FooterTellsAll`), and that
without a failed operation the file is a beginning of the claimed rows
(`OnlyTailMissing`).

### ControlPlane

A process is one with its connection: the client never reconnects, so a restart
is a new process, connection and RTP endpoint.  Each connection is a queue in
each direction.  `Die` may cut a connection with messages unread; the server
then reads or loses them.  Handlers of asyncio run up to an await that
suspends.  `drain()` on a connection that is going down gives up one turn of
the loop; only a registering receiver reads shared state after such an await,
so only there the handler is split (`TellSenders`, `ResumeRegister`).  The
sender's `Tick` reads two atomics without the mutex and is two steps.
The addressing of several sessions, `route_profile` and `ping` are left out.

### Depacketizer

One record `dp` holds the fields of the class, one operator stands for each
helper, and `Arrive(k)` is the arrival of packet k of the constant `Stream`
followed by the whole of `Push`.  Bytes are pieces (a NAL unit, or a fragment
of one), capacity is counted in pieces, a timestamp is the number of an AU.
Left out: `is_idr`, the arrival stamps, and the parsing of headers.
`taken`, `at`, `told` and `events` are history: the positions of the packets
that entered assembly, that of the last one, the packets and losses of the AUs
reported, and these AUs.  `StreamAssumption` says what a sender sends (AU by AU,
the marker on nothing but the last packet of one, the fragments of a NAL unit in
a row).  `NetworkAssumption` says that a packet arrives within a turn of the
sequence numbers, less the two tolerances of `Push`: without it a number means
nothing, and 65536 packets are half a minute of video.  `Window`, `Ahead` and
`MaxStrays` bound how far behind and ahead of the newest packet one may come, and
how many come behind.

### SenderGrid

`main` walks through `Run`, the tick loop and `Shutdown`; `rx` is the control
thread, in whose callback the accepting ack sets the flags and then creates the
grid thread (two steps); `grid` is where `GridLoop` is.  `now` passes between
any two statements of the grid, so a blocked send and a thread that is not
scheduled are the same thing.  The handshake before the ack is `ControlPlane`.

After Shutdown main is at "closed", and "returned" once `~Sender` and `main` are
done; only that ends the process.

### ArrivalMap, ArrivalRing and GstReceiver

`seq[s]` and `slot[s]` are an `Arrival`.  The stores between the two stores of
`seq` and the loads between its two loads are relaxed, so each side does them
in any order (`todo`, `loaded`), the key of a lookup like the rest; the fences
keep them inside.  `stable` is history: what the last completed write left.
`ImplementsMap` is the refinement: `stable` is the abstract table, a packet is
counted when its `seq` turns even, a lookup is answered at its second look at
`seq`.  Timestamps count slots, so frames `Ring` apart share one.

`GstReceiver` decides who calls.  `ctl` is the statement `OnMessage` has come
to, since rings, SSRC and report address are shown to other threads one by one;
`Receive` is `OnRtpIn` up to its first store, followed by rtpbin's `OnPadAdded`
(`linked`); `DepayOut` begins the lookup whose answer `OnFrame` writes.
`times`, `floor` and `excuse` are history, what a row of rx-frames should have
said.  The jitter buffer hands frames on in order and any time after their
first packet.  The announced sender starts after the stream-ack
(`ControlPlane`); an earlier one may still send (`ReceiveStray`).

### GstSender

`ctl` is the control thread: PLAYING, then `Start`, then `started_`.  `grid`
is where `Loop` is; a push blocks while appsrc is full and is released by
end-of-stream or flushing.  One frame stands for all its packets.  With
`--cc profile` encoder, payloader and sink are one thread; with `gcc` packets
are paced on a thread of their own, which end-of-stream overtakes.  An encoder
may keep a frame for ever (`EncTake` and `OnEncoded` have no fairness).  Each
timed wait of `Shutdown` ends when its condition holds or, at any moment, with
its warning.  `drained` is history: the EOS fallback got through.

### WebRtcCall

As in `ControlPlane`, a process is one with its connection, and only the loop
of a registering receiver is split at its await.  An offer carries the
connection that made it and an answer the offer it is for; the relay looks at
neither, they say which process is talking to which.

### WebRtcSession

`main`, `rx`, `sig`, `capture` and `media` are the threads; `mu` and `tx` the
holders of the two mutexes; `calls` the closures waiting for libwebrtc's
signaling thread, on which every call of a peer connection runs.  A blocking
call is `Posted` by its caller, who waits at "called".  A row is written in two
steps, so that a write to a closed trace is a state.  What messages say is
`WebRtcCall`.

## 3. Runs

| Run | Question | Bounds |
|---|---|---|
| `ring_core` | Are rows never torn, logged once, in claim order; does the ring implement `TraceLog`? | 2 producers x 3 writes, 2 slots: three laps, full and empty ring, every pair of producers in one slot |
| `ring_close` | Do file, counters and sidecar tell the truth after `Close`, orderly or not; does `Close` return with a stalled producer, and does a published row reach the file or leave a sidecar? | 2 x 2 writes, 2 slots, 1 grace round, 1 failing file operation |
| `gnb_shutdown` | What does the gNB's file contain after `shutdown`; does `shutdown` return with stalled RAN threads? | 2 x 2 writes, 2 slots, 1 failing file operation |
| `cp_restarts` | Do acks, starts and clean-ups of dead processes leave their successors alone; does every wait of a sender end, with an ack, a refusal or the watchdog? | 2 senders and 2 receivers in turn under one name each, 2 deaths, slow answers |
| `cp_calm` | Does the stream start between a sender and its receiver, whatever the other processes do? | 2 cameras, both for the first of 2 receivers, 2 deaths, no answer slower than the watchdog |
| `cp_hung_up` | *violated*: the server keeps the connections of live peers | 2 cameras, 1 receiver, 2 deaths |
| `depack` | Is what is reported whole, in order, and accounted for? | 4 AUs in 11 packets (parameter sets, 3- and 2-fragment NAL units, two in one AU, a single packet), any loss, 2 strays within 5 positions, at most 9 ahead of the newest, sequence numbers modulo 16 starting at 0 or just before the wrap |
| `grid` | Does every slot have one row, are traces closed last, does `Shutdown` end? | 4 slots, an IDR every second one, 2 rates, start before the epoch or in slot 2 |
| `gst_receiver` | Are a frame's packet statistics its own and of one moment, or missing for a reason; does the ring implement `ArrivalMap`; is everything after the stream-ack logged? | frames 0..2 on 2 slots (0 and 2 share one), 2 packets each, 4 in all, reordering by 1 frame, 2 attempts, 1 stray packet |
| `gst_sender` | Does the drain lose nothing without saying so, has every slot one row, are closed traces final, does `Shutdown` end with an encoder that hangs? | 5 slots, a queue of 2, both values of `--cc` |
| `webrtc_call` | Do late hang-ups leave successors alone, has a receiver one caller, do first pairs connect in either order? | 2 processes in turn for one camera, 1 for another, 2 receivers in turn, 1 death |
| `webrtc_session` | Do blocking calls under `mu_` return, does `Shutdown` end, is nobody left writing to a closed trace, and no trace opened behind the shutdown? | both roles, 4 messages, 3 samples |

The bounds are chosen so that every branch of the modelled code is taken, and
larger ones repeat situations that the smaller ones contain: a ring of two
slots with three laps meets every alignment of two producers and the flusher
around one slot; two processes per name are an old and a new one, and a third
would meet the second as the second meets the first; one failing file operation
is followed by working ones, which is the case that could hide a hole; two
attempts of a lookup are a first and a last one; a queue of two is neither empty
nor full between two pushes.  For what section 4 lists the proofs remove the
bounds altogether.

`CHECK_DEADLOCK FALSE` is set throughout, because every instance stops:
the writes, processes, packets or time of the bounds are used up, and the
programs end.

Fairness.  `RingFairness`: the flusher and a thread in `Close` are ordinary
threads that take the steps they can; nothing is assumed of producers.
`GnbFairness` is the same for the gNB's flusher and the thread in `shutdown`.
`Fairness` of `ControlPlane`: the event loop serves every readable connection,
the client threads read, time passes, the main thread ticks; no process has to
start or die.  That time passes means that the deadline of every sender passes in
the end, so where answers may be slow (`Slow = TRUE`) a handshake may always end
with the watchdog.  `cp_restarts` asks there that it ends at all.  `HandshakeCompletes`
asks that the stream starts, and is checked by `cp_calm` with `Slow = FALSE`, where
no deadline passes: a `receiver-ready`, `stream-start` or `stream-ack` that were
lost would leave no excuse.
`Fairness` of `SenderGrid`: the grid, RTCP and main threads
go on; the control thread gets out of its receive (strongly fair, since
messages may keep it busy in between), because the socket is shut down and
only the lines already buffered are left.  Nobody has to stop the program.
`SendFairness`: grid, clock and `Shutdown` go on, and a pipeline that flushes
lets go of what it holds, as GStreamer documents of a change to NULL; of the
encoder nothing is assumed.  `WebFairness`: the relay serves every connection
and live processes go on.  `SessionFairness`: the threads go on and libwebrtc's
signaling thread runs its closures; the relay need not send, and the receive
thread leaves `recv` only once the socket is shut down.  Safety needs none of this, and
`ring_core`, `depack`, `gst_receiver` and `cp_hung_up` state none.

Every property of a passing run has a mutant, a plausible slip in the code's place (a flag set
before the row, a dropped comparison, a join without waiting) that TLC must
find; the operators `Def_Slip` beside `Def` are these.

## 4. Proofs

Every theorem is for all values of its module's constants, under the named
assumptions of that module, which TLC evaluates in the runs:
`ProducersAssumption`, `CapAssumption`, `MaxWritesAssumption`, `GraceAssumption`
and `MaxFaultsAssumption` for the rings; `ArrivalAssumption` and `GstAssumption`
(reordering shorter than the ring), `GstSenderAssumption`, `GridAssumption`,
`SessionAssumption`; `NamesAssumption` and `CallAssumption` (every process has one
name); `DepackAssumption`, `StreamAssumption` and `NetworkAssumption`.  The
bounds on writes, faults, packets, strays and deaths may be any number.

Trace rings (`RingCoreProofs`, `TraceRingProofs`, `GnbTracerProofs`):

* `CoreInvariant`, `CoreTypeCorrect`, `NoTornAccessHolds`,
  `LogIsClaimPrefixHolds`, `WindowFitsHolds`, `FlagMeansWaitingHolds`: the safety
  of the ring.  `CoreImplementsLog`: the ring implements `TraceLog`.
* `RingKeepsCoreSafety`: the rows of `TraceRing` are never torn and are logged in
  order during and after `Close` as well.  (Every action of `TraceRing` is built
  on one of `RingCore` or leaves its variables alone, so the proof takes the
  safety of the ring over.)  `OneFlusherHolds`: the flusher thread and `Close` never
  flush together.
* `EveryRowCountedHolds`: no row is lost between the counters, and after an
  orderly `Close` the footer adds up.  `CleanMeansCompleteHolds`,
  `CleanMeansNoGapHolds`: a file without a sidecar is all that was offered if the
  producers had stopped, and a beginning of what was claimed if not.
* `GnbKeepsCoreSafety`, `OneFlushHolds`: the first two of these for the gNB's tracer,
  although its shutdown waits for no producer.
  `OnlyTailMissingHolds`, `FooterTellsAllHolds`: a file with as many rows as its
  footer says is a beginning of the claimed rows, and all of them if the threads
  had ended.

Control channels (`ControlPlaneProofs`, `WebRtcProofs`):

* `ControlInvariant`, `StreamingIsServedHolds`, `PendingIsLiveHolds`,
  `ListedUntilGoneHolds`: an ack never starts another process than the one it was
  given for, a pending handshake is between live connections, and a late hang-up
  leaves its successor in the table.
* `CallInvariant`, `OneCallerPerReceiverHolds`, `SuccessorStaysHolds`: of two senders
  only one ever holds a receiver's answer; the relay's tables are like the server's.

Senders and receivers:

* `ProducersStopFirstHolds`, `EverySlotHasItsRowHolds` (`FfmpegProofs`): the
  ffmpeg sender closes last and has one row per slot in order.
* `DepackInvariant`, `WholeNalsHolds`, `CompleteIsWholeHolds`,
  `EveryPacketAccountedHolds`, `NothingVanishesHolds` (`FfmpegProofs`): what the
  depacketizer reports consists of whole NAL units, is all that was sent if it
  says so, and accounts for every packet and every AU, whatever is lost, repeated
  or reordered and wherever the sequence numbers wrap.
* `SeqlockHolds`, `RingImplementsMap`, `GstImplementsMap` (`GstReceiverProofs`): the
  seqlock ring implements `ArrivalMap` for any ring, attempts and order of the
  relaxed accesses, alone and among the receiver's threads.
  `AckMeansReadyHolds`: no packet after the stream-ack is unlogged or uncounted.
  `ReportsAreWholeHolds`, `UnknownHasReasonHolds`: a frame's statistics are its own
  and of one moment, or missing for one of two reasons.
* `ClosedIsFinalHolds`, `EverySlotOnceHolds`, `DrainCompleteHolds`
  (`GstSenderProofs`): nothing is written after the traces were closed, every
  slot has one row, and a shutdown without a warning has lost nothing.
* `NoWriterLeftHolds` (`WebRtcProofs`): no thread of a WebRTC process writes to a
  closed trace, and when `Shutdown` is over none is open.

### The argument

None of the properties is inductive alone.  TLC evaluated each invariant below on
the run of its module before it was proved.

*The ring* (`RingInv`).  The flusher is within the window of unfreed
sequence numbers (`ScanInWindow`); the log is as long as the scan has come
(`LogFollowsScan`); a producer about to compare-and-swap has seen room, and
since `consumed` only grows there still is room, and if the compare-and-swap
succeeds `claimed` is the number whose room it saw (`RoomSeen`: this is why
the stale read is harmless there); a claimed sequence number has one owner
until it is published, and meanwhile its slot's flag is down and the scan has
not passed it (`ClaimHeld`, `OneOwner`); and a raised flag is that of a claimed
row not yet logged (`FlagMeansWaiting`).  `SlotInjective`, that two numbers
less than `Cap` apart have different slots, turns these facts on sequence
numbers into facts on slots.

*Closing* (`CloseInv`, and `ShutdownInv` for the gNB).  `Close` is past its join
only when the flusher has exited (`HandOver`, `FlushHandOver`).  Without a sidecar
the file is the log up to the batch that is open (`DiskFollowsLog`).  A claimed
number that is not freed is published or in a producer's hand; after an orderly
`Close` no producer has anything in hand, so the last scan finds every claimed
row (`SealSeesAll`), and what callers were refused is `late`.  The gNB's file may
lose rows without a mark, but a failed operation never adds one, so equal counts
mean equal contents (`DiskCountTells`), and nobody is turned away before
shutdown (`NoneTurnedAway`).

*Handshakes* (`ControlInv`).  A generation number leads from the pending handshake
through the stream-start to the receiver's ok, always to one sender
(`GenerationsTell`), so an ok that the server forwards comes from a receiver that
serves the sender it goes to (`OkIsServed`).  Tables hold registered connections
under their own names (`TablesListPeers`), and a connection that has not
registered has heard nothing (`RegisterComesFirst`).  *Calls* (`CallInv`): a
receiver answers once, and its answer is at one place, on its way to the relay, on
its way to one sender, or applied there (`OneAnswer`); a process registers once, so
that nothing still to be read enters it in a table again (`RegistersOnce`).

*Depacketizing* (`DepackInv`).  The last sequence number is that of position `at`, not
far behind the newest (`SeqTells`); with `NetworkAssumption` the signed 16-bit
difference that `Push` takes is then the distance of positions wherever it is
below the tolerances (`StepTells`).  What is in the buffer is made of whole NAL
units, but for one open at its end, which the last packet belongs to
(`BufferUnbroken`); an AU without a loss since its first packet is all that was
sent so far (`IntactIsWhole`, with `AuUpTo[p]`, what the packets of an AU up to
position p hold); after a complete AU nothing is
missed uncounted (`BeginsAfterMarker`); and packets and losses add up to the
positions from the first to the last (`CountIsSpan`).  `AuUpTo` is a recursive
function; the one equation the proof needs of it (`AuUpToStep`) is proved
by building the function up to each position, and a least counterexample
(`Reaches`) takes the place of induction.

*The arrival ring* (`GstReceiverProofs`).  A slot's `seq` is odd just while it is
written (`SeqTells`); otherwise its fields are `stable` (`SettledIsStable`); a
field not to be stored any more already has the new value (`StoresRemain`); and as
long as `seq` is what a lookup saw first, what it copied is what the slot holds
(`CopyIsCurrent`), which at the second look, `seq` being even, is `stable`.
`AckIsLast` and `PacketsCounted` tie the statements of `OnMessage` to the ack and
the ledger to the counts.  For the reports (`ReportsInv`) a slot belongs to the
newest of its frames and counts all its packets (`SlotIsNewest`), which holds
only because reordering is shorter than the ring; what a lookup found has at
least the packets counted before it began (`LookedUp`); and a lookup that nobody
wrote in the way of misses its frame only for a newer one (`NobodyInTheWay`).

*Shutdowns.*  `StopInv`, `FinalInv` and `SessionInv` are invariants of order: each
wait leaves one thread less that could write (in `WebRtcSession` also which call is
under way, because media threads end inside one).  `GridInv` says that the ffmpeg
sender's grid is started once, that `rows` is an interval of slots ending before
the next one with times that do not decrease (`OneRowPerSlot`, `OnTime`).  In `DrainInv` of the
gstreamer sender frames keep their order through the pipeline (`FlowInOrder`),
what was sent is a beginning of what was encoded (`SentIsPrefix`), end-of-stream
is through only when nothing is left in it (`EosIsLast`), and each wait of
`Shutdown` that ended without its warning has established a fact that stays true
(`WaitsTell`); after the last, no place is left where a frame could be.

### Only model-checked

The liveness properties: `CloseReturns`, `PublishedReachesDisk`,
`ShutdownReturns`, `HandshakeDecides`, `HandshakeCompletes`, `ShutdownEnds` of both
senders, `AcceptedIsAnswered`, `FirstPairsConnect`, `CallsReturn` and `SessionEnds`.
They rest on fairness, hence on ENABLED, which the prover cannot reason about.

## 5. Deviations

Kept as a run that TLC must refute:

* `cp_hung_up`: `register` iterates a dictionary with an await inside; a change
  of its size ends the handler of a live receiver, which never reconnects.  The
  WebRTC relay has the same loop, and `WebRtcCall` the same step.

Stated in the modules and refuted by TLC under the bounds of the runs, but not
kept as runs:

* `DropOnlyWhenFull` (`RingCore`): with several producers `i - consumed_` can
  wrap, and a row is dropped and counted as overflow in a ring that is not full.
* `NoSidecarMeansComplete` (`GnbTracer`): a batch that cannot be written leaves no
  mark, and the footer counts its rows.
* `IntendedAckForwarded` (`ControlPlane`): a late `stream-start` of a replaced
  sender displaces the pending handshake of its successor.
* `StreamsToItsServer`: a receiver restarted during the handshake gets the
  `stream-start`, the packets go to the ports of its predecessor.
* `EveryStartAnswered`: a restarted sender gets no answer from a receiver that
  serves the same stream.
* `WatchdogTellsTruth`: an ack in time may come between the watchdog's two reads.
* `LossMakesIncomplete` (`Depacketizer`): an AU whose head was lost at the start
  of the stream is reported complete.
* `StartsWithIdr` (`SenderGrid`): a delay after the choice of the first slot
  loses the IDR.
* `NoReferenceGap`: the new rate is stored before its IDR is sent.  If that IDR is
  refused, the next AU to leave is a delta frame at the new rate.
* `FailedRunReturns`: `Run` returns false with a joinable thread running, so the
  program aborts instead of returning 1.
* `SecondSourceKeptOut` (`GstReceiver`): the first source to come is decoded, and
  if an earlier sender still sends to the port, it is not the announced one.
* `AnswerMatchesOffer`, `SurvivorsConnect` (`WebRtcCall`): a restarted sender may
  apply the answer to its predecessor's offer; a receiver ignores the offer of
  a restarted sender as a duplicate, and a sender ignores a restarted receiver.

Seen while modelling, and no statement of the repository's: with the EOS
fallback, joining the grid before the pipeline goes to NULL would end as well;
the gstreamer watchdog may say "no stream-ack" of an ack that came in time, since
`started_` is set after PLAYING; a shutdown without a start warns of a grid
thread "still pushing"; a frame whose push is released after `WaitStopped` gave
up may be lost, with that warning.

## 6. Plan

Done, in this order: `TraceLog`, `RingCore` and its proofs, `TraceRing` and its
proofs, `ControlPlane`, `Depacketizer`, `SenderGrid`, `GnbTracer` and its proofs,
`ArrivalMap` and `ArrivalRing` with proofs, `GstReceiver`, `GstSender`,
`WebRtcCall`, `WebRtcSession`, proofs about the threads of all programs, and the
proofs of what files, reports, tables and assembled AUs say.  Every safety and
action property of the passing runs is now a theorem.  Next:

1. The lifecycle of the ffmpeg receiver (decode and display threads) and the join
   of the two ledgers, including `wire_base_`, with their invariants proved.
2. `route_profile` in `ControlPlane`, with the bandwidth estimate that races it in
   the gstreamer sender.
3. A module that composes `ControlPlane` with the sender's grid, so that the
   handshake and the ports it leads to are in one state.

## 7. Not modelled

Third-party code (libwebrtc, GStreamer elements, libavformat) except for what the
programs rely on, the wrappers that fill ledger rows from it,
parsing and formatting of rows, JSON and RTP headers, the sockets' line buffer,
the statistics and plots of `analysis/`, shell scripts and configuration.
Memory ordering weaker than sequential consistency is covered only as far as
section 2 says.

The three vendored copies of `json.hpp` are nine tenths of the lines of code;
of the rest, the analysis scripts, the row formats of `webrtc_tracing.h` and the
construction of pipelines and peer connections are sequential code over data or
over a library, and have no states for a model checker.
