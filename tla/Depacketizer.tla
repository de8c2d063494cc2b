---------------------------- MODULE Depacketizer ----------------------------
(***************************************************************************)
(* H264Depacketizer::Push of the ffmpeg tree (apps/common/rtp_util.h): the  *)
(* receive thread rebuilds access units (AUs) from RTP packets that the     *)
(* network may have lost, repeated or reordered.                           *)
(*                                                                         *)
(* The packets a sender makes of its AUs are the constant Stream, in        *)
(* sending order.  What reaches the receiver is any packet at any time,     *)
(* within the bounds Window, Ahead and MaxStrays; one that never arrives is  *)
(* lost.  Packets carry the low bits of their position as sequence number.  *)
(*                                                                         *)
(* Bytes are abstracted to pieces: one piece stands for a NAL unit or for   *)
(* one fragment of it, and the buffer holds Cap pieces.  RTP timestamps are *)
(* only compared for equality and are the number of the AU here.            *)
(***************************************************************************)
EXTENDS Integers, Sequences, FiniteSets, FiniteSetsExt

CONSTANTS
  Stream,       \* the packets of the sender, see Packet
  Modulus,      \* 2^16: sequence numbers
  FirstSeq,     \* sequence numbers the stream may start with
  MaxDropout,   \* kMaxDropout: 3000
  MaxMisorder,  \* kMaxMisorder: 100
  kBuffers,     \* 3
  Cap,          \* cap_, in pieces
  Window,       \* bound: how far behind the newest a packet may arrive
  Ahead,        \* bound: how far ahead of it, having overtaken or outlived others
  MaxStrays     \* bound: packets that arrive behind the newest

(* A packet holds whole NAL units (a single NAL unit packet or a STAP-A,    *)
(* malformed after them if `bad`), or a fragment of one (FU-A) with its     *)
(* start and end bits.  A piece is <<NAL unit, fragment, fragments>>.       *)
Piece == Nat \X Nat \X Nat
Packet == [ts : Nat, marker : BOOLEAN, fu : BOOLEAN, s : BOOLEAN, e : BOOLEAN,
           bad : BOOLEAN, pieces : Seq(Piece)]

ASSUME DepackAssumption ==
  /\ Modulus \in Nat /\ FirstSeq \subseteq 0 .. (Modulus - 1)
  /\ MaxDropout \in Nat /\ MaxMisorder \in Nat
  /\ MaxMisorder + MaxDropout < Modulus \div 2
  /\ kBuffers \in Nat \ {0} /\ Cap \in Nat /\ MaxStrays \in Nat

(* What the sender does: it packetises AU by AU, with the marker on nothing   *)
(* but the last packet of one, and sends the fragments of a NAL unit in a    *)
(* row, the first with the start and the last with the end bit.             *)
ASSUME StreamAssumption ==
  /\ Stream \in Seq(Packet)
  /\ \A k \in DOMAIN Stream : LET h == Stream[k] IN
       /\ \A j \in DOMAIN Stream : j > k =>
            h.ts <= Stream[j].ts /\ (h.marker => h.ts < Stream[j].ts)
       /\ h.pieces # <<>>
       /\ ~h.fu => \A i \in DOMAIN h.pieces : h.pieces[i][2] = 1 /\ h.pieces[i][3] = 1
       /\ h.fu => LET piece == h.pieces[1] IN
            /\ Len(h.pieces) = 1 /\ 1 <= piece[2] /\ piece[2] <= piece[3]
            /\ h.s = (piece[2] = 1) /\ h.e = (piece[2] = piece[3])
            /\ ~h.e /\ k + 1 \in DOMAIN Stream =>
                 /\ Stream[k + 1].fu
                 /\ Stream[k + 1].pieces[1] = <<piece[1], piece[2] + 1, piece[3]>>

\* What the network does: a packet comes within a turn of the sequence numbers.
ASSUME NetworkAssumption ==
  /\ Window \in Nat \ {0} /\ Ahead \in Nat
  /\ Window + MaxDropout <= Modulus /\ Window + Ahead + MaxMisorder <= Modulus

VARIABLES
  dp,        \* the depacketizer's fields, and the AUs the last Push ended
  base,      \* sequence number of the first packet of Stream
  \* history
  taken,     \* positions of the packets that entered assembly
  at,        \* position of the last one that did
  newest,    \* highest position that arrived
  strays,    \* arrivals behind the newest
  events     \* AUs reported, in order

depackVars == <<dp, base, taken, at, newest, strays, events>>

-----------------------------------------------------------------------------
(* The helpers of Push.  d is the state of the depacketizer; its `told` is   *)
(* history: the packets and losses in the AUs reported.                     *)

Fresh == [haveSeq |-> FALSE, lastSeq |-> 0, haveTs |-> FALSE, ts |-> 0,
          buf |-> <<>>, packets |-> 0, lost |-> 0, lostFrag |-> 0,
          damaged |-> FALSE, fuOpen |-> FALSE, fuStart |-> 0, orphan |-> FALSE,
          gap |-> 0, cur |-> 0, late |-> 0, resets |-> 0, out |-> <<>>, told |-> 0]

Reset(d, ts) ==
  [d EXCEPT !.haveTs = TRUE, !.ts = ts, !.buf = <<>>, !.packets = 0, !.lost = 0,
            !.lostFrag = 0, !.damaged = FALSE, !.fuOpen = FALSE, !.orphan = FALSE]

\* Keeping what was assembled of a NAL unit whose rest is lost.
DropOpenFu_Keep(d) == [d EXCEPT !.fuOpen = FALSE, !.lostFrag = @ + 1]

\* The partial NAL unit is discarded and counted.
DropOpenFu(d) ==
  [d EXCEPT !.fuOpen = FALSE, !.lostFrag = @ + 1, !.buf = SubSeq(@, 1, d.fuStart)]

\* Reporting only AUs that have bytes.
Emit_OnlyBytes(d, byMarker) ==
  LET c == IF d.fuOpen THEN DropOpenFu(d) ELSE d
      ev == [complete |-> byMarker /\ c.lost = 0 /\ c.lostFrag = 0 /\ ~c.damaged,
             ts |-> c.ts, buf |-> c.buf, packets |-> c.packets, lost |-> c.lost,
             damaged |-> c.damaged, buffer |-> c.cur]
  IN IF c.buf = <<>> THEN c
     ELSE [c EXCEPT !.out = Append(@, ev), !.cur = (@ + 1) % kBuffers, !.buf = <<>>,
                    !.told = @ + c.packets + c.lost]

Emit(d, byMarker) ==
  LET c == IF d.fuOpen THEN DropOpenFu(d) ELSE d
      ev == [complete |-> /\ byMarker /\ c.lost = 0 /\ c.lostFrag = 0
                          /\ ~c.damaged /\ c.buf # <<>>,
             ts |-> c.ts, buf |-> c.buf, packets |-> c.packets, lost |-> c.lost,
             damaged |-> c.damaged, buffer |-> c.cur]
  IN IF c.buf = <<>> /\ c.packets = 0 /\ c.lost = 0 THEN c
     ELSE [c EXCEPT !.out = Append(@, ev), !.cur = (@ + 1) % kBuffers, !.buf = <<>>,
                    !.told = @ + c.packets + c.lost]

\* Pieces that do not fit are left out and the AU is damaged.
AppendPieces(d, pieces) ==
  LET all == d.buf \o pieces
  IN [d EXCEPT !.buf = IF Len(all) <= Cap THEN all ELSE SubSeq(all, 1, Cap),
               !.damaged = @ \/ Len(all) > Cap]

\* int16_t(h.seq - last_seq_)
Step(d, seq) ==
  LET u == (seq - d.lastSeq) % Modulus
  IN IF u < Modulus \div 2 THEN u ELSE u - Modulus

IsLate(d, seq) ==
  d.haveSeq /\ Step(d, seq) <= 0 /\ Step(d, seq) >= -MaxMisorder

IsProgress(d, seq) == d.haveSeq /\ Step(d, seq) \in 1 .. MaxDropout

(* Lines 281-291: a step forward leaves a gap; any other one is a reset and  *)
(* ends the open AU.                                                        *)
TakeSeq(d, seq) ==
  LET n == [d EXCEPT !.haveSeq = TRUE, !.lastSeq = seq, !.out = <<>>]
  IN IF ~d.haveSeq THEN n
     ELSE IF IsProgress(d, seq) THEN [n EXCEPT !.gap = Step(d, seq) - 1]
     ELSE [(IF d.haveTs THEN Emit(n, FALSE) ELSE n) EXCEPT
             !.haveTs = FALSE, !.gap = 0, !.resets = @ + 1]

\* Forgetting the gap that ends an AU.
OpenAu_GapForgotten(d, ts) ==
  IF d.haveTs /\ ts = d.ts THEN d
  ELSE Reset(IF d.haveTs THEN [Emit(d, FALSE) EXCEPT !.gap = 0] ELSE d, ts)

(* Lines 292-296: a packet of another timestamp ends the open AU, and the    *)
(* gap before it is that AU's lost tail.                                    *)
OpenAu(d, ts) ==
  IF d.haveTs /\ ts = d.ts THEN d
  ELSE Reset(IF d.haveTs THEN Emit([d EXCEPT !.lost = @ + d.gap, !.gap = 0], FALSE)
                         ELSE d, ts)

\* Noticing a gap only while a fragmented NAL unit is open.
CountPacket_OnlyInFu(d) ==
  IF d.gap > 0 /\ d.fuOpen
    THEN [DropOpenFu(d) EXCEPT !.orphan = TRUE, !.lost = @ + d.gap, !.gap = 0,
                               !.packets = @ + 1]
    ELSE [d EXCEPT !.gap = 0, !.packets = @ + 1]

\* Lines 299-300: any other gap is this AU's, and ends the open FU.
CountPacket(d) ==
  LET c == IF d.gap > 0 /\ d.fuOpen THEN [DropOpenFu(d) EXCEPT !.orphan = TRUE] ELSE d
  IN [c EXCEPT !.lost = @ + d.gap, !.gap = 0, !.packets = @ + 1]

\* Lines 304-313: a packet of whole NAL units.
TakeNals(d, h) ==
  [AppendPieces(d, h.pieces) EXCEPT
     !.orphan = FALSE, !.damaged = @ \/ h.bad]

\* Lines 314-324: a fragment; one without a start is an orphan.
TakeFragment(d, h) ==
  LET old == IF h.s /\ d.fuOpen THEN DropOpenFu(d) ELSE d
      c == IF h.s THEN [old EXCEPT !.fuOpen = TRUE, !.fuStart = Len(old.buf),
                                   !.orphan = FALSE]
                  ELSE old
  IN IF c.fuOpen THEN [AppendPieces(c, h.pieces) EXCEPT !.fuOpen = ~h.e]
     ELSE [c EXCEPT !.lostFrag = IF c.orphan THEN @ ELSE @ + 1, !.orphan = ~h.e]

\* Line 329: the marker ends the AU; the next packet opens a new one.
EndAtMarker(d, h) ==
  IF h.marker THEN [Reset(Emit(d, TRUE), d.ts) EXCEPT !.haveTs = FALSE] ELSE d

Push(d, h, seq) ==
  IF IsLate(d, seq) THEN [d EXCEPT !.late = @ + 1, !.out = <<>>]
  ELSE LET c == CountPacket(OpenAu(TakeSeq(d, seq), h.ts))
       IN EndAtMarker(IF h.fu THEN TakeFragment(c, h) ELSE TakeNals(c, h), h)

-----------------------------------------------------------------------------
DepackInit ==
  /\ dp = Fresh
  /\ base \in FirstSeq
  /\ taken = {} /\ at = 0 /\ newest = 0 /\ strays = 0 /\ events = <<>>

WireSeq(k) == (base + k) % Modulus

\* Packet k comes out of the network.
Arrive(k) ==
  /\ k > newest - Window
  /\ newest > 0 => k <= newest + Ahead
  /\ k <= newest => strays < MaxStrays
  /\ dp' = Push(dp, Stream[k], WireSeq(k))
  /\ events' = events \o dp'.out
  /\ IF IsLate(dp, WireSeq(k)) THEN UNCHANGED <<taken, at>>
                               ELSE taken' = taken \cup {k} /\ at' = k
  /\ newest' = Max({newest, k})
  /\ strays' = IF k <= newest THEN strays + 1 ELSE strays
  /\ UNCHANGED base

DepackNext == \E k \in DOMAIN Stream : Arrive(k)

DepackSpec == DepackInit /\ [][DepackNext]_depackVars

-----------------------------------------------------------------------------
(* Properties                                                               *)

\* The pieces of a packet's AU up to and including this packet.
AuUpTo[k \in 1 .. Len(Stream)] ==
  IF k > 1 /\ Stream[k - 1].ts = Stream[k].ts THEN AuUpTo[k - 1] \o Stream[k].pieces
                                             ELSE Stream[k].pieces

\* Everything an AU is made of.
Content(ts) == AuUpTo[Max({k \in DOMAIN Stream : Stream[k].ts = ts})]

Reported == {events[i].ts : i \in DOMAIN events}

Follows(next, piece) == next = <<piece[1], piece[2] + 1, piece[3]>>

\* A fragment has those before and after it around it; the last may be open.
Unbroken(buf, open) ==
  \A j \in DOMAIN buf :
    /\ buf[j][2] > 1 => j > 1 /\ Follows(buf[j], buf[j - 1])
    /\ buf[j][2] < buf[j][3] =>
         IF j = Len(buf) THEN open ELSE Follows(buf[j + 1], buf[j])

(* The decoder never gets half a NAL unit, whatever fragments were lost,     *)
(* repeated or late and wherever a reset cut the AU (lines 243-245); only    *)
(* an AU that did not fit the buffer, marked damaged, may be cut.            *)
WholeNals ==
  \A i \in DOMAIN events : ~events[i].damaged => Unbroken(events[i].buf, FALSE)

(* An AU reported complete is all there, except at the places where the code *)
(* cannot know: the very first AU, an AU after one whose tail is missing too *)
(* (the limit of lines 241-242), and when the sequence was reset.            *)
CompleteIsWhole ==
  \A i \in DOMAIN events : events[i].complete =>
    \/ events[i].buf = Content(events[i].ts)
    \/ i = 1 \/ ~events[i - 1].complete
    \/ dp.resets > 0

(* Nothing is lost between the counters: as long as the sequence was not     *)
(* reset, the packets assembled and the packets counted as lost are all      *)
(* those from the first to the last one accepted, wraparound included.      *)
EveryPacketAccounted ==
  taken # {} /\ dp.resets = 0 =>
    dp.told + dp.packets + dp.lost = Max(taken) - Min(taken) + 1

(* Every AU of which a packet was accepted is reported or still open, even   *)
(* when every byte of it was discarded (line 252); without a reset AUs are   *)
(* reported in order and no AU twice.                                       *)
NothingVanishes ==
  /\ \A k \in taken : \/ Stream[k].ts \in Reported
                      \/ dp.haveTs /\ Stream[k].ts = dp.ts
  /\ dp.resets = 0 =>
       \A i, j \in DOMAIN events : i < j => events[i].ts < events[j].ts

-----------------------------------------------------------------------------
(* What the repository says and the code does not always do                 *)

(* docs/TRACE_SCHEMA.md line 25: an AU that suffered loss counts as          *)
(* incomplete (apart from the limit stated in the code, lines 241-242).      *)
LossMakesIncomplete ==
  \A i \in DOMAIN events : events[i].complete =>
    events[i].buf = Content(events[i].ts) \/ (i > 1 /\ ~events[i - 1].complete)

-----------------------------------------------------------------------------
(* Inductive invariants (see FfmpegProofs)                                  *)

Event == [complete : BOOLEAN, ts : Nat, buf : Seq(Piece), packets : Nat,
          lost : Nat, damaged : BOOLEAN, buffer : Nat]
Fields ==
  [haveSeq : BOOLEAN, lastSeq : Nat, haveTs : BOOLEAN, ts : Nat, buf : Seq(Piece),
   packets : Nat, lost : Nat, lostFrag : Nat, damaged : BOOLEAN, fuOpen : BOOLEAN,
   fuStart : Nat, orphan : BOOLEAN, gap : Nat, cur : Nat, late : Nat, resets : Nat,
   out : Seq(Event), told : Nat]

DepackTypes ==
  /\ dp \in Fields /\ Len(dp.buf) <= Cap
  /\ dp.fuOpen => dp.fuStart <= Len(dp.buf)
  /\ base \in FirstSeq /\ taken \subseteq DOMAIN Stream
  /\ at \in Nat /\ newest \in Nat /\ strays \in Nat /\ events \in Seq(Event)

\* last_seq_ is that of the last packet accepted, which is not far behind.
SeqTells ==
  IF dp.haveSeq
    THEN /\ at \in taken /\ dp.lastSeq = WireSeq(at)
         /\ newest - Window < at /\ at <= newest
    ELSE /\ taken = {} /\ newest = 0 /\ events = <<>> /\ dp = Fresh

\* An AU is open until its marker came; then nothing is left of it.
OpenUntilMarker ==
  dp.haveSeq =>
    /\ dp.gap = 0
    /\ IF dp.haveTs THEN dp.packets > 0 /\ dp.ts = Stream[at].ts
                    ELSE dp.packets = 0 /\ dp.lost = 0 /\ Stream[at].marker

\* d was assembled up to packet p: only the NAL unit p belongs to may be open.
BufferUnbroken(d, p) ==
  ~d.damaged =>
    IF d.fuOpen
      THEN /\ d.fuStart < Len(d.buf) /\ Unbroken(SubSeq(d.buf, 1, d.fuStart), FALSE)
           /\ Unbroken(d.buf, TRUE) /\ d.buf[Len(d.buf)] = Stream[p].pieces[1]
           /\ Stream[p].fu /\ ~Stream[p].e
      ELSE Unbroken(d.buf, FALSE)

Intact(d) == d.lost = 0 /\ d.lostFrag = 0 /\ ~d.damaged

FirstOfAu(k) == k = 1 \/ Stream[k - 1].ts # Stream[k].ts

\* What was assembled from the first packet of an AU on without a loss is all.
IntactIsWhole(d, p) ==
  Intact(d) /\ d.packets > 0 =>
    /\ ~d.orphan /\ d.packets <= p
    /\ FirstOfAu(p - d.packets + 1) => d.buf = AuUpTo[p]

\* After a complete AU, whatever was missed would be counted as lost.
BeginsAfterMarker(d, p, evs) ==
  /\ evs # <<>> /\ evs[Len(evs)].complete /\ d.resets = 0 /\ d.lost = 0
  => p > d.packets /\ Stream[p - d.packets].marker

InOrder ==
  dp.resets = 0 =>
    \A i \in DOMAIN events :
      IF dp.haveTs THEN events[i].ts < dp.ts ELSE events[i].ts <= Stream[at].ts

LastIsGreatest == dp.resets = 0 => \A k \in taken : k <= at

\* The count runs from the first position taken to the last.
CountIsSpan ==
  dp.haveSeq /\ dp.resets = 0 =>
    \E m \in taken : /\ \A k \in taken : m <= k
                     /\ dp.told + dp.packets + dp.lost = at - m + 1

DepackInv ==
  /\ DepackTypes /\ SeqTells /\ OpenUntilMarker
  /\ BufferUnbroken(dp, at) /\ IntactIsWhole(dp, at)
  /\ BeginsAfterMarker(dp, at, events) /\ InOrder /\ LastIsGreatest /\ CountIsSpan
  /\ WholeNals /\ CompleteIsWhole /\ NothingVanishes
=============================================================================
