------------------------------ MODULE RingCore ------------------------------
(***************************************************************************)
(* The lock-free ring every tracer of the testbed is built on:             *)
(* TraceRing::Write and the scan loop of TraceRing::FlushOnce              *)
(* (ffmpeg|gstreamer|webrtc/apps/common/trace_ring.h, same text) and       *)
(* trace_ring::write / flush of the gNB tracer.  Each atomic access of the  *)
(* code is a step of its own, and so is each access to the plain `row` of   *)
(* a slot, whose beginning and end are two states: a thread is at "copy"    *)
(* while it writes the row, the flusher at "format" while it reads one.     *)
(*                                                                         *)
(* Who may call Write or FlushOnce, and when, is not decided here; see      *)
(* TraceRing (the close protocol of the apps) for that.                     *)
(***************************************************************************)
EXTENDS Integers, Sequences, FiniteSets

CONSTANTS Producers,  \* threads that call Write
          Cap,        \* cap_: number of slots, a power of two in the code
          MaxWrites   \* bound: calls of Write per producer

ASSUME ProducersAssumption == IsFiniteSet(Producers)
ASSUME CapAssumption == Cap \in Nat \ {0}
ASSUME MaxWritesAssumption == MaxWrites \in Nat

Row == Producers \X (1 .. MaxWrites)   \* the k-th row offered by producer p
NoRow == <<>>                          \* what an unused slot holds

VARIABLES
  \* producers
  pc,        \* where each producer is in Write
  idx,       \* its local `i`
  writes,    \* rows it has offered so far
  \* shared atomics and slots
  claimed, consumed, overflow,
  ready,     \* ready[s]: slots_[s].ready
  row,       \* row[s]: slots_[s].row
  \* flusher locals
  scan,      \* where it is in the loop of FlushOnce
  m, end,
  \* history
  log,       \* rows formatted so far, in order
  claimLog   \* claimLog[k+1]: the row whose producer won sequence number k

prodVars == <<pc, idx, writes>>
scanVars == <<scan, m, end>>
coreVars == <<pc, idx, writes, claimed, consumed, overflow, ready, row,
              scan, m, end, log, claimLog>>

SlotIds == 0 .. (Cap - 1)
Slot(k) == k % Cap                     \* k & mask_

MyRow(p) == <<p, writes[p]>>           \* the row p is offering now

CoreInit ==
  /\ pc = [p \in Producers |-> "idle"]
  /\ idx = [p \in Producers |-> 0]
  /\ writes = [p \in Producers |-> 0]
  /\ claimed = 0 /\ consumed = 0 /\ overflow = 0
  /\ ready = [s \in SlotIds |-> FALSE]
  /\ row = [s \in SlotIds |-> NoRow]
  /\ scan = "idle" /\ m = 0 /\ end = 0
  /\ log = <<>> /\ claimLog = <<>>

-----------------------------------------------------------------------------
(* Write: lines 67-78                                                       *)

\* A caller offers its next row and gets past the gate of its own ring.
EnterWrite(p) ==
  /\ pc[p] = "idle" /\ writes[p] < MaxWrites
  /\ pc' = [pc EXCEPT ![p] = "load"]
  /\ writes' = [writes EXCEPT ![p] = @ + 1]
  /\ UNCHANGED <<idx, claimed, consumed, overflow, ready, row, scanVars,
                 log, claimLog>>

\* A caller offers its next row to a ring that is closed.
RefuseWrite(p) ==
  /\ pc[p] = "idle" /\ writes[p] < MaxWrites
  /\ writes' = [writes EXCEPT ![p] = @ + 1]
  /\ UNCHANGED <<pc, idx, claimed, consumed, overflow, ready, row, scanVars,
                 log, claimLog>>

\* i = claimed_.load()
LoadClaimed(p) ==
  /\ pc[p] = "load"
  /\ idx' = [idx EXCEPT ![p] = claimed]
  /\ pc' = [pc EXCEPT ![p] = "check"]
  /\ UNCHANGED <<writes, claimed, consumed, overflow, ready, row, scanVars,
                 log, claimLog>>

(* i - consumed_ >= cap_ on size_t: a difference below zero wraps to a      *)
(* number far above any capacity.                                          *)
LooksFull_OffByOne(i) == i < consumed \/ i - consumed > Cap

LooksFull(i) == i < consumed \/ i - consumed >= Cap

\* Dropping a row without counting it.
CheckFull_Uncounted(p) ==
  /\ pc[p] = "check"
  /\ pc' = [pc EXCEPT ![p] = IF LooksFull(idx[p]) THEN "idle" ELSE "cas"]
  /\ UNCHANGED <<idx, writes, claimed, consumed, overflow, ready, row,
                 scanVars, log, claimLog>>

CheckFull(p) ==
  /\ pc[p] = "check"
  /\ \/ /\ LooksFull(idx[p])
        /\ overflow' = overflow + 1
        /\ pc' = [pc EXCEPT ![p] = "idle"]
     \/ /\ ~LooksFull(idx[p])
        /\ pc' = [pc EXCEPT ![p] = "cas"]
        /\ UNCHANGED overflow
  /\ UNCHANGED <<idx, writes, claimed, consumed, ready, row, scanVars, log,
                 claimLog>>

\* Claiming with a plain store instead of a compare-and-swap.
CasSucceeds_NoCompare(p) ==
  /\ pc[p] = "cas"
  /\ claimed' = idx[p] + 1
  /\ claimLog' = Append(claimLog, MyRow(p))
  /\ pc' = [pc EXCEPT ![p] = "copy"]
  /\ UNCHANGED <<idx, writes, consumed, overflow, ready, row, scanVars, log>>

CasSucceeds(p) ==
  /\ pc[p] = "cas" /\ claimed = idx[p]
  /\ claimed' = idx[p] + 1
  /\ claimLog' = Append(claimLog, MyRow(p))
  /\ pc' = [pc EXCEPT ![p] = "copy"]
  /\ UNCHANGED <<idx, writes, consumed, overflow, ready, row, scanVars, log>>

\* compare_exchange_weak fails, spuriously or not: `i` is reloaded.
CasFails(p) ==
  /\ pc[p] = "cas"
  /\ idx' = [idx EXCEPT ![p] = claimed]
  /\ pc' = [pc EXCEPT ![p] = "check"]
  /\ UNCHANGED <<writes, claimed, consumed, overflow, ready, row, scanVars,
                 log, claimLog>>

\* The POD copy s.row = r ends.
CopyRow(p) ==
  /\ pc[p] = "copy"
  /\ row' = [row EXCEPT ![Slot(idx[p])] = MyRow(p)]
  /\ pc' = [pc EXCEPT ![p] = "publish"]
  /\ UNCHANGED <<idx, writes, claimed, consumed, overflow, ready, scanVars,
                 log, claimLog>>

\* s.ready.store(1)
Publish(p) ==
  /\ pc[p] = "publish"
  /\ ready' = [ready EXCEPT ![Slot(idx[p])] = TRUE]
  /\ pc' = [pc EXCEPT ![p] = "idle"]
  /\ UNCHANGED <<idx, writes, claimed, consumed, overflow, row, scanVars,
                 log, claimLog>>

\* The steps of a Write that has passed the gate.
WriteStep(p) ==
  \/ LoadClaimed(p) \/ CheckFull(p) \/ CasSucceeds(p) \/ CasFails(p)
  \/ CopyRow(p) \/ Publish(p)

-----------------------------------------------------------------------------
(* FlushOnce: lines 117-118 and 125-130                                     *)

BeginScan ==
  /\ scan = "idle"
  /\ m' = consumed /\ end' = claimed
  /\ scan' = "test"
  /\ UNCHANGED <<prodVars, claimed, consumed, overflow, ready, row, log,
                 claimLog>>

\* Reading a slot because it was claimed, published or not.
FoundReady_IgnoreFlag ==
  /\ scan = "test" /\ m # end
  /\ scan' = "format"
  /\ UNCHANGED <<prodVars, claimed, consumed, overflow, ready, row, m, end,
                 log, claimLog>>

FoundReady ==
  /\ scan = "test" /\ m # end /\ ready[Slot(m)]
  /\ scan' = "format"
  /\ UNCHANGED <<prodVars, claimed, consumed, overflow, ready, row, m, end,
                 log, claimLog>>

\* fmt_(f, slots_[m & mask_].row) returns.
FormatRow ==
  /\ scan = "format"
  /\ log' = Append(log, row[Slot(m)])
  /\ scan' = "release"
  /\ UNCHANGED <<prodVars, claimed, consumed, overflow, ready, row, m, end,
                 claimLog>>

\* ready = 0, ++m, written_++
ReleaseSlot ==
  /\ scan = "release"
  /\ ready' = [ready EXCEPT ![Slot(m)] = FALSE]
  /\ m' = m + 1
  /\ scan' = "test"
  /\ UNCHANGED <<prodVars, claimed, consumed, overflow, row, end, log,
                 claimLog>>

\* consumed_.store(m)
EndScan ==
  /\ scan = "test" /\ (m = end \/ ~ready[Slot(m)])
  /\ consumed' = m
  /\ scan' = "idle"
  /\ UNCHANGED <<prodVars, claimed, overflow, ready, row, m, end, log,
                 claimLog>>

\* The file cannot be opened: back before any slot was looked at.
AbandonScan ==
  /\ scan = "test" /\ m = consumed
  /\ scan' = "idle"
  /\ UNCHANGED <<prodVars, claimed, consumed, overflow, ready, row, m, end,
                 log, claimLog>>

ScanStep == FoundReady \/ FormatRow \/ ReleaseSlot \/ EndScan

-----------------------------------------------------------------------------
CoreNext ==
  \/ \E p \in Producers : EnterWrite(p) \/ RefuseWrite(p) \/ WriteStep(p)
  \/ BeginScan
  \/ ScanStep
  \/ AbandonScan

CoreSpec == CoreInit /\ [][CoreNext]_coreVars

-----------------------------------------------------------------------------
(* Properties                                                               *)

CoreTypeOK ==
  /\ pc \in [Producers -> {"idle", "load", "check", "cas", "copy", "publish"}]
  /\ idx \in [Producers -> Nat]
  /\ writes \in [Producers -> 0 .. MaxWrites]
  /\ claimed \in Nat /\ consumed \in Nat /\ overflow \in Nat
  /\ ready \in [SlotIds -> BOOLEAN]
  /\ row \in [SlotIds -> Row \cup {NoRow}]
  /\ scan \in {"idle", "test", "format", "release"}
  /\ m \in Nat /\ end \in Nat
  /\ log \in Seq(Row \cup {NoRow}) /\ claimLog \in Seq(Row)

Copying(p) == pc[p] \in {"copy", "publish"}

\* Rows offered so far, and the producers whose row has no number yet.
OfferedRows == {r \in Row : r[2] <= writes[r[1]]}
Offered == Cardinality(OfferedRows)
InWriteUnclaimed == {p \in Producers : pc[p] \in {"load", "check", "cas"}}

(* The plain (non-atomic) row of a slot is never written by one producer    *)
(* while another producer or the flusher has it in hand: `ready` and the    *)
(* distance check are all that keeps Write and FlushOnce off each other.    *)
NoTornAccess ==
  /\ \A p, q \in Producers :
       p # q /\ Copying(p) /\ Copying(q) => Slot(idx[p]) # Slot(idx[q])
  /\ \A p \in Producers :
       Copying(p) /\ scan \in {"format", "release"} => Slot(idx[p]) # Slot(m)

(* What the flusher formats is exactly the rows that were claimed, each     *)
(* once, in the order of the sequence numbers, whatever thread published    *)
(* first.                                                                  *)
LogIsClaimPrefix ==
  /\ Len(log) <= Len(claimLog)
  /\ \A k \in 1 .. Len(log) : log[k] = claimLog[k]

(* Sequence numbers that are claimed and not yet freed never outnumber the  *)
(* slots, although `i` and `consumed_` were read at different moments, and  *)
(* the flusher never runs past what was claimed when its scan began.        *)
WindowFits ==
  /\ consumed <= m /\ m <= end /\ end <= claimed
  /\ claimed - consumed <= Cap
  /\ claimed = Len(claimLog)

(* A slot's flag is raised only for a row that is waiting to be logged, so  *)
(* the flusher can never take an old lap's flag for the current one.        *)
FlagMeansWaiting ==
  \A s \in SlotIds : ready[s] =>
     \E k \in m .. (claimed - 1) : Slot(k) = s /\ row[s] = claimLog[k + 1]

-----------------------------------------------------------------------------
(* The inductive invariant: the safety properties above and what they rest  *)
(* on.                                                                      *)

\* The flusher's place in the window of unfreed sequence numbers.
ScanInWindow ==
  /\ WindowFits
  /\ scan = "idle" => m = consumed
  /\ scan \in {"format", "release"} => m < end /\ ready[Slot(m)]

\* The log is as long as the scan has come.
LogFollowsScan ==
  /\ Len(log) = IF scan = "release" THEN m + 1 ELSE m
  /\ \A k \in 1 .. Len(log) : log[k] = claimLog[k]

\* A producer about to claim `i` has seen room for it; room only grows.
RoomSeen == \A p \in Producers : pc[p] = "cas" => idx[p] - consumed < Cap

\* Between claim and publication a sequence number has one owner, its slot's
\* flag is down and the flusher has not passed it.
ClaimHeld ==
  \A p \in Producers : Copying(p) =>
    /\ m <= idx[p] /\ idx[p] < claimed
    /\ ~ready[Slot(idx[p])]
    /\ claimLog[idx[p] + 1] = MyRow(p)
    /\ pc[p] = "publish" => row[Slot(idx[p])] = MyRow(p)

OneOwner ==
  \A p, q \in Producers :
    p # q /\ Copying(p) /\ Copying(q) => idx[p] # idx[q]

(* Strong enough to be preserved by every step of CoreNext.                 *)
RingInv ==
  /\ ScanInWindow /\ LogFollowsScan /\ RoomSeen
  /\ ClaimHeld /\ OneOwner /\ FlagMeansWaiting

(* A sequence number that is claimed and not yet formatted and freed is     *)
(* either published or still in its claimant's hands.                      *)
NoneForgotten ==
  \A k \in m .. (claimed - 1) :
    ready[Slot(k)] \/ \E p \in Producers : Copying(p) /\ idx[p] = k

(* The rows offered that are neither dropped and counted, nor claimed, nor  *)
(* still on their way: those a caller refused.                             *)
Refused == Offered - overflow - Len(claimLog) - Cardinality(InWriteUnclaimed)

-----------------------------------------------------------------------------
(* What the header promises of a full ring (lines 24-25 and the comment of  *)
(* line 69): a row is dropped only when its slot still holds an unflushed   *)
(* row, that is, when all Cap slots are claimed and not yet freed.          *)
DropOnlyWhenFull ==
  [][overflow' > overflow => claimed - consumed >= Cap]_coreVars

(* The ring implements the bounded FIFO log of TraceLog.                    *)
LogAbs == INSTANCE TraceLog WITH
  Row <- Row, Cap <- Cap,
  accepted <- claimLog, logged <- log, dropped <- overflow

ImplementsLog == LogAbs!LogSpec
=============================================================================
