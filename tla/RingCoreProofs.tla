--------------------------- MODULE RingCoreProofs ---------------------------
(***************************************************************************)
(* Proofs about RingCore for any set of producers, any number of rows and   *)
(* any capacity: the ring never lets two threads into one slot, and the    *)
(* flusher logs the claimed rows exactly once and in order.                *)
(***************************************************************************)
EXTENDS RingCore, FiniteSetTheorems, TLAPS

(* Two sequence numbers closer than the ring is long use different slots    *)
(* (line 76, `slots_[i & mask_]`).                                          *)
LEMMA SlotInjective ==
  ASSUME NEW a \in Nat, NEW b \in Nat, a < b, b - a < Cap
  PROVE  Slot(a) # Slot(b)
<1> DEFINE qa == a \div Cap
           qb == b \div Cap
<1> USE CapAssumption
<1>1. qa \in Int /\ a = Cap * qa + (a % Cap) /\ a % Cap \in 0 .. (Cap - 1)
  OBVIOUS
<1>2. qb \in Int /\ b = Cap * qb + (b % Cap) /\ b % Cap \in 0 .. (Cap - 1)
  OBVIOUS
<1> HIDE DEF qa, qb
<1>3. SUFFICES ASSUME a % Cap = b % Cap PROVE FALSE
  BY DEF Slot
<1>4. b - a = Cap * (qb - qa)
  BY <1>1, <1>2, <1>3
<1>5. CASE qb - qa >= 1
  BY <1>1, <1>2, <1>4, <1>5
<1>6. CASE qb - qa <= 0
  BY <1>1, <1>2, <1>4, <1>6
<1> QED BY <1>1, <1>2, <1>5, <1>6

(* The slot of a sequence number is one of the ring's.                      *)
LEMMA SlotInRing ==
  ASSUME NEW a \in Nat
  PROVE  Slot(a) \in SlotIds
BY CapAssumption DEF Slot, SlotIds

-----------------------------------------------------------------------------
(* Type correctness (all the variables of Write and FlushOnce).  A thread   *)
(* inside Write has offered at least one row.                               *)
TypeInv ==
  /\ CoreTypeOK
  /\ \A p \in Producers : pc[p] # "idle" => writes[p] \in 1 .. MaxWrites

LEMMA TypeInit == CoreInit => TypeInv
BY MaxWritesAssumption DEF CoreInit, TypeInv, CoreTypeOK

LEMMA TypeStep == TypeInv /\ [CoreNext]_coreVars => TypeInv'
<1> SUFFICES ASSUME TypeInv, [CoreNext]_coreVars PROVE TypeInv'
  OBVIOUS
<1> USE CapAssumption, MaxWritesAssumption DEF TypeInv, CoreTypeOK
<1>1. ASSUME NEW p \in Producers, EnterWrite(p) PROVE TypeInv'
  BY <1>1 DEF EnterWrite, scanVars
<1>2. ASSUME NEW p \in Producers, RefuseWrite(p) PROVE TypeInv'
  BY <1>2 DEF RefuseWrite, scanVars
<1>3. ASSUME NEW p \in Producers, LoadClaimed(p) PROVE TypeInv'
  BY <1>3 DEF LoadClaimed, scanVars
<1>4. ASSUME NEW p \in Producers, CheckFull(p) PROVE TypeInv'
  <2>1. CASE LooksFull(idx[p])
    BY <1>4, <2>1 DEF CheckFull, scanVars
  <2>2. CASE ~LooksFull(idx[p])
    BY <1>4, <2>2 DEF CheckFull, scanVars
  <2> QED BY <2>1, <2>2
<1>5. ASSUME NEW p \in Producers, CasSucceeds(p) PROVE TypeInv'
  <2>1. MyRow(p) \in Row
    BY <1>5 DEF CasSucceeds, MyRow, Row
  <2> QED BY <1>5, <2>1 DEF CasSucceeds, scanVars
<1>6. ASSUME NEW p \in Producers, CasFails(p) PROVE TypeInv'
  BY <1>6 DEF CasFails, scanVars
<1>7. ASSUME NEW p \in Producers, CopyRow(p) PROVE TypeInv'
  <2>1. MyRow(p) \in Row
    BY <1>7 DEF CopyRow, MyRow, Row
  <2>2. row' \in [SlotIds -> Row \cup {NoRow}]
    BY <1>7, <2>1 DEF CopyRow
  <2> QED BY <1>7, <2>2 DEF CopyRow, scanVars
<1>8. ASSUME NEW p \in Producers, Publish(p) PROVE TypeInv'
  BY <1>8 DEF Publish, scanVars
<1>9. CASE BeginScan
  BY <1>9 DEF BeginScan, prodVars
<1>10. CASE FoundReady
  BY <1>10 DEF FoundReady, prodVars
<1>11. CASE FormatRow
  BY <1>11, SlotInRing DEF FormatRow, prodVars
<1>12. CASE ReleaseSlot
  <2>1. ready' \in [SlotIds -> BOOLEAN]
    BY <1>12 DEF ReleaseSlot
  <2> QED BY <1>12, <2>1 DEF ReleaseSlot, prodVars
<1>13. CASE EndScan
  BY <1>13 DEF EndScan, prodVars
<1>14. CASE AbandonScan
  BY <1>14 DEF AbandonScan, prodVars
<1>15. CASE UNCHANGED coreVars
  BY <1>15 DEF coreVars, scanVars, prodVars
<1> QED
  BY <1>1, <1>2, <1>3, <1>4, <1>5, <1>6, <1>7, <1>8, <1>9, <1>10, <1>11,
     <1>12, <1>13, <1>14, <1>15 DEF CoreNext, WriteStep, ScanStep

(* Every variable of Write and FlushOnce keeps its type.                    *)
THEOREM CoreTypeCorrect == CoreSpec => []CoreTypeOK
<1>1. TypeInv => CoreTypeOK
  BY DEF TypeInv
<1> QED BY <1>1, TypeInit, TypeStep, PTL DEF CoreSpec

-----------------------------------------------------------------------------
(* The inductive invariant.                                                 *)

LEMMA RingInvInit == CoreInit => RingInv
BY CapAssumption
   DEF CoreInit, RingInv, ScanInWindow, WindowFits, LogFollowsScan, RoomSeen,
       ClaimHeld, OneOwner, FlagMeansWaiting, Copying

(* A write that has not claimed anything, and a scan that gives up, disturb *)
(* nothing of the invariant but RoomSeen.                                   *)
LEMMA QuietStep ==
  ASSUME TypeInv, RingInv,
         NEW p \in Producers,
         EnterWrite(p) \/ RefuseWrite(p) \/ LoadClaimed(p) \/ CheckFull(p)
           \/ CasFails(p)
  PROVE  RingInv'
<1> USE DEF TypeInv, CoreTypeOK
<1>1. UNCHANGED <<claimed, consumed, ready, row, scan, m, end, log, claimLog>>
  BY DEF EnterWrite, RefuseWrite, LoadClaimed, CheckFull, CasFails, scanVars
<1>2. /\ ~Copying(p)' 
      /\ \A q \in Producers \ {p} :
            pc'[q] = pc[q] /\ idx'[q] = idx[q] /\ writes'[q] = writes[q]
  BY DEF EnterWrite, RefuseWrite, LoadClaimed, CheckFull, CasFails, Copying
<1>3. pc'[p] = "cas" => idx'[p] = idx[p] /\ idx[p] - consumed < Cap
  BY CapAssumption
  DEF EnterWrite, RefuseWrite, LoadClaimed, CheckFull, CasFails, LooksFull
<1>4. ScanInWindow' /\ LogFollowsScan' /\ FlagMeansWaiting'
  BY <1>1 DEF RingInv, ScanInWindow, WindowFits, LogFollowsScan,
              FlagMeansWaiting, Slot
<1>5. RoomSeen'
  BY <1>1, <1>2, <1>3 DEF RingInv, RoomSeen
<1>6. ClaimHeld' /\ OneOwner'
  BY <1>1, <1>2 DEF RingInv, ClaimHeld, OneOwner, Copying, Slot, MyRow
<1> QED BY <1>4, <1>5, <1>6 DEF RingInv

(* Claiming: the slot of the new sequence number is free, since any flag    *)
(* up in it would belong to a number less than Cap away.                    *)
LEMMA ClaimStep ==
  ASSUME TypeInv, RingInv, NEW p \in Producers, CasSucceeds(p)
  PROVE  RingInv'
<1> USE CapAssumption DEF TypeInv, CoreTypeOK
<1>1. /\ UNCHANGED <<consumed, ready, row, scan, m, end, log, idx, writes>>
      /\ claimed' = claimed + 1 /\ idx[p] = claimed
      /\ claimLog' = Append(claimLog, MyRow(p))
      /\ pc' = [pc EXCEPT ![p] = "copy"] /\ pc[p] = "cas"
  BY DEF CasSucceeds, scanVars
<1>2. /\ consumed <= m /\ m <= end /\ end <= claimed
      /\ claimed - consumed < Cap /\ claimed = Len(claimLog)
  BY <1>1 DEF RingInv, ScanInWindow, WindowFits, RoomSeen
<1>3. MyRow(p) \in Row
  BY <1>1 DEF MyRow, Row
<1>4. /\ Len(claimLog') = claimed + 1
      /\ claimLog'[claimed + 1] = MyRow(p)
      /\ \A k \in 1 .. claimed : claimLog'[k] = claimLog[k]
  BY <1>1, <1>2, <1>3
<1>5. ~ready[Slot(claimed)]
  <2> SUFFICES ASSUME ready[Slot(claimed)] PROVE FALSE
    OBVIOUS
  <2>1. PICK k \in m .. (claimed - 1) : Slot(k) = Slot(claimed)
    BY SlotInRing DEF RingInv, FlagMeansWaiting
  <2>2. k \in Nat /\ k < claimed /\ claimed - k < Cap
    BY <1>2, <2>1
  <2> QED BY <2>1, <2>2, SlotInjective
<1>6. ScanInWindow'
  BY <1>1, <1>2, <1>4 DEF RingInv, ScanInWindow, WindowFits, Slot
<1>7. LogFollowsScan'
  <2>1. Len(log) <= claimed
    BY <1>2 DEF RingInv, LogFollowsScan, ScanInWindow
  <2> QED BY <1>1, <1>4, <2>1 DEF RingInv, LogFollowsScan
<1>8. RoomSeen'
  BY <1>1 DEF RingInv, RoomSeen
<1>9. ClaimHeld'
  <2> SUFFICES ASSUME NEW q \in Producers, Copying(q)'
               PROVE  /\ m <= idx[q] /\ idx[q] < claimed + 1
                      /\ ~ready[Slot(idx[q])]
                      /\ claimLog'[idx[q] + 1] = MyRow(q)
                      /\ pc'[q] = "publish" => row[Slot(idx[q])] = MyRow(q)
    BY <1>1 DEF ClaimHeld, Slot, MyRow
  <2>1. CASE q = p
    BY <1>1, <1>2, <1>4, <1>5, <2>1
  <2>2. CASE q # p
    <3>1. Copying(q) /\ pc'[q] = pc[q]
      BY <1>1, <2>2 DEF Copying
    <3> QED BY <1>2, <1>4, <3>1 DEF RingInv, ClaimHeld
  <2> QED BY <2>1, <2>2
<1>10. OneOwner'
  <2> SUFFICES ASSUME NEW q \in Producers, q # p, Copying(q)
               PROVE  idx[q] # idx[p]
    BY <1>1 DEF RingInv, OneOwner, Copying
  <2> QED BY <1>1 DEF RingInv, ClaimHeld
<1>11. FlagMeansWaiting'
  <2> SUFFICES ASSUME NEW s \in SlotIds, ready[s]
               PROVE  \E k \in m .. claimed :
                        Slot(k) = s /\ row[s] = claimLog'[k + 1]
    <3>1. m' .. (claimed' - 1) = m .. claimed
      BY <1>1
    <3> QED BY <1>1, <3>1 DEF FlagMeansWaiting
  <2>1. PICK k \in m .. (claimed - 1) :
               Slot(k) = s /\ row[s] = claimLog[k + 1]
    BY DEF RingInv, FlagMeansWaiting
  <2>2. k \in m .. claimed /\ k + 1 \in 1 .. claimed
    BY <1>2, <2>1
  <2> QED BY <1>4, <2>1, <2>2
<1> QED BY <1>6, <1>7, <1>8, <1>9, <1>10, <1>11 DEF RingInv

(* Two producers with a claim are in different slots: their numbers differ  *)
(* and lie in one window no longer than the ring.                           *)
LEMMA ClaimsApart ==
  ASSUME TypeInv, RingInv,
         NEW p \in Producers, NEW q \in Producers, p # q,
         Copying(p), Copying(q)
  PROVE  Slot(idx[p]) # Slot(idx[q])
<1> USE CapAssumption DEF TypeInv, CoreTypeOK
<1>1. /\ idx[p] \in Nat /\ idx[q] \in Nat /\ idx[p] # idx[q]
      /\ consumed <= idx[p] /\ idx[p] < claimed
      /\ consumed <= idx[q] /\ idx[q] < claimed
      /\ claimed - consumed <= Cap
  BY DEF RingInv, OneOwner, ClaimHeld, ScanInWindow, WindowFits
<1>2. CASE idx[p] < idx[q]
  <2>1. idx[q] - idx[p] < Cap
    BY <1>1
  <2> QED BY <1>1, <1>2, <2>1, SlotInjective
<1>3. CASE idx[q] < idx[p]
  <2>1. idx[p] - idx[q] < Cap
    BY <1>1
  <2> QED BY <1>1, <1>3, <2>1, SlotInjective
<1> QED BY <1>1, <1>2, <1>3

(* Copying and publishing change one slot, the claimant's own.              *)
LEMMA CopyStep ==
  ASSUME TypeInv, RingInv, NEW p \in Producers, CopyRow(p)
  PROVE  RingInv'
<1> USE DEF TypeInv, CoreTypeOK
<1>1. /\ UNCHANGED <<claimed, consumed, ready, scan, m, end, log, idx, writes, claimLog>>
      /\ row' = [row EXCEPT ![Slot(idx[p])] = MyRow(p)]
      /\ pc' = [pc EXCEPT ![p] = "publish"] /\ pc[p] = "copy"
  BY DEF CopyRow, scanVars
<1>2. Copying(p) /\ Slot(idx[p]) \in SlotIds /\ ~ready[Slot(idx[p])]
  BY <1>1, SlotInRing DEF Copying, RingInv, ClaimHeld
<1>3. ScanInWindow' /\ LogFollowsScan'
  BY <1>1 DEF RingInv, ScanInWindow, WindowFits, LogFollowsScan, Slot
<1>4. RoomSeen' /\ OneOwner'
  BY <1>1 DEF RingInv, RoomSeen, OneOwner, Copying
<1>5. ClaimHeld'
  <2> SUFFICES ASSUME NEW q \in Producers, Copying(q)'
               PROVE  /\ m <= idx[q] /\ idx[q] < claimed
                      /\ ~ready[Slot(idx[q])]
                      /\ claimLog[idx[q] + 1] = MyRow(q)
                      /\ pc'[q] = "publish" => row'[Slot(idx[q])] = MyRow(q)
    BY <1>1 DEF ClaimHeld, Slot, MyRow
  <2>1. Copying(q)
    BY <1>1 DEF Copying
  <2>2. pc'[q] = "publish" => row'[Slot(idx[q])] = MyRow(q)
    <3>1. CASE q = p
      BY <1>1, <1>2, <3>1
    <3>2. CASE q # p
      <4>1. Slot(idx[q]) # Slot(idx[p]) /\ Slot(idx[q]) \in SlotIds
        BY <1>2, <2>1, <3>2, ClaimsApart, SlotInRing
      <4> QED BY <1>1, <1>2, <2>1, <3>2, <4>1 DEF RingInv, ClaimHeld
    <3> QED BY <3>1, <3>2
  <2> QED BY <2>1, <2>2 DEF RingInv, ClaimHeld
<1>6. FlagMeansWaiting'
  <2> SUFFICES ASSUME NEW s \in SlotIds, ready[s]
               PROVE  \E k \in m .. (claimed - 1) :
                        Slot(k) = s /\ row'[s] = claimLog[k + 1]
    BY <1>1 DEF FlagMeansWaiting, Slot
  <2>1. row'[s] = row[s]
    BY <1>1, <1>2
  <2> QED BY <2>1 DEF RingInv, FlagMeansWaiting
<1> QED BY <1>3, <1>4, <1>5, <1>6 DEF RingInv

LEMMA PublishStep ==
  ASSUME TypeInv, RingInv, NEW p \in Producers, Publish(p)
  PROVE  RingInv'
<1> USE DEF TypeInv, CoreTypeOK
<1>1. /\ UNCHANGED <<claimed, consumed, row, scan, m, end, log, idx, writes, claimLog>>
      /\ ready' = [ready EXCEPT ![Slot(idx[p])] = TRUE]
      /\ pc' = [pc EXCEPT ![p] = "idle"] /\ pc[p] = "publish"
  BY DEF Publish, scanVars
<1>2. /\ Copying(p) /\ Slot(idx[p]) \in SlotIds
      /\ m <= idx[p] /\ idx[p] < claimed
      /\ row[Slot(idx[p])] = claimLog[idx[p] + 1]
  BY <1>1, SlotInRing DEF Copying, RingInv, ClaimHeld
<1>3. \A s \in SlotIds : s # Slot(idx[p]) => ready'[s] = ready[s]
  BY <1>1, <1>2
<1>4. ScanInWindow'
  <2>1. ready[Slot(m)] => ready'[Slot(m)]
    BY <1>1, <1>2, SlotInRing
  <2> QED BY <1>1, <2>1 DEF RingInv, ScanInWindow, WindowFits, Slot
<1>5. LogFollowsScan' /\ RoomSeen' /\ OneOwner'
  BY <1>1 DEF RingInv, LogFollowsScan, RoomSeen, OneOwner, Copying
<1>6. ClaimHeld'
  <2> SUFFICES ASSUME NEW q \in Producers, Copying(q)'
               PROVE  /\ m <= idx[q] /\ idx[q] < claimed
                      /\ ~ready'[Slot(idx[q])]
                      /\ claimLog[idx[q] + 1] = MyRow(q)
                      /\ pc'[q] = "publish" => row[Slot(idx[q])] = MyRow(q)
    BY <1>1 DEF ClaimHeld, Slot, MyRow
  <2>1. Copying(q) /\ q # p /\ pc'[q] = pc[q]
    BY <1>1 DEF Copying
  <2>2. Slot(idx[q]) # Slot(idx[p]) /\ Slot(idx[q]) \in SlotIds
    BY <1>2, <2>1, ClaimsApart, SlotInRing
  <2> QED BY <1>3, <2>1, <2>2 DEF RingInv, ClaimHeld
<1>7. FlagMeansWaiting'
  <2> SUFFICES ASSUME NEW s \in SlotIds, ready'[s]
               PROVE  \E k \in m .. (claimed - 1) :
                        Slot(k) = s /\ row[s] = claimLog[k + 1]
    BY <1>1 DEF FlagMeansWaiting, Slot
  <2>1. CASE s = Slot(idx[p])
    BY <1>2, <2>1
  <2>2. CASE s # Slot(idx[p])
    BY <1>3, <2>2 DEF RingInv, FlagMeansWaiting
  <2> QED BY <2>1, <2>2
<1> QED BY <1>4, <1>5, <1>6, <1>7 DEF RingInv

-----------------------------------------------------------------------------
(* The flusher.                                                             *)

(* The slot under the scan holds the row that was claimed with number m.    *)
LEMMA SlotUnderScan ==
  ASSUME TypeInv, RingInv, scan \in {"format", "release"}
  PROVE  row[Slot(m)] = claimLog[m + 1]
<1> USE CapAssumption DEF TypeInv, CoreTypeOK
<1>1. PICK k \in m .. (claimed - 1) :
             Slot(k) = Slot(m) /\ row[Slot(m)] = claimLog[k + 1]
  BY SlotInRing DEF RingInv, FlagMeansWaiting, ScanInWindow
<1>2. k \in Nat /\ k - m < Cap
  BY <1>1 DEF RingInv, ScanInWindow, WindowFits
<1>3. k = m
  BY <1>1, <1>2, SlotInjective
<1> QED BY <1>1, <1>3

(* Steps of the scan that only move its program counter or consumed_.       *)
LEMMA ScanMoves ==
  ASSUME TypeInv, RingInv,
         BeginScan \/ FoundReady \/ EndScan \/ AbandonScan
  PROVE  RingInv'
<1> USE CapAssumption DEF TypeInv, CoreTypeOK
<1>1. /\ UNCHANGED <<prodVars, claimed, ready, row, log, claimLog>>
      /\ m' = m
      /\ scan # "release" /\ scan' # "release"
      /\ consumed <= consumed'
  BY DEF BeginScan, FoundReady, EndScan, AbandonScan, RingInv, ScanInWindow,
         WindowFits
<1>2. ScanInWindow'
  BY <1>1 DEF RingInv, ScanInWindow, WindowFits, BeginScan, FoundReady,
              EndScan, AbandonScan, Slot
<1>3. LogFollowsScan'
  BY <1>1 DEF RingInv, LogFollowsScan
<1>4. RoomSeen'
  <2>1. consumed' \in Nat
    BY DEF BeginScan, FoundReady, EndScan, AbandonScan
  <2> QED BY <1>1, <2>1 DEF RingInv, RoomSeen, prodVars
<1>5. ClaimHeld' /\ OneOwner' /\ FlagMeansWaiting'
  BY <1>1 DEF RingInv, ClaimHeld, OneOwner, FlagMeansWaiting, prodVars,
              Copying, MyRow, Slot
<1> QED BY <1>2, <1>3, <1>4, <1>5 DEF RingInv

LEMMA FormatStep ==
  ASSUME TypeInv, RingInv, FormatRow
  PROVE  RingInv'
<1> USE DEF TypeInv, CoreTypeOK
<1>1. /\ UNCHANGED <<prodVars, claimed, consumed, ready, row, m, end, claimLog>>
      /\ scan = "format" /\ scan' = "release"
      /\ log' = Append(log, row[Slot(m)])
  BY DEF FormatRow
<1>2. row[Slot(m)] = claimLog[m + 1] /\ row[Slot(m)] \in Row \cup {NoRow}
  BY <1>1, SlotUnderScan, SlotInRing
<1>3. Len(log) = m /\ \A k \in 1 .. m : log[k] = claimLog[k]
  BY <1>1 DEF RingInv, LogFollowsScan
<1>4. LogFollowsScan'
  BY <1>1, <1>2, <1>3 DEF LogFollowsScan
<1>5. ScanInWindow' /\ RoomSeen' /\ ClaimHeld' /\ OneOwner' /\ FlagMeansWaiting'
  BY <1>1 DEF RingInv, ScanInWindow, WindowFits, RoomSeen, ClaimHeld,
              OneOwner, FlagMeansWaiting, prodVars, Copying, MyRow, Slot
<1> QED BY <1>4, <1>5 DEF RingInv

LEMMA ReleaseStep ==
  ASSUME TypeInv, RingInv, ReleaseSlot
  PROVE  RingInv'
<1> USE CapAssumption DEF TypeInv, CoreTypeOK
<1>1. /\ UNCHANGED <<prodVars, claimed, consumed, row, end, log, claimLog>>
      /\ scan = "release" /\ scan' = "test" /\ m' = m + 1
      /\ ready' = [ready EXCEPT ![Slot(m)] = FALSE]
  BY DEF ReleaseSlot
<1>2. m < end /\ ready[Slot(m)] /\ Slot(m) \in SlotIds
  BY <1>1, SlotInRing DEF RingInv, ScanInWindow
<1>3. \A s \in SlotIds : ready'[s] => ready[s] /\ s # Slot(m)
  BY <1>1, <1>2
<1>4. ScanInWindow' /\ LogFollowsScan'
  BY <1>1, <1>2 DEF RingInv, ScanInWindow, WindowFits, LogFollowsScan
<1>5. RoomSeen' /\ OneOwner'
  BY <1>1 DEF RingInv, RoomSeen, OneOwner, prodVars, Copying
<1>6. ClaimHeld'
  <2> SUFFICES ASSUME NEW p \in Producers, Copying(p)
               PROVE  /\ m + 1 <= idx[p] /\ idx[p] < claimed
                      /\ ~ready'[Slot(idx[p])]
                      /\ claimLog[idx[p] + 1] = MyRow(p)
                      /\ pc[p] = "publish" => row[Slot(idx[p])] = MyRow(p)
    BY <1>1 DEF ClaimHeld, Copying, Slot, MyRow, prodVars
  <2>1. /\ m <= idx[p] /\ idx[p] < claimed
        /\ ~ready[Slot(idx[p])]
        /\ claimLog[idx[p] + 1] = MyRow(p)
        /\ pc[p] = "publish" => row[Slot(idx[p])] = MyRow(p)
    BY DEF RingInv, ClaimHeld
  <2>2. m # idx[p]
    BY <1>2, <2>1
  <2>3. ~ready'[Slot(idx[p])]
    BY <1>3, <2>1, SlotInRing
  <2>4. m + 1 <= idx[p]
    BY <2>1, <2>2
  <2> QED BY <2>1, <2>3, <2>4
<1>7. FlagMeansWaiting'
  <2> SUFFICES ASSUME NEW s \in SlotIds, ready'[s]
               PROVE  \E k \in (m + 1) .. (claimed - 1) :
                        Slot(k) = s /\ row[s] = claimLog[k + 1]
    BY <1>1 DEF FlagMeansWaiting, Slot
  <2>1. PICK k \in m .. (claimed - 1) :
               Slot(k) = s /\ row[s] = claimLog[k + 1]
    BY <1>3 DEF RingInv, FlagMeansWaiting
  <2>2. k # m
    BY <1>3, <2>1
  <2>3. k \in (m + 1) .. (claimed - 1)
    BY <2>1, <2>2
  <2> QED BY <2>1, <2>3
<1> QED BY <1>4, <1>5, <1>6, <1>7 DEF RingInv

-----------------------------------------------------------------------------
LEMMA RingInvStep == TypeInv /\ RingInv /\ [CoreNext]_coreVars => RingInv'
<1> SUFFICES ASSUME TypeInv, RingInv, [CoreNext]_coreVars PROVE RingInv'
  OBVIOUS
<1>1. CASE UNCHANGED coreVars
  BY <1>1 DEF coreVars, RingInv, ScanInWindow, WindowFits, LogFollowsScan,
              RoomSeen, ClaimHeld, OneOwner, FlagMeansWaiting, Copying,
              MyRow, Slot
<1>2. ASSUME NEW p \in Producers,
             EnterWrite(p) \/ RefuseWrite(p) \/ WriteStep(p)
      PROVE  RingInv'
  BY <1>2, QuietStep, ClaimStep, CopyStep, PublishStep DEF WriteStep
<1>3. CASE BeginScan \/ ScanStep \/ AbandonScan
  BY <1>3, ScanMoves, FormatStep, ReleaseStep DEF ScanStep
<1> QED BY <1>1, <1>2, <1>3 DEF CoreNext

(* The inductive invariant the safety of the ring rests on.                 *)
THEOREM CoreInvariant == CoreSpec => [](TypeInv /\ RingInv)
<1>1. CoreInit => TypeInv /\ RingInv
  BY TypeInit, RingInvInit
<1>2. TypeInv /\ RingInv /\ [CoreNext]_coreVars => (TypeInv /\ RingInv)'
  BY TypeStep, RingInvStep
<1> QED BY <1>1, <1>2, PTL DEF CoreSpec

(* No two threads ever have the plain row of one slot in hand together.     *)
THEOREM NoTornAccessHolds == CoreSpec => []NoTornAccess
<1>1. TypeInv /\ RingInv => NoTornAccess
  <2> SUFFICES ASSUME TypeInv, RingInv PROVE NoTornAccess
    OBVIOUS
  <2>1. ASSUME NEW p \in Producers, Copying(p), scan \in {"format", "release"}
        PROVE  Slot(idx[p]) # Slot(m)
    BY <2>1 DEF RingInv, ClaimHeld, ScanInWindow
  <2> QED BY <2>1, ClaimsApart DEF NoTornAccess
<1> QED BY <1>1, CoreInvariant, PTL

(* The rows are logged exactly once, in the order they were claimed.        *)
THEOREM LogIsClaimPrefixHolds == CoreSpec => []LogIsClaimPrefix
<1>1. TypeInv /\ RingInv => LogIsClaimPrefix
  BY DEF TypeInv, CoreTypeOK, RingInv, LogFollowsScan, ScanInWindow,
         WindowFits, LogIsClaimPrefix
<1> QED BY <1>1, CoreInvariant, PTL

(* The ring never holds more rows than it has slots.                        *)
THEOREM WindowFitsHolds == CoreSpec => []WindowFits
<1>1. RingInv => WindowFits
  BY DEF RingInv, ScanInWindow
<1> QED BY <1>1, CoreInvariant, PTL

(* A raised flag always belongs to a row that still waits for the flusher.  *)
THEOREM FlagMeansWaitingHolds == CoreSpec => []FlagMeansWaiting
<1>1. RingInv => FlagMeansWaiting
  BY DEF RingInv
<1> QED BY <1>1, CoreInvariant, PTL

-----------------------------------------------------------------------------
(* No claimed row is forgotten: Publish raises the flag of the number the   *)
(* producer gives up, and freeing a slot concerns no other number of the    *)
(* window.                                                                 *)
LEMMA NoneForgottenInit == CoreInit => NoneForgotten
BY DEF CoreInit, NoneForgotten

LEMMA NoneForgottenStep ==
  TypeInv /\ RingInv /\ NoneForgotten /\ [CoreNext]_coreVars => NoneForgotten'
<1> SUFFICES ASSUME TypeInv, RingInv, NoneForgotten, [CoreNext]_coreVars
             PROVE  NoneForgotten'
  OBVIOUS
<1> USE CapAssumption DEF TypeInv, CoreTypeOK
<1>1. ASSUME NEW p \in Producers,
             EnterWrite(p) \/ RefuseWrite(p) \/ LoadClaimed(p) \/ CheckFull(p)
               \/ CasFails(p) \/ CopyRow(p)
      PROVE  NoneForgotten'
  <2>1. UNCHANGED <<claimed, ready, m>>
    BY <1>1 DEF EnterWrite, RefuseWrite, LoadClaimed, CheckFull, CasFails,
                CopyRow, scanVars
  <2>2. \A q \in Producers : Copying(q) => Copying(q)' /\ idx'[q] = idx[q]
    BY <1>1 DEF EnterWrite, RefuseWrite, LoadClaimed, CheckFull, CasFails,
                CopyRow, Copying
  <2> QED BY <2>1, <2>2 DEF NoneForgotten, Slot
<1>2. ASSUME NEW p \in Producers, CasSucceeds(p) PROVE NoneForgotten'
  <2>1. /\ UNCHANGED <<ready, m, idx>> /\ claimed' = claimed + 1
        /\ idx[p] = claimed /\ Copying(p)'
        /\ \A q \in Producers : Copying(q) => Copying(q)'
    BY <1>2 DEF CasSucceeds, scanVars, Copying
  <2> SUFFICES ASSUME NEW k \in m .. claimed
               PROVE  ready[Slot(k)]
                        \/ \E q \in Producers : Copying(q)' /\ idx[q] = k
    <3>1. m' .. (claimed' - 1) = m .. claimed
      BY <2>1
    <3> QED BY <2>1, <3>1 DEF NoneForgotten, Slot
  <2>2. CASE k = claimed
    BY <2>1, <2>2
  <2>3. CASE k # claimed
    <3>1. k \in m .. (claimed - 1)
      BY <2>3
    <3> QED BY <2>1, <3>1 DEF NoneForgotten
  <2> QED BY <2>2, <2>3
<1>3. ASSUME NEW p \in Producers, Publish(p) PROVE NoneForgotten'
  <2>1. /\ UNCHANGED <<claimed, m, idx>>
        /\ ready' = [ready EXCEPT ![Slot(idx[p])] = TRUE]
        /\ \A q \in Producers \ {p} : Copying(q) => Copying(q)'
    BY <1>3 DEF Publish, scanVars, Copying
  <2> SUFFICES ASSUME NEW k \in m .. (claimed - 1)
               PROVE  ready'[Slot(k)]
                        \/ \E q \in Producers : Copying(q)' /\ idx[q] = k
    BY <2>1 DEF NoneForgotten, Slot
  <2>2. Slot(k) \in SlotIds /\ Slot(idx[p]) \in SlotIds
    BY SlotInRing
  <2>3. CASE ready[Slot(k)]
    BY <2>1, <2>2, <2>3
  <2>4. ASSUME NEW q \in Producers, Copying(q), idx[q] = k
        PROVE  ready'[Slot(k)] \/ (Copying(q)' /\ idx[q] = k)
    BY <2>1, <2>2, <2>4
  <2> QED BY <2>3, <2>4 DEF NoneForgotten
<1>4. CASE ReleaseSlot
  <2>1. /\ UNCHANGED <<prodVars, claimed>> /\ m' = m + 1
        /\ ready' = [ready EXCEPT ![Slot(m)] = FALSE]
    BY <1>4 DEF ReleaseSlot
  <2> SUFFICES ASSUME NEW k \in (m + 1) .. (claimed - 1)
               PROVE  ready'[Slot(k)]
                        \/ \E q \in Producers : Copying(q) /\ idx[q] = k
    BY <2>1 DEF NoneForgotten, Slot, prodVars, Copying
  <2>2. k \in m .. (claimed - 1) /\ m < k /\ k - m < Cap
    BY DEF RingInv, ScanInWindow, WindowFits
  <2>3. Slot(k) # Slot(m) /\ Slot(k) \in SlotIds
    BY <2>2, SlotInjective, SlotInRing
  <2> QED BY <2>1, <2>2, <2>3 DEF NoneForgotten
<1>5. CASE BeginScan \/ FoundReady \/ FormatRow \/ EndScan \/ AbandonScan
           \/ UNCHANGED coreVars
  <2>1. UNCHANGED <<pc, idx, claimed, ready>> /\ m' = m
    BY <1>5 DEF BeginScan, FoundReady, FormatRow, EndScan, AbandonScan,
                coreVars, prodVars, RingInv, ScanInWindow
  <2> QED BY <2>1 DEF NoneForgotten, Slot, Copying
<1> QED BY <1>1, <1>2, <1>3, <1>4, <1>5 DEF CoreNext, WriteStep, ScanStep

(* When nobody is between claim and publication, a scan that has not come   *)
(* to the last claimed row finds a published one.                          *)
LEMMA NextIsPublished ==
  ASSUME TypeInv, RingInv, NoneForgotten,
         \A p \in Producers : ~Copying(p), m # claimed
  PROVE  ready[Slot(m)]
<1>1. m \in m .. (claimed - 1)
  BY DEF TypeInv, CoreTypeOK, RingInv, ScanInWindow, WindowFits
<1> QED BY <1>1 DEF NoneForgotten

-----------------------------------------------------------------------------
(* Counting the rows offered.                                               *)

LEMMA CountsFinite ==
  ASSUME TypeInv
  PROVE  /\ IsFiniteSet(OfferedRows) /\ Offered \in Nat
         /\ IsFiniteSet(InWriteUnclaimed)
         /\ Cardinality(InWriteUnclaimed) \in Nat
         /\ Len(claimLog) \in Nat /\ overflow \in Nat
<1>1. IsFiniteSet(1 .. MaxWrites)
  BY MaxWritesAssumption, FS_Interval
<1>2. IsFiniteSet(Row)
  BY <1>1, ProducersAssumption, FS_Product DEF Row
<1>3. IsFiniteSet(OfferedRows)
  BY <1>2, FS_Subset DEF OfferedRows
<1>4. IsFiniteSet(InWriteUnclaimed)
  BY ProducersAssumption, FS_Subset DEF InWriteUnclaimed
<1> QED
  BY <1>3, <1>4, FS_CardinalityType DEF Offered, TypeInv, CoreTypeOK

LEMMA OfferCounts ==
  ASSUME TypeInv, NEW p \in Producers, writes[p] < MaxWrites,
         writes' = [writes EXCEPT ![p] = @ + 1]
  PROVE  Offered' = Offered + 1
<1> DEFINE r == <<p, writes[p] + 1>>
<1>1. r \in Row /\ r \notin OfferedRows
  BY MaxWritesAssumption DEF Row, OfferedRows, TypeInv, CoreTypeOK
<1>2. OfferedRows' = OfferedRows \cup {r}
  <2>1. ASSUME NEW x \in Row
        PROVE  x \in OfferedRows' <=> x \in OfferedRows \cup {r}
    <3>1. PICK q \in Producers, k \in 1 .. MaxWrites : x = <<q, k>>
      BY DEF Row
    <3>2. CASE q = p
      BY <3>1, <3>2, MaxWritesAssumption DEF OfferedRows, TypeInv, CoreTypeOK
    <3>3. CASE q # p
      BY <3>1, <3>3 DEF OfferedRows, TypeInv, CoreTypeOK
    <3> QED BY <3>2, <3>3
  <2> QED BY <1>1, <2>1 DEF OfferedRows
<1> HIDE DEF r
<1> QED BY <1>1, <1>2, CountsFinite, FS_AddElement DEF Offered

LEMMA OfferedUnchanged == UNCHANGED writes => Offered' = Offered
BY DEF Offered, OfferedRows

LEMMA UnclaimedAdd ==
  ASSUME TypeInv, NEW p \in Producers, pc[p] = "idle",
         pc' = [pc EXCEPT ![p] = "load"]
  PROVE  Cardinality(InWriteUnclaimed)' = Cardinality(InWriteUnclaimed) + 1
<1>1. InWriteUnclaimed' = InWriteUnclaimed \cup {p} /\ p \notin InWriteUnclaimed
  BY DEF InWriteUnclaimed, TypeInv, CoreTypeOK
<1> QED BY <1>1, CountsFinite, FS_AddElement

LEMMA UnclaimedRemove ==
  ASSUME TypeInv, NEW p \in Producers, pc[p] \in {"load", "check", "cas"},
         NEW c, c \notin {"load", "check", "cas"},
         pc' = [pc EXCEPT ![p] = c]
  PROVE  Cardinality(InWriteUnclaimed)' = Cardinality(InWriteUnclaimed) - 1
<1>1. InWriteUnclaimed' = InWriteUnclaimed \ {p} /\ p \in InWriteUnclaimed
  BY DEF InWriteUnclaimed, TypeInv, CoreTypeOK
<1> QED BY <1>1, CountsFinite, FS_RemoveElement

LEMMA UnclaimedSame ==
  ASSUME TypeInv, NEW p \in Producers, NEW c,
         pc[p] \in {"load", "check", "cas"} <=> c \in {"load", "check", "cas"},
         pc' = [pc EXCEPT ![p] = c]
  PROVE  InWriteUnclaimed' = InWriteUnclaimed
BY DEF InWriteUnclaimed, TypeInv, CoreTypeOK

(* Only a refusal changes the number of refused rows: every other way a row *)
(* can go is counted.                                                      *)
LEMMA RefusedAtFirst == CoreInit => Refused = 0
<1> SUFFICES ASSUME CoreInit PROVE Refused = 0
  OBVIOUS
<1>1. OfferedRows = {} /\ InWriteUnclaimed = {} /\ overflow = 0 /\ Len(claimLog) = 0
  <2>1. ASSUME NEW r \in Row PROVE ~(r[2] <= writes[r[1]])
    <3>1. PICK q \in Producers, k \in 1 .. MaxWrites : r = <<q, k>>
      BY DEF Row
    <3> QED BY <3>1 DEF CoreInit
  <2> QED BY <2>1 DEF CoreInit, OfferedRows, InWriteUnclaimed
<1> QED BY <1>1, FS_EmptySet DEF Refused, Offered

LEMMA RefusalCounts ==
  ASSUME TypeInv, NEW p \in Producers, RefuseWrite(p)
  PROVE  Refused' = Refused + 1
<1>1. Offered' = Offered + 1
  BY OfferCounts DEF RefuseWrite
<1>2. UNCHANGED <<overflow, claimLog, pc>>
  BY DEF RefuseWrite
<1>3. InWriteUnclaimed' = InWriteUnclaimed
  BY <1>2 DEF InWriteUnclaimed
<1> QED BY <1>1, <1>2, <1>3, CountsFinite DEF Refused

LEMMA WriteKeepsRefused ==
  ASSUME TypeInv, NEW p \in Producers, EnterWrite(p) \/ WriteStep(p)
  PROVE  Refused' = Refused
<1>0. /\ Offered \in Nat /\ Cardinality(InWriteUnclaimed) \in Nat
      /\ Len(claimLog) \in Nat /\ overflow \in Nat
  BY CountsFinite
<1>1. CASE EnterWrite(p)
  <2>1. Offered' = Offered + 1
    BY <1>1, OfferCounts DEF EnterWrite
  <2>2. Cardinality(InWriteUnclaimed)' = Cardinality(InWriteUnclaimed) + 1
    BY <1>1, UnclaimedAdd DEF EnterWrite
  <2>3. UNCHANGED <<overflow, claimLog>>
    BY <1>1 DEF EnterWrite
  <2> QED BY <1>0, <2>1, <2>2, <2>3 DEF Refused
<1>2. CASE LoadClaimed(p) \/ CasFails(p)
  <2>1. InWriteUnclaimed' = InWriteUnclaimed
    BY <1>2, UnclaimedSame DEF LoadClaimed, CasFails
  <2> QED BY <1>2, <2>1, OfferedUnchanged DEF LoadClaimed, CasFails, Refused
<1>3. CASE CopyRow(p) \/ Publish(p)
  <2>1. InWriteUnclaimed' = InWriteUnclaimed
    BY <1>3, UnclaimedSame DEF CopyRow, Publish
  <2> QED BY <1>3, <2>1, OfferedUnchanged DEF CopyRow, Publish, Refused
<1>4. CASE CheckFull(p) /\ LooksFull(idx[p])
  <2>1. Cardinality(InWriteUnclaimed)' = Cardinality(InWriteUnclaimed) - 1
    BY <1>4, UnclaimedRemove DEF CheckFull
  <2>2. /\ overflow' = overflow + 1 /\ UNCHANGED <<writes, claimLog>>
    BY <1>4 DEF CheckFull
  <2> QED BY <1>0, <2>1, <2>2, OfferedUnchanged DEF Refused
<1>5. CASE CheckFull(p) /\ ~LooksFull(idx[p])
  <2>1. InWriteUnclaimed' = InWriteUnclaimed
    BY <1>5, UnclaimedSame DEF CheckFull
  <2> QED BY <1>5, <2>1, OfferedUnchanged DEF CheckFull, Refused
<1>6. CASE CasSucceeds(p)
  <2>1. Len(claimLog') = Len(claimLog) + 1 /\ UNCHANGED <<writes, overflow>>
    BY <1>6 DEF CasSucceeds, TypeInv, CoreTypeOK
  <2>2. Cardinality(InWriteUnclaimed)' = Cardinality(InWriteUnclaimed) - 1
    BY <1>6, UnclaimedRemove DEF CasSucceeds
  <2> QED BY <1>0, <2>1, <2>2, OfferedUnchanged DEF Refused
<1> QED BY <1>1, <1>2, <1>3, <1>4, <1>5, <1>6 DEF WriteStep

LEMMA ScanKeepsRefused ==
  ASSUME BeginScan \/ ScanStep \/ AbandonScan \/ UNCHANGED coreVars
  PROVE  Refused' = Refused
BY DEF BeginScan, ScanStep, FoundReady, FormatRow, ReleaseSlot, EndScan,
       AbandonScan, coreVars, prodVars, Refused, Offered, OfferedRows,
       InWriteUnclaimed

-----------------------------------------------------------------------------
(* A step of the ring is a step of the bounded FIFO of TraceLog, or none:    *)
(* claiming accepts, counting an overflow drops, formatting logs.           *)
LEMMA LogRefinementStep ==
  TypeInv /\ RingInv /\ [CoreNext]_coreVars =>
    [LogAbs!LogNext]_(LogAbs!logVars)
<1> SUFFICES ASSUME TypeInv, RingInv, [CoreNext]_coreVars
             PROVE  [LogAbs!LogNext]_(LogAbs!logVars)
  OBVIOUS
<1> USE CapAssumption
<1>1. ASSUME NEW p \in Producers, CasSucceeds(p)
      PROVE  LogAbs!LogNext
  <2>1. MyRow(p) \in Row
    BY <1>1 DEF CasSucceeds, TypeInv, CoreTypeOK, MyRow, Row
  <2>2. Len(claimLog) - Len(log) < Cap
    <3>1. claimed - consumed < Cap
      BY <1>1 DEF CasSucceeds, RingInv, RoomSeen
    <3>2. Len(log) >= consumed /\ Len(claimLog) = claimed
      BY DEF RingInv, LogFollowsScan, ScanInWindow, WindowFits, TypeInv,
             CoreTypeOK
    <3> QED BY <3>1, <3>2 DEF TypeInv, CoreTypeOK
  <2>3. LogAbs!Accept(MyRow(p))
    BY <1>1, <2>2 DEF CasSucceeds, LogAbs!Accept
  <2> QED BY <2>1, <2>3 DEF LogAbs!LogNext
<1>2. ASSUME NEW p \in Producers, CheckFull(p)
      PROVE  LogAbs!Drop \/ UNCHANGED LogAbs!logVars
  BY <1>2 DEF CheckFull, LogAbs!Drop, LogAbs!logVars
<1>3. ASSUME NEW p \in Producers,
             EnterWrite(p) \/ RefuseWrite(p) \/ LoadClaimed(p) \/ CasFails(p)
               \/ CopyRow(p) \/ Publish(p)
      PROVE  UNCHANGED LogAbs!logVars
  BY <1>3 DEF EnterWrite, RefuseWrite, LoadClaimed, CasFails, CopyRow,
              Publish, LogAbs!logVars
<1>4. CASE FormatRow
  <2>1. Len(log) = m /\ m < claimed /\ claimed = Len(claimLog)
    BY <1>4 DEF FormatRow, RingInv, LogFollowsScan, ScanInWindow, WindowFits,
                TypeInv, CoreTypeOK
  <2>2. row[Slot(m)] = claimLog[m + 1]
    BY <1>4, SlotUnderScan DEF FormatRow
  <2>3. LogAbs!Log
    BY <1>4, <2>1, <2>2 DEF FormatRow, LogAbs!Log
  <2> QED BY <2>3 DEF LogAbs!LogNext
<1>5. CASE BeginScan \/ FoundReady \/ ReleaseSlot \/ EndScan \/ AbandonScan
  BY <1>5 DEF BeginScan, FoundReady, ReleaseSlot, EndScan, AbandonScan,
              LogAbs!logVars
<1>6. CASE UNCHANGED coreVars
  BY <1>6 DEF coreVars, LogAbs!logVars
<1> QED
  BY <1>1, <1>2, <1>3, <1>4, <1>5, <1>6
  DEF CoreNext, WriteStep, ScanStep, LogAbs!LogNext

(* The ring implements the bounded FIFO log: what it accepts is logged once *)
(* and in order, and at most Cap rows are accepted and not yet logged.      *)
THEOREM CoreImplementsLog == CoreSpec => ImplementsLog
<1>1. CoreInit => LogAbs!LogInit
  BY DEF CoreInit, LogAbs!LogInit
<1> QED
  BY <1>1, LogRefinementStep, CoreInvariant, PTL
  DEF CoreSpec, ImplementsLog, LogAbs!LogSpec
=============================================================================
