------------------------- MODULE GstReceiverProofs -------------------------
(***************************************************************************)
(* The gstreamer receiver, for any set of frames, any number of ring slots  *)
(* larger than the reordering, any number of attempts and packets.          *)
(*                                                                         *)
(* First the arrival ring alone: its seqlock answers every lookup as a      *)
(* table would that counts each packet at once.  Then the receiver's        *)
(* threads, which use the ring as that proof assumes (one writer, one       *)
(* reader) whatever the network, rtpbin and Shutdown do.  Last, what the    *)
(* frame reports say: a summary that is reported is whole, and one that is  *)
(* missing is missing for a reason.                                        *)
(***************************************************************************)
EXTENDS GstReceiver, FiniteSetTheorems, TLAPS

(***************************************************************************)
(* The arrival ring                                                        *)
(***************************************************************************)

RingTypes ==
  /\ seq \in [Slots -> Nat] /\ slot \in [Slots -> Entries]
  /\ stable \in [Slots -> Entries] /\ clock \in Nat
  /\ writing \in Slots \cup {NoSlot} /\ new \in Entries /\ todo \subseteq Fields
  /\ step \in {"idle", "seq", "load"} /\ want \in Frames \cup {NoFrame}
  /\ attempt \in Nat /\ s0 \in Nat /\ copy \in Entries /\ loaded \subseteq Fields
  /\ found \in Entries

\* A slot's seq is odd just while the udpsrc thread writes it.
SeqTells == \A s \in Slots : Odd(seq[s]) <=> writing = s

\* Otherwise its fields are those of the last write.
SettledIsStable == \A s \in Slots : writing # s => slot[s] = stable[s]

\* The fields not to be stored any more are what the packet makes of them.
StoresRemain ==
  writing # NoSlot =>
    /\ new.key \in Frames /\ Slot(new.key) = writing
    /\ clock >= 1 /\ new = Counted(stable[writing], new.key, clock)
    /\ \A x \in Fields \ todo : slot[writing][x] = new[x]

\* A copy is of what the slot holds, as long as its seq has not moved.
CopyIsCurrent ==
  /\ want = NoFrame <=> step = "idle"
  /\ step # "load" => loaded = {}
  /\ step = "load" =>
       /\ ~Odd(s0) /\ s0 <= seq[Slot(want)]
       /\ seq[Slot(want)] = s0 =>
            \A x \in loaded : copy[x] = slot[Slot(want)][x]

RingInv ==
  RingTypes /\ SeqTells /\ SettledIsStable /\ StoresRemain /\ CopyIsCurrent

-----------------------------------------------------------------------------
LEMMA SlotType == ASSUME NEW f \in Frames PROVE Slot(f) \in Slots
  BY ArrivalAssumption DEF Slot, Slots

LEMMA OddSucc == \A k \in Nat : Odd(k + 1) <=> ~Odd(k)
  BY DEF Odd

LEMMA NoFrameIsNoFrame == NoFrame \notin Frames /\ NoSlot \notin Slots
  BY ArrivalAssumption DEF NoFrame, NoSlot, Slots

LEMMA NoEntryType == NoEntry \in Entries
  BY DEF NoEntry, Entries

LEMMA CountedType ==
  ASSUME NEW e \in Entries, NEW f \in Frames, NEW t \in Nat
  PROVE  /\ Counted(e, f, t) \in Entries
         /\ Counted(e, f, t).key = f
         /\ \A x \in Fields \ Touched(e, f, t) : Counted(e, f, t)[x] = e[x]
<1>1. CASE e.key = f
  <2> DEFINE first == IF t < e.first THEN t ELSE e.first
  <2>0. Counted(e, f, t) = [e EXCEPT !.n = e.n + 1, !.last = t, !.first = first]
    BY <1>1 DEF Counted
  <2>a. first \in Nat /\ e.n + 1 \in Nat
    BY DEF Entries
  <2>1. Counted(e, f, t) \in Entries /\ Counted(e, f, t).key = f
    <3> HIDE DEF first
    <3> QED BY <1>1, <2>0, <2>a DEF Entries
  <2>2. Counted(e, f, t).key = e.key
    BY <1>1, <2>1
  <2>3. ~(t < e.first) => Counted(e, f, t).first = e.first
    BY <1>1 DEF Counted, Entries
  <2>4. ASSUME NEW x \in Fields \ Touched(e, f, t)
        PROVE  Counted(e, f, t)[x] = e[x]
    <3>1. x = "key" \/ (x = "first" /\ ~(t < e.first))
      BY <1>1 DEF Fields, Touched
    <3> QED BY <3>1, <2>2, <2>3
  <2> QED BY <2>1, <2>4
<1>2. CASE e.key # f
  <2>1. Counted(e, f, t) = [key |-> f, first |-> t, last |-> t, n |-> 1]
    BY <1>2 DEF Counted
  <2>2. Counted(e, f, t) \in Entries /\ Counted(e, f, t).key = f
    BY <2>1 DEF Entries
  <2> QED BY <1>2, <2>2 DEF Touched
<1> QED BY <1>1, <1>2

\* Storing one field of an entry.
LEMMA FieldType ==
  ASSUME NEW e \in Entries, NEW d \in Entries, NEW x \in Fields
  PROVE  LET stored == [e EXCEPT ![x] = d[x]]
         IN /\ stored \in Entries /\ stored[x] = d[x]
            /\ \A y \in Fields \ {x} : stored[y] = e[y]
  BY DEF Fields, Entries

LEMMA SameFields ==
  ASSUME NEW e \in Entries, NEW d \in Entries, \A x \in Fields : e[x] = d[x]
  PROVE  e = d
  BY DEF Entries, Fields

LEMMA InitInv == RingInit => RingInv
  BY NoEntryType, NoFrameIsNoFrame, ArrivalAssumption
  DEF RingInit, RingInv, RingTypes, SeqTells, SettledIsStable, StoresRemain,
      CopyIsCurrent, Odd, NoSlot, NoFrame

-----------------------------------------------------------------------------
(* The udpsrc thread.                                                       *)

LEMMA BeginWriteInv ==
  ASSUME RingInv, NEW f \in Frames, BeginWrite(f)
  PROVE  RingInv'
<1> DEFINE s == Slot(f)
<1> USE DEF RingInv
<1>0. s \in Slots /\ s # NoSlot
  BY SlotType, NoFrameIsNoFrame
<1>1. /\ writing = NoSlot /\ writing' = s /\ clock' = clock + 1
      /\ seq' = [seq EXCEPT ![s] = @ + 1]
      /\ new' = Counted(slot[s], f, clock + 1)
      /\ todo' = Touched(slot[s], f, clock + 1)
      /\ UNCHANGED <<slot, readVars, stable>>
  BY DEF BeginWrite
<1>2. clock + 1 \in Nat /\ slot[s] \in Entries /\ slot[s] = stable[s]
  BY <1>0, <1>1, NoFrameIsNoFrame DEF RingTypes, SettledIsStable
<1>3. /\ new' \in Entries /\ new'.key = f
      /\ \A x \in Fields \ todo' : new'[x] = slot[s][x]
  BY <1>1, <1>2, CountedType
<1>4. todo' \subseteq Fields
  BY <1>1 DEF Touched, Fields
<1>5. RingTypes'
  BY <1>0, <1>1, <1>2, <1>3, <1>4 DEF RingTypes, readVars
<1>6. SeqTells'
  <2>1. SUFFICES ASSUME NEW r \in Slots PROVE Odd(seq'[r]) <=> writing' = r
    BY DEF SeqTells
  <2>2. ~Odd(seq[r]) /\ seq[r] \in Nat
    BY <1>1, NoFrameIsNoFrame DEF SeqTells, RingTypes
  <2> QED BY <1>0, <1>1, <2>2, OddSucc DEF RingTypes
<1>7. SettledIsStable'
  BY <1>1, NoFrameIsNoFrame DEF SettledIsStable
<1>8. StoresRemain'
  <2>1. clock' >= 1 /\ new' = Counted(stable'[writing'], new'.key, clock')
    BY <1>1, <1>2, <1>3 DEF RingTypes
  <2> QED BY <1>1, <1>3, <2>1 DEF StoresRemain
<1>9. CopyIsCurrent'
  <2>1. SUFFICES ASSUME step = "load"
        PROVE  /\ ~Odd(s0) /\ s0 <= seq'[Slot(want)]
               /\ seq'[Slot(want)] = s0 =>
                     \A x \in loaded : copy[x] = slot[Slot(want)][x]
    BY <1>1 DEF CopyIsCurrent, readVars
  <2>2. Slot(want) \in Slots
    BY <2>1, SlotType DEF CopyIsCurrent, RingTypes
  <2>3. s0 \in Nat /\ seq[Slot(want)] \in Nat /\ seq'[Slot(want)] \in Nat
    BY <2>2, <1>5 DEF RingTypes
  <2>4. seq'[Slot(want)] \in {seq[Slot(want)], seq[Slot(want)] + 1}
    BY <1>1, <2>2 DEF RingTypes
  <2> QED BY <2>1, <2>3, <2>4 DEF CopyIsCurrent
<1> QED BY <1>5, <1>6, <1>7, <1>8, <1>9

LEMMA StoreInv ==
  ASSUME RingInv, NEW x \in Fields, Store(x)
  PROVE  RingInv'
<1> DEFINE w == writing
<1> USE DEF RingInv
<1>1. /\ w # NoSlot /\ w \in Slots /\ x \in todo
      /\ slot' = [slot EXCEPT ![w] = [slot[w] EXCEPT ![x] = new[x]]]
      /\ todo' = todo \ {x}
      /\ UNCHANGED <<seq, clock, writing, new, readVars, stable>>
  BY DEF Store, RingTypes
<1>2. slot[w] \in Entries /\ new \in Entries
  BY <1>1 DEF RingTypes
<1>3. /\ slot'[w] = [slot[w] EXCEPT ![x] = new[x]]
      /\ \A r \in Slots \ {w} : slot'[r] = slot[r]
  BY <1>1 DEF RingTypes
<1>4. /\ slot'[w] \in Entries /\ slot'[w][x] = new[x]
      /\ \A y \in Fields \ {x} : slot'[w][y] = slot[w][y]
  <2> DEFINE stored == [slot[w] EXCEPT ![x] = new[x]]
  <2>1. /\ stored \in Entries /\ stored[x] = new[x]
        /\ \A y \in Fields \ {x} : stored[y] = slot[w][y]
    <3> HIDE DEF w
    <3> QED BY <1>1, <1>2, FieldType
  <2>2. slot'[w] = stored
    BY <1>3
  <2> HIDE DEF stored
  <2> QED BY <2>1, <2>2
<1>5. RingTypes'
  BY <1>1, <1>4 DEF RingTypes, readVars
<1>6. SeqTells' /\ SettledIsStable'
  BY <1>1, <1>3 DEF SeqTells, SettledIsStable
<1>7. StoresRemain'
  BY <1>1, <1>4 DEF StoresRemain
<1>8. CopyIsCurrent'
  <2>1. CASE Slot(want) = w
    <3>1. Odd(seq[w])
      BY <1>1 DEF SeqTells
    <3> QED BY <1>1, <2>1, <3>1 DEF CopyIsCurrent, readVars
  <2>2. CASE step = "load" /\ Slot(want) # w
    <3>1. Slot(want) \in Slots
      BY <2>2, SlotType DEF CopyIsCurrent, RingTypes
    <3> QED BY <1>1, <1>3, <2>2, <3>1 DEF CopyIsCurrent, readVars
  <2> QED BY <1>1, <2>1, <2>2 DEF CopyIsCurrent, readVars
<1> QED BY <1>5, <1>6, <1>7, <1>8

\* Once every field is stored the slot holds what the packet makes of it.
LEMMA AllStored ==
  ASSUME RingInv, writing # NoSlot, todo = {}
  PROVE  writing \in Slots /\ slot[writing] = new
<1>1. writing \in Slots /\ slot[writing] \in Entries /\ new \in Entries
  BY DEF RingInv, RingTypes
<1>2. \A x \in Fields : slot[writing][x] = new[x]
  BY DEF RingInv, StoresRemain
<1> QED BY <1>1, <1>2, SameFields

LEMMA EndWriteInv ==
  ASSUME RingInv, EndWrite
  PROVE  RingInv'
<1> DEFINE w == writing
<1> USE DEF RingInv
<1>1. /\ w # NoSlot /\ w \in Slots /\ todo = {} /\ writing' = NoSlot
      /\ new' = NoEntry
      /\ seq' = [seq EXCEPT ![w] = seq[w] + 1]
      /\ stable' = [stable EXCEPT ![w] = slot[w]]
      /\ UNCHANGED <<slot, clock, todo, readVars>>
  BY DEF EndWrite, RingTypes
<1>2. RingTypes'
  BY <1>1, NoEntryType DEF RingTypes, readVars
<1>3. SeqTells'
  <2>1. SUFFICES ASSUME NEW r \in Slots PROVE ~Odd(seq'[r])
    BY <1>1, NoFrameIsNoFrame DEF SeqTells
  <2>2. seq[r] \in Nat /\ (Odd(seq[r]) <=> w = r)
    BY DEF SeqTells, RingTypes
  <2> QED BY <1>1, <2>2, OddSucc DEF RingTypes
<1>4. SettledIsStable'
  BY <1>1 DEF SettledIsStable, RingTypes
<1>5. StoresRemain'
  BY <1>1 DEF StoresRemain
<1>6. CopyIsCurrent'
  <2>1. SUFFICES ASSUME step = "load"
        PROVE  /\ ~Odd(s0) /\ s0 <= seq'[Slot(want)]
               /\ seq'[Slot(want)] = s0 =>
                     \A x \in loaded : copy[x] = slot[Slot(want)][x]
    BY <1>1 DEF CopyIsCurrent, readVars
  <2>2. Slot(want) \in Slots
    BY <2>1, SlotType DEF CopyIsCurrent, RingTypes
  <2>3. s0 \in Nat /\ seq[Slot(want)] \in Nat /\ seq'[Slot(want)] \in Nat
    BY <2>2, <1>2 DEF RingTypes
  <2>4. seq'[Slot(want)] \in {seq[Slot(want)], seq[Slot(want)] + 1}
    BY <1>1, <2>2 DEF RingTypes
  <2> QED BY <2>1, <2>3, <2>4 DEF CopyIsCurrent
<1> QED BY <1>2, <1>3, <1>4, <1>5, <1>6

-----------------------------------------------------------------------------
(* The jitter buffer's thread: it changes nothing of the ring.              *)

ReadTypes ==
  /\ step \in {"idle", "seq", "load"} /\ want \in Frames \cup {NoFrame}
  /\ attempt \in Nat /\ s0 \in Nat /\ copy \in Entries /\ loaded \subseteq Fields
  /\ found \in Entries

LEMMA ReadingKeepsRing ==
  ASSUME RingInv, UNCHANGED <<seq, slot, clock, writeVars, stable>>,
         ReadTypes', CopyIsCurrent'
  PROVE  RingInv'
<1>1. RingTypes'
  BY DEF RingInv, RingTypes, ReadTypes, writeVars
<1>2. SeqTells' /\ SettledIsStable' /\ StoresRemain'
  BY DEF RingInv, SeqTells, SettledIsStable, StoresRemain, writeVars
<1> QED BY <1>1, <1>2 DEF RingInv

\* A lookup that ends leaves nothing behind.
LEMMA ReturnReads ==
  ASSUME NEW e \in Entries, Return(e)
  PROVE  ReadTypes' /\ CopyIsCurrent'
  BY NoEntryType DEF Return, ReadTypes, CopyIsCurrent, NoFrame

\* ... and so does one that tries again.
LEMMA RetryReads ==
  ASSUME RingInv, step # "idle", Retry
  PROVE  ReadTypes' /\ CopyIsCurrent'
<1>1. CASE Return(NoEntry)
  BY <1>1, NoEntryType, ReturnReads
<1>2. CASE /\ attempt' = attempt + 1 /\ step' = "seq" /\ s0' = 0
           /\ copy' = NoEntry /\ loaded' = {}
           /\ UNCHANGED <<want, found>>
  <2>1. want # NoFrame
    BY DEF RingInv, CopyIsCurrent
  <2> QED BY <1>2, <2>1, NoEntryType
          DEF RingInv, RingTypes, ReadTypes, CopyIsCurrent
<1> QED BY <1>1, <1>2 DEF Retry

LEMMA LookupInv ==
  ASSUME RingInv, NEW f \in Frames, Lookup(f)
  PROVE  RingInv'
<1>1. ReadTypes' /\ CopyIsCurrent'
  BY NoEntryType, NoFrameIsNoFrame
  DEF Lookup, RingInv, RingTypes, ReadTypes, CopyIsCurrent
<1> QED BY <1>1, ReadingKeepsRing DEF Lookup

LEMMA LoadSeqInv ==
  ASSUME RingInv, LoadSeq
  PROVE  RingInv'
<1>1. /\ step = "seq" /\ want \in Frames /\ Slot(want) \in Slots
      /\ UNCHANGED <<seq, slot, clock, writeVars, stable>>
  BY SlotType DEF LoadSeq, RingInv, RingTypes, CopyIsCurrent
<1>2. CASE Retry
  BY <1>1, <1>2, RetryReads, ReadingKeepsRing
<1>3. CASE /\ ~Odd(seq[Slot(want)])
           /\ s0' = seq[Slot(want)] /\ step' = "load"
           /\ UNCHANGED <<want, attempt, copy, loaded, found>>
  <2>1. seq[Slot(want)] \in Nat
    BY <1>1 DEF RingInv, RingTypes
  <2>2. want # NoFrame
    BY <1>1 DEF RingInv, CopyIsCurrent
  <2>3. ReadTypes'
    BY <1>3, <2>1 DEF RingInv, RingTypes, ReadTypes
  <2>4. Slot(want)' = Slot(want) /\ seq'[Slot(want)] = seq[Slot(want)]
    BY <1>1, <1>3
  <2>5. loaded' = {}
    BY <1>1, <1>3 DEF RingInv, CopyIsCurrent
  <2>6. CopyIsCurrent'
    BY <1>1, <1>3, <2>1, <2>2, <2>4, <2>5 DEF CopyIsCurrent
  <2> QED BY <1>1, <2>3, <2>6, ReadingKeepsRing
<1> QED BY <1>2, <1>3 DEF LoadSeq

LEMMA LoadInv ==
  ASSUME RingInv, NEW x \in Fields, Load(x)
  PROVE  RingInv'
<1> DEFINE s == Slot(want)
<1>1. /\ step = "load" /\ want \in Frames /\ s \in Slots
      /\ copy' = [copy EXCEPT ![x] = slot[s][x]]
      /\ loaded' = loaded \cup {x}
      /\ UNCHANGED <<seq, slot, clock, writeVars, step, want, attempt, s0,
                     found, stable>>
  BY SlotType DEF Load, RingInv, RingTypes, CopyIsCurrent
<1>2. copy \in Entries /\ slot[s] \in Entries
  BY <1>1 DEF RingInv, RingTypes
<1> DEFINE d == slot[s]
<1>3. /\ copy' \in Entries /\ copy'[x] = slot[s][x]
      /\ \A y \in Fields \ {x} : copy'[y] = copy[y]
  <2>1. copy' = [copy EXCEPT ![x] = d[x]] /\ d \in Entries
    BY <1>1, <1>2
  <2> HIDE DEF d
  <2>2. /\ copy' \in Entries /\ copy'[x] = d[x]
        /\ \A y \in Fields \ {x} : copy'[y] = copy[y]
    <3>1. [copy EXCEPT ![x] = d[x]] \in Entries
      BY <1>2, <2>1, FieldType
    <3>2. [copy EXCEPT ![x] = d[x]][x] = d[x]
      BY <1>2, <2>1, FieldType
    <3>3. \A y \in Fields \ {x} : [copy EXCEPT ![x] = d[x]][y] = copy[y]
      BY <1>2, <2>1, FieldType
    <3> QED BY <2>1, <3>1, <3>2, <3>3
  <2> USE DEF d
  <2> QED BY <2>2
<1>4. ReadTypes'
  BY <1>1, <1>3 DEF RingInv, RingTypes, ReadTypes
<1>5. CopyIsCurrent'
  BY <1>1, <1>3 DEF RingInv, RingTypes, CopyIsCurrent
<1> QED BY <1>1, <1>4, <1>5, ReadingKeepsRing

LEMMA OtherFrameInv ==
  ASSUME RingInv, OtherFrame
  PROVE  RingInv'
  BY NoEntryType, ReturnReads, ReadingKeepsRing DEF OtherFrame

LEMMA RecheckInv ==
  ASSUME RingInv, Recheck
  PROVE  RingInv'
<1>1. UNCHANGED <<seq, slot, clock, writeVars, stable>> /\ step # "idle"
  BY DEF Recheck
<1>2. CASE Return(copy)
  BY <1>1, <1>2, ReturnReads, ReadingKeepsRing DEF RingInv, RingTypes
<1>3. CASE Retry
  BY <1>1, <1>3, RetryReads, ReadingKeepsRing
<1> QED BY <1>2, <1>3 DEF Recheck

-----------------------------------------------------------------------------
LEMMA StepInv ==
  ASSUME RingInv, [RingNext]_ringVars
  PROVE  RingInv'
<1>1. CASE \E f \in Frames : BeginWrite(f) \/ Lookup(f)
  BY <1>1, BeginWriteInv, LookupInv
<1>2. CASE WriteStep
  BY <1>2, StoreInv, EndWriteInv DEF WriteStep
<1>3. CASE LookupStep
  BY <1>3, LoadSeqInv, LoadInv, OtherFrameInv, RecheckInv DEF LookupStep
<1>4. CASE UNCHANGED ringVars
  BY <1>4 DEF ringVars, writeVars, readVars, RingInv, RingTypes, SeqTells,
      SettledIsStable, StoresRemain, CopyIsCurrent
<1> QED BY <1>1, <1>2, <1>3, <1>4 DEF RingNext

(* The seqlock keeps its invariant: a slot is odd just while it is written, *)
(* and a copy is good as long as seq has not moved (lines 235-286).         *)
THEOREM SeqlockHolds == RingSpec => []RingInv
<1>1. RingInit => RingInv
  BY InitInv
<1>2. RingInv /\ [RingNext]_ringVars => RingInv'
  BY StepInv
<1> QED BY <1>1, <1>2, PTL DEF RingSpec

-----------------------------------------------------------------------------
(* The refinement.                                                          *)

StutterMap ==
  UNCHANGED <<stable, IF writing = NoSlot THEN clock ELSE clock - 1, want, found>>

LEMMA MapInit == RingInit => Map!Init
  BY DEF RingInit, Map!Init, Map!Slots, Slots, NoEntry, Map!NoEntry, NoFrame,
     Map!NoFrame, NoSlot

\* A packet is counted when its write ends.
LEMMA EndWriteMaps ==
  ASSUME RingInv, EndWrite
  PROVE  \E f \in Frames : Map!Count(f)
<1> DEFINE w == writing
           t == IF writing = NoSlot THEN clock ELSE clock - 1
<1>1. /\ w # NoSlot /\ w \in Slots /\ slot[w] = new /\ writing' = NoSlot
      /\ stable' = [stable EXCEPT ![w] = slot[w]]
      /\ clock' = clock /\ want' = want /\ found' = found
  BY AllStored DEF EndWrite, readVars
<1>2. /\ new.key \in Frames /\ Slot(new.key) = w
      /\ new = Counted(stable[w], new.key, clock) /\ clock \in Nat
  BY <1>1 DEF RingInv, RingTypes, StoresRemain
<1>3. t = clock - 1 /\ t' = clock /\ t + 1 = clock
  BY <1>1, <1>2
<1>4. stable' = [stable EXCEPT ![w] = Counted(stable[w], new.key, t + 1)]
  BY <1>1, <1>2, <1>3
<1>5. Map!Count(new.key)
  BY <1>1, <1>2, <1>3, <1>4 DEF Map!Count, Map!Slot, Slot, Map!Counted, Counted
<1> QED BY <1>2, <1>5

LEMMA WritingStutters ==
  ASSUME RingInv, (\E f \in Frames : BeginWrite(f)) \/ (\E x \in Fields : Store(x))
  PROVE  StutterMap
<1>1. CASE \E f \in Frames : BeginWrite(f)
  <2>1. PICK f \in Frames : BeginWrite(f)
    BY <1>1
  <2>2. /\ writing = NoSlot /\ writing' = Slot(f) /\ clock' = clock + 1
        /\ UNCHANGED <<stable, want, found>> /\ clock \in Nat
    BY <2>1 DEF BeginWrite, readVars, RingInv, RingTypes
  <2>3. writing' # NoSlot /\ clock' - 1 = clock
    BY <2>2, SlotType, NoFrameIsNoFrame
  <2> QED BY <2>2, <2>3 DEF StutterMap
<1>2. CASE \E x \in Fields : Store(x)
  BY <1>2 DEF Store, readVars, StutterMap
<1> QED BY <1>1, <1>2

LEMMA LookupMaps ==
  ASSUME RingInv, NEW f \in Frames, Lookup(f)
  PROVE  Map!Ask(f)
<1>1. /\ want = NoFrame /\ want' = f /\ found' = NoEntry
      /\ UNCHANGED <<stable, clock, writing>>
  BY DEF Lookup, RingInv, CopyIsCurrent, writeVars
<1> QED BY <1>1 DEF Map!Ask, Map!NoFrame, NoFrame, Map!NoEntry, NoEntry

\* "Unknown" is an answer the table may always give.
LEMMA UnknownMaps ==
  ASSUME RingInv, step # "idle", Return(NoEntry),
         UNCHANGED <<clock, writeVars, stable>>
  PROVE  Map!Tell
<1>1. want # NoFrame /\ want' = NoFrame /\ found' = NoEntry
  BY DEF RingInv, CopyIsCurrent, Return
<1>2. UNCHANGED <<stable, clock, writing>>
  BY DEF writeVars
<1> QED BY <1>1, <1>2
        DEF Map!Tell, Map!NoFrame, NoFrame, Map!NoEntry, NoEntry

LEMMA RetryMaps ==
  ASSUME RingInv, step # "idle", Retry, UNCHANGED <<clock, writeVars, stable>>
  PROVE  Map!Tell \/ StutterMap
<1>1. CASE Return(NoEntry)
  BY <1>1, UnknownMaps
<1>2. CASE UNCHANGED <<want, found>>
  BY <1>2 DEF StutterMap, writeVars
<1> QED BY <1>1, <1>2 DEF Retry

\* A copy that passes the second look is the summary of the last write.
LEMMA RecheckMaps ==
  ASSUME RingInv, Recheck
  PROVE  Map!Tell \/ StutterMap
<1> DEFINE s == Slot(want)
<1>1. /\ step = "load" /\ loaded = Fields /\ copy.key = want
      /\ UNCHANGED <<clock, writeVars, stable>> /\ want # NoFrame
      /\ want \in Frames /\ s \in Slots
  BY SlotType DEF Recheck, RingInv, RingTypes, CopyIsCurrent
<1>2. CASE seq[s] = s0 /\ Return(copy)
  <2>1. ~Odd(seq[s]) /\ \A x \in Fields : copy[x] = slot[s][x]
    BY <1>1, <1>2 DEF RingInv, CopyIsCurrent
  <2>2. slot[s] = stable[s]
    BY <1>1, <2>1 DEF RingInv, SeqTells, SettledIsStable
  <2>3. copy \in Entries /\ slot[s] \in Entries
    BY <1>1 DEF RingInv, RingTypes
  <2>4. copy = stable[s]
    <3> HIDE DEF s
    <3> QED BY <2>1, <2>2, <2>3, SameFields
  <2>5. want' = NoFrame /\ found' = copy
    BY <1>2 DEF Return
  <2>6. UNCHANGED <<stable, clock, writing>>
    BY <1>1 DEF writeVars
  <2>7. stable[s].key = want /\ found' = stable[s]
    BY <1>1, <2>4, <2>5
  <2> QED BY <1>1, <2>5, <2>6, <2>7
          DEF Map!Tell, Map!NoFrame, NoFrame, Map!Slot, Slot
<1>3. CASE Retry
  BY <1>1, <1>3, RetryMaps
<1> QED BY <1>2, <1>3 DEF Recheck

LEMMA LookupStepMaps ==
  ASSUME RingInv, LookupStep
  PROVE  Map!Tell \/ StutterMap
<1>1. CASE LoadSeq
  <2>1. step # "idle" /\ UNCHANGED <<clock, writeVars, stable>>
    BY <1>1 DEF LoadSeq
  <2>2. Retry \/ UNCHANGED <<want, found>>
    BY <1>1 DEF LoadSeq
  <2> QED BY <2>1, <2>2, RetryMaps DEF StutterMap, writeVars
<1>2. CASE OtherFrame
  BY <1>2, UnknownMaps DEF OtherFrame
<1>3. CASE Recheck
  BY <1>3, RecheckMaps
<1>4. CASE \E x \in Fields : Load(x)
  BY <1>4 DEF Load, StutterMap, writeVars
<1> QED BY <1>1, <1>2, <1>3, <1>4 DEF LookupStep

LEMMA StepMaps ==
  ASSUME RingInv, [RingNext]_ringVars
  PROVE  [Map!Next]_(Map!mapVars)
<1>0. StutterMap => UNCHANGED Map!mapVars
  BY DEF StutterMap, Map!mapVars
<1>1. CASE \E f \in Frames : BeginWrite(f) \/ Lookup(f)
  BY <1>0, <1>1, WritingStutters, LookupMaps DEF Map!Next
<1>2. CASE WriteStep
  BY <1>0, <1>2, WritingStutters, EndWriteMaps DEF WriteStep, Map!Next
<1>3. CASE LookupStep
  BY <1>0, <1>3, LookupStepMaps DEF Map!Next
<1>4. CASE UNCHANGED ringVars
  BY <1>4 DEF ringVars, writeVars, readVars, Map!mapVars
<1> QED BY <1>1, <1>2, <1>3, <1>4 DEF RingNext

(* OnRtpIn and LookupArrival together are linearizable: every lookup is     *)
(* answered as by a table that counts each packet at once (lines 235-286).  *)
THEOREM RingImplementsMap == RingSpec => ImplementsMap
<1>1. RingInit => Map!Init
  BY MapInit
<1>2. RingInv /\ [RingNext]_ringVars => [Map!Next]_(Map!mapVars)
  BY StepMaps
<1> QED BY <1>1, <1>2, SeqlockHolds, PTL DEF RingSpec, Map!Spec, ImplementsMap

(***************************************************************************)
(* The receiver uses the ring as one writer and one reader                  *)
(***************************************************************************)

LEMMA StepUsesRing == ASSUME [GstNext]_gstVars PROVE [RingNext]_ringVars
<1>1. CASE CtlStep \/ OnRtcpIn \/ MainStep \/ OnFrame
  BY <1>1 DEF CtlStep, OnRtcpIn, MainStep, OnFrame
<1>2. CASE ProbeStep
  BY <1>2 DEF ProbeStep, RingNext
<1>3. ASSUME NEW f \in Frames, Receive(f) \/ ReceiveStray(f) \/ DepayOut(f)
      PROVE  [RingNext]_ringVars
  <2>1. CASE Receive(f)
    <3>1. CASE ssrc = Ours
      BY <2>1, <3>1 DEF Receive, RingNext
    <3>2. CASE ssrc # Ours
      BY <2>1, <3>2 DEF Receive
    <3> QED BY <3>1, <3>2
  <2>2. CASE ReceiveStray(f)
    BY <2>2 DEF ReceiveStray
  <2>3. CASE DepayOut(f)
    BY <2>3 DEF DepayOut, RingNext
  <2> QED BY <1>3, <2>1, <2>2, <2>3
<1>4. CASE UNCHANGED gstVars
  BY <1>4 DEF gstVars
<1> QED BY <1>1, <1>2, <1>3, <1>4 DEF GstNext

LEMMA GstUsesRing == GstSpec => RingSpec
<1>1. GstInit => RingInit
  BY DEF GstInit
<1>2. [GstNext]_gstVars => [RingNext]_ringVars
  BY StepUsesRing
<1> QED BY <1>1, <1>2, PTL DEF GstSpec, RingSpec

(* Every lookup of the jitter buffer's thread is answered as by a table     *)
(* that counts each packet of the announced stream at once.                 *)
THEOREM GstImplementsMap == GstSpec => ImplementsMap
  BY GstUsesRing, RingImplementsMap

-----------------------------------------------------------------------------
(* What the stream-ack means.                                               *)

LEMMA AckInit == GstInit => AckInv
  BY FS_EmptySet DEF GstInit, RingInit, AckInv, AckIsLast, PacketsCounted

LEMMA CtlAck == ASSUME AckInv, CtlStep PROVE AckInv'
<1> USE DEF AckInv
<1>1. PacketsCounted'
  BY DEF CtlStep, PacketsCounted, ringVars, udpVars
<1>2. AckIsLast'
  <2>0. UNCHANGED <<sr, main>>
    BY DEF CtlStep
  <2>1. CASE OpenTraces
    BY <2>0, <2>1 DEF OpenTraces, AckIsLast
  <2>2. CASE PublishSsrc
    BY <2>0, <2>2 DEF PublishSsrc, AckIsLast
  <2>3. CASE PublishRtp
    BY <2>0, <2>3 DEF PublishRtp, AckIsLast
  <2>4. CASE PublishFrames
    BY <2>0, <2>4 DEF PublishFrames, AckIsLast
  <2>5. CASE TellReports
    BY <2>0, <2>5 DEF TellReports, AckIsLast
  <2>6. CASE SendAck
    BY <2>0, <2>6 DEF SendAck, AckIsLast
  <2> QED BY <2>1, <2>2, <2>3, <2>4, <2>5, <2>6 DEF CtlStep
<1> QED BY <1>1, <1>2

LEMMA ReceiveAck ==
  ASSUME AckInv, NEW f \in Frames, Receive(f)
  PROVE  AckInv'
<1> USE DEF AckInv
<1>1. /\ acked /\ ssrc = Ours /\ rtpOn /\ traces = "open"
      /\ UNCHANGED <<ctlVars, rtcpVars, main>>
  BY DEF Receive, Flowing, AckIsLast
<1>2. AckIsLast'
  BY <1>1 DEF AckIsLast, ctlVars, rtcpVars
<1>3. /\ clock' = clock + 1 /\ packetRows' = packetRows + 1
      /\ came' = [came EXCEPT ![f] = @ + 1]
      /\ times' = [times EXCEPT ![f] = @ \cup {clock + 1}]
  BY <1>1 DEF Receive, BeginWrite
<1>4. /\ clock \in Nat /\ packetRows = clock
      /\ came \in [Frames -> Nat] /\ times \in [Frames -> SUBSET Nat]
  BY DEF PacketsCounted
<1>5. /\ clock' \in Nat /\ packetRows' = clock'
      /\ came' \in [Frames -> Nat] /\ times' \in [Frames -> SUBSET Nat]
  BY <1>3, <1>4
<1>6. ASSUME NEW g \in Frames
      PROVE  /\ IsFiniteSet(times'[g]) /\ Cardinality(times'[g]) = came'[g]
             /\ \A t \in times'[g] : t <= clock'
  <2>1. /\ IsFiniteSet(times[g]) /\ Cardinality(times[g]) = came[g]
        /\ \A t \in times[g] : t <= clock
    BY DEF PacketsCounted
  <2>2. CASE g = f
    <3>1. times'[g] = times[g] \cup {clock + 1} /\ came'[g] = came[g] + 1
      BY <1>3, <1>4, <2>2
    <3>2. clock + 1 \notin times[g] /\ times[g] \subseteq Nat
      BY <1>4, <2>1
    <3>3. /\ IsFiniteSet(times'[g])
          /\ Cardinality(times'[g]) = Cardinality(times[g]) + 1
      <4> DEFINE T == times[g]
                 x == clock + 1
      <4>1. IsFiniteSet(T) /\ x \notin T
        BY <2>1, <3>2
      <4> HIDE DEF T, x
      <4>2. IsFiniteSet(T \cup {x}) /\ Cardinality(T \cup {x}) = Cardinality(T) + 1
        BY <4>1, FS_AddElement
      <4> USE DEF T, x
      <4> QED BY <3>1, <4>2
    <3>4. \A t \in times'[g] : t <= clock'
      BY <1>3, <1>4, <2>1, <3>1, <3>2
    <3> QED BY <2>1, <3>1, <3>3, <3>4
  <2>3. CASE g # f
    <3>1. times'[g] = times[g] /\ came'[g] = came[g] /\ times[g] \subseteq Nat
      BY <1>3, <1>4, <2>3
    <3> QED BY <1>3, <1>4, <2>1, <3>1
  <2> QED BY <2>2, <2>3
<1>7. PacketsCounted'
  BY <1>5, <1>6 DEF PacketsCounted
<1> QED BY <1>2, <1>7

LEMMA OtherAck ==
  ASSUME AckInv,
         \/ ProbeStep \/ OnFrame \/ OnRtcpIn \/ MainStep \/ UNCHANGED gstVars
         \/ \E f \in Frames : ReceiveStray(f) \/ DepayOut(f)
  PROVE  AckInv'
<1> DEFINE Counts == UNCHANGED <<clock, packetRows, came, times>>
           Stages == UNCHANGED <<ctlVars, rtcpVars, main>>
<1>1. Counts => PacketsCounted'
  BY DEF AckInv, PacketsCounted
<1>2. Stages => AckIsLast'
  BY DEF AckInv, AckIsLast, ctlVars, rtcpVars
<1>3. CASE ProbeStep
  <2>1. UNCHANGED clock
    BY <1>3 DEF ProbeStep, WriteStep, EndWrite, Store, LookupStep, LoadSeq,
                Load, OtherFrame, Recheck
  <2> QED BY <1>1, <1>2, <1>3, <2>1 DEF ProbeStep, AckInv, udpVars
<1>4. CASE OnFrame \/ UNCHANGED gstVars
  BY <1>1, <1>2, <1>4 DEF OnFrame, gstVars, ringVars, udpVars, AckInv
<1>5. CASE OnRtcpIn
  <2>1. AckIsLast'
    BY <1>5 DEF OnRtcpIn, AckInv, AckIsLast, ctlVars
  <2> QED BY <1>1, <1>5, <2>1 DEF OnRtcpIn, ringVars, udpVars, AckInv
<1>6. CASE MainStep
  <2>1. AckIsLast'
    BY <1>6 DEF MainStep, StopControl, SetNull, CloseTraces, AckInv, AckIsLast,
                rtcpVars
  <2> QED BY <1>1, <1>6, <2>1 DEF MainStep, ringVars, udpVars, AckInv
<1>7. ASSUME NEW f \in Frames, ReceiveStray(f) \/ DepayOut(f)
      PROVE  AckInv'
  <2>1. Stages
    BY <1>7 DEF ReceiveStray, DepayOut
  <2>2. Counts
    BY <1>7 DEF ReceiveStray, DepayOut, Lookup, ringVars, udpVars
  <2> QED BY <1>1, <1>2, <2>1, <2>2 DEF AckInv
<1> QED BY <1>3, <1>4, <1>5, <1>6, <1>7

(* The stream-ack means what the sender takes it for (lines 386-425): from  *)
(* the first packet on every packet is logged and counted.                 *)
THEOREM AckMeansReadyHolds == GstSpec => []AckMeansReady
<1>1. GstInit => AckInv
  BY AckInit
<1>2. AckInv /\ [GstNext]_gstVars => AckInv'
  BY CtlAck, ReceiveAck, OtherAck DEF GstNext
<1>3. AckInv => AckMeansReady
  BY DEF AckInv, AckIsLast, PacketsCounted, AckMeansReady
<1> QED BY <1>1, <1>2, <1>3, PTL DEF GstSpec

-----------------------------------------------------------------------------
(* The summaries.                                                           *)

LEMMA Division ==
  ASSUME NEW a \in Nat, NEW b \in Nat \ {0}, NEW q \in Int, q = a \div b,
         NEW r \in Int, r = a % b
  PROVE  a = b * q + r
OBVIOUS

\* Two frames that share a slot are a whole ring apart.
LEMMA SlotApart ==
  ASSUME NEW f \in Frames, NEW g \in Frames, Slot(f) = Slot(g), f < g
  PROVE  g >= f + Ring
<1> DEFINE q == f \div Ring
           r == g \div Ring
           m == f % Ring
<1>1. f \in Nat /\ g \in Nat /\ Ring \in Nat \ {0}
  BY ArrivalAssumption
<1>2. q \in Int /\ r \in Int /\ m \in Int /\ m = g % Ring
  BY <1>1 DEF Slot
<1>3. f = Ring * q + m /\ g = Ring * r + m
  <2>1. f = Ring * q + m
    <3> HIDE DEF q, m
    <3> SUFFICES q = f \div Ring /\ m = f % Ring
      BY <1>1, <1>2, Division
    <3> QED BY DEF q, m
  <2>2. g = Ring * r + m
    <3> HIDE DEF r, m
    <3> SUFFICES r = g \div Ring
      BY <1>1, <1>2, Division
    <3> QED BY DEF r
  <2> QED BY <2>1, <2>2
<1> HIDE DEF q, r, m
<1>4. g - f = Ring * (r - q)
  BY <1>1, <1>2, <1>3
<1>5. r - q >= 1
  <2>1. ASSUME r - q <= 0 PROVE FALSE
    <3>1. Ring * (r - q) <= 0
      BY <1>1, <1>2, <2>1
    <3> QED BY <1>1, <1>4, <3>1
  <2> QED BY <1>2, <2>1
<1>6. Ring * (r - q) >= Ring
  BY <1>1, <1>2, <1>5
<1> QED BY <1>1, <1>4, <1>6

\* A later packet takes nothing from a summary of the earlier ones.
LEMMA WholeKept ==
  ASSUME NEW mine \in SUBSET Nat, NEW c \in Nat, \A t \in mine : t <= c,
         NEW e \in Entries, WholeOf(e, mine)
  PROVE  WholeOf(e, mine \cup {c + 1})
<1>1. /\ e.first \in mine /\ e.last \in mine /\ e.first \in Nat /\ e.last \in Nat
      /\ e.first <= c /\ e.last <= c
  BY DEF WholeOf
<1>2. {t \in mine \cup {c + 1} : t <= e.last} = {t \in mine : t <= e.last}
  BY <1>1
<1>3. \A t \in mine \cup {c + 1} : e.first <= t
  BY <1>1 DEF WholeOf
<1> QED BY <1>1, <1>2, <1>3 DEF WholeOf

\* What a packet does to the times of the frames.
LEMMA TimesGrow ==
  ASSUME AckInv, NEW f \in Frames, Receive(f)
  PROVE  /\ times'[f] = times[f] \cup {clock + 1} /\ clock + 1 \notin times[f]
         /\ \A g \in Frames \ {f} : times'[g] = times[g]
         /\ BeginWrite(f) /\ clock \in Nat /\ ssrc = Ours
         /\ excuse' = (excuse \/ (step # "idle" /\ Slot(want) = Slot(f)))
<1>1. times \in [Frames -> SUBSET Nat] /\ clock \in Nat /\ ssrc = Ours
  BY DEF AckInv, PacketsCounted, AckIsLast, Receive
<1>2. /\ times' = [times EXCEPT ![f] = @ \cup {clock + 1}] /\ BeginWrite(f)
      /\ excuse' = (excuse \/ (step # "idle" /\ Slot(want) = Slot(f)))
  BY <1>1 DEF Receive
<1>3. clock + 1 \notin times[f]
  <2>1. \A t \in times[f] : t <= clock
    BY DEF AckInv, PacketsCounted
  <2> QED BY <1>1, <2>1
<1> QED BY <1>1, <1>2, <1>3

LEMMA WholeStays ==
  ASSUME AckInv, NEW f \in Frames, Receive(f), NEW g \in Frames,
         NEW e \in Entries, WholeOf(e, times[g])
  PROVE  WholeOf(e, times'[g])
<1>1. CASE g = f
  <2>1. times[f] \in SUBSET Nat /\ clock \in Nat /\ \A t \in times[f] : t <= clock
    BY DEF AckInv, PacketsCounted
  <2> QED BY <1>1, <2>1, TimesGrow, WholeKept
<1>2. CASE g # f
  BY <1>2, TimesGrow
<1> QED BY <1>1, <1>2

\* The packet that is counted makes a summary of all that came.
LEMMA CountedWhole ==
  ASSUME NEW mine \in SUBSET Nat, IsFiniteSet(mine), NEW c \in Nat,
         \A t \in mine : t <= c,
         NEW e \in Entries, NEW f \in Frames,
         e.key = f => WholeOf(e, mine) /\ \A t \in mine : t <= e.last,
         e.key # f => mine = {},
         NEW d, d = Counted(e, f, c + 1)
  PROVE  WholeOf(d, mine \cup {c + 1}) /\ \A t \in mine \cup {c + 1} : t <= d.last
<1> DEFINE M == mine \cup {c + 1}
<1>0. c + 1 \in Nat /\ c + 1 \notin mine /\ M \subseteq Nat
  OBVIOUS
<1>1. IsFiniteSet(M) /\ Cardinality(M) = Cardinality(mine) + 1
  BY <1>0, FS_AddElement
<1>2. CASE e.key = f
  <2>1. e.first \in mine /\ e.first <= c /\ e.first \in Nat /\ ~(c + 1 < e.first)
    <3>1. WholeOf(e, mine)
      BY <1>2
    <3>2. e.first \in mine
      BY <3>1 DEF WholeOf
    <3>3. e.first <= c /\ e.first \in Nat
      BY <3>2
    <3> QED BY <3>2, <3>3
  <2>2. d = [e EXCEPT !.n = e.n + 1, !.last = c + 1, !.first = e.first]
    BY <1>2, <2>1 DEF Counted
  <2>3. d.n = e.n + 1 /\ d.last = c + 1 /\ d.first = e.first
    BY <2>2 DEF Entries
  <2>4. {t \in mine : t <= e.last} = mine /\ {t \in M : t <= d.last} = M
    <3>1. \A t \in mine : t <= e.last
      BY <1>2
    <3>2. \A t \in M : t <= d.last
      BY <1>0, <2>3
    <3> HIDE DEF M
    <3> QED BY <3>1, <3>2
  <2>5. e.n = Cardinality(mine)
    <3>1. e.n = Cardinality({t \in mine : t <= e.last})
      BY <1>2 DEF WholeOf
    <3> QED BY <2>4, <3>1
  <2> HIDE DEF M
  <2>6. d.n = Cardinality({t \in M : t <= d.last})
    <3>1. d.n = Cardinality(M)
      BY <1>1, <2>3, <2>5
    <3> QED BY <2>4, <3>1
  <2>7. \A t \in M : d.first <= t /\ t <= d.last
    BY <1>0, <1>2, <2>1, <2>3 DEF WholeOf, M
  <2>8. d.first \in M /\ d.last \in M
    BY <2>1, <2>3 DEF M
  <2> QED BY <2>3, <2>6, <2>7, <2>8 DEF WholeOf, M
<1>3. CASE e.key # f
  <2>1. d = [key |-> f, first |-> c + 1, last |-> c + 1, n |-> 1]
    BY <1>3 DEF Counted
  <2>2. M = {c + 1}
    BY <1>3
  <2>4. {t \in M : t <= d.last} = {c + 1}
    BY <1>0, <2>1, <2>2
  <2>3. Cardinality({c + 1}) = 1
    BY FS_Singleton
  <2> QED BY <1>0, <2>1, <2>2, <2>3, <2>4 DEF WholeOf
<1> QED BY <1>2, <1>3

\* No frame that came is a whole ring ahead of one that comes.
LEMMA NewestInSlot ==
  ASSUME SlotIsNewest, NEW f \in Frames, Receive(f),
         NEW g \in Frames, Slot(g) = Slot(f), times[g] # {}
  PROVE  g <= f
<1>1. f >= newest - Reorder /\ g <= newest /\ newest \in Frames \cup {NoFrame}
  BY DEF Receive, SlotIsNewest
<1>2. f \in Nat /\ g \in Nat /\ newest \in Int /\ Ring \in Nat /\ Reorder \in Nat
      /\ Reorder < Ring
  BY <1>1, ArrivalAssumption, GstAssumption DEF NoFrame
<1>3. ASSUME f < g PROVE FALSE
  <2>1. g >= f + Ring
    BY <1>3, SlotApart
  <2> QED BY <1>1, <1>2, <2>1
<1> QED BY <1>2, <1>3

LEMMA ReceiveSlots ==
  ASSUME RingInv, AckInv, SlotIsNewest, NEW f \in Frames, Receive(f)
  PROVE  SlotIsNewest'
<1> DEFINE s == Slot(f)
<1>0. /\ s \in Slots /\ NoSlot \notin Slots /\ NoFrame \notin Frames
      /\ f \in Nat /\ Frames \subseteq Nat
  BY SlotType, NoFrameIsNoFrame, ArrivalAssumption
<1>1. /\ writing = NoSlot /\ writing' = s /\ stable' = stable
      /\ new' = Counted(slot[s], f, clock + 1)
  BY TimesGrow DEF BeginWrite
<1>2. \A r \in Slots : /\ Summary(r) = stable[r] /\ stable[r] \in Entries
                       /\ slot[r] = stable[r]
  BY <1>0, <1>1 DEF Summary, RingInv, RingTypes, SettledIsStable
<1>3. /\ \A r \in Slots \ {s} : Summary(r)' = stable[r]
      /\ Summary(s)' = new'
  BY <1>1 DEF Summary
<1>4. /\ times'[f] = times[f] \cup {clock + 1}
      /\ \A g \in Frames \ {f} : times'[g] = times[g]
      /\ clock \in Nat
  BY TimesGrow
<1>5. /\ times[f] \in SUBSET Nat /\ IsFiniteSet(times[f])
      /\ \A t \in times[f] : t <= clock
  BY DEF AckInv, PacketsCounted
<1>6. times[f] # {} => stable[s].key = f
  <2> SUFFICES ASSUME times[f] # {} PROVE stable[s].key = f
    OBVIOUS
  <2> DEFINE k == stable[s].key
  <2>1. k \in Frames \cup {NoFrame} /\ f <= k
    BY <1>0, <1>2 DEF SlotIsNewest, Entries
  <2>2. k \in Frames
    BY <1>0, <2>1 DEF NoFrame
  <2>3. k # NoFrame
    BY <1>0, <2>2
  <2>4. Slot(k) = s /\ Whole(stable[s])
    BY <1>0, <1>2, <2>3 DEF SlotIsNewest
  <2>5. times[k] # {}
    BY <2>4 DEF Whole, WholeOf
  <2>6. k <= f
    BY <2>2, <2>4, <2>5, NewestInSlot
  <2>7. k \in Nat
    BY <1>0, <2>2
  <2> HIDE DEF k
  <2> QED BY <1>0, <2>1, <2>6, <2>7 DEF k
<1>7. new' = Counted(stable[s], f, clock + 1) /\ new'.key = f
  <2>1. new' = Counted(stable[s], f, clock + 1)
    BY <1>0, <1>1, <1>2
  <2>2. stable[s] \in Entries /\ clock + 1 \in Nat
    BY <1>0, <1>2, <1>4
  <2> QED BY <2>1, <2>2, CountedType
<1>8. WholeOf(new', times'[f]) /\ \A t \in times'[f] : t <= new'.last
  <2>1. stable[s].key = f => WholeOf(stable[s], times[f])
                             /\ \A t \in times[f] : t <= stable[s].last
    <3> SUFFICES ASSUME stable[s].key = f
                 PROVE  WholeOf(stable[s], times[f])
                        /\ \A t \in times[f] : t <= stable[s].last
      OBVIOUS
    <3>1. f # NoFrame
      BY <1>0
    <3>2. Whole(stable[s]) /\ \A t \in times[stable[s].key] : t <= stable[s].last
      BY <1>0, <1>2, <3>1 DEF SlotIsNewest
    <3> QED BY <3>2 DEF Whole
  <2>2. stable[s] \in Entries
    BY <1>0, <1>2
  <2>3. stable[s].key # f => times[f] = {}
    BY <1>6
  <2>4. new' = Counted(stable[s], f, clock + 1) /\ clock \in Nat
    BY <1>4, <1>7
  <2>5. times'[f] = times[f] \cup {clock + 1}
    BY <1>4
  <2> DEFINE e == stable[s]
             mine == times[f]
  <2>6. /\ mine \in SUBSET Nat /\ IsFiniteSet(mine) /\ \A t \in mine : t <= clock
        /\ e \in Entries /\ (e.key # f => mine = {})
        /\ e.key = f => WholeOf(e, mine) /\ \A t \in mine : t <= e.last
        /\ new' = Counted(e, f, clock + 1)
    BY <1>5, <2>1, <2>2, <2>3, <2>4
  <2> HIDE DEF s, e, mine
  <2>7. /\ WholeOf(new', mine \cup {clock + 1})
        /\ \A t \in mine \cup {clock + 1} : t <= new'.last
    BY <2>4, <2>6, CountedWhole
  <2> QED BY <2>5, <2>7 DEF mine
<1>9. /\ newest' \in Frames \cup {NoFrame} /\ newest <= newest' /\ f <= newest'
      /\ newest' \in Int /\ newest \in Int
  <2>1. newest \in Frames \cup {NoFrame}
    BY DEF SlotIsNewest
  <2>2. newest' = IF f > newest THEN f ELSE newest
    BY DEF Receive
  <2>3. newest \in Int
    BY <1>0, <2>1 DEF NoFrame
  <2> QED BY <1>0, <2>1, <2>2, <2>3
<1>10. ASSUME NEW g \in Frames, times'[g] # {}
       PROVE  g <= newest' /\ g <= Summary(Slot(g))'.key
  <2>1. CASE g = f
    BY <1>0, <1>3, <1>7, <1>9, <2>1
  <2>2. CASE g # f
    <3>1. times[g] # {} /\ g \in Nat
      BY <1>0, <1>4, <1>10, <2>2
    <3>2. g <= newest /\ g <= Summary(Slot(g)).key /\ Slot(g) \in Slots
      BY <3>1, SlotType DEF SlotIsNewest
    <3>3. g <= newest'
      BY <1>9, <3>1, <3>2
    <3>4. CASE Slot(g) = s
      <4>1. g <= f
        BY <3>1, <3>4, NewestInSlot
      <4>2. Summary(Slot(g))' = new'
        BY <1>1, <3>4 DEF Summary
      <4> QED BY <1>7, <3>3, <4>1, <4>2
    <3>5. CASE Slot(g) # s
      <4>1. Summary(Slot(g))' = stable[Slot(g)]
        BY <1>1, <3>5 DEF Summary
      <4>2. Summary(Slot(g)) = stable[Slot(g)]
        BY <1>2, <3>2
      <4> QED BY <3>2, <3>3, <4>1, <4>2
    <3> QED BY <3>3, <3>4, <3>5
  <2> QED BY <2>1, <2>2
<1>11. ASSUME NEW r \in Slots, Summary(r)'.key # NoFrame
       PROVE  /\ Slot(Summary(r)'.key) = r
              /\ WholeOf(Summary(r)', times'[Summary(r)'.key])
              /\ \A t \in times'[Summary(r)'.key] : t <= Summary(r)'.last
  <2>1. CASE r = s
    BY <1>3, <1>7, <1>8, <2>1
  <2>2. CASE r # s
    <3>1. Summary(r)' = stable[r] /\ Summary(r) = stable[r] /\ stable[r] \in Entries
      BY <1>2, <1>3, <2>2
    <3>2. /\ Slot(stable[r].key) = r /\ Whole(stable[r])
          /\ \A t \in times[stable[r].key] : t <= stable[r].last
      BY <1>11, <3>1 DEF SlotIsNewest
    <3>3. stable[r].key \in Frames \ {f}
      BY <1>11, <2>2, <3>1, <3>2 DEF Entries
    <3>4. times'[stable[r].key] = times[stable[r].key]
      BY <1>4, <3>3
    <3> QED BY <3>1, <3>2, <3>4 DEF Whole
  <2> QED BY <2>1, <2>2
<1> QED BY <1>9, <1>10, <1>11 DEF SlotIsNewest, Whole

\* A frame that came keeps its packets; one more of `f` came.
LEMMA TimesKept ==
  ASSUME AckInv, NEW f \in Frames, Receive(f), NEW g \in Frames
  PROVE  /\ times[g] # {} => times'[g] # {}
         /\ Cardinality(times[g]) \in Nat /\ Cardinality(times'[g]) \in Nat
         /\ Cardinality(times[g]) <= Cardinality(times'[g])
         /\ times'[f] # {}
<1>1. IsFiniteSet(times[g]) /\ Cardinality(times[g]) \in Nat
  BY DEF AckInv, PacketsCounted
<1>2. times'[f] # {}
  BY TimesGrow
<1>3. CASE g = f
  <2> DEFINE T == times[f]
             x == clock + 1
  <2>1. times'[f] = T \cup {x} /\ x \notin T /\ IsFiniteSet(T) /\ Cardinality(T) \in Nat
    BY <1>1, <1>3, TimesGrow
  <2> HIDE DEF T, x
  <2>2. Cardinality(T \cup {x}) = Cardinality(T) + 1
    BY <2>1, FS_AddElement
  <2> QED BY <1>2, <1>3, <2>1, <2>2 DEF T
<1>4. CASE g # f
  BY <1>1, <1>2, <1>4, TimesGrow
<1> QED BY <1>3, <1>4

LEMMA ReceiveReports ==
  ASSUME RingInv, ReportsInv, NEW f \in Frames, Receive(f)
  PROVE  LookedUp' /\ NobodyInTheWay' /\ ReportsAreWhole' /\ UnknownHasReason'
<1>0. AckInv /\ SlotIsNewest /\ LookedUp /\ NobodyInTheWay
  BY DEF ReportsInv
<1>1. /\ writing' = Slot(f) /\ seq' = [seq EXCEPT ![Slot(f)] = @ + 1]
      /\ UNCHANGED readVars /\ UNCHANGED outVars
      /\ excuse' = (excuse \/ (step # "idle" /\ Slot(want) = Slot(f)))
  BY <1>0, TimesGrow DEF BeginWrite, Receive
<1> USE DEF readVars, outVars
<1>2. /\ linked' = IF linked = NoSource THEN Ours ELSE linked
      /\ waiting' = IF linked' = Ours THEN waiting \cup {f} ELSE waiting
      /\ newest' = IF f > newest THEN f ELSE newest
  BY DEF Receive, Link
<1>3. LookedUp'
  <2>1. au # NoFrame /\ step # "idle" => floor <= Cardinality(times'[au])
    <3> SUFFICES ASSUME au # NoFrame, step # "idle"
                 PROVE  floor <= Cardinality(times'[au])
      OBVIOUS
    <3>1. au \in Frames /\ floor \in Nat /\ floor <= Cardinality(times[au])
      BY <1>0 DEF LookedUp
    <3> QED BY <1>0, <3>1, TimesKept
  <2>2. au # NoFrame /\ step = "idle" /\ found # NoEntry =>
          found.key = au /\ WholeOf(found, times'[found.key]) /\ found.n >= floor
    <3> SUFFICES ASSUME au # NoFrame, step = "idle", found # NoEntry
                 PROVE  found.key = au /\ WholeOf(found, times'[found.key])
                        /\ found.n >= floor
      OBVIOUS
    <3>1. au \in Frames /\ found.key = au /\ Whole(found) /\ found.n >= floor
          /\ found \in Entries
      BY <1>0 DEF LookedUp, RingInv, RingTypes
    <3> QED BY <1>0, <3>1, WholeStays DEF Whole
  <2>3. waiting' \subseteq Frames
    BY <1>0, <1>2 DEF LookedUp
  <2> QED BY <1>0, <1>1, <2>1, <2>2, <2>3 DEF LookedUp, Whole
<1>4. NobodyInTheWay'
  <2>1. linked' # NoSource
    BY <1>2, GstAssumption DEF Sources
  <2>2. ASSUME linked' = Ours, NEW g \in waiting' \cup ({au} \ {NoFrame})
        PROVE  times'[g] # {}
    <3>1. CASE g = f
      BY <1>0, <3>1, TimesKept
    <3>2. CASE g # f
      <4>1. g \in waiting \cup ({au} \ {NoFrame})
        BY <1>2, <2>2, <3>2
      <4>2. linked = Ours
        BY <1>0, <1>2, <2>2, <4>1 DEF NobodyInTheWay
      <4>3. times[g] # {} /\ g \in Frames
        BY <1>0, <4>1, <4>2 DEF NobodyInTheWay, LookedUp
      <4> QED BY <1>0, <4>3, TimesKept
    <3> QED BY <3>1, <3>2
  <2>3. ASSUME step # "idle", ~excuse'
        PROVE  writing' # Slot(want) /\ (step = "load" => s0 = seq'[Slot(want)])
    <3>1. ~excuse /\ Slot(want) # Slot(f)
      BY <1>1, <2>3
    <3>2. want \in Frames /\ Slot(want) \in Slots
      BY <1>0, <2>3, SlotType DEF LookedUp
    <3>3. seq'[Slot(want)] = seq[Slot(want)]
      BY <1>1, <3>1, <3>2 DEF RingInv, RingTypes
    <3> QED BY <1>0, <1>1, <2>3, <3>1, <3>3 DEF NobodyInTheWay
  <2>4. ASSUME linked' = Ours, au # NoFrame, step = "idle", found = NoEntry, ~excuse'
        PROVE  newest' >= au + Ring
    <3>1. linked = Ours /\ ~excuse
      BY <1>0, <1>1, <1>2, <2>4 DEF NobodyInTheWay
    <3>2. newest >= au + Ring
      BY <1>0, <2>4, <3>1 DEF NobodyInTheWay
    <3>3. newest \in Int /\ f \in Int /\ au \in Int /\ Ring \in Int
      BY <1>0, ArrivalAssumption DEF SlotIsNewest, LookedUp, NoFrame
    <3> QED BY <1>2, <3>2, <3>3
  <2> QED BY <1>1, <2>1, <2>2, <2>3, <2>4 DEF NobodyInTheWay
<1>5. ReportsAreWhole'
  <2> SUFFICES ASSUME NEW row \in frameRows, row.sum # NoEntry
               PROVE  /\ row.sum.key = row.frame
                      /\ WholeOf(row.sum, times'[row.sum.key])
                      /\ row.sum.n >= row.floor
    BY <1>1 DEF ReportsAreWhole, Whole
  <2>1. row.frame \in Frames /\ row.sum \in Entries
    BY <1>0 DEF LookedUp
  <2>2. row.sum.key = row.frame /\ Whole(row.sum) /\ row.sum.n >= row.floor
    BY DEF ReportsInv, ReportsAreWhole
  <2> QED BY <1>0, <2>1, <2>2, WholeStays DEF Whole
<1>6. UnknownHasReason'
  BY <1>1 DEF ReportsInv, UnknownHasReason
<1> QED BY <1>3, <1>4, <1>5, <1>6

-----------------------------------------------------------------------------
(* The steps that count no packet.                                          *)

LEMMA SlotsKept ==
  ASSUME SlotIsNewest, UNCHANGED <<times, newest>>,
         \A r \in Slots : Summary(r)' = Summary(r)
  PROVE  SlotIsNewest'
<1>1. ASSUME NEW f \in Frames, times[f] # {} PROVE f <= Summary(Slot(f))'.key
  <2>1. Slot(f) \in Slots /\ f <= Summary(Slot(f)).key
    BY <1>1, SlotType DEF SlotIsNewest
  <2> QED BY <2>1
<1>2. ASSUME NEW r \in Slots, Summary(r)'.key # NoFrame
      PROVE  /\ Slot(Summary(r)'.key) = r
             /\ WholeOf(Summary(r)', times[Summary(r)'.key])
             /\ \A t \in times[Summary(r)'.key] : t <= Summary(r)'.last
  <2>1. Summary(r)' = Summary(r)
    OBVIOUS
  <2> QED BY <1>2, <2>1 DEF SlotIsNewest, Whole
<1> QED BY <1>1, <1>2 DEF SlotIsNewest, Whole

LEMMA RowsKept ==
  ASSUME ReportsAreWhole, UnknownHasReason, UNCHANGED <<times, frameRows>>
  PROVE  ReportsAreWhole' /\ UnknownHasReason'
BY DEF ReportsAreWhole, UnknownHasReason, Whole

\* The end of a write leaves what the packet made of the slot.
LEMMA WriteKeepsSummaries ==
  ASSUME RingInv, WriteStep
  PROVE  \A r \in Slots : Summary(r)' = Summary(r)
<1> TAKE r \in Slots
<1>1. CASE EndWrite
  <2>1. /\ writing # NoSlot /\ writing' = NoSlot /\ writing \in Slots
        /\ slot[writing] = new
        /\ stable' = [stable EXCEPT ![writing] = slot[writing]]
    BY <1>1, AllStored DEF EndWrite
  <2>2. stable \in [Slots -> Entries] /\ r # NoSlot
    BY NoFrameIsNoFrame DEF RingInv, RingTypes
  <2>3. stable'[r] = IF writing = r THEN new ELSE stable[r]
    BY <2>1, <2>2
  <2> QED BY <2>1, <2>2, <2>3 DEF Summary
<1>2. CASE \E x \in Fields : Store(x)
  <2>1. UNCHANGED <<writing, new, stable>>
    BY <1>2 DEF Store
  <2> QED BY <2>1 DEF Summary
<1> QED BY <1>1, <1>2 DEF WriteStep

LEMMA WriteReports ==
  ASSUME RingInv, ReportsInv, ProbeStep, WriteStep
  PROVE  SlotIsNewest' /\ LookedUp' /\ NobodyInTheWay'
<1>1. /\ UNCHANGED <<ctlVars, rtcpVars, udpVars, waiting, outVars, excuse, main>>
      /\ UNCHANGED readVars
  BY DEF ProbeStep, WriteStep, EndWrite, Store
<1> USE DEF udpVars, outVars, readVars
<1>2. SlotIsNewest'
  BY <1>1, WriteKeepsSummaries, SlotsKept DEF ReportsInv
<1>3. LookedUp'
  BY <1>1 DEF ReportsInv, LookedUp, Whole
<1>4. ASSUME step # "idle", ~excuse
      PROVE  writing' # Slot(want) /\ (step = "load" => s0 = seq'[Slot(want)])
  <2>1. want \in Frames /\ Slot(want) \in Slots /\ NoSlot \notin Slots
    BY <1>4, SlotType, NoFrameIsNoFrame DEF ReportsInv, LookedUp
  <2>2. writing # Slot(want) /\ (step = "load" => s0 = seq[Slot(want)])
    BY <1>4 DEF ReportsInv, NobodyInTheWay
  <2>3. writing' \in {writing, NoSlot}
    BY DEF WriteStep, EndWrite, Store
  <2>4. seq' = seq \/ seq' = [seq EXCEPT ![writing] = @ + 1]
    BY DEF WriteStep, EndWrite, Store
  <2>5. seq'[Slot(want)] = seq[Slot(want)]
    BY <2>1, <2>2, <2>4 DEF RingInv, RingTypes
  <2> QED BY <2>1, <2>2, <2>3, <2>5
<1>5. NobodyInTheWay'
  BY <1>1, <1>4 DEF ReportsInv, NobodyInTheWay
<1> QED BY <1>2, <1>3, <1>5

\* The lookup itself writes nothing of the ring.
LookupFrame ==
  /\ UNCHANGED <<seq, slot, clock, writeVars, stable>>
  /\ UNCHANGED <<ctlVars, rtcpVars, udpVars, waiting, outVars, excuse, main>>

\* Somebody wrote in the way of the lookup, so it may end with nothing.
LEMMA RetryReports ==
  ASSUME RingInv, ReportsInv, step # "idle", LookupFrame, Retry, excuse
  PROVE  LookedUp' /\ NobodyInTheWay'
<1> USE DEF LookupFrame, udpVars, outVars
<1>1. CASE Return(NoEntry)
  <2>1. step' = "idle" /\ found' = NoEntry
    BY <1>1 DEF Return
  <2> QED BY <2>1 DEF ReportsInv, LookedUp, NobodyInTheWay
<1>2. CASE step' = "seq" /\ UNCHANGED <<want, found>>
  BY <1>2 DEF ReportsInv, LookedUp, NobodyInTheWay
<1> QED BY <1>1, <1>2 DEF Retry

\* A slot at rest that belongs to another frame belongs to one a whole ring
\* later.
LEMMA OtherIsNewer ==
  ASSUME RingInv, SlotIsNewest, NEW f \in Frames, times[f] # {},
         writing # Slot(f), slot[Slot(f)].key # f
  PROVE  newest >= f + Ring
<1> DEFINE s == Slot(f)
           k == stable[s].key
<1>1. /\ s \in Slots /\ slot[s] = stable[s] /\ stable[s] \in Entries
      /\ Frames \subseteq Nat /\ Ring \in Nat
  BY SlotType, ArrivalAssumption DEF RingInv, RingTypes, SettledIsStable
<1>2. Summary(s) = stable[s]
  BY DEF Summary
<1>3. f <= k /\ k # f /\ k \in Frames \cup {NoFrame}
  BY <1>1, <1>2 DEF SlotIsNewest, Entries
<1>4. k \in Frames /\ f < k /\ k # NoFrame
  <2> HIDE DEF k, s
  <2>1. f \in Nat /\ k \in Frames /\ k \in Nat
    BY <1>1, <1>3 DEF NoFrame
  <2> QED BY <1>3, <2>1 DEF NoFrame
<1>5. Slot(k) = s /\ Whole(stable[s])
  BY <1>1, <1>2, <1>4 DEF SlotIsNewest
<1>6. times[k] # {}
  BY <1>5 DEF Whole, WholeOf
<1>7. k >= f + Ring
  BY <1>4, <1>5, SlotApart
<1> HIDE DEF k, s
<1>8. k <= newest /\ newest \in Int /\ k \in Nat /\ f \in Nat
  BY <1>1, <1>4, <1>6 DEF SlotIsNewest, NoFrame
<1> QED BY <1>1, <1>7, <1>8

LEMMA LookupReports ==
  ASSUME RingInv, ReportsInv, ProbeStep, LookupStep
  PROVE  SlotIsNewest' /\ LookedUp' /\ NobodyInTheWay'
<1>0. LookupFrame /\ step # "idle" /\ want = au /\ au \in Frames /\ au # NoFrame
  BY DEF ReportsInv, LookedUp, ProbeStep, LookupStep, LoadSeq, Load, OtherFrame,
         Recheck, LookupFrame
<1>1. Slot(want) \in Slots /\ (linked = Ours => times[want] # {})
  BY <1>0, SlotType DEF ReportsInv, NobodyInTheWay
<1> USE DEF udpVars, outVars
<1>2. SlotIsNewest'
  <2>1. UNCHANGED <<writing, new, stable, times, newest>>
    BY <1>0 DEF LookupFrame, writeVars
  <2>2. \A r \in Slots : Summary(r)' = Summary(r)
    BY <2>1 DEF Summary
  <2> QED BY <2>1, <2>2, SlotsKept DEF ReportsInv
<1>3. CASE LoadSeq
  <2>1. CASE Odd(seq[Slot(want)]) /\ Retry
    <3>1. writing = Slot(want)
      BY <1>1, <2>1 DEF RingInv, SeqTells
    <3>2. excuse
      BY <1>0, <3>1 DEF ReportsInv, NobodyInTheWay
    <3> QED BY <1>0, <1>2, <2>1, <3>2, RetryReports
  <2>2. CASE /\ s0' = seq[Slot(want)] /\ step' = "load"
             /\ UNCHANGED <<want, attempt, copy, loaded, found>>
    BY <1>0, <1>2, <2>2
    DEF ReportsInv, LookedUp, NobodyInTheWay, LookupFrame, writeVars
  <2> QED BY <1>3, <2>1, <2>2 DEF LoadSeq
<1>4. CASE \E x \in Fields : Load(x)
  <2>1. UNCHANGED <<step, want, s0, found>>
    BY <1>4 DEF Load
  <2> QED BY <1>0, <1>2, <2>1
          DEF ReportsInv, LookedUp, NobodyInTheWay, LookupFrame, writeVars
<1>5. CASE OtherFrame
  <2>1. /\ step = "load" /\ "key" \in loaded /\ copy.key # want /\ step' = "idle"
        /\ found' = NoEntry
    BY <1>5 DEF OtherFrame, Return
  <2>2. ASSUME linked = Ours, ~excuse PROVE newest >= au + Ring
    <3>1. writing # Slot(want) /\ s0 = seq[Slot(want)]
      BY <1>0, <2>1, <2>2 DEF ReportsInv, NobodyInTheWay
    <3>2. copy["key"] = slot[Slot(want)]["key"]
      BY <2>1, <3>1 DEF RingInv, CopyIsCurrent
    <3>3. slot[Slot(want)].key # want
      BY <2>1, <3>2
    <3> QED BY <1>0, <1>1, <2>2, <3>1, <3>3, OtherIsNewer DEF ReportsInv
  <2> QED BY <1>0, <1>2, <2>1, <2>2
          DEF ReportsInv, LookedUp, NobodyInTheWay, LookupFrame
<1>6. CASE Recheck
  <2>0. step = "load" /\ loaded = Fields /\ copy.key = want
    BY <1>6 DEF Recheck
  <2>1. CASE seq[Slot(want)] # s0 /\ Retry
    <3>1. excuse
      BY <1>0, <2>0, <2>1 DEF ReportsInv, NobodyInTheWay
    <3> QED BY <1>0, <1>2, <2>1, <3>1, RetryReports
  <2>2. CASE seq[Slot(want)] = s0 /\ Return(copy)
    <3> DEFINE s == Slot(want)
    <3>1. /\ writing # s /\ \A x \in Fields : copy[x] = slot[s][x]
          /\ copy \in Entries /\ slot[s] \in Entries /\ slot[s] = stable[s]
      BY <1>1, <2>0, <2>2
      DEF RingInv, RingTypes, SeqTells, SettledIsStable, CopyIsCurrent
    <3>2. copy = stable[s]
      <4> HIDE DEF s
      <4> QED BY <3>1, SameFields
    <3>3. Summary(s) = copy /\ copy.key = au
      BY <1>0, <2>0, <3>1, <3>2 DEF Summary
    <3>4. Whole(copy) /\ \A t \in times[au] : t <= copy.last
      BY <1>0, <1>1, <3>3 DEF ReportsInv, SlotIsNewest
    <3>5. copy.n = Cardinality(times[au])
      <4>1. {t \in times[au] : t <= copy.last} = times[au]
        BY <3>4
      <4> QED BY <3>3, <3>4, <4>1 DEF Whole, WholeOf
    <3>6. copy.n >= floor
      <4>1. floor <= Cardinality(times[au]) /\ floor \in Nat
        BY <1>0 DEF ReportsInv, LookedUp
      <4>2. copy.n \in Nat
        BY <3>1 DEF Entries
      <4> QED BY <3>5, <4>1, <4>2
    <3>7. copy # NoEntry
      BY <1>0, <3>3 DEF NoEntry
    <3>8. step' = "idle" /\ found' = copy
      BY <2>2 DEF Return
    <3>9. LookedUp'
      BY <1>0, <3>3, <3>4, <3>6, <3>8 DEF ReportsInv, LookedUp, Whole, LookupFrame
    <3>10. NobodyInTheWay'
      BY <1>0, <3>7, <3>8 DEF ReportsInv, NobodyInTheWay, LookupFrame
    <3> QED BY <1>2, <3>9, <3>10
  <2> QED BY <1>6, <2>1, <2>2 DEF Recheck
<1> QED BY <1>3, <1>4, <1>5, <1>6 DEF LookupStep

LEMMA DepayReports ==
  ASSUME RingInv, ReportsInv, NEW f \in Frames, DepayOut(f)
  PROVE  SlotIsNewest' /\ LookedUp' /\ NobodyInTheWay'
<1>1. /\ f \in waiting /\ waiting' = {g \in waiting : g > f} /\ au' = f
      /\ step' = "seq" /\ want' = f
      /\ floor' = Cardinality(times[f]) /\ excuse' = (writing = Slot(f))
      /\ UNCHANGED <<seq, slot, clock, writeVars, stable, udpVars, frameRows>>
  BY DEF DepayOut, Lookup
<1> USE DEF udpVars, writeVars
<1>2. f # NoFrame /\ Cardinality(times[f]) \in Nat
  BY NoFrameIsNoFrame DEF ReportsInv, AckInv, PacketsCounted
<1>3. SlotIsNewest'
  <2>1. \A r \in Slots : Summary(r)' = Summary(r)
    BY <1>1 DEF Summary
  <2> QED BY <1>1, <2>1, SlotsKept DEF ReportsInv
<1>4. LookedUp'
  <2>1. floor' \in Nat /\ floor' <= Cardinality(times'[au'])
    BY <1>1, <1>2
  <2> QED BY <1>1, <1>2, <2>1 DEF ReportsInv, LookedUp
<1>5. NobodyInTheWay'
  <2>1. linked # NoSource
    BY <1>1 DEF ReportsInv, NobodyInTheWay
  <2>2. linked = Ours => \A g \in waiting' \cup {f} : times[g] # {}
    BY <1>1 DEF ReportsInv, NobodyInTheWay
  <2>3. ~excuse' => writing # Slot(f)
    BY <1>1
  <2> QED BY <1>1, <2>1, <2>2, <2>3 DEF NobodyInTheWay
<1> QED BY <1>3, <1>4, <1>5

LEMMA FrameReports ==
  ASSUME RingInv, ReportsInv, OnFrame
  PROVE  ReportsInv'
<1>1. /\ au # NoFrame /\ step = "idle" /\ au' = NoFrame /\ floor' = 0
      /\ UNCHANGED <<ringVars, ctlVars, rtcpVars, udpVars, waiting, next, main>>
  BY DEF OnFrame
<1> DEFINE why == excuse \/ newest >= au + Ring
           row == [src |-> linked, frame |-> au, sum |-> found, floor |-> floor,
                   excuse |-> why]
<1> USE DEF ringVars, readVars, writeVars, udpVars
<1>2. frameRows' = frameRows \/ frameRows' = frameRows \cup {row}
  BY DEF OnFrame
<1>3. SlotIsNewest'
  <2>1. \A r \in Slots : Summary(r)' = Summary(r)
    BY <1>1 DEF Summary
  <2> QED BY <1>1, <2>1, SlotsKept DEF ReportsInv
<1>4. au \in Frames /\ found \in Entries
  BY <1>1 DEF ReportsInv, LookedUp, RingInv, RingTypes
<1>5. /\ row.src = linked /\ row.frame = au /\ row.sum = found
      /\ row.floor = floor /\ (why => row.excuse)
  <2>1. row.excuse = why
    BY Zenon
  <2>2. why => row.excuse
    BY <2>1, Zenon
  <2> HIDE DEF why
  <2> QED BY <2>2
<1> HIDE DEF row, why
<1>6. LookedUp'
  <2>1. \A r \in frameRows' : r.frame \in Frames /\ r.sum \in Entries
    BY <1>2, <1>4, <1>5 DEF ReportsInv, LookedUp
  <2> QED BY <1>1, <2>1 DEF ReportsInv, LookedUp
<1>7. NobodyInTheWay'
  BY <1>1 DEF ReportsInv, NobodyInTheWay
<1>8. ReportsAreWhole'
  <2>1. found # NoEntry => found.key = au /\ Whole(found) /\ found.n >= floor
    BY <1>1 DEF ReportsInv, LookedUp
  <2>2. ASSUME NEW r \in frameRows', r.sum # NoEntry
        PROVE  r.sum.key = r.frame /\ WholeOf(r.sum, times[r.sum.key])
               /\ r.sum.n >= r.floor
    BY <1>2, <1>5, <2>1, <2>2 DEF ReportsInv, ReportsAreWhole, Whole
  <2> QED BY <1>1, <2>2 DEF ReportsAreWhole, Whole
<1>9. UnknownHasReason'
  <2>1. linked = Ours /\ found = NoEntry => why
    BY <1>1 DEF ReportsInv, NobodyInTheWay, why
  <2>2. ASSUME NEW r \in frameRows', r.src = Ours, r.sum = NoEntry PROVE r.excuse
    <3>1. CASE r \in frameRows
      BY <2>2, <3>1 DEF ReportsInv, UnknownHasReason
    <3>2. CASE r = row
      BY <1>5, <2>1, <2>2, <3>2
    <3> QED BY <1>2, <3>1, <3>2
  <2> QED BY <2>2 DEF UnknownHasReason
<1>10. AckInv'
  BY OtherAck DEF ReportsInv
<1> QED BY <1>3, <1>6, <1>7, <1>8, <1>9, <1>10 DEF ReportsInv

\* What the ring and the frames' thread do not see.
LEMMA ElsewhereReports ==
  ASSUME RingInv, ReportsInv,
         \/ CtlStep \/ OnRtcpIn \/ MainStep \/ UNCHANGED gstVars
         \/ \E f \in Frames : ReceiveStray(f)
  PROVE  ReportsInv'
<1> USE DEF ringVars, readVars, writeVars, outVars, udpVars
<1>0. /\ UNCHANGED <<ringVars, outVars, excuse, times, newest>>
  BY DEF CtlStep, OnRtcpIn, MainStep, gstVars, ReceiveStray
<1>1. AckInv'
  BY CtlAck, OtherAck DEF ReportsInv
<1>2. SlotIsNewest'
  <2>1. \A r \in Slots : Summary(r)' = Summary(r)
    BY <1>0 DEF Summary
  <2> QED BY <1>0, <2>1, SlotsKept DEF ReportsInv
<1>3. ReportsAreWhole' /\ UnknownHasReason'
  BY <1>0, RowsKept DEF ReportsInv
<1>4. CASE UNCHANGED <<linked, waiting>>
  BY <1>0, <1>1, <1>2, <1>3, <1>4
  DEF ReportsInv, LookedUp, NobodyInTheWay, Whole
<1>5. ASSUME NEW f \in Frames, ReceiveStray(f) PROVE ReportsInv'
  <2>1. /\ linked' = IF linked = NoSource THEN Foreign ELSE linked
        /\ waiting' = IF linked' = Foreign THEN waiting \cup {f} ELSE waiting
    BY <1>5 DEF ReceiveStray, Link
  <2>2. linked' # NoSource /\ Ours # Foreign
    BY <2>1, GstAssumption DEF Sources
  <2>3. waiting' \subseteq Frames
    BY <2>1 DEF ReportsInv, LookedUp
  <2>4. linked' = Ours => linked = Ours /\ waiting' = waiting
    BY <2>1, <2>2
  <2>5. LookedUp' /\ NobodyInTheWay'
    BY <1>0, <2>2, <2>3, <2>4 DEF ReportsInv, LookedUp, NobodyInTheWay, Whole
  <2> QED BY <1>1, <1>2, <1>3, <2>5 DEF ReportsInv
<1> QED BY <1>4, <1>5 DEF CtlStep, OnRtcpIn, MainStep, gstVars

LEMMA ReportsStep ==
  RingInv /\ ReportsInv /\ [GstNext]_gstVars => RingInv' /\ ReportsInv'
<1> SUFFICES ASSUME RingInv, ReportsInv, [GstNext]_gstVars
             PROVE  RingInv' /\ ReportsInv'
  OBVIOUS
<1>1. RingInv'
  BY StepUsesRing, StepInv
<1>2. CASE CtlStep \/ OnRtcpIn \/ MainStep \/ UNCHANGED gstVars
  BY <1>1, <1>2, ElsewhereReports
<1>3. CASE OnFrame
  BY <1>1, <1>3, FrameReports
<1>4. CASE ProbeStep
  <2>1. AckInv'
    BY <1>4, OtherAck DEF ReportsInv
  <2>2. SlotIsNewest' /\ LookedUp' /\ NobodyInTheWay'
    BY <1>4, WriteReports, LookupReports DEF ProbeStep
  <2>3. ReportsAreWhole' /\ UnknownHasReason'
    BY <1>4, RowsKept DEF ProbeStep, ReportsInv, udpVars, outVars
  <2> QED BY <1>1, <2>1, <2>2, <2>3 DEF ReportsInv
<1>5. ASSUME NEW f \in Frames, Receive(f) \/ ReceiveStray(f) \/ DepayOut(f)
      PROVE  ReportsInv'
  <2>1. CASE Receive(f)
    BY <2>1, ReceiveAck, ReceiveSlots, ReceiveReports DEF ReportsInv
  <2>2. CASE ReceiveStray(f)
    BY <2>2, ElsewhereReports
  <2>3. CASE DepayOut(f)
    <3>1. AckInv'
      BY <2>3, OtherAck DEF ReportsInv
    <3>2. ReportsAreWhole' /\ UnknownHasReason'
      BY <2>3, RowsKept DEF DepayOut, ReportsInv, udpVars
    <3> QED BY <2>3, <3>1, <3>2, DepayReports DEF ReportsInv
  <2> QED BY <1>5, <2>1, <2>2, <2>3
<1> QED BY <1>1, <1>2, <1>3, <1>4, <1>5 DEF GstNext

LEMMA ReportsInit == GstInit => RingInv /\ ReportsInv
<1> SUFFICES ASSUME GstInit PROVE RingInv /\ ReportsInv
  OBVIOUS
<1>1. RingInv /\ AckInv
  BY InitInv, AckInit DEF GstInit
<1>2. /\ times = [f \in Frames |-> {}] /\ newest = NoFrame /\ waiting = {}
      /\ au = NoFrame /\ floor = 0 /\ frameRows = {} /\ linked = NoSource
      /\ step = "idle" /\ writing = NoSlot /\ stable = [s \in Slots |-> NoEntry]
  BY DEF GstInit, RingInit
<1>3. \A s \in Slots : Summary(s).key = NoFrame
  BY <1>2, NoFrameIsNoFrame DEF Summary, NoEntry
<1>4. SlotIsNewest
  BY <1>2, <1>3 DEF SlotIsNewest
<1>5. LookedUp /\ NobodyInTheWay /\ ReportsAreWhole /\ UnknownHasReason
  BY <1>2, GstAssumption
  DEF LookedUp, NobodyInTheWay, ReportsAreWhole, UnknownHasReason, Sources
<1> QED BY <1>1, <1>4, <1>5 DEF ReportsInv

(* The packet statistics of rx-frames are those of a prefix of the frame's   *)
(* own packets, none counted before the lookup missing, for any ring, any    *)
(* frames and any reordering that is shorter than a ring (lines 235-286).   *)
THEOREM ReportsAreWholeHolds == GstSpec => []ReportsAreWhole
<1>1. RingInv /\ ReportsInv => ReportsAreWhole
  BY DEF ReportsInv
<1> QED BY <1>1, ReportsInit, ReportsStep, PTL DEF GstSpec

(* A frame of the announced stream goes without them only if a packet was   *)
(* counted in its slot during the lookup, or a frame a whole ring later had *)
(* come before it was decoded (lines 260-263).                              *)
THEOREM UnknownHasReasonHolds == GstSpec => []UnknownHasReason
<1>1. RingInv /\ ReportsInv => UnknownHasReason
  BY DEF ReportsInv
<1> QED BY <1>1, ReportsInit, ReportsStep, PTL DEF GstSpec
=============================================================================
