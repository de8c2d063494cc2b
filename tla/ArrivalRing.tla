---------------------------- MODULE ArrivalRing ----------------------------
(***************************************************************************)
(* The arrival ring of the gstreamer receiver (gstreamer/apps/receiver/     *)
(* video_receiver.cc, OnRtpIn and LookupArrival): a table of per-frame      *)
(* summaries that the udpsrc thread writes and the jitter buffer's thread   *)
(* reads without a lock.  Every slot is a seqlock: an odd `seq` means that  *)
(* its fields are being written.                                           *)
(*                                                                         *)
(* The stores of a write are relaxed between a release fence and a release  *)
(* store, and the loads of a lookup are relaxed between an acquire load and *)
(* an acquire fence: each side may see or do them in any order, but not     *)
(* outside.  So both are a set of fields still to be stored or loaded.      *)
(*                                                                         *)
(* `seq` is 32 bits wide in the code; it would have to go round once, two   *)
(* thousand million packets in one slot, within one lookup to mislead it.   *)
(***************************************************************************)
EXTENDS Integers, FiniteSets

CONSTANTS Frames,     \* RTP timestamps, in units of one slot
          Ring,       \* kArrivalRing
          Attempts,   \* attempts of one lookup
          MaxPackets  \* bound: packets counted

ASSUME ArrivalAssumption ==
  /\ Frames \subseteq Nat /\ Ring \in Nat \ {0}
  /\ Attempts \in Nat \ {0} /\ MaxPackets \in Nat

VARIABLES
  seq,      \* seq[s]
  slot,     \* slot[s]: the four fields, half written while seq[s] is odd
  clock,    \* packets counted so far; the time of the last
  \* udpsrc thread
  writing,  \* the slot it writes, or NoSlot
  new,      \* what it writes
  todo,     \* the fields still to be stored
  \* jitter buffer thread
  step,     \* where it is in LookupArrival
  want,     \* `ts`
  attempt, s0,
  copy,     \* the fields loaded, where
  loaded,   \* ... loaded says which are
  found,    \* what the last lookup returned; NoEntry is false
  \* history
  stable    \* stable[s]: what the last completed write left

writeVars == <<writing, new, todo>>
readVars == <<step, want, attempt, s0, copy, loaded, found>>
ringVars == <<seq, slot, clock, writeVars, readVars, stable>>

NoSlot == -1
NoFrame == -1      \* ~0ull: no timestamp has this value
Entries == [key : Frames \cup {NoFrame}, first : Nat, last : Nat, n : Nat]
NoEntry == [key |-> NoFrame, first |-> 0, last |-> 0, n |-> 0]
Fields == {"key", "first", "last", "n"}
Slots == 0 .. (Ring - 1)

Slot(f) == f % Ring                          \* ArrivalSlot
Odd(k) == k % 2 = 1

RingInit ==
  /\ seq = [s \in Slots |-> 0] /\ slot = [s \in Slots |-> NoEntry]
  /\ clock = 0
  /\ writing = NoSlot /\ new = NoEntry /\ todo = {}
  /\ step = "idle" /\ want = NoFrame /\ attempt = 0 /\ s0 = 0
  /\ copy = NoEntry /\ loaded = {} /\ found = NoEntry
  /\ stable = slot

-----------------------------------------------------------------------------
(* OnRtpIn: lines 235-258                                                   *)

\* Adding to the count that an older frame left in the slot.
Counted_KeepsCount(e, f, t) ==
  [key |-> f, last |-> t, n |-> e.n + 1, first |-> IF e.key = f THEN e.first ELSE t]

\* The summary after one more packet of frame f at time t.
Counted(e, f, t) ==
  IF e.key = f
    THEN [e EXCEPT !.n = @ + 1, !.last = t, !.first = IF t < @ THEN t ELSE @]
    ELSE [key |-> f, first |-> t, last |-> t, n |-> 1]

\* The fields a packet of frame f at time t stores.
Touched(e, f, t) ==
  IF e.key = f THEN {"n", "last"} \cup (IF t < e.first THEN {"first"} ELSE {})
               ELSE Fields

\* Writing without marking the slot first.
BeginWrite_Unmarked(f) ==
  /\ writing = NoSlot /\ clock < MaxPackets
  /\ clock' = clock + 1
  /\ writing' = Slot(f)
  /\ new' = Counted(slot[Slot(f)], f, clock + 1)
  /\ todo' = Touched(slot[Slot(f)], f, clock + 1)
  /\ UNCHANGED <<seq, slot, readVars, stable>>

\* A packet of frame f: the slot's seq becomes odd.
BeginWrite(f) ==
  /\ writing = NoSlot /\ clock < MaxPackets
  /\ clock' = clock + 1
  /\ writing' = Slot(f)
  /\ seq' = [seq EXCEPT ![Slot(f)] = @ + 1]
  /\ new' = Counted(slot[Slot(f)], f, clock + 1)
  /\ todo' = Touched(slot[Slot(f)], f, clock + 1)
  /\ UNCHANGED <<slot, readVars, stable>>

Store(x) ==
  /\ writing # NoSlot /\ x \in todo
  /\ slot' = [slot EXCEPT ![writing] = [@ EXCEPT ![x] = new[x]]]
  /\ todo' = todo \ {x}
  /\ UNCHANGED <<seq, clock, writing, new, readVars, stable>>

\* Returning from the same-frame branch before the second store of seq.
EndWrite_OnlyNewFrames ==
  /\ writing # NoSlot /\ todo = {}
  /\ writing' = NoSlot /\ new' = NoEntry
  /\ seq' = [seq EXCEPT ![writing] = IF new.n = 1 THEN @ + 1 ELSE @]
  /\ stable' = [stable EXCEPT ![writing] = slot[writing]]
  /\ UNCHANGED <<slot, clock, todo, readVars>>

EndWrite ==
  /\ writing # NoSlot /\ todo = {}
  /\ writing' = NoSlot /\ new' = NoEntry
  /\ seq' = [seq EXCEPT ![writing] = @ + 1]
  /\ stable' = [stable EXCEPT ![writing] = slot[writing]]
  /\ UNCHANGED <<slot, clock, todo, readVars>>

-----------------------------------------------------------------------------
(* LookupArrival: lines 273-286                                             *)

Lookup(f) ==
  /\ step = "idle"
  /\ step' = "seq" /\ want' = f /\ attempt' = 0 /\ found' = NoEntry
  /\ UNCHANGED <<seq, slot, clock, writeVars, s0, copy, loaded, stable>>

Return(e) ==
  /\ step' = "idle" /\ want' = NoFrame /\ attempt' = 0 /\ s0' = 0
  /\ copy' = NoEntry /\ loaded' = {} /\ found' = e

\* The attempt failed: another one, or false after the last.
Retry ==
  \/ /\ attempt + 1 < Attempts
     /\ attempt' = attempt + 1 /\ step' = "seq" /\ s0' = 0
     /\ copy' = NoEntry /\ loaded' = {}
     /\ UNCHANGED <<want, found>>
  \/ attempt + 1 >= Attempts /\ Return(NoEntry)

LoadSeq ==
  /\ step = "seq"
  /\ \/ Odd(seq[Slot(want)]) /\ Retry
     \/ /\ ~Odd(seq[Slot(want)])
        /\ s0' = seq[Slot(want)] /\ step' = "load"
        /\ UNCHANGED <<want, attempt, copy, loaded, found>>
  /\ UNCHANGED <<seq, slot, clock, writeVars, stable>>

Load(x) ==
  /\ step = "load" /\ x \in Fields \ loaded
  /\ copy' = [copy EXCEPT ![x] = slot[Slot(want)][x]]
  /\ loaded' = loaded \cup {x}
  /\ UNCHANGED <<seq, slot, clock, writeVars, step, want, attempt, s0, found,
                 stable>>

\* The slot belongs to another frame.
OtherFrame ==
  /\ step = "load" /\ "key" \in loaded /\ copy.key # want
  /\ Return(NoEntry)
  /\ UNCHANGED <<seq, slot, clock, writeVars, stable>>

Recheck ==
  /\ step = "load" /\ loaded = Fields /\ copy.key = want
  /\ \/ seq[Slot(want)] = s0 /\ Return(copy)
     \/ seq[Slot(want)] # s0 /\ Retry
  /\ UNCHANGED <<seq, slot, clock, writeVars, stable>>

-----------------------------------------------------------------------------
WriteStep == EndWrite \/ \E x \in Fields : Store(x)
LookupStep == LoadSeq \/ OtherFrame \/ Recheck \/ \E x \in Fields : Load(x)

RingNext ==
  \/ \E f \in Frames : BeginWrite(f) \/ Lookup(f)
  \/ WriteStep \/ LookupStep

RingSpec == RingInit /\ [][RingNext]_ringVars

(* Every lookup is answered as by a table that counts each packet at once:  *)
(* with the summary the slot held at one moment during the lookup, never    *)
(* with fields of two writes, or with false.  A write takes effect when its *)
(* seq turns even, a lookup at its second look at seq.                      *)
Map == INSTANCE ArrivalMap WITH
         entry <- stable, asked <- want, answer <- found,
         clock <- IF writing = NoSlot THEN clock ELSE clock - 1

ImplementsMap == Map!Spec
=============================================================================
