--------------------------- MODULE GstSenderProofs ---------------------------
(***************************************************************************)
(* The gstreamer sender, for any queue, any number of slots and any outcome *)
(* of the timed waits: its traces are final when they are closed, every     *)
(* slot has one row, and a shutdown without a warning has lost nothing.     *)
(***************************************************************************)
EXTENDS GstSender, TLAPS

\* Shutdown has gone past the point where the control thread was joined.
PastControl == main # "running" => ctl \in {"idle", "awaiting"}

\* From SetNull on the pipeline flushes, and NullDone saw it empty.
PipeEmptied ==
  /\ main \in {"null", "join", "close", "closed"} => flushing
  /\ main \in {"join", "close", "closed"} => enc = 0 /\ wire = <<>>

\* Join saw the grid thread end, or there was none.
GridJoined == main \in {"close", "closed"} => grid \in {"none", "done"}

ClosedAtEnd == traces = "closed" => main = "closed"

FinalInv == PastControl /\ PipeEmptied /\ GridJoined /\ ClosedAtEnd

\* The order of Shutdown is kept by every step of the other threads.
LEMMA FinalInvStep == FinalInv /\ [SendNext]_sendVars => FinalInv'
<1> SUFFICES ASSUME FinalInv, [SendNext]_sendVars PROVE FinalInv'
  OBVIOUS
<1> USE DEF FinalInv, PastControl, PipeEmptied, GridJoined, ClosedAtEnd,
            ctlVars, gridVars, pipeVars, mainVars
<1>1. CASE CtlStep
  BY <1>1 DEF CtlStep, ReceiverReady, StreamAck, StartGrid, SetStarted
<1>2. CASE GridStep
  BY <1>2 DEF GridStep, LoopTest, Wake, EmitMissed, Push, EmitRow, ReadTail, EmitTail
<1>3. CASE Tick
  BY <1>3 DEF Tick
<1>4. CASE PipeStep
  BY <1>4 DEF PipeStep, EncTake, OnEncoded, OnRtpOut, EosOut, FlushOut
<1>5. CASE BeginShutdown
  BY <1>5 DEF BeginShutdown, StopControl, Goto
<1>6. CASE ShutdownStep
  <2> USE <1>6 DEF ShutdownStep, Goto, WaitFor, AfterStop
  <2>1. CASE RequestStop BY <2>1 DEF RequestStop
  <2>2. CASE WaitStopped BY <2>2 DEF WaitStopped
  <2>3. CASE ReadPushed BY <2>3 DEF ReadPushed
  <2>4. CASE WaitEncoder BY <2>4 DEF WaitEncoder
  <2>5. CASE WaitEos BY <2>5 DEF WaitEos
  <2>6. CASE WaitSender BY <2>6 DEF WaitSender
  <2>7. CASE SetNull BY <2>7 DEF SetNull
  <2>8. CASE NullDone BY <2>8 DEF NullDone
  <2>9. CASE Join BY <2>9 DEF Join
  <2>10. CASE CloseTraces BY <2>10 DEF CloseTraces
  <2> QED BY <2>1, <2>2, <2>3, <2>4, <2>5, <2>6, <2>7, <2>8, <2>9, <2>10
<1>7. CASE UNCHANGED sendVars
  BY <1>7 DEF sendVars
<1> QED BY <1>1, <1>2, <1>3, <1>4, <1>5, <1>6, <1>7 DEF SendNext

\* With the grid joined and the pipeline empty no step writes a row.
LEMMA NothingWrites ==
  FinalInv /\ [SendNext]_sendVars =>
    (traces = "closed" => UNCHANGED <<rows, encoded, sent>>)
<1> SUFFICES ASSUME FinalInv, [SendNext]_sendVars, traces = "closed"
             PROVE UNCHANGED <<rows, encoded, sent>>
  OBVIOUS
<1>1. main = "closed" /\ ctl \in {"idle", "awaiting"} /\ flushing
      /\ enc = 0 /\ wire = <<>> /\ grid \in {"none", "done"}
  BY DEF FinalInv, PastControl, PipeEmptied, GridJoined, ClosedAtEnd
<1> USE <1>1 DEF ctlVars, gridVars, pipeVars, mainVars
<1>2. CASE CtlStep
  BY <1>2 DEF CtlStep
<1>3. CASE GridStep
  BY <1>3 DEF GridStep, LoopTest, Wake, EmitMissed, Push, EmitRow, ReadTail, EmitTail
<1>4. CASE Tick
  BY <1>4 DEF Tick
<1>5. CASE PipeStep
  BY <1>5 DEF PipeStep, EncTake, OnEncoded, OnRtpOut, EosOut, FlushOut
<1>6. CASE BeginShutdown \/ ShutdownStep
  BY <1>6 DEF BeginShutdown, StopControl, ShutdownStep, RequestStop, WaitStopped,
     ReadPushed, WaitEncoder, WaitEos, WaitSender, SetNull, NullDone, Join, CloseTraces
<1>7. CASE UNCHANGED sendVars
  BY <1>7 DEF sendVars
<1> QED BY <1>2, <1>3, <1>4, <1>5, <1>6, <1>7 DEF SendNext

(* When the traces are closed nobody writes to them any more, whichever of  *)
(* Shutdown's waits ended in time.                                         *)
THEOREM ClosedIsFinalHolds == SendSpec => ClosedIsFinal
<1>1. SendInit => FinalInv
  BY DEF SendInit, FinalInv, PastControl, PipeEmptied, GridJoined, ClosedAtEnd
<1>2. FinalInv /\ [SendNext]_sendVars
        => [traces = "closed" => UNCHANGED <<rows, encoded, sent>>]_sendVars
  BY NothingWrites
<1> QED
  BY <1>1, <1>2, FinalInvStep, PTL DEF SendSpec, ClosedIsFinal

-----------------------------------------------------------------------------
(* Sequences.                                                               *)

LEMMA RangeAppend ==
  ASSUME NEW S, NEW s \in Seq(S), NEW x \in S
  PROVE  /\ Append(s, x) \in Seq(S) /\ Len(Append(s, x)) = Len(s) + 1
         /\ Range(Append(s, x)) = Range(s) \cup {x}
         /\ \A i \in 1 .. Len(s) : Append(s, x)[i] = s[i]
         /\ Append(s, x)[Len(s) + 1] = x
         /\ DOMAIN Append(s, x) = 1 .. (Len(s) + 1) /\ DOMAIN s = 1 .. Len(s)
<1>1. /\ Append(s, x) \in Seq(S) /\ Len(Append(s, x)) = Len(s) + 1
      /\ \A i \in 1 .. Len(s) : Append(s, x)[i] = s[i]
      /\ Append(s, x)[Len(s) + 1] = x
      /\ DOMAIN Append(s, x) = 1 .. (Len(s) + 1) /\ DOMAIN s = 1 .. Len(s)
      /\ Len(s) \in Nat
  OBVIOUS
<1>2. ASSUME NEW y PROVE y \in Range(Append(s, x)) <=> y \in Range(s) \cup {x}
  <2>1. ASSUME y \in Range(Append(s, x)) PROVE y \in Range(s) \cup {x}
    <3>1. PICK i \in 1 .. (Len(s) + 1) : y = Append(s, x)[i]
      BY <1>1, <2>1 DEF Range
    <3>2. CASE i = Len(s) + 1
      BY <1>1, <3>1, <3>2
    <3>3. CASE i # Len(s) + 1
      <4>1. i \in 1 .. Len(s)
        BY <1>1, <3>3
      <4> QED BY <1>1, <3>1, <4>1 DEF Range
    <3> QED BY <3>2, <3>3
  <2>2. ASSUME y \in Range(s) PROVE y \in Range(Append(s, x))
    <3>1. PICK i \in 1 .. Len(s) : y = s[i]
      BY <1>1, <2>2 DEF Range
    <3>2. i \in 1 .. (Len(s) + 1) /\ Append(s, x)[i] = y
      BY <1>1, <3>1
    <3> QED BY <1>1, <3>2 DEF Range
  <2>3. x \in Range(Append(s, x))
    <3>1. Len(s) + 1 \in 1 .. (Len(s) + 1)
      BY <1>1
    <3> QED BY <1>1, <3>1 DEF Range
  <2> QED BY <2>1, <2>2, <2>3
<1> QED BY <1>1, <1>2

LEMMA RangeHeadTail ==
  ASSUME NEW S, NEW s \in Seq(S), s # <<>>
  PROVE  /\ Tail(s) \in Seq(S) /\ Head(s) \in S /\ Len(Tail(s)) = Len(s) - 1
         /\ Head(s) = s[1] /\ Len(s) \in Nat \ {0}
         /\ \A i \in 1 .. Len(Tail(s)) : Tail(s)[i] = s[i + 1]
         /\ DOMAIN Tail(s) = 1 .. (Len(s) - 1) /\ DOMAIN s = 1 .. Len(s)
         /\ Range(s) = {Head(s)} \cup Range(Tail(s))
<1>1. /\ Tail(s) \in Seq(S) /\ Head(s) \in S /\ Len(Tail(s)) = Len(s) - 1
      /\ Head(s) = s[1] /\ Len(s) \in Nat \ {0}
      /\ \A i \in 1 .. Len(Tail(s)) : Tail(s)[i] = s[i + 1]
      /\ DOMAIN Tail(s) = 1 .. (Len(s) - 1) /\ DOMAIN s = 1 .. Len(s)
  OBVIOUS
<1>2. ASSUME NEW y PROVE y \in Range(s) <=> y \in {Head(s)} \cup Range(Tail(s))
  <2>1. ASSUME y \in Range(s), y # Head(s) PROVE y \in Range(Tail(s))
    <3>1. PICK i \in 1 .. Len(s) : y = s[i]
      BY <1>1, <2>1 DEF Range
    <3>2. i # 1 /\ i - 1 \in 1 .. (Len(s) - 1)
      BY <1>1, <2>1, <3>1
    <3>3. Tail(s)[i - 1] = y
      BY <1>1, <3>1, <3>2
    <3> QED BY <1>1, <3>2, <3>3 DEF Range
  <2>2. ASSUME y \in Range(Tail(s)) PROVE y \in Range(s)
    <3>1. PICK i \in 1 .. (Len(s) - 1) : y = Tail(s)[i]
      BY <1>1, <2>2 DEF Range
    <3>2. i + 1 \in 1 .. Len(s) /\ y = s[i + 1]
      BY <1>1, <3>1
    <3> QED BY <1>1, <3>2 DEF Range
  <2>3. Head(s) \in Range(s)
    <3>1. 1 \in 1 .. Len(s)
      BY <1>1
    <3> QED BY <1>1, <3>1 DEF Range
  <2> QED BY <2>1, <2>2, <2>3
<1> QED BY <1>1, <1>2

-----------------------------------------------------------------------------
(* Types.                                                                   *)

LEMMA SendTypeInit == SendInit => SendTypeOK
<1> SUFFICES ASSUME SendInit PROVE SendTypeOK
  OBVIOUS
<1>1. /\ rows \in Seq(TxRow) /\ queue \in Seq(Nat) /\ wire \in Seq(Nat)
      /\ encoded \in Seq(Nat) /\ sent \in Seq(Nat)
  BY DEF SendInit
<1>2. /\ now \in Nat /\ slot \in Nat /\ resume \in Nat /\ pushed \in Nat
      /\ enc \in Nat /\ target \in Nat
  BY DEF SendInit
<1>3. /\ started \in BOOLEAN /\ running \in BOOLEAN /\ eos \in BOOLEAN
      /\ flushing \in BOOLEAN /\ eosSeen \in BOOLEAN /\ drained \in BOOLEAN
  BY Zenon DEF SendInit
<1> QED BY <1>1, <1>2, <1>3 DEF SendTypeOK

\* A row of the next slot, appended.
LEMMA RowType ==
  ASSUME SendTypeOK, NEW b \in BOOLEAN
  PROVE  /\ [slot |-> slot, ok |-> b] \in TxRow
         /\ Append(rows, [slot |-> slot, ok |-> b]) \in Seq(TxRow)
<1>1. slot \in Nat /\ rows \in Seq(TxRow)
  BY DEF SendTypeOK
<1>2. [slot |-> slot, ok |-> b] \in TxRow
  BY <1>1 DEF TxRow
<1> QED BY <1>1, <1>2

LEMMA SendTypeStep == SendTypeOK /\ [SendNext]_sendVars => SendTypeOK'
<1> SUFFICES ASSUME SendTypeOK, [SendNext]_sendVars PROVE SendTypeOK'
  OBVIOUS
<1> USE DEF SendTypeOK, ctlVars, gridVars, pipeVars, mainVars
<1>1. CASE CtlStep
  <2> USE <1>1 DEF CtlStep
  <2>1. CASE ReceiverReady BY <2>1 DEF ReceiverReady
  <2>2. CASE StreamAck BY <2>2 DEF StreamAck
  <2>3. CASE StartGrid BY <2>3 DEF StartGrid
  <2>4. CASE SetStarted BY <2>4 DEF SetStarted
  <2> QED BY <2>1, <2>2, <2>3, <2>4
<1>2. CASE GridStep
  <2>0. UNCHANGED <<now, started, eos, flushing, eosSeen, drained, enc, target,
                    wire, encoded, sent>>
    BY <1>2 DEF GridStep
  <2>1. CASE LoopTest BY <2>0, <2>1 DEF LoopTest
  <2>2. CASE Wake BY <2>0, <2>2 DEF Wake
  <2>3. CASE EmitMissed
    <3>1. rows' = rows \/ rows' = Append(rows, [slot |-> slot, ok |-> FALSE])
      BY <2>3 DEF EmitMissed, Row
    <3>2. rows' \in Seq(TxRow)
      BY <3>1, RowType
    <3>3. slot \in Nat /\ (slot' = slot \/ slot' = slot + 1)
      BY <2>3 DEF EmitMissed
    <3> QED BY <2>0, <2>3, <3>2, <3>3 DEF EmitMissed
  <2>4. CASE Push
    <3>1. queue' = queue \/ queue' = Append(queue, slot)
      BY <2>4 DEF Push
    <3>2. Append(queue, slot) \in Seq(Nat)
      BY RangeAppend
    <3>3. queue' \in Seq(Nat)
      BY <3>1, <3>2
    <3> QED BY <2>0, <2>4, <3>3 DEF Push
  <2>5. CASE EmitRow
    <3>1. (grid = "accepted") \in BOOLEAN
      OBVIOUS
    <3>2. rows' \in Seq(TxRow)
      BY <2>5, <3>1, RowType DEF EmitRow, Row
    <3>3. slot' \in Nat /\ pushed' \in Nat
      BY <2>5 DEF EmitRow
    <3> QED BY <2>0, <2>5, <3>2, <3>3 DEF EmitRow
  <2>6. CASE ReadTail BY <2>0, <2>6 DEF ReadTail
  <2>7. CASE EmitTail
    <3>1. rows' = rows \/ rows' = Append(rows, [slot |-> slot, ok |-> FALSE])
      BY <2>7 DEF EmitTail, Row
    <3>2. rows' \in Seq(TxRow)
      BY <3>1, RowType
    <3>3. slot \in Nat /\ (slot' = slot \/ slot' = slot + 1)
      BY <2>7 DEF EmitTail
    <3> QED BY <2>0, <2>7, <3>2, <3>3 DEF EmitTail
  <2> QED BY <1>2, <2>1, <2>2, <2>3, <2>4, <2>5, <2>6, <2>7 DEF GridStep
<1>3. CASE Tick
  BY <1>3 DEF Tick
<1>4. CASE PipeStep
  <2>0. UNCHANGED <<now, started, running, slot, resume, pushed, rows, drained,
                    target>>
    BY <1>4 DEF PipeStep
  <2>1. CASE EncTake
    <3>1. queue' \in Seq(Nat) /\ enc' \in Nat
      BY <2>1, RangeHeadTail DEF EncTake
    <3> QED BY <2>0, <2>1, <3>1 DEF EncTake
  <2>2. CASE OnEncoded
    <3>1. encoded' \in Seq(Nat) /\ wire' \in Seq(Nat)
      BY <2>2, RangeAppend DEF OnEncoded
    <3> QED BY <2>0, <2>2, <3>1 DEF OnEncoded
  <2>3. CASE OnRtpOut
    <3>1. sent' \in Seq(Nat) /\ wire' \in Seq(Nat)
      BY <2>3, RangeHeadTail, RangeAppend DEF OnRtpOut
    <3> QED BY <2>0, <2>3, <3>1 DEF OnRtpOut
  <2>4. CASE EosOut BY <2>0, <2>4 DEF EosOut
  <2>5. CASE FlushOut BY <2>0, <2>5 DEF FlushOut
  <2> QED BY <1>4, <2>1, <2>2, <2>3, <2>4, <2>5 DEF PipeStep
<1>5. CASE BeginShutdown
  BY <1>5 DEF BeginShutdown, StopControl, Goto
<1>6. CASE ShutdownStep
  BY <1>6 DEF ShutdownStep, RequestStop, WaitStopped, ReadPushed, WaitEncoder,
     WaitEos, WaitSender, SetNull, NullDone, Join, CloseTraces, Goto, WaitFor
<1>7. CASE UNCHANGED sendVars
  BY <1>7 DEF sendVars
<1> QED BY <1>1, <1>2, <1>3, <1>4, <1>5, <1>6, <1>7 DEF SendNext

-----------------------------------------------------------------------------
(* The grid.                                                                *)

\* What a step of Shutdown, or of the ticking clock, leaves alone.
LEMMA ShutdownFrame ==
  ASSUME BeginShutdown \/ ShutdownStep \/ UNCHANGED sendVars
  PROVE  UNCHANGED <<cc, now, ctlVars, loopDone, grid, slot, resume, pushed, rows,
                     queue, enc, wire, encoded, sent, eosSeen>>
BY DEF BeginShutdown, ShutdownStep, sendVars, gridVars, pipeVars

LEMMA StartedOnceStep ==
  SendTypeOK /\ StartedOnce /\ [SendNext]_sendVars => StartedOnce'
<1> SUFFICES ASSUME SendTypeOK, StartedOnce, [SendNext]_sendVars
             PROVE  StartedOnce'
  OBVIOUS
<1> USE DEF SendTypeOK, StartedOnce, ctlVars, gridVars, pipeVars, mainVars
<1>1. CASE CtlStep
  BY <1>1 DEF CtlStep, ReceiverReady, StreamAck, StartGrid, SetStarted
<1>2. CASE GridStep
  <2>0. /\ grid # "none" /\ grid' # "none" /\ slot \in Nat /\ resume \in Nat
        /\ UNCHANGED <<started, ctl>>
    BY <1>2 DEF GridStep, LoopTest, Wake, EmitMissed, Push, EmitRow, ReadTail,
                EmitTail
  <2>1. slot >= 1 /\ (slot' = slot \/ slot' = slot + 1)
    BY <1>2, <2>0 DEF GridStep, LoopTest, Wake, EmitMissed, Push, EmitRow,
                      ReadTail, EmitTail
  <2>2. loopDone' => grid' = "done"
    BY <1>2 DEF GridStep, LoopTest, Wake, EmitMissed, Push, EmitRow, ReadTail,
                EmitTail
  <2> QED BY <2>0, <2>1, <2>2
<1>3. CASE Tick
  BY <1>3 DEF Tick
<1>4. CASE PipeStep
  BY <1>4 DEF PipeStep, EncTake, OnEncoded, OnRtpOut, EosOut, FlushOut
<1>5. CASE BeginShutdown \/ ShutdownStep \/ UNCHANGED sendVars
  BY <1>5, ShutdownFrame
<1> QED BY <1>1, <1>2, <1>3, <1>4, <1>5 DEF SendNext

GridInv == SendTypeOK /\ StartedOnce /\ OneRowPerSlot /\ OnTime

\* One more row, of the next slot.
LEMMA RowAppended ==
  ASSUME SendTypeOK, OneRowPerSlot, NEW b \in BOOLEAN,
         rows' = Append(rows, [slot |-> slot, ok |-> b]), slot' = slot + 1
  PROVE  OneRowPerSlot'
<1> DEFINE r == [slot |-> slot, ok |-> b]
<1>1. r \in TxRow /\ r.slot = slot
  BY RowType
<1> HIDE DEF r
<1>2. /\ Len(rows') = Len(rows) + 1 /\ DOMAIN rows' = 1 .. (Len(rows) + 1)
      /\ \A i \in 1 .. Len(rows) : rows'[i] = rows[i]
      /\ rows'[Len(rows) + 1] = r /\ DOMAIN rows = 1 .. Len(rows)
      /\ Len(rows) \in Nat
  BY <1>1, RangeAppend DEF SendTypeOK, r
<1>3. slot \in Nat /\ Len(rows) \in Nat /\ slot' - Len(rows') = slot - Len(rows)
  BY <1>2 DEF SendTypeOK
<1>4. ASSUME NEW i \in 1 .. (Len(rows) + 1)
      PROVE  rows'[i].slot = slot' - Len(rows') + i - 1
  <2>1. CASE i = Len(rows) + 1
    <3>1. rows'[i].slot = slot
      BY <1>1, <1>2, <2>1
    <3> QED BY <1>3, <2>1, <3>1
  <2>2. CASE i # Len(rows) + 1
    <3>1. i \in 1 .. Len(rows)
      BY <1>3, <2>2
    <3>2. rows'[i].slot = slot - Len(rows) + i - 1
      BY <1>2, <3>1 DEF OneRowPerSlot
    <3> QED BY <1>3, <3>2
  <2> QED BY <2>1, <2>2
<1>5. slot' >= Len(rows')
  BY <1>2, <1>3 DEF OneRowPerSlot
<1> QED BY <1>2, <1>4, <1>5 DEF OneRowPerSlot

LEMMA GridInvStep == GridInv /\ [SendNext]_sendVars => GridInv'
<1> SUFFICES ASSUME GridInv, [SendNext]_sendVars
             PROVE  OneRowPerSlot' /\ OnTime'
  BY SendTypeStep, StartedOnceStep DEF GridInv
<1> USE DEF GridInv
<1>1. CASE UNCHANGED <<now, gridVars>>
  BY <1>1 DEF OneRowPerSlot, OnTime, gridVars
<1>2. CASE Tick
  BY <1>2 DEF Tick, OneRowPerSlot, OnTime, gridVars, SendTypeOK
<1>3. CASE CtlStep
  <2>1. CASE StartGrid
    BY <1>3, <2>1
    DEF CtlStep, StartGrid, StartedOnce, OneRowPerSlot, OnTime, SendTypeOK
  <2>2. CASE ReceiverReady \/ StreamAck \/ SetStarted
    BY <1>3, <2>2
    DEF CtlStep, ReceiverReady, StreamAck, SetStarted, OneRowPerSlot, OnTime
  <2> QED BY <1>3, <2>1, <2>2 DEF CtlStep
<1>4. CASE GridStep
  <2>0. UNCHANGED now
    BY <1>4 DEF GridStep
  <2> USE DEF SendTypeOK
  <2>1. CASE LoopTest \/ Wake \/ Push \/ ReadTail
    <3>1. UNCHANGED <<slot, rows>>
      BY <2>1 DEF LoopTest, Wake, Push, ReadTail
    <3>2. OnTime'
      BY <2>0, <2>1, <3>1 DEF LoopTest, Wake, Push, ReadTail, OnTime
    <3> QED BY <3>1, <3>2 DEF OneRowPerSlot
  <2>2. CASE EmitMissed
    <3>1. CASE slot < resume /\ running
      <4>1. OneRowPerSlot'
        BY <2>2, <3>1, RowAppended DEF EmitMissed, Row
      <4> QED BY <2>0, <2>2, <3>1, <4>1 DEF EmitMissed, OnTime
    <3>2. CASE ~(slot < resume /\ running)
      BY <2>0, <2>2, <3>2 DEF EmitMissed, OnTime, OneRowPerSlot
    <3> QED BY <3>1, <3>2
  <2>3. CASE EmitRow
    <3>1. OneRowPerSlot'
      <4>1. (grid = "accepted") \in BOOLEAN
        OBVIOUS
      <4> QED BY <2>3, <4>1, RowAppended DEF EmitRow, Row
    <3> QED BY <2>0, <2>3, <3>1 DEF EmitRow, OnTime
  <2>4. CASE EmitTail
    <3>1. CASE slot + 1 <= resume
      <4>1. OneRowPerSlot'
        BY <2>4, <3>1, RowAppended DEF EmitTail, Row
      <4> QED BY <2>0, <2>4, <3>1, <4>1 DEF EmitTail, OnTime
    <3>2. CASE ~(slot + 1 <= resume)
      BY <2>0, <2>4, <3>2 DEF EmitTail, OnTime, OneRowPerSlot
    <3> QED BY <3>1, <3>2
  <2> QED BY <1>4, <2>1, <2>2, <2>3, <2>4 DEF GridStep
<1>5. CASE PipeStep
  BY <1>1, <1>5 DEF PipeStep
<1>6. CASE BeginShutdown \/ ShutdownStep \/ UNCHANGED sendVars
  BY <1>6, ShutdownFrame DEF OneRowPerSlot, OnTime
<1> QED BY <1>2, <1>3, <1>4, <1>5, <1>6 DEF SendNext

(* tx-frames has one row per slot, in order and none before its time, up to *)
(* the moment the grid stopped, wherever a push was blocked or Shutdown came.*)
THEOREM EverySlotOnceHolds == SendSpec => []EverySlotOnce
<1>1. SendInit => GridInv
  BY SendTypeInit DEF SendInit, GridInv, StartedOnce, OneRowPerSlot, OnTime
<1>2. GridInv => EverySlotOnce
  <2> SUFFICES ASSUME GridInv PROVE EverySlotOnce
    OBVIOUS
  <2>1. /\ Len(rows) \in Nat /\ DOMAIN rows = 1 .. Len(rows)
        /\ rows # <<>> => Len(rows) \in DOMAIN rows /\ 1 \in DOMAIN rows
    BY DEF GridInv, SendTypeOK
  <2>2. \A i \in DOMAIN rows : rows[i].slot = slot - Len(rows) + i - 1
    BY DEF GridInv, OneRowPerSlot
  <2>3. ASSUME NEW i \in DOMAIN rows
        PROVE  rows[i].slot = rows[1].slot + i - 1
    <3>1. rows # <<>>
      BY <2>3
    <3>2. rows[1].slot = slot - Len(rows) + 1 - 1
      BY <2>1, <2>2, <3>1
    <3> QED BY <2>1, <2>2, <3>2 DEF GridInv, SendTypeOK
  <2>4. ASSUME rows # <<>>
        PROVE  slot = Last(rows).slot + 1 /\ Last(rows).slot <= now
    <3>1. Last(rows) = rows[Len(rows)] /\ Len(rows) \in DOMAIN rows
      BY <2>1, <2>4 DEF Last
    <3>2. Last(rows).slot = slot - Len(rows) + Len(rows) - 1
      BY <2>2, <3>1
    <3>3. slot \in Nat /\ now \in Nat /\ slot <= now + 1
      BY <2>4 DEF GridInv, OnTime, SendTypeOK
    <3> QED BY <2>1, <3>2, <3>3
  <2>5. grid = "done" => slot + 1 > resume
    BY DEF GridInv, OnTime
  <2> QED BY <2>3, <2>4, <2>5 DEF EverySlotOnce
<1> QED BY <1>1, <1>2, GridInvStep, PTL DEF SendSpec

-----------------------------------------------------------------------------
(* Frames.                                                                  *)

LEMMA IncreasingAppend ==
  ASSUME NEW s \in Seq(Nat), NEW x \in Nat, Increasing(s),
         \A i \in DOMAIN s : s[i] < x
  PROVE  Increasing(Append(s, x))
<1> DEFINE t == Append(s, x)
<1>1. /\ \A i \in 1 .. Len(s) : t[i] = s[i]
      /\ t[Len(s) + 1] = x /\ DOMAIN t = 1 .. (Len(s) + 1)
      /\ DOMAIN s = 1 .. Len(s) /\ Len(s) \in Nat
  BY RangeAppend
<1> HIDE DEF t
<1>2. ASSUME NEW i \in DOMAIN t, NEW j \in DOMAIN t, i < j PROVE t[i] < t[j]
  <2>1. i \in DOMAIN s /\ t[i] = s[i]
    BY <1>1, <1>2
  <2>2. CASE j = Len(s) + 1
    BY <1>1, <2>1, <2>2
  <2>3. CASE j # Len(s) + 1
    <3>1. j \in DOMAIN s /\ t[j] = s[j]
      BY <1>1, <2>3
    <3> QED BY <1>2, <2>1, <3>1 DEF Increasing
  <2> QED BY <2>2, <2>3
<1>3. Increasing(t)
  BY <1>2 DEF Increasing
<1> QED BY <1>3 DEF t

LEMMA IncreasingTail ==
  ASSUME NEW s \in Seq(Nat), s # <<>>, Increasing(s)
  PROVE  /\ Increasing(Tail(s))
         /\ \A j \in DOMAIN Tail(s) : Head(s) < Tail(s)[j]
<1>1. /\ Head(s) = s[1] /\ Len(s) \in Nat \ {0}
      /\ \A i \in 1 .. (Len(s) - 1) : Tail(s)[i] = s[i + 1]
      /\ DOMAIN Tail(s) = 1 .. (Len(s) - 1) /\ DOMAIN s = 1 .. Len(s)
  BY RangeHeadTail
<1>2. ASSUME NEW j \in DOMAIN Tail(s)
      PROVE  j + 1 \in DOMAIN s /\ Tail(s)[j] = s[j + 1] /\ 1 < j + 1
  BY <1>1
<1>3. ASSUME NEW i \in DOMAIN Tail(s), NEW j \in DOMAIN Tail(s), i < j
      PROVE  Tail(s)[i] < Tail(s)[j]
  <2>1. i + 1 < j + 1
    BY <1>1, <1>3
  <2> QED BY <1>2, <2>1 DEF Increasing
<1>4. 1 \in DOMAIN s
  BY <1>1
<1> QED BY <1>1, <1>2, <1>3, <1>4 DEF Increasing

\* A member of a sequence is one of its elements.
LEMMA RangeMember ==
  ASSUME NEW s
  PROVE  /\ \A i \in DOMAIN s : s[i] \in Range(s)
         /\ \A x \in Range(s) : \E i \in DOMAIN s : x = s[i]
BY DEF Range

\* The slots that tx-frames reports as taken, after one more row.
LEMMA AcceptedAppend ==
  ASSUME SendTypeOK, NEW b \in BOOLEAN,
         rows' = Append(rows, [slot |-> slot, ok |-> b])
  PROVE  Accepted' = Accepted \cup (IF b THEN {slot} ELSE {})
<1> DEFINE r == [slot |-> slot, ok |-> b]
<1>1. r \in TxRow /\ r.slot = slot /\ r.ok = b
  BY RowType
<1> HIDE DEF r
<1>2. /\ DOMAIN rows' = 1 .. (Len(rows) + 1) /\ DOMAIN rows = 1 .. Len(rows)
      /\ \A i \in 1 .. Len(rows) : rows'[i] = rows[i]
      /\ rows'[Len(rows) + 1] = r /\ Len(rows) \in Nat
  BY <1>1, RangeAppend DEF SendTypeOK, r
<1>3. ASSUME NEW x \in Accepted' PROVE x \in Accepted \cup (IF b THEN {slot} ELSE {})
  <2>1. PICK i \in DOMAIN rows' : rows'[i].ok /\ x = rows'[i].slot
    BY <1>3 DEF Accepted
  <2>2. CASE i = Len(rows) + 1
    BY <1>1, <1>2, <2>1, <2>2
  <2>3. CASE i # Len(rows) + 1
    <3>1. i \in DOMAIN rows /\ rows'[i] = rows[i]
      BY <1>2, <2>3
    <3> QED BY <2>1, <3>1 DEF Accepted
  <2> QED BY <2>2, <2>3
<1>4. ASSUME NEW x \in Accepted PROVE x \in Accepted'
  <2>1. PICK i \in DOMAIN rows : rows[i].ok /\ x = rows[i].slot
    BY <1>4 DEF Accepted
  <2>2. i \in DOMAIN rows' /\ rows'[i] = rows[i]
    BY <1>2
  <2> QED BY <2>1, <2>2 DEF Accepted
<1>5. b => slot \in Accepted'
  <2>1. Len(rows) + 1 \in DOMAIN rows'
    BY <1>2
  <2> QED BY <1>1, <1>2, <2>1 DEF Accepted
<1> QED BY <1>3, <1>4, <1>5

\* What was accepted is before the next slot.
LEMMA AcceptedIsPast ==
  ASSUME SendTypeOK, OneRowPerSlot
  PROVE  \A x \in Accepted : x \in Nat /\ x < slot
<1> TAKE x \in Accepted
<1>1. PICK i \in DOMAIN rows : x = rows[i].slot
  BY DEF Accepted
<1>2. DOMAIN rows = 1 .. Len(rows) /\ Len(rows) \in Nat /\ slot \in Nat
  BY DEF SendTypeOK
<1>3. x = slot - Len(rows) + i - 1 /\ slot >= Len(rows)
  BY <1>1 DEF OneRowPerSlot
<1> QED BY <1>2, <1>3

FlowVars == <<queue, enc, encoded, slot, grid>>

LEMMA FlowFrame ==
  ASSUME FlowInOrder, UNCHANGED <<queue, enc, encoded>>,
         slot \in Nat, slot' \in Nat, slot <= slot',
         Pending \subseteq Pending' \/ slot < slot',
         Flow \subseteq Nat
  PROVE  FlowInOrder'
<1>1. Flow' = Flow
  BY DEF Flow
<1>2. ASSUME NEW x \in Flow PROVE x < slot' \/ x \in Pending'
  <2>1. x \in Nat /\ (x < slot \/ x \in Pending)
    BY DEF FlowInOrder
  <2>2. x \in Pending => x = slot
    BY DEF Pending
  <2> QED BY <2>1, <2>2
<1> QED BY <1>1, <1>2 DEF FlowInOrder, Increasing

LEMMA FlowIsNat == SendTypeOK => Flow \subseteq Nat
<1> SUFFICES ASSUME SendTypeOK PROVE Flow \subseteq Nat
  OBVIOUS
<1>1. enc \in Nat /\ encoded \in Seq(Nat) /\ queue \in Seq(Nat)
  BY DEF SendTypeOK
<1>2. Range(encoded) \subseteq Nat /\ Range(queue) \subseteq Nat
  BY <1>1 DEF Range
<1> QED BY <1>1, <1>2 DEF Flow

(* Frames keep the order of their slots, from appsrc to tx-encoded.         *)
LEMMA FlowInOrderStep ==
  SendTypeOK /\ StartedOnce /\ FlowInOrder /\ [SendNext]_sendVars => FlowInOrder'
<1> SUFFICES ASSUME SendTypeOK, StartedOnce, FlowInOrder, [SendNext]_sendVars
             PROVE  FlowInOrder'
  OBVIOUS
<1>0. /\ slot \in Nat /\ enc \in Nat /\ resume \in Nat /\ now \in Nat
      /\ queue \in Seq(Nat) /\ encoded \in Seq(Nat)
      /\ Flow \subseteq Nat
  BY FlowIsNat DEF SendTypeOK
<1>1. CASE UNCHANGED FlowVars
  BY <1>0, <1>1, FlowFrame DEF FlowVars, Pending
<1>2. CASE CtlStep
  <2>1. CASE StartGrid
    <3>1. grid = "none"
      BY <2>1 DEF StartGrid, StartedOnce
    <3>2. queue = <<>> /\ enc = 0 /\ encoded = <<>>
      BY <3>1 DEF StartedOnce
    <3>3. queue' = <<>> /\ enc' = 0 /\ encoded' = <<>>
      BY <1>2, <3>2 DEF CtlStep, pipeVars
    <3>4. Range(<<>>) = {} /\ DOMAIN <<>> = {}
      BY DEF Range
    <3>5. Flow' = {}
      BY <3>3, <3>4 DEF Flow
    <3> QED BY <3>3, <3>4, <3>5 DEF FlowInOrder, Increasing
  <2>2. CASE ~StartGrid
    BY <1>1, <1>2, <2>2
    DEF CtlStep, ReceiverReady, StreamAck, SetStarted, FlowVars, pipeVars
  <2> QED BY <2>1, <2>2
<1>3. CASE GridStep
  <2>0. UNCHANGED <<enc, encoded>>
    BY <1>3 DEF GridStep
  <2>1. CASE LoopTest \/ Wake \/ ReadTail
    <3>1. UNCHANGED <<slot, queue>> /\ grid # "accepted"
      BY <2>1 DEF LoopTest, Wake, ReadTail
    <3> QED BY <1>0, <2>0, <3>1, FlowFrame DEF Pending
  <2>2. CASE EmitMissed \/ EmitTail
    <3>1. UNCHANGED queue /\ grid # "accepted" /\ (slot' = slot \/ slot' = slot + 1)
      BY <2>2 DEF EmitMissed, EmitTail
    <3> QED BY <1>0, <2>0, <3>1, FlowFrame DEF Pending
  <2>3. CASE EmitRow
    <3>1. UNCHANGED queue /\ slot' = slot + 1
      BY <2>3 DEF EmitRow
    <3> QED BY <1>0, <2>0, <3>1, FlowFrame
  <2>4. CASE Push /\ grid' = "refused"
    <3>1. UNCHANGED <<slot, queue>> /\ grid # "accepted"
      BY <2>4 DEF Push
    <3> QED BY <1>0, <2>0, <3>1, FlowFrame DEF Pending
  <2>5. CASE Push /\ grid' = "accepted"
    <3>1. /\ grid = "push" /\ queue' = Append(queue, slot) /\ slot' = slot
      BY <2>5 DEF Push
    <3>2. slot >= 1 /\ Pending = {} /\ Pending' = {slot}
      BY <2>5, <3>1 DEF StartedOnce, Pending
    <3>3. \A x \in Flow : x \in Nat /\ x < slot
      BY <1>0, <3>2 DEF FlowInOrder
    <3>4. /\ Increasing(queue')
      <4>1. \A j \in DOMAIN queue : queue[j] < slot
        BY <3>3, RangeMember DEF Flow
      <4> QED BY <1>0, <3>1, <4>1, IncreasingAppend DEF FlowInOrder
    <3>5. /\ Range(queue') = Range(queue) \cup {slot}
          /\ \A j \in DOMAIN queue : queue'[j] = queue[j]
          /\ queue'[Len(queue) + 1] = slot
          /\ DOMAIN queue' = 1 .. (Len(queue) + 1) /\ DOMAIN queue = 1 .. Len(queue)
          /\ Len(queue) \in Nat
      <4> DEFINE q == Append(queue, slot)
      <4>1. /\ Range(q) = Range(queue) \cup {slot}
            /\ \A j \in 1 .. Len(queue) : q[j] = queue[j]
            /\ q[Len(queue) + 1] = slot
            /\ DOMAIN q = 1 .. (Len(queue) + 1) /\ DOMAIN queue = 1 .. Len(queue)
            /\ Len(queue) \in Nat
        BY <1>0, RangeAppend
      <4> HIDE DEF q
      <4>2. queue' = q
        BY <3>1 DEF q
      <4> QED BY <4>1, <4>2
    <3>6. \A j \in DOMAIN queue' :
            queue'[j] = slot \/ (j \in DOMAIN queue /\ queue'[j] = queue[j])
      BY <3>5
    <3>7. \A j \in DOMAIN queue' : queue'[j] >= 1 /\ enc < queue'[j]
      <4>1. enc < slot
        <5>1. CASE enc = 0 BY <1>0, <3>2, <5>1
        <5>2. CASE enc # 0 BY <3>3, <5>2 DEF Flow
        <5> QED BY <5>1, <5>2
      <4> QED BY <1>0, <3>2, <3>6, <4>1 DEF FlowInOrder
    <3>8. \A i \in DOMAIN encoded, j \in DOMAIN queue' : encoded[i] < queue'[j]
      <4>1. \A i \in DOMAIN encoded : encoded[i] < slot
        BY <3>3, RangeMember DEF Flow
      <4> QED BY <3>6, <4>1 DEF FlowInOrder
    <3>9. \A x \in Flow' : x < slot \/ x = slot
      <4>1. Flow' = Flow \cup {slot}
        BY <2>0, <3>5 DEF Flow
      <4> QED BY <3>3, <4>1
    <3> QED BY <2>0, <3>1, <3>2, <3>4, <3>7, <3>8, <3>9
            DEF FlowInOrder, Increasing
  <2> QED BY <1>3, <2>1, <2>2, <2>3, <2>4, <2>5 DEF GridStep, Push
<1>4. CASE PipeStep
  <2>0. UNCHANGED <<slot, grid>>
    BY <1>4 DEF PipeStep, gridVars
  <2>1. CASE EncTake
    <3>1. /\ enc = 0 /\ queue # <<>> /\ enc' = Head(queue) /\ queue' = Tail(queue)
          /\ encoded' = encoded
      BY <2>1 DEF EncTake
    <3>2. /\ Head(queue) = queue[1] /\ 1 \in DOMAIN queue
          /\ Range(queue) = {Head(queue)} \cup Range(Tail(queue))
          /\ DOMAIN Tail(queue) = 1 .. (Len(queue) - 1)
          /\ DOMAIN queue = 1 .. Len(queue) /\ Len(queue) \in Nat
          /\ \A j \in DOMAIN Tail(queue) : Tail(queue)[j] = queue[j + 1]
      BY <1>0, <3>1, RangeHeadTail
    <3>3. \A j \in DOMAIN Tail(queue) :
             j + 1 \in DOMAIN queue /\ Tail(queue)[j] = queue[j + 1]
      BY <3>2
    <3>4. /\ Increasing(Tail(queue))
          /\ \A j \in DOMAIN Tail(queue) : Head(queue) < Tail(queue)[j]
      BY <1>0, <3>1, IncreasingTail DEF FlowInOrder
    <3>5. enc' >= 1 /\ enc' # 0 /\ \A i \in DOMAIN encoded : encoded[i] < enc'
      <4>1. queue[1] >= 1 /\ \A i \in DOMAIN encoded : encoded[i] < queue[1]
        BY <3>2 DEF FlowInOrder
      <4>2. enc' = queue[1] /\ queue[1] \in Nat
        BY <1>0, <3>1, <3>2
      <4> QED BY <4>1, <4>2
    <3>6. Flow' = Flow
      BY <3>1, <3>2, <3>5 DEF Flow
    <3>7. /\ \A j \in DOMAIN queue' : queue'[j] >= 1 /\ enc' < queue'[j]
          /\ \A i \in DOMAIN encoded, j \in DOMAIN queue' : encoded[i] < queue'[j]
      BY <3>1, <3>3, <3>4 DEF FlowInOrder
    <3>8. \A x \in Flow' : x < slot' \/ x \in Pending'
      BY <2>0, <3>6 DEF FlowInOrder, Pending
    <3> QED BY <3>1, <3>4, <3>5, <3>7, <3>8 DEF FlowInOrder, Increasing
  <2>2. CASE OnEncoded
    <3>1. enc # 0 /\ enc' = 0 /\ encoded' = Append(encoded, enc) /\ queue' = queue
      BY <2>2 DEF OnEncoded
    <3>2. /\ Range(encoded') = Range(encoded) \cup {enc}
          /\ \A i \in DOMAIN encoded : encoded'[i] = encoded[i]
          /\ encoded'[Len(encoded) + 1] = enc
          /\ DOMAIN encoded' = 1 .. (Len(encoded) + 1)
          /\ DOMAIN encoded = 1 .. Len(encoded) /\ Len(encoded) \in Nat
      <4> DEFINE e == Append(encoded, enc)
      <4>1. /\ Range(e) = Range(encoded) \cup {enc}
            /\ \A i \in 1 .. Len(encoded) : e[i] = encoded[i]
            /\ e[Len(encoded) + 1] = enc
            /\ DOMAIN e = 1 .. (Len(encoded) + 1)
            /\ DOMAIN encoded = 1 .. Len(encoded) /\ Len(encoded) \in Nat
        BY <1>0, RangeAppend
      <4> HIDE DEF e
      <4>2. encoded' = e
        BY <3>1 DEF e
      <4> QED BY <4>1, <4>2
    <3>3. \A i \in DOMAIN encoded' :
            encoded'[i] = enc \/ (i \in DOMAIN encoded /\ encoded'[i] = encoded[i])
      BY <3>2
    <3>4. Increasing(encoded')
      BY <1>0, <3>1, IncreasingAppend DEF FlowInOrder
    <3>5. /\ \A i \in DOMAIN encoded' : encoded'[i] >= 1
          /\ \A i \in DOMAIN encoded', j \in DOMAIN queue : encoded'[i] < queue[j]
      BY <1>0, <3>1, <3>3 DEF FlowInOrder
    <3>6. \A j \in DOMAIN queue : queue[j] >= 1 /\ 0 < queue[j]
      <4> TAKE j \in DOMAIN queue
      <4>1. queue[j] \in Nat /\ queue[j] >= 1
        BY <1>0 DEF FlowInOrder
      <4> QED BY <4>1
    <3>7. Flow' = Flow
      BY <3>1, <3>2 DEF Flow
    <3>8. \A x \in Flow' : x < slot' \/ x \in Pending'
      BY <2>0, <3>7 DEF FlowInOrder, Pending
    <3> QED BY <3>1, <3>4, <3>5, <3>6, <3>8 DEF FlowInOrder, Increasing
  <2>3. CASE OnRtpOut \/ EosOut
    BY <1>1, <2>0, <2>3 DEF OnRtpOut, EosOut, FlowVars
  <2>4. CASE FlushOut
    <3>1. enc' = 0 /\ queue' = queue /\ encoded' = encoded
      BY <2>4 DEF FlushOut
    <3>2. Flow' \subseteq Flow
      BY <3>1 DEF Flow
    <3>3. \A j \in DOMAIN queue : queue[j] >= 1 /\ 0 < queue[j]
      <4> TAKE j \in DOMAIN queue
      <4>1. queue[j] \in Nat /\ queue[j] >= 1
        BY <1>0 DEF FlowInOrder
      <4> QED BY <4>1
    <3>4. \A x \in Flow' : x < slot' \/ x \in Pending'
      BY <2>0, <3>2 DEF FlowInOrder, Pending
    <3> QED BY <3>1, <3>3, <3>4 DEF FlowInOrder, Increasing
  <2> QED BY <1>4, <2>1, <2>2, <2>3, <2>4 DEF PipeStep
<1>5. CASE Tick
  BY <1>1, <1>5 DEF Tick, FlowVars, gridVars, pipeVars
<1>6. CASE BeginShutdown \/ ShutdownStep \/ UNCHANGED sendVars
  BY <1>1, <1>6, ShutdownFrame DEF FlowVars
<1> QED BY <1>2, <1>3, <1>4, <1>5, <1>6 DEF SendNext

\* Nothing is encoded or on the wire behind an end-of-stream that came through.
LEMMA EosIsLastStep ==
  SendTypeOK /\ EosIsLast /\ [SendNext]_sendVars => EosIsLast'
<1> SUFFICES ASSUME SendTypeOK, EosIsLast, [SendNext]_sendVars PROVE EosIsLast'
  OBVIOUS
<1> USE DEF EosIsLast, Settled, gridVars, pipeVars, mainVars
<1>1. CASE CtlStep
  BY <1>1 DEF CtlStep
<1>2. CASE GridStep
  <2>1. eos => queue' = queue
    BY <1>2 DEF GridStep, LoopTest, Wake, EmitMissed, Push, EmitRow, ReadTail,
                EmitTail
  <2> QED BY <1>2, <2>1 DEF GridStep
<1>3. CASE Tick
  BY <1>3 DEF Tick
<1>4. CASE PipeStep
  <2>1. CASE eosSeen
    BY <1>4, <2>1 DEF PipeStep, EncTake, OnEncoded, OnRtpOut, EosOut, FlushOut
  <2>2. CASE ~eosSeen
    BY <1>4, <2>2 DEF PipeStep, EncTake, OnEncoded, OnRtpOut, EosOut, FlushOut
  <2> QED BY <2>1, <2>2
<1>5. CASE BeginShutdown
  BY <1>5 DEF BeginShutdown, StopControl, Goto
<1>6. CASE ShutdownStep
  BY <1>6 DEF ShutdownStep, RequestStop, WaitStopped, ReadPushed, WaitEncoder,
     WaitEos, WaitSender, SetNull, NullDone, Join, CloseTraces, Goto, WaitFor
<1>7. CASE UNCHANGED sendVars
  BY <1>7 DEF sendVars
<1> QED BY <1>1, <1>2, <1>3, <1>4, <1>5, <1>6, <1>7 DEF SendNext

\* last_pushed_ts_ is the last slot that tx-frames reports as taken.
LEMMA PushedIsLastStep ==
  SendTypeOK /\ StartedOnce /\ OneRowPerSlot /\ PushedIsLast /\ [SendNext]_sendVars
    => PushedIsLast'
<1> SUFFICES ASSUME SendTypeOK, StartedOnce, OneRowPerSlot, PushedIsLast,
                    [SendNext]_sendVars
             PROVE  PushedIsLast'
  OBVIOUS
<1>1. CASE UNCHANGED <<rows, pushed>>
  BY <1>1 DEF PushedIsLast, Accepted
<1>2. CASE GridStep
  <2>1. CASE LoopTest \/ Wake \/ Push \/ ReadTail
    BY <1>1, <2>1 DEF LoopTest, Wake, Push, ReadTail
  <2>2. CASE EmitMissed \/ EmitTail
    <3>1. /\ pushed' = pushed
          /\ rows' = rows \/ rows' = Append(rows, [slot |-> slot, ok |-> FALSE])
      BY <2>2 DEF EmitMissed, EmitTail, Row
    <3>2. CASE rows' = Append(rows, [slot |-> slot, ok |-> FALSE])
      <4>1. Accepted' = Accepted
        BY <3>2, AcceptedAppend
      <4> QED BY <3>1, <4>1 DEF PushedIsLast
    <3> QED BY <1>1, <3>1, <3>2
  <2>3. CASE EmitRow
    <3>1. /\ rows' = Append(rows, [slot |-> slot, ok |-> (grid = "accepted")])
          /\ pushed' = IF grid = "accepted" THEN slot ELSE pushed
          /\ grid \in {"accepted", "refused"}
      BY <2>3 DEF EmitRow, Row
    <3>2. (grid = "accepted") \in BOOLEAN
      OBVIOUS
    <3>3. Accepted' = Accepted \cup (IF grid = "accepted" THEN {slot} ELSE {})
      BY <3>1, <3>2, AcceptedAppend
    <3>4. \A x \in Accepted : x \in Nat /\ x < slot
      BY AcceptedIsPast
    <3>5. slot \in Nat /\ slot >= 1
      BY <3>1 DEF SendTypeOK, StartedOnce
    <3>6. CASE grid = "accepted"
      <4>1. pushed' = slot /\ Accepted' = Accepted \cup {slot}
        BY <3>1, <3>3, <3>6
      <4>2. \A x \in Accepted' : 1 <= x /\ x <= slot
        BY <3>4, <3>5, <4>1 DEF PushedIsLast
      <4> QED BY <4>1, <4>2 DEF PushedIsLast
    <3>7. CASE grid # "accepted"
      BY <3>1, <3>3, <3>7 DEF PushedIsLast
    <3> QED BY <3>6, <3>7
  <2> QED BY <1>2, <2>1, <2>2, <2>3 DEF GridStep
<1> QED
  BY <1>1, <1>2, ShutdownFrame
  DEF SendNext, CtlStep, Tick, PipeStep, gridVars

(* tx-rtp is the beginning of tx-encoded, and the wire goes on from there.  *)
LEMMA SentIsPrefixStep ==
  SendTypeOK /\ EosIsLast /\ SentIsPrefix /\ [SendNext]_sendVars
    => SentIsPrefix'
<1> SUFFICES ASSUME SendTypeOK, EosIsLast, SentIsPrefix,
                    [SendNext]_sendVars
             PROVE  SentIsPrefix'
  OBVIOUS
<1>0. /\ encoded \in Seq(Nat) /\ wire \in Seq(Nat) /\ sent \in Seq(Nat)
      /\ enc \in Nat
      /\ Len(encoded) \in Nat /\ Len(wire) \in Nat /\ Len(sent) \in Nat
  BY DEF SendTypeOK
<1>1. CASE UNCHANGED <<encoded, wire, sent, enc, flushing, eosSeen>>
  BY <1>1 DEF SentIsPrefix
<1>2. CASE PipeStep
  <2>1. CASE EncTake
    <3>1. ~eosSeen /\ ~flushing /\ UNCHANGED <<encoded, wire, sent>>
      BY <2>1 DEF EncTake, EosIsLast, Settled
    <3> QED BY <3>1 DEF SentIsPrefix
  <2>2. CASE OnEncoded
    <3>1. /\ enc # 0 /\ encoded' = Append(encoded, enc) /\ wire' = Append(wire, enc)
          /\ sent' = sent
      BY <2>2 DEF OnEncoded
    <3>2. Len(sent) + Len(wire) = Len(encoded)
      BY <3>1 DEF SentIsPrefix
    <3>3. /\ Len(encoded') = Len(encoded) + 1 /\ Len(wire') = Len(wire) + 1
          /\ \A i \in 1 .. Len(encoded) : encoded'[i] = encoded[i]
          /\ \A i \in 1 .. Len(wire) : wire'[i] = wire[i]
          /\ encoded'[Len(encoded) + 1] = enc /\ wire'[Len(wire) + 1] = enc
      BY <1>0, <3>1
    <3>4. \A i \in 1 .. Len(sent') : sent'[i] = encoded'[i]
      BY <1>0, <3>1, <3>2, <3>3 DEF SentIsPrefix
    <3>5. ASSUME NEW i \in 1 .. Len(wire')
          PROVE  wire'[i] = encoded'[Len(sent') + i]
      <4>1. CASE i = Len(wire) + 1
        <5>1. Len(sent') + i = Len(encoded) + 1
          BY <1>0, <3>1, <3>2, <4>1
        <5> QED BY <3>3, <4>1, <5>1
      <4>2. CASE i # Len(wire) + 1
        <5>1. i \in 1 .. Len(wire) /\ Len(sent) + i \in 1 .. Len(encoded)
          BY <1>0, <3>2, <3>3, <4>2
        <5>2. wire[i] = encoded[Len(sent) + i]
          BY <5>1 DEF SentIsPrefix
        <5> QED BY <3>1, <3>3, <5>1, <5>2
      <4> QED BY <4>1, <4>2
    <3>6. Len(sent') + Len(wire') = Len(encoded')
      <4>1. Len(sent') = Len(sent)
        BY <3>1
      <4>2. Len(encoded') = Len(encoded) + 1 /\ Len(wire') = Len(wire) + 1
        BY <3>3
      <4>3. Len(encoded) \in Nat /\ Len(wire) \in Nat /\ Len(sent) \in Nat
        BY <1>0
      <4> QED BY <3>2, <4>1, <4>2, <4>3
    <3>7. Len(sent') + Len(wire') <= Len(encoded')
      <4>1. Len(encoded') \in Nat
        BY <1>0, <3>3
      <4> QED BY <3>6, <4>1
    <3> QED BY <3>4, <3>5, <3>6, <3>7 DEF SentIsPrefix
  <2>3. CASE OnRtpOut
    <3>1. /\ wire # <<>> /\ sent' = Append(sent, Head(wire)) /\ wire' = Tail(wire)
          /\ UNCHANGED <<encoded, enc, flushing, eosSeen>>
      BY <2>3 DEF OnRtpOut
    <3>2. /\ Len(wire) \in Nat \ {0} /\ Len(wire') = Len(wire) - 1
          /\ Len(sent') = Len(sent) + 1
          /\ Head(wire) = wire[1] /\ sent'[Len(sent) + 1] = Head(wire)
          /\ \A i \in 1 .. Len(sent) : sent'[i] = sent[i]
          /\ \A i \in 1 .. Len(wire') : wire'[i] = wire[i + 1]
      BY <1>0, <3>1
    <3>3. ASSUME NEW i \in 1 .. Len(sent') PROVE sent'[i] = encoded[i]
      <4>1. CASE i = Len(sent) + 1
        <5>1. wire[1] = encoded[Len(sent) + 1]
          BY <1>0, <3>2 DEF SentIsPrefix
        <5> QED BY <3>2, <4>1, <5>1
      <4>2. CASE i # Len(sent) + 1
        <5>1. i \in 1 .. Len(sent)
          BY <1>0, <3>2, <4>2
        <5> QED BY <3>2, <5>1 DEF SentIsPrefix
      <4> QED BY <4>1, <4>2
    <3>4. ASSUME NEW i \in 1 .. Len(wire')
          PROVE  wire'[i] = encoded[Len(sent') + i]
      <4>1. i + 1 \in 1 .. Len(wire) /\ Len(sent) + (i + 1) = Len(sent') + i
        BY <1>0, <3>2
      <4>2. wire[i + 1] = encoded[Len(sent) + (i + 1)]
        BY <4>1 DEF SentIsPrefix
      <4> QED BY <3>2, <4>1, <4>2
    <3>5. Len(sent') + Len(wire') = Len(sent) + Len(wire)
      BY <1>0, <3>2
    <3> QED BY <3>1, <3>3, <3>4, <3>5 DEF SentIsPrefix
  <2>4. CASE EosOut
    <3>1. /\ wire' = <<>> /\ enc' = 0 /\ eosSeen' /\ UNCHANGED <<encoded, sent>>
      BY <2>4 DEF EosOut
    <3>2. Len(wire') = 0 /\ 1 .. 0 = {}
      BY <3>1
    <3> QED BY <1>0, <3>1, <3>2 DEF SentIsPrefix
  <2>5. CASE FlushOut
    <3>1. /\ wire' = <<>> /\ enc' = 0 /\ flushing' /\ UNCHANGED <<encoded, sent>>
      BY <2>5 DEF FlushOut
    <3>2. Len(wire') = 0 /\ 1 .. 0 = {}
      BY <3>1
    <3> QED BY <1>0, <3>1, <3>2 DEF SentIsPrefix
  <2> QED BY <1>2, <2>1, <2>2, <2>3, <2>4, <2>5 DEF PipeStep
<1>3. CASE BeginShutdown \/ ShutdownStep \/ UNCHANGED sendVars
  <2>1. UNCHANGED <<encoded, wire, sent, enc, eosSeen>>
    BY <1>3, ShutdownFrame
  <2>2. flushing => flushing'
    BY <1>3 DEF BeginShutdown, StopControl, ShutdownStep, RequestStop, WaitStopped,
       ReadPushed, WaitEncoder, WaitEos, WaitSender, SetNull, NullDone, Join,
       CloseTraces, sendVars, pipeVars
  <2> QED BY <2>1, <2>2 DEF SentIsPrefix
<1> QED BY <1>1, <1>2, <1>3 DEF SendNext, CtlStep, GridStep, Tick, pipeVars

-----------------------------------------------------------------------------
(* The waits of Shutdown.                                                   *)

\* A grid that is done stays as it is.
LEMMA GridDone ==
  ASSUME grid = "done", main # "running", WaitsInOrder, [SendNext]_sendVars
  PROVE  UNCHANGED <<grid, slot, pushed, rows>>
<1>1. ctl \in {"idle", "awaiting"}
  BY DEF WaitsInOrder
<1>2. CASE CtlStep
  BY <1>1, <1>2 DEF CtlStep, ReceiverReady, StreamAck, StartGrid, SetStarted
<1>3. CASE GridStep
  BY <1>3 DEF GridStep, LoopTest, Wake, EmitMissed, Push, EmitRow, ReadTail, EmitTail
<1> QED BY <1>2, <1>3, ShutdownFrame DEF SendNext, Tick, PipeStep, gridVars

\* While Shutdown goes on, the sender is neither started nor un-started.
LEMMA StartedStays ==
  ASSUME main # "running", WaitsInOrder, [SendNext]_sendVars
  PROVE  started' = started
<1>1. ctl \in {"idle", "awaiting"}
  BY DEF WaitsInOrder
<1>2. CASE CtlStep
  BY <1>1, <1>2 DEF CtlStep, ReceiverReady, StreamAck, StartGrid, SetStarted
<1> QED BY <1>2, ShutdownFrame DEF SendNext, GridStep, Tick, PipeStep, ctlVars

LEMMA WaitsInOrderStep ==
  StartedOnce /\ WaitsInOrder /\ [SendNext]_sendVars => WaitsInOrder'
<1> SUFFICES ASSUME StartedOnce, WaitsInOrder, [SendNext]_sendVars
             PROVE  WaitsInOrder'
  OBVIOUS
<1> USE DEF WaitsInOrder
<1>1. CASE CtlStep
  BY <1>1, GridDone
  DEF CtlStep, ReceiverReady, StreamAck, StartGrid, SetStarted, pipeVars, mainVars
<1>2. CASE GridStep
  <2>1. UNCHANGED <<flushing, main, ctl, started, warned, target, drained>>
    BY <1>2 DEF GridStep, ctlVars, mainVars
  <2>2. grid = "done" => grid' = "done" /\ pushed' = pushed
    BY <1>2 DEF GridStep, LoopTest, Wake, EmitMissed, Push, EmitRow, ReadTail,
                EmitTail
  <2>3. main \in {"encoder", "eos"} /\ "grid" \notin warned => grid = "done"
    OBVIOUS
  <2> QED BY <2>1, <2>2, <2>3
<1>3. CASE Tick \/ PipeStep
  BY <1>3 DEF Tick, PipeStep, EncTake, OnEncoded, OnRtpOut, EosOut, FlushOut,
              ctlVars, gridVars, pipeVars, mainVars
<1>4. CASE BeginShutdown
  BY <1>4 DEF BeginShutdown, StopControl, Goto, ctlVars
<1>5. CASE ShutdownStep
  <2> USE <1>5 DEF ShutdownStep, Goto, WaitFor, AfterStop, ctlVars
  <2>1. CASE RequestStop BY <2>1 DEF RequestStop
  <2>2. CASE WaitStopped
    <3>1. CASE loopDone
      BY <2>2, <3>1 DEF WaitStopped, StartedOnce
    <3>2. CASE ~loopDone
      BY <2>2, <3>2 DEF WaitStopped
    <3> QED BY <3>1, <3>2
  <2>3. CASE ReadPushed BY <2>3 DEF ReadPushed
  <2>4. CASE WaitEncoder BY <2>4 DEF WaitEncoder
  <2>5. CASE WaitEos BY <2>5 DEF WaitEos
  <2>6. CASE WaitSender BY <2>6 DEF WaitSender
  <2>7. CASE SetNull BY <2>7 DEF SetNull
  <2>8. CASE NullDone BY <2>8 DEF NullDone
  <2>9. CASE Join BY <2>9 DEF Join
  <2>10. CASE CloseTraces BY <2>10 DEF CloseTraces
  <2> QED BY <2>1, <2>2, <2>3, <2>4, <2>5, <2>6, <2>7, <2>8, <2>9, <2>10
<1>6. CASE UNCHANGED sendVars
  BY <1>6 DEF sendVars, ctlVars, gridVars, pipeVars, mainVars
<1> QED BY <1>1, <1>2, <1>3, <1>4, <1>5, <1>6 DEF SendNext

(* The pipeline loses no frame that appsrc took.                            *)
LEMMA NoneLostFrame ==
  ASSUME NoneLost, UNCHANGED <<queue, enc, encoded, rows, flushing, slot>>,
         grid = "accepted" <=> grid' = "accepted", Clean' => Clean
  PROVE  NoneLost'
<1>1. Flow' = Flow /\ Accepted' = Accepted /\ Pending' = Pending
  BY DEF Flow, Accepted, Pending
<1> QED BY <1>1 DEF NoneLost

\* Only the end of WaitSender makes a shutdown clean.
LEMMA CleanStep ==
  ASSUME WaitsInOrder, [SendNext]_sendVars, Clean', ~Clean
  PROVE  main = "sender" /\ WaitSender /\ lastSent = lastEncoded /\ ~flushing
<1>1. main \in {"flush", "null", "join", "close", "closed"}
      \/ (ShutdownStep /\ WaitStopped) \/ (ShutdownStep /\ WaitSender)
  BY DEF SendNext, CtlStep, GridStep, Tick, PipeStep, BeginShutdown, StopControl,
     ShutdownStep, RequestStop, WaitStopped, ReadPushed, WaitEncoder, WaitEos,
     WaitSender, SetNull, NullDone, Join, CloseTraces, Goto, WaitFor, AfterStop,
     Clean, mainVars, sendVars
<1>2. ASSUME main \in {"flush", "null", "join", "close", "closed"} PROVE FALSE
  <2>1. started' = started
    BY <1>2, StartedStays
  <2>2. warned' = warned /\ drained' = drained
    BY <1>2 DEF SendNext, CtlStep, GridStep, Tick, PipeStep, BeginShutdown,
       StopControl, ShutdownStep, RequestStop, WaitStopped, ReadPushed, WaitEncoder,
       WaitEos, WaitSender, SetNull, NullDone, Join, CloseTraces, Goto, mainVars,
       sendVars
  <2> QED BY <1>2, <2>1, <2>2 DEF Clean
<1>3. ASSUME ShutdownStep, WaitStopped PROVE FALSE
  <2>1. main = "stopping" /\ started' = started /\ main' = AfterStop
    BY <1>3 DEF ShutdownStep, WaitStopped, WaitFor, ctlVars
  <2> QED BY <2>1 DEF AfterStop, Clean
<1>4. ASSUME WaitSender
      PROVE  main = "sender" /\ lastSent = lastEncoded /\ ~flushing
  <2>1. main = "sender" /\ (lastSent = lastEncoded \/ "sender" \in warned')
    BY <1>4 DEF WaitSender, WaitFor
  <2> QED BY <2>1 DEF WaitsInOrder, Clean
<1> QED BY <1>1, <1>2, <1>3, <1>4

\* The last of an increasing sequence is its greatest element.
LEMMA LastIsMost ==
  ASSUME NEW s \in Seq(Nat), s # <<>>, Increasing(s)
  PROVE  /\ Last(s) = s[Len(s)] /\ Len(s) \in DOMAIN s
         /\ \A i \in DOMAIN s : s[i] <= Last(s)
<1>1. DOMAIN s = 1 .. Len(s) /\ Len(s) \in Nat \ {0} /\ Last(s) = s[Len(s)]
  BY DEF Last
<1>2. ASSUME NEW i \in DOMAIN s PROVE s[i] <= s[Len(s)]
  <2>1. CASE i = Len(s)
    BY <1>1, <2>1
  <2>2. CASE i # Len(s)
    <3>1. Len(s) \in DOMAIN s /\ i < Len(s)
      BY <1>1, <2>2
    <3>2. s[i] < s[Len(s)] /\ s[i] \in Nat /\ s[Len(s)] \in Nat
      BY <3>1 DEF Increasing
    <3> QED BY <3>2
  <2> QED BY <2>1, <2>2
<1> QED BY <1>1, <1>2

(* When the last frame pushed is the last encoded, the encoder has given    *)
(* back all that appsrc took.                                               *)
LEMMA NothingBehindLast ==
  ASSUME SendTypeOK, FlowInOrder, PushedIsLast, Flow = Accepted,
         lastEncoded = pushed
  PROVE  Settled
<1>0. /\ encoded \in Seq(Nat) /\ queue \in Seq(Nat) /\ enc \in Nat /\ pushed \in Nat
  BY DEF SendTypeOK
<1>1. \A x \in Flow : x \in Nat /\ 1 <= x /\ x <= pushed
  BY FlowIsNat DEF PushedIsLast
<1>2. enc = 0
  <2> SUFFICES ASSUME enc # 0 PROVE FALSE
    OBVIOUS
  <2>1. enc \in Flow
    BY DEF Flow
  <2>2. encoded # <<>> /\ Last(encoded) = pushed
    BY <1>0, <1>1, <2>1 DEF lastEncoded, LastOf
  <2>3. Len(encoded) \in DOMAIN encoded /\ encoded[Len(encoded)] = pushed
    BY <1>0, <2>2, LastIsMost DEF FlowInOrder
  <2>4. pushed < enc
    BY <2>3 DEF FlowInOrder
  <2> QED BY <1>0, <1>1, <2>1, <2>4
<1>3. queue = <<>>
  <2> SUFFICES ASSUME queue # <<>> PROVE FALSE
    OBVIOUS
  <2>1. 1 \in DOMAIN queue /\ queue[1] \in Nat
    BY <1>0
  <2>2. queue[1] \in Flow
    BY <2>1, RangeMember DEF Flow
  <2>3. encoded # <<>> /\ Last(encoded) = pushed
    BY <1>0, <1>1, <2>1, <2>2 DEF lastEncoded, LastOf
  <2>4. Len(encoded) \in DOMAIN encoded /\ encoded[Len(encoded)] = pushed
    BY <1>0, <2>3, LastIsMost DEF FlowInOrder
  <2>5. pushed < queue[1]
    BY <2>1, <2>4 DEF FlowInOrder
  <2> QED BY <1>0, <1>1, <2>1, <2>2, <2>5
<1> QED BY <1>2, <1>3 DEF Settled

(* When the last frame encoded is the last sent, with nothing in the        *)
(* encoder, all that was encoded has been sent.                             *)
LEMMA NothingBehindSent ==
  ASSUME SendTypeOK, FlowInOrder, SentIsPrefix, lastSent = lastEncoded
  PROVE  sent = encoded /\ wire = <<>>
<1>0. /\ encoded \in Seq(Nat) /\ wire \in Seq(Nat) /\ sent \in Seq(Nat)
      /\ Len(encoded) \in Nat /\ Len(wire) \in Nat /\ Len(sent) \in Nat
      /\ DOMAIN encoded = 1 .. Len(encoded) /\ DOMAIN sent = 1 .. Len(sent)
  BY DEF SendTypeOK
<1>1. /\ Len(sent) <= Len(encoded)
      /\ Len(sent) = Len(encoded) => Len(wire) = 0
      /\ \A i \in 1 .. Len(sent) : sent[i] = encoded[i]
  <2>1. Len(encoded) \in Nat /\ Len(wire) \in Nat /\ Len(sent) \in Nat
    BY <1>0
  <2>2. /\ Len(sent) + Len(wire) <= Len(encoded)
        /\ \A i \in 1 .. Len(sent) : sent[i] = encoded[i]
    BY DEF SentIsPrefix
  <2> QED BY <2>1, <2>2
<1>2. Len(sent) = Len(encoded)
  <2>1. CASE encoded = <<>>
    BY <1>0, <1>1, <2>1
  <2>2. CASE encoded # <<>>
    <3>1. /\ Last(encoded) = encoded[Len(encoded)] /\ Len(encoded) \in DOMAIN encoded
          /\ encoded[Len(encoded)] \in Nat /\ encoded[Len(encoded)] >= 1
      BY <1>0, <2>2, LastIsMost DEF FlowInOrder
    <3>2. sent # <<>>
      BY <2>2, <3>1 DEF lastSent, lastEncoded, LastOf
    <3>3. Last(sent) = sent[Len(sent)] /\ Len(sent) \in 1 .. Len(sent)
      BY <1>0, <3>2 DEF Last
    <3>4. encoded[Len(sent)] = encoded[Len(encoded)]
      BY <1>1, <2>2, <3>1, <3>2, <3>3 DEF lastSent, lastEncoded, LastOf
    <3>5. ASSUME Len(sent) < Len(encoded) PROVE FALSE
      <4>1. Len(sent) \in DOMAIN encoded
        <5>1. Len(encoded) \in Nat /\ Len(sent) \in Nat
          BY <1>0
        <5>2. Len(sent) \in 1 .. Len(encoded)
          BY <1>1, <3>3, <5>1
        <5> QED BY <1>0, <5>2
      <4>2. encoded[Len(sent)] < encoded[Len(encoded)]
        BY <3>1, <3>5, <4>1 DEF FlowInOrder, Increasing
      <4> QED BY <3>1, <3>4, <4>2
    <3>6. Len(encoded) \in Nat /\ Len(sent) \in Nat
      BY <1>0
    <3> QED BY <1>1, <3>5, <3>6
  <2> QED BY <2>1, <2>2
<1>3. wire = <<>>
  BY <1>0, <1>1, <1>2
<1>4. sent = encoded
  BY <1>0, <1>1, <1>2
<1> QED BY <1>3, <1>4

LEMMA EncoderEmptiedStep ==
  ASSUME SendTypeOK, FlowInOrder, PushedIsLast, EosIsLast, WaitsInOrder,
         EncoderEmptied, NoneLost, [SendNext]_sendVars
  PROVE  EncoderEmptied'
<1> SUFFICES ASSUME PastEncoder' PROVE Settled' /\ (drained' \/ grid' = "done")
  BY DEF EncoderEmptied
<1>1. CASE PastEncoder
  <2>1. Settled /\ (drained \/ grid = "done")
    BY <1>1 DEF EncoderEmptied
  <2>2. main # "running"
    BY <1>1 DEF PastEncoder
  <2>3. drained => eosSeen /\ eos
    BY DEF EosIsLast
  <2>4. CASE GridStep
    <3>1. grid # "done" => queue' = queue
      BY <2>1, <2>3, <2>4
      DEF GridStep, LoopTest, Wake, EmitMissed, Push, EmitRow, ReadTail, EmitTail
    <3>2. grid # "done"
      BY <2>4
      DEF GridStep, LoopTest, Wake, EmitMissed, Push, EmitRow, ReadTail, EmitTail
    <3> QED BY <2>1, <2>4, <3>1, <3>2 DEF GridStep, Settled, mainVars
  <2>5. CASE PipeStep
    BY <2>1, <2>5
    DEF PipeStep, EncTake, OnEncoded, OnRtpOut, EosOut, FlushOut, Settled,
        gridVars, mainVars
  <2>6. CASE CtlStep
    <3>1. grid = "done" => grid' = "done"
      BY <2>2, GridDone
    <3> QED BY <2>1, <2>6, <3>1 DEF CtlStep, Settled, pipeVars, mainVars
  <2>7. CASE Tick
    BY <2>1, <2>7 DEF Tick, Settled, gridVars, pipeVars, mainVars
  <2>8. CASE BeginShutdown \/ ShutdownStep \/ UNCHANGED sendVars
    <3>1. UNCHANGED <<grid, queue, enc>>
      BY <2>8, ShutdownFrame
    <3>2. main # "eos"
      BY <1>1 DEF PastEncoder
    <3>3. drained' = drained
      BY <2>8, <3>2 DEF BeginShutdown, StopControl, ShutdownStep, RequestStop,
         WaitStopped, ReadPushed, WaitEncoder, WaitEos, WaitSender, SetNull, NullDone,
         Join, CloseTraces, Goto, WaitFor, sendVars, mainVars
    <3> QED BY <2>1, <3>1, <3>3 DEF Settled
  <2> QED BY <2>4, <2>5, <2>6, <2>7, <2>8 DEF SendNext
<1>2. CASE ~PastEncoder
  <2>1. main # "running"
    BY DEF SendNext, CtlStep, GridStep, Tick, PipeStep, BeginShutdown, StopControl,
       ShutdownStep, RequestStop, WaitStopped, ReadPushed, WaitEncoder, WaitEos,
       WaitSender, SetNull, NullDone, Join, CloseTraces, Goto, WaitFor,
       PastEncoder, mainVars, sendVars
  <2>2. started' = started
    BY <2>1, StartedStays
  <2>3. ShutdownStep /\ (WaitEncoder \/ WaitEos \/ WaitSender \/ WaitStopped)
    BY <1>2, <2>2 DEF SendNext, CtlStep, GridStep, Tick, PipeStep, BeginShutdown,
       StopControl, ShutdownStep, RequestStop, ReadPushed, SetNull, NullDone, Join,
       CloseTraces, Goto, PastEncoder, mainVars, sendVars
  <2>4. UNCHANGED <<grid, queue, enc>> /\ Settled' = Settled
    BY <2>3, ShutdownFrame DEF Settled
  <2>5. CASE WaitEncoder
    <3>1. /\ main = "encoder" /\ lastEncoded = target /\ warned' = warned
          /\ drained' = drained
      BY <2>5 DEF WaitEncoder, WaitFor, Goto, PastEncoder
    <3>2. started /\ ~drained /\ ~flushing
      BY <3>1 DEF WaitsInOrder
    <3>3. "grid" \notin warned
      BY <3>1, <3>2 DEF PastEncoder
    <3>4. grid = "done" /\ target = pushed
      BY <3>1, <3>2, <3>3 DEF WaitsInOrder
    <3>5. Flow = Accepted
      BY <3>2, <3>4 DEF NoneLost, Pending
    <3> QED BY <2>4, <3>1, <3>4, <3>5, NothingBehindLast
  <2>6. CASE WaitEos
    <3>1. main = "eos" /\ drained' = eosSeen /\ warned' = warned
      BY <2>6 DEF WaitEos
    <3>2. "encoder" \in warned
      BY <3>1 DEF WaitsInOrder
    <3> QED BY <2>4, <3>1, <3>2 DEF PastEncoder, EosIsLast
  <2>7. CASE WaitSender
    BY <1>2, <2>2, <2>7 DEF WaitSender, WaitFor, PastEncoder
  <2>8. CASE WaitStopped
    BY <2>2, <2>8 DEF WaitStopped, WaitFor, AfterStop, PastEncoder
  <2> QED BY <2>3, <2>5, <2>6, <2>7, <2>8
<1> QED BY <1>1, <1>2

LEMMA AllSentStep ==
  ASSUME SendTypeOK, FlowInOrder, SentIsPrefix, WaitsInOrder, EncoderEmptied,
         AllSent, [SendNext]_sendVars
  PROVE  AllSent'
<1> SUFFICES ASSUME Clean' PROVE sent' = encoded' /\ wire' = <<>>
  BY DEF AllSent
<1>1. CASE Clean
  <2>1. sent = encoded /\ wire = <<>> /\ enc = 0 /\ queue = <<>>
    BY <1>1 DEF AllSent, EncoderEmptied, Clean, PastEncoder, Settled
  <2>2. UNCHANGED <<sent, encoded>> /\ wire' = <<>>
    BY <2>1, ShutdownFrame DEF SendNext, CtlStep, GridStep, Tick, PipeStep, EncTake,
       OnEncoded, OnRtpOut, EosOut, FlushOut, pipeVars
  <2> QED BY <2>1, <2>2
<1>2. CASE ~Clean
  <2>1. main = "sender" /\ WaitSender /\ lastSent = lastEncoded
    BY <1>2, CleanStep
  <2>2. UNCHANGED <<sent, encoded, wire>>
    BY <2>1, ShutdownFrame DEF SendNext, CtlStep, GridStep, Tick, PipeStep,
       BeginShutdown, StopControl, WaitSender, WaitFor, mainVars, pipeVars
  <2> QED BY <2>1, <2>2, NothingBehindSent
<1> QED BY <1>1, <1>2

LEMMA NoneLostStep ==
  ASSUME SendTypeOK, StartedOnce, FlowInOrder, WaitsInOrder, EncoderEmptied, NoneLost,
         [SendNext]_sendVars
  PROVE  NoneLost'
<1>0. /\ queue \in Seq(Nat) /\ encoded \in Seq(Nat) /\ enc \in Nat /\ slot \in Nat
  BY DEF SendTypeOK
<1>1. Clean' /\ ~Clean => ~flushing
  BY CleanStep
<1>2. Clean => Settled
  BY DEF EncoderEmptied, Clean, PastEncoder
<1>3. CASE GridStep
  <2>0. UNCHANGED <<started, enc, encoded, flushing, Clean>>
    BY <1>3 DEF GridStep, ctlVars, mainVars, Clean
  <2>1. CASE UNCHANGED <<queue, rows, slot>> /\ (grid = "accepted" <=> grid' = "accepted")
    BY <2>0, <2>1, NoneLostFrame
  <2>2. CASE EmitMissed \/ EmitTail
    <3>1. /\ queue' = queue /\ grid # "accepted" /\ grid' # "accepted"
          /\ rows' = rows \/ rows' = Append(rows, [slot |-> slot, ok |-> FALSE])
      BY <2>2 DEF EmitMissed, EmitTail, Row
    <3>2. Accepted' = Accepted
      <4>1. CASE rows' = rows
        BY <4>1 DEF Accepted
      <4>2. CASE rows' = Append(rows, [slot |-> slot, ok |-> FALSE])
        BY <4>2, AcceptedAppend
      <4> QED BY <3>1, <4>1, <4>2
    <3>3. Flow' = Flow /\ Pending' = Pending
      BY <2>0, <3>1 DEF Flow, Pending
    <3> QED BY <2>0, <3>2, <3>3 DEF NoneLost
  <2>3. CASE Push /\ grid' = "accepted"
    <3>1. grid = "push" /\ queue' = Append(queue, slot) /\ slot' = slot /\ rows' = rows
      BY <2>3 DEF Push
    <3>2. Range(queue') = Range(queue) \cup {slot}
      BY <1>0, <3>1, RangeAppend
    <3>3. /\ Flow' = Flow \cup {slot} /\ Pending = {} /\ Pending' = {slot}
          /\ Accepted' = Accepted
      BY <2>0, <2>3, <3>1, <3>2 DEF Flow, Pending, Accepted
    <3> QED BY <2>0, <3>3 DEF NoneLost
  <2>4. CASE EmitRow
    <3>1. /\ rows' = Append(rows, [slot |-> slot, ok |-> (grid = "accepted")])
          /\ grid' = "test" /\ queue' = queue
      BY <2>4 DEF EmitRow, Row
    <3>2. (grid = "accepted") \in BOOLEAN
      OBVIOUS
    <3>3. Accepted' = Accepted \cup (IF grid = "accepted" THEN {slot} ELSE {})
      BY <3>1, <3>2, AcceptedAppend
    <3>4. Flow' = Flow /\ Pending' = {}
      BY <2>0, <3>1 DEF Flow, Pending
    <3> QED BY <2>0, <3>3, <3>4 DEF NoneLost, Pending
  <2> QED BY <1>3, <2>1, <2>2, <2>3, <2>4
          DEF GridStep, LoopTest, Wake, Push, ReadTail
<1>4. CASE PipeStep
  <2>0. Pending' = Pending /\ Accepted' = Accepted /\ Clean' = Clean
        /\ flushing' = flushing
    BY <1>4 DEF PipeStep, EncTake, OnEncoded, OnRtpOut, EosOut, FlushOut, ctlVars,
       gridVars, mainVars, Pending, Accepted, Clean
  <2> SUFFICES ASSUME ~flushing \/ Clean PROVE Flow' = Flow
    BY <2>0 DEF NoneLost
  <2>1. CASE EncTake
    <3>1. /\ enc = 0 /\ queue # <<>> /\ enc' = Head(queue) /\ queue' = Tail(queue)
          /\ encoded' = encoded /\ ~flushing
      BY <2>1 DEF EncTake
    <3>2. Range(queue) = {Head(queue)} \cup Range(Tail(queue)) /\ ~Clean
      BY <1>0, <1>2, <3>1, RangeHeadTail DEF Settled
    <3>3. enc' # 0
      <4>1. 1 \in DOMAIN queue /\ queue[1] \in Nat /\ Head(queue) = queue[1]
        BY <1>0, <3>1
      <4>2. queue[1] >= 1
        BY <4>1 DEF FlowInOrder
      <4> QED BY <3>1, <4>1, <4>2
    <3> QED BY <3>1, <3>2, <3>3 DEF Flow
  <2>2. CASE OnEncoded
    <3>1. enc # 0 /\ enc' = 0 /\ encoded' = Append(encoded, enc) /\ queue' = queue
      BY <2>2 DEF OnEncoded
    <3>2. Range(encoded') = Range(encoded) \cup {enc}
      BY <1>0, <3>1, RangeAppend
    <3> QED BY <3>1, <3>2 DEF Flow
  <2>3. CASE OnRtpOut \/ EosOut
    BY <2>3 DEF OnRtpOut, EosOut, Flow
  <2>4. CASE FlushOut
    BY <1>2, <2>4 DEF FlushOut, Flow, Settled
  <2> QED BY <1>4, <2>1, <2>2, <2>3, <2>4 DEF PipeStep
<1>5. CASE CtlStep
  <2>1. CASE StartGrid
    <3>1. grid = "none" /\ grid' = "test"
      BY <2>1 DEF StartGrid, StartedOnce
    <3>2. rows = <<>> /\ queue = <<>> /\ enc = 0 /\ encoded = <<>>
      BY <3>1 DEF StartedOnce
    <3>3. rows' = <<>> /\ queue' = <<>> /\ enc' = 0 /\ encoded' = <<>>
      BY <1>5, <3>2 DEF CtlStep, pipeVars
    <3> QED BY <3>1, <3>3 DEF NoneLost, Flow, Accepted, Pending, Range
  <2>2. CASE ~StartGrid
    <3>1. UNCHANGED <<queue, enc, encoded, rows, flushing, slot, grid>>
      BY <1>5, <2>2
      DEF CtlStep, ReceiverReady, StreamAck, SetStarted, pipeVars
    <3>2. Clean' => Clean
      BY <1>5, CleanStep DEF CtlStep, WaitSender, WaitFor, mainVars
    <3> QED BY <3>1, <3>2, NoneLostFrame
  <2> QED BY <2>1, <2>2
<1>6. CASE Tick
  <2>1. UNCHANGED <<queue, enc, encoded, rows, flushing, slot, grid, Clean>>
    BY <1>6 DEF Tick, ctlVars, gridVars, pipeVars, mainVars, Clean
  <2> QED BY <2>1, NoneLostFrame
<1>7. CASE BeginShutdown \/ ShutdownStep \/ UNCHANGED sendVars
  <2>1. UNCHANGED <<queue, enc, encoded, rows, slot, grid, started>>
    BY <1>7, ShutdownFrame DEF ctlVars
  <2>2. Flow' = Flow /\ Accepted' = Accepted /\ Pending' = Pending
    BY <2>1 DEF Flow, Accepted, Pending
  <2>3. ~flushing' => ~flushing
    BY <1>7 DEF BeginShutdown, StopControl, ShutdownStep, RequestStop, WaitStopped,
       ReadPushed, WaitEncoder, WaitEos, WaitSender, SetNull, NullDone, Join,
       CloseTraces, sendVars, pipeVars
  <2> QED BY <1>1, <2>2, <2>3 DEF NoneLost
<1> QED BY <1>3, <1>4, <1>5, <1>6, <1>7 DEF SendNext

\* The invariant the waits of Shutdown are judged by.
LEMMA DrainInvInit == SendInit => DrainInv
<1> SUFFICES ASSUME SendInit PROVE DrainInv
  OBVIOUS
<1>1. /\ rows = <<>> /\ queue = <<>> /\ wire = <<>> /\ encoded = <<>> /\ sent = <<>>
      /\ enc = 0 /\ pushed = 0 /\ slot = 0 /\ now = 0 /\ resume = 0
  BY DEF SendInit
<1>2. /\ DOMAIN rows = {} /\ DOMAIN encoded = {} /\ DOMAIN queue = {}
      /\ Range(encoded) = {} /\ Range(queue) = {} /\ Len(<<>>) = 0
      /\ Accepted = {} /\ 1 .. 0 = {}
  BY <1>1 DEF Range, Accepted
<1>3. SendTypeOK
  BY SendTypeInit
<1>4. StartedOnce /\ OneRowPerSlot /\ OnTime
  BY <1>1, <1>2 DEF SendInit, StartedOnce, OneRowPerSlot, OnTime
<1>5. Flow = {} /\ Pending = {}
  BY <1>1, <1>2 DEF SendInit, Flow, Pending
<1>6. FlowInOrder /\ SentIsPrefix /\ PushedIsLast
  BY <1>1, <1>2, <1>5 DEF FlowInOrder, Increasing, SentIsPrefix, PushedIsLast
<1>7. EosIsLast
  BY DEF SendInit, EosIsLast
<1>8. WaitsTell
  BY <1>1, <1>2, <1>5
  DEF SendInit, WaitsTell, WaitsInOrder, EncoderEmptied, PastEncoder, AllSent, Clean,
      NoneLost
<1> QED BY <1>3, <1>4, <1>6, <1>7, <1>8 DEF DrainInv

LEMMA DrainInvStep == DrainInv /\ [SendNext]_sendVars => DrainInv'
<1> SUFFICES ASSUME DrainInv, [SendNext]_sendVars PROVE DrainInv'
  OBVIOUS
<1>0. /\ SendTypeOK /\ StartedOnce /\ OneRowPerSlot /\ OnTime /\ FlowInOrder
      /\ SentIsPrefix /\ PushedIsLast /\ EosIsLast
      /\ WaitsInOrder /\ EncoderEmptied /\ AllSent /\ NoneLost
  BY DEF DrainInv, WaitsTell
<1>1. SendTypeOK' /\ StartedOnce' /\ OneRowPerSlot' /\ OnTime'
  BY <1>0, GridInvStep DEF GridInv
<1>2. FlowInOrder' /\ SentIsPrefix' /\ PushedIsLast' /\ EosIsLast'
  BY <1>0, FlowInOrderStep, SentIsPrefixStep, PushedIsLastStep, EosIsLastStep
<1>3. WaitsInOrder'
  BY <1>0, WaitsInOrderStep
<1>4. EncoderEmptied' /\ AllSent' /\ NoneLost'
  BY <1>0, EncoderEmptiedStep, AllSentStep, NoneLostStep
<1> QED BY <1>1, <1>2, <1>3, <1>4 DEF DrainInv, WaitsTell

(* A shutdown that does not say otherwise has lost nothing: what appsrc took *)
(* is in tx-encoded and in tx-rtp, although Shutdown compares only the last  *)
(* frame pushed, encoded and sent.                                          *)
THEOREM DrainCompleteHolds == SendSpec => []DrainComplete
<1>1. SendInit => DrainInv /\ FinalInv
  BY DrainInvInit
  DEF SendInit, FinalInv, PastControl, PipeEmptied, GridJoined, ClosedAtEnd
<1>2. DrainInv /\ FinalInv => DrainComplete
  <2> SUFFICES ASSUME DrainInv, FinalInv, main = "closed", "sender" \notin warned,
                      warned = {} \/ ~started \/ drained
               PROVE  Range(encoded) = Accepted /\ Increasing(encoded)
                      /\ sent = encoded
    BY DEF DrainComplete
  <2>0. grid \in {"none", "done"} /\ ctl \in {"idle", "awaiting"}
    BY DEF FinalInv, GridJoined, PastControl
  <2>1. CASE started
    <3>1. Clean /\ PastEncoder
      BY <2>1 DEF Clean, PastEncoder
    <3>2. enc = 0 /\ queue = <<>> /\ sent = encoded
      BY <3>1 DEF DrainInv, WaitsTell, EncoderEmptied, Settled, AllSent
    <3>3. Flow = Accepted /\ Pending = {}
      BY <2>0, <3>1 DEF DrainInv, WaitsTell, NoneLost, Pending
    <3>4. Flow = Range(encoded)
      BY <3>2 DEF Flow, Range
    <3> QED BY <3>2, <3>3, <3>4 DEF DrainInv, FlowInOrder
  <2>2. CASE ~started
    <3>1. rows = <<>> /\ encoded = <<>> /\ sent = <<>>
      BY <2>0, <2>2 DEF DrainInv, StartedOnce
    <3> QED BY <3>1 DEF Accepted, Range, Increasing
  <2> QED BY <2>1, <2>2
<1> QED BY <1>1, <1>2, DrainInvStep, FinalInvStep, PTL DEF SendSpec
=============================================================================
