---------------------------- MODULE FfmpegProofs ----------------------------
(***************************************************************************)
(* The ffmpeg tree.  First its sender (SenderGrid): the order of Shutdown,  *)
(* and the completeness of tx-frames, for any grid, any file, any start and *)
(* any delays.  Then the depacketizer of its receiver (Depacketizer), for   *)
(* any stream of packets and any buffer, and a network that delays a packet *)
(* by less than a turn of the sequence numbers.                            *)
(* The two share no state.                                                  *)
(***************************************************************************)
EXTENDS Depacketizer, SenderGrid, SequenceTheorems, WellFoundedInduction, TLAPS

-----------------------------------------------------------------------------
(* Shutdown                                                                 *)

\* Each wait of Shutdown leaves one thread less that could write.
RxGone == main \in {"joining grid", "joining rtcp", "trailer", "closing", "closed"}
            => rx = "exited"
GridGone == main \in {"joining rtcp", "trailer", "closing", "closed"}
              => grid \in {"off", "exited"}
RtcpGone == main \in {"trailer", "closing", "closed"} => rtcp = "exited"

StopInv ==
  /\ RxGone /\ GridGone /\ RtcpGone
  /\ closed \in BOOLEAN /\ late \in Nat
  /\ ~closed => late = 0
  /\ closed => /\ main \in {"closed", "returned"}
               /\ grid \in {"off", "exited"} /\ rx = "exited" /\ rtcp = "exited"
               /\ late = 0

LEMMA StopInvInitially == Init => StopInv
<1> SUFFICES ASSUME Init PROVE StopInv
  OBVIOUS
<1>1. main = "connecting" /\ closed = FALSE /\ late = 0
  BY DEF Init
<1> QED BY <1>1 DEF StopInv, RxGone, GridGone, RtcpGone

LEMMA StopInvStep == StopInv /\ [Next]_vars => StopInv'
<1> SUFFICES ASSUME StopInv, [Next]_vars PROVE StopInv'
  OBVIOUS
<1> USE DEF StopInv, RxGone, GridGone, RtcpGone, mainVars, rxVars, gridVars,
            Offer, Ended
<1>1. CASE Pass
  BY <1>1 DEF Pass
<1>2. CASE ~Ended /\ MainNext
  <2> USE <1>2 DEF mainKeeps
  <2>1. CASE ConnectFails BY <2>1 DEF ConnectFails
  <2>2. CASE StartThreads BY <2>2 DEF StartThreads
  <2>3. CASE Registered BY <2>3 DEF Registered
  <2>4. CASE RegisterFails BY <2>4 DEF RegisterFails
  <2>5. CASE DestroySender BY <2>5 DEF DestroySender
  <2>6. CASE StopControl BY <2>6 DEF StopControl
  <2>7. CASE JoinRx BY <2>7 DEF JoinRx
  <2>8. CASE JoinGrid BY <2>8 DEF JoinGrid
  <2>9. CASE JoinRtcp BY <2>9 DEF JoinRtcp
  <2>10. CASE WriteTrailer BY <2>10 DEF WriteTrailer
  <2>11. CASE CloseTraces BY <2>11 DEF CloseTraces
  <2>12. CASE Leave BY <2>12 DEF Leave
  <2> QED BY <2>1, <2>2, <2>3, <2>4, <2>5, <2>6, <2>7, <2>8, <2>9, <2>10, <2>11,
             <2>12 DEF MainNext
<1>3. CASE RxNext
  <2>1. CASE OnAck BY <2>1 DEF OnAck
  <2>2. CASE SpawnGrid BY <2>2 DEF SpawnGrid
  <2>3. ASSUME NEW r \in Rungs, OnProfile(r) PROVE StopInv' BY <2>3 DEF OnProfile
  <2>4. CASE RxExits BY <2>4 DEF RxExits
  <2> QED BY <1>3, <2>1, <2>2, <2>3, <2>4 DEF RxNext
<1>4. CASE ~Ended /\ GridNext
  <2> USE <1>4 DEF gridKeeps, EmitMissed
  <2>1. CASE ChooseFirstSlot BY <2>1 DEF ChooseFirstSlot
  <2>2. CASE SleepEnds BY <2>2 DEF SleepEnds
  <2>3. CASE CheckBehind BY <2>3 DEF CheckBehind
  <2>4. CASE CatchUp BY <2>4 DEF CatchUp
  <2>5. CASE BeginSend BY <2>5 DEF BeginSend
  <2>6. CASE EndSend BY <2>6 DEF EndSend
  <2>7. CASE LeaveLoop BY <2>7 DEF LeaveLoop
  <2>8. CASE RecordTail BY <2>8 DEF RecordTail
  <2> QED BY <2>1, <2>2, <2>3, <2>4, <2>5, <2>6, <2>7, <2>8 DEF GridNext
<1>5. CASE RtcpNext
  <2>1. CASE RtcpReceives BY <2>1 DEF RtcpReceives
  <2>2. CASE RtcpExits BY <2>2 DEF RtcpExits
  <2> QED BY <1>5, <2>1, <2>2 DEF RtcpNext
<1>6. CASE UNCHANGED vars
  BY <1>6 DEF vars
<1> QED BY <1>1, <1>2, <1>3, <1>4, <1>5, <1>6 DEF Next

(* Shutdown closes the traces only after the control, grid and RTCP threads  *)
(* have ended, whenever the accepting ack arrives and however sends block    *)
(* (Sender::Shutdown, video_sender.cc lines 134-153).                       *)
THEOREM ProducersStopFirstHolds == Spec => []ProducersStopFirst
<1>1. StopInv => ProducersStopFirst
  BY DEF StopInv, ProducersStopFirst
<1> QED BY <1>1, StopInvInitially, StopInvStep, PTL DEF Spec

-----------------------------------------------------------------------------
(* The grid                                                                 *)

LEMMA TimesMonotone ==
  ASSUME NEW a \in Int, NEW b \in Int, NEW n \in Nat \ {0}, a <= b
  PROVE  a * n <= b * n
OBVIOUS

\* The slot that runs at a time, and the slots that are over by then.
LEMMA SlotAt ==
  ASSUME NEW t \in Int, NEW n \in Nat \ {0}
  PROVE  /\ t \div n \in Int
         /\ (t \div n) * n <= t
         /\ \A k \in Int : k * n <= t => k <= t \div n
<1> DEFINE q == t \div n
<1>1. q \in Int /\ q * n <= t /\ t < (q + 1) * n
  OBVIOUS
<1>2. ASSUME NEW k \in Int, k * n <= t, ~(k <= q) PROVE FALSE
  <2>1. q + 1 <= k
    BY <1>1, <1>2
  <2>2. (q + 1) * n <= k * n
    BY <2>1, <1>1, TimesMonotone
  <2> QED BY <1>1, <1>2, <2>2
<1> QED BY <1>1, <1>2

RowType == [slot : Int, sent : BOOLEAN, rung : Rungs, at : Int]

GridTypes ==
  /\ now \in Int /\ slot \in Int /\ resume \in Int /\ first \in Int /\ endedAt \in Int
  /\ curRung \in Rungs /\ wantRung \in Rungs
  /\ rows \in Seq(RowType)

\* The grid thread is created once, and has no rows before it chose a slot.
StartedOnce ==
  /\ rx = "spawning" => started
  /\ ~started \/ rx = "spawning" => grid = "off"
  /\ grid \in {"off", "choosing"} => rows = <<>>

\* Where the loop is says which slots are over.
OnTime ==
  /\ grid \in {"awake", "sending", "in send"} => slot * Interval <= now
  /\ grid = "catching up" => slot <= resume /\ resume * Interval <= now
  /\ grid = "closing rows" => endedAt <= now

OneRowPerSlot ==
  /\ grid # "off" /\ grid # "choosing" => slot = first + Len(rows)
  /\ \A i \in DOMAIN rows :
       rows[i].slot = first + i - 1 /\ rows[i].slot * Interval <= rows[i].at
  /\ grid = "exited" => endedAt \div Interval <= slot

GridInv == GridTypes /\ StartedOnce /\ OnTime /\ OneRowPerSlot

LEMMA GridInvInitially == Init => GridInv
<1> SUFFICES ASSUME Init PROVE GridInv
  OBVIOUS
<1>1. rows = <<>> /\ grid = "off" /\ rx = "off" /\ started = FALSE
  BY DEF Init
<1>2. GridTypes
  BY GridAssumption DEF Init, GridTypes
<1>3. StartedOnce /\ OnTime
  BY <1>1 DEF StartedOnce, OnTime
<1>4. OneRowPerSlot
  BY <1>1 DEF OneRowPerSlot
<1> QED BY <1>2, <1>3, <1>4 DEF GridInv

(* A row written for the current slot, sent or missed, continues tx-frames.  *)
LEMMA RowWritten ==
  ASSUME GridInv, NEW sent \in BOOLEAN,
         grid \notin {"off", "choosing"}, slot * Interval <= now,
         rows' = Append(rows, Row(sent)), first' = first
  PROVE  /\ rows' \in Seq(RowType)
         /\ Len(rows') = Len(rows) + 1
         /\ \A i \in DOMAIN rows' :
              rows'[i].slot = first' + i - 1 /\ rows'[i].slot * Interval <= rows'[i].at
<1> USE DEF GridInv
<1> DEFINE n == Len(rows)
<1>1. Row(sent) \in RowType /\ Row(sent).slot = slot /\ Row(sent).at = now
  BY DEF Row, RowType, GridTypes
<1>2. rows \in Seq(RowType) /\ n \in Nat /\ slot = first + n /\ first \in Int
  BY DEF GridTypes, OneRowPerSlot
<1>3. rows' \in Seq(RowType) /\ Len(rows') = n + 1
  BY <1>1, <1>2
<1>4. rows'[n + 1] = Row(sent) /\ \A i \in 1 .. n : rows'[i] = rows[i]
  BY <1>1, <1>2
<1>5. \A i \in 1 .. n :
        rows[i].slot = first + i - 1 /\ rows[i].slot * Interval <= rows[i].at
  BY <1>2 DEF OneRowPerSlot
<1>6. ASSUME NEW i \in DOMAIN rows'
      PROVE  rows'[i].slot = first' + i - 1 /\ rows'[i].slot * Interval <= rows'[i].at
  <2>1. i \in 1 .. n \/ i = n + 1
    BY <1>2, <1>3
  <2> QED BY <2>1, <1>1, <1>2, <1>4, <1>5
<1> QED BY <1>1, <1>2, <1>3, <1>4, <1>6

\* What a step of another thread keeps.
LEMMA GridUntouched ==
  ASSUME GridInv, UNCHANGED <<gridVars, rx, started>>,
         now' \in Int, now <= now', wantRung' \in Rungs
  PROVE  GridInv'
<1> USE DEF GridInv, gridVars
<1>1. GridTypes'
  BY DEF GridTypes
<1>2. StartedOnce'
  BY DEF StartedOnce
<1>3. OnTime'
  <2>1. Interval \in Nat /\ now \in Int /\ slot \in Int /\ resume \in Int /\ endedAt \in Int
    BY GridAssumption DEF GridTypes
  <2>2. slot * Interval \in Int /\ resume * Interval \in Int
    BY <2>1
  <2>3. slot' * Interval = slot * Interval /\ resume' * Interval = resume * Interval
    OBVIOUS
  <2>4. \A x \in Int : x <= now => x <= now'
    BY <2>1
  <2>5. /\ slot * Interval <= now => slot' * Interval <= now'
        /\ resume * Interval <= now => resume' * Interval <= now'
        /\ endedAt <= now => endedAt' <= now'
    BY <2>1, <2>2, <2>3, <2>4
  <2> QED BY <2>5 DEF OnTime
<1>4. OneRowPerSlot'
  BY DEF OneRowPerSlot
<1> QED BY <1>1, <1>2, <1>3, <1>4

LEMMA GridInvStep == GridInv /\ [Next]_vars => GridInv'
<1> SUFFICES ASSUME GridInv, [Next]_vars PROVE GridInv'
  OBVIOUS
<1> USE DEF GridInv
<1>t. /\ now \in Int /\ slot \in Int /\ resume \in Int /\ endedAt \in Int
      /\ wantRung \in Rungs /\ curRung \in Rungs /\ rows \in Seq(RowType)
      /\ first \in Int /\ Interval \in Nat \ {0}
  BY GridAssumption DEF GridTypes
<1>i. slot * Interval \in Int /\ resume * Interval \in Int /\ (slot + 1) * Interval \in Int
  BY <1>t
<1>l. \A x, y, z \in Int : x <= y /\ y <= z => x <= z
  OBVIOUS
<1>1. CASE Pass
  BY <1>1, <1>t, GridUntouched DEF Pass, rxVars, gridVars
<1>2. CASE MainNext
  <2>1. CASE StartThreads
    <3>1. UNCHANGED <<now, gridVars, started, wantRung>> /\ rx' = "listening"
      BY <2>1 DEF StartThreads
    <3>2. GridTypes' /\ OneRowPerSlot'
      BY <3>1 DEF GridTypes, OneRowPerSlot, gridVars
    <3>3. OnTime'
      BY <3>1 DEF OnTime, gridVars
    <3>4. StartedOnce'
      BY <3>1 DEF StartedOnce, gridVars
    <3> QED BY <3>2, <3>3, <3>4
  <2>2. CASE ~StartThreads
    <3>1. UNCHANGED <<now, gridVars, rx, started, wantRung>>
      BY <1>2, <2>2
         DEF MainNext, ConnectFails, Registered, RegisterFails, DestroySender, StopControl,
             JoinRx, JoinGrid, JoinRtcp, WriteTrailer, CloseTraces, Leave, mainKeeps, rxVars
    <3> QED BY <3>1, <1>t, GridUntouched
  <2> QED BY <2>1, <2>2
<1>3. CASE RxNext
  <2>1. CASE OnAck
    <3>1. UNCHANGED <<now, gridVars, wantRung>> /\ rx' = "spawning" /\ started' = TRUE
          /\ grid = "off"
      BY <2>1 DEF OnAck, StartedOnce
    <3>2. GridTypes' /\ OneRowPerSlot'
      BY <3>1 DEF GridTypes, OneRowPerSlot, gridVars
    <3>3. OnTime' /\ StartedOnce'
      BY <3>1 DEF OnTime, StartedOnce, gridVars
    <3> QED BY <3>2, <3>3
  <2>2. CASE SpawnGrid
    <3>1. /\ UNCHANGED <<now, wantRung, slot, resume, curRung, first, rows, endedAt, started>>
          /\ rx' = "listening" /\ grid' = "choosing"
      BY <2>2 DEF SpawnGrid
    <3>2. grid = "off" /\ started /\ rows = <<>>
      BY <2>2 DEF SpawnGrid, StartedOnce
    <3>3. GridTypes'
      BY <3>1 DEF GridTypes
    <3>4. OneRowPerSlot'
      BY <3>1, <3>2 DEF OneRowPerSlot
    <3>5. OnTime' /\ StartedOnce'
      BY <3>1, <3>2 DEF OnTime, StartedOnce
    <3> QED BY <3>3, <3>4, <3>5
  <2>3. ASSUME NEW r \in Rungs, OnProfile(r) PROVE GridInv'
    BY <2>3, <1>t, GridUntouched DEF OnProfile
  <2>4. CASE RxExits
    <3>1. UNCHANGED <<now, gridVars, wantRung, started>> /\ rx = "listening" /\ rx' = "exited"
      BY <2>4 DEF RxExits
    <3>2. GridTypes' /\ OneRowPerSlot'
      BY <3>1 DEF GridTypes, OneRowPerSlot, gridVars
    <3>3. OnTime' /\ StartedOnce'
      BY <3>1 DEF OnTime, StartedOnce, gridVars
    <3> QED BY <3>2, <3>3
  <2> QED BY <1>3, <2>1, <2>2, <2>3, <2>4 DEF RxNext
<1>4. CASE GridNext
  <2>k. ASSUME gridKeeps' = gridKeeps PROVE UNCHANGED <<now, rx, started, wantRung>>
    BY <2>k DEF gridKeeps, rxVars
  <2>1. CASE ChooseFirstSlot
    <3>1. PICK s \in FirstIdrSlot(IF now >= Interval THEN now \div Interval + 1 ELSE 0) :
                 slot' = s /\ first' = s
      BY <2>1 DEF ChooseFirstSlot
    <3>2. now \div Interval \in Int /\ Frames \in Nat
      BY <1>t, SlotAt, GridAssumption
    <3>3. slot' \in Int /\ first' = slot'
      BY <3>1, <3>2 DEF FirstIdrSlot
    <3>4. /\ UNCHANGED <<now, rx, started, wantRung, resume, curRung, rows, endedAt>>
          /\ grid = "choosing" /\ grid' = "sleeping"
      BY <2>1, <2>k DEF ChooseFirstSlot
    <3>5. rows = <<>> /\ Len(rows) = 0 /\ DOMAIN rows = {} /\ started /\ rx # "spawning"
      BY <3>4 DEF StartedOnce
    <3>6. GridTypes'
      BY <3>3, <3>4 DEF GridTypes
    <3>7. StartedOnce' /\ OnTime'
      BY <3>4, <3>5 DEF StartedOnce, OnTime
    <3>8. OneRowPerSlot'
      <4>1. rows' = <<>> /\ grid' = "sleeping"
        BY <3>4, <3>5
      <4>2. Len(rows') = 0 /\ DOMAIN rows' = {}
        BY <4>1
      <4>3. first' = first' + 0
        <5>1. \A x \in Int : x = x + 0
          OBVIOUS
        <5>2. first' \in Int
          BY <3>3, Zenon
        <5> QED BY <5>1, <5>2
      <4>4. slot' = first' + Len(rows')
        BY <3>3, <4>2, <4>3
      <4> QED BY <4>1, <4>2, <4>4 DEF OneRowPerSlot
    <3> QED BY <3>6, <3>7, <3>8
  <2>2. ASSUME grid \notin {"off", "choosing"}, grid' \notin {"off", "choosing"},
               gridKeeps' = gridKeeps, UNCHANGED <<slot, first, rows>>,
               resume' \in Int, endedAt' \in Int, OnTime',
               grid' = "exited" => endedAt' \div Interval <= slot,
               curRung' \in Rungs
        PROVE  GridInv'
    <3>1. GridTypes'
      BY <2>2, <2>k DEF GridTypes
    <3>2. StartedOnce'
      BY <2>2, <2>k DEF StartedOnce
    <3>3. OneRowPerSlot'
      BY <2>2 DEF OneRowPerSlot
    <3> QED BY <2>2, <3>1, <3>2, <3>3
  <2>3. ASSUME NEW sent \in BOOLEAN, rows' = Append(rows, Row(sent)), slot' = slot + 1,
               slot * Interval <= now, grid \notin {"off", "choosing"},
               grid' \notin {"off", "choosing", "exited"},
               gridKeeps' = gridKeeps, UNCHANGED <<first, curRung, resume, endedAt>>,
               OnTime'
        PROVE  GridInv'
    <3>1. /\ rows' \in Seq(RowType)
          /\ Len(rows') = Len(rows) + 1
          /\ \A i \in DOMAIN rows' :
               rows'[i].slot = first' + i - 1 /\ rows'[i].slot * Interval <= rows'[i].at
      BY <2>3, RowWritten
    <3>2. GridTypes'
      BY <2>3, <2>k, <3>1 DEF GridTypes
    <3>3. StartedOnce'
      BY <2>3, <2>k DEF StartedOnce
    <3>4. Len(rows) \in Nat /\ slot = first + Len(rows)
      BY <1>t, <2>3 DEF OneRowPerSlot
    <3>5. OneRowPerSlot'
      BY <1>t, <2>3, <3>1, <3>4 DEF OneRowPerSlot
    <3> QED BY <2>3, <3>2, <3>3, <3>5
  <2>4. CASE SleepEnds
    <3>1. /\ grid = "sleeping" /\ grid' \in {"leaving", "awake"}
          /\ grid' = "awake" => now >= slot * Interval
          /\ gridKeeps' = gridKeeps
          /\ UNCHANGED <<slot, resume, curRung, first, rows, endedAt>>
      BY <2>4 DEF SleepEnds
    <3>2. OnTime'
      BY <3>1, <2>k, <1>t DEF OnTime
    <3> QED BY <2>2, <3>1, <3>2, <1>t
  <2>5. CASE CheckBehind
    <3>1. /\ grid = "awake" /\ slot * Interval <= now
          /\ gridKeeps' = gridKeeps /\ UNCHANGED <<slot, curRung, first, rows, endedAt>>
      BY <2>5 DEF CheckBehind, OnTime
    <3>2. CASE grid' = "sending" /\ UNCHANGED resume
      <4>1. OnTime'
        BY <3>1, <3>2, <2>k DEF OnTime
      <4> QED BY <2>2, <3>1, <3>2, <4>1, <1>t
    <3>3. CASE /\ now >= (slot + 1) * Interval
               /\ resume' = now \div Interval
               /\ grid' = "catching up"
      <4>1. /\ resume' \in Int /\ resume' * Interval <= now
            /\ \A k \in Int : k * Interval <= now => k <= resume'
        BY <3>3, <1>t, SlotAt
      <4>2. (slot + 1) * Interval <= now
        BY <3>3, <1>t
      <4>3. slot <= resume'
        BY <4>1, <4>2, <1>t
      <4>4. OnTime'
        BY <3>1, <3>3, <4>1, <4>3, <2>k DEF OnTime
      <4> QED BY <2>2, <3>1, <3>3, <4>1, <4>4, <1>t
    <3> QED BY <2>5, <3>2, <3>3 DEF CheckBehind
  <2>6. CASE CatchUp
    <3>1. /\ grid = "catching up" /\ slot <= resume /\ resume * Interval <= now
          /\ gridKeeps' = gridKeeps /\ UNCHANGED <<resume, curRung, first, endedAt>>
      BY <2>6 DEF CatchUp, OnTime
    <3>2. slot * Interval <= now
      <4>1. slot * Interval <= resume * Interval
        BY <3>1, <1>t, TimesMonotone
      <4> QED BY <3>1, <4>1, <1>t, <1>i, <1>l
    <3>3. CASE slot < resume /\ EmitMissed /\ UNCHANGED grid
      <4>1. rows' = Append(rows, Row(FALSE)) /\ slot' = slot + 1 /\ slot' <= resume
        BY <3>3, <1>t DEF EmitMissed
      <4>2. OnTime'
        BY <3>1, <3>3, <4>1, <2>k DEF OnTime
      <4> QED BY <2>3, <3>1, <3>2, <3>3, <4>1, <4>2
    <3>4. CASE grid' = "sending" /\ UNCHANGED <<rows, slot, late>>
      <4>1. OnTime'
        BY <3>1, <3>2, <3>4, <2>k DEF OnTime
      <4> QED BY <2>2, <3>1, <3>4, <4>1, <1>t
    <3> QED BY <2>6, <3>3, <3>4 DEF CatchUp
  <2>7. CASE BeginSend
    <3>1. /\ grid = "sending" /\ slot * Interval <= now
          /\ gridKeeps' = gridKeeps /\ UNCHANGED <<slot, resume, first, rows, endedAt>>
      BY <2>7 DEF BeginSend, OnTime
    <3>2. CASE grid' = "leaving" /\ UNCHANGED curRung
      <4>1. OnTime'
        BY <3>2 DEF OnTime
      <4> QED BY <2>2, <3>1, <3>2, <4>1, <1>t
    <3>3. CASE curRung' = (IF IsIdr(slot) THEN wantRung ELSE curRung) /\ grid' = "in send"
      <4>1. OnTime'
        BY <3>1, <3>3, <2>k DEF OnTime
      <4> QED BY <2>2, <3>1, <3>3, <4>1, <1>t
    <3> QED BY <2>7, <3>2, <3>3 DEF BeginSend
  <2>8. CASE EndSend
    <3>1. PICK sent \in BOOLEAN : rows' = Append(rows, Row(sent))
      BY <2>8 DEF EndSend
    <3>2. /\ grid = "in send" /\ grid' = "sleeping" /\ slot' = slot + 1
          /\ slot * Interval <= now
          /\ gridKeeps' = gridKeeps /\ UNCHANGED <<resume, curRung, first, endedAt>>
      BY <2>8 DEF EndSend, OnTime
    <3>3. OnTime'
      BY <3>2 DEF OnTime
    <3> QED BY <2>3, <3>1, <3>2, <3>3
  <2>9. CASE LeaveLoop
    <3>1. /\ grid = "leaving" /\ grid' = "closing rows" /\ endedAt' = now
          /\ gridKeeps' = gridKeeps /\ UNCHANGED <<slot, resume, curRung, first, rows>>
      BY <2>9 DEF LeaveLoop
    <3>2. OnTime'
      <4>1. now <= now
        BY <1>t
      <4>2. endedAt' = now /\ now' = now
        BY <3>1, <2>k
      <4>3. endedAt' <= now'
        BY <4>1, <4>2
      <4> QED BY <3>1, <4>3 DEF OnTime
    <3> QED BY <2>2, <3>1, <3>2, <1>t
  <2>10. CASE RecordTail
    <3>1. /\ grid = "closing rows" /\ endedAt <= now
          /\ gridKeeps' = gridKeeps /\ UNCHANGED <<resume, curRung, first, endedAt>>
      BY <2>10 DEF RecordTail, OnTime
    <3>2. CASE (slot + 1) * Interval <= endedAt /\ EmitMissed /\ UNCHANGED grid
      <4>1. rows' = Append(rows, Row(FALSE)) /\ slot' = slot + 1
        BY <3>2 DEF EmitMissed
      <4>2. slot * Interval <= (slot + 1) * Interval
        BY <1>t, TimesMonotone
      <4>3. slot * Interval <= now
        <5>1. slot * Interval <= endedAt
          BY <1>t, <1>i, <1>l, <3>2, <4>2
        <5> QED BY <5>1, <1>t, <1>i, <1>l, <3>1
      <4>4. OnTime'
        BY <3>1, <3>2, <2>k DEF OnTime
      <4> QED BY <2>3, <3>1, <3>2, <4>1, <4>3, <4>4
    <3>3. CASE (slot + 1) * Interval > endedAt /\ grid' = "exited" /\ UNCHANGED <<rows, slot, late>>
      <4>1. endedAt \div Interval \in Int /\ (endedAt \div Interval) * Interval <= endedAt
        BY <1>t, SlotAt
      <4>2. endedAt \div Interval <= slot
        <5>1. SUFFICES ASSUME slot + 1 <= endedAt \div Interval PROVE FALSE
          BY <4>1, <1>t
        <5>2. (slot + 1) * Interval <= (endedAt \div Interval) * Interval
          BY <5>1, <4>1, <1>t, TimesMonotone
        <5> QED BY <5>2, <4>1, <3>3, <1>t
      <4>3. OnTime'
        BY <3>3 DEF OnTime
      <4> QED BY <2>2, <3>1, <3>3, <4>2, <4>3, <1>t
    <3> QED BY <2>10, <3>2, <3>3 DEF RecordTail
  <2> QED BY <1>4, <2>1, <2>4, <2>5, <2>6, <2>7, <2>8, <2>9, <2>10 DEF GridNext
<1>5. CASE RtcpNext
  BY <1>5, <1>t, GridUntouched DEF RtcpNext, RtcpReceives, RtcpExits, rxVars, gridVars
<1>6. CASE UNCHANGED vars
  BY <1>6, <1>t, GridUntouched DEF vars, rxVars, gridVars
<1> QED BY <1>1, <1>2, <1>3, <1>4, <1>5, <1>6 DEF Next

(* Every slot from the first one on has one row, in order, none before it    *)
(* began, and none that was over when the loop ended is missing, whatever    *)
(* sends and scheduling took (Sender::GridLoop, lines 332-347).             *)
THEOREM EverySlotHasItsRowHolds == Spec => []EverySlotHasItsRow
<1>1. GridInv => EverySlotHasItsRow
  BY DEF GridInv, OneRowPerSlot, EverySlotHasItsRow
<1> QED BY <1>1, GridInvInitially, GridInvStep, PTL DEF Spec

-----------------------------------------------------------------------------
(* The depacketizer: sequence numbers                                       *)

(* Distances of sequence numbers are those of the positions as long as       *)
(* these are less than a turn apart.                                        *)
LEMMA Remainder ==
  ASSUME NEW i \in Int, NEW m \in Nat \ {0}
  PROVE  (i % m) \in 0 .. (m - 1) /\ \E q \in Int : i = m * q + (i % m)
<1> DEFINE q == i \div m
           r == i % m
<1>1. q \in Int /\ i = m * q + r /\ r \in 0 .. (m - 1)
  OBVIOUS
<1> HIDE DEF q
<1> QED BY <1>1

\* Two remainders of one number are equal.
LEMMA OneRemainder ==
  ASSUME NEW m \in Nat \ {0}, NEW q \in Int, NEW r \in Int,
         NEW u \in 0 .. (m - 1), NEW v \in 0 .. (m - 1), m * q + u = m * r + v
  PROVE  u = v
<1>1. CASE q = r
  BY <1>1
<1>2. CASE q < r
  <2>1. r - q >= 1 /\ r - q \in Int /\ m * (r - q) = m * r - m * q
    BY <1>2
  <2>2. m * (r - q) >= m
    BY <2>1
  <2> QED BY <2>1, <2>2
<1>3. CASE r < q
  <2>1. q - r >= 1 /\ q - r \in Int /\ m * (q - r) = m * q - m * r
    BY <1>3
  <2>2. m * (q - r) >= m
    BY <2>1
  <2> QED BY <2>1, <2>2
<1> QED BY <1>1, <1>2, <1>3

LEMMA Halved ==
  ASSUME NEW m \in Nat
  PROVE  m \div 2 \in Nat /\ 2 * (m \div 2) <= m
  OBVIOUS

LEMMA ModulusPositive ==
  /\ Modulus \in Nat \ {0} /\ Modulus \div 2 \in Nat /\ Modulus \div 2 <= Modulus
  /\ MaxMisorder + MaxDropout < Modulus \div 2
  /\ MaxDropout \in Nat /\ MaxMisorder \in Nat
<1> DEFINE h == Modulus \div 2
<1>1. Modulus \in Nat /\ MaxDropout \in Nat /\ MaxMisorder \in Nat
      /\ MaxMisorder + MaxDropout < h
  BY DepackAssumption
<1>2. h \in Nat /\ 2 * h <= Modulus
  BY <1>1, Halved
<1> HIDE DEF h
<1>3. Modulus \in Nat \ {0} /\ h <= Modulus
  BY <1>1, <1>2
<1> QED BY <1>1, <1>2, <1>3 DEF h

LEMMA DistanceTells ==
  ASSUME base \in Int, NEW k \in Int, NEW a \in Int,
         NEW u, u = (WireSeq(k) - WireSeq(a)) % Modulus
  PROVE  u \in 0 .. (Modulus - 1) /\ \E q \in Int : k - a = Modulus * q + u
<1> DEFINE x == (base + k) % Modulus
           y == (base + a) % Modulus
<1>0. base + k \in Int /\ base + a \in Int /\ Modulus \in Nat \ {0}
  BY ModulusPositive
<1>1. x \in 0 .. (Modulus - 1) /\ \E q \in Int : base + k = Modulus * q + x
  BY <1>0, Remainder
<1>2. y \in 0 .. (Modulus - 1) /\ \E q \in Int : base + a = Modulus * q + y
  BY <1>0, Remainder
<1> HIDE DEF x, y
<1>3. u \in 0 .. (Modulus - 1) /\ \E q \in Int : x - y = Modulus * q + u
  <2>1. x - y \in Int
    BY <1>0, <1>1, <1>2
  <2>2. u = (x - y) % Modulus
    BY DEF x, y, WireSeq
  <2> QED BY <1>0, <2>1, <2>2, Remainder
<1>4. PICK q1 \in Int : base + k = Modulus * q1 + x
  BY <1>1
<1>5. PICK q2 \in Int : base + a = Modulus * q2 + y
  BY <1>2
<1>6. PICK q3 \in Int : x - y = Modulus * q3 + u
  BY <1>3
<1>7. k - a = Modulus * q1 - Modulus * q2 + Modulus * q3 + u
  BY <1>1, <1>2, <1>3, <1>4, <1>5, <1>6, ModulusPositive
<1>8. Modulus * q1 - Modulus * q2 + Modulus * q3 = Modulus * (q1 - q2 + q3)
  BY ModulusPositive
<1>9. q1 - q2 + q3 \in Int /\ k - a = Modulus * (q1 - q2 + q3) + u
  BY <1>3, <1>7, <1>8, ModulusPositive
<1> QED BY <1>3, <1>9

(* What Push takes for progress is the next packet after that gap, and what  *)
(* it drops as late or repeated is no later one (lines 282-284).            *)
LEMMA StepTells ==
  ASSUME DepackTypes, SeqTells, dp.haveSeq, NEW k \in DOMAIN Stream,
         k > newest - Window, newest > 0 => k <= newest + Ahead
  PROVE  /\ IsProgress(dp, WireSeq(k)) =>
              /\ Step(dp, WireSeq(k)) - 1 \in Nat
              /\ k = at + 1 + (Step(dp, WireSeq(k)) - 1)
         /\ IsLate(dp, WireSeq(k)) => k <= at
<1> DEFINE u == (WireSeq(k) - WireSeq(at)) % Modulus
           h == Modulus \div 2
<1>1. base \in Int /\ k \in Nat /\ k > 0 /\ at \in Nat /\ newest \in Nat
      /\ at <= newest /\ newest - Window < at /\ newest > 0
  <2>1. Len(Stream) \in Nat /\ DOMAIN Stream = 1 .. Len(Stream)
    BY StreamAssumption
  <2>2. at \in DOMAIN Stream /\ at <= newest /\ newest - Window < at /\ base \in Int
    BY DepackAssumption DEF DepackTypes, SeqTells
  <2> QED BY <2>1, <2>2 DEF DepackTypes
<1>2. u \in 0 .. (Modulus - 1) /\ \E q \in Int : k - at = Modulus * q + u
  <2> HIDE DEF h
  <2>1. base \in Int /\ k \in Int /\ at \in Int /\ u = (WireSeq(k) - WireSeq(at)) % Modulus
    BY <1>1
  <2> HIDE DEF u
  <2> QED BY <2>1, DistanceTells, ZenonT(60)
<1>3. Step(dp, WireSeq(k)) = IF u < h THEN u ELSE u - Modulus
  BY DEF SeqTells, Step
<1>4. /\ Modulus \in Nat \ {0} /\ h \in Nat /\ h <= Modulus
      /\ MaxMisorder + MaxDropout < h /\ MaxDropout \in Nat /\ MaxMisorder \in Nat
  BY ModulusPositive
<1>5. /\ Window \in Nat \ {0} /\ Ahead \in Nat /\ Window + MaxDropout <= Modulus
      /\ Window + Ahead + MaxMisorder <= Modulus
  BY NetworkAssumption
<1> HIDE DEF u, h
<1>6. PICK q \in Int : k - at = Modulus * q + u
  BY <1>2
<1>7. -Window < k - at /\ k - at < Window + Ahead
  BY <1>1, <1>5
<1>8. q <= 0 \/ Modulus * q >= Modulus
  BY <1>4
<1>9. q >= 0 \/ Modulus * q <= -Modulus
  BY <1>4
<1>10. ASSUME IsProgress(dp, WireSeq(k))
       PROVE  u \in 1 .. MaxDropout /\ k - at = u
  <2>1. u \in 1 .. MaxDropout
    BY <1>2, <1>3, <1>4, <1>10 DEF IsProgress
  <2>2. q >= 0
    BY <1>2, <1>4, <1>5, <1>6, <1>7, <1>9, <2>1
  <2>3. q <= 0
    BY <1>2, <1>4, <1>5, <1>6, <1>7, <1>8, <2>1
  <2>4. q = 0
    BY <2>2, <2>3
  <2> QED BY <1>2, <1>4, <1>6, <2>1, <2>4
<1>11. ASSUME IsLate(dp, WireSeq(k)) PROVE k <= at
  <2>1. u = 0 \/ u >= Modulus - MaxMisorder
    BY <1>2, <1>3, <1>4, <1>11 DEF IsLate
  <2>2. q <= 0
    BY <1>2, <1>4, <1>5, <1>6, <1>7, <1>8
  <2>3. CASE q = 0
    BY <1>1, <1>2, <1>4, <1>5, <1>6, <1>7, <2>1, <2>3
  <2>4. CASE q < 0
    <3>1. Modulus * q <= -Modulus
      BY <1>9, <2>4
    <3> QED BY <1>1, <1>2, <1>4, <1>6, <3>1
  <2> QED BY <2>2, <2>3, <2>4
<1>12. ASSUME IsProgress(dp, WireSeq(k)) PROVE Step(dp, WireSeq(k)) = u
  BY <1>3, <1>4, <1>10, <1>12
<1> QED BY <1>1, <1>10, <1>11, <1>12

(***************************************************************************)
(* What an AU is made of                                                   *)
(***************************************************************************)

\* A set of numbers that begins with 0 and goes on up to n has n.
LEMMA Reaches ==
  ASSUME NEW n \in Nat, NEW P, 0 \in P, \A i \in 0 .. n : i \in P /\ i < n => i + 1 \in P
  PROVE  n \in P
<1> DEFINE Missing == {i \in Nat : i <= n /\ i \notin P}
<1>1. SUFFICES ASSUME Missing # {} PROVE FALSE
  OBVIOUS
<1> DEFINE R == OpToRel(<, Nat)
<1>2. IsWellFoundedOn(R, Nat) /\ Missing \subseteq Nat
  BY NatLessThanWellFounded
<1>3. \A j \in Nat, i \in Nat : j < i => <<j, i>> \in R
  BY DEF OpToRel
<1> HIDE DEF R
<1>4. PICK i \in Missing : \A j \in Missing : ~(<<j, i>> \in R)
  BY <1>1, <1>2, WFMin
<1>5. i \in Nat /\ i <= n /\ i \notin P
  BY <1>4
<1>6. i # 0 /\ i - 1 \in 0 .. n /\ i - 1 < i /\ i - 1 < n
  BY <1>5
<1>7. i - 1 \notin Missing
  BY <1>3, <1>4, <1>5, <1>6
<1>8. i - 1 \in P
  BY <1>6, <1>7
<1> QED BY <1>5, <1>6, <1>8

\* The definition by recursion is one: each packet adds its pieces.
LEMMA AuUpToStep ==
  \A k \in 1 .. Len(Stream) :
    AuUpTo[k] = IF k > 1 /\ Stream[k - 1].ts = Stream[k].ts
                  THEN AuUpTo[k - 1] \o Stream[k].pieces ELSE Stream[k].pieces
<1> DEFINE N == Len(Stream)
           Joins(k) == k > 1 /\ Stream[k - 1].ts = Stream[k].ts
           Adds(f, n) == f = [k \in 1 .. n |->
             IF Joins(k) THEN f[k - 1] \o Stream[k].pieces ELSE Stream[k].pieces]
           P == {n \in 0 .. N : \E f : Adds(f, n)}
<1>0. N \in Nat
  BY StreamAssumption
<1>1. 0 \in P
  <2>1. Adds(<<>>, 0)
    OBVIOUS
  <2> HIDE DEF Adds
  <2> QED BY <1>0, <2>1
<1>2. ASSUME NEW n \in 0 .. N, n \in P, n < N PROVE n + 1 \in P
  <2>1. PICK f : Adds(f, n)
    BY <1>2
  <2> DEFINE last == IF Joins(n + 1) THEN f[n] \o Stream[n + 1].pieces
                                     ELSE Stream[n + 1].pieces
             g == [k \in 1 .. (n + 1) |-> IF k = n + 1 THEN last ELSE f[k]]
  <2>2. n + 1 \in 0 .. N /\ n \in Nat /\ ~Joins(1)
    BY <1>0, <1>2
  <2> HIDE DEF Joins, last
  <2>3. g[n + 1] = last /\ \A k \in 1 .. n : g[k] = f[k]
    BY <2>2
  <2>4. \A k \in 1 .. n :
          f[k] = IF Joins(k) THEN f[k - 1] \o Stream[k].pieces ELSE Stream[k].pieces
    BY <2>1
  <2>5. last = IF Joins(n + 1) THEN g[n] \o Stream[n + 1].pieces
                               ELSE Stream[n + 1].pieces
    BY <2>2, <2>3 DEF last
  <2>6. \A k \in 1 .. n : Joins(k) => k - 1 \in 1 .. n
    BY <2>2
  <2>7. \A k \in 1 .. (n + 1) :
          g[k] = IF Joins(k) THEN g[k - 1] \o Stream[k].pieces ELSE Stream[k].pieces
    <3> HIDE DEF g
    <3> QED BY <2>2, <2>3, <2>4, <2>5, <2>6
  <2>8. Adds(g, n + 1)
    BY <2>7
  <2> QED BY <2>2, <2>8
<1>3. N \in P
  <2> HIDE DEF P
  <2> QED BY <1>0, <1>1, <1>2, Reaches
<1>4. PICK f : Adds(f, N)
  BY <1>3
<1>5. Adds(AuUpTo, N)
  BY <1>4 DEF AuUpTo
<1> QED BY <1>0, <1>5

(***************************************************************************)
(* NAL units in a buffer                                                   *)
(***************************************************************************)

LEMMA Joined ==
  ASSUME NEW b \in Seq(Piece), NEW ps \in Seq(Piece)
  PROVE  /\ b \o ps \in Seq(Piece) /\ Len(b \o ps) = Len(b) + Len(ps)
         /\ Len(b) \in Nat /\ Len(ps) \in Nat
         /\ DOMAIN b = 1 .. Len(b) /\ DOMAIN ps = 1 .. Len(ps)
         /\ DOMAIN (b \o ps) = 1 .. (Len(b) + Len(ps))
         /\ \A j \in 1 .. Len(b) : (b \o ps)[j] = b[j]
         /\ \A j \in 1 .. (Len(b) + Len(ps)) : j > Len(b) => (b \o ps)[j] = ps[j - Len(b)]
<1> HIDE DEF Piece
<1>1. /\ b \o ps \in Seq(Piece) /\ Len(b \o ps) = Len(b) + Len(ps)
      /\ \A i \in 1 .. Len(b) + Len(ps) :
           (b \o ps)[i] = IF i <= Len(b) THEN b[i] ELSE ps[i - Len(b)]
  BY ConcatProperties
<1>2. /\ Len(b) \in Nat /\ Len(ps) \in Nat
      /\ DOMAIN b = 1 .. Len(b) /\ DOMAIN ps = 1 .. Len(ps)
      /\ DOMAIN (b \o ps) = 1 .. Len(b \o ps)
  BY <1>1, LenProperties
<1> QED BY <1>1, <1>2

\* Whole NAL units may be added to whole ones.
LEMMA UnbrokenConcat ==
  ASSUME NEW b \in Seq(Piece), NEW ps \in Seq(Piece), Unbroken(b, FALSE),
         \A i \in DOMAIN ps : ps[i][2] = 1 /\ ps[i][3] = 1
  PROVE  Unbroken(b \o ps, FALSE)
<1> DEFINE c == b \o ps
<1>1. /\ Len(c) = Len(b) + Len(ps) /\ Len(b) \in Nat /\ Len(ps) \in Nat
      /\ DOMAIN b = 1 .. Len(b) /\ DOMAIN ps = 1 .. Len(ps)
      /\ DOMAIN c = 1 .. (Len(b) + Len(ps))
      /\ \A j \in 1 .. Len(b) : c[j] = b[j]
      /\ \A j \in 1 .. (Len(b) + Len(ps)) : j > Len(b) => c[j] = ps[j - Len(b)]
  BY Joined
<1> HIDE DEF c, Follows
<1>2. ASSUME NEW j \in DOMAIN c, j <= Len(b)
      PROVE  /\ c[j][2] > 1 => j > 1 /\ Follows(c[j], c[j - 1])
             /\ c[j][2] < c[j][3] =>
                  IF j = Len(c) THEN FALSE ELSE Follows(c[j + 1], c[j])
  <2>1. /\ b[j][2] > 1 => j > 1 /\ Follows(b[j], b[j - 1])
        /\ b[j][2] < b[j][3] => j # Len(b) /\ Follows(b[j + 1], b[j])
    BY <1>1, <1>2 DEF Unbroken
  <2>2. c[j] = b[j] /\ (j > 1 => c[j - 1] = b[j - 1])
        /\ (j # Len(b) => c[j + 1] = b[j + 1] /\ j # Len(c))
    BY <1>1, <1>2
  <2> QED BY <2>1, <2>2
<1>3. ASSUME NEW j \in DOMAIN c, j > Len(b)
      PROVE  c[j][2] = 1 /\ c[j][3] = 1
  <2>1. j - Len(b) \in DOMAIN ps
    BY <1>1, <1>3
  <2> QED BY <1>1, <1>3, <2>1
<1>4. \A j \in DOMAIN c : j <= Len(b) \/ j > Len(b)
  BY <1>1
<1>5. Unbroken(c, FALSE)
  BY <1>2, <1>3, <1>4 DEF Unbroken
<1> QED BY <1>5 DEF c

LEMMA JoinedOne ==
  ASSUME NEW b \in Seq(Piece), NEW ps \in Seq(Piece), Len(ps) = 1
  PROVE  /\ b \o ps \in Seq(Piece) /\ Len(b \o ps) = Len(b) + 1 /\ Len(b) \in Nat
         /\ DOMAIN b = 1 .. Len(b) /\ DOMAIN (b \o ps) = 1 .. (Len(b) + 1)
         /\ \A j \in 1 .. Len(b) : (b \o ps)[j] = b[j]
         /\ (b \o ps)[Len(b) + 1] = ps[1]
<1> DEFINE c == b \o ps
<1>1. /\ c \in Seq(Piece) /\ Len(c) = Len(b) + Len(ps)
      /\ Len(b) \in Nat /\ DOMAIN b = 1 .. Len(b)
      /\ DOMAIN c = 1 .. (Len(b) + Len(ps))
      /\ \A j \in 1 .. Len(b) : c[j] = b[j]
      /\ \A j \in 1 .. (Len(b) + Len(ps)) : j > Len(b) => c[j] = ps[j - Len(b)]
  BY Joined
<1> HIDE DEF c, Piece
<1>2. Len(b) + 1 \in 1 .. (Len(b) + Len(ps)) /\ Len(b) + 1 > Len(b)
      /\ (Len(b) + 1) - Len(b) = 1
  BY <1>1
<1>3. c[Len(b) + 1] = ps[1]
  BY <1>1, <1>2
<1>4. Len(c) = Len(b) + 1 /\ DOMAIN c = 1 .. (Len(b) + 1)
  BY <1>1
<1> QED BY <1>1, <1>3, <1>4 DEF c

\* One more piece after an unbroken buffer.
LEMMA UnbrokenOne ==
  ASSUME NEW b \in Seq(Piece), NEW open \in BOOLEAN, Unbroken(b, open),
         NEW ps \in Seq(Piece), Len(ps) = 1, NEW more \in BOOLEAN,
         ps[1][2] > 1 => Len(b) > 0 /\ Follows(ps[1], b[Len(b)]),
         ps[1][2] < ps[1][3] => more,
         open => Len(b) > 0 /\ Follows(ps[1], b[Len(b)])
  PROVE  Unbroken(b \o ps, more)
<1> DEFINE c == b \o ps
           n == Len(b)
<1>1. /\ Len(c) = n + 1 /\ n \in Nat
      /\ DOMAIN b = 1 .. n /\ DOMAIN c = 1 .. (n + 1)
      /\ \A j \in 1 .. n : c[j] = b[j]
      /\ c[n + 1] = ps[1]
  BY JoinedOne
<1> HIDE DEF c, Follows
<1>2. ASSUME NEW j \in 1 .. n
      PROVE  /\ c[j][2] > 1 => j > 1 /\ Follows(c[j], c[j - 1])
             /\ c[j][2] < c[j][3] => Follows(c[j + 1], c[j])
  <2>1. /\ b[j][2] > 1 => j > 1 /\ Follows(b[j], b[j - 1])
        /\ b[j][2] < b[j][3] => IF j = n THEN open ELSE Follows(b[j + 1], b[j])
    BY <1>1 DEF Unbroken
  <2>2. c[j] = b[j] /\ (j > 1 => c[j - 1] = b[j - 1])
        /\ (j # n => c[j + 1] = b[j + 1]) /\ (j = n => c[j + 1] = ps[1])
    BY <1>1
  <2> QED BY <2>1, <2>2
<1>3. /\ c[n + 1][2] > 1 => n + 1 > 1 /\ Follows(c[n + 1], c[n])
      /\ c[n + 1][2] < c[n + 1][3] => more
  BY <1>1
<1>4. \A j \in DOMAIN c : j \in 1 .. n \/ j = n + 1
  BY <1>1
<1>5. (n + 1) - 1 = n /\ \A j \in 1 .. n : j # Len(c)
  BY <1>1
<1>6. Unbroken(c, more)
  <2> SUFFICES ASSUME NEW j \in DOMAIN c
               PROVE  /\ c[j][2] > 1 => j > 1 /\ Follows(c[j], c[j - 1])
                      /\ c[j][2] < c[j][3] =>
                           IF j = Len(c) THEN more ELSE Follows(c[j + 1], c[j])
    BY DEF Unbroken
  <2>1. CASE j \in 1 .. n
    BY <1>2, <1>5, <2>1
  <2>2. CASE j = n + 1
    BY <1>1, <1>3, <1>5, <2>2
  <2> QED BY <1>4, <2>1, <2>2
<1> QED BY <1>6 DEF c

\* What is discarded of an open NAL unit is not what lies before it.
LEMMA SamePrefix ==
  ASSUME NEW b \in Seq(Piece), NEW ps \in Seq(Piece), NEW m \in Nat, m <= Len(b)
  PROVE  SubSeq(b \o ps, 1, m) = SubSeq(b, 1, m)
<1> DEFINE c == b \o ps
<1>1. /\ c \in Seq(Piece) /\ Len(c) = Len(b) + Len(ps) /\ Len(b) \in Nat /\ Len(ps) \in Nat
      /\ \A j \in 1 .. Len(b) : c[j] = b[j]
  BY Joined
<1> HIDE DEF c, Piece
<1>2. SubSeq(c, 1, m) = SubSeq(b, 1, m)
  BY <1>1
<1> QED BY <1>2 DEF c

LEMMA NothingUnbroken == Unbroken(<<>>, FALSE)
  BY DEF Unbroken

(***************************************************************************)
(* The helpers of Push                                                     *)
(***************************************************************************)

FuInside(d) == d.fuOpen => d.fuStart <= Len(d.buf)

\* The buffer without the NAL unit that is open.
Settled(d) == IF d.fuOpen THEN SubSeq(d.buf, 1, d.fuStart) ELSE d.buf

CloseFu(d) == IF d.fuOpen THEN DropOpenFu(d) ELSE d

LEMMA SettledUnbroken ==
  ASSUME NEW d \in Fields, NEW p, BufferUnbroken(d, p), ~d.damaged
  PROVE  Unbroken(Settled(d), FALSE)
  BY DEF BufferUnbroken, Settled

LEMMA SettledType ==
  ASSUME NEW d \in Fields, FuInside(d)
  PROVE  Settled(d) \in Seq(Piece)
<1> HIDE DEF Piece
<1>1. d.buf \in Seq(Piece) /\ d.fuStart \in Nat /\ d.fuOpen \in BOOLEAN
  BY DEF Fields
<1>2. CASE d.fuOpen
  <2>1. SubSeq(d.buf, 1, d.fuStart) \in Seq(Piece)
    BY <1>1, <1>2 DEF FuInside
  <2> QED BY <1>2, <2>1 DEF Settled
<1> QED BY <1>1, <1>2 DEF Settled

LEMMA FuClosed ==
  ASSUME NEW d \in Fields, FuInside(d), NEW c, c = CloseFu(d)
  PROVE  /\ c \in Fields /\ ~c.fuOpen /\ c.buf = Settled(d)
         /\ c.lostFrag = IF d.fuOpen THEN d.lostFrag + 1 ELSE d.lostFrag
         /\ ~d.fuOpen => c = d
         /\ c.haveSeq = d.haveSeq /\ c.lastSeq = d.lastSeq /\ c.haveTs = d.haveTs
         /\ c.ts = d.ts /\ c.packets = d.packets /\ c.lost = d.lost
         /\ c.damaged = d.damaged /\ c.orphan = d.orphan /\ c.gap = d.gap
         /\ c.cur = d.cur /\ c.late = d.late /\ c.resets = d.resets
         /\ c.out = d.out /\ c.told = d.told /\ c.fuStart = d.fuStart
<1> HIDE DEF Piece, Event
<1>1. Settled(d) \in Seq(Piece) /\ d.fuOpen \in BOOLEAN /\ d.lostFrag + 1 \in Nat
  BY SettledType DEF Fields
<1>2. CASE d.fuOpen
  <2>1. c = [d EXCEPT !.fuOpen = FALSE, !.lostFrag = d.lostFrag + 1, !.buf = Settled(d)]
    BY <1>2 DEF CloseFu, DropOpenFu, Settled
  <2> HIDE DEF Settled
  <2> QED BY <1>1, <1>2, <2>1 DEF Fields
<1>3. CASE ~d.fuOpen
  <2>1. c = d
    BY <1>3 DEF CloseFu
  <2> QED BY <1>3, <2>1 DEF Settled
<1> QED BY <1>2, <1>3

\* Emit reports an AU of which a packet came, with what it has of it.
LEMMA EmitReports ==
  ASSUME NEW d \in Fields, FuInside(d), d.packets > 0, NEW byMarker \in BOOLEAN,
         NEW e, e = Emit(d, byMarker)
  PROVE  /\ e \in Fields /\ ~e.fuOpen
         /\ e.haveSeq = d.haveSeq /\ e.lastSeq = d.lastSeq /\ e.haveTs = d.haveTs
         /\ e.ts = d.ts /\ e.gap = d.gap /\ e.resets = d.resets
         /\ e.told = d.told + d.packets + d.lost
         /\ \E ev \in Event :
              /\ e.out = Append(d.out, ev) /\ ev.ts = d.ts
              /\ ev.buf = Settled(d) /\ ev.damaged = d.damaged
              /\ ev.complete => byMarker /\ Intact(d) /\ ~d.fuOpen
<1> HIDE DEF Piece, Event
<1> DEFINE c == CloseFu(d)
           ev == [complete |-> /\ byMarker /\ c.lost = 0 /\ c.lostFrag = 0
                               /\ ~c.damaged /\ c.buf # <<>>,
                  ts |-> c.ts, buf |-> c.buf, packets |-> c.packets, lost |-> c.lost,
                  damaged |-> c.damaged, buffer |-> c.cur]
           out == Append(c.out, ev)
           cur == (c.cur + 1) % kBuffers
<1>1. /\ c \in Fields /\ ~c.fuOpen /\ c.buf = Settled(d)
      /\ c.lostFrag = IF d.fuOpen THEN d.lostFrag + 1 ELSE d.lostFrag
      /\ c.haveSeq = d.haveSeq /\ c.lastSeq = d.lastSeq /\ c.haveTs = d.haveTs
      /\ c.ts = d.ts /\ c.packets = d.packets /\ c.lost = d.lost
      /\ c.damaged = d.damaged /\ c.gap = d.gap /\ c.resets = d.resets
      /\ c.out = d.out /\ c.told = d.told
  BY FuClosed
<1>2. e = [c EXCEPT !.out = out, !.cur = cur, !.buf = <<>>,
                    !.told = c.told + c.packets + c.lost]
  <2>1. ~(c.buf = <<>> /\ c.packets = 0 /\ c.lost = 0)
    BY <1>1
  <2>2. e = IF c.buf = <<>> /\ c.packets = 0 /\ c.lost = 0 THEN c
            ELSE [c EXCEPT !.out = Append(@, ev), !.cur = (@ + 1) % kBuffers, !.buf = <<>>,
                           !.told = @ + c.packets + c.lost]
    BY DEF Emit, CloseFu
  <2> HIDE DEF c
  <2> QED BY <2>1, <2>2
<1> HIDE DEF c
<1>3. ev \in Event
  <2>1. ev.complete \in BOOLEAN
    OBVIOUS
  <2> HIDE DEF Piece
  <2> QED BY <1>1, <2>1 DEF Event, Fields
<1>4. ev.complete => byMarker /\ Intact(d) /\ ~d.fuOpen
  BY <1>1 DEF Intact, Fields
<1>5. ev.ts = d.ts /\ ev.buf = Settled(d) /\ ev.damaged = d.damaged
  BY <1>1
<1> HIDE DEF ev
<1>6. out \in Seq(Event) /\ cur \in Nat /\ <<>> \in Seq(Piece)
      /\ c.told + c.packets + c.lost \in Nat
  <2>1. c.out \in Seq(Event) /\ c.cur \in Nat /\ kBuffers \in Nat \ {0}
        /\ c.told \in Nat /\ c.packets \in Nat /\ c.lost \in Nat
    BY <1>1, DepackAssumption DEF Fields
  <2> QED BY <1>3, <2>1
<1> HIDE DEF cur
<1>7. e \in Fields /\ e.out = out /\ e.told = c.told + c.packets + c.lost /\ ~e.fuOpen
      /\ e.haveSeq = c.haveSeq /\ e.lastSeq = c.lastSeq /\ e.haveTs = c.haveTs
      /\ e.ts = c.ts /\ e.gap = c.gap /\ e.resets = c.resets
  <2> HIDE DEF out
  <2> QED BY <1>1, <1>2, <1>6 DEF Fields
<1> QED BY <1>1, <1>3, <1>4, <1>5, <1>7

\* An AU that was just opened.
NewAu(d, ts) ==
  /\ d.haveTs /\ d.ts = ts /\ d.buf = <<>> /\ d.packets = 0 /\ d.lost = 0
  /\ d.lostFrag = 0 /\ ~d.damaged /\ ~d.fuOpen /\ ~d.orphan

SameSeq(e, d) ==
  /\ e.haveSeq = d.haveSeq /\ e.lastSeq = d.lastSeq /\ e.gap = d.gap
  /\ e.resets = d.resets /\ e.out = d.out /\ e.told = d.told

LEMMA ResetOpens ==
  ASSUME NEW d \in Fields, NEW t \in Nat, NEW e, e = Reset(d, t)
  PROVE  e \in Fields /\ NewAu(e, t) /\ SameSeq(e, d)
<1> HIDE DEF Piece, Event
<1>1. <<>> \in Seq(Piece) /\ 0 \in Nat
  OBVIOUS
<1> QED BY <1>1 DEF Reset, NewAu, SameSeq, Fields

LEMMA EmitCuts ==
  ASSUME NEW d \in Fields, FuInside(d), d.packets > 0, NEW e, e = Emit(d, FALSE)
  PROVE  /\ e \in Fields /\ ~e.fuOpen
         /\ e.haveSeq = d.haveSeq /\ e.lastSeq = d.lastSeq
         /\ e.gap = d.gap /\ e.resets = d.resets
         /\ e.told = d.told + d.packets + d.lost
         /\ \E ev \in Event :
              /\ e.out = Append(d.out, ev) /\ ev.ts = d.ts
              /\ ev.buf = Settled(d) /\ ev.damaged = d.damaged /\ ~ev.complete
<1> DEFINE byMarker == FALSE
<1>1. byMarker \in BOOLEAN /\ ~byMarker /\ e = Emit(d, byMarker)
  OBVIOUS
<1> HIDE DEF byMarker
<1>2. /\ e \in Fields /\ ~e.fuOpen
      /\ e.haveSeq = d.haveSeq /\ e.lastSeq = d.lastSeq /\ e.haveTs = d.haveTs
      /\ e.ts = d.ts /\ e.gap = d.gap /\ e.resets = d.resets
      /\ e.told = d.told + d.packets + d.lost
      /\ \E ev \in Event :
           /\ e.out = Append(d.out, ev) /\ ev.ts = d.ts
           /\ ev.buf = Settled(d) /\ ev.damaged = d.damaged
           /\ ev.complete => byMarker /\ Intact(d) /\ ~d.fuOpen
  <2> HIDE DEF Fields
  <2> QED BY <1>1, EmitReports, ZenonT(60)
<1> QED BY <1>1, <1>2

\* A reset of the sequence leaves no AU and no gap.
LEMMA SeqReset ==
  ASSUME NEW e \in Fields, NEW r,
         r = [e EXCEPT !.haveTs = FALSE, !.gap = 0, !.resets = @ + 1]
  PROVE  /\ r \in Fields /\ ~r.haveTs /\ r.gap = 0 /\ r.resets = e.resets + 1
         /\ r.haveSeq = e.haveSeq /\ r.lastSeq = e.lastSeq /\ r.out = e.out
         /\ r.told = e.told
<1> HIDE DEF Piece, Event
<1> DEFINE more == e.resets + 1
<1>1. more \in Nat /\ r = [e EXCEPT !.haveTs = FALSE, !.gap = 0, !.resets = more]
  BY DEF Fields
<1>2. more = e.resets + 1
  OBVIOUS
<1> HIDE DEF more
<1>3. /\ r \in Fields /\ ~r.haveTs /\ r.gap = 0 /\ r.resets = more
      /\ r.haveSeq = e.haveSeq /\ r.lastSeq = e.lastSeq /\ r.out = e.out
      /\ r.told = e.told
  <2>1. 0 \in Nat /\ FALSE \in BOOLEAN
    OBVIOUS
  <2>2. r \in Fields
    BY <1>1, <2>1 DEF Fields
  <2>3. ~r.haveTs /\ r.gap = 0 /\ r.resets = more
    BY <1>1 DEF Fields
  <2>4. r.haveSeq = e.haveSeq /\ r.lastSeq = e.lastSeq
    BY <1>1 DEF Fields
  <2>5. r.out = e.out /\ r.told = e.told
    BY <1>1 DEF Fields
  <2> QED BY <2>2, <2>3, <2>4, <2>5
<1> QED BY <1>2, <1>3

LEMMA WireSeqType == ASSUME DepackTypes, NEW k \in Nat PROVE WireSeq(k) \in Nat
<1>1. base \in Int /\ Modulus \in Nat \ {0}
  BY ModulusPositive, DepackAssumption DEF DepackTypes
<1> QED BY <1>1 DEF WireSeq

LEMMA PacketType ==
  ASSUME NEW k \in DOMAIN Stream
  PROVE  /\ Stream[k] \in Packet /\ Stream[k].ts \in Nat /\ k \in Nat /\ k > 0
         /\ Stream[k].pieces \in Seq(Piece) /\ Stream[k].pieces # <<>>
         /\ Stream[k].fu \in BOOLEAN /\ Stream[k].s \in BOOLEAN /\ Stream[k].e \in BOOLEAN
         /\ Stream[k].marker \in BOOLEAN /\ Stream[k].bad \in BOOLEAN
<1> HIDE DEF Piece
<1>1. Stream \in Seq(Packet) /\ Stream[k].pieces # <<>>
  BY StreamAssumption
<1>2. Stream[k] \in Packet /\ k \in Nat /\ k > 0
  <2> HIDE DEF Packet
  <2> QED BY <1>1
<1> QED BY <1>1, <1>2 DEF Packet

\* The open AU goes on ...
GoesOn(d, k) ==
  /\ dp.haveSeq /\ dp.haveTs /\ dp.ts = Stream[k].ts /\ k = at + 1 + d.gap
  /\ d.haveTs /\ d.ts = dp.ts /\ d.buf = dp.buf /\ d.packets = dp.packets
  /\ d.lost = dp.lost /\ d.lostFrag = dp.lostFrag /\ d.damaged = dp.damaged
  /\ d.fuOpen = dp.fuOpen /\ d.fuStart = dp.fuStart /\ d.orphan = dp.orphan
  /\ d.out = <<>> /\ d.told = dp.told /\ d.resets = dp.resets

\* ... or there was none, and one is opened ...
Opens(d, k) ==
  /\ ~dp.haveTs /\ NewAu(d, Stream[k].ts) /\ d.out = <<>> /\ d.told = dp.told
  /\ \/ ~dp.haveSeq /\ d.gap = 0 /\ d.resets = dp.resets
     \/ dp.haveSeq /\ k = at + 1 + d.gap /\ d.resets = dp.resets
     \/ dp.haveSeq /\ d.gap = 0 /\ d.resets = dp.resets + 1

\* ... or the open one is reported as it is, and another one is opened.
Cuts(d, k) ==
  /\ dp.haveSeq /\ dp.haveTs /\ NewAu(d, Stream[k].ts) /\ d.gap = 0
  /\ \E ev \in Event : /\ d.out = <<ev>> /\ ev.ts = dp.ts /\ ~ev.complete
                       /\ ev.buf = Settled(dp) /\ ev.damaged = dp.damaged
  /\ \/ /\ d.resets = dp.resets /\ k > at /\ dp.ts # Stream[k].ts
        /\ d.told = dp.told + dp.packets + dp.lost + (k - at - 1)
     \/ d.resets = dp.resets + 1

LEMMA AuOpened ==
  ASSUME DepackTypes, SeqTells, OpenUntilMarker, NEW k \in DOMAIN Stream,
         k > newest - Window, newest > 0 => k <= newest + Ahead,
         ~IsLate(dp, WireSeq(k)),
         NEW d, d = OpenAu(TakeSeq(dp, WireSeq(k)), Stream[k].ts)
  PROVE  /\ d \in Fields /\ FuInside(d) /\ d.haveSeq /\ d.lastSeq = WireSeq(k)
         /\ GoesOn(d, k) \/ Opens(d, k) \/ Cuts(d, k)
<1> HIDE DEF Piece, Event
<1> DEFINE seq == WireSeq(k)
           t == Stream[k].ts
           n == [dp EXCEPT !.haveSeq = TRUE, !.lastSeq = seq, !.out = <<>>]
           g == Step(dp, seq) - 1
           m == [n EXCEPT !.gap = g]
           r == TakeSeq(dp, seq)
<1>0. /\ seq \in Nat /\ t \in Nat /\ dp \in Fields /\ FuInside(dp) /\ d = OpenAu(r, t)
      /\ dp.haveSeq \in BOOLEAN /\ dp.haveTs \in BOOLEAN
  <2>1. k \in Nat /\ t \in Nat
    BY PacketType
  <2>2. dp \in Fields /\ FuInside(dp)
    BY DEF DepackTypes, FuInside
  <2> QED BY <2>1, <2>2, WireSeqType DEF Fields
<1>1. n \in Fields /\ n.haveSeq /\ n.lastSeq = seq /\ n.out = <<>>
      /\ n.gap = dp.gap /\ n.resets = dp.resets /\ n.told = dp.told
      /\ n.haveTs = dp.haveTs /\ n.ts = dp.ts /\ n.buf = dp.buf
      /\ n.packets = dp.packets /\ n.lost = dp.lost /\ n.lostFrag = dp.lostFrag
      /\ n.damaged = dp.damaged /\ n.fuOpen = dp.fuOpen /\ n.fuStart = dp.fuStart
      /\ n.orphan = dp.orphan
  <2>1. <<>> \in Seq(Event)
    OBVIOUS
  <2> HIDE DEF seq
  <2> QED BY <1>0, <2>1 DEF Fields
<1>2. r = IF ~dp.haveSeq THEN n
          ELSE IF IsProgress(dp, seq) THEN m
          ELSE [(IF dp.haveTs THEN Emit(n, FALSE) ELSE n) EXCEPT
                  !.haveTs = FALSE, !.gap = 0, !.resets = @ + 1]
  BY DEF TakeSeq
<1>3. IsProgress(dp, seq) => dp.haveSeq /\ g \in Nat /\ k = at + 1 + g
  BY StepTells DEF IsProgress
<1>4. dp.haveSeq => dp.gap = 0 /\ at \in Nat /\ (dp.haveTs => dp.packets > 0)
  BY DEF OpenUntilMarker, DepackTypes
<1>5. ~dp.haveSeq => ~dp.haveTs /\ dp.gap = 0
  BY DEF SeqTells, Fresh
<1>6. k \in Nat
  BY PacketType
<1> HIDE DEF seq, t, g, n, r
<1>7. CASE ~dp.haveSeq
  <2>1. r = n /\ ~n.haveTs
    BY <1>1, <1>2, <1>5, <1>7
  <2>2. d = Reset(n, t)
    BY <1>0, <2>1 DEF OpenAu
  <2>3. d \in Fields /\ NewAu(d, t) /\ SameSeq(d, n)
    BY <1>0, <1>1, <2>2, ResetOpens
  <2>4. Opens(d, k)
    BY <1>1, <1>5, <1>7, <2>3 DEF Opens, SameSeq, t
  <2> QED BY <1>1, <2>3, <2>4 DEF NewAu, FuInside, SameSeq, seq
<1>8. CASE IsProgress(dp, seq)
  <2>1. dp.haveSeq /\ g \in Nat /\ k = at + 1 + g /\ r = m
    BY <1>2, <1>3, <1>8
  <2>2. m \in Fields /\ m.haveSeq /\ m.lastSeq = seq /\ m.out = <<>>
        /\ m.gap = g /\ m.resets = dp.resets /\ m.told = dp.told
        /\ m.haveTs = dp.haveTs /\ m.ts = dp.ts /\ m.buf = dp.buf
        /\ m.packets = dp.packets /\ m.lost = dp.lost /\ m.lostFrag = dp.lostFrag
        /\ m.damaged = dp.damaged /\ m.fuOpen = dp.fuOpen /\ m.fuStart = dp.fuStart
        /\ m.orphan = dp.orphan
    BY <1>1, <2>1 DEF Fields
  <2> HIDE DEF m
  <2>3. CASE dp.haveTs /\ t = dp.ts
    <3>1. d = m
      BY <1>0, <2>1, <2>2, <2>3 DEF OpenAu
    <3>2. GoesOn(d, k)
      BY <2>1, <2>2, <2>3, <3>1 DEF GoesOn, t
    <3> QED BY <1>0, <2>2, <3>1, <3>2 DEF FuInside, seq
  <2>4. CASE dp.haveTs /\ t # dp.ts
    <3> DEFINE l == [m EXCEPT !.lost = m.lost + m.gap, !.gap = 0]
               e == Emit(l, FALSE)
    <3>1. d = Reset(e, t)
      BY <1>0, <2>1, <2>2, <2>4 DEF OpenAu
    <3>2. l \in Fields /\ l.haveSeq /\ l.lastSeq = seq /\ l.out = <<>>
          /\ l.gap = 0 /\ l.resets = dp.resets /\ l.told = dp.told
          /\ l.ts = dp.ts /\ l.buf = dp.buf
          /\ l.packets = dp.packets /\ l.lost = dp.lost + g
          /\ l.damaged = dp.damaged /\ l.fuOpen = dp.fuOpen /\ l.fuStart = dp.fuStart
      <4>1. m.lost + m.gap \in Nat
        BY <2>2 DEF Fields
      <4> QED BY <2>2, <4>1 DEF Fields
    <3>3. FuInside(l) /\ l.packets > 0 /\ Settled(l) = Settled(dp)
      BY <1>0, <1>4, <2>1, <2>4, <3>2 DEF FuInside, Settled
    <3> HIDE DEF l
    <3>4. /\ e \in Fields /\ ~e.fuOpen
          /\ e.haveSeq = l.haveSeq /\ e.lastSeq = l.lastSeq
          /\ e.gap = l.gap /\ e.resets = l.resets
          /\ e.told = l.told + l.packets + l.lost
          /\ \E ev \in Event :
              /\ e.out = Append(l.out, ev) /\ ev.ts = l.ts
              /\ ev.buf = Settled(l) /\ ev.damaged = l.damaged /\ ~ev.complete
      BY <3>2, <3>3, EmitCuts
    <3> HIDE DEF e
    <3>5. d \in Fields /\ NewAu(d, t) /\ SameSeq(d, e)
      BY <1>0, <3>1, <3>4, ResetOpens
    <3>6. PICK ev \in Event :
              /\ e.out = Append(l.out, ev) /\ ev.ts = l.ts
              /\ ev.buf = Settled(l) /\ ev.damaged = l.damaged /\ ~ev.complete
      BY <3>4
    <3>7. e.out = <<ev>>
      BY <3>2, <3>6
    <3>8. d.told = dp.told + dp.packets + dp.lost + (k - at - 1) /\ k > at
      <4>1. dp.told \in Nat /\ dp.packets \in Nat /\ dp.lost \in Nat /\ at \in Nat
        BY <1>0, <1>4, <2>1 DEF Fields
      <4> QED BY <2>1, <3>2, <3>4, <3>5, <4>1 DEF SameSeq
    <3>9. Cuts(d, k)
      BY <2>1, <2>4, <3>2, <3>3, <3>4, <3>5, <3>6, <3>7, <3>8 DEF Cuts, SameSeq, t
    <3> QED BY <3>2, <3>4, <3>5, <3>9 DEF NewAu, FuInside, SameSeq, seq
  <2>5. CASE ~dp.haveTs
    <3>1. d = Reset(m, t)
      BY <1>0, <2>1, <2>2, <2>5 DEF OpenAu
    <3>2. d \in Fields /\ NewAu(d, t) /\ SameSeq(d, m)
      BY <1>0, <2>2, <3>1, ResetOpens
    <3>3. Opens(d, k)
      BY <2>1, <2>2, <2>5, <3>2 DEF Opens, SameSeq, t
    <3> QED BY <2>2, <3>2, <3>3 DEF NewAu, FuInside, SameSeq, seq
  <2> QED BY <1>0, <2>3, <2>4, <2>5
<1>9. CASE dp.haveSeq /\ ~IsProgress(dp, seq)
  <2> DEFINE e == IF dp.haveTs THEN Emit(n, FALSE) ELSE n
  <2>1. r = [e EXCEPT !.haveTs = FALSE, !.gap = 0, !.resets = @ + 1]
    BY <1>2, <1>9
  <2>2. CASE dp.haveTs
    <3>1. FuInside(n) /\ n.packets > 0 /\ Settled(n) = Settled(dp) /\ e = Emit(n, FALSE)
      BY <1>0, <1>1, <1>4, <1>9, <2>2 DEF FuInside, Settled
    <3>2. /\ e \in Fields /\ e.haveSeq = n.haveSeq /\ e.lastSeq = n.lastSeq
          /\ e.resets = n.resets
          /\ \E ev \in Event :
              /\ e.out = Append(n.out, ev) /\ ev.ts = n.ts
              /\ ev.buf = Settled(n) /\ ev.damaged = n.damaged /\ ~ev.complete
      BY <1>1, <3>1, EmitCuts
    <3> HIDE DEF e
    <3>3. r \in Fields /\ ~r.haveTs /\ r.gap = 0 /\ r.resets = e.resets + 1
          /\ r.haveSeq = e.haveSeq /\ r.lastSeq = e.lastSeq /\ r.out = e.out
      BY <2>1, <3>2, SeqReset
    <3>4. d = Reset(r, t)
      BY <1>0, <3>3 DEF OpenAu
    <3>5. d \in Fields /\ NewAu(d, t) /\ SameSeq(d, r)
      BY <1>0, <3>3, <3>4, ResetOpens
    <3>6. PICK ev \in Event :
              /\ e.out = Append(n.out, ev) /\ ev.ts = n.ts
              /\ ev.buf = Settled(n) /\ ev.damaged = n.damaged /\ ~ev.complete
      BY <3>2
    <3>7. e.out = <<ev>>
      BY <1>1, <3>6
    <3>8. Cuts(d, k)
      BY <1>1, <1>9, <2>2, <3>1, <3>2, <3>3, <3>5, <3>6, <3>7 DEF Cuts, SameSeq, t
    <3> QED BY <1>1, <3>2, <3>3, <3>5, <3>8 DEF NewAu, FuInside, SameSeq, seq
  <2>3. CASE ~dp.haveTs
    <3>1. e = n
      BY <2>3
    <3> HIDE DEF e
    <3>3. r \in Fields /\ ~r.haveTs /\ r.gap = 0 /\ r.resets = n.resets + 1
          /\ r.haveSeq = n.haveSeq /\ r.lastSeq = n.lastSeq /\ r.out = n.out
          /\ r.told = n.told
      BY <1>1, <2>1, <3>1, SeqReset
    <3>4. d = Reset(r, t)
      BY <1>0, <3>3 DEF OpenAu
    <3>5. d \in Fields /\ NewAu(d, t) /\ SameSeq(d, r)
      BY <1>0, <3>3, <3>4, ResetOpens
    <3>8. Opens(d, k)
      BY <1>1, <1>9, <2>3, <3>3, <3>5 DEF Opens, SameSeq, t
    <3> QED BY <1>1, <3>3, <3>5, <3>8 DEF NewAu, FuInside, SameSeq, seq
  <2> QED BY <1>0, <2>2, <2>3
<1> QED BY <1>3, <1>7, <1>8, <1>9


\* Fields a step leaves alone.
SameAu(e, d) ==
  /\ e.haveSeq = d.haveSeq /\ e.lastSeq = d.lastSeq /\ e.haveTs = d.haveTs
  /\ e.ts = d.ts /\ e.resets = d.resets /\ e.out = d.out /\ e.told = d.told

\* Counting a packet settles the gap before it.
LEMMA Counted ==
  ASSUME NEW d \in Fields, FuInside(d), Len(d.buf) <= Cap, NEW p \in Int, NEW k \in Int,
         p = k - 1 - d.gap, BufferUnbroken(d, p), NEW c, c = CountPacket(d)
  PROVE  /\ c \in Fields /\ FuInside(c) /\ Len(c.buf) <= Cap /\ SameAu(c, d)
         /\ c.gap = 0 /\ c.packets = d.packets + 1 /\ c.lost = d.lost + d.gap
         /\ BufferUnbroken(c, k - 1)
         /\ c.fuOpen => d.fuOpen /\ d.gap = 0
         /\ Intact(c) => d.gap = 0 /\ Intact(d) /\ c.buf = d.buf /\ c.orphan = d.orphan
<1> HIDE DEF Piece, Event
<1> DEFINE lost == d.lost + d.gap
           packets == d.packets + 1
           f == CloseFu(d)
<1>1. /\ lost \in Nat /\ packets \in Nat /\ d.gap \in Nat /\ d.lost \in Nat
      /\ d.fuOpen \in BOOLEAN /\ 0 \in Nat /\ TRUE \in BOOLEAN
      /\ lost = d.lost + d.gap /\ packets = d.packets + 1
  <2>1. d.gap \in Nat /\ d.lost \in Nat /\ d.packets \in Nat /\ d.fuOpen \in BOOLEAN
    BY DEF Fields
  <2> QED BY <2>1
<1>2. CASE d.gap > 0 /\ d.fuOpen
  <2>1. c = [f EXCEPT !.orphan = TRUE, !.lost = lost, !.gap = 0, !.packets = packets]
    <3>1. f = DropOpenFu(d)
      BY <1>2 DEF CloseFu
    <3>2. DropOpenFu(d).lost = d.lost /\ DropOpenFu(d).packets = d.packets
      BY DEF DropOpenFu, Fields
    <3> QED BY <1>2, <3>1, <3>2 DEF CountPacket, DropOpenFu, Fields
  <2>2. /\ f \in Fields /\ ~f.fuOpen /\ f.buf = Settled(d)
        /\ f.haveSeq = d.haveSeq /\ f.lastSeq = d.lastSeq /\ f.haveTs = d.haveTs
        /\ f.ts = d.ts /\ f.damaged = d.damaged /\ f.resets = d.resets
        /\ f.out = d.out /\ f.told = d.told
    BY FuClosed
  <2>3. Settled(d) = SubSeq(d.buf, 1, d.fuStart) /\ Len(Settled(d)) = d.fuStart
        /\ d.fuStart <= Len(d.buf) /\ Len(d.buf) \in Nat /\ d.fuStart \in Nat
    <3>1. d.buf \in Seq(Piece) /\ d.fuStart \in Nat /\ d.fuStart <= Len(d.buf)
      BY <1>2 DEF Fields, FuInside
    <3> QED BY <1>2, <3>1 DEF Settled
  <2> HIDE DEF f, lost, packets
  <2>4. c \in Fields
    BY <1>1, <2>1, <2>2 DEF Fields
  <2>5. /\ SameAu(c, f) /\ c.gap = 0 /\ c.lost = lost /\ c.packets = packets
        /\ c.buf = f.buf /\ c.damaged = f.damaged /\ c.fuOpen = f.fuOpen
    BY <2>1, <2>2 DEF Fields, SameAu
  <2>6. Len(c.buf) <= Cap /\ Cap \in Nat
    BY <2>2, <2>3, <2>5, DepackAssumption
  <2>7. ~c.damaged => Unbroken(c.buf, FALSE)
    BY <2>2, <2>5, SettledUnbroken
  <2>8. ~Intact(c)
    BY <1>1, <1>2, <2>5 DEF Intact
  <2> QED BY <1>1, <2>2, <2>4, <2>5, <2>6, <2>7, <2>8 DEF SameAu, FuInside, BufferUnbroken
<1>3. CASE ~(d.gap > 0 /\ d.fuOpen)
  <2>1. c = [d EXCEPT !.lost = lost, !.gap = 0, !.packets = packets]
    BY <1>3 DEF CountPacket
  <2> HIDE DEF lost, packets
  <2>2. c \in Fields
    BY <1>1, <2>1 DEF Fields
  <2>3. /\ SameAu(c, d) /\ c.gap = 0 /\ c.lost = lost /\ c.packets = packets
        /\ c.buf = d.buf /\ c.damaged = d.damaged /\ c.fuOpen = d.fuOpen
        /\ c.fuStart = d.fuStart /\ c.orphan = d.orphan /\ c.lostFrag = d.lostFrag
    BY <2>1 DEF Fields, SameAu
  <2>4. d.fuOpen => d.gap = 0 /\ p = k - 1
    BY <1>1, <1>3
  <2>5. BufferUnbroken(c, k - 1)
    BY <2>3, <2>4 DEF BufferUnbroken
  <2>6. FuInside(c)
    BY <2>3 DEF FuInside
  <2>7. Intact(c) => d.gap = 0 /\ Intact(d)
    BY <1>1, <2>3 DEF Intact
  <2> QED BY <1>1, <2>2, <2>3, <2>4, <2>5, <2>6, <2>7
<1> QED BY <1>2, <1>3


\* What fits is appended as it is, otherwise the AU is damaged.
LEMMA Appended ==
  ASSUME NEW d \in Fields, Len(d.buf) <= Cap, NEW ps \in Seq(Piece),
         NEW a, a = AppendPieces(d, ps)
  PROVE  /\ a \in Fields /\ Len(a.buf) <= Cap /\ Len(d.buf) <= Len(a.buf)
         /\ ~a.damaged => ~d.damaged /\ a.buf = d.buf \o ps
         /\ SameAu(a, d) /\ a.gap = d.gap /\ a.packets = d.packets /\ a.lost = d.lost
         /\ a.lostFrag = d.lostFrag /\ a.fuOpen = d.fuOpen /\ a.fuStart = d.fuStart
         /\ a.orphan = d.orphan /\ a.cur = d.cur /\ a.late = d.late
<1> HIDE DEF Piece, Event
<1> DEFINE all == d.buf \o ps
           buf == IF Len(all) <= Cap THEN all ELSE SubSeq(all, 1, Cap)
           damaged == d.damaged \/ Len(all) > Cap
<1>1. /\ all \in Seq(Piece) /\ Len(all) = Len(d.buf) + Len(ps)
      /\ Len(d.buf) \in Nat /\ Len(ps) \in Nat /\ Cap \in Nat
  <2>1. d.buf \in Seq(Piece)
    BY DEF Fields
  <2> QED BY <2>1, Joined, DepackAssumption
<1>2. damaged \in BOOLEAN /\ a = [d EXCEPT !.buf = buf, !.damaged = damaged]
  BY DEF AppendPieces, Fields
<1> HIDE DEF all
<1>3. /\ buf \in Seq(Piece) /\ Len(buf) <= Cap /\ Len(d.buf) <= Len(buf)
      /\ ~damaged => ~d.damaged /\ buf = all
  <2>1. CASE Len(all) <= Cap
    BY <1>1, <2>1
  <2>2. CASE Len(all) > Cap
    <3>1. SubSeq(all, 1, Cap) \in Seq(Piece) /\ Len(SubSeq(all, 1, Cap)) = Cap
      BY <1>1, <2>2
    <3> QED BY <1>1, <2>2, <3>1
  <2> QED BY <1>1, <2>1, <2>2
<1> HIDE DEF buf, damaged
<1>4. a \in Fields
  BY <1>2, <1>3 DEF Fields
<1>5. /\ a.buf = buf /\ a.damaged = damaged
      /\ SameAu(a, d) /\ a.gap = d.gap /\ a.packets = d.packets /\ a.lost = d.lost
      /\ a.lostFrag = d.lostFrag /\ a.fuOpen = d.fuOpen /\ a.fuStart = d.fuStart
      /\ a.orphan = d.orphan /\ a.cur = d.cur /\ a.late = d.late
  BY <1>2 DEF Fields, SameAu
<1> QED BY <1>3, <1>4, <1>5 DEF all

\* The counters and the numbering, which assembling leaves alone.
SameCount(e, d) ==
  SameAu(e, d) /\ e.gap = d.gap /\ e.packets = d.packets /\ e.lost = d.lost

\* Whole NAL units are added to whole ones.
LEMMA NalsTaken ==
  ASSUME NEW c \in Fields, FuInside(c), Len(c.buf) <= Cap, NEW k \in DOMAIN Stream,
         ~Stream[k].fu, BufferUnbroken(c, k - 1), c.fuOpen => k - 1 \in DOMAIN Stream,
         NEW t, t = TakeNals(c, Stream[k])
  PROVE  /\ t \in Fields /\ FuInside(t) /\ Len(t.buf) <= Cap /\ SameCount(t, c)
         /\ BufferUnbroken(t, k)
         /\ Intact(t) => Intact(c) /\ ~t.orphan /\ t.buf = c.buf \o Stream[k].pieces
<1> HIDE DEF Piece, Event
<1> DEFINE h == Stream[k]
           a == AppendPieces(c, h.pieces)
           damaged == a.damaged \/ h.bad
<1>1. /\ h.pieces \in Seq(Piece) /\ h.bad \in BOOLEAN /\ k \in Nat
      /\ \A i \in DOMAIN h.pieces : h.pieces[i][2] = 1 /\ h.pieces[i][3] = 1
  BY PacketType, StreamAssumption
<1>2. /\ a \in Fields /\ Len(a.buf) <= Cap /\ Len(c.buf) <= Len(a.buf)
      /\ ~a.damaged => ~c.damaged /\ a.buf = c.buf \o h.pieces
      /\ SameAu(a, c) /\ a.gap = c.gap /\ a.packets = c.packets /\ a.lost = c.lost
      /\ a.lostFrag = c.lostFrag /\ a.fuOpen = c.fuOpen /\ a.fuStart = c.fuStart
  BY <1>1, Appended
<1>3. t = [a EXCEPT !.orphan = FALSE, !.damaged = damaged] /\ damaged \in BOOLEAN
  <2>1. a.damaged \in BOOLEAN
    BY <1>2 DEF Fields
  <2> QED BY <2>1, <1>1 DEF TakeNals
<1>4. ~damaged => ~a.damaged
  OBVIOUS
<1> HIDE DEF a, damaged
<1>5. t \in Fields
  BY <1>2, <1>3 DEF Fields
<1>6. /\ SameCount(t, a) /\ ~t.orphan /\ t.damaged = damaged /\ t.buf = a.buf
      /\ t.lostFrag = a.lostFrag /\ t.fuOpen = a.fuOpen /\ t.fuStart = a.fuStart
  BY <1>2, <1>3 DEF Fields, SameCount, SameAu
<1>7. FuInside(t)
  <2>1. /\ c.buf \in Seq(Piece) /\ t.buf \in Seq(Piece)
        /\ c.fuStart \in Nat
    BY <1>5 DEF Fields
  <2>2. Len(c.buf) \in Nat /\ Len(t.buf) \in Nat
    BY <2>1
  <2> QED BY <1>2, <1>6, <2>1, <2>2 DEF FuInside
<1>8. ~t.damaged => ~c.damaged /\ t.buf = c.buf \o h.pieces
  BY <1>2, <1>4, <1>6
<1>9. BufferUnbroken(t, k)
  <2>1. SUFFICES ASSUME ~t.damaged
                 PROVE  ~t.fuOpen /\ Unbroken(t.buf, FALSE)
    BY DEF BufferUnbroken
  <2>2. ~c.fuOpen
    <3>1. SUFFICES ASSUME c.fuOpen PROVE FALSE
      OBVIOUS
    <3>2. k - 1 \in DOMAIN Stream /\ Stream[k - 1].fu /\ ~Stream[k - 1].e
      BY <1>8, <2>1, <3>1 DEF BufferUnbroken
    <3>3. (k - 1) + 1 = k
      BY <1>1
    <3>4. Stream[k].fu
      BY <3>2, <3>3, StreamAssumption
    <3> QED BY <3>4
  <2>3. Unbroken(c.buf, FALSE)
    BY <1>8, <2>1, <2>2 DEF BufferUnbroken
  <2>4. c.buf \in Seq(Piece)
    BY DEF Fields
  <2>5. Unbroken(c.buf \o h.pieces, FALSE)
    <3> HIDE DEF h
    <3> QED BY <1>1, <2>3, <2>4, UnbrokenConcat
  <2> QED BY <1>2, <1>6, <1>8, <2>1, <2>2, <2>5
<1>10. Intact(t) => Intact(c)
  BY <1>2, <1>6, <1>8 DEF Intact, SameCount
<1>11. SameCount(t, c)
  BY <1>2, <1>6 DEF SameCount, SameAu
<1> QED BY <1>2, <1>5, <1>6, <1>7, <1>8, <1>9, <1>10, <1>11 DEF Intact


\* What the stream says of a fragment and of the one after it.
LEMMA FragmentTells ==
  ASSUME NEW k \in DOMAIN Stream, Stream[k].fu
  PROVE  LET piece == Stream[k].pieces[1] IN
         /\ Len(Stream[k].pieces) = 1 /\ piece \in Piece
         /\ 1 <= piece[2] /\ piece[2] <= piece[3]
         /\ Stream[k].s = (piece[2] = 1) /\ Stream[k].e = (piece[2] = piece[3])
         /\ ~Stream[k].e /\ k + 1 \in DOMAIN Stream =>
              Stream[k + 1].fu /\ Follows(Stream[k + 1].pieces[1], piece)
<1>1. Stream[k].pieces \in Seq(Piece) /\ Len(Stream[k].pieces) = 1
  BY PacketType, StreamAssumption
<1> HIDE DEF Piece
<1>2. Stream[k].pieces[1] \in Piece
  BY <1>1
<1> QED BY <1>1, <1>2, StreamAssumption DEF Follows

\* The fields a fragment may change.
SameRest(e, d) ==
  SameCount(e, d) /\ e.damaged = d.damaged /\ e.cur = d.cur /\ e.late = d.late

\* A fragment is kept while the NAL unit it belongs to is open.
LEMMA FragmentTaken ==
  ASSUME NEW c \in Fields, FuInside(c), Len(c.buf) <= Cap, NEW k \in DOMAIN Stream,
         Stream[k].fu, BufferUnbroken(c, k - 1), c.fuOpen => k - 1 \in DOMAIN Stream,
         NEW t, t = TakeFragment(c, Stream[k])
  PROVE  /\ t \in Fields /\ FuInside(t) /\ Len(t.buf) <= Cap /\ SameCount(t, c)
         /\ BufferUnbroken(t, k)
         /\ Intact(t) => Intact(c)
         /\ Intact(t) /\ ~c.orphan => ~t.orphan /\ t.buf = c.buf \o Stream[k].pieces
<1> HIDE DEF Piece, Event
<1> DEFINE h == Stream[k]
           piece == h.pieces[1]
           ps == h.pieces
<1>0. /\ ps \in Seq(Piece) /\ Len(ps) = 1 /\ h.s \in BOOLEAN /\ h.e \in BOOLEAN
      /\ k \in Nat /\ piece[2] \in Nat /\ piece[3] \in Nat
      /\ 1 <= piece[2] /\ piece[2] <= piece[3]
      /\ (h.s <=> piece[2] = 1) /\ (h.e <=> piece[2] = piece[3])
      /\ (~h.e <=> piece[2] < piece[3]) /\ (~h.s <=> piece[2] > 1)
  <2>1. piece \in Piece
    BY FragmentTells
  <2>2. piece[2] \in Nat /\ piece[3] \in Nat
    BY <2>1 DEF Piece
  <2>3. /\ ps \in Seq(Piece) /\ Len(ps) = 1 /\ h.s \in BOOLEAN /\ h.e \in BOOLEAN
        /\ k \in Nat /\ 1 <= piece[2] /\ piece[2] <= piece[3]
        /\ (h.s <=> piece[2] = 1) /\ (h.e <=> piece[2] = piece[3])
    BY PacketType, FragmentTells
  <2> HIDE DEF piece, h, ps
  <2>4. /\ piece[2] < piece[3] <=> ~(piece[2] = piece[3])
        /\ piece[2] > 1 <=> ~(piece[2] = 1)
    BY <2>2, <2>3
  <2> QED BY <2>2, <2>3, <2>4
<1>1. c.buf \in Seq(Piece) /\ Len(c.buf) \in Nat /\ c.fuStart \in Nat
      /\ c.lostFrag \in Nat /\ c.fuOpen \in BOOLEAN
  BY DEF Fields
<1>2. c.fuOpen /\ ~c.damaged =>
        ~h.s /\ Len(c.buf) > 0 /\ Follows(piece, c.buf[Len(c.buf)])
  <2>1. SUFFICES ASSUME c.fuOpen, ~c.damaged
                 PROVE  ~h.s /\ Len(c.buf) > 0 /\ Follows(piece, c.buf[Len(c.buf)])
    OBVIOUS
  <2>2. /\ k - 1 \in DOMAIN Stream /\ Stream[k - 1].fu /\ ~Stream[k - 1].e
        /\ c.fuStart < Len(c.buf) /\ c.buf[Len(c.buf)] = Stream[k - 1].pieces[1]
    BY <2>1 DEF BufferUnbroken
  <2>3. (k - 1) + 1 = k
    BY <1>0
  <2> DEFINE old == Stream[k - 1].pieces[1]
  <2>4. old \in Piece /\ 1 <= old[2] /\ Follows(piece, old)
    BY <2>2, <2>3, FragmentTells
  <2>5. old[1] \in Nat /\ old[2] \in Nat /\ old[3] \in Nat
    BY <2>4 DEF Piece
  <2> HIDE DEF old
  <2>6. piece[2] = old[2] + 1
    BY <2>4 DEF Follows
  <2>7. ~h.s
    <3>1. piece[2] > 1
      <4> HIDE DEF piece
      <4> QED BY <2>4, <2>5, <2>6
    <3> QED BY <1>0, <3>1
  <2> QED BY <1>1, <2>2, <2>4, <2>7 DEF old
<1>3. CASE ~h.s /\ ~c.fuOpen
  <2> DEFINE frag == IF c.orphan THEN c.lostFrag ELSE c.lostFrag + 1
             orphan == ~h.e
  <2>1. frag \in Nat /\ orphan \in BOOLEAN /\ (~c.orphan => frag # 0)
        /\ (c.orphan => frag = c.lostFrag)
    BY <1>0, <1>1
  <2>2. t = [c EXCEPT !.lostFrag = frag, !.orphan = orphan]
    BY <1>3 DEF TakeFragment
  <2> HIDE DEF frag, orphan, h
  <2>3. t \in Fields
    BY <2>1, <2>2 DEF Fields
  <2>4. /\ SameCount(t, c) /\ t.buf = c.buf /\ t.fuOpen = c.fuOpen
        /\ t.fuStart = c.fuStart /\ t.damaged = c.damaged /\ t.lostFrag = frag
    BY <2>2 DEF Fields, SameCount, SameAu
  <2>5. BufferUnbroken(t, k)
    BY <1>3, <2>4 DEF BufferUnbroken
  <2>6. (Intact(t) /\ ~c.orphan => FALSE) /\ (Intact(t) => Intact(c))
    BY <2>1, <2>4 DEF Intact, SameCount
  <2> QED BY <1>3, <2>3, <2>4, <2>5, <2>6 DEF FuInside
<1>4. ASSUME NEW o \in Fields, o.fuOpen, o.fuStart <= Len(o.buf), Len(o.buf) <= Cap,
             SameCount(o, c), t = [AppendPieces(o, ps) EXCEPT !.fuOpen = ~h.e]
      PROVE  /\ t \in Fields /\ FuInside(t) /\ Len(t.buf) <= Cap /\ SameCount(t, c)
             /\ t.fuOpen = ~h.e /\ t.fuStart = o.fuStart /\ t.lostFrag = o.lostFrag
             /\ t.orphan = o.orphan
             /\ ~t.damaged => ~o.damaged /\ t.buf = o.buf \o ps
  <2> DEFINE a == AppendPieces(o, ps)
             open == ~h.e
  <2>1. /\ a \in Fields /\ Len(a.buf) <= Cap /\ Len(o.buf) <= Len(a.buf)
        /\ ~a.damaged => ~o.damaged /\ a.buf = o.buf \o ps
        /\ SameAu(a, o) /\ a.gap = o.gap /\ a.packets = o.packets /\ a.lost = o.lost
        /\ a.lostFrag = o.lostFrag /\ a.fuOpen = o.fuOpen /\ a.fuStart = o.fuStart
        /\ a.orphan = o.orphan
    <3>1. o \in Fields /\ Len(o.buf) <= Cap /\ ps \in Seq(Piece)
      BY <1>0, <1>4
    <3> HIDE DEF ps
    <3> QED BY <3>1, Appended
  <2>2. t = [a EXCEPT !.fuOpen = open] /\ open \in BOOLEAN /\ open = ~h.e
    BY <1>0, <1>4
  <2> HIDE DEF a, open
  <2>3. t \in Fields
    BY <2>1, <2>2 DEF Fields
  <2>4. /\ SameCount(t, a) /\ t.buf = a.buf /\ t.fuOpen = open /\ t.orphan = a.orphan
        /\ t.fuStart = a.fuStart /\ t.damaged = a.damaged /\ t.lostFrag = a.lostFrag
    BY <2>1, <2>2 DEF Fields, SameCount, SameAu
  <2>5. SameCount(t, c)
    BY <1>4, <2>1, <2>4 DEF SameCount, SameAu
  <2>6. FuInside(t)
    <3>1. o.buf \in Seq(Piece) /\ t.buf \in Seq(Piece) /\ o.fuStart \in Nat
      BY <1>4, <2>3 DEF Fields
    <3>2. Len(o.buf) \in Nat /\ Len(t.buf) \in Nat
      BY <3>1
    <3> QED BY <1>4, <2>1, <2>4, <3>1, <3>2 DEF FuInside
  <2> QED BY <2>1, <2>2, <2>3, <2>4, <2>5, <2>6
<1>5. CASE ~h.s /\ c.fuOpen
  <2>1. t = [AppendPieces(c, ps) EXCEPT !.fuOpen = ~h.e]
    BY <1>5 DEF TakeFragment
  <2>2. SameCount(c, c) /\ c.fuStart <= Len(c.buf)
    BY <1>5 DEF SameCount, SameAu, FuInside
  <2>3. /\ t \in Fields /\ FuInside(t) /\ Len(t.buf) <= Cap /\ SameCount(t, c)
        /\ t.fuOpen = ~h.e /\ t.fuStart = c.fuStart /\ t.lostFrag = c.lostFrag
        /\ t.orphan = c.orphan
        /\ ~t.damaged => ~c.damaged /\ t.buf = c.buf \o ps
    BY <1>4, <1>5, <2>1, <2>2
  <2>4. BufferUnbroken(t, k)
    <3>1. SUFFICES ASSUME ~t.damaged
                   PROVE  IF t.fuOpen
                     THEN /\ t.fuStart < Len(t.buf)
                          /\ Unbroken(SubSeq(t.buf, 1, t.fuStart), FALSE)
                          /\ Unbroken(t.buf, TRUE) /\ t.buf[Len(t.buf)] = piece
                          /\ ~h.e
                     ELSE Unbroken(t.buf, FALSE)
      BY DEF BufferUnbroken
    <3>2. /\ Unbroken(c.buf, TRUE) /\ Unbroken(SubSeq(c.buf, 1, c.fuStart), FALSE)
          /\ c.fuStart < Len(c.buf) /\ Len(c.buf) > 0
          /\ Follows(piece, c.buf[Len(c.buf)]) /\ t.buf = c.buf \o ps
      BY <1>2, <1>5, <2>3, <3>1 DEF BufferUnbroken
    <3> DEFINE open == TRUE
               more == ~h.e
    <3>3. open \in BOOLEAN /\ Unbroken(c.buf, open) /\ more \in BOOLEAN
          /\ (ps[1][2] < ps[1][3] => more)
      <4>1. Unbroken(c.buf, open)
        BY <3>2
      <4> QED BY <1>0, <4>1
    <3> HIDE DEF open, more, h
    <3>4. Unbroken(c.buf \o ps, more)
      BY <1>0, <1>1, <3>2, <3>3, UnbrokenOne
    <3>5. /\ Len(c.buf \o ps) = Len(c.buf) + 1 /\ (c.buf \o ps)[Len(c.buf) + 1] = ps[1]
      BY <1>0, <1>1, JoinedOne
    <3>6. SubSeq(c.buf \o ps, 1, c.fuStart) = SubSeq(c.buf, 1, c.fuStart)
      BY <1>0, <1>1, <2>2, SamePrefix
    <3>7. CASE h.e
      BY <2>3, <3>2, <3>4, <3>7 DEF more
    <3>8. CASE ~h.e
      <4>1. /\ t.fuOpen /\ Len(t.buf) = Len(c.buf) + 1
            /\ t.buf[Len(t.buf)] = ps[1]
            /\ SubSeq(t.buf, 1, t.fuStart) = SubSeq(c.buf, 1, c.fuStart)
        BY <2>3, <3>2, <3>5, <3>6, <3>8
      <4>2. Unbroken(t.buf, TRUE)
        BY <3>2, <3>4, <3>8 DEF more
      <4>3. t.fuStart < Len(t.buf)
        BY <1>1, <2>3, <3>2, <4>1
      <4> QED BY <3>2, <3>8, <4>1, <4>2, <4>3
    <3> QED BY <3>7, <3>8
  <2>5. Intact(t) => Intact(c) /\ t.buf = c.buf \o ps
    BY <2>3 DEF Intact, SameCount
  <2> QED BY <2>3, <2>4, <2>5

<1>6. CASE h.s
  <2> DEFINE f == CloseFu(c)
             n == Len(f.buf)
             o == [f EXCEPT !.fuOpen = TRUE, !.fuStart = n, !.orphan = FALSE]
  <2>1. /\ f \in Fields /\ ~f.fuOpen /\ f.buf = Settled(c)
        /\ f.lostFrag = IF c.fuOpen THEN c.lostFrag + 1 ELSE c.lostFrag
        /\ f.haveSeq = c.haveSeq /\ f.lastSeq = c.lastSeq /\ f.haveTs = c.haveTs
        /\ f.ts = c.ts /\ f.packets = c.packets /\ f.lost = c.lost
        /\ f.damaged = c.damaged /\ f.gap = c.gap /\ f.resets = c.resets
        /\ f.out = c.out /\ f.told = c.told
        /\ ~c.fuOpen => f = c
    BY FuClosed
  <2>2. n \in Nat /\ n <= Cap /\ f.buf \in Seq(Piece) /\ Cap \in Nat
    <3>1. CASE c.fuOpen
      <4>1. Settled(c) = SubSeq(c.buf, 1, c.fuStart) /\ c.fuStart <= Len(c.buf)
        BY <3>1 DEF Settled, FuInside
      <4>2. Len(SubSeq(c.buf, 1, c.fuStart)) = c.fuStart
            /\ SubSeq(c.buf, 1, c.fuStart) \in Seq(Piece)
        BY <1>1, <4>1
      <4>3. f.buf = SubSeq(c.buf, 1, c.fuStart)
        BY <2>1, <4>1
      <4> HIDE DEF f
      <4> QED BY <1>1, <4>1, <4>2, <4>3, DepackAssumption
    <3>2. CASE ~c.fuOpen
      <4>1. f = c
        BY <2>1, <3>2
      <4> HIDE DEF f
      <4> QED BY <1>1, <4>1, DepackAssumption
    <3> QED BY <3>1, <3>2
  <2>3. t = [AppendPieces(o, ps) EXCEPT !.fuOpen = ~h.e]
    <3>1. o = [f EXCEPT !.fuOpen = TRUE, !.fuStart = Len(f.buf), !.orphan = FALSE]
      OBVIOUS
    <3>2. f = IF h.s /\ c.fuOpen THEN DropOpenFu(c) ELSE c
      BY <1>6 DEF CloseFu
    <3>3. o.fuOpen
      <4> HIDE DEF f, n
      <4> QED BY <2>1 DEF Fields
    <3> HIDE DEF f, o
    <3> QED BY <1>6, <3>1, <3>2, <3>3 DEF TakeFragment
  <2>4. o \in Fields
    <3> HIDE DEF f, n
    <3> QED BY <2>1, <2>2 DEF Fields
  <2>5. /\ SameCount(o, f) /\ o.buf = f.buf /\ o.fuOpen /\ o.fuStart = n
        /\ o.damaged = f.damaged /\ o.lostFrag = f.lostFrag /\ ~o.orphan
    <3> HIDE DEF f, n
    <3> QED BY <2>1 DEF Fields, SameCount, SameAu
  <2> HIDE DEF o
  <2>6. SameCount(o, c)
    BY <2>1, <2>5 DEF SameCount, SameAu
  <2>7. o.fuStart <= Len(o.buf) /\ Len(o.buf) <= Cap
    BY <2>2, <2>5
  <2>8. /\ t \in Fields /\ FuInside(t) /\ Len(t.buf) <= Cap /\ SameCount(t, c)
        /\ t.fuOpen = ~h.e /\ t.fuStart = o.fuStart /\ t.lostFrag = o.lostFrag
        /\ t.orphan = o.orphan
        /\ ~t.damaged => ~o.damaged /\ t.buf = o.buf \o ps
    BY <1>4, <2>3, <2>4, <2>5, <2>6, <2>7
  <2>9. ~t.damaged => /\ ~c.fuOpen /\ Unbroken(f.buf, FALSE) /\ f.buf = c.buf
                      /\ t.buf = f.buf \o ps
    <3>1. SUFFICES ASSUME ~t.damaged
                   PROVE  /\ ~c.fuOpen /\ Unbroken(f.buf, FALSE) /\ f.buf = c.buf
                          /\ t.buf = f.buf \o ps
      OBVIOUS
    <3>2. ~c.damaged /\ t.buf = f.buf \o ps
      BY <2>1, <2>5, <2>8, <3>1
    <3>3. ~c.fuOpen
      BY <1>2, <1>6, <3>2
    <3>4. f.buf = c.buf
      BY <2>1, <3>3
    <3>5. Unbroken(c.buf, FALSE)
      BY <3>2, <3>3 DEF BufferUnbroken
    <3> HIDE DEF f
    <3> QED BY <3>2, <3>3, <3>4, <3>5
  <2> HIDE DEF f
  <2>10. BufferUnbroken(t, k)
    <3>1. SUFFICES ASSUME ~t.damaged
                   PROVE  IF t.fuOpen
                     THEN /\ t.fuStart < Len(t.buf)
                          /\ Unbroken(SubSeq(t.buf, 1, t.fuStart), FALSE)
                          /\ Unbroken(t.buf, TRUE) /\ t.buf[Len(t.buf)] = piece
                          /\ ~h.e
                     ELSE Unbroken(t.buf, FALSE)
      BY DEF BufferUnbroken
    <3>2. Unbroken(f.buf, FALSE) /\ t.buf = f.buf \o ps /\ ~(ps[1][2] > 1)
      <4>1. ~(ps[1][2] > 1)
        BY <1>0, <1>6
      <4> QED BY <2>9, <3>1, <4>1
    <3> DEFINE open == FALSE
               more == ~h.e
    <3>3. /\ open \in BOOLEAN /\ Unbroken(f.buf, open) /\ ~open /\ more \in BOOLEAN
          /\ (ps[1][2] < ps[1][3] => more)
      <4>1. Unbroken(f.buf, open) /\ ~open
        BY <3>2
      <4> QED BY <1>0, <4>1
    <3> HIDE DEF open, more, h
    <3>4. Unbroken(f.buf \o ps, more)
      BY <1>0, <2>2, <3>2, <3>3, UnbrokenOne
    <3>5. /\ Len(f.buf \o ps) = n + 1 /\ (f.buf \o ps)[n + 1] = ps[1]
      BY <1>0, <2>2, JoinedOne
    <3>6. SubSeq(f.buf \o ps, 1, n) = f.buf
      <4>1. SubSeq(f.buf \o ps, 1, n) = SubSeq(f.buf, 1, n)
        <5>1. n <= Len(f.buf)
          BY <2>2
        <5> HIDE DEF n, ps
        <5> QED BY <1>0, <2>2, <5>1, SamePrefix
      <4>2. SubSeq(f.buf, 1, n) = f.buf
        BY <2>2
      <4> QED BY <4>1, <4>2
    <3>7. CASE h.e
      BY <2>8, <3>2, <3>4, <3>7 DEF more
    <3>8. CASE ~h.e
      <4>1. /\ t.fuOpen /\ t.fuStart = n /\ Len(t.buf) = n + 1
            /\ t.buf[Len(t.buf)] = ps[1] /\ SubSeq(t.buf, 1, t.fuStart) = f.buf
        <5> HIDE DEF n
        <5> QED BY <2>5, <2>8, <3>2, <3>5, <3>6, <3>8
      <4>2. Unbroken(t.buf, TRUE)
        BY <3>2, <3>4, <3>8 DEF more
      <4>3. t.fuStart < Len(t.buf)
        <5> HIDE DEF n
        <5> QED BY <2>2, <4>1
      <4> QED BY <3>2, <3>8, <4>1, <4>2, <4>3
    <3> QED BY <3>7, <3>8
  <2>11. Intact(t) => Intact(c) /\ t.buf = c.buf \o ps
    <3>1. ~t.damaged => ~c.fuOpen /\ ~c.damaged /\ t.buf = c.buf \o ps
                        /\ t.lostFrag = c.lostFrag
      BY <2>1, <2>5, <2>8, <2>9
    <3> QED BY <2>8, <3>1 DEF Intact, SameCount
  <2> QED BY <2>5, <2>8, <2>10, <2>11
<1> QED BY <1>0, <1>1, <1>3, <1>5, <1>6


LEMMA Taken ==
  ASSUME NEW c \in Fields, FuInside(c), Len(c.buf) <= Cap, NEW k \in DOMAIN Stream,
         BufferUnbroken(c, k - 1), c.fuOpen => k - 1 \in DOMAIN Stream,
         NEW t, t = IF Stream[k].fu THEN TakeFragment(c, Stream[k])
                                    ELSE TakeNals(c, Stream[k])
  PROVE  /\ t \in Fields /\ FuInside(t) /\ Len(t.buf) <= Cap /\ SameCount(t, c)
         /\ BufferUnbroken(t, k)
         /\ Intact(t) => Intact(c)
         /\ Intact(t) /\ ~c.orphan => ~t.orphan /\ t.buf = c.buf \o Stream[k].pieces
<1>1. CASE Stream[k].fu
  <2>1. t = TakeFragment(c, Stream[k])
    BY <1>1
  <2> HIDE DEF Fields
  <2> QED BY <1>1, <2>1, FragmentTaken
<1>2. CASE ~Stream[k].fu
  <2>1. t = TakeNals(c, Stream[k])
    BY <1>2
  <2> HIDE DEF Fields
  <2> QED BY <1>2, <2>1, NalsTaken
<1> QED BY <1>1, <1>2

(***************************************************************************)
(* What was reported                                                       *)
(***************************************************************************)

\* WholeNals, CompleteIsWhole and the order of NothingVanishes, of any events.
EventsFine(evs, resets) ==
  /\ \A i \in DOMAIN evs : ~evs[i].damaged => Unbroken(evs[i].buf, FALSE)
  /\ \A i \in DOMAIN evs : evs[i].complete =>
       \/ evs[i].buf = Content(evs[i].ts)
       \/ i = 1 \/ ~evs[i - 1].complete
       \/ resets > 0
  /\ resets = 0 => \A i, j \in DOMAIN evs : i < j => evs[i].ts < evs[j].ts

LEMMA EventAdded ==
  ASSUME NEW evs \in Seq(Event), NEW r \in Nat, EventsFine(evs, r), NEW ev \in Event,
         NEW m \in Nat, r <= m, ~ev.damaged => Unbroken(ev.buf, FALSE),
         ev.complete => \/ ev.buf = Content(ev.ts) \/ evs = <<>>
                        \/ ~evs[Len(evs)].complete \/ m > 0,
         m = 0 => \A i \in DOMAIN evs : evs[i].ts < ev.ts
  PROVE  /\ EventsFine(evs, m) /\ EventsFine(Append(evs, ev), m)
         /\ Append(evs, ev) \in Seq(Event) /\ Append(evs, ev) # <<>>
         /\ Append(evs, ev)[Len(Append(evs, ev))] = ev
         /\ {evs[i].ts : i \in DOMAIN evs} \subseteq
              {Append(evs, ev)[i].ts : i \in DOMAIN Append(evs, ev)}
         /\ ev.ts \in {Append(evs, ev)[i].ts : i \in DOMAIN Append(evs, ev)}
<1> HIDE DEF Event
<1> DEFINE new == Append(evs, ev)
           n == Len(evs)
<1>1. /\ new \in Seq(Event) /\ Len(new) = n + 1 /\ n \in Nat
      /\ DOMAIN evs = 1 .. n /\ DOMAIN new = 1 .. (n + 1)
      /\ \A i \in 1 .. n : new[i] = evs[i]
      /\ new[n + 1] = ev /\ (n = 0 => evs = <<>>) /\ new # <<>>
  OBVIOUS
<1> HIDE DEF new, n
<1>2. EventsFine(evs, m)
  <2>1. (r > 0 => m > 0) /\ (m = 0 => r = 0)
    OBVIOUS
  <2> QED BY <2>1 DEF EventsFine
<1>3. \A i \in DOMAIN new :
        \/ i \in DOMAIN evs /\ new[i] = evs[i]
        \/ i = n + 1 /\ new[i] = ev
  <2>1. SUFFICES ASSUME NEW i \in DOMAIN new
                 PROVE  \/ i \in DOMAIN evs /\ new[i] = evs[i]
                        \/ i = n + 1 /\ new[i] = ev
    OBVIOUS
  <2>2. CASE i \in 1 .. n
    BY <1>1, <2>2
  <2>3. CASE i = n + 1
    BY <1>1, <2>3
  <2>4. i \in 1 .. n \/ i = n + 1
    BY <1>1
  <2> QED BY <2>2, <2>3, <2>4
<1>4. \A i \in DOMAIN new : ~new[i].damaged => Unbroken(new[i].buf, FALSE)
  BY <1>3 DEF EventsFine
<1>5. ASSUME NEW i \in DOMAIN new, new[i].complete
      PROVE  \/ new[i].buf = Content(new[i].ts) \/ i = 1 \/ ~new[i - 1].complete \/ m > 0
  <2>1. CASE i \in DOMAIN evs /\ new[i] = evs[i]
    <3>1. i = 1 \/ new[i - 1] = evs[i - 1]
      BY <1>1, <2>1
    <3> QED BY <1>2, <1>5, <2>1, <3>1 DEF EventsFine
  <2>2. CASE i = n + 1 /\ new[i] = ev
    <3>1. CASE n = 0
      BY <2>2, <3>1
    <3>2. CASE n > 0
      <4>1. new[i - 1] = evs[n] /\ evs # <<>>
        BY <1>1, <2>2, <3>2
      <4> QED BY <1>5, <2>2, <4>1 DEF n
    <3> QED BY <1>1, <3>1, <3>2
  <2> QED BY <1>3, <2>1, <2>2
<1>6. ASSUME m = 0, NEW i \in DOMAIN new, NEW j \in DOMAIN new, i < j
      PROVE  new[i].ts < new[j].ts
  <2>1. i \in 1 .. n /\ new[i] = evs[i] /\ (j \in 1 .. n \/ j = n + 1)
    BY <1>1, <1>6
  <2>2. CASE j \in 1 .. n
    <3>1. new[j] = evs[j] /\ r = 0
      BY <1>1, <1>6, <2>2
    <3> QED BY <1>1, <1>6, <2>1, <2>2, <3>1 DEF EventsFine
  <2>3. CASE j = n + 1
    BY <1>1, <1>6, <2>1, <2>3
  <2> QED BY <2>1, <2>2, <2>3
<1>7. EventsFine(new, m)
  BY <1>4, <1>5, <1>6 DEF EventsFine
<1>8. {evs[i].ts : i \in DOMAIN evs} \subseteq {new[i].ts : i \in DOMAIN new}
  <2>1. \A i \in DOMAIN evs : i \in DOMAIN new /\ new[i] = evs[i]
    BY <1>1
  <2> QED BY <2>1
<1>9. ev.ts \in {new[i].ts : i \in DOMAIN new} /\ new[Len(new)] = ev
  <2>1. n + 1 \in DOMAIN new /\ new[n + 1] = ev /\ Len(new) = n + 1
    BY <1>1
  <2> QED BY <2>1
<1> QED BY <1>1, <1>2, <1>3, <1>7, <1>8, <1>9 DEF new


(***************************************************************************)
(* One packet that is not late                                             *)
(***************************************************************************)

\* What counting and assembling packet k make of the AU d it belongs to.
Grew(t, d, k) ==
  /\ t \in Fields /\ FuInside(t) /\ Len(t.buf) <= Cap
  /\ t.haveSeq /\ t.lastSeq = WireSeq(k) /\ t.gap = 0
  /\ t.haveTs /\ t.ts = d.ts /\ t.packets = d.packets + 1 /\ t.lost = d.lost + d.gap
  /\ t.resets = d.resets /\ t.out = d.out /\ t.told = d.told
  /\ BufferUnbroken(t, k)
  /\ Intact(t) => d.gap = 0 /\ Intact(d)
  /\ Intact(t) /\ ~d.orphan => ~t.orphan /\ t.buf = d.buf \o Stream[k].pieces

Takes(k) ==
  LET c == CountPacket(OpenAu(TakeSeq(dp, WireSeq(k)), Stream[k].ts))
  IN IF Stream[k].fu THEN TakeFragment(c, Stream[k]) ELSE TakeNals(c, Stream[k])

LEMMA PacketTaken ==
  ASSUME DepackInv, NEW k \in DOMAIN Stream,
         k > newest - Window, newest > 0 => k <= newest + Ahead,
         ~IsLate(dp, WireSeq(k)), NEW t, t = Takes(k)
  PROVE  \E d \in Fields : Grew(t, d, k) /\ (GoesOn(d, k) \/ Opens(d, k) \/ Cuts(d, k))
<1> HIDE DEF Piece, Event
<1> DEFINE d == OpenAu(TakeSeq(dp, WireSeq(k)), Stream[k].ts)
           c == CountPacket(d)
           p == k - 1 - d.gap
<1>0. /\ dp \in Fields /\ Len(dp.buf) <= Cap /\ at \in Nat /\ k \in Nat /\ 0 <= Cap
      /\ BufferUnbroken(dp, at) /\ (dp.haveSeq => at \in DOMAIN Stream)
      /\ DepackTypes /\ SeqTells /\ OpenUntilMarker
  <2>1. k \in Nat
    BY PacketType
  <2>2. Cap \in Nat
    BY DepackAssumption
  <2> QED BY <2>1, <2>2 DEF DepackInv, DepackTypes, SeqTells
<1>1. /\ d \in Fields /\ FuInside(d) /\ d.haveSeq /\ d.lastSeq = WireSeq(k)
      /\ GoesOn(d, k) \/ Opens(d, k) \/ Cuts(d, k)
  BY <1>0, AuOpened
<1>2. c = CountPacket(d) /\ t = IF Stream[k].fu THEN TakeFragment(c, Stream[k])
                                                ELSE TakeNals(c, Stream[k])
  BY DEF Takes
<1> HIDE DEF d
<1>3. d.gap \in Nat /\ d.haveTs
  <2>1. d.gap \in Nat
    BY <1>1 DEF Fields
  <2> QED BY <1>1, <2>1 DEF GoesOn, Opens, Cuts, NewAu
<1>4. Len(d.buf) <= Cap /\ BufferUnbroken(d, p) /\ (d.fuOpen => p \in DOMAIN Stream)
  <2>1. CASE GoesOn(d, k)
    <3>1. p = at /\ dp.haveSeq
      BY <1>0, <1>3, <2>1 DEF GoesOn
    <3> HIDE DEF p
    <3> QED BY <1>0, <2>1, <3>1 DEF GoesOn, BufferUnbroken
  <2>2. CASE Opens(d, k) \/ Cuts(d, k)
    <3>1. ~d.fuOpen /\ d.buf = <<>>
      BY <2>2 DEF Opens, Cuts, NewAu
    <3> HIDE DEF p
    <3> QED BY <1>0, <3>1, NothingUnbroken DEF BufferUnbroken
  <2> QED BY <1>1, <2>1, <2>2
<1>5. /\ c \in Fields /\ FuInside(c) /\ Len(c.buf) <= Cap /\ SameAu(c, d)
      /\ c.gap = 0 /\ c.packets = d.packets + 1 /\ c.lost = d.lost + d.gap
      /\ BufferUnbroken(c, k - 1)
      /\ c.fuOpen => d.fuOpen /\ d.gap = 0
      /\ Intact(c) => d.gap = 0 /\ Intact(d) /\ c.buf = d.buf /\ c.orphan = d.orphan
  <2>1. p \in Int /\ k \in Int /\ p = k - 1 - d.gap
    BY <1>0, <1>3
  <2> HIDE DEF p, Fields, c
  <2> QED BY <1>1, <1>2, <1>4, <2>1, Counted
<1>6. c.fuOpen => k - 1 \in DOMAIN Stream
  <2>1. d.gap = 0 => p = k - 1
    BY <1>0
  <2> HIDE DEF p, c
  <2> QED BY <1>4, <1>5, <2>1
<1> HIDE DEF c
<1>7. /\ t \in Fields /\ FuInside(t) /\ Len(t.buf) <= Cap /\ SameCount(t, c)
      /\ BufferUnbroken(t, k)
      /\ Intact(t) => Intact(c)
      /\ Intact(t) /\ ~c.orphan => ~t.orphan /\ t.buf = c.buf \o Stream[k].pieces
  <2> HIDE DEF Fields
  <2> QED BY <1>2, <1>5, <1>6, Taken, ZenonT(60)
<1>8. Grew(t, d, k)
  <2>1. /\ t.haveSeq = d.haveSeq /\ t.lastSeq = d.lastSeq /\ t.haveTs = d.haveTs
        /\ t.ts = d.ts /\ t.resets = d.resets /\ t.out = d.out /\ t.told = d.told
        /\ t.gap = 0 /\ t.packets = d.packets + 1 /\ t.lost = d.lost + d.gap
    BY <1>5, <1>7 DEF SameCount, SameAu
  <2>2. Intact(t) => d.gap = 0 /\ Intact(d)
    BY <1>5, <1>7
  <2>3. Intact(t) /\ ~d.orphan => ~t.orphan /\ t.buf = d.buf \o Stream[k].pieces
    BY <1>5, <1>7
  <2> QED BY <1>1, <1>3, <1>7, <2>1, <2>2, <2>3 DEF Grew
<1> QED BY <1>1, <1>8


\* The depacketizer d after packet p entered an AU: tk were taken, evs reported.
InOpenAu(d, p) ==
  /\ d \in Fields /\ FuInside(d) /\ Len(d.buf) <= Cap
  /\ d.haveSeq /\ d.lastSeq = WireSeq(p) /\ d.gap = 0
  /\ d.haveTs /\ d.ts = Stream[p].ts /\ d.packets > 0
  /\ BufferUnbroken(d, p) /\ IntactIsWhole(d, p)

NothingLeftOut(d, p, tk, evs) ==
  /\ d.resets = 0 => /\ \A i \in DOMAIN evs : evs[i].ts < d.ts
                     /\ \A k \in tk : k <= p
                     /\ \E m \in tk : /\ \A k \in tk : m <= k
                                      /\ d.told + d.packets + d.lost = p - m + 1
  /\ \A k \in tk : \/ Stream[k].ts \in {evs[i].ts : i \in DOMAIN evs}
                   \/ Stream[k].ts = d.ts

Assembled(d, p, tk, evs) ==
  /\ InOpenAu(d, p) /\ BeginsAfterMarker(d, p, evs)
  /\ evs \in Seq(Event) /\ EventsFine(evs, d.resets)
  /\ NothingLeftOut(d, p, tk, evs)

LEMMA ReportedFine ==
  ASSUME DepackInv
  PROVE  events \in Seq(Event) /\ EventsFine(events, dp.resets) /\ dp.resets \in Nat
  BY DEF DepackInv, DepackTypes, Fields, WholeNals, CompleteIsWhole, NothingVanishes,
         EventsFine

\* What is whole before a packet of the same AU is whole after it.
LEMMA WholeGrows ==
  ASSUME DepackInv, NEW k \in DOMAIN Stream, NEW d \in Fields, NEW t,
         Grew(t, d, k), GoesOn(d, k)
  PROVE  InOpenAu(t, k)
<1> HIDE DEF Piece, Event, Fields
<1>1. /\ dp.haveSeq /\ dp.haveTs /\ dp.ts = Stream[k].ts /\ k = at + 1 + d.gap
      /\ d.packets = dp.packets /\ d.orphan = dp.orphan /\ d.buf = dp.buf
      /\ d.ts = dp.ts
  BY DEF GoesOn
<1>2. /\ at \in DOMAIN Stream /\ at \in Nat /\ at > 0 /\ dp.ts = Stream[at].ts
      /\ dp.packets \in Nat /\ dp.packets > 0 /\ IntactIsWhole(dp, at)
      /\ d.gap \in Nat
  <2>1. at \in DOMAIN Stream
    BY <1>1 DEF DepackInv, DepackTypes, SeqTells
  <2>2. at \in Nat /\ at > 0
    BY <2>1, PacketType
  <2> QED BY <1>1, <2>1, <2>2 DEF DepackInv, OpenUntilMarker, DepackTypes, Fields
<1>3. k \in Nat /\ t.packets = dp.packets + 1 /\ t.packets > 0
  BY <1>1, <1>2 DEF Grew
<1>4. ASSUME Intact(t)
      PROVE  /\ ~t.orphan /\ t.packets <= k
             /\ FirstOfAu(k - t.packets + 1) => t.buf = AuUpTo[k]
  <2>1. d.gap = 0 /\ Intact(d)
    BY <1>4 DEF Grew
  <2>2. Intact(dp)
    BY <2>1 DEF GoesOn, Intact
  <2>3. /\ ~dp.orphan /\ dp.packets <= at
        /\ FirstOfAu(at - dp.packets + 1) => dp.buf = AuUpTo[at]
    BY <1>2, <2>2 DEF IntactIsWhole
  <2>4. k = at + 1 /\ k - t.packets + 1 = at - dp.packets + 1 /\ t.packets <= k
        /\ k > 1 /\ k - 1 = at
    BY <1>1, <1>2, <1>3, <2>1, <2>3
  <2>5. ~t.orphan /\ t.buf = dp.buf \o Stream[k].pieces
    BY <1>1, <1>4, <2>3 DEF Grew
  <2>6. AuUpTo[k] = AuUpTo[at] \o Stream[k].pieces
    <3>1. k \in 1 .. Len(Stream)
      BY StreamAssumption
    <3>2. k > 1 /\ Stream[k - 1].ts = Stream[k].ts
      BY <1>1, <1>2, <2>4
    <3> QED BY <2>4, <3>1, <3>2, AuUpToStep
  <2> QED BY <2>3, <2>4, <2>5, <2>6
<1> QED BY <1>1, <1>3, <1>4 DEF InOpenAu, IntactIsWhole, Grew

LEMMA WholeBegins ==
  ASSUME NEW k \in DOMAIN Stream, NEW d \in Fields, NEW t, Grew(t, d, k),
         NewAu(d, Stream[k].ts)
  PROVE  InOpenAu(t, k) /\ t.packets = 1
<1> HIDE DEF Piece, Event, Fields
<1>1. k \in Nat /\ k > 0 /\ k \in 1 .. Len(Stream) /\ Stream[k].pieces \in Seq(Piece)
  BY PacketType, StreamAssumption
<1>2. t.packets = 1 /\ d.buf = <<>> /\ ~d.orphan /\ t.ts = Stream[k].ts
  BY DEF NewAu, Grew
<1>3. ASSUME Intact(t)
      PROVE  /\ ~t.orphan /\ t.packets <= k
             /\ FirstOfAu(k - t.packets + 1) => t.buf = AuUpTo[k]
  <2>1. ~t.orphan /\ t.buf = d.buf \o Stream[k].pieces
    BY <1>2, <1>3 DEF Grew
  <2>2. t.buf = Stream[k].pieces
    BY <1>1, <1>2, <2>1
  <2>3. FirstOfAu(k) => AuUpTo[k] = Stream[k].pieces
    BY <1>1, AuUpToStep DEF FirstOfAu
  <2>4. k - t.packets + 1 = k /\ t.packets <= k
    BY <1>1, <1>2
  <2> QED BY <2>1, <2>2, <2>3, <2>4
<1> QED BY <1>2, <1>3 DEF InOpenAu, IntactIsWhole, Grew


\* The order of the stream: AU by AU, a new one after each marker.
LEMMA StreamOrder ==
  ASSUME NEW i \in DOMAIN Stream, NEW k \in DOMAIN Stream, i < k
  PROVE  /\ Stream[i].ts <= Stream[k].ts
         /\ Stream[i].marker => Stream[i].ts < Stream[k].ts
  BY StreamAssumption

LEMMA NoneAppended ==
  ASSUME NEW evs \in Seq(Event)
  PROVE  evs \o <<>> = evs
<1> HIDE DEF Event
<1> QED OBVIOUS

LEMMA OneAppended ==
  ASSUME NEW evs \in Seq(Event), NEW ev \in Event
  PROVE  evs \o <<ev>> = Append(evs, ev)
<1> HIDE DEF Event
<1> QED OBVIOUS

LEMMA AfterGoesOn ==
  ASSUME DepackInv, NEW k \in DOMAIN Stream, NEW d \in Fields, NEW t,
         Grew(t, d, k), GoesOn(d, k)
  PROVE  Assembled(t, k, taken \cup {k}, events \o t.out)
<1> HIDE DEF Piece, Event, Fields
<1>1. /\ dp.haveSeq /\ dp.haveTs /\ k = at + 1 + d.gap /\ t.ts = dp.ts /\ t.gap = 0
      /\ t.packets = dp.packets + 1 /\ t.lost = dp.lost + d.gap
      /\ t.resets = dp.resets /\ t.told = dp.told /\ t.out = <<>>
      /\ dp.ts = Stream[k].ts
  BY DEF GoesOn, Grew
<1>2. /\ at \in Nat /\ k \in Nat /\ d.gap \in Nat /\ dp.packets \in Nat
      /\ dp.lost \in Nat /\ dp.told \in Nat /\ dp \in Fields
  BY PacketType DEF DepackInv, DepackTypes, Fields
<1>3. InOpenAu(t, k)
  BY WholeGrows
<1>4. events \o t.out = events /\ events \in Seq(Event) /\ EventsFine(events, t.resets)
  BY <1>1, ReportedFine, NoneAppended
<1>5. BeginsAfterMarker(t, k, events)
  <2>1. SUFFICES ASSUME events # <<>>, events[Len(events)].complete, t.resets = 0,
                        t.lost = 0
                 PROVE  k > t.packets /\ Stream[k - t.packets].marker
    BY DEF BeginsAfterMarker
  <2>2. dp.lost = 0 /\ d.gap = 0 /\ dp.resets = 0
    BY <1>1, <1>2, <2>1
  <2>3. at > dp.packets /\ Stream[at - dp.packets].marker
    BY <2>1, <2>2 DEF DepackInv, BeginsAfterMarker
  <2>4. k - t.packets = at - dp.packets /\ k > t.packets
    BY <1>1, <1>2, <2>2, <2>3
  <2> QED BY <2>3, <2>4
<1>6. ASSUME t.resets = 0
      PROVE  /\ \A i \in DOMAIN events : events[i].ts < t.ts
             /\ \A j \in taken \cup {k} : j <= k
             /\ \E m \in taken \cup {k} : /\ \A j \in taken \cup {k} : m <= j
                                          /\ t.told + t.packets + t.lost = k - m + 1
  <2>1. /\ \A i \in DOMAIN events : events[i].ts < dp.ts
        /\ \A j \in taken : j <= at
    BY <1>1, <1>6 DEF DepackInv, InOrder, LastIsGreatest
  <2>2. PICK m \in taken : /\ \A j \in taken : m <= j
                           /\ dp.told + dp.packets + dp.lost = at - m + 1
    BY <1>1, <1>6 DEF DepackInv, CountIsSpan
  <2>3. \A j \in taken : j \in Nat
    BY PacketType DEF DepackInv, DepackTypes
  <2>4. \A j \in taken \cup {k} : j <= k /\ m <= j
    BY <1>1, <1>2, <2>1, <2>2, <2>3
  <2>5. t.told + t.packets + t.lost = k - m + 1
    <3>1. m \in Nat
      BY <2>3
    <3>2. dp.told + (dp.packets + 1) + (dp.lost + d.gap) = (at + 1 + d.gap) - m + 1
      BY <1>2, <2>2, <3>1
    <3> QED BY <1>1, <3>2
  <2> QED BY <1>1, <2>1, <2>2, <2>4, <2>5
<1>7. \A j \in taken \cup {k} : \/ Stream[j].ts \in {events[i].ts : i \in DOMAIN events}
                                \/ Stream[j].ts = t.ts
  BY <1>1 DEF DepackInv, NothingVanishes, Reported
<1>8. NothingLeftOut(t, k, taken \cup {k}, events)
  BY <1>6, <1>7 DEF NothingLeftOut
<1> QED BY <1>3, <1>4, <1>5, <1>8 DEF Assembled

LEMMA AfterOpens ==
  ASSUME DepackInv, NEW k \in DOMAIN Stream, NEW d \in Fields, NEW t,
         Grew(t, d, k), Opens(d, k)
  PROVE  Assembled(t, k, taken \cup {k}, events \o t.out)
<1> HIDE DEF Piece, Event, Fields
<1>1. /\ ~dp.haveTs /\ NewAu(d, Stream[k].ts) /\ t.ts = Stream[k].ts /\ t.gap = 0
      /\ t.packets = 1 /\ t.lost = d.gap
      /\ t.resets = d.resets /\ t.told = dp.told /\ t.out = <<>>
  <2>1. d.gap \in Nat
    BY DEF Fields
  <2> QED BY <2>1 DEF Opens, Grew, NewAu
<1>2. /\ at \in Nat /\ k \in Nat /\ d.gap \in Nat /\ dp.told \in Nat /\ dp \in Fields
      /\ dp.resets \in Nat
  BY PacketType DEF DepackInv, DepackTypes, Fields
<1>3. InOpenAu(t, k)
  BY <1>1, WholeBegins
<1>4. \/ ~dp.haveSeq /\ d.gap = 0 /\ t.resets = dp.resets
      \/ dp.haveSeq /\ k = at + 1 + d.gap /\ t.resets = dp.resets
      \/ dp.haveSeq /\ d.gap = 0 /\ t.resets = dp.resets + 1
  BY <1>1 DEF Opens
<1>5. events \o t.out = events /\ events \in Seq(Event) /\ EventsFine(events, t.resets)
  <2>1. EventsFine(events, dp.resets) /\ events \in Seq(Event)
    BY ReportedFine
  <2>2. CASE t.resets = dp.resets
    BY <1>1, <2>1, <2>2, NoneAppended
  <2>3. CASE t.resets = dp.resets + 1
    <3>1. t.resets > 0 /\ t.resets # 0
      BY <1>2, <2>3
    <3>2. EventsFine(events, t.resets)
      BY <2>1, <3>1 DEF EventsFine
    <3> QED BY <1>1, <2>1, <3>2, NoneAppended
  <2> QED BY <1>4, <2>2, <2>3
<1>6. ~dp.haveSeq => events = <<>> /\ taken = {} /\ dp.told = 0
  BY DEF DepackInv, SeqTells, Fresh
<1>7. ASSUME dp.haveSeq
      PROVE  at \in DOMAIN Stream /\ at > 0 /\ Stream[at].marker
             /\ dp.packets = 0 /\ dp.lost = 0
  <2>1. at \in DOMAIN Stream
    BY <1>7 DEF DepackInv, SeqTells, DepackTypes
  <2> QED BY <1>1, <1>7, <2>1, PacketType DEF DepackInv, OpenUntilMarker
<1>8. t.resets = 0 => \/ ~dp.haveSeq /\ d.gap = 0
                      \/ dp.haveSeq /\ k = at + 1 + d.gap /\ dp.resets = 0
  BY <1>2, <1>4
<1>9. BeginsAfterMarker(t, k, events)
  <2>1. SUFFICES ASSUME events # <<>>, t.resets = 0, t.lost = 0
                 PROVE  k > t.packets /\ Stream[k - t.packets].marker
    BY DEF BeginsAfterMarker
  <2>2. dp.haveSeq /\ k = at + 1
    BY <1>1, <1>2, <1>6, <1>8, <2>1
  <2>3. k - t.packets = at /\ k > t.packets
    BY <1>1, <1>2, <1>7, <2>2
  <2> QED BY <1>7, <2>2, <2>3
<1>10. ASSUME t.resets = 0
       PROVE  /\ \A i \in DOMAIN events : events[i].ts < t.ts
              /\ \A j \in taken \cup {k} : j <= k
              /\ \E m \in taken \cup {k} : /\ \A j \in taken \cup {k} : m <= j
                                           /\ t.told + t.packets + t.lost = k - m + 1
  <2>1. CASE ~dp.haveSeq
    <3>1. taken \cup {k} = {k} /\ events = <<>> /\ k <= k /\ d.gap = 0
      BY <1>2, <1>6, <1>8, <1>10, <2>1
    <3>2. t.told + t.packets + t.lost = k - k + 1
      BY <1>1, <1>2, <1>6, <2>1, <3>1
    <3> QED BY <3>1, <3>2
  <2>2. CASE dp.haveSeq
    <3>0. k = at + 1 + d.gap /\ dp.resets = 0 /\ at < k
      BY <1>2, <1>8, <1>10, <2>2
    <3>1. /\ \A i \in DOMAIN events : events[i].ts <= Stream[at].ts
          /\ \A j \in taken : j <= at
      BY <1>1, <2>2, <3>0 DEF DepackInv, InOrder, LastIsGreatest
    <3>2. PICK m \in taken : /\ \A j \in taken : m <= j
                             /\ dp.told + dp.packets + dp.lost = at - m + 1
      BY <2>2, <3>0 DEF DepackInv, CountIsSpan
    <3>3. \A j \in taken : j \in Nat
      BY PacketType DEF DepackInv, DepackTypes
    <3>4. \A j \in taken \cup {k} : j <= k /\ m <= j
      BY <1>2, <3>0, <3>1, <3>2, <3>3
    <3>5. t.told + t.packets + t.lost = k - m + 1
      <4>1. m \in Nat
        BY <3>3
      <4>2. dp.told = at - m + 1
        BY <1>2, <1>7, <2>2, <3>2, <4>1
      <4>3. dp.told + 1 + d.gap = k - m + 1
        BY <1>2, <3>0, <4>1, <4>2
      <4> QED BY <1>1, <4>3
    <3>6. Stream[at].ts < t.ts /\ Stream[at].ts \in Nat /\ t.ts \in Nat
      BY <1>1, <1>7, <2>2, <3>0, StreamOrder, PacketType
    <3>7. \A i \in DOMAIN events : events[i].ts \in Nat
      <4>1. \A i \in DOMAIN events : events[i] \in Event
        BY <1>5
      <4> QED BY <4>1 DEF Event
    <3>8. \A i \in DOMAIN events : events[i].ts < t.ts
      BY <3>1, <3>6, <3>7
    <3> QED BY <3>2, <3>4, <3>5, <3>8
  <2> QED BY <2>1, <2>2
<1>11. \A j \in taken \cup {k} : \/ Stream[j].ts \in {events[i].ts : i \in DOMAIN events}
                                 \/ Stream[j].ts = t.ts
  BY <1>1 DEF DepackInv, NothingVanishes, Reported
<1>12. NothingLeftOut(t, k, taken \cup {k}, events)
  BY <1>10, <1>11 DEF NothingLeftOut
<1> QED BY <1>3, <1>5, <1>9, <1>12 DEF Assembled


LEMMA AfterCuts ==
  ASSUME DepackInv, NEW k \in DOMAIN Stream, NEW d \in Fields, NEW t,
         Grew(t, d, k), Cuts(d, k)
  PROVE  Assembled(t, k, taken \cup {k}, events \o t.out)
<1> HIDE DEF Piece, Event, Fields
<1>1. /\ dp.haveSeq /\ dp.haveTs /\ NewAu(d, Stream[k].ts) /\ t.ts = Stream[k].ts
      /\ t.packets = 1 /\ t.lost = 0 /\ t.resets = d.resets /\ t.told = d.told
      /\ t.out = d.out
  BY DEF Cuts, Grew, NewAu
<1>2. /\ at \in DOMAIN Stream /\ at \in Nat /\ k \in Nat /\ dp.ts = Stream[at].ts
      /\ dp.packets \in Nat /\ dp.lost \in Nat /\ dp.told \in Nat
      /\ dp \in Fields /\ dp.resets \in Nat
  <2>1. at \in DOMAIN Stream /\ dp \in Fields /\ dp.ts = Stream[at].ts
    BY <1>1 DEF DepackInv, DepackTypes, SeqTells, OpenUntilMarker
  <2> QED BY <2>1, PacketType DEF Fields
<1>3. InOpenAu(t, k)
  BY <1>1, WholeBegins
<1>4. PICK ev \in Event : /\ d.out = <<ev>> /\ ev.ts = dp.ts /\ ~ev.complete
                          /\ ev.buf = Settled(dp) /\ ev.damaged = dp.damaged
  BY DEF Cuts
<1>5. \/ /\ t.resets = dp.resets /\ k > at /\ dp.ts # Stream[k].ts
         /\ t.told = dp.told + dp.packets + dp.lost + (k - at - 1)
      \/ t.resets = dp.resets + 1
  BY <1>1 DEF Cuts
<1>6. t.resets \in Nat /\ dp.resets <= t.resets
  BY <1>2, <1>5
<1> DEFINE evs == Append(events, ev)
<1>7. /\ events \o t.out = evs /\ events \in Seq(Event)
      /\ EventsFine(events, dp.resets)
  BY <1>1, <1>4, ReportedFine, OneAppended
<1>8. ~ev.damaged => Unbroken(ev.buf, FALSE)
  <2>1. BufferUnbroken(dp, at)
    BY DEF DepackInv
  <2> QED BY <1>2, <1>4, <2>1, SettledUnbroken
<1>9. t.resets = 0 => /\ dp.resets = 0 /\ \A i \in DOMAIN events : events[i].ts < ev.ts
                      /\ k > at /\ dp.ts # Stream[k].ts
                      /\ t.told = dp.told + dp.packets + dp.lost + (k - at - 1)
  <2>1. t.resets = 0 => dp.resets = 0 /\ k > at /\ dp.ts # Stream[k].ts
                      /\ t.told = dp.told + dp.packets + dp.lost + (k - at - 1)
    BY <1>2, <1>5
  <2> QED BY <1>1, <1>4, <2>1 DEF DepackInv, InOrder
<1>10. /\ EventsFine(evs, t.resets) /\ evs \in Seq(Event) /\ evs # <<>>
       /\ evs[Len(evs)] = ev
       /\ {events[i].ts : i \in DOMAIN events} \subseteq {evs[i].ts : i \in DOMAIN evs}
       /\ ev.ts \in {evs[i].ts : i \in DOMAIN evs}
  <2>1. t.resets = 0 => \A i \in DOMAIN events : events[i].ts < ev.ts
    BY <1>9
  <2> QED BY <1>2, <1>4, <1>6, <1>7, <1>8, <2>1, EventAdded
<1>11. BeginsAfterMarker(t, k, evs)
  BY <1>4, <1>10 DEF BeginsAfterMarker
<1>12. ASSUME t.resets = 0
       PROVE  /\ \A i \in DOMAIN evs : evs[i].ts < t.ts
              /\ \A j \in taken \cup {k} : j <= k
              /\ \E m \in taken \cup {k} : /\ \A j \in taken \cup {k} : m <= j
                                           /\ t.told + t.packets + t.lost = k - m + 1
  <2>1. /\ \A i \in DOMAIN events : events[i].ts < dp.ts
        /\ \A j \in taken : j <= at
    BY <1>1, <1>9, <1>12 DEF DepackInv, InOrder, LastIsGreatest
  <2>2. PICK m \in taken : /\ \A j \in taken : m <= j
                           /\ dp.told + dp.packets + dp.lost = at - m + 1
    BY <1>1, <1>9, <1>12 DEF DepackInv, CountIsSpan
  <2>3. \A j \in taken : j \in Nat
    BY PacketType DEF DepackInv, DepackTypes
  <2>4. \A j \in taken \cup {k} : j <= k /\ m <= j
    BY <1>2, <1>9, <1>12, <2>1, <2>2, <2>3
  <2>5. t.told + t.packets + t.lost = k - m + 1
    <3>1. m \in Nat
      BY <2>3
    <3>2. (dp.told + dp.packets + dp.lost + (k - at - 1)) + 1 + 0 = k - m + 1
      BY <1>2, <2>2, <3>1
    <3> QED BY <1>1, <1>9, <1>12, <3>2
  <2>6. Stream[at].ts < Stream[k].ts
    <3>1. Stream[at].ts <= Stream[k].ts
      BY <1>2, <1>9, <1>12, StreamOrder
    <3>2. Stream[at].ts \in Nat /\ Stream[k].ts \in Nat
      BY <1>2, PacketType
    <3> QED BY <1>2, <1>9, <1>12, <3>1, <3>2
  <2>7. \A i \in DOMAIN evs : evs[i].ts < t.ts
    <3>1. SUFFICES ASSUME NEW i \in DOMAIN evs PROVE evs[i].ts < t.ts
      OBVIOUS
    <3>2. (i \in DOMAIN events /\ evs[i] = events[i]) \/ evs[i] = ev
      BY <1>7
    <3>3. CASE evs[i] = ev
      BY <1>1, <1>2, <1>4, <2>6, <3>3
    <3>4. CASE i \in DOMAIN events /\ evs[i] = events[i]
      <4>1. events[i].ts < Stream[at].ts
        BY <1>2, <2>1, <3>4
      <4>2. events[i] \in Event
        BY <1>7, <3>4
      <4>3. events[i].ts \in Nat
        BY <4>2 DEF Event
      <4>4. Stream[at].ts \in Nat /\ Stream[k].ts \in Nat
        BY <1>2, PacketType
      <4>5. events[i].ts < Stream[k].ts
        BY <2>6, <4>1, <4>3, <4>4
      <4> HIDE DEF evs
      <4> QED BY <1>1, <3>4, <4>5
    <3> QED BY <3>2, <3>3, <3>4
  <2> QED BY <2>2, <2>4, <2>5, <2>7
<1> HIDE DEF evs
<1>13. \A j \in taken \cup {k} : \/ Stream[j].ts \in {evs[i].ts : i \in DOMAIN evs}
                                 \/ Stream[j].ts = t.ts
  <2>1. SUFFICES ASSUME NEW j \in taken
                 PROVE  Stream[j].ts \in {evs[i].ts : i \in DOMAIN evs}
    BY <1>1
  <2>2. Stream[j].ts \in {events[i].ts : i \in DOMAIN events} \/ Stream[j].ts = dp.ts
    BY DEF DepackInv, NothingVanishes, Reported
  <2> QED BY <1>4, <1>10, <2>2
<1>14. NothingLeftOut(t, k, taken \cup {k}, evs)
  BY <1>12, <1>13 DEF NothingLeftOut
<1>15. Assembled(t, k, taken \cup {k}, evs)
  BY <1>3, <1>10, <1>11, <1>14 DEF Assembled
<1> QED BY <1>7, <1>15


(***************************************************************************)
(* The marker                                                              *)
(***************************************************************************)

LEMMA GreatestIsMax ==
  ASSUME NEW S, \A i \in S : i \in Int, NEW x \in S, \A y \in S : x >= y
  PROVE  Max(S) = x
<1> DEFINE m == CHOOSE z \in S : \A y \in S : z >= y
<1>1. m \in S /\ \A y \in S : m >= y
  OBVIOUS
<1>2. Max(S) = m
  BY DEF Max
<1> HIDE DEF m
<1>3. m >= x /\ x >= m /\ m \in Int /\ x \in Int
  BY <1>1
<1> QED BY <1>2, <1>3

\* The marker is on the last packet of its AU.
LEMMA MarkerEnds ==
  ASSUME NEW k \in DOMAIN Stream, Stream[k].marker
  PROVE  Content(Stream[k].ts) = AuUpTo[k]
<1> DEFINE S == {j \in DOMAIN Stream : Stream[j].ts = Stream[k].ts}
<1>1. \A j \in S : j \in Int /\ k >= j
  <2>1. SUFFICES ASSUME NEW j \in S PROVE j \in Int /\ k >= j
    OBVIOUS
  <2>2. j \in DOMAIN Stream /\ j \in Nat /\ k \in Nat /\ Stream[k].ts \in Nat
        /\ Stream[j].ts = Stream[k].ts
    BY PacketType
  <2>3. CASE j > k
    BY <2>2, <2>3, StreamOrder
  <2> QED BY <2>2, <2>3
<1>2. k \in S
  OBVIOUS
<1>3. Max(S) = k
  <2> HIDE DEF S
  <2> QED BY <1>1, <1>2, GreatestIsMax
<1> QED BY <1>3 DEF Content

\* What DepackInv says, of any depacketizer that has seen a packet.
Pushed(d, p, tk, evs) ==
  /\ d \in Fields /\ FuInside(d) /\ Len(d.buf) <= Cap
  /\ d.haveSeq /\ d.lastSeq = WireSeq(p) /\ d.gap = 0
  /\ IF d.haveTs THEN d.packets > 0 /\ d.ts = Stream[p].ts
                 ELSE d.packets = 0 /\ d.lost = 0 /\ Stream[p].marker
  /\ BufferUnbroken(d, p) /\ IntactIsWhole(d, p) /\ BeginsAfterMarker(d, p, evs)
  /\ evs \in Seq(Event) /\ EventsFine(evs, d.resets)
  /\ d.resets = 0 =>
       /\ \A i \in DOMAIN evs :
            IF d.haveTs THEN evs[i].ts < d.ts ELSE evs[i].ts <= Stream[p].ts
       /\ \A k \in tk : k <= p
       /\ \E m \in tk : /\ \A k \in tk : m <= k
                        /\ d.told + d.packets + d.lost = p - m + 1
  /\ \A k \in tk : \/ Stream[k].ts \in {evs[i].ts : i \in DOMAIN evs}
                   \/ d.haveTs /\ Stream[k].ts = d.ts

\* An AU reported complete after a complete one is all there.
LEMMA CompleteAfterMarker ==
  ASSUME NEW t, NEW k \in DOMAIN Stream, NEW evs, t.packets \in Nat,
         t.packets > 0, Intact(t), IntactIsWhole(t, k), BeginsAfterMarker(t, k, evs),
         evs # <<>>, evs[Len(evs)].complete, t.resets = 0, Stream[k].marker
  PROVE  t.buf = Content(Stream[k].ts)
<1>1. k > t.packets /\ Stream[k - t.packets].marker
  BY DEF BeginsAfterMarker, Intact
<1> DEFINE f == k - t.packets + 1
<1>2. k \in 1 .. Len(Stream) /\ Len(Stream) \in Nat
  BY StreamAssumption
<1>3. f - 1 \in DOMAIN Stream /\ f \in DOMAIN Stream /\ f - 1 < f /\ f - 1 = k - t.packets
  <2>1. f - 1 \in 1 .. Len(Stream) /\ f \in 1 .. Len(Stream) /\ f - 1 < f
        /\ f - 1 = k - t.packets
    BY <1>1, <1>2
  <2> HIDE DEF f
  <2> QED BY <2>1, StreamAssumption
<1> HIDE DEF f
<1>4. Stream[f - 1].ts < Stream[f].ts
  BY <1>1, <1>3, StreamOrder
<1>5. Stream[f - 1].ts \in Nat /\ Stream[f].ts \in Nat
  BY <1>3, PacketType
<1>6. FirstOfAu(f)
  BY <1>4, <1>5 DEF FirstOfAu
<1>7. t.buf = AuUpTo[k]
  BY <1>6 DEF IntactIsWhole, f
<1> QED BY <1>7, MarkerEnds


LEMMA AuEnds ==
  ASSUME NEW t \in Fields, FuInside(t), t.packets > 0, NEW k \in DOMAIN Stream,
         Stream[k].marker, NEW e, e = EndAtMarker(t, Stream[k])
  PROVE  /\ e \in Fields /\ ~e.haveTs /\ e.buf = <<>> /\ e.packets = 0 /\ e.lost = 0
         /\ ~e.fuOpen /\ ~e.damaged
         /\ e.haveSeq = t.haveSeq /\ e.lastSeq = t.lastSeq /\ e.gap = t.gap
         /\ e.resets = t.resets /\ e.told = t.told + t.packets + t.lost
         /\ \E ev \in Event :
              /\ e.out = Append(t.out, ev) /\ ev.ts = t.ts
              /\ ev.buf = Settled(t) /\ ev.damaged = t.damaged
              /\ ev.complete => Intact(t) /\ ~t.fuOpen
<1> HIDE DEF Piece, Event
<1> DEFINE byMarker == TRUE
           f == Emit(t, byMarker)
           r == Reset(f, t.ts)
<1>1. byMarker \in BOOLEAN /\ t.ts \in Nat
  BY DEF Fields
<1> HIDE DEF byMarker
<1>2. /\ f \in Fields /\ ~f.fuOpen
      /\ f.haveSeq = t.haveSeq /\ f.lastSeq = t.lastSeq /\ f.haveTs = t.haveTs
      /\ f.ts = t.ts /\ f.gap = t.gap /\ f.resets = t.resets
      /\ f.told = t.told + t.packets + t.lost
      /\ \E ev \in Event :
           /\ f.out = Append(t.out, ev) /\ ev.ts = t.ts
           /\ ev.buf = Settled(t) /\ ev.damaged = t.damaged
           /\ ev.complete => byMarker /\ Intact(t) /\ ~t.fuOpen
  BY <1>1, EmitReports
<1> HIDE DEF f
<1>3. r \in Fields /\ NewAu(r, t.ts) /\ SameSeq(r, f)
  BY <1>1, <1>2, ResetOpens
<1>4. e = [r EXCEPT !.haveTs = FALSE]
  BY DEF EndAtMarker, f, byMarker
<1> HIDE DEF r
<1>5. FALSE \in BOOLEAN
  OBVIOUS
<1>6. e \in Fields
  BY <1>3, <1>4, <1>5 DEF Fields
<1>7. /\ ~e.haveTs /\ e.buf = r.buf /\ e.packets = r.packets /\ e.lost = r.lost
      /\ e.fuOpen = r.fuOpen /\ e.damaged = r.damaged /\ SameSeq(e, r)
  BY <1>3, <1>4 DEF Fields, SameSeq
<1>8. /\ e.buf = <<>> /\ e.packets = 0 /\ e.lost = 0 /\ ~e.fuOpen /\ ~e.damaged
  BY <1>3, <1>7 DEF NewAu
<1>9. SameSeq(e, f)
  BY <1>3, <1>7 DEF SameSeq
<1>10. PICK ev \in Event :
           /\ f.out = Append(t.out, ev) /\ ev.ts = t.ts
           /\ ev.buf = Settled(t) /\ ev.damaged = t.damaged
           /\ ev.complete => byMarker /\ Intact(t) /\ ~t.fuOpen
  BY <1>2
<1>11. e.out = Append(t.out, ev)
  BY <1>9, <1>10 DEF SameSeq
<1> HIDE DEF Fields
<1> QED BY <1>2, <1>6, <1>7, <1>8, <1>9, <1>10, <1>11 DEF SameSeq

LEMMA PacketEnds ==
  ASSUME NEW k \in DOMAIN Stream, NEW tk, tk \subseteq DOMAIN Stream, NEW evs, NEW t,
         Assembled(t, k, tk, evs), NEW e, e = EndAtMarker(t, Stream[k])
  PROVE  \/ e.out = t.out /\ Pushed(e, k, tk, evs)
         \/ \E ev \in Event :
              e.out = Append(t.out, ev) /\ Pushed(e, k, tk, Append(evs, ev))
<1> HIDE DEF Piece, Event, Fields
<1>1. CASE ~Stream[k].marker
  <2>1. e = t
    BY <1>1 DEF EndAtMarker
  <2>2. \A i \in DOMAIN evs : t.haveTs => (t.resets = 0 => evs[i].ts < t.ts)
    BY DEF Assembled, NothingLeftOut
  <2>3. Pushed(t, k, tk, evs)
    BY <2>2 DEF Pushed, Assembled, NothingLeftOut, InOpenAu
  <2> QED BY <2>1, <2>3
<1>2. CASE Stream[k].marker
  <2>1. /\ t \in Fields /\ FuInside(t) /\ t.packets > 0 /\ t.ts = Stream[k].ts
        /\ t.haveSeq /\ t.lastSeq = WireSeq(k) /\ t.gap = 0
        /\ BufferUnbroken(t, k) /\ IntactIsWhole(t, k) /\ BeginsAfterMarker(t, k, evs)
        /\ evs \in Seq(Event) /\ EventsFine(evs, t.resets) /\ NothingLeftOut(t, k, tk, evs)
    BY DEF Assembled, InOpenAu
  <2>2. /\ e \in Fields /\ ~e.haveTs /\ e.buf = <<>> /\ e.packets = 0 /\ e.lost = 0
        /\ ~e.fuOpen /\ ~e.damaged
        /\ e.haveSeq = t.haveSeq /\ e.lastSeq = t.lastSeq /\ e.gap = t.gap
        /\ e.resets = t.resets /\ e.told = t.told + t.packets + t.lost
        /\ \E ev \in Event :
              /\ e.out = Append(t.out, ev) /\ ev.ts = t.ts
              /\ ev.buf = Settled(t) /\ ev.damaged = t.damaged
              /\ ev.complete => Intact(t) /\ ~t.fuOpen
    <3>1. t \in Fields /\ FuInside(t) /\ t.packets > 0
      BY <2>1
    <3> QED BY <1>2, <3>1, AuEnds
  <2>3. PICK ev \in Event :
              /\ e.out = Append(t.out, ev) /\ ev.ts = t.ts
              /\ ev.buf = Settled(t) /\ ev.damaged = t.damaged
              /\ ev.complete => Intact(t) /\ ~t.fuOpen
    BY <2>2
  <2> DEFINE new == Append(evs, ev)
  <2>4. ~ev.damaged => Unbroken(ev.buf, FALSE)
    BY <2>1, <2>3, SettledUnbroken
  <2>5. /\ t.resets \in Nat /\ t.packets \in Nat /\ t.lost \in Nat /\ t.told \in Nat
        /\ t.resets <= t.resets /\ Cap \in Nat
    BY <2>1, DepackAssumption DEF Fields
  <2>6. t.resets = 0 => \A i \in DOMAIN evs : evs[i].ts < ev.ts
    BY <2>1, <2>3 DEF NothingLeftOut
  <2>7. ev.complete => \/ ev.buf = Content(ev.ts) \/ evs = <<>>
                       \/ ~evs[Len(evs)].complete \/ t.resets > 0
    <3>1. SUFFICES ASSUME ev.complete, evs # <<>>, evs[Len(evs)].complete,
                          ~(t.resets > 0)
                   PROVE  ev.buf = Content(ev.ts)
      OBVIOUS
    <3>2. Intact(t) /\ ~t.fuOpen /\ t.resets = 0
      BY <2>3, <2>5, <3>1
    <3>3. t.buf = Content(Stream[k].ts)
      BY <1>2, <2>1, <2>5, <3>1, <3>2, CompleteAfterMarker
    <3> QED BY <2>1, <2>3, <3>2, <3>3 DEF Settled
  <2>8. /\ EventsFine(new, t.resets) /\ new \in Seq(Event) /\ new # <<>>
        /\ new[Len(new)] = ev
        /\ {evs[i].ts : i \in DOMAIN evs} \subseteq {new[i].ts : i \in DOMAIN new}
        /\ ev.ts \in {new[i].ts : i \in DOMAIN new}
    BY <2>1, <2>3, <2>4, <2>5, <2>6, <2>7, EventAdded
  <2>9. BufferUnbroken(e, k) /\ IntactIsWhole(e, k) /\ FuInside(e) /\ Len(e.buf) <= Cap
    <3>1. BufferUnbroken(e, k)
      BY <2>2, NothingUnbroken DEF BufferUnbroken
    <3>2. IntactIsWhole(e, k) /\ FuInside(e)
      BY <2>2 DEF IntactIsWhole, FuInside
    <3> QED BY <2>2, <2>5, <3>1, <3>2
  <2>10. BeginsAfterMarker(e, k, new)
    <3>1. k > 0 /\ k - 0 = k
      BY PacketType
    <3> HIDE DEF new
    <3> QED BY <1>2, <2>2, <3>1 DEF BeginsAfterMarker
  <2>11. ASSUME e.resets = 0
         PROVE  /\ \A i \in DOMAIN new : new[i].ts <= Stream[k].ts
                /\ \A j \in tk : j <= k
                /\ \E m \in tk : /\ \A j \in tk : m <= j
                                 /\ e.told + e.packets + e.lost = k - m + 1
    <3>1. /\ \A i \in DOMAIN evs : evs[i].ts < t.ts
          /\ \A j \in tk : j <= k
          /\ \E m \in tk : /\ \A j \in tk : m <= j
                           /\ t.told + t.packets + t.lost = k - m + 1
      BY <2>1, <2>2, <2>11 DEF NothingLeftOut
    <3>2. e.told + e.packets + e.lost = t.told + t.packets + t.lost
      BY <2>2, <2>5
    <3>3. \A i \in DOMAIN new : new[i].ts <= Stream[k].ts
      <4>1. SUFFICES ASSUME NEW i \in DOMAIN new PROVE new[i].ts <= Stream[k].ts
        OBVIOUS
      <4>2. (i \in DOMAIN evs /\ new[i] = evs[i]) \/ new[i] = ev
        BY <2>1
      <4>3. Stream[k].ts \in Nat
        BY PacketType
      <4>4. CASE new[i] = ev
        BY <2>1, <2>3, <4>3, <4>4
      <4>5. CASE i \in DOMAIN evs /\ new[i] = evs[i]
        <5>1. evs[i].ts < Stream[k].ts
          BY <2>1, <3>1, <4>5
        <5>2. evs[i] \in Event
          BY <2>1, <4>5
        <5>3. evs[i].ts \in Nat
          BY <5>2 DEF Event
        <5>4. evs[i].ts <= Stream[k].ts
          BY <4>3, <5>1, <5>3
        <5> HIDE DEF new
        <5> QED BY <4>5, <5>4
      <4> QED BY <4>2, <4>4, <4>5
    <3> QED BY <3>1, <3>2, <3>3
  <2>12. \A j \in tk : Stream[j].ts \in {new[i].ts : i \in DOMAIN new}
    <3> HIDE DEF new
    <3> QED BY <2>1, <2>3, <2>8 DEF NothingLeftOut
  <2>13. Pushed(e, k, tk, new)
    <3> HIDE DEF new
    <3> QED BY <1>2, <2>1, <2>2, <2>8, <2>9, <2>10, <2>11, <2>12 DEF Pushed
  <2> QED BY <2>3, <2>13
<1> QED BY <1>1, <1>2


(***************************************************************************)
(* The inductive invariant                                                 *)
(***************************************************************************)

LEMMA InvIsPushed ==
  ASSUME DepackInv, dp.haveSeq
  PROVE  Pushed(dp, at, taken, events)
<1> HIDE DEF Piece, Event, Fields
<1>1. events \in Seq(Event) /\ EventsFine(events, dp.resets)
  BY ReportedFine
<1>2. /\ dp \in Fields /\ FuInside(dp) /\ Len(dp.buf) <= Cap
      /\ dp.lastSeq = WireSeq(at) /\ dp.gap = 0
      /\ IF dp.haveTs THEN dp.packets > 0 /\ dp.ts = Stream[at].ts
                      ELSE dp.packets = 0 /\ dp.lost = 0 /\ Stream[at].marker
      /\ BufferUnbroken(dp, at) /\ IntactIsWhole(dp, at)
      /\ BeginsAfterMarker(dp, at, events)
  BY DEF DepackInv, DepackTypes, SeqTells, OpenUntilMarker, FuInside
<1>3. dp.resets = 0 =>
       /\ \A i \in DOMAIN events :
            IF dp.haveTs THEN events[i].ts < dp.ts ELSE events[i].ts <= Stream[at].ts
       /\ \A k \in taken : k <= at
       /\ \E m \in taken : /\ \A k \in taken : m <= k
                           /\ dp.told + dp.packets + dp.lost = at - m + 1
  BY DEF DepackInv, InOrder, LastIsGreatest, CountIsSpan
<1>4. \A k \in taken : \/ Stream[k].ts \in {events[i].ts : i \in DOMAIN events}
                       \/ dp.haveTs /\ Stream[k].ts = dp.ts
  BY DEF DepackInv, NothingVanishes, Reported
<1> QED BY <1>1, <1>2, <1>3, <1>4 DEF Pushed

LEMMA PushedIsInv ==
  ASSUME Pushed(dp', at', taken', events'), base \in FirstSeq, base' = base,
         taken' \subseteq DOMAIN Stream, at' \in taken', newest' \in Nat,
         strays' \in Nat, newest' - Window < at', at' <= newest'
  PROVE  DepackInv'
<1> HIDE DEF Piece, Event, Fields
<1>1. DepackTypes'
  <2>1. at' \in Nat
    BY PacketType
  <2> QED BY <2>1 DEF DepackTypes, Pushed, FuInside
<1>2. SeqTells'
  BY DEF SeqTells, Pushed, WireSeq
<1>3. OpenUntilMarker' /\ BufferUnbroken(dp, at)' /\ IntactIsWhole(dp, at)'
      /\ BeginsAfterMarker(dp, at, events)'
  BY DEF OpenUntilMarker, Pushed
<1>4. InOrder' /\ LastIsGreatest' /\ CountIsSpan'
  BY DEF InOrder, LastIsGreatest, CountIsSpan, Pushed
<1>5. WholeNals' /\ CompleteIsWhole'
  BY DEF WholeNals, CompleteIsWhole, Pushed, EventsFine
<1>6. NothingVanishes'
  BY DEF NothingVanishes, Reported, Pushed, EventsFine
<1> QED BY <1>1, <1>2, <1>3, <1>4, <1>5, <1>6 DEF DepackInv

LEMMA NewestIs ==
  ASSUME NEW a \in Nat, NEW k \in Nat
  PROVE  Max({a, k}) = IF k <= a THEN a ELSE k
<1>1. \A i \in {a, k} : i \in Int
  OBVIOUS
<1>2. CASE k <= a
  <2>1. a \in {a, k} /\ \A y \in {a, k} : a >= y
    BY <1>2
  <2> QED BY <1>1, <1>2, <2>1, GreatestIsMax
<1>3. CASE ~(k <= a)
  <2>1. k \in {a, k} /\ \A y \in {a, k} : k >= y
    BY <1>3
  <2> QED BY <1>1, <1>3, <2>1, GreatestIsMax
<1> QED BY <1>2, <1>3

LEMMA SplitAppend ==
  ASSUME NEW evs, NEW out, evs \in Seq(Event), out \in Seq(Event), NEW ev \in Event
  PROVE  evs \o Append(out, ev) = Append(evs \o out, ev)
<1> HIDE DEF Event
<1> QED OBVIOUS


LEMMA ArriveKeeps ==
  ASSUME DepackInv, NEW k \in DOMAIN Stream, Arrive(k)
  PROVE  DepackInv'
<1> HIDE DEF Piece, Event, Fields
<1>1. /\ k > newest - Window /\ (newest > 0 => k <= newest + Ahead)
      /\ dp' = Push(dp, Stream[k], WireSeq(k)) /\ events' = events \o dp'.out
      /\ newest' = Max({newest, k})
      /\ strays' = IF k <= newest THEN strays + 1 ELSE strays
      /\ base' = base /\ base \in FirstSeq
  BY DEF Arrive, DepackInv, DepackTypes
<1>2. /\ k \in Nat /\ at \in Nat /\ newest \in Nat /\ strays \in Nat /\ Window \in Nat \ {0}
      /\ dp \in Fields /\ events \in Seq(Event) /\ taken \subseteq DOMAIN Stream
      /\ DepackTypes /\ SeqTells
  BY PacketType, NetworkAssumption DEF DepackInv, DepackTypes
<1>3. newest' = IF k <= newest THEN newest ELSE k
  BY <1>1, <1>2, NewestIs
<1>4. strays' \in Nat /\ newest' \in Nat
  BY <1>1, <1>2, <1>3
<1>5. CASE IsLate(dp, WireSeq(k))
  <2>1. /\ dp' = [dp EXCEPT !.late = @ + 1, !.out = <<>>] /\ taken' = taken /\ at' = at
    BY <1>5 DEF Push, Arrive
  <2>2. dp.haveSeq
    BY <1>5 DEF IsLate
  <2>3. k <= at /\ at \in taken /\ newest - Window < at /\ at <= newest
    <3>1. IsLate(dp, WireSeq(k)) => k <= at
      BY <1>1, <1>2, <2>2, StepTells
    <3> QED BY <1>2, <1>5, <2>2, <3>1 DEF SeqTells
  <2>4. newest' = newest
    BY <1>2, <1>3, <2>3
  <2> DEFINE more == dp.late + 1
  <2>5. more \in Nat /\ dp' = [dp EXCEPT !.late = more, !.out = <<>>]
        /\ <<>> \in Seq(Event)
    <3>1. dp.late \in Nat
      BY <1>2 DEF Fields
    <3>2. more \in Nat /\ <<>> \in Seq(Event)
      BY <3>1
    <3> QED BY <2>1, <3>2
  <2> HIDE DEF more
  <2>6. /\ dp' \in Fields /\ dp'.out = <<>> /\ SameCount(dp', [dp EXCEPT !.out = <<>>])
        /\ dp'.buf = dp.buf /\ dp'.lostFrag = dp.lostFrag /\ dp'.damaged = dp.damaged
        /\ dp'.fuOpen = dp.fuOpen /\ dp'.fuStart = dp.fuStart /\ dp'.orphan = dp.orphan
    BY <1>2, <2>5 DEF Fields, SameCount, SameAu
  <2>7. /\ dp'.haveSeq = dp.haveSeq /\ dp'.lastSeq = dp.lastSeq
        /\ dp'.haveTs = dp.haveTs /\ dp'.ts = dp.ts /\ dp'.resets = dp.resets
        /\ dp'.told = dp.told /\ dp'.gap = dp.gap /\ dp'.packets = dp.packets
        /\ dp'.lost = dp.lost
    BY <1>2, <2>5 DEF Fields
  <2>8. events' = events
    BY <1>1, <1>2, <2>6, NoneAppended
  <2>9. Pushed(dp, at, taken, events)
    BY <2>2, InvIsPushed
  <2>10. /\ FuInside(dp') /\ BufferUnbroken(dp', at) /\ IntactIsWhole(dp', at)
         /\ BeginsAfterMarker(dp', at, events)
    <3>1. Intact(dp') <=> Intact(dp)
      BY <2>6, <2>7 DEF Intact
    <3> QED BY <2>6, <2>7, <2>9, <3>1
            DEF Pushed, FuInside, BufferUnbroken, IntactIsWhole, BeginsAfterMarker
  <2>11. Pushed(dp', at', taken', events')
    BY <2>1, <2>6, <2>7, <2>8, <2>9, <2>10 DEF Pushed
  <2> QED BY <1>1, <1>2, <1>4, <2>1, <2>3, <2>4, <2>11, PushedIsInv
<1>6. CASE ~IsLate(dp, WireSeq(k))
  <2> DEFINE t == Takes(k)
  <2>1. /\ dp' = EndAtMarker(t, Stream[k]) /\ taken' = taken \cup {k} /\ at' = k
    BY <1>1, <1>6 DEF Push, Arrive, Takes
  <2>2. PICK d \in Fields : Grew(t, d, k) /\ (GoesOn(d, k) \/ Opens(d, k) \/ Cuts(d, k))
    BY <1>1, <1>6, PacketTaken
  <2> HIDE DEF t
  <2>3. Assembled(t, k, taken \cup {k}, events \o t.out)
    BY <2>2, AfterGoesOn, AfterOpens, AfterCuts
  <2> DEFINE evs == events \o t.out
             tk == taken \cup {k}
  <2>4. t.out \in Seq(Event) /\ tk \subseteq DOMAIN Stream
    <3>1. t \in Fields
      BY <2>2 DEF Grew
    <3> QED BY <1>2, <3>1 DEF Fields
  <2>5. \/ dp'.out = t.out /\ Pushed(dp', k, tk, evs)
        \/ \E ev \in Event :
             dp'.out = Append(t.out, ev) /\ Pushed(dp', k, tk, Append(evs, ev))
    <3> HIDE DEF evs, tk
    <3>1. Assembled(t, k, tk, evs)
      BY <2>3 DEF evs, tk
    <3>2. dp' = EndAtMarker(t, Stream[k])
      BY <2>1
    <3> QED BY <2>4, <3>1, <3>2, PacketEnds, ZenonT(60)
  <2>6. Pushed(dp', k, tk, events')
    <3>1. CASE dp'.out = t.out /\ Pushed(dp', k, tk, evs)
      BY <1>1, <3>1
    <3>2. ASSUME NEW ev \in Event, dp'.out = Append(t.out, ev),
                 Pushed(dp', k, tk, Append(evs, ev))
          PROVE  Pushed(dp', k, tk, events')
      <4>1. events' = events \o Append(t.out, ev)
        BY <1>1, <3>2
      <4>2. events \in Seq(Event) /\ t.out \in Seq(Event)
        BY <1>2, <2>4
      <4>3. events \o Append(t.out, ev) = Append(events \o t.out, ev)
        BY <4>2, SplitAppend
      <4> QED BY <3>2, <4>1, <4>3
    <3> QED BY <2>5, <3>1, <3>2
  <2>7. at' \in taken' /\ newest' - Window < at' /\ at' <= newest'
    BY <1>1, <1>2, <1>3, <2>1
  <2> QED BY <1>1, <1>4, <2>1, <2>4, <2>6, <2>7, PushedIsInv
<1> QED BY <1>5, <1>6

(* Whatever packets the network loses, repeats and reorders, and for every    *)
(* stream and every size of the windows and the buffer: the depacketizer     *)
(* keeps its invariant.                                                     *)
THEOREM DepackInvariant == DepackSpec => []DepackInv
<1>1. DepackInit => DepackInv
  <2> SUFFICES ASSUME DepackInit PROVE DepackInv
    OBVIOUS
  <2> HIDE DEF Piece, Event
  <2>1. /\ dp = Fresh /\ base \in FirstSeq /\ taken = {} /\ at = 0 /\ newest = 0
        /\ strays = 0 /\ events = <<>>
    BY DEF DepackInit
  <2>2. Cap \in Nat /\ <<>> \in Seq(Event) /\ <<>> \in Seq(Piece)
    BY DepackAssumption
  <2>3. Fresh \in Fields
    BY <2>2 DEF Fresh, Fields
  <2>4. DepackTypes
    BY <2>1, <2>2, <2>3 DEF DepackTypes, Fresh
  <2>5. SeqTells /\ OpenUntilMarker
    BY <2>1 DEF SeqTells, OpenUntilMarker, Fresh
  <2>6. BufferUnbroken(dp, at) /\ IntactIsWhole(dp, at)
    <3>1. ~dp.fuOpen /\ dp.buf = <<>> /\ dp.packets = 0
      BY <2>1 DEF Fresh
    <3>2. BufferUnbroken(dp, at)
      BY <3>1, NothingUnbroken DEF BufferUnbroken
    <3>3. IntactIsWhole(dp, at)
      BY <3>1 DEF IntactIsWhole
    <3> QED BY <3>2, <3>3
  <2>7. BeginsAfterMarker(dp, at, events) /\ InOrder /\ LastIsGreatest /\ CountIsSpan
    BY <2>1 DEF BeginsAfterMarker, InOrder, LastIsGreatest, CountIsSpan, Fresh
  <2>8. WholeNals /\ CompleteIsWhole /\ NothingVanishes
    BY <2>1 DEF WholeNals, CompleteIsWhole, NothingVanishes
  <2> QED BY <2>4, <2>5, <2>6, <2>7, <2>8 DEF DepackInv
<1>2. DepackInv /\ [DepackNext]_depackVars => DepackInv'
  <2> SUFFICES ASSUME DepackInv, [DepackNext]_depackVars PROVE DepackInv'
    OBVIOUS
  <2>1. CASE DepackNext
    BY <2>1, ArriveKeeps DEF DepackNext
  <2>2. CASE UNCHANGED depackVars
    <3>1. /\ dp' = dp /\ base' = base /\ taken' = taken /\ at' = at
          /\ newest' = newest /\ strays' = strays /\ events' = events
      BY <2>2 DEF depackVars
    <3>2. DepackTypes' /\ SeqTells' /\ OpenUntilMarker'
      BY <3>1 DEF DepackInv, DepackTypes, SeqTells, OpenUntilMarker, WireSeq
    <3>3. BufferUnbroken(dp, at)' /\ IntactIsWhole(dp, at)'
          /\ BeginsAfterMarker(dp, at, events)'
      BY <3>1 DEF DepackInv
    <3>4. InOrder' /\ LastIsGreatest' /\ CountIsSpan' /\ WholeNals' /\ CompleteIsWhole'
          /\ NothingVanishes'
      BY <3>1 DEF DepackInv, InOrder, LastIsGreatest, CountIsSpan, WholeNals,
                  CompleteIsWhole, NothingVanishes, Reported
    <3> QED BY <3>2, <3>3, <3>4 DEF DepackInv
  <2> QED BY <2>1, <2>2
<1> QED BY <1>1, <1>2, PTL DEF DepackSpec

(* The decoder never gets half a NAL unit unless the AU is marked damaged.    *)
THEOREM WholeNalsHolds == DepackSpec => []WholeNals
<1>1. DepackInv => WholeNals
  BY DEF DepackInv
<1> QED BY <1>1, DepackInvariant, PTL

(* An AU reported complete after a complete one is all of what was sent, as   *)
(* long as the sequence was not reset.                                      *)
THEOREM CompleteIsWholeHolds == DepackSpec => []CompleteIsWhole
<1>1. DepackInv => CompleteIsWhole
  BY DEF DepackInv
<1> QED BY <1>1, DepackInvariant, PTL

(* Packets assembled and packets counted as lost are all those from the first *)
(* to the last one accepted, across the wraparound of the sequence numbers.  *)
THEOREM EveryPacketAccountedHolds == DepackSpec => []EveryPacketAccounted
<1>1. DepackInv => EveryPacketAccounted
  <2> SUFFICES ASSUME DepackInv, taken # {}, dp.resets = 0
               PROVE  dp.told + dp.packets + dp.lost = Max(taken) - Min(taken) + 1
    BY DEF EveryPacketAccounted
  <2>1. dp.haveSeq /\ at \in taken
    BY DEF DepackInv, SeqTells
  <2>2. PICK m \in taken : /\ \A k \in taken : m <= k
                           /\ dp.told + dp.packets + dp.lost = at - m + 1
    BY <2>1 DEF DepackInv, CountIsSpan
  <2>3. \A k \in taken : k \in Int /\ k <= at
    BY PacketType DEF DepackInv, DepackTypes, LastIsGreatest
  <2>4. Max(taken) = at
    <3>1. \A k \in taken : at >= k
      BY <2>1, <2>3
    <3> QED BY <2>1, <2>3, <3>1, GreatestIsMax
  <2>5. Min(taken) = m
    <3> DEFINE z == CHOOSE x \in taken : \A y \in taken : x <= y
    <3>1. z \in taken /\ \A y \in taken : z <= y
      BY <2>2
    <3>2. Min(taken) = z
      BY DEF Min
    <3> HIDE DEF z
    <3>3. z <= m /\ m <= z /\ z \in Int /\ m \in Int
      BY <2>2, <2>3, <3>1
    <3> QED BY <3>2, <3>3
  <2> QED BY <2>2, <2>4, <2>5
<1> QED BY <1>1, DepackInvariant, PTL

(* Every AU of which a packet was accepted is reported or still open, and AUs *)
(* are reported in order.                                                   *)
THEOREM NothingVanishesHolds == DepackSpec => []NothingVanishes
<1>1. DepackInv => NothingVanishes
  BY DEF DepackInv
<1> QED BY <1>1, DepackInvariant, PTL
=============================================================================
