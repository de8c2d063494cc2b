---------------------------- MODULE WebRtcProofs ----------------------------
(***************************************************************************)
(* The WebRTC tree: inside one process, that no thread writes to a trace    *)
(* that is closed, for any number of messages and samples (WebRtcSession);  *)
(* between processes, that a receiver's answer reaches one sender at most   *)
(* and that the relay does not lose who registered last, for any number of  *)
(* processes and names (WebRtcCall).                                       *)
(***************************************************************************)
EXTENDS WebRtcCall, WebRtcSession, FiniteSetTheorems, SequenceTheorems, TLAPS

(***************************************************************************)
(* One process                                                             *)
(***************************************************************************)

\* Shutdown has taken the closure of the peer connection to its thread.
Closing == "close" \in calls \/ sig \in {"remove", "close"}

\* The receive thread has exited when Shutdown goes on from Stop.
RxJoined ==
  main \in {"lock", "joinCapture", "close", "gone"} \/ Closing => rx = "exit"

\* A call is that of a thread that waits for it; a sample comes before the stop.
CallsAreAwaited ==
  /\ rx = "lock" => msg \in {"opening", "answer"}
  /\ calls \cap {"opening", "answer"} \subseteq {msg}
  /\ calls \cap {"opening", "answer"} # {} => rx = "called"
  /\ sig \in {"remove", "close"} => "close" \notin calls
  /\ "stats" \in calls => main = "called" /\ socket = "open"
  /\ main \in {"loop", "tick", "await"} => socket = "open"
  /\ Closing => main = "called" /\ socket = "closed"
  /\ main \in {"lock", "joinCapture"} => socket = "closed"

\* The capture thread is joined before the peer connection is closed.
CaptureJoined == Closing \/ main \in {"close", "gone"} => capture \in {"none", "off"}

\* Media threads write while the connection is open, and it is closed first.
MediaStopped ==
  /\ media # "idle" => pc = "open"
  /\ main \in {"close", "gone"} => pc # "open"

\* Traces are closed at the end, and none is opened behind it.
ClosedLate ==
  /\ frameTrace = "closed" => main \in {"close", "gone"}
  /\ mediaTrace = "closed" => main = "gone"
  /\ main = "gone" => frameTrace # "open" /\ mediaTrace # "open"

SessionInv == RxJoined /\ CallsAreAwaited /\ CaptureJoined /\ MediaStopped /\ ClosedLate

(* In every state the traces that are closed have no writer: the threads    *)
(* were joined or stopped before, in the order of Shutdown.                *)
LEMMA SessionInvInitially == SessionInit => SessionInv
  BY DEF SessionInit, SessionInv, RxJoined, CallsAreAwaited, CaptureJoined,
         MediaStopped, ClosedLate, Closing

\* Every step of every thread keeps the order of Shutdown.
LEMMA SessionInvStep == SessionInv /\ [SessionNext]_sessionVars => SessionInv'
<1> SUFFICES ASSUME SessionInv, [SessionNext]_sessionVars PROVE SessionInv'
  OBVIOUS
<1> USE DEF SessionInv, RxJoined, CallsAreAwaited, CaptureJoined, MediaStopped,
            ClosedLate, Closing, mainVars, rxVars, sigVars, locks, mediaVars, traces
<1>1. CASE RxReceives BY <1>1 DEF RxReceives
<1>2. CASE RxExits BY <1>2 DEF RxExits
<1>3. CASE RxLocks BY <1>3 DEF RxLocks, Posted
<1>4. CASE RxUnlocks BY <1>4 DEF RxUnlocks
<1>5. CASE OpenPeer BY <1>5 DEF OpenPeer, Calls
<1>6. CASE ApplyAnswer BY <1>6 DEF ApplyAnswer, Calls
<1>7. CASE AskStats BY <1>7 DEF AskStats, Calls
<1>8. CASE DeliverStats BY <1>8 DEF DeliverStats
<1>9. CASE GatheringEnds BY <1>9 DEF GatheringEnds
<1>10. CASE SendReturns BY <1>10 DEF SendReturns
<1>11. CASE BeginClose BY <1>11 DEF BeginClose, Calls
<1>12. CASE RemoveSink BY <1>12 DEF RemoveSink
<1>13. CASE ClosePeer BY <1>13 DEF ClosePeer
<1>14. CASE CaptureStep
  BY <1>14 DEF CaptureStep, CaptureSleeps, CaptureWakes, CaptureWrites, CaptureExits
<1>15. CASE MediaStep BY <1>15 DEF MediaStep, MediaBegins, MediaWrites
<1>16. CASE TickDue BY <1>16 DEF TickDue
<1>17. CASE Tick BY <1>17 DEF Tick, Posted
<1>18. CASE StatsEnd BY <1>18 DEF StatsEnd
<1>19. CASE StopRequested BY <1>19 DEF StopRequested
<1>20. CASE JoinRx BY <1>20 DEF JoinRx
<1>21. CASE StopCapture BY <1>21 DEF StopCapture
<1>22. CASE JoinCapture BY <1>22 DEF JoinCapture, Posted
<1>23. CASE CloseTraces BY <1>23 DEF CloseTraces
<1>24. CASE UNCHANGED sessionVars BY <1>24 DEF sessionVars
<1> QED
  BY <1>1, <1>2, <1>3, <1>4, <1>5, <1>6, <1>7, <1>8, <1>9, <1>10, <1>11, <1>12,
     <1>13, <1>14, <1>15, <1>16, <1>17, <1>18, <1>19, <1>20, <1>21, <1>22, <1>23,
     <1>24 DEF SessionNext, RxStep, SigStep, MainStep

(* "No writer left dangling": whatever the stop meets, no thread has a row  *)
(* in hand for a trace that is closed, and none opens behind Shutdown.      *)
THEOREM NoWriterLeftHolds == SessionSpec => []NoWriterLeft
<1>1. SessionInv => NoWriterLeft
  BY DEF SessionInv, NoWriterLeft, CaptureJoined, MediaStopped, ClosedLate
<1> QED
  BY <1>1, SessionInvInitially, SessionInvStep, PTL DEF SessionSpec

(***************************************************************************)
(* Several processes: queues and messages                                   *)
(***************************************************************************)

LEMMA TailMail ==
  ASSUME NEW q \in Seq(WebMessages), q # <<>>
  PROVE  /\ Tail(q) \in Seq(WebMessages) /\ Head(q) \in WebMessages
         /\ 1 \in DOMAIN q /\ Head(q) = q[1]
         /\ \A i \in DOMAIN Tail(q) : i + 1 \in DOMAIN q /\ i + 1 # 1 /\ Tail(q)[i] = q[i + 1]
  OBVIOUS

LEMMA AppendMail ==
  ASSUME NEW q \in Seq(WebMessages), NEW m \in WebMessages
  PROVE  /\ Append(q, m) \in Seq(WebMessages)
         /\ \A i \in DOMAIN Append(q, m) :
              (i \in DOMAIN q /\ Append(q, m)[i] = q[i])
                \/ (i = Len(q) + 1 /\ Append(q, m)[i] = m)
         /\ \A i \in DOMAIN q : i # Len(q) + 1
  OBVIOUS

LEMMA WebMessageTypes ==
  /\ [type |-> "register"] \in WebMessages
  /\ \A r \in Receivers : Ready(r) \in WebMessages /\ Ready(r).type = "ready"
  /\ \A s \in Senders : Offer(s) \in WebMessages /\ Offer(s).type = "offer"
  /\ \A r \in Receivers, s \in Senders : Answer(r, s) \in WebMessages
  /\ \A r, s : Answer(r, s).type = "answer" /\ Answer(r, s).by = r
  BY CallAssumption DEF WebMessages, Ready, Offer, Answer

LEMMA WebMessageFields ==
  ASSUME NEW m \in WebMessages
  PROVE  /\ m.type = "offer" => m.from \in Senders
         /\ m.type = "answer" =>
              /\ m.by \in Receivers /\ m.offer \in Senders
              /\ m \in [type : {"answer"}, by : Receivers, offer : Senders]
  BY DEF WebMessages

\* Queue p has no answer of r that queue q had not.
Fewer(p, q, r) ==
  (Holds(p, r) => Holds(q, r)) /\ (HoldsOne(q, r) => HoldsOne(p, r))

LEMMA SameHolds == \A q, r : Fewer(q, q, r)
  BY DEF Fewer

LEMMA NothingHolds == \A r : ~Holds(<<>>, r) /\ HoldsOne(<<>>, r)
  BY DEF Holds, HoldsOne

LEMMA TailHolds ==
  ASSUME NEW q \in Seq(WebMessages), q # <<>>, NEW r
  PROVE  /\ Fewer(Tail(q), q, r)
         /\ AnswerOf(Head(q), r) => Holds(q, r)
         /\ AnswerOf(Head(q), r) /\ HoldsOne(q, r) => ~Holds(Tail(q), r)
<1> DEFINE p == Tail(q)
<1>1. /\ 1 \in DOMAIN q /\ Head(q) = q[1]
      /\ \A i \in DOMAIN p : i + 1 \in DOMAIN q /\ i + 1 # 1 /\ p[i] = q[i + 1]
      /\ DOMAIN p \subseteq Nat
  BY TailMail
<1> HIDE DEF p
<1>2. Holds(p, r) => Holds(q, r)
  BY <1>1 DEF Holds
<1>3. ASSUME HoldsOne(q, r), NEW i \in DOMAIN p, NEW j \in DOMAIN p,
             AnswerOf(p[i], r), AnswerOf(p[j], r)
      PROVE  i = j
  <2>1. i + 1 = j + 1
    BY <1>1, <1>3 DEF HoldsOne
  <2> QED BY <1>1, <2>1
<1>4. HoldsOne(q, r) => HoldsOne(p, r)
  BY <1>3 DEF HoldsOne
<1>5. AnswerOf(Head(q), r) => Holds(q, r)
  BY <1>1 DEF Holds
<1>6. AnswerOf(Head(q), r) /\ HoldsOne(q, r) => ~Holds(p, r)
  BY <1>1 DEF Holds, HoldsOne
<1> QED BY <1>2, <1>4, <1>5, <1>6 DEF Fewer, p

LEMMA AppendHolds ==
  ASSUME NEW q \in Seq(WebMessages), NEW m \in WebMessages, NEW r
  PROVE  /\ ~AnswerOf(m, r) => Fewer(Append(q, m), q, r)
         /\ ~Holds(q, r) => HoldsOne(Append(q, m), r)
<1> DEFINE p == Append(q, m)
           n == Len(q) + 1
<1>1. /\ \A i \in DOMAIN p : (i \in DOMAIN q /\ p[i] = q[i]) \/ (i = n /\ p[i] = m)
      /\ \A i \in DOMAIN q : i # n
  BY AppendMail
<1> HIDE DEF p, n
<1>2. ~AnswerOf(m, r) => (Holds(p, r) => Holds(q, r))
  BY <1>1 DEF Holds
<1>3. ~AnswerOf(m, r) => (HoldsOne(q, r) => HoldsOne(p, r))
  BY <1>1 DEF HoldsOne
<1>4. ~Holds(q, r) => HoldsOne(p, r)
  BY <1>1 DEF Holds, HoldsOne
<1> QED BY <1>2, <1>3, <1>4 DEF Fewer, p

(* What each way to use a queue does.                                       *)

\* No connection has a registration to be read that it had not before.
NoNewRegister ==
  \A d \in Conns : \A i \in DOMAIN toRelay'[d] :
    toRelay'[d][i].type = "register" =>
      i \in DOMAIN toRelay[d] /\ toRelay[d][i].type = "register"

LEMMA ReadsMail ==
  ASSUME CallTypes, RegistersOnce, NEW c \in Conns, NEW type, Reads(c, type)
  PROVE  /\ toRelay' \in [Conns -> Seq(WebMessages)]
         /\ Head(toRelay[c]) \in WebMessages /\ Head(toRelay[c]).type = type
         /\ \A d \in Conns : \A r : Fewer(toRelay'[d], toRelay[d], r)
         /\ \A i \in DOMAIN toRelay'[c] : toRelay'[c][i].type # "register"
         /\ \A r : AnswerOf(Head(toRelay[c]), r) =>
              /\ Holds(toRelay[c], r)
              /\ HoldsOne(toRelay[c], r) => ~Holds(toRelay'[c], r)
         /\ NoNewRegister
         /\ link[c] \in {"open", "lost"}
<1> DEFINE q == toRelay[c]
<1>1. /\ q \in Seq(WebMessages) /\ q # <<>> /\ toRelay \in [Conns -> Seq(WebMessages)]
      /\ toRelay' = [toRelay EXCEPT ![c] = Tail(q)]
      /\ Head(q).type = type /\ link[c] \in {"open", "lost"}
  BY DEF CallTypes, Reads
<1>2. /\ Tail(q) \in Seq(WebMessages) /\ Head(q) \in WebMessages
      /\ \A i \in DOMAIN Tail(q) : i + 1 \in DOMAIN q /\ i + 1 # 1 /\ Tail(q)[i] = q[i + 1]
  BY <1>1, TailMail
<1>3. \A r : /\ Fewer(Tail(q), q, r)
             /\ AnswerOf(Head(q), r) => Holds(q, r)
             /\ AnswerOf(Head(q), r) /\ HoldsOne(q, r) => ~Holds(Tail(q), r)
  BY <1>1, TailHolds
<1>4. /\ toRelay' \in [Conns -> Seq(WebMessages)] /\ toRelay'[c] = Tail(q)
      /\ \A d \in Conns \ {c} : toRelay'[d] = toRelay[d]
  BY <1>1, <1>2
<1>5. \A d \in Conns : \A r : Fewer(toRelay'[d], toRelay[d], r)
  BY <1>3, <1>4, SameHolds
<1>6. \A i \in DOMAIN toRelay'[c] : toRelay'[c][i].type # "register"
  BY <1>2, <1>4 DEF RegistersOnce
<1>7. NoNewRegister
  BY <1>4, <1>6 DEF NoNewRegister
<1> QED BY <1>1, <1>2, <1>3, <1>4, <1>5, <1>6, <1>7

LEMMA SendUpMail ==
  ASSUME CallTypes, NEW c \in Conns, NEW m \in WebMessages, m.type # "register",
         SendUp(c, m)
  PROVE  /\ toRelay' \in [Conns -> Seq(WebMessages)]
         /\ \A d \in Conns \ {c} : toRelay'[d] = toRelay[d]
         /\ \A r : ~AnswerOf(m, r) => Fewer(toRelay'[c], toRelay[c], r)
         /\ \A r : ~Holds(toRelay[c], r) => HoldsOne(toRelay'[c], r)
         /\ NoNewRegister
<1> DEFINE q == toRelay[c]
           p == Append(q, m)
<1>1. /\ q \in Seq(WebMessages) /\ toRelay \in [Conns -> Seq(WebMessages)]
      /\ toRelay' = [toRelay EXCEPT ![c] = IF link[c] = "open" THEN p ELSE q]
  BY DEF CallTypes, SendUp
<1>2. /\ p \in Seq(WebMessages)
      /\ \A i \in DOMAIN p : (i \in DOMAIN q /\ p[i] = q[i]) \/ p[i] = m
  BY <1>1, AppendMail
<1>3. \A r : /\ ~AnswerOf(m, r) => Fewer(p, q, r)
             /\ ~Holds(q, r) => HoldsOne(p, r)
  BY <1>1, AppendHolds
<1> HIDE DEF p
<1>4. /\ toRelay' \in [Conns -> Seq(WebMessages)] /\ toRelay'[c] \in {p, q}
      /\ \A d \in Conns \ {c} : toRelay'[d] = toRelay[d]
  BY <1>1, <1>2
<1>5. \A r : ~Holds(q, r) => HoldsOne(q, r)
  BY DEF Holds, HoldsOne
<1>6. NoNewRegister
  BY <1>2, <1>4 DEF NoNewRegister
<1> QED BY <1>3, <1>4, <1>5, <1>6, SameHolds

LEMMA TakesMail ==
  ASSUME CallTypes, NEW c \in Conns, NEW type, Takes(c, type)
  PROVE  /\ toApp' \in [Conns -> Seq(WebMessages)]
         /\ Head(toApp[c]) \in WebMessages /\ Head(toApp[c]).type = type
         /\ \A d \in Conns \ {c} : toApp'[d] = toApp[d]
         /\ \A d \in Conns : \A r : Fewer(toApp'[d], toApp[d], r)
         /\ \A r : AnswerOf(Head(toApp[c]), r) =>
              /\ Holds(toApp[c], r)
              /\ HoldsOne(toApp[c], r) => ~Holds(toApp'[c], r)
         /\ app[c] = "up"
<1> DEFINE q == toApp[c]
<1>1. /\ q \in Seq(WebMessages) /\ q # <<>> /\ toApp \in [Conns -> Seq(WebMessages)]
      /\ toApp' = [toApp EXCEPT ![c] = Tail(q)]
      /\ Head(q).type = type /\ app[c] = "up"
  BY DEF CallTypes, Takes
<1>2. Tail(q) \in Seq(WebMessages) /\ Head(q) \in WebMessages
  BY <1>1, TailMail
<1>3. \A r : /\ Fewer(Tail(q), q, r)
             /\ AnswerOf(Head(q), r) => Holds(q, r)
             /\ AnswerOf(Head(q), r) /\ HoldsOne(q, r) => ~Holds(Tail(q), r)
  BY <1>1, TailHolds
<1>4. /\ toApp' \in [Conns -> Seq(WebMessages)] /\ toApp'[c] = Tail(q)
      /\ \A d \in Conns \ {c} : toApp'[d] = toApp[d]
  BY <1>1, <1>2
<1> QED BY <1>1, <1>2, <1>3, <1>4, SameHolds

LEMMA DeliverMail ==
  ASSUME CallTypes, NEW cs, NEW m \in WebMessages, Deliver(cs, m)
  PROVE  /\ toApp' \in [Conns -> Seq(WebMessages)]
         /\ \A d \in Conns \ cs : toApp'[d] = toApp[d]
         /\ \A d \in Conns : \A r : ~AnswerOf(m, r) => Fewer(toApp'[d], toApp[d], r)
         /\ \A d \in Conns : \A r : ~Holds(toApp[d], r) => HoldsOne(toApp'[d], r)
<1>1. \A d \in Conns :
        /\ toApp[d] \in Seq(WebMessages) /\ Append(toApp[d], m) \in Seq(WebMessages)
        /\ \A r : /\ ~AnswerOf(m, r) => Fewer(Append(toApp[d], m), toApp[d], r)
                  /\ ~Holds(toApp[d], r) => HoldsOne(Append(toApp[d], m), r)
  BY AppendMail, AppendHolds DEF CallTypes
<1>2. toApp' = [d \in Conns |-> IF d \in cs /\ link[d] = "open"
                                  THEN Append(toApp[d], m) ELSE toApp[d]]
  BY DEF Deliver
<1>3. \A q, r : ~Holds(q, r) => HoldsOne(q, r)
  BY DEF Holds, HoldsOne
<1> QED BY <1>1, <1>2, <1>3, SameHolds

LEMMA TellSendersMail ==
  ASSUME CallTypes, ListsPeers, NEW r \in Receivers, NEW told \in SUBSET Senders,
         TellSenders(r, told)
  PROVE  /\ toApp' \in [Conns -> Seq(WebMessages)]
         /\ \A d \in Conns : \A q : Fewer(toApp'[d], toApp[d], q)
         /\ handler' \in [Receivers -> [told : SUBSET Senders, at : Senders, size : Nat]
                                         \cup {None}]
         /\ \A q \in Receivers \ {r} : handler'[q] = handler[q]
<1> DEFINE rest == Listed(senders) \ told
<1>1. rest \subseteq Senders /\ Cardinality(Listed(senders)) \in Nat
  <2>1. Listed(senders) \subseteq peers \cap Senders
    BY DEF Listed, CallTypes, ListsPeers
  <2> QED BY <2>1, FS_Subset, FS_CardinalityType DEF CallTypes
<1>2. Ready(r) \in WebMessages /\ \A q : ~AnswerOf(Ready(r), q)
  BY WebMessageTypes DEF AnswerOf
<1>3. ASSUME NEW cs, Deliver(cs, Ready(r))
      PROVE  /\ toApp' \in [Conns -> Seq(WebMessages)]
             /\ \A d \in Conns : \A q : Fewer(toApp'[d], toApp[d], q)
  BY <1>2, <1>3, DeliverMail
<1>4. handler \in [Receivers -> [told : SUBSET Senders, at : Senders, size : Nat]
                                  \cup {None}]
  BY DEF CallTypes
<1>5. CASE Deliver(rest, Ready(r)) /\ handler' = [handler EXCEPT ![r] = None]
  BY <1>3, <1>4, <1>5
<1>6. ASSUME NEW w \in rest, NEW before \in SUBSET rest,
             Deliver(before, Ready(r)),
             handler' = [handler EXCEPT ![r] =
               [told |-> told \cup before \cup {w}, at |-> w,
                size |-> Cardinality(Listed(senders))]]
      PROVE  /\ toApp' \in [Conns -> Seq(WebMessages)]
             /\ \A d \in Conns : \A q : Fewer(toApp'[d], toApp[d], q)
             /\ handler' \in [Receivers -> [told : SUBSET Senders, at : Senders, size : Nat]
                                             \cup {None}]
             /\ \A q \in Receivers \ {r} : handler'[q] = handler[q]
  <2>1. [told |-> told \cup before \cup {w}, at |-> w,
         size |-> Cardinality(Listed(senders))]
          \in [told : SUBSET Senders, at : Senders, size : Nat]
    BY <1>1
  <2> QED BY <1>3, <1>4, <1>6, <2>1
<1> QED BY <1>5, <1>6 DEF TellSenders

(***************************************************************************)
(* What a step leaves alone                                                *)
(***************************************************************************)

\* A step that neither makes, moves nor applies an answer of r.
LEMMA QuietFor ==
  ASSUME NEW r \in Receivers, AnswersOnce(r), OneAnswer(r),
         \A c \in Receivers : Fewer(toRelay'[c], toRelay[c], r),
         \A s \in Senders : Fewer(toApp'[s], toApp[s], r),
         \A s \in Senders : remote'[s] # None /\ remote'[s].by = r => Applied(s, r),
         serves'[r] = None => answering'[r] = "none",
         answering'[r] # "sent" => answering[r] # "sent"
  PROVE  AnswersOnce(r)' /\ OneAnswer(r)'
<1>1. /\ \A c \in Receivers :
           /\ Holds(toRelay'[c], r) => Holds(toRelay[c], r)
           /\ HoldsOne(toRelay[c], r) => HoldsOne(toRelay'[c], r)
      /\ \A s \in Senders :
           /\ Holds(toApp'[s], r) => Holds(toApp[s], r)
           /\ HoldsOne(toApp[s], r) => HoldsOne(toApp'[s], r)
  BY DEF Fewer
<1>2. \A s \in Senders : Applied(s, r)' => Applied(s, r)
  BY DEF Applied
<1>3. AnswersOnce(r)'
  BY <1>1, <1>2 DEF AnswersOnce
<1>4. OneAnswer(r)'
  BY <1>1, <1>2 DEF OneAnswer
<1> QED BY <1>3, <1>4

LEMMA RegistersKept ==
  ASSUME RegistersOnce, app' = app,
         \A d \in Conns : app[d] = "off" => link'[d] = link[d],
         \A d \in peers' \ peers : app[d] # "off",
         \A d \in Conns : d \in peers' \ peers =>
           \A i \in DOMAIN toRelay'[d] : toRelay'[d][i].type # "register",
         \A r \in Receivers : handler'[r] # None => app[r] # "off",
         NoNewRegister
  PROVE  RegistersOnce'
<1>1. ASSUME NEW c \in Conns, NEW i \in DOMAIN toRelay'[c],
             toRelay'[c][i].type = "register"
      PROVE  i = 1 /\ c \notin peers'
  <2>1. i \in DOMAIN toRelay[c] /\ toRelay[c][i].type = "register"
    BY <1>1 DEF NoNewRegister
  <2> QED BY <1>1, <2>1 DEF RegistersOnce
<1>2. \A c \in Conns : app'[c] = "off" => link'[c] = "none" /\ c \notin peers'
  BY DEF RegistersOnce
<1> QED BY <1>1, <1>2 DEF RegistersOnce

\* A step of the relay or of an application in which no answer moves.
LEMMA AnswersKept ==
  ASSUME CallInv, UNCHANGED <<remote, serves, answering>>,
         \A c \in Conns, r \in Receivers : Fewer(toRelay'[c], toRelay[c], r),
         \A c \in Conns, r \in Receivers : Fewer(toApp'[c], toApp[c], r)
  PROVE  \A r \in Receivers : AnswersOnce(r)' /\ OneAnswer(r)'
<1> SUFFICES ASSUME NEW r \in Receivers
    PROVE  AnswersOnce(r)' /\ OneAnswer(r)'
  OBVIOUS
<1>1. AnswersOnce(r) /\ OneAnswer(r)
  BY DEF CallInv
<1>2. /\ \A c \in Receivers : Fewer(toRelay'[c], toRelay[c], r)
      /\ \A s \in Senders : Fewer(toApp'[s], toApp[s], r)
  BY DEF Conns
<1>3. \A s \in Senders : remote'[s] # None /\ remote'[s].by = r => Applied(s, r)
  BY DEF Applied
<1>4. /\ serves'[r] = None => answering'[r] = "none"
      /\ answering'[r] # "sent" => answering[r] # "sent"
  BY <1>1 DEF AnswersOnce
<1> QED BY <1>1, <1>2, <1>3, <1>4, QuietFor

LEMMA NoRegisterKept == toRelay' = toRelay => NoNewRegister
  BY DEF NoNewRegister

LEMMA CallLaunchInv ==
  ASSUME CallInv, NEW c \in Conns, Launch(c)
  PROVE  CallInv'
<1> USE DEF CallInv
<1>1. /\ app[c] = "off" /\ app' = [app EXCEPT ![c] = "up"]
      /\ link' = [link EXCEPT ![c] = "open"]
      /\ toRelay' = [toRelay EXCEPT ![c] = <<[type |-> "register"]>>]
      /\ UNCHANGED <<relayVars, toApp, callVars>>
  BY DEF Launch
<1> DEFINE q == <<[type |-> "register"]>>
<1>2. /\ q \in Seq(WebMessages) /\ DOMAIN q = {1} /\ q[1].type = "register"
  BY WebMessageTypes
<1> HIDE DEF q
<1>3. CallTypes' /\ ListsPeers'
  BY <1>1, <1>2 DEF q, CallTypes, ListsPeers, relayVars, callVars
<1>4. /\ toRelay'[c] = q /\ \A d \in Conns \ {c} : toRelay'[d] = toRelay[d]
      /\ peers' = peers /\ handler' = handler
  BY <1>1 DEF q, CallTypes, relayVars
<1>5. RegistersOnce'
  <2>1. c \notin peers
    BY <1>1 DEF RegistersOnce
  <2>2. ASSUME NEW d \in Conns, NEW i \in DOMAIN toRelay'[d],
               toRelay'[d][i].type = "register"
        PROVE  i = 1 /\ d \notin peers
    BY <1>2, <1>4, <2>1, <2>2 DEF RegistersOnce
  <2>3. \A d \in Conns : app'[d] = "off" => link'[d] = "none" /\ d \notin peers
    BY <1>1 DEF RegistersOnce, CallTypes
  <2>4. \A r \in Receivers : handler[r] # None => app'[r] # "off"
    BY <1>1 DEF RegistersOnce, CallTypes
  <2> QED BY <1>4, <2>2, <2>3, <2>4 DEF RegistersOnce
<1>6. \A r : Fewer(q, toRelay[c], r)
  BY <1>2 DEF Fewer, Holds, HoldsOne, AnswerOf
<1>7. /\ \A d \in Conns, r \in Receivers : Fewer(toRelay'[d], toRelay[d], r)
      /\ \A d \in Conns, r \in Receivers : Fewer(toApp'[d], toApp[d], r)
  BY <1>1, <1>4, <1>6, SameHolds
<1>8. \A r \in Receivers : AnswersOnce(r)' /\ OneAnswer(r)'
  BY <1>1, <1>7, AnswersKept DEF callVars
<1> QED BY <1>3, <1>5, <1>8

LEMMA CallDieInv ==
  ASSUME CallInv, NEW c \in Conns, Die(c)
  PROVE  CallInv'
<1> USE DEF CallInv
<1>1. /\ app[c] = "up" /\ app' = [app EXCEPT ![c] = "gone"]
      /\ link' = [link EXCEPT ![c] = IF @ = "open" THEN "lost" ELSE @]
      /\ toApp' = [toApp EXCEPT ![c] = <<>>]
      /\ UNCHANGED <<relayVars, callVars>>
  BY DEF Die
<1>2. PICK left \in {toRelay[c], <<>>} : toRelay' = [toRelay EXCEPT ![c] = left]
  BY DEF Die
<1>3. /\ left \in Seq(WebMessages) /\ <<>> \in Seq(WebMessages)
      /\ DOMAIN left = {} \/ left = toRelay[c]
  <2>1. toRelay[c] \in Seq(WebMessages)
    BY DEF CallTypes
  <2>2. <<>> \in Seq(WebMessages) /\ DOMAIN <<>> = {}
    OBVIOUS
  <2> QED BY <1>2, <2>1, <2>2
<1>4. CallTypes' /\ ListsPeers'
  BY <1>1, <1>2, <1>3 DEF CallTypes, ListsPeers, relayVars, callVars
<1>5. /\ toRelay'[c] = left /\ \A d \in Conns \ {c} : toRelay'[d] = toRelay[d]
      /\ toApp'[c] = <<>> /\ \A d \in Conns \ {c} : toApp'[d] = toApp[d]
      /\ peers' = peers /\ handler' = handler
  BY <1>1, <1>2 DEF CallTypes, relayVars
<1>6. RegistersOnce'
  <2>1. ASSUME NEW d \in Conns, NEW i \in DOMAIN toRelay'[d],
               toRelay'[d][i].type = "register"
        PROVE  i = 1 /\ d \notin peers
    BY <1>3, <1>5, <2>1 DEF RegistersOnce
  <2>2. \A d \in Conns : app'[d] = "off" => link'[d] = "none" /\ d \notin peers
    BY <1>1 DEF RegistersOnce, CallTypes
  <2>3. \A r \in Receivers : handler[r] # None => app'[r] # "off"
    BY <1>1 DEF RegistersOnce, CallTypes
  <2> QED BY <1>5, <2>1, <2>2, <2>3 DEF RegistersOnce
<1>7. \A q, r : Fewer(<<>>, q, r)
  BY NothingHolds DEF Fewer
<1>8. /\ \A d \in Conns, r \in Receivers : Fewer(toRelay'[d], toRelay[d], r)
      /\ \A d \in Conns, r \in Receivers : Fewer(toApp'[d], toApp[d], r)
  BY <1>2, <1>5, <1>7, SameHolds
<1>9. \A r \in Receivers : AnswersOnce(r)' /\ OneAnswer(r)'
  BY <1>1, <1>8, AnswersKept DEF callVars
<1> QED BY <1>4, <1>6, <1>9

LEMMA CallRegisterSenderInv ==
  ASSUME CallInv, NEW c \in Senders, RegisterSender(c)
  PROVE  CallInv'
<1> USE DEF CallInv
<1>1. /\ Reads(c, "register") /\ peers' = peers \cup {c}
      /\ senders' = [senders EXCEPT ![StreamOf[c]] = c]
      /\ UNCHANGED <<receivers, handler, link, app, callVars>>
      /\ \/ Deliver({c}, Ready(receivers[Target[c]])) /\ receivers[Target[c]] # None
         \/ UNCHANGED toApp
  BY DEF RegisterSender
<1>2. c \in Conns /\ StreamOf[c] \in Streams /\ Target[c] \in Ids
  BY CallAssumption DEF Conns
<1>3. /\ toRelay' \in [Conns -> Seq(WebMessages)]
      /\ \A d \in Conns : \A r : Fewer(toRelay'[d], toRelay[d], r)
      /\ \A i \in DOMAIN toRelay'[c] : toRelay'[c][i].type # "register"
      /\ NoNewRegister /\ link[c] \in {"open", "lost"}
  BY <1>1, <1>2, ReadsMail
<1>4. /\ toApp' \in [Conns -> Seq(WebMessages)]
      /\ \A d \in Conns : \A r : Fewer(toApp'[d], toApp[d], r)
  <2>1. CASE UNCHANGED toApp
    BY <2>1, SameHolds DEF CallTypes
  <2>2. CASE Deliver({c}, Ready(receivers[Target[c]])) /\ receivers[Target[c]] # None
    <3>1. receivers[Target[c]] \in Receivers
      BY <1>2, <2>2 DEF CallTypes
    <3>2. /\ Ready(receivers[Target[c]]) \in WebMessages
          /\ \A r : ~AnswerOf(Ready(receivers[Target[c]]), r)
      BY <3>1, WebMessageTypes DEF AnswerOf
    <3> QED BY <2>2, <3>2, DeliverMail
  <2> QED BY <1>1, <2>1, <2>2
<1>5. CallTypes'
  <2>1. IsFiniteSet(peers') /\ peers' \in SUBSET Conns
    BY <1>1, <1>2, FS_AddElement DEF CallTypes
  <2> QED BY <1>1, <1>2, <1>3, <1>4, <2>1 DEF CallTypes, callVars
<1>6. ListsPeers'
  BY <1>1, <1>2 DEF ListsPeers, CallTypes
<1>7. RegistersOnce'
  <2>1. app[c] # "off"
    BY <1>2, <1>3 DEF RegistersOnce
  <2> QED BY <1>1, <1>2, <1>3, <2>1, RegistersKept DEF RegistersOnce
<1>8. \A r \in Receivers : AnswersOnce(r)' /\ OneAnswer(r)'
  BY <1>1, <1>3, <1>4, AnswersKept DEF callVars
<1> QED BY <1>5, <1>6, <1>7, <1>8

LEMMA CallRegisterReceiverInv ==
  ASSUME CallInv, NEW c \in Receivers, RegisterReceiver(c)
  PROVE  CallInv'
<1> USE DEF CallInv
<1>1. /\ Reads(c, "register") /\ peers' = peers \cup {c}
      /\ receivers' = [receivers EXCEPT ![IdOf[c]] = c]
      /\ UNCHANGED <<senders, link, app, callVars>>
      /\ TellSenders(c, {})
  BY DEF RegisterReceiver
<1>2. c \in Conns /\ IdOf[c] \in Ids
  BY CallAssumption DEF Conns
<1>3. /\ toRelay' \in [Conns -> Seq(WebMessages)]
      /\ \A d \in Conns : \A r : Fewer(toRelay'[d], toRelay[d], r)
      /\ \A i \in DOMAIN toRelay'[c] : toRelay'[c][i].type # "register"
      /\ NoNewRegister /\ link[c] \in {"open", "lost"}
  BY <1>1, <1>2, ReadsMail
<1>4. /\ toApp' \in [Conns -> Seq(WebMessages)]
      /\ \A d \in Conns : \A r : Fewer(toApp'[d], toApp[d], r)
      /\ handler' \in [Receivers -> [told : SUBSET Senders, at : Senders, size : Nat]
                                      \cup {None}]
      /\ \A q \in Receivers \ {c} : handler'[q] = handler[q]
  BY <1>1, TellSendersMail
<1>5. CallTypes'
  <2>1. IsFiniteSet(peers') /\ peers' \in SUBSET Conns
    BY <1>1, <1>2, FS_AddElement DEF CallTypes
  <2> QED BY <1>1, <1>2, <1>3, <1>4, <2>1 DEF CallTypes, callVars
<1>6. ListsPeers'
  BY <1>1 DEF ListsPeers
<1>7. RegistersOnce'
  <2>1. app[c] # "off"
    BY <1>2, <1>3 DEF RegistersOnce
  <2>2. \A r \in Receivers : handler'[r] # None => app[r] # "off"
    BY <1>4, <2>1 DEF RegistersOnce
  <2> QED BY <1>1, <1>2, <1>3, <2>1, <2>2, RegistersKept
<1>8. \A r \in Receivers : AnswersOnce(r)' /\ OneAnswer(r)'
  BY <1>1, <1>3, <1>4, AnswersKept DEF callVars
<1> QED BY <1>5, <1>6, <1>7, <1>8

LEMMA CallUnregister ==
  ASSUME CallInv, NEW c \in Conns, Unregister(c), app[c] # "off",
         UNCHANGED <<toRelay, toApp, app, callVars>>,
         handler' \in [Receivers -> [told : SUBSET Senders, at : Senders, size : Nat]
                                     \cup {None}],
         \A r \in Receivers : handler'[r] # None => handler[r] # None
  PROVE  CallInv'
<1> USE DEF CallInv
<1>1. /\ peers' = peers \ {c}
      /\ senders' = [st \in Streams |-> IF senders[st] = c THEN None ELSE senders[st]]
      /\ receivers' = [i \in Ids |-> IF receivers[i] = c THEN None ELSE receivers[i]]
      /\ link' = [link EXCEPT ![c] = "closed"]
  BY DEF Unregister
<1>2. CallTypes'
  <2>1. IsFiniteSet(peers') /\ peers' \in SUBSET Conns
    BY <1>1, FS_Subset DEF CallTypes
  <2> QED BY <1>1, <2>1 DEF CallTypes, callVars
<1>3. ListsPeers'
  BY <1>1 DEF ListsPeers
<1>4. RegistersOnce'
  <2>1. \A d \in Conns : app[d] = "off" => link'[d] = link[d]
    BY <1>1 DEF CallTypes
  <2>2. \A r \in Receivers : handler'[r] # None => app[r] # "off"
    BY DEF RegistersOnce
  <2> QED BY <1>1, <2>1, <2>2, NoRegisterKept, RegistersKept
<1>5. \A r \in Receivers : AnswersOnce(r)' /\ OneAnswer(r)'
  BY SameHolds, AnswersKept DEF callVars
<1> QED BY <1>2, <1>3, <1>4, <1>5

LEMMA CallResumeInv ==
  ASSUME CallInv, NEW r \in Receivers, ResumeRegister(r)
  PROVE  CallInv'
<1> USE DEF CallInv
<1>1. handler[r] # None /\ UNCHANGED <<toRelay, app, callVars>>
  BY DEF ResumeRegister
<1>2. r \in Conns /\ app[r] # "off" /\ handler[r].told \in SUBSET Senders
  BY <1>1 DEF RegistersOnce, CallTypes, Conns
<1>3. CASE /\ TellSenders(r, handler[r].told)
           /\ UNCHANGED <<senders, receivers, peers, link>>
  <2>1. /\ toApp' \in [Conns -> Seq(WebMessages)]
        /\ \A d \in Conns : \A q : Fewer(toApp'[d], toApp[d], q)
        /\ handler' \in [Receivers -> [told : SUBSET Senders, at : Senders, size : Nat]
                                        \cup {None}]
        /\ \A q \in Receivers \ {r} : handler'[q] = handler[q]
    BY <1>2, <1>3, TellSendersMail
  <2>2. CallTypes' /\ ListsPeers'
    BY <1>1, <1>3, <2>1 DEF CallTypes, ListsPeers, callVars
  <2>3. RegistersOnce'
    <3>1. \A q \in Receivers : handler'[q] # None => app[q] # "off"
      BY <1>2, <2>1 DEF RegistersOnce
    <3> QED BY <1>1, <1>3, <3>1, NoRegisterKept, RegistersKept
  <2>4. \A q \in Receivers : AnswersOnce(q)' /\ OneAnswer(q)'
    BY <1>1, <2>1, SameHolds, AnswersKept DEF callVars
  <2> QED BY <2>2, <2>3, <2>4
<1>4. CASE /\ Unregister(r) /\ handler' = [handler EXCEPT ![r] = None]
           /\ UNCHANGED toApp
  BY <1>1, <1>2, <1>4, CallUnregister DEF CallTypes
<1> QED BY <1>3, <1>4 DEF ResumeRegister

LEMMA CallHangupInv ==
  ASSUME CallInv, NEW c \in Conns, Hangup(c)
  PROVE  CallInv'
<1>1. /\ link[c] = "lost" /\ Unregister(c)
      /\ UNCHANGED <<handler, toRelay, toApp, app, callVars>>
  BY DEF Hangup
<1>2. app[c] # "off"
  BY <1>1 DEF CallInv, RegistersOnce
<1> QED BY <1>1, <1>2, CallUnregister DEF CallInv, CallTypes

LEMMA RouteOfferInv ==
  ASSUME CallInv, NEW s \in Senders, RouteOffer(s)
  PROVE  CallInv'
<1> USE DEF CallInv
<1> DEFINE m == Head(toRelay[s])
<1>1. /\ Reads(s, "offer") /\ Deliver({receivers[Target[s]]}, m)
      /\ UNCHANGED <<relayVars, link, app, callVars>>
      /\ s \in Conns
  BY DEF RouteOffer, Conns
<1>2. /\ toRelay' \in [Conns -> Seq(WebMessages)]
      /\ m \in WebMessages /\ m.type = "offer"
      /\ \A d \in Conns : \A r : Fewer(toRelay'[d], toRelay[d], r)
      /\ NoNewRegister
  BY <1>1, ReadsMail
<1>3. /\ toApp' \in [Conns -> Seq(WebMessages)]
      /\ \A d \in Conns : \A r : Fewer(toApp'[d], toApp[d], r)
  BY <1>1, <1>2, DeliverMail DEF AnswerOf
<1>4. CallTypes' /\ ListsPeers'
  BY <1>1, <1>2, <1>3 DEF CallTypes, ListsPeers, relayVars, callVars
<1>5. RegistersOnce'
  BY <1>1, <1>2, RegistersKept DEF relayVars, RegistersOnce
<1>6. \A r \in Receivers : AnswersOnce(r)' /\ OneAnswer(r)'
  BY <1>1, <1>2, <1>3, AnswersKept DEF callVars
<1> QED BY <1>4, <1>5, <1>6

LEMMA RouteAnswerInv ==
  ASSUME CallInv, NEW r \in Receivers, RouteAnswer(r)
  PROVE  CallInv'
<1> USE DEF CallInv
<1> DEFINE m == Head(toRelay[r])
           to == senders[StreamOf[m.offer]]
<1>1. /\ Reads(r, "answer") /\ Deliver({to}, m)
      /\ UNCHANGED <<relayVars, link, app, callVars>>
      /\ r \in Conns
  BY DEF RouteAnswer, Conns
<1>2. /\ toRelay' \in [Conns -> Seq(WebMessages)]
      /\ m \in WebMessages /\ m.type = "answer"
      /\ \A d \in Conns : \A q : Fewer(toRelay'[d], toRelay[d], q)
      /\ \A q : AnswerOf(m, q) =>
           /\ Holds(toRelay[r], q)
           /\ HoldsOne(toRelay[r], q) => ~Holds(toRelay'[r], q)
      /\ NoNewRegister
  BY <1>1, ReadsMail
<1>3. m.by = r
  <2>1. m.by \in Receivers
    BY <1>2, WebMessageFields
  <2>2. AnswerOf(m, m.by)
    BY <1>2 DEF AnswerOf
  <2>3. Holds(toRelay[r], m.by) /\ OneAnswer(m.by)
    BY <1>2, <2>1, <2>2
  <2> QED BY <2>1, <2>3 DEF OneAnswer
<1> HIDE DEF m, to
<1>4. /\ toApp' \in [Conns -> Seq(WebMessages)]
      /\ \A d \in Conns \ {to} : toApp'[d] = toApp[d]
      /\ \A d \in Conns : \A q : ~AnswerOf(m, q) => Fewer(toApp'[d], toApp[d], q)
      /\ \A d \in Conns : \A q : ~Holds(toApp[d], q) => HoldsOne(toApp'[d], q)
  BY <1>1, <1>2, DeliverMail
<1>5. CallTypes' /\ ListsPeers'
  BY <1>1, <1>2, <1>4 DEF CallTypes, ListsPeers, relayVars, callVars
<1>6. RegistersOnce'
  BY <1>1, <1>2, RegistersKept DEF relayVars, RegistersOnce
<1>7. ASSUME NEW q \in Receivers, q # r
      PROVE  AnswersOnce(q)' /\ OneAnswer(q)'
  <2>1. ~AnswerOf(m, q)
    BY <1>3, <1>7 DEF AnswerOf
  <2>2. /\ \A c \in Receivers : Fewer(toRelay'[c], toRelay[c], q)
        /\ \A s \in Senders : Fewer(toApp'[s], toApp[s], q)
    BY <1>2, <1>4, <2>1 DEF Conns
  <2>3. \A s \in Senders : remote'[s] # None /\ remote'[s].by = q => Applied(s, q)
    BY <1>1 DEF Applied, callVars
  <2>4. /\ serves'[q] = None => answering'[q] = "none"
        /\ answering'[q] # "sent" => answering[q] # "sent"
    BY <1>1 DEF AnswersOnce, callVars
  <2> QED BY <2>2, <2>3, <2>4, QuietFor
<1>8. AnswersOnce(r)' /\ OneAnswer(r)'
  <2>1. AnswerOf(m, r) /\ Holds(toRelay[r], r) /\ HoldsOne(toRelay[r], r)
    BY <1>2, <1>3 DEF AnswerOf, OneAnswer
  <2>2. /\ ~Holds(toRelay'[r], r) /\ answering[r] = "sent"
        /\ \A c \in Receivers \ {r} : ~Holds(toRelay'[c], r)
        /\ HoldsOne(toRelay'[r], r)
    BY <1>2, <2>1 DEF OneAnswer, AnswersOnce, Fewer, Conns
  <2>3. \A s \in Senders : ~Holds(toApp[s], r) /\ ~Applied(s, r)
    BY <2>1 DEF OneAnswer
  <2>4. /\ \A s \in Senders : ~Applied(s, r)'
        /\ answering' = answering /\ serves' = serves
    BY <1>1, <2>3 DEF Applied, callVars
  <2>5. \A s \in Senders : HoldsOne(toApp'[s], r)
    BY <1>4, <2>3 DEF Conns
  <2>6. \A s \in Senders : s # to => ~Holds(toApp'[s], r)
    BY <1>4, <2>3 DEF Conns
  <2>7. AnswersOnce(r)'
    BY <2>2, <2>4 DEF AnswersOnce
  <2>8. OneAnswer(r)'
    BY <2>2, <2>4, <2>5, <2>6 DEF OneAnswer
  <2> QED BY <2>7, <2>8
<1> QED BY <1>5, <1>6, <1>7, <1>8

LEMMA CallOnReadyInv ==
  ASSUME CallInv, NEW s \in Senders, OnReady(s)
  PROVE  CallInv'
<1> USE DEF CallInv
<1>1. /\ Takes(s, "ready") /\ s \in Conns
      /\ UNCHANGED <<relayVars, link, toRelay, app, remote, serves, answering>>
  BY DEF OnReady, Conns
<1>2. /\ toApp' \in [Conns -> Seq(WebMessages)]
      /\ \A d \in Conns : \A r : Fewer(toApp'[d], toApp[d], r)
  BY <1>1, TakesMail
<1>3. CallTypes' /\ ListsPeers'
  BY <1>1, <1>2 DEF CallTypes, ListsPeers, relayVars
<1>4. RegistersOnce'
  BY <1>1 DEF relayVars, RegistersOnce
<1>5. \A r \in Receivers : AnswersOnce(r)' /\ OneAnswer(r)'
  BY <1>1, <1>2, SameHolds, AnswersKept
<1> QED BY <1>3, <1>4, <1>5

LEMMA OfferReadyInv ==
  ASSUME CallInv, NEW s \in Senders, OfferReady(s)
  PROVE  CallInv'
<1> USE DEF CallInv
<1>1. /\ SendUp(s, Offer(s)) /\ s \in Conns
      /\ UNCHANGED <<relayVars, link, toApp, app, remote, serves, answering>>
  BY DEF OfferReady, Conns
<1>2. /\ Offer(s) \in WebMessages /\ Offer(s).type # "register"
      /\ \A r : ~AnswerOf(Offer(s), r)
  BY WebMessageTypes DEF AnswerOf
<1>3. /\ toRelay' \in [Conns -> Seq(WebMessages)] /\ NoNewRegister
      /\ \A d \in Conns : \A r : Fewer(toRelay'[d], toRelay[d], r)
  BY <1>1, <1>2, SendUpMail, SameHolds
<1>4. CallTypes' /\ ListsPeers'
  BY <1>1, <1>3 DEF CallTypes, ListsPeers, relayVars
<1>5. RegistersOnce'
  BY <1>1, <1>3, RegistersKept DEF relayVars, RegistersOnce
<1>6. \A r \in Receivers : AnswersOnce(r)' /\ OneAnswer(r)'
  BY <1>1, <1>3, SameHolds, AnswersKept
<1> QED BY <1>4, <1>5, <1>6

LEMMA OnAnswerInv ==
  ASSUME CallInv, NEW s \in Senders, OnAnswer(s)
  PROVE  CallInv'
<1> USE DEF CallInv
<1> DEFINE m == Head(toApp[s])
<1>1. /\ Takes(s, "answer") /\ s \in Conns
      /\ UNCHANGED <<relayVars, link, toRelay, app, serves, answering>>
      /\ \/ remote[s] = None /\ remote' = [remote EXCEPT ![s] = m]
         \/ UNCHANGED remote
  BY DEF OnAnswer, Conns
<1>2. /\ toApp' \in [Conns -> Seq(WebMessages)]
      /\ m \in WebMessages /\ m.type = "answer"
      /\ \A d \in Conns \ {s} : toApp'[d] = toApp[d]
      /\ \A d \in Conns : \A r : Fewer(toApp'[d], toApp[d], r)
      /\ \A r : AnswerOf(m, r) =>
           /\ Holds(toApp[s], r)
           /\ HoldsOne(toApp[s], r) => ~Holds(toApp'[s], r)
  BY <1>1, TakesMail
<1>3. /\ m.by \in Receivers /\ AnswerOf(m, m.by)
      /\ m \in [type : {"answer"}, by : Receivers, offer : Senders]
  BY <1>2, WebMessageFields DEF AnswerOf
<1> HIDE DEF m
<1>4. CallTypes' /\ ListsPeers'
  <2> DEFINE Heard == [type : {"answer"}, by : Receivers, offer : Senders] \cup {None}
  <2>1. m \in Heard /\ remote \in [Senders -> Heard]
    BY <1>3 DEF CallTypes
  <2> HIDE DEF Heard
  <2>2. remote' \in [Senders -> Heard]
    BY <1>1, <2>1
  <2> USE DEF Heard
  <2> QED BY <1>1, <1>2, <2>2 DEF CallTypes, ListsPeers, relayVars
<1>5. RegistersOnce'
  BY <1>1 DEF relayVars, RegistersOnce
<1>6. CASE UNCHANGED remote
  BY <1>1, <1>2, <1>4, <1>5, <1>6, SameHolds, AnswersKept
<1>7. CASE remote[s] = None /\ remote' = [remote EXCEPT ![s] = m]
  <2>1. /\ remote'[s] = m /\ \A t \in Senders \ {s} : remote'[t] = remote[t]
    BY <1>7 DEF CallTypes
  <2>2. ASSUME NEW q \in Receivers, q # m.by
        PROVE  AnswersOnce(q)' /\ OneAnswer(q)'
    <3>1. \A t \in Senders : remote'[t] # None /\ remote'[t].by = q => Applied(t, q)
      BY <2>1, <2>2 DEF Applied
    <3>2. /\ \A c \in Receivers : Fewer(toRelay'[c], toRelay[c], q)
          /\ \A t \in Senders : Fewer(toApp'[t], toApp[t], q)
      BY <1>1, <1>2, SameHolds DEF Conns
    <3>3. /\ serves'[q] = None => answering'[q] = "none"
          /\ answering'[q] # "sent" => answering[q] # "sent"
      BY <1>1 DEF AnswersOnce
    <3> QED BY <3>1, <3>2, <3>3, QuietFor
  <2>3. ASSUME NEW r \in Receivers, r = m.by
        PROVE  AnswersOnce(r)' /\ OneAnswer(r)'
    <3>1. /\ Holds(toApp[s], r) /\ HoldsOne(toApp[s], r) /\ ~Holds(toApp'[s], r)
      BY <1>2, <1>3, <2>3 DEF OneAnswer
    <3>2. /\ ~Holds(toRelay[r], r) /\ answering[r] = "sent"
          /\ \A t \in Senders \ {s} : ~Holds(toApp[t], r) /\ ~Applied(t, r)
          /\ \A c \in Receivers \ {r} : ~Holds(toRelay[c], r)
      BY <3>1 DEF OneAnswer, AnswersOnce
    <3>3. /\ toRelay' = toRelay /\ answering' = answering /\ serves' = serves
      BY <1>1
    <3>4. \A t \in Senders : ~Holds(toApp'[t], r) /\ HoldsOne(toApp'[t], r)
      BY <1>2, <3>1, <3>2 DEF Conns, Fewer, OneAnswer
    <3>5. \A t \in Senders \ {s} : ~Applied(t, r)'
      BY <2>1, <3>2 DEF Applied
    <3>6. AnswersOnce(r)'
      BY <3>2, <3>3 DEF AnswersOnce
    <3>7. OneAnswer(r)'
      BY <3>2, <3>3, <3>4, <3>5 DEF OneAnswer
    <3> QED BY <3>6, <3>7
  <2> QED BY <1>3, <1>4, <1>5, <2>2, <2>3
<1> QED BY <1>1, <1>6, <1>7

LEMMA OnOfferInv ==
  ASSUME CallInv, NEW r \in Receivers, OnOffer(r)
  PROVE  CallInv'
<1> USE DEF CallInv
<1> DEFINE from == Head(toApp[r]).from
<1>1. /\ Takes(r, "offer") /\ r \in Conns
      /\ UNCHANGED <<relayVars, link, toRelay, app, remote>>
      /\ \/ serves[r] # None /\ UNCHANGED <<serves, answering>>
         \/ /\ serves[r] = None /\ serves' = [serves EXCEPT ![r] = from]
            /\ answering' = [answering EXCEPT ![r] = "gathering"]
  BY DEF OnOffer, Conns
<1>2. /\ toApp' \in [Conns -> Seq(WebMessages)]
      /\ \A d \in Conns : \A q : Fewer(toApp'[d], toApp[d], q)
      /\ from \in Senders
  BY <1>1, TakesMail, WebMessageFields
<1> HIDE DEF from
<1>3. CallTypes' /\ ListsPeers'
  <2>1. serves' \in [Receivers -> Senders \cup {None}]
    BY <1>1, <1>2 DEF CallTypes
  <2>2. answering' \in [Receivers -> {"none", "gathering", "sent"}]
    BY <1>1 DEF CallTypes
  <2> QED BY <1>1, <1>2, <2>1, <2>2 DEF CallTypes, ListsPeers, relayVars
<1>4. RegistersOnce'
  BY <1>1 DEF relayVars, RegistersOnce
<1>5. ASSUME NEW q \in Receivers
      PROVE  AnswersOnce(q)' /\ OneAnswer(q)'
  <2>1. \A s \in Senders : remote'[s] # None /\ remote'[s].by = q => Applied(s, q)
    BY <1>1 DEF Applied
  <2>2. /\ serves'[q] = None => answering'[q] = "none"
        /\ answering'[q] # "sent" => answering[q] # "sent"
    BY <1>1, <1>2, CallAssumption DEF AnswersOnce, CallTypes
  <2>3. /\ \A c \in Receivers : Fewer(toRelay'[c], toRelay[c], q)
        /\ \A s \in Senders : Fewer(toApp'[s], toApp[s], q)
    BY <1>1, <1>2, SameHolds DEF Conns
  <2> QED BY <2>1, <2>2, <2>3, QuietFor
<1> QED BY <1>3, <1>4, <1>5

LEMMA AnswerReadyInv ==
  ASSUME CallInv, NEW r \in Receivers, AnswerReady(r)
  PROVE  CallInv'
<1> USE DEF CallInv
<1> DEFINE m == Answer(r, serves[r])
<1>1. /\ answering[r] = "gathering" /\ answering' = [answering EXCEPT ![r] = "sent"]
      /\ SendUp(r, m) /\ r \in Conns
      /\ UNCHANGED <<relayVars, link, toApp, app, remote, serves>>
  BY DEF AnswerReady, Conns
<1>2. serves[r] \in Senders
  BY <1>1 DEF AnswersOnce, CallTypes
<1>3. /\ m \in WebMessages /\ m.type = "answer" /\ m.by = r
  BY <1>2, WebMessageTypes
<1> HIDE DEF m
<1>4. /\ toRelay' \in [Conns -> Seq(WebMessages)] /\ NoNewRegister
      /\ \A d \in Conns \ {r} : toRelay'[d] = toRelay[d]
      /\ \A q : ~AnswerOf(m, q) => Fewer(toRelay'[r], toRelay[r], q)
      /\ \A q : ~Holds(toRelay[r], q) => HoldsOne(toRelay'[r], q)
  BY <1>1, <1>3, SendUpMail
<1>5. CallTypes' /\ ListsPeers'
  BY <1>1, <1>4 DEF CallTypes, ListsPeers, relayVars
<1>6. RegistersOnce'
  BY <1>1, <1>4, RegistersKept DEF relayVars, RegistersOnce
<1>7. ASSUME NEW q \in Receivers, q # r
      PROVE  AnswersOnce(q)' /\ OneAnswer(q)'
  <2>1. ~AnswerOf(m, q)
    BY <1>3, <1>7 DEF AnswerOf
  <2>2. /\ \A c \in Receivers : Fewer(toRelay'[c], toRelay[c], q)
        /\ \A s \in Senders : Fewer(toApp'[s], toApp[s], q)
    BY <1>1, <1>4, <2>1, SameHolds DEF Conns
  <2>3. \A s \in Senders : remote'[s] # None /\ remote'[s].by = q => Applied(s, q)
    BY <1>1 DEF Applied
  <2>4. /\ serves'[q] = None => answering'[q] = "none"
        /\ answering'[q] # "sent" => answering[q] # "sent"
    BY <1>1, <1>7 DEF AnswersOnce, CallTypes
  <2> QED BY <2>2, <2>3, <2>4, QuietFor
<1>8. AnswersOnce(r)' /\ OneAnswer(r)'
  <2>1. /\ ~Holds(toRelay[r], r)
        /\ \A s \in Senders : ~Holds(toApp[s], r) /\ ~Applied(s, r)
    BY <1>1 DEF AnswersOnce
  <2>2. /\ \A s \in Senders : ~Applied(s, r)'
        /\ toApp' = toApp /\ serves' = serves /\ answering'[r] = "sent"
    BY <1>1, <2>1 DEF Applied, CallTypes
  <2>3. AnswersOnce(r)'
    BY <1>2, <2>2, CallAssumption DEF AnswersOnce
  <2>4. /\ \A c \in Receivers \ {r} : ~Holds(toRelay'[c], r)
        /\ HoldsOne(toRelay'[r], r)
    BY <1>4, <2>1 DEF OneAnswer, Conns
  <2>5. \A s \in Senders : HoldsOne(toApp[s], r)
    BY DEF OneAnswer
  <2>6. OneAnswer(r)'
    BY <2>1, <2>2, <2>4, <2>5 DEF OneAnswer
  <2> QED BY <2>3, <2>6
<1> QED BY <1>5, <1>6, <1>7, <1>8

(***************************************************************************)
(* The theorems                                                            *)
(***************************************************************************)

LEMMA CallStart == WebInit => CallInv
<1> SUFFICES ASSUME WebInit PROVE CallInv
  OBVIOUS
<1> USE DEF WebInit
<1>1. CallTypes
  BY FS_EmptySet DEF CallTypes
<1>2. ListsPeers /\ RegistersOnce
  BY DEF ListsPeers, RegistersOnce
<1>3. ASSUME NEW r \in Receivers
      PROVE  AnswersOnce(r) /\ OneAnswer(r)
  <2>1. /\ \A c \in Receivers : toRelay[c] = <<>>
        /\ \A s \in Senders : toApp[s] = <<>> /\ ~Applied(s, r)
    BY DEF Conns, Applied
  <2> QED BY <2>1, NothingHolds DEF AnswersOnce, OneAnswer
<1> QED BY <1>1, <1>2, <1>3 DEF CallInv

LEMMA CallStep ==
  ASSUME CallInv, [WebNext]_webVars
  PROVE  CallInv'
<1>1. ASSUME NEW c \in Conns, Launch(c) \/ Die(c)
      PROVE  CallInv'
  BY <1>1, CallLaunchInv, CallDieInv
<1>2. ASSUME NEW c \in Conns, RelayStep(c)
      PROVE  CallInv'
  BY <1>2, CallRegisterSenderInv, RouteOfferInv, CallRegisterReceiverInv,
     CallResumeInv, RouteAnswerInv, CallHangupInv DEF RelayStep
<1>3. ASSUME NEW c \in Conns, AppStep(c)
      PROVE  CallInv'
  BY <1>3, CallOnReadyInv, OfferReadyInv, OnAnswerInv, OnOfferInv, AnswerReadyInv
     DEF AppStep
<1>4. CASE UNCHANGED webVars
  <2>1. /\ CallTypes' /\ ListsPeers' /\ RegistersOnce'
    BY <1>4 DEF CallInv, CallTypes, ListsPeers, RegistersOnce, webVars, relayVars,
                callVars
  <2>2. \A r \in Receivers : AnswersOnce(r)' /\ OneAnswer(r)'
    BY <1>4, SameHolds, AnswersKept DEF webVars, callVars
  <2> QED BY <2>1, <2>2 DEF CallInv
<1> QED BY <1>1, <1>2, <1>3, <1>4 DEF WebNext

(* A process registers once, and a receiver's answer is at one place: on    *)
(* its way or with one sender, whoever dies and whoever takes whose name.   *)
THEOREM CallInvariant == WebSpec => []CallInv
<1>1. WebInit => CallInv
  BY CallStart
<1>2. CallInv /\ [WebNext]_webVars => CallInv'
  BY CallStep
<1> QED BY <1>1, <1>2, PTL DEF WebSpec

(* Two senders never hold the answer of the same receiver, although the     *)
(* relay routes an answer by its stream's name alone: the receiver answers  *)
(* one offer in its life, and no copy of the answer is made.                *)
THEOREM OneCallerPerReceiverHolds == WebSpec => []OneCallerPerReceiver
<1>1. CallInv => OneCallerPerReceiver
  <2>1. SUFFICES ASSUME CallInv, NEW s \in Senders, NEW t \in Senders,
                        remote[s] # None, remote[t] # None, s # t
        PROVE  remote[s].by # remote[t].by
    BY DEF OneCallerPerReceiver
  <2>2. remote[s].by \in Receivers
    BY <2>1 DEF CallInv, CallTypes
  <2>3. Applied(s, remote[s].by) /\ ~Applied(t, remote[s].by)
    BY <2>1, <2>2 DEF CallInv, OneAnswer, Applied
  <2> QED BY <2>1, <2>3 DEF Applied
<1> QED BY <1>1, CallInvariant, PTL

(* The end of an old connection, noticed late, does not take its successor  *)
(* out of the relay's tables: a name leads to the connection that took it   *)
(* until this one hangs up or another one registers (unregister).           *)
THEOREM SuccessorStaysHolds == WebSpec => SuccessorStays
<1> DEFINE Kept(old, new) ==
             old \in {None, new} \/ old \notin peers' \/ new \in peers' \ peers
           Keeps == /\ \A st \in Streams : Kept(senders[st], senders'[st])
                    /\ \A i \in Ids : Kept(receivers[i], receivers'[i])
<1>1. ASSUME CallInv, [WebNext]_webVars
      PROVE  [Keeps]_webVars
  <2>1. ASSUME UNCHANGED <<senders, receivers>>
        PROVE  Keeps
    BY <2>1
  <2>2. ASSUME NEW c \in Conns, Unregister(c)
        PROVE  Keeps
    BY <2>2 DEF Unregister
  <2>3. ASSUME NEW c \in Conns, Reads(c, "register")
        PROVE  c \notin peers
    <3>1. 1 \in DOMAIN toRelay[c] /\ toRelay[c][1].type = "register"
      BY <1>1, <2>3, TailMail DEF CallInv, CallTypes, Reads
    <3> QED BY <1>1, <3>1 DEF CallInv, RegistersOnce
  <2>4. ASSUME NEW s \in Senders, RegisterSender(s)
        PROVE  Keeps
    <3>1. s \notin peers
      BY <2>3, <2>4 DEF RegisterSender, Conns
    <3> QED BY <1>1, <2>4, <3>1 DEF RegisterSender, CallInv, CallTypes
  <2>5. ASSUME NEW r \in Receivers, RegisterReceiver(r)
        PROVE  Keeps
    <3>1. r \notin peers
      BY <2>3, <2>5 DEF RegisterReceiver, Conns
    <3> QED BY <1>1, <2>5, <3>1 DEF RegisterReceiver, CallInv, CallTypes
  <2> HIDE DEF Keeps
  <2>6. ASSUME NEW c \in Conns, Launch(c) \/ Die(c)
        PROVE  Keeps
    BY <2>1, <2>6 DEF Launch, Die, relayVars
  <2>7. ASSUME NEW c \in Conns, RelayStep(c)
        PROVE  Keeps
    <3>1. ASSUME NEW r \in Receivers, ResumeRegister(r)
          PROVE  Keeps
      BY <2>1, <2>2, <3>1 DEF ResumeRegister, Conns
    <3>2. CASE Hangup(c)
      BY <2>2, <3>2 DEF Hangup
    <3>3. ASSUME RouteOffer(c) \/ RouteAnswer(c)
          PROVE  Keeps
      BY <2>1, <3>3 DEF RouteOffer, RouteAnswer, relayVars
    <3> QED BY <2>4, <2>5, <2>7, <3>1, <3>2, <3>3 DEF RelayStep
  <2>8. ASSUME NEW c \in Conns, AppStep(c)
        PROVE  Keeps
    BY <2>1, <2>8 DEF AppStep, OnReady, OfferReady, OnAnswer, OnOffer, AnswerReady,
                      relayVars
  <2> QED BY <1>1, <2>6, <2>7, <2>8 DEF WebNext
<1> QED BY <1>1, CallInvariant, PTL DEF WebSpec, SuccessorStays
=============================================================================
