------------------------- MODULE ControlPlaneProofs -------------------------
(***************************************************************************)
(* The control channel, for any number of cameras, receivers and processes, *)
(* any names they are given and any number of deaths.                       *)
(***************************************************************************)
EXTENDS ControlPlane, FiniteSetTheorems, SequenceTheorems, TLAPS

(***************************************************************************)
(* Queues and messages                                                     *)
(***************************************************************************)

LEMMA TailQueue ==
  ASSUME NEW S, NEW q \in Seq(S), q # <<>>
  PROVE  /\ Tail(q) \in Seq(S) /\ Range(Tail(q)) \subseteq Range(q)
         /\ Head(q) \in Range(q) /\ Head(q) \in S
  BY DEF Range

LEMMA AppendQueue ==
  ASSUME NEW S, NEW q \in Seq(S), NEW m \in S
  PROVE  /\ Append(q, m) \in Seq(S) /\ Append(q, m) # <<>>
         /\ Range(Append(q, m)) = Range(q) \cup {m}
<1> DEFINE a == Append(q, m)
<1>1. /\ a \in Seq(S) /\ Len(q) \in Nat /\ Len(a) = Len(q) + 1 /\ a # <<>>
      /\ \A i \in 1 .. Len(q) : a[i] = q[i]
      /\ a[Len(q) + 1] = m
      /\ DOMAIN a = 1 .. Len(a) /\ DOMAIN q = 1 .. Len(q)
  OBVIOUS
<1> HIDE DEF a
<1>2. 1 .. Len(a) = (1 .. Len(q)) \cup {Len(q) + 1}
  BY <1>1
<1>3. Range(a) = {a[i] : i \in 1 .. Len(q)} \cup {m}
  BY <1>1, <1>2 DEF Range
<1>4. {a[i] : i \in 1 .. Len(q)} = Range(q)
  BY <1>1 DEF Range
<1> QED BY <1>1, <1>3, <1>4 DEF a

LEMMA JoinQueue ==
  ASSUME NEW S, NEW q \in Seq(S), NEW p \in Seq(S)
  PROVE  /\ q \o p \in Seq(S)
         /\ Range(q \o p) \subseteq Range(q) \cup Range(p)
  BY RangeConcatenation

LEMMA EmptyQueue == Range(<<>>) = {}
  BY DEF Range

LEMMA OneMessage == \A S : \A m \in S : <<m>> \in Seq(S) /\ Range(<<m>>) = {m}
  BY DEF Range

LEMMA MessageTypes ==
  /\ Register \in Messages
  /\ \A r \in Receivers : Ready(r) \in Messages
  /\ \A s \in Senders : Start(s) \in Messages
  /\ \A s \in Senders, g \in Nat : [Start(s) EXCEPT !.gen = g] \in Messages
  /\ \A st \in Streams, g \in Nat, ok \in BOOLEAN : Ack(st, g, ok) \in Messages
  BY DEF Messages, Register, Ready, Start, Ack

LEMMA MessageFields ==
  ASSUME NEW m \in Messages
  PROVE  /\ m.type \in {"register", "ready", "start", "ack"}
         /\ m.type = "ready" => m.recv \in Receivers
         /\ m.type = "start" => m.send \in Senders /\ m.gen \in Nat
         /\ m.type = "ack" => m.stream \in Streams /\ m.gen \in Nat /\ m.ok \in BOOLEAN
  BY DEF Messages

LEMMA MessageKinds ==
  /\ Register.type = "register"
  /\ \A r : Ready(r).type = "ready" /\ Ready(r).recv = r
  /\ \A s : Start(s).type = "start" /\ Start(s).send = s
  /\ \A s, g : LET m == [Start(s) EXCEPT !.gen = g]
               IN m.type = "start" /\ m.send = s /\ m.gen = g
  /\ \A st, g, ok : LET m == Ack(st, g, ok)
                    IN m.type = "ack" /\ m.gen = g /\ m.ok = ok /\ m.stream = st
  BY DEF Register, Ready, Start, Ack

(* What each way to use a queue does to the unread messages.                *)

LEMMA ConsumeQueue ==
  ASSUME ProcessTypes, NEW c \in Conns, toServer[c] # <<>>, Consume(c)
  PROVE  /\ toServer' \in [Conns -> Seq(Messages)]
         /\ \A d \in Conns : Range(toServer'[d]) \subseteq Range(toServer[d])
         /\ Head(toServer[c]) \in Range(toServer[c]) /\ Head(toServer[c]) \in Messages
<1>1. toServer[c] \in Seq(Messages) /\ toServer \in [Conns -> Seq(Messages)]
  BY DEF ProcessTypes
<1>2. /\ Tail(toServer[c]) \in Seq(Messages)
      /\ Range(Tail(toServer[c])) \subseteq Range(toServer[c])
      /\ Head(toServer[c]) \in Range(toServer[c]) /\ Head(toServer[c]) \in Messages
  BY <1>1, TailQueue
<1> QED BY <1>1, <1>2 DEF Consume

LEMMA TakeOffQueue ==
  ASSUME ProcessTypes, NEW c \in Conns, toApp[c] # <<>>, TakeOff(c)
  PROVE  /\ toApp' \in [Conns -> Seq(Messages)]
         /\ \A d \in Conns : Range(toApp'[d]) \subseteq Range(toApp[d])
         /\ \A d \in Conns \ {c} : toApp'[d] = toApp[d]
         /\ Head(toApp[c]) \in Range(toApp[c]) /\ Head(toApp[c]) \in Messages
<1>1. toApp[c] \in Seq(Messages) /\ toApp \in [Conns -> Seq(Messages)]
  BY DEF ProcessTypes
<1>2. /\ Tail(toApp[c]) \in Seq(Messages)
      /\ Range(Tail(toApp[c])) \subseteq Range(toApp[c])
      /\ Head(toApp[c]) \in Range(toApp[c]) /\ Head(toApp[c]) \in Messages
  BY <1>1, TailQueue
<1> QED BY <1>1, <1>2 DEF TakeOff

LEMMA SendUpQueue ==
  ASSUME ProcessTypes, NEW c \in Conns, NEW m \in Messages, SendUp(c, m)
  PROVE  /\ toServer' \in [Conns -> Seq(Messages)]
         /\ \A d \in Conns \ {c} : toServer'[d] = toServer[d]
         /\ Range(toServer'[c]) \subseteq Range(toServer[c]) \cup {m}
<1>1. toServer[c] \in Seq(Messages) /\ toServer \in [Conns -> Seq(Messages)]
  BY DEF ProcessTypes
<1>2. /\ Append(toServer[c], m) \in Seq(Messages)
      /\ Range(Append(toServer[c], m)) = Range(toServer[c]) \cup {m}
  BY <1>1, AppendQueue
<1> QED BY <1>1, <1>2 DEF SendUp

LEMMA DeliverQueue ==
  ASSUME ProcessTypes, NEW c \in Conns, NEW m \in Messages,
         toApp' = Deliver(toApp, c, m)
  PROVE  /\ toApp' \in [Conns -> Seq(Messages)]
         /\ \A d \in Conns \ {c} : toApp'[d] = toApp[d]
         /\ Range(toApp'[c]) \subseteq Range(toApp[c]) \cup {m}
<1>1. toApp[c] \in Seq(Messages) /\ toApp \in [Conns -> Seq(Messages)]
  BY DEF ProcessTypes
<1>2. /\ Append(toApp[c], m) \in Seq(Messages)
      /\ Range(Append(toApp[c], m)) = Range(toApp[c]) \cup {m}
  BY <1>1, AppendQueue
<1> QED BY <1>1, <1>2 DEF Deliver

LEMMA ExitQueues ==
  ASSUME ProcessTypes, NEW c \in Conns, Exit(c)
  PROVE  /\ toApp' \in [Conns -> Seq(Messages)] /\ toServer' \in [Conns -> Seq(Messages)]
         /\ link' \in [Conns -> {"none", "open", "lost", "closed"}]
         /\ app' \in [Conns -> {"off", "up", "gone"}]
         /\ app'[c] = "gone" /\ toApp'[c] = <<>>
         /\ link'[c] = IF link[c] = "open" THEN "lost" ELSE link[c]
         /\ \A d \in Conns \ {c} :
              app'[d] = app[d] /\ link'[d] = link[d] /\ toApp'[d] = toApp[d]
         /\ \A d \in Conns : /\ Range(toServer'[d]) \subseteq Range(toServer[d])
                             /\ Range(toApp'[d]) \subseteq Range(toApp[d])
<1>1. <<>> \in Seq(Messages) /\ Range(<<>>) = {}
  BY EmptyQueue
<1>2. \A d \in Conns : toServer[d] \in Seq(Messages) /\ toApp[d] \in Seq(Messages)
  BY DEF ProcessTypes
<1>3. /\ toApp' \in [Conns -> Seq(Messages)] /\ toApp'[c] = <<>>
      /\ \A d \in Conns \ {c} : toApp'[d] = toApp[d]
  BY <1>1 DEF Exit, ProcessTypes
<1>4. PICK left \in {toServer[c], <<>>} : toServer' = [toServer EXCEPT ![c] = left]
  BY DEF Exit
<1>5. left \in Seq(Messages) /\ Range(left) \subseteq Range(toServer[c])
  BY <1>1, <1>2, <1>4
<1>6. toServer' \in [Conns -> Seq(Messages)]
      /\ \A d \in Conns : Range(toServer'[d]) \subseteq Range(toServer[d])
  BY <1>4, <1>5 DEF ProcessTypes
<1>7. \A d \in Conns : Range(toApp'[d]) \subseteq Range(toApp[d])
  BY <1>1, <1>3
<1> QED BY <1>3, <1>6, <1>7 DEF Exit, ProcessTypes

(* The registrations tell senders, or are told, of receivers only.          *)

LEMMA ListedArePeers ==
  ASSUME ServerTypes, TablesListPeers
  PROVE  /\ Listed(senders) \subseteq peers \cap Senders
         /\ {receivers[i] : i \in Ids} \ {None} \subseteq peers \cap Receivers
         /\ IsFiniteSet(Listed(senders)) /\ Cardinality(Listed(senders)) \in Nat
         /\ IsFiniteSet({receivers[i] : i \in Ids} \ {None})
<1>1. Listed(senders) \subseteq peers \cap Senders
  BY DEF Listed, ServerTypes, TablesListPeers
<1>2. {receivers[i] : i \in Ids} \ {None} \subseteq peers \cap Receivers
  BY DEF ServerTypes, TablesListPeers
<1>3. IsFiniteSet(peers)
  BY DEF ServerTypes
<1> QED BY <1>1, <1>2, <1>3, FS_Subset, FS_CardinalityType

LEMMA TellSendersQueues ==
  ASSUME ServerTypes, ProcessTypes, TablesListPeers,
         NEW r \in Receivers, NEW told \in SUBSET Senders, TellSenders(r, told)
  PROVE  /\ toApp' \in [Conns -> Seq(Messages)]
         /\ \A d \in Conns : Range(toApp'[d]) \subseteq Range(toApp[d]) \cup {Ready(r)}
         /\ \A d \in Conns \ peers : toApp'[d] = toApp[d]
         /\ handler' \in [Receivers -> Suspensions \cup {None}]
         /\ \A q \in Receivers \ {r} : handler'[q] = handler[q]
<1> DEFINE rest == Listed(senders) \ told
           Told(ws) == [c \in Conns |->
                          IF c \in ws /\ link[c] = "open" THEN Append(toApp[c], Ready(r))
                          ELSE toApp[c]]
<1>1. rest \subseteq peers \cap Senders /\ Cardinality(Listed(senders)) \in Nat
  BY ListedArePeers
<1>2. \A d \in Conns : /\ toApp[d] \in Seq(Messages)
                       /\ Append(toApp[d], Ready(r)) \in Seq(Messages)
                       /\ Range(Append(toApp[d], Ready(r))) = Range(toApp[d]) \cup {Ready(r)}
  BY MessageTypes, AppendQueue DEF ProcessTypes
<1>3. ASSUME NEW ws \in SUBSET rest, toApp' = Told(ws)
      PROVE  /\ toApp' \in [Conns -> Seq(Messages)]
             /\ \A d \in Conns : Range(toApp'[d]) \subseteq Range(toApp[d]) \cup {Ready(r)}
             /\ \A d \in Conns \ peers : toApp'[d] = toApp[d]
  BY <1>1, <1>2, <1>3
<1>4. handler \in [Receivers -> Suspensions \cup {None}]
  BY DEF ServerTypes
<1>5. CASE toApp' = Told(rest) /\ handler' = [handler EXCEPT ![r] = None]
  BY <1>3, <1>4, <1>5
<1>6. ASSUME NEW w \in rest, NEW before \in SUBSET rest,
             toApp' = Told(before),
             handler' = [handler EXCEPT ![r] =
               [told |-> told \cup before \cup {w}, at |-> w,
                size |-> Cardinality(Listed(senders))]]
      PROVE  /\ toApp' \in [Conns -> Seq(Messages)]
             /\ \A d \in Conns : Range(toApp'[d]) \subseteq Range(toApp[d]) \cup {Ready(r)}
             /\ \A d \in Conns \ peers : toApp'[d] = toApp[d]
             /\ handler' \in [Receivers -> Suspensions \cup {None}]
             /\ \A q \in Receivers \ {r} : handler'[q] = handler[q]
  <2>1. [told |-> told \cup before \cup {w}, at |-> w,
         size |-> Cardinality(Listed(senders))] \in Suspensions
    BY <1>1 DEF Suspensions
  <2> QED BY <1>3, <1>4, <1>6, <2>1
<1> QED BY <1>5, <1>6 DEF TellSenders

LEMMA ToldReceivers ==
  ASSUME ServerTypes, ProcessTypes, TablesListPeers, NEW s \in Senders,
         NEW order \in SetToSeqs({receivers[i] : i \in Ids} \ {None})
  PROVE  LET told == toApp[s] \o [k \in DOMAIN order |-> Ready(order[k])]
         IN /\ told \in Seq(Messages)
            /\ \A m \in Range(told) : m \in Range(toApp[s]) \/ m.type = "ready"
<1> DEFINE listed == {receivers[i] : i \in Ids} \ {None}
           news == [k \in DOMAIN order |-> Ready(order[k])]
<1>1. Cardinality(listed) \in Nat /\ listed \subseteq Receivers
  BY ListedArePeers, FS_CardinalityType
<1>2. order \in [1 .. Cardinality(listed) -> listed]
  BY DEF SetToSeqs
<1>3. news \in [1 .. Cardinality(listed) -> Messages]
  BY <1>1, <1>2, MessageTypes
<1> HIDE DEF news
<1>4. news \in Seq(Messages)
  BY <1>1, <1>3, SeqDef
<1>5. \A m \in Range(news) : m.type = "ready"
  BY MessageKinds DEF Range, news
<1>6. toApp[s] \in Seq(Messages)
  BY DEF ProcessTypes, Conns
<1>7. /\ toApp[s] \o news \in Seq(Messages)
      /\ Range(toApp[s] \o news) \subseteq Range(toApp[s]) \cup Range(news)
  BY <1>4, <1>6, JoinQueue
<1> QED BY <1>5, <1>7 DEF news

(***************************************************************************)
(* Handshakes                                                              *)
(***************************************************************************)

\* Handshakes may end in a step, and none begins.
NoneBegins ==
  /\ generation' = generation
  /\ \A st \in Streams : pending'[st] \in {pending[st], None}

(* What the queues and the handshakes say of each other survives a step     *)
(* that neither begins a handshake nor sends a stream-start to a receiver    *)
(* or an answer to the server ...                                          *)
LEMMA GenerationsKept ==
  ASSUME GenerationsTell, NoneBegins,
         \A r \in Receivers : serving[r] # None => serving'[r] = serving[r],
         \A r \in Receivers : \A m \in Range(toApp'[r]) :
           m \in Range(toApp[r]) \/ m.type # "start",
         \A r \in Receivers : \A m \in Range(toServer'[r]) :
           m \in Range(toServer[r]) \/ m.type # "ack"
  PROVE  GenerationsTell'
<1>1. \A st \in Streams : pending'[st] # None => pending'[st].gen <= generation'
  BY DEF NoneBegins, GenerationsTell
<1>2. ASSUME NEW r \in Receivers, NEW m \in Range(toApp'[r]), m.type = "start"
      PROVE  OnlyFor(m.gen, m.send)'
  <2>1. OnlyFor(m.gen, m.send)
    BY <1>2 DEF GenerationsTell
  <2> QED BY <2>1 DEF NoneBegins, OnlyFor
<1>3. ASSUME NEW r \in Receivers, NEW m \in Range(toServer'[r]), m.type = "ack", m.ok
      PROVE  serving'[r] # None /\ OnlyFor(m.gen, serving[r])'
  <2>1. serving[r] # None /\ OnlyFor(m.gen, serving[r])
    BY <1>3 DEF GenerationsTell
  <2> QED BY <2>1 DEF NoneBegins, OnlyFor
<1> QED BY <1>1, <1>2, <1>3 DEF GenerationsTell

\* ... nor passes an answer on to a sender.
LEMMA OksKept ==
  ASSUME OkIsServed,
         \A r \in Receivers : serving[r] # None => serving'[r] = serving[r],
         \A s \in Senders : \A m \in Range(toApp'[s]) :
           m \in Range(toApp[s]) \/ m.type # "ack"
  PROVE  OkIsServed'
<1>1. ASSUME NEW s \in Senders, NEW m \in Range(toApp'[s]), m.type = "ack", m.ok
      PROVE  \E r \in Receivers : serving'[r] = s
  <2>1. PICK r \in Receivers : serving[r] = s
    BY <1>1 DEF OkIsServed
  <2>2. s # None
    BY NamesAssumption
  <2> QED BY <2>1, <2>2
<1> QED BY <1>1 DEF OkIsServed

LEMMA QuietStep ==
  ASSUME GenerationsTell, OkIsServed, NoneBegins,
         \A r \in Receivers : serving[r] # None => serving'[r] = serving[r],
         \A c \in Conns : \A m \in Range(toApp'[c]) :
           m \in Range(toApp[c]) \/ m.type \in {"register", "ready"},
         \A c \in Conns : \A m \in Range(toServer'[c]) :
           m \in Range(toServer[c]) \/ m.type \in {"register", "start"}
  PROVE  GenerationsTell' /\ OkIsServed'
  BY GenerationsKept, OksKept DEF Conns

LEMMA DroppedPending ==
  ASSUME ServerTypes, NEW conn, pending' = WithoutPendingOf(conn)
  PROVE  /\ pending' \in [Streams -> [recv : Receivers, send : Senders, gen : Nat]
                                     \cup {None}]
         /\ \A st \in Streams :
              /\ pending'[st] \in {pending[st], None}
              /\ pending'[st] # None => conn # pending[st].recv /\ conn # pending[st].send
  BY DEF ServerTypes, WithoutPendingOf

LEMMA UnregisterTables ==
  ASSUME ServerTypes, TablesListPeers, PendingIsLive,
         NEW c \in Conns, Unregister(c), generation' = generation,
         handler' \in [Receivers -> Suspensions \cup {None}]
  PROVE  ServerTypes' /\ TablesListPeers' /\ PendingIsLive' /\ NoneBegins
<1>1. /\ pending' \in [Streams -> [recv : Receivers, send : Senders, gen : Nat]
                                     \cup {None}]
      /\ \A st \in Streams :
           /\ pending'[st] \in {pending[st], None}
           /\ pending'[st] # None => c # pending[st].recv /\ c # pending[st].send
  BY DroppedPending DEF Unregister
<1>2. NoneBegins
  BY <1>1 DEF NoneBegins
<1>3. peers' = peers \ {c} /\ IsFiniteSet(peers')
  BY FS_Subset DEF Unregister, ServerTypes
<1>4. ServerTypes'
  BY <1>1, <1>3 DEF Unregister, ServerTypes
<1>5. TablesListPeers'
  BY <1>3 DEF Unregister, TablesListPeers
<1>6. PendingIsLive'
  <2>1. SUFFICES ASSUME NEW st \in Streams, pending'[st] # None
        PROVE  /\ {pending[st].recv, pending[st].send} \subseteq peers'
               /\ receivers'[IdOf[pending[st].recv]] = pending[st].recv
               /\ StreamOf[pending[st].send] = st
    BY <1>1 DEF PendingIsLive
  <2>2. pending[st] # None /\ pending[st].recv \in Receivers
    BY <1>1, <2>1 DEF ServerTypes
  <2>3. IdOf[pending[st].recv] \in Ids
    BY <2>2, NamesAssumption
  <2> QED BY <1>1, <1>3, <2>1, <2>2, <2>3 DEF PendingIsLive, Unregister
<1> QED BY <1>2, <1>4, <1>5, <1>6

(***************************************************************************)
(* Registration comes first                                                *)
(***************************************************************************)

LEMMA ComesFirstKept ==
  ASSUME RegisterComesFirst, UNCHANGED <<app, link>>, peers \subseteq peers',
         \A d \in peers' \ peers : link[d] \in {"open", "lost"},
         \A d \in Conns \ peers' : link[d] # "closed" =>
           toApp'[d] = toApp[d] /\ Range(toServer'[d]) \subseteq Range(toServer[d])
  PROVE  RegisterComesFirst'
<1>1. SUFFICES ASSUME NEW c \in Conns
      PROVE  /\ app[c] = "off" => link[c] = "none"
             /\ c \in peers' => link[c] \in {"open", "lost"}
             /\ c \notin peers' /\ link[c] # "closed" =>
                  toApp'[c] = <<>> /\ Range(toServer'[c]) \subseteq {Register}
  BY DEF RegisterComesFirst
<1>2. /\ app[c] = "off" => link[c] = "none"
      /\ c \in peers => link[c] \in {"open", "lost"}
      /\ c \notin peers /\ link[c] # "closed" =>
           toApp[c] = <<>> /\ Range(toServer[c]) \subseteq {Register}
  BY DEF RegisterComesFirst
<1> QED BY <1>2

LEMMA ComesFirstExit ==
  ASSUME ProcessTypes, RegisterComesFirst, NEW c \in Conns, app[c] = "up",
         Exit(c), peers' = peers
  PROVE  RegisterComesFirst'
<1>1. SUFFICES ASSUME NEW d \in Conns
      PROVE  /\ app'[d] = "off" => link'[d] = "none"
             /\ d \in peers => link'[d] \in {"open", "lost"}
             /\ d \notin peers /\ link'[d] # "closed" =>
                  toApp'[d] = <<>> /\ Range(toServer'[d]) \subseteq {Register}
  BY DEF RegisterComesFirst
<1>2. /\ app[d] = "off" => link[d] = "none"
      /\ d \in peers => link[d] \in {"open", "lost"}
      /\ d \notin peers /\ link[d] # "closed" =>
           toApp[d] = <<>> /\ Range(toServer[d]) \subseteq {Register}
  BY DEF RegisterComesFirst
<1>3. /\ app'[c] = "gone" /\ toApp'[c] = <<>>
      /\ link'[c] = IF link[c] = "open" THEN "lost" ELSE link[c]
      /\ d # c => app'[d] = app[d] /\ link'[d] = link[d] /\ toApp'[d] = toApp[d]
      /\ Range(toServer'[d]) \subseteq Range(toServer[d])
  BY ExitQueues
<1> QED BY <1>2, <1>3

LEMMA ComesFirstUnregister ==
  ASSUME ProcessTypes, RegisterComesFirst, NEW c \in Conns, app[c] # "off",
         Unregister(c), UNCHANGED <<app, toApp, toServer>>
  PROVE  RegisterComesFirst'
<1>1. SUFFICES ASSUME NEW d \in Conns
      PROVE  /\ app[d] = "off" => link'[d] = "none"
             /\ d \in peers' => link'[d] \in {"open", "lost"}
             /\ d \notin peers' /\ link'[d] # "closed" =>
                  toApp[d] = <<>> /\ Range(toServer[d]) \subseteq {Register}
  BY DEF RegisterComesFirst
<1>2. /\ app[d] = "off" => link[d] = "none"
      /\ d \in peers => link[d] \in {"open", "lost"}
      /\ d \notin peers /\ link[d] # "closed" =>
           toApp[d] = <<>> /\ Range(toServer[d]) \subseteq {Register}
  BY DEF RegisterComesFirst
<1>3. peers' = peers \ {c} /\ link' = [link EXCEPT ![c] = "closed"]
  BY DEF Unregister
<1> QED BY <1>2, <1>3 DEF ProcessTypes

\* Who is sent to or says anything but "register" is registered.
LEMMA SpeaksAsPeer ==
  ASSUME RegisterComesFirst, NEW c \in Conns, link[c] # "closed",
         toApp[c] # <<>> \/ \E m \in Range(toServer[c]) : m # Register
  PROVE  c \in peers
  BY DEF RegisterComesFirst

LEMMA ReadsAsPeer ==
  ASSUME ProcessTypes, RegisterComesFirst, NEW c \in Conns, NEW type,
         type # "register", Reads(c, type)
  PROVE  c \in peers /\ toServer[c] # <<>>
<1>1. toServer[c] # <<>> /\ link[c] # "closed" /\ Head(toServer[c]).type = type
  BY DEF Reads, Readable
<1>2. Head(toServer[c]) \in Range(toServer[c]) /\ Head(toServer[c]) # Register
  BY <1>1, TailQueue, MessageKinds DEF ProcessTypes
<1> QED BY <1>1, <1>2, SpeaksAsPeer

(***************************************************************************)
(* One lemma per step                                                      *)
(***************************************************************************)

LEMMA StreamsKept ==
  ASSUME StreamingIsServed,
         \A s \in Senders : phase'[s] = "streaming" => phase[s] = "streaming",
         \A r \in Receivers : serving[r] # None => serving'[r] = serving[r]
  PROVE  StreamingIsServed'
  BY NamesAssumption DEF StreamingIsServed

LEMMA ServerKept ==
  ASSUME ServerTypes, TablesListPeers, SuspendedIsPeer, PendingIsLive,
         UNCHANGED serverVars
  PROVE  /\ ServerTypes' /\ TablesListPeers' /\ SuspendedIsPeer' /\ PendingIsLive'
         /\ NoneBegins
<1>1. /\ senders' = senders /\ receivers' = receivers /\ peers' = peers
      /\ pending' = pending /\ generation' = generation /\ handler' = handler
  BY DEF serverVars
<1> QED BY <1>1 DEF ServerTypes, TablesListPeers, SuspendedIsPeer, PendingIsLive,
                    NoneBegins

LEMMA LaunchInv ==
  ASSUME ControlInv, NEW c \in Conns, Launch(c)
  PROVE  ControlInv'
<1> USE DEF ControlInv
<1>1. /\ app[c] = "off" /\ app' = [app EXCEPT ![c] = "up"]
      /\ link' = [link EXCEPT ![c] = "open"]
      /\ toServer' = [toServer EXCEPT ![c] = <<Register>>]
      /\ UNCHANGED <<serverVars, toApp, phase, serving>>
  BY DEF Launch, senderVars
<1>2. /\ ServerTypes' /\ TablesListPeers' /\ SuspendedIsPeer' /\ PendingIsLive'
      /\ NoneBegins
  BY <1>1, ServerKept
<1>3. <<Register>> \in Seq(Messages) /\ Range(<<Register>>) = {Register}
  BY MessageTypes, OneMessage
<1>4. ProcessTypes'
  BY <1>1, <1>3 DEF ProcessTypes
<1>5. RegisterComesFirst'
  <2>1. SUFFICES ASSUME NEW d \in Conns
        PROVE  /\ app'[d] = "off" => link'[d] = "none"
               /\ d \in peers => link'[d] \in {"open", "lost"}
               /\ d \notin peers /\ link'[d] # "closed" =>
                    toApp[d] = <<>> /\ Range(toServer'[d]) \subseteq {Register}
    BY <1>1 DEF RegisterComesFirst, serverVars
  <2>2. /\ app[d] = "off" => link[d] = "none"
        /\ d \in peers => link[d] \in {"open", "lost"}
        /\ d \notin peers /\ link[d] # "closed" =>
             toApp[d] = <<>> /\ Range(toServer[d]) \subseteq {Register}
    BY DEF RegisterComesFirst
  <2> QED BY <1>1, <1>3, <2>2 DEF ProcessTypes
<1>6. GenerationsTell' /\ OkIsServed'
  <2>1. \A d \in Conns : \A m \in Range(toServer'[d]) :
          m \in Range(toServer[d]) \/ m.type \in {"register", "start"}
    BY <1>1, <1>3, MessageKinds DEF ProcessTypes
  <2> QED BY <1>1, <1>2, <2>1, QuietStep
<1>7. StreamingIsServed'
  BY <1>1, StreamsKept
<1> QED BY <1>2, <1>4, <1>5, <1>6, <1>7

\* A process that ends, unless it starts to stream.
LEMMA ExitInv ==
  ASSUME ControlInv, NEW c \in Conns, app[c] = "up", Exit(c),
         UNCHANGED <<serverVars, serving>>,
         phase' \in [Senders -> {"new", "awaiting", "streaming", "fatal"}],
         \A s \in Senders : phase'[s] = "streaming" => phase[s] = "streaming"
  PROVE  ControlInv'
<1> USE DEF ControlInv
<1>1. /\ ServerTypes' /\ TablesListPeers' /\ SuspendedIsPeer' /\ PendingIsLive'
      /\ NoneBegins
  BY ServerKept
<1>2. ProcessTypes'
  BY ExitQueues DEF ProcessTypes
<1>3. RegisterComesFirst'
  BY ComesFirstExit DEF serverVars
<1>4. GenerationsTell' /\ OkIsServed'
  <2>1. \A d \in Conns : /\ Range(toServer'[d]) \subseteq Range(toServer[d])
                         /\ Range(toApp'[d]) \subseteq Range(toApp[d])
    BY ExitQueues
  <2> QED BY <1>1, <2>1, QuietStep
<1>5. StreamingIsServed'
  BY StreamsKept
<1> QED BY <1>1, <1>2, <1>3, <1>4, <1>5

LEMMA HangupInv ==
  ASSUME ControlInv, NEW c \in Conns, Hangup(c)
  PROVE  ControlInv'
<1> USE DEF ControlInv
<1>1. /\ link[c] = "lost" /\ Unregister(c)
      /\ c \in Receivers => handler[c] = None
      /\ UNCHANGED <<generation, handler, toServer, toApp, app, phase, serving>>
  BY DEF Hangup, senderVars
<1>2. ServerTypes' /\ TablesListPeers' /\ PendingIsLive' /\ NoneBegins
  BY <1>1, UnregisterTables DEF ServerTypes
<1>3. ProcessTypes'
  BY <1>1 DEF Unregister, ProcessTypes
<1>4. SuspendedIsPeer'
  BY <1>1 DEF Unregister, SuspendedIsPeer
<1>5. RegisterComesFirst'
  <2>1. app[c] # "off"
    BY <1>1 DEF RegisterComesFirst
  <2> QED BY <1>1, <2>1, ComesFirstUnregister
<1>6. GenerationsTell' /\ OkIsServed'
  BY <1>1, <1>2, QuietStep
<1>7. StreamingIsServed'
  BY <1>1, StreamsKept
<1> QED BY <1>2, <1>3, <1>4, <1>5, <1>6, <1>7

LEMMA RegisterSenderInv ==
  ASSUME ControlInv, NEW s \in Senders, RegisterSender(s)
  PROVE  ControlInv'
<1> USE DEF ControlInv
<1>1. /\ Reads(s, "register") /\ Consume(s)
      /\ pending' = WithoutPendingOf(senders[StreamOf[s]])
      /\ senders' = [senders EXCEPT ![StreamOf[s]] = s]
      /\ peers' = peers \cup {s}
      /\ UNCHANGED <<receivers, generation, handler, link, app, phase, serving>>
  BY DEF RegisterSender, senderVars
<1>2. s \in Conns /\ StreamOf[s] \in Streams /\ toServer[s] # <<>>
      /\ link[s] \in {"open", "lost"}
  BY <1>1, NamesAssumption DEF Conns, Reads, Readable
<1>3. /\ pending' \in [Streams -> [recv : Receivers, send : Senders, gen : Nat]
                                     \cup {None}]
      /\ \A st \in Streams : pending'[st] \in {pending[st], None}
  BY <1>1, DroppedPending
<1>4. NoneBegins
  BY <1>1, <1>3 DEF NoneBegins
<1>5. /\ toServer' \in [Conns -> Seq(Messages)]
      /\ \A d \in Conns : Range(toServer'[d]) \subseteq Range(toServer[d])
  BY <1>1, <1>2, ConsumeQueue
<1>6. /\ toApp' \in [Conns -> Seq(Messages)]
      /\ \A d \in Conns \ {s} : toApp'[d] = toApp[d]
      /\ \A m \in Range(toApp'[s]) : m \in Range(toApp[s]) \/ m.type = "ready"
  <2>1. PICK order \in SetToSeqs({receivers[i] : i \in Ids} \ {None}) :
          toApp' = [toApp EXCEPT ![s] = IF link[s] = "open"
                      THEN @ \o [k \in DOMAIN order |-> Ready(order[k])] ELSE @]
    BY DEF RegisterSender
  <2> DEFINE told == toApp[s] \o [k \in DOMAIN order |-> Ready(order[k])]
  <2>2. /\ told \in Seq(Messages)
        /\ \A m \in Range(told) : m \in Range(toApp[s]) \/ m.type = "ready"
    BY ToldReceivers
  <2>3. toApp' = [toApp EXCEPT ![s] = IF link[s] = "open" THEN told ELSE toApp[s]]
    BY <2>1
  <2> HIDE DEF told
  <2> QED BY <1>2, <2>2, <2>3 DEF ProcessTypes
<1>7. ServerTypes'
  <2>1. IsFiniteSet(peers') /\ peers' \in SUBSET Conns
    BY <1>1, <1>2, FS_AddElement DEF ServerTypes
  <2> QED BY <1>1, <1>2, <1>3, <2>1 DEF ServerTypes
<1>8. ProcessTypes'
  BY <1>1, <1>5, <1>6 DEF ProcessTypes
<1>9. TablesListPeers'
  BY <1>1, <1>2 DEF TablesListPeers, ServerTypes
<1>10. SuspendedIsPeer'
  BY <1>1 DEF SuspendedIsPeer
<1>11. PendingIsLive'
  BY <1>1, <1>3 DEF PendingIsLive
<1>12. RegisterComesFirst'
  BY <1>1, <1>2, <1>5, <1>6, ComesFirstKept
<1>13. GenerationsTell' /\ OkIsServed'
  BY <1>1, <1>4, <1>5, <1>6, QuietStep
<1>14. StreamingIsServed'
  BY <1>1, StreamsKept
<1> QED BY <1>7, <1>8, <1>9, <1>10, <1>11, <1>12, <1>13, <1>14

LEMMA RegisterReceiverInv ==
  ASSUME ControlInv, NEW r \in Receivers, RegisterReceiver(r)
  PROVE  ControlInv'
<1> USE DEF ControlInv
<1>1. /\ Reads(r, "register") /\ Consume(r)
      /\ pending' = WithoutPendingOf(receivers[IdOf[r]])
      /\ receivers' = [receivers EXCEPT ![IdOf[r]] = r]
      /\ peers' = peers \cup {r}
      /\ TellSenders(r, {})
      /\ UNCHANGED <<senders, generation, link, app, phase, serving>>
  BY DEF RegisterReceiver, senderVars
<1>2. r \in Conns /\ IdOf[r] \in Ids /\ toServer[r] # <<>>
      /\ link[r] \in {"open", "lost"}
  BY <1>1, NamesAssumption DEF Conns, Reads, Readable
<1>3. /\ pending' \in [Streams -> [recv : Receivers, send : Senders, gen : Nat]
                                     \cup {None}]
      /\ \A st \in Streams :
           /\ pending'[st] \in {pending[st], None}
           /\ pending'[st] # None => receivers[IdOf[r]] # pending[st].recv
  BY <1>1, DroppedPending
<1>4. NoneBegins
  BY <1>1, <1>3 DEF NoneBegins
<1>5. /\ toServer' \in [Conns -> Seq(Messages)]
      /\ \A d \in Conns : Range(toServer'[d]) \subseteq Range(toServer[d])
  BY <1>1, <1>2, ConsumeQueue
<1>6. /\ toApp' \in [Conns -> Seq(Messages)]
      /\ \A d \in Conns : Range(toApp'[d]) \subseteq Range(toApp[d]) \cup {Ready(r)}
      /\ \A d \in Conns \ peers : toApp'[d] = toApp[d]
      /\ handler' \in [Receivers -> Suspensions \cup {None}]
      /\ \A q \in Receivers \ {r} : handler'[q] = handler[q]
  BY <1>1, TellSendersQueues
<1>7. ServerTypes'
  <2>1. IsFiniteSet(peers') /\ peers' \in SUBSET Conns
    BY <1>1, <1>2, FS_AddElement DEF ServerTypes
  <2> QED BY <1>1, <1>2, <1>3, <1>6, <2>1 DEF ServerTypes
<1>8. ProcessTypes'
  BY <1>1, <1>5, <1>6 DEF ProcessTypes
<1>9. TablesListPeers'
  BY <1>1, <1>2 DEF TablesListPeers, ServerTypes
<1>10. SuspendedIsPeer'
  BY <1>1, <1>6 DEF SuspendedIsPeer
<1>11. PendingIsLive'
  <2>1. SUFFICES ASSUME NEW st \in Streams, pending'[st] # None
        PROVE  /\ {pending[st].recv, pending[st].send} \subseteq peers'
               /\ receivers'[IdOf[pending[st].recv]] = pending[st].recv
               /\ StreamOf[pending[st].send] = st
    BY <1>3 DEF PendingIsLive
  <2>2. /\ pending[st] # None
        /\ {pending[st].recv, pending[st].send} \subseteq peers
        /\ receivers[IdOf[pending[st].recv]] = pending[st].recv
        /\ StreamOf[pending[st].send] = st
    BY <1>3, <2>1 DEF PendingIsLive
  <2>3. IdOf[pending[st].recv] # IdOf[r]
    BY <1>3, <2>1, <2>2
  <2> QED BY <1>1, <2>2, <2>3 DEF ServerTypes
<1>12. RegisterComesFirst'
  BY <1>1, <1>2, <1>5, <1>6, ComesFirstKept
<1>13. GenerationsTell' /\ OkIsServed'
  <2>1. \A d \in Conns : \A m \in Range(toApp'[d]) :
          m \in Range(toApp[d]) \/ m.type \in {"register", "ready"}
    BY <1>6, MessageKinds
  <2> QED BY <1>1, <1>4, <1>5, <2>1, QuietStep
<1>14. StreamingIsServed'
  BY <1>1, StreamsKept
<1> QED BY <1>7, <1>8, <1>9, <1>10, <1>11, <1>12, <1>13, <1>14

LEMMA ResumeRegisterInv ==
  ASSUME ControlInv, NEW r \in Receivers, ResumeRegister(r)
  PROVE  ControlInv'
<1> USE DEF ControlInv
<1>1. /\ handler[r] # None
      /\ UNCHANGED <<generation, toServer, app, phase, serving>>
  BY DEF ResumeRegister, senderVars
<1>2. r \in peers /\ r \in Conns /\ handler[r].told \in SUBSET Senders
  BY <1>1 DEF SuspendedIsPeer, ServerTypes, Suspensions, Conns
<1>3. CASE /\ TellSenders(r, handler[r].told)
           /\ UNCHANGED <<senders, receivers, peers, pending, link>>
  <2>1. /\ toApp' \in [Conns -> Seq(Messages)]
        /\ \A d \in Conns : Range(toApp'[d]) \subseteq Range(toApp[d]) \cup {Ready(r)}
        /\ \A d \in Conns \ peers : toApp'[d] = toApp[d]
        /\ handler' \in [Receivers -> Suspensions \cup {None}]
        /\ \A q \in Receivers \ {r} : handler'[q] = handler[q]
    BY <1>2, <1>3, TellSendersQueues
  <2>2. NoneBegins
    BY <1>1, <1>3 DEF NoneBegins
  <2>3. ServerTypes' /\ ProcessTypes'
    BY <1>1, <1>3, <2>1 DEF ServerTypes, ProcessTypes
  <2>4. TablesListPeers' /\ PendingIsLive'
    BY <1>3 DEF TablesListPeers, PendingIsLive
  <2>5. SuspendedIsPeer'
    BY <1>2, <1>3, <2>1 DEF SuspendedIsPeer
  <2>6. RegisterComesFirst'
    BY <1>1, <1>3, <2>1, ComesFirstKept
  <2>7. GenerationsTell' /\ OkIsServed'
    <3>1. \A d \in Conns : \A m \in Range(toApp'[d]) :
            m \in Range(toApp[d]) \/ m.type \in {"register", "ready"}
      BY <2>1, MessageKinds
    <3> QED BY <1>1, <2>2, <3>1, QuietStep
  <2>8. StreamingIsServed'
    BY <1>1, StreamsKept
  <2> QED BY <2>3, <2>4, <2>5, <2>6, <2>7, <2>8
<1>4. CASE /\ Unregister(r) /\ handler' = [handler EXCEPT ![r] = None]
           /\ UNCHANGED toApp
  <2>1. handler' \in [Receivers -> Suspensions \cup {None}]
    BY <1>4 DEF ServerTypes
  <2>2. ServerTypes' /\ TablesListPeers' /\ PendingIsLive' /\ NoneBegins
    BY <1>1, <1>2, <1>4, <2>1, UnregisterTables
  <2>3. ProcessTypes'
    BY <1>1, <1>4 DEF Unregister, ProcessTypes
  <2>4. SuspendedIsPeer'
    BY <1>4 DEF Unregister, SuspendedIsPeer, ServerTypes
  <2>5. RegisterComesFirst'
    <3>1. app[r] # "off"
      BY <1>2 DEF RegisterComesFirst
    <3> QED BY <1>1, <1>2, <1>4, <3>1, ComesFirstUnregister
  <2>6. GenerationsTell' /\ OkIsServed'
    BY <1>1, <1>4, <2>2, QuietStep
  <2>7. StreamingIsServed'
    BY <1>1, StreamsKept
  <2> QED BY <2>2, <2>3, <2>4, <2>5, <2>6, <2>7
<1> QED BY <1>3, <1>4 DEF ResumeRegister

LEMMA RouteStartInv ==
  ASSUME ControlInv, NEW s \in Senders, RouteStart(s)
  PROVE  ControlInv'
<1> USE DEF ControlInv
<1> DEFINE r == receivers[Target[s]]
           g == generation + 1
<1>1. /\ Reads(s, "start") /\ Consume(s)
      /\ UNCHANGED <<senders, receivers, peers, handler, link, app, phase, serving>>
  BY DEF RouteStart, senderVars
<1>2. /\ s \in Conns /\ StreamOf[s] \in Streams
      /\ r \in Receivers \cup {None} /\ g \in Nat
  BY NamesAssumption DEF Conns, ServerTypes
<1>3. s \in peers /\ toServer[s] # <<>>
  BY <1>1, <1>2, ReadsAsPeer
<1>4. /\ toServer' \in [Conns -> Seq(Messages)]
      /\ \A d \in Conns : Range(toServer'[d]) \subseteq Range(toServer[d])
  BY <1>1, <1>2, <1>3, ConsumeQueue
<1>5. TablesListPeers' /\ SuspendedIsPeer'
  BY <1>1 DEF TablesListPeers, SuspendedIsPeer
<1>6. StreamingIsServed'
  BY <1>1, StreamsKept
<1>7. CASE r = None /\ UNCHANGED <<generation, pending, toApp>>
  <2>1. NoneBegins
    BY <1>7 DEF NoneBegins
  <2>2. ServerTypes' /\ ProcessTypes' /\ PendingIsLive'
    BY <1>1, <1>4, <1>7 DEF ServerTypes, ProcessTypes, PendingIsLive
  <2>3. RegisterComesFirst'
    BY <1>1, <1>4, <1>7, ComesFirstKept
  <2>4. GenerationsTell' /\ OkIsServed'
    BY <1>1, <1>4, <1>7, <2>1, QuietStep
  <2> QED BY <1>5, <1>6, <2>2, <2>3, <2>4
<1>8. CASE /\ r # None
           /\ generation' = g
           /\ pending' = [pending EXCEPT ![StreamOf[s]] =
                [recv |-> r, send |-> s, gen |-> g]]
           /\ toApp' = Deliver(toApp, r, [Start(s) EXCEPT !.gen = g])
  <2> DEFINE start == [Start(s) EXCEPT !.gen = g]
  <2>1. /\ r \in Receivers /\ r \in Conns /\ r \in peers /\ IdOf[r] = Target[s]
    BY <1>2, <1>8, NamesAssumption DEF TablesListPeers, Conns
  <2>2. /\ start \in Messages /\ start.type = "start" /\ start.send = s
        /\ start.gen = g
    BY <1>2, MessageTypes, MessageKinds
  <2> HIDE DEF start
  <2>3. toApp' = Deliver(toApp, r, start)
    BY <1>8 DEF start
  <2>4. /\ toApp' \in [Conns -> Seq(Messages)]
        /\ \A d \in Conns \ {r} : toApp'[d] = toApp[d]
        /\ Range(toApp'[r]) \subseteq Range(toApp[r]) \cup {start}
    BY <2>1, <2>2, <2>3, DeliverQueue
  <2> HIDE DEF r
  <2>5. ServerTypes' /\ ProcessTypes'
    BY <1>1, <1>2, <1>4, <1>8, <2>1, <2>4 DEF ServerTypes, ProcessTypes
  <2>6. /\ pending'[StreamOf[s]] = [recv |-> r, send |-> s, gen |-> g]
        /\ \A st \in Streams \ {StreamOf[s]} : pending'[st] = pending[st]
    BY <1>2, <1>8 DEF ServerTypes
  <2>7. PendingIsLive'
    <3>1. SUFFICES ASSUME NEW st \in Streams, pending'[st] # None
          PROVE  /\ {pending'[st].recv, pending'[st].send} \subseteq peers
                 /\ receivers[IdOf[pending'[st].recv]] = pending'[st].recv
                 /\ StreamOf[pending'[st].send] = st
      BY <1>1 DEF PendingIsLive
    <3>2. CASE st = StreamOf[s]
      BY <1>3, <2>1, <2>6, <3>2 DEF r
    <3>3. CASE st # StreamOf[s]
      BY <2>6, <3>1, <3>3 DEF PendingIsLive
    <3> QED BY <3>2, <3>3
  <2>8. RegisterComesFirst'
    BY <1>1, <1>4, <2>1, <2>4, ComesFirstKept
  <2>9. ASSUME NEW h \in Nat, NEW t, OnlyFor(h, t)
        PROVE  OnlyFor(h, t)'
    BY <1>2, <1>8, <2>6, <2>9 DEF OnlyFor, ServerTypes
  <2>10. ASSUME NEW h \in Nat, h = g
         PROVE  OnlyFor(h, s)'
    <3>1. \A st \in Streams : pending[st] # None =>
            pending[st].gen <= generation /\ pending[st].gen \in Nat
      BY DEF GenerationsTell, ServerTypes
    <3>2. \A st \in Streams : pending[st] # None => pending[st].gen # g
      BY <3>1 DEF ServerTypes
    <3> QED BY <1>2, <1>8, <2>6, <2>10, <3>2 DEF OnlyFor
  <2>11. GenerationsTell'
    <3>1. ASSUME NEW st \in Streams, pending'[st] # None
          PROVE  pending'[st].gen <= generation'
      <4>1. CASE st = StreamOf[s]
        BY <1>2, <1>8, <2>6, <4>1
      <4>2. CASE st # StreamOf[s]
        <5>1. pending[st].gen \in Nat /\ pending[st].gen <= generation
          BY <2>6, <3>1, <4>2 DEF GenerationsTell, ServerTypes
        <5> QED BY <1>8, <2>6, <4>2, <5>1 DEF ServerTypes
      <4> QED BY <4>1, <4>2
    <3>2. ASSUME NEW q \in Receivers, NEW m \in Range(toApp'[q]), m.type = "start"
          PROVE  OnlyFor(m.gen, m.send)'
      <4>1. CASE m = start
        BY <1>2, <2>2, <2>10, <4>1
      <4>2. CASE m \in Range(toApp[q])
        <5>1. m \in Messages
          BY <4>2, RangeOfSeq DEF ProcessTypes, Conns
        <5>2. m.gen \in Nat /\ OnlyFor(m.gen, m.send)
          BY <3>2, <4>2, <5>1, MessageFields DEF GenerationsTell
        <5> QED BY <2>9, <5>2
      <4> QED BY <2>4, <4>1, <4>2 DEF Conns
    <3>3. ASSUME NEW q \in Receivers, NEW m \in Range(toServer'[q]),
                 m.type = "ack", m.ok
          PROVE  serving'[q] # None /\ OnlyFor(m.gen, serving[q])'
      <4>1. m \in Range(toServer[q]) /\ m \in Messages
        BY <1>4, RangeOfSeq DEF ProcessTypes, Conns
      <4>2. m.gen \in Nat /\ serving[q] # None /\ OnlyFor(m.gen, serving[q])
        BY <3>3, <4>1, MessageFields DEF GenerationsTell
      <4>3. OnlyFor(m.gen, serving[q])'
        BY <1>1, <2>9, <4>2 DEF OnlyFor
      <4> QED BY <1>1, <4>2, <4>3
    <3> QED BY <3>1, <3>2, <3>3 DEF GenerationsTell
  <2>12. OkIsServed'
    <3>1. \A t \in Senders : \A m \in Range(toApp'[t]) :
            m \in Range(toApp[t]) \/ m.type # "ack"
      BY <2>2, <2>4 DEF Conns
    <3> QED BY <1>1, <3>1, OksKept
  <2> QED BY <1>5, <1>6, <2>5, <2>7, <2>8, <2>11, <2>12
<1> QED BY <1>7, <1>8 DEF RouteStart

LEMMA RouteAckInv ==
  ASSUME ControlInv, NEW r \in Receivers, RouteAck(r)
  PROVE  ControlInv'
<1> USE DEF ControlInv
<1> DEFINE ack == Head(toServer[r])
           s == pending[ack.stream].send
<1>1. /\ Reads(r, "ack") /\ Consume(r) /\ ack.type = "ack"
      /\ UNCHANGED <<senders, receivers, peers, generation, handler, link, app,
                     phase, serving>>
  BY DEF RouteAck, senderVars, Reads
<1>2. r \in Conns
  BY DEF Conns
<1>3. r \in peers /\ toServer[r] # <<>>
  BY <1>1, <1>2, ReadsAsPeer
<1>4. /\ toServer' \in [Conns -> Seq(Messages)]
      /\ \A d \in Conns : Range(toServer'[d]) \subseteq Range(toServer[d])
      /\ ack \in Range(toServer[r]) /\ ack \in Messages
  BY <1>1, <1>2, <1>3, ConsumeQueue
<1>5. ack.stream \in Streams
  BY <1>1, <1>4, MessageFields
<1>6. TablesListPeers' /\ SuspendedIsPeer'
  BY <1>1 DEF TablesListPeers, SuspendedIsPeer
<1>7. StreamingIsServed'
  BY <1>1, StreamsKept
<1>8. CASE UNCHANGED <<pending, toApp>>
  <2>1. NoneBegins
    BY <1>1, <1>8 DEF NoneBegins
  <2>2. ServerTypes' /\ ProcessTypes' /\ PendingIsLive'
    BY <1>1, <1>4, <1>8 DEF ServerTypes, ProcessTypes, PendingIsLive
  <2>3. RegisterComesFirst'
    BY <1>1, <1>4, <1>8, ComesFirstKept
  <2>4. GenerationsTell' /\ OkIsServed'
    BY <1>1, <1>4, <1>8, <2>1, QuietStep
  <2> QED BY <1>6, <1>7, <2>2, <2>3, <2>4
<1>9. CASE /\ Accepted(r, ack)
           /\ pending' = [pending EXCEPT ![ack.stream] = None]
           /\ toApp' = IF senders[ack.stream] = s THEN Deliver(toApp, s, ack) ELSE toApp
  <2>1. /\ pending[ack.stream] # None /\ s \in Senders /\ s \in Conns /\ s \in peers
    BY <1>5, <1>9 DEF Accepted, ServerTypes, PendingIsLive, Conns
  <2>2. ack.ok => serving[r] = s
    BY <1>1, <1>4, <1>5, <1>9 DEF Accepted, GenerationsTell, OnlyFor
  <2> HIDE DEF ack, s
  <2>3. /\ toApp' \in [Conns -> Seq(Messages)]
        /\ \A d \in Conns \ {s} : toApp'[d] = toApp[d]
        /\ Range(toApp'[s]) \subseteq Range(toApp[s]) \cup {ack}
    <3>1. CASE toApp' = Deliver(toApp, s, ack)
      BY <1>4, <2>1, <3>1, DeliverQueue
    <3>2. CASE toApp' = toApp
      BY <3>2 DEF ProcessTypes
    <3> QED BY <1>9, <3>1, <3>2
  <2>4. NoneBegins
    BY <1>1, <1>9 DEF NoneBegins, ServerTypes
  <2>5. ServerTypes' /\ ProcessTypes'
    BY <1>1, <1>4, <1>9, <2>3 DEF ServerTypes, ProcessTypes
  <2>6. PendingIsLive'
    BY <1>1, <1>9 DEF PendingIsLive, ServerTypes
  <2>7. RegisterComesFirst'
    BY <1>1, <1>4, <2>1, <2>3, ComesFirstKept
  <2>8. GenerationsTell'
    <3>1. \A q \in Receivers : \A m \in Range(toApp'[q]) :
            m \in Range(toApp[q]) \/ m.type # "start"
      BY <1>1, <2>3 DEF Conns
    <3>2. \A q \in Receivers : \A m \in Range(toServer'[q]) :
            m \in Range(toServer[q]) \/ m.type # "ack"
      BY <1>4 DEF Conns
    <3> QED BY <1>1, <2>4, <3>1, <3>2, GenerationsKept
  <2>9. OkIsServed'
    <3>1. ASSUME NEW t \in Senders, NEW m \in Range(toApp'[t]), m.type = "ack", m.ok
          PROVE  \E q \in Receivers : serving[q] = t
      <4>1. CASE m \in Range(toApp[t])
        BY <3>1, <4>1 DEF OkIsServed
      <4>2. CASE t = s /\ m = ack
        BY <2>2, <3>1, <4>2
      <4> QED BY <2>3, <4>1, <4>2 DEF Conns
    <3> QED BY <1>1, <3>1 DEF OkIsServed
  <2> QED BY <1>6, <1>7, <2>5, <2>6, <2>7, <2>8, <2>9
<1> QED BY <1>8, <1>9 DEF RouteAck

\* A sender's step on its own state.
LEMMA TimerInv ==
  ASSUME ControlInv,
         UNCHANGED <<serverVars, link, toServer, toApp, app, phase, serving>>
  PROVE  ControlInv'
<1> USE DEF ControlInv
<1>1. /\ ServerTypes' /\ TablesListPeers' /\ SuspendedIsPeer' /\ PendingIsLive'
      /\ NoneBegins
  BY ServerKept
<1>2. ProcessTypes'
  BY DEF ProcessTypes
<1>3. RegisterComesFirst'
  BY DEF serverVars, RegisterComesFirst
<1>4. GenerationsTell' /\ OkIsServed'
  BY <1>1, QuietStep
<1>5. StreamingIsServed'
  BY DEF StreamingIsServed
<1> QED BY <1>1, <1>2, <1>3, <1>4, <1>5

LEMMA OnReadyInv ==
  ASSUME ControlInv, NEW s \in Senders, OnReady(s)
  PROVE  ControlInv'
<1> USE DEF ControlInv
<1>1. /\ app[s] = "up" /\ toApp[s] # <<>> /\ TakeOff(s)
      /\ UNCHANGED <<serverVars, link, app, serving>>
      /\ \/ phase' = [phase EXCEPT ![s] = "awaiting"] /\ SendUp(s, Start(s))
         \/ UNCHANGED <<phase, toServer>>
  BY DEF OnReady, Receives
<1>2. s \in Conns
  BY DEF Conns
<1>3. /\ ServerTypes' /\ TablesListPeers' /\ SuspendedIsPeer' /\ PendingIsLive'
      /\ NoneBegins
  BY <1>1, ServerKept
<1>4. /\ toApp' \in [Conns -> Seq(Messages)]
      /\ \A d \in Conns : Range(toApp'[d]) \subseteq Range(toApp[d])
      /\ \A d \in Conns \ {s} : toApp'[d] = toApp[d]
  BY <1>1, <1>2, TakeOffQueue
<1>5. /\ toServer' \in [Conns -> Seq(Messages)]
      /\ \A d \in Conns \ {s} : toServer'[d] = toServer[d]
      /\ Range(toServer'[s]) \subseteq Range(toServer[s]) \cup {Start(s)}
  <2>1. CASE SendUp(s, Start(s))
    BY <1>2, <2>1, SendUpQueue, MessageTypes
  <2>2. CASE UNCHANGED toServer
    BY <2>2 DEF ProcessTypes
  <2> QED BY <1>1, <2>1, <2>2
<1>6. ProcessTypes'
  BY <1>1, <1>4, <1>5 DEF ProcessTypes
<1>7. RegisterComesFirst'
  <2>1. s \in peers \/ link[s] = "closed"
    BY <1>1, <1>2, SpeaksAsPeer
  <2> QED BY <1>1, <1>4, <1>5, <2>1, ComesFirstKept DEF serverVars
<1>8. GenerationsTell' /\ OkIsServed'
  <2>1. \A d \in Conns : \A m \in Range(toServer'[d]) :
          m \in Range(toServer[d]) \/ m.type \in {"register", "start"}
    <3>1. Start(s).type = "start"
      BY MessageKinds
    <3> QED BY <1>5, <3>1
  <2> QED BY <1>1, <1>3, <1>4, <2>1, QuietStep
<1>9. StreamingIsServed'
  BY <1>1, StreamsKept DEF ProcessTypes
<1> QED BY <1>3, <1>6, <1>7, <1>8, <1>9

LEMMA OnAckInv ==
  ASSUME ControlInv, NEW s \in Senders, OnAck(s)
  PROVE  ControlInv'
<1> USE DEF ControlInv
<1> DEFINE ack == Head(toApp[s])
<1>1. /\ app[s] = "up" /\ toApp[s] # <<>> /\ ack.type = "ack"
      /\ UNCHANGED <<serverVars, serving>>
  BY DEF OnAck, Receives
<1>2. s \in Conns
  BY DEF Conns
<1>3. CASE phase[s] = "awaiting" /\ phase' = [phase EXCEPT ![s] = "fatal"] /\ Exit(s)
  BY <1>1, <1>2, <1>3, ExitInv DEF ProcessTypes
<1>4. CASE /\ TakeOff(s) /\ UNCHANGED <<app, link, toServer>>
           /\ \/ ack.ok /\ phase' = [phase EXCEPT ![s] = "streaming"]
              \/ UNCHANGED phase
  <2>1. /\ ServerTypes' /\ TablesListPeers' /\ SuspendedIsPeer' /\ PendingIsLive'
        /\ NoneBegins
    BY <1>1, ServerKept
  <2>2. /\ toApp' \in [Conns -> Seq(Messages)]
        /\ \A d \in Conns : Range(toApp'[d]) \subseteq Range(toApp[d])
        /\ \A d \in Conns \ {s} : toApp'[d] = toApp[d]
        /\ ack \in Range(toApp[s])
    BY <1>1, <1>2, <1>4, TakeOffQueue
  <2>3. ProcessTypes'
    BY <1>1, <1>4, <2>2 DEF ProcessTypes
  <2>4. RegisterComesFirst'
    <3>1. s \in peers \/ link[s] = "closed"
      BY <1>1, <1>2, SpeaksAsPeer
    <3> QED BY <1>1, <1>4, <2>2, <3>1, ComesFirstKept DEF serverVars
  <2>5. GenerationsTell' /\ OkIsServed'
    BY <1>1, <1>4, <2>1, <2>2, QuietStep
  <2>6. StreamingIsServed'
    <3>1. CASE UNCHANGED phase
      BY <1>1, <3>1 DEF StreamingIsServed
    <3>2. CASE ack.ok /\ phase' = [phase EXCEPT ![s] = "streaming"]
      <4>1. \E r \in Receivers : serving[r] = s
        BY <1>1, <2>2, <3>2 DEF OkIsServed
      <4> QED BY <1>1, <3>2, <4>1 DEF StreamingIsServed, ProcessTypes
    <3> QED BY <1>4, <3>1, <3>2
  <2> QED BY <2>1, <2>3, <2>4, <2>5, <2>6
<1> QED BY <1>3, <1>4 DEF OnAck

LEMMA OnStartInv ==
  ASSUME ControlInv, NEW r \in Receivers, OnStart(r)
  PROVE  ControlInv'
<1> USE DEF ControlInv
<1> DEFINE msg == Head(toApp[r])
           ok == serving[r] = None
           ack == Ack(StreamOf[msg.send], msg.gen, ok)
<1>1. /\ app[r] = "up" /\ toApp[r] # <<>> /\ TakeOff(r) /\ msg.type = "start"
      /\ UNCHANGED <<serverVars, link, app, phase>>
      /\ \/ serving[r] = None /\ serving' = [serving EXCEPT ![r] = msg.send]
         \/ serving[r] # None /\ UNCHANGED serving
      /\ SendUp(r, ack) \/ UNCHANGED toServer
  BY DEF OnStart, Receives, senderVars
<1>2. r \in Conns
  BY DEF Conns
<1>3. /\ ServerTypes' /\ TablesListPeers' /\ SuspendedIsPeer' /\ PendingIsLive'
      /\ NoneBegins
  BY <1>1, ServerKept
<1>4. /\ toApp' \in [Conns -> Seq(Messages)]
      /\ \A d \in Conns : Range(toApp'[d]) \subseteq Range(toApp[d])
      /\ \A d \in Conns \ {r} : toApp'[d] = toApp[d]
      /\ msg \in Range(toApp[r]) /\ msg \in Messages
  BY <1>1, <1>2, TakeOffQueue
<1>5. /\ msg.send \in Senders /\ msg.gen \in Nat /\ OnlyFor(msg.gen, msg.send)
      /\ StreamOf[msg.send] \in Streams
  BY <1>1, <1>4, MessageFields, NamesAssumption DEF GenerationsTell
<1>6. ack \in Messages /\ ack.type = "ack" /\ ack.gen = msg.gen /\ ack.ok = ok
  <2>1. ok \in BOOLEAN
    OBVIOUS
  <2> HIDE DEF ok
  <2>2. ack \in Messages
    BY <1>5, <2>1, MessageTypes
  <2>3. ack.type = "ack" /\ ack.gen = msg.gen /\ ack.ok = ok
    BY DEF Ack
  <2> QED BY <2>2, <2>3
<1> HIDE DEF ack
<1>7. /\ toServer' \in [Conns -> Seq(Messages)]
      /\ \A d \in Conns \ {r} : toServer'[d] = toServer[d]
      /\ Range(toServer'[r]) \subseteq Range(toServer[r]) \cup {ack}
  <2>1. CASE SendUp(r, ack)
    BY <1>2, <1>6, <2>1, SendUpQueue
  <2>2. CASE UNCHANGED toServer
    BY <2>2 DEF ProcessTypes
  <2> QED BY <1>1, <2>1, <2>2
<1>8. /\ serving' \in [Receivers -> Senders \cup {None}]
      /\ \A q \in Receivers : serving[q] # None => serving'[q] = serving[q]
      /\ ok => serving'[r] = msg.send
  BY <1>1, <1>5 DEF ProcessTypes
<1>9. ProcessTypes'
  BY <1>1, <1>4, <1>7, <1>8 DEF ProcessTypes
<1>10. RegisterComesFirst'
  <2>1. r \in peers \/ link[r] = "closed"
    BY <1>1, <1>2, SpeaksAsPeer
  <2> QED BY <1>1, <1>4, <1>7, <2>1, ComesFirstKept DEF serverVars
<1>11. GenerationsTell'
  <2>1. /\ generation' = generation /\ pending' = pending
    BY <1>1 DEF serverVars
  <2>2. ASSUME NEW q \in Receivers, NEW m \in Range(toApp'[q]), m.type = "start"
        PROVE  OnlyFor(m.gen, m.send)'
    BY <1>4, <2>1, <2>2 DEF GenerationsTell, OnlyFor, Conns
  <2>3. ASSUME NEW q \in Receivers, NEW m \in Range(toServer'[q]),
               m.type = "ack", m.ok
        PROVE  serving'[q] # None /\ OnlyFor(m.gen, serving[q])'
    <3>1. CASE m \in Range(toServer[q])
      <4>1. serving[q] # None /\ OnlyFor(m.gen, serving[q])
        BY <2>3, <3>1 DEF GenerationsTell
      <4> QED BY <1>8, <2>1, <4>1 DEF OnlyFor
    <3>2. CASE q = r /\ m = ack
      <4>1. serving'[q] = msg.send /\ m.gen = msg.gen
        BY <1>6, <1>8, <2>3, <3>2
      <4>2. serving'[q] # None
        BY <1>5, <4>1, NamesAssumption
      <4>3. OnlyFor(m.gen, serving'[q])
        BY <1>5, <4>1
      <4> QED BY <2>1, <4>2, <4>3 DEF OnlyFor
    <3> QED BY <1>7, <3>1, <3>2 DEF Conns
  <2> QED BY <2>1, <2>2, <2>3 DEF GenerationsTell
<1>12. OkIsServed'
  BY <1>4, <1>8, OksKept DEF Conns
<1>13. StreamingIsServed'
  BY <1>1, <1>8, StreamsKept
<1> QED BY <1>3, <1>9, <1>10, <1>11, <1>12, <1>13

(***************************************************************************)
(* The theorems                                                            *)
(***************************************************************************)

LEMMA ControlStart == Init => ControlInv
<1> SUFFICES ASSUME Init PROVE ControlInv
  OBVIOUS
<1> USE DEF Init
<1>1. ServerTypes
  BY FS_EmptySet DEF ServerTypes
<1>2. ProcessTypes
  BY DEF ProcessTypes
<1>3. \A c \in Conns : Range(toServer[c]) = {} /\ Range(toApp[c]) = {}
  BY EmptyQueue
<1>4. RegisterComesFirst
  BY <1>3 DEF RegisterComesFirst
<1>5. GenerationsTell /\ OkIsServed
  BY <1>3 DEF GenerationsTell, OkIsServed, Conns
<1>6. TablesListPeers /\ SuspendedIsPeer /\ PendingIsLive /\ StreamingIsServed
  BY DEF TablesListPeers, SuspendedIsPeer, PendingIsLive, StreamingIsServed
<1> QED BY <1>1, <1>2, <1>4, <1>5, <1>6 DEF ControlInv

LEMMA ControlStep ==
  ASSUME ControlInv, [Next]_vars
  PROVE  ControlInv'
<1>1. ASSUME NEW c \in Conns, Launch(c)
      PROVE  ControlInv'
  BY <1>1, LaunchInv
<1>2. ASSUME NEW c \in Conns, Die(c)
      PROVE  ControlInv'
  <2>1. /\ app[c] = "up" /\ Exit(c) /\ UNCHANGED <<serverVars, serving>>
        /\ phase' = phase
    BY <1>2 DEF Die, senderVars
  <2> QED BY <2>1, ExitInv DEF ControlInv, ProcessTypes
<1>3. ASSUME NEW c \in Conns, ServerStep(c)
      PROVE  ControlInv'
  BY <1>3, RegisterSenderInv, RouteStartInv, RegisterReceiverInv,
     ResumeRegisterInv, RouteAckInv, HangupInv DEF ServerStep
<1>4. ASSUME NEW s \in Senders, SenderStep(s)
      PROVE  ControlInv'
  BY <1>4, OnReadyInv, OnAckInv DEF SenderStep
<1>5. ASSUME NEW s \in Senders, DeadlinePasses(s) \/ TickReadsStarted(s)
      PROVE  ControlInv'
  BY <1>5, TimerInv DEF DeadlinePasses, TickReadsStarted
<1>6. ASSUME NEW s \in Senders, TickReadsDeadline(s)
      PROVE  ControlInv'
  <2>1. CASE UNCHANGED <<phase, app, link, toApp, toServer>>
    BY <1>6, <2>1, TimerInv DEF TickReadsDeadline
  <2>2. CASE phase' = [phase EXCEPT ![s] = "fatal"] /\ Exit(s)
    <3>1. /\ s \in Conns /\ app[s] = "up" /\ UNCHANGED <<serverVars, serving>>
      BY <1>6 DEF TickReadsDeadline, Conns
    <3>2. /\ phase' \in [Senders -> {"new", "awaiting", "streaming", "fatal"}]
          /\ \A t \in Senders : phase'[t] = "streaming" => phase[t] = "streaming"
      BY <2>2 DEF ControlInv, ProcessTypes
    <3> QED BY <2>2, <3>1, <3>2, ExitInv
  <2> QED BY <1>6, <2>1, <2>2 DEF TickReadsDeadline
<1>7. ASSUME NEW r \in Receivers, OnStart(r)
      PROVE  ControlInv'
  BY <1>7, OnStartInv
<1>8. CASE UNCHANGED vars
  BY <1>8, TimerInv DEF vars, senderVars
<1> QED BY <1>1, <1>2, <1>3, <1>4, <1>5, <1>6, <1>7, <1>8 DEF Next, WatchdogStep

(* Whatever processes come, go and come back under the same names, and in   *)
(* whatever order their messages are read: the server's tables, the pending *)
(* handshakes and the messages under way agree with each other.            *)
THEOREM ControlInvariant == Spec => []ControlInv
<1>1. Init => ControlInv
  BY ControlStart
<1>2. ControlInv /\ [Next]_vars => ControlInv'
  BY ControlStep
<1> QED BY <1>1, <1>2, PTL DEF Spec

(* An ack meant for an earlier process of a stream never starts a later     *)
(* one: who streams has a receiver that opened its traces for it            *)
(* (route_stream_ack, lines 145-168, with OnMessage of both sides).         *)
THEOREM StreamingIsServedHolds == Spec => []StreamingIsServed
<1>1. ControlInv => StreamingIsServed
  BY DEF ControlInv
<1> QED BY <1>1, ControlInvariant, PTL

(* A handshake waits only on connections the server has, and on the current *)
(* holder of the receiver's id (register, unregister, route_stream_start).  *)
THEOREM PendingIsLiveHolds == Spec => []PendingIsLive
<1>1. ControlInv => PendingIsLive
  BY DEF ControlInv
<1> QED BY <1>1, ControlInvariant, PTL

LEMMA UnregisterLists ==
  ASSUME NEW c, Unregister(c)
  PROVE  /\ \A st \in Streams :
              senders[st] # None => senders'[st] # None \/ senders[st] \notin peers'
         /\ \A i \in Ids :
              receivers[i] # None => receivers'[i] # None \/ receivers[i] \notin peers'
  BY DEF Unregister

(* The late hang-up of a process does not take its successor out of the     *)
(* tables (unregister tests that the entry is its own writer, line 183).    *)
THEOREM ListedUntilGoneHolds == Spec => ListedUntilGone
<1> DEFINE Listing ==
      /\ \A st \in Streams :
           senders[st] # None => senders'[st] # None \/ senders[st] \notin peers'
      /\ \A i \in Ids :
           receivers[i] # None => receivers'[i] # None \/ receivers[i] \notin peers'
<1>1. ASSUME ControlInv, [Next]_vars
      PROVE  [Listing]_vars
  <2>1. ASSUME UNCHANGED <<senders, receivers>>
        PROVE  Listing
    BY <2>1
  <2>2. ASSUME NEW c \in Conns, Unregister(c)
        PROVE  Listing
    BY <2>2, UnregisterLists
  <2>3. ASSUME NEW s \in Senders, RegisterSender(s)
        PROVE  Listing
    BY <2>3, NamesAssumption DEF RegisterSender, ControlInv, ServerTypes
  <2>4. ASSUME NEW r \in Receivers, RegisterReceiver(r)
        PROVE  Listing
    BY <2>4, NamesAssumption DEF RegisterReceiver, ControlInv, ServerTypes
  <2> HIDE DEF Listing
  <2>5. ASSUME NEW c \in Conns, Launch(c) \/ Die(c)
        PROVE  Listing
    BY <2>1, <2>5 DEF Launch, Die, serverVars
  <2>6. ASSUME NEW c \in Conns, ServerStep(c)
        PROVE  Listing
    <3>1. ASSUME NEW r \in Receivers, ResumeRegister(r)
          PROVE  Listing
      BY <2>1, <2>2, <3>1 DEF ResumeRegister, Conns
    <3>2. ASSUME NEW s \in Senders, RouteStart(s)
          PROVE  Listing
      BY <2>1, <3>2 DEF RouteStart
    <3>3. ASSUME NEW r \in Receivers, RouteAck(r)
          PROVE  Listing
      BY <2>1, <3>3 DEF RouteAck
    <3>4. CASE Hangup(c)
      BY <2>2, <3>4 DEF Hangup
    <3> QED BY <2>3, <2>4, <2>6, <3>1, <3>2, <3>3, <3>4 DEF ServerStep
  <2>7. ASSUME NEW s \in Senders, SenderStep(s)
        PROVE  Listing
    BY <2>1, <2>7 DEF SenderStep, OnReady, OnAck, serverVars
  <2>8. ASSUME NEW s \in Senders, DeadlinePasses(s) \/ WatchdogStep(s)
        PROVE  Listing
    BY <2>1, <2>8 DEF DeadlinePasses, WatchdogStep, TickReadsStarted,
                      TickReadsDeadline, serverVars
  <2>9. ASSUME NEW r \in Receivers, OnStart(r)
        PROVE  Listing
    BY <2>1, <2>9 DEF OnStart, serverVars
  <2> QED BY <1>1, <2>5, <2>6, <2>7, <2>8, <2>9 DEF Next
<1> QED BY <1>1, ControlInvariant, PTL DEF Spec, ListedUntilGone
=============================================================================
