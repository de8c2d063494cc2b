---------------------------- MODULE ControlPlane ----------------------------
(***************************************************************************)
(* The control channel of the ffmpeg and gstreamer trees, one session:      *)
(*   - control_server.py: tables of senders and receivers, the pending      *)
(*     stream-ack of each stream, one asyncio task per TCP connection;      *)
(*   - the sender's and the receiver's OnMessage, and the sender's 5 s ack  *)
(*     watchdog (Tick), through control_client.h.                          *)
(*                                                                         *)
(* A process is identified with its connection: control_client.h never     *)
(* reconnects, so a restart is a new process, a new connection and, with    *)
(* ephemeral ports, a new RTP endpoint.  Each connection carries its        *)
(* messages in order; nothing orders two connections.  A process may die    *)
(* at any time; the server learns of it when it has read what was left, or  *)
(* loses the rest to a reset.                                              *)
(*                                                                         *)
(* asyncio runs a handler up to an `await` that suspends.  drain() of a     *)
(* short message suspends only when the peer's transport is closing, for    *)
(* one turn of the loop, and that peer's own handler wakes after it.  Only  *)
(* a registering receiver reads server state after such an await (the loop  *)
(* over the senders), so only that await is a step boundary here.          *)
(***************************************************************************)
EXTENDS Integers, Sequences, FiniteSets, SequencesExt

CONSTANTS
  Senders, Receivers,   \* sender and receiver processes
  Streams, Ids,         \* --stream-id and --receiver-id values
  StreamOf, IdOf,       \* the name each process was given
  Target,               \* Target[s]: --receiver-id the sender sends to
  MaxDeaths,            \* bound: processes that die unasked
  Slow,                 \* TRUE: an answer may take more than 5 s
  None

ASSUME NamesAssumption ==
  /\ StreamOf \in [Senders -> Streams]
  /\ IdOf \in [Receivers -> Ids]
  /\ Target \in [Senders -> Ids]
  /\ None \notin Senders \cup Receivers
  /\ MaxDeaths \in Nat /\ Slow \in BOOLEAN

Conns == Senders \cup Receivers

VARIABLES
  \* server (Session, ControlServer.peers)
  senders, receivers,  \* stream / id -> connection or None
  peers,               \* connections that registered
  pending,             \* stream -> [recv, send, gen] or None
  generation,
  handler,             \* receiver -> None or its suspended register loop
  \* connections
  link,                \* "none", "open", "lost" (peer gone), "closed" (by the server)
  toServer, toApp,     \* unread messages of each connection, in order
  \* processes
  app,                 \* "off", "up", "gone"
  phase,               \* sender: "new", "awaiting", "streaming", "fatal"
  dest,                \* sender: whose ports rtp_dest_ holds
  deadline,            \* sender: "unset", "running", "passed"
  tick,                \* sender's main thread inside Tick
  serving,             \* receiver: the sender whose stream-start opened its traces
  deaths,
  \* history
  handed,              \* sender -> the receiver and generation of its stream-start
  ackInTime            \* senders whose ack was handled before the deadline

serverVars == <<senders, receivers, peers, pending, generation, handler>>
senderVars == <<phase, dest, deadline, tick, ackInTime>>
vars == <<serverVars, link, toServer, toApp, app, senderVars, serving,
          deaths, handed>>

Register == [type |-> "register"]
Ready(r) == [type |-> "ready", recv |-> r]
Start(s) == [type |-> "start", send |-> s, gen |-> 0]
Ack(st, g, ok) == [type |-> "ack", stream |-> st, gen |-> g, ok |-> ok]

Init ==
  /\ senders = [st \in Streams |-> None] /\ receivers = [i \in Ids |-> None]
  /\ peers = {} /\ pending = [st \in Streams |-> None] /\ generation = 0
  /\ handler = [r \in Receivers |-> None]
  /\ link = [c \in Conns |-> "none"]
  /\ toServer = [c \in Conns |-> <<>>] /\ toApp = [c \in Conns |-> <<>>]
  /\ app = [c \in Conns |-> "off"]
  /\ phase = [s \in Senders |-> "new"] /\ dest = [s \in Senders |-> None]
  /\ deadline = [s \in Senders |-> "unset"] /\ tick = [s \in Senders |-> "idle"]
  /\ serving = [r \in Receivers |-> None]
  /\ deaths = 0
  /\ handed = [s \in Senders |-> None] /\ ackInTime = {}

-----------------------------------------------------------------------------
(* Processes coming and going                                               *)

SameName(c, d) ==
  \/ c \in Senders /\ d \in Senders /\ StreamOf[c] = StreamOf[d]
  \/ c \in Receivers /\ d \in Receivers /\ IdOf[c] = IdOf[d]

(* Connect, Start and the first Send of Run.  A name is started again only  *)
(* after the process that had it is gone.                                   *)
Launch(c) ==
  /\ app[c] = "off"
  /\ \A d \in Conns \ {c} : SameName(c, d) => app[d] # "up"
  /\ app' = [app EXCEPT ![c] = "up"]
  /\ link' = [link EXCEPT ![c] = "open"]
  /\ toServer' = [toServer EXCEPT ![c] = <<Register>>]
  /\ UNCHANGED <<serverVars, toApp, senderVars, serving, deaths, handed>>

\* The process ends; what it sent may still be read, or be lost to a reset.
Exit(c) ==
  /\ app' = [app EXCEPT ![c] = "gone"]
  /\ link' = [link EXCEPT ![c] = IF @ = "open" THEN "lost" ELSE @]
  /\ toApp' = [toApp EXCEPT ![c] = <<>>]
  /\ \E left \in {toServer[c], <<>>} : toServer' = [toServer EXCEPT ![c] = left]

Die(c) ==
  /\ app[c] = "up" /\ deaths < MaxDeaths
  /\ deaths' = deaths + 1
  /\ Exit(c)
  /\ UNCHANGED <<serverVars, senderVars, serving, handed>>

-----------------------------------------------------------------------------
(* The server                                                               *)

\* self.send: to a connection whose peer is gone, a message is lost.
Deliver(chan, c, msg) ==
  [chan EXCEPT ![c] = IF link[c] = "open" THEN Append(@, msg) ELSE @]

\* drop_pending_of, and the same clean-up in unregister
WithoutPendingOf(conn) ==
  [st \in Streams |->
     IF pending[st] # None /\ conn \in {pending[st].recv, pending[st].send}
       THEN None ELSE pending[st]]

\* The next message of c that its handler may take up.
Readable(c) ==
  /\ link[c] \in {"open", "lost"} /\ toServer[c] # <<>>
  /\ c \in Receivers => handler[c] = None

Reads(c, type) == Readable(c) /\ Head(toServer[c]).type = type
Consume(c) == toServer' = [toServer EXCEPT ![c] = Tail(@)]

RegisterSender(s) ==
  /\ Reads(s, "register") /\ Consume(s)
  /\ pending' = WithoutPendingOf(senders[StreamOf[s]])
  /\ senders' = [senders EXCEPT ![StreamOf[s]] = s]
  /\ peers' = peers \cup {s}
  /\ \E order \in SetToSeqs({receivers[i] : i \in Ids} \ {None}) :
       toApp' = [toApp EXCEPT ![s] = IF link[s] = "open"
                   THEN @ \o [k \in DOMAIN order |-> Ready(order[k])] ELSE @]
  /\ UNCHANGED <<receivers, generation, handler, link, app, senderVars,
                 serving, deaths, handed>>

Listed(table) == {table[st] : st \in Streams} \ {None}

(* The loop `for w in s.senders.values(): await self.send(w, ...)` of a     *)
(* registering receiver, from the senders already told on: to its end, or   *)
(* to an await on a peer that is gone.                                     *)
TellSenders(r, told) ==
  LET rest == Listed(senders) \ told
      Tell(ws) == toApp' = [c \in Conns |->
                    IF c \in ws /\ link[c] = "open" THEN Append(toApp[c], Ready(r))
                    ELSE toApp[c]]
  IN \/ Tell(rest) /\ handler' = [handler EXCEPT ![r] = None]
     \/ \E w \in rest, before \in SUBSET rest :
          /\ link[w] = "lost" /\ w \notin before
          /\ Tell(before)
          /\ handler' = [handler EXCEPT ![r] =
               [told |-> told \cup before \cup {w}, at |-> w,
                size |-> Cardinality(Listed(senders))]]

\* Registering without ending the handshake of the connection it replaces.
RegisterReceiver_KeepsPending(r) ==
  /\ Reads(r, "register") /\ Consume(r)
  /\ receivers' = [receivers EXCEPT ![IdOf[r]] = r]
  /\ peers' = peers \cup {r}
  /\ TellSenders(r, {})
  /\ UNCHANGED <<pending, senders, generation, link, app, senderVars, serving,
                 deaths, handed>>

RegisterReceiver(r) ==
  /\ Reads(r, "register") /\ Consume(r)
  /\ pending' = WithoutPendingOf(receivers[IdOf[r]])
  /\ receivers' = [receivers EXCEPT ![IdOf[r]] = r]
  /\ peers' = peers \cup {r}
  /\ TellSenders(r, {})
  /\ UNCHANGED <<senders, generation, link, app, senderVars, serving, deaths,
                 handed>>

\* unregister, whatever name the connection had been listed under since.
Unregister_AnyHolder(c) ==
  /\ peers' = peers \ {c}
  /\ senders' = [st \in Streams |->
       IF c \in Senders /\ c \in peers /\ StreamOf[c] = st THEN None ELSE senders[st]]
  /\ receivers' = [i \in Ids |-> IF receivers[i] = c THEN None ELSE receivers[i]]
  /\ pending' = WithoutPendingOf(c)
  /\ link' = [link EXCEPT ![c] = "closed"]

\* unregister and writer.close(), at the end of handle
Unregister(c) ==
  /\ peers' = peers \ {c}
  /\ senders' = [st \in Streams |-> IF senders[st] = c THEN None ELSE senders[st]]
  /\ receivers' = [i \in Ids |-> IF receivers[i] = c THEN None ELSE receivers[i]]
  /\ pending' = WithoutPendingOf(c)
  /\ link' = [link EXCEPT ![c] = "closed"]

(* The await is over.  The dictionary's iterator raises RuntimeError if its *)
(* size changed meanwhile, which ends the handler of the registering        *)
(* connection; otherwise the loop goes on.                                  *)
ResumeRegister(r) ==
  /\ handler[r] # None
  /\ \/ /\ Cardinality(Listed(senders)) = handler[r].size
        /\ TellSenders(r, handler[r].told)
        /\ UNCHANGED <<senders, receivers, peers, pending, link>>
     \/ /\ Cardinality(Listed(senders)) # handler[r].size
        /\ Unregister(r)
        /\ handler' = [handler EXCEPT ![r] = None]
        /\ UNCHANGED toApp
  /\ UNCHANGED <<generation, toServer, app, senderVars, serving, deaths, handed>>

RouteStart(s) ==
  /\ Reads(s, "start") /\ Consume(s)
  /\ LET r == receivers[Target[s]] IN
     \/ r = None /\ UNCHANGED <<generation, pending, toApp, handed>>
     \/ /\ r # None
        /\ generation' = generation + 1
        /\ pending' = [pending EXCEPT ![StreamOf[s]] =
             [recv |-> r, send |-> s, gen |-> generation + 1]]
        /\ toApp' = Deliver(toApp, r, [Start(s) EXCEPT !.gen = generation + 1])
        /\ handed' = [handed EXCEPT ![s] = [recv |-> r, gen |-> generation + 1]]
  /\ UNCHANGED <<senders, receivers, peers, handler, link, app, senderVars,
                 serving, deaths>>

\* An ack for the stream, of whatever generation.
Accepted_AnyGeneration(r, ack) ==
  /\ r \in peers
  /\ pending[ack.stream] # None
  /\ pending[ack.stream].recv = r

\* Taking the session's latest generation for that of the handshake.
Accepted_LatestGeneration(r, ack) ==
  /\ r \in peers
  /\ pending[ack.stream] # None
  /\ pending[ack.stream].recv = r
  /\ ack.gen = generation

\* The tests of route_stream_ack up to the pop.
Accepted(r, ack) ==
  /\ r \in peers
  /\ pending[ack.stream] # None
  /\ pending[ack.stream].recv = r
  /\ pending[ack.stream].gen = ack.gen

RouteAck(r) ==
  /\ Reads(r, "ack") /\ Consume(r)
  /\ LET ack == Head(toServer[r])
         s == pending[ack.stream].send IN
     \/ ~Accepted(r, ack) /\ UNCHANGED <<pending, toApp>>
     \/ /\ Accepted(r, ack)
        /\ pending' = [pending EXCEPT ![ack.stream] = None]
        /\ toApp' = IF senders[ack.stream] = s THEN Deliver(toApp, s, ack) ELSE toApp
  /\ UNCHANGED <<senders, receivers, peers, generation, handler, link, app,
                 senderVars, serving, deaths, handed>>

(* readline returns b"" or raises: the connection's handler ends.           *)
Hangup(c) ==
  /\ link[c] = "lost" /\ toServer[c] = <<>>
  /\ c \in Receivers => handler[c] = None
  /\ \A r \in Receivers : handler[r] # None => handler[r].at # c
  /\ Unregister(c)
  /\ UNCHANGED <<generation, handler, toServer, toApp, app, senderVars, serving,
                 deaths, handed>>

-----------------------------------------------------------------------------
(* The sender                                                               *)

Receives(c, type) ==
  app[c] = "up" /\ toApp[c] # <<>> /\ Head(toApp[c]).type = type

\* ControlClient::Send on a connection the server may have closed.
SendUp(c, msg) ==
  toServer' = [toServer EXCEPT ![c] = IF link[c] = "open" THEN Append(@, msg) ELSE @]

TakeOff(c) == toApp' = [toApp EXCEPT ![c] = Tail(@)]

\* receiver-ready: only the first of the target starts a handshake.
OnReady(s) ==
  /\ Receives(s, "ready") /\ TakeOff(s)
  /\ LET r == Head(toApp[s]).recv IN
     \/ /\ IdOf[r] = Target[s] /\ phase[s] = "new"
        /\ dest' = [dest EXCEPT ![s] = r]
        /\ phase' = [phase EXCEPT ![s] = "awaiting"]
        /\ deadline' = [deadline EXCEPT ![s] = "running"]
        /\ SendUp(s, Start(s))
     \/ /\ IdOf[r] # Target[s] \/ phase[s] # "new"
        /\ UNCHANGED <<dest, phase, deadline, toServer>>
  /\ UNCHANGED <<serverVars, link, app, tick, ackInTime, serving, deaths, handed>>

\* stream-ack: ok starts the grid thread, a refusal is fatal.
OnAck(s) ==
  /\ Receives(s, "ack")
  /\ LET ack == Head(toApp[s]) IN
     \/ /\ phase[s] = "awaiting" /\ ack.ok
        /\ phase' = [phase EXCEPT ![s] = "streaming"]
        /\ ackInTime' = IF deadline[s] = "running" THEN ackInTime \cup {s} ELSE ackInTime
        /\ TakeOff(s)
        /\ UNCHANGED <<app, link, toServer>>
     \/ /\ phase[s] = "awaiting" /\ ~ack.ok
        /\ phase' = [phase EXCEPT ![s] = "fatal"]
        /\ Exit(s)
        /\ UNCHANGED ackInTime
     \/ /\ phase[s] # "awaiting"
        /\ TakeOff(s)
        /\ UNCHANGED <<phase, ackInTime, app, link, toServer>>
  /\ UNCHANGED <<serverVars, dest, deadline, tick, serving, deaths, handed>>

\* Five seconds after the stream-start.
DeadlinePasses(s) ==
  /\ Slow /\ app[s] = "up" /\ deadline[s] = "running"
  /\ deadline' = [deadline EXCEPT ![s] = "passed"]
  /\ UNCHANGED <<serverVars, link, toServer, toApp, app, phase, dest, tick,
                 ackInTime, serving, deaths, handed>>

\* Tick on the main thread: `!started_` first ...
TickReadsStarted(s) ==
  /\ app[s] = "up" /\ tick[s] = "idle" /\ phase[s] # "streaming"
  /\ tick' = [tick EXCEPT ![s] = "notStarted"]
  /\ UNCHANGED <<serverVars, link, toServer, toApp, app, phase, dest, deadline,
                 ackInTime, serving, deaths, handed>>

\* A watchdog that never fires.
TickReadsDeadline_Never(s) ==
  /\ app[s] = "up" /\ tick[s] = "notStarted"
  /\ tick' = [tick EXCEPT ![s] = "idle"]
  /\ UNCHANGED <<serverVars, link, toServer, toApp, app, phase, dest, deadline,
                 ackInTime, serving, deaths, handed>>

\* ... and then the deadline.
TickReadsDeadline(s) ==
  /\ app[s] = "up" /\ tick[s] = "notStarted"
  /\ tick' = [tick EXCEPT ![s] = "idle"]
  /\ \/ deadline[s] # "passed" /\ UNCHANGED <<phase, app, link, toApp, toServer>>
     \/ /\ deadline[s] = "passed"
        /\ phase' = [phase EXCEPT ![s] = "fatal"]
        /\ Exit(s)
  /\ UNCHANGED <<serverVars, dest, deadline, ackInTime, serving, deaths, handed>>

-----------------------------------------------------------------------------
(* The receiver                                                             *)

\* stream-start: open the traces, refuse a second stream, ignore a repetition.
OnStart(r) ==
  /\ Receives(r, "start") /\ TakeOff(r)
  /\ LET msg == Head(toApp[r])
         st == StreamOf[msg.send] IN
     \/ /\ serving[r] = None
        /\ serving' = [serving EXCEPT ![r] = msg.send]
        /\ SendUp(r, Ack(st, msg.gen, TRUE))
     \/ /\ serving[r] # None /\ StreamOf[serving[r]] # st
        /\ SendUp(r, Ack(st, msg.gen, FALSE))
        /\ UNCHANGED serving
     \/ /\ serving[r] # None /\ StreamOf[serving[r]] = st
        /\ UNCHANGED <<serving, toServer>>
  /\ UNCHANGED <<serverVars, link, app, senderVars, deaths, handed>>

-----------------------------------------------------------------------------
ServerStep(c) ==
  \/ c \in Senders /\ (RegisterSender(c) \/ RouteStart(c))
  \/ c \in Receivers /\ (RegisterReceiver(c) \/ ResumeRegister(c) \/ RouteAck(c))
  \/ Hangup(c)

SenderStep(s) == OnReady(s) \/ OnAck(s)
WatchdogStep(s) == TickReadsStarted(s) \/ TickReadsDeadline(s)

Next ==
  \/ \E c \in Conns : Launch(c) \/ Die(c) \/ ServerStep(c)
  \/ \E s \in Senders : SenderStep(s) \/ DeadlinePasses(s) \/ WatchdogStep(s)
  \/ \E r \in Receivers : OnStart(r)

Spec == Init /\ [][Next]_vars

(* The event loop serves every connection, each client thread reads, time   *)
(* passes and the main thread ticks.  No process has to start or to die.    *)
Fairness ==
  /\ \A c \in Conns : WF_vars(ServerStep(c))
  /\ \A s \in Senders :
       WF_vars(SenderStep(s)) /\ WF_vars(DeadlinePasses(s)) /\ WF_vars(WatchdogStep(s))
  /\ \A r \in Receivers : WF_vars(OnStart(r))

FairSpec == Spec /\ Fairness

-----------------------------------------------------------------------------
(* Properties                                                               *)

(* A sender streams only after a receiver has opened its traces for that    *)
(* very process (its SSRC), however acks, restarts and replacements of      *)
(* either side interleave: an ack meant for an earlier process of the same  *)
(* stream never starts a later one.                                        *)
StreamingIsServed ==
  \A s \in Senders : phase[s] = "streaming" => \E r \in Receivers : serving[r] = s

(* A handshake waits only on two connections the server still has, and on   *)
(* the current holder of the receiver's id: it dies with either side and    *)
(* with the replacement of the receiver (lines 123-126 and 187-189).        *)
PendingIsLive ==
  \A st \in Streams : pending[st] # None =>
    /\ {pending[st].recv, pending[st].send} \subseteq peers
    /\ receivers[IdOf[pending[st].recv]] = pending[st].recv
    /\ StreamOf[pending[st].send] = st

(* A connection stays reachable under its name until it hangs up itself or  *)
(* another one registers under that name: the late hang-up of a process     *)
(* does not take its successor out of the table.                           *)
ListedUntilGone ==
  [][/\ \A st \in Streams :
          senders[st] # None => senders'[st] # None \/ senders[st] \notin peers'
     /\ \A i \in Ids :
          receivers[i] # None => receivers'[i] # None \/ receivers[i] \notin peers']_vars

(* A sender that has sent stream-start does not wait for ever: an ack, a    *)
(* refusal or the watchdog ends the wait, whatever dies on the way.         *)
HandshakeDecides ==
  \A s \in Senders : phase[s] = "awaiting" ~> phase[s] # "awaiting" \/ app[s] # "up"

\* Of the processes of its name, c is the first that was started.
First(c) == \A d \in Conns \ {c} : SameName(c, d) => app[d] = "off"

(* A sender and the receiver it sends to, up for the first time in either   *)
(* order, find each other, and the stream starts: receiver-ready,           *)
(* stream-start and stream-ack all get through, whichever other process     *)
(* registers, shakes hands or dies meanwhile.  The excuses: one of the two  *)
(* is gone, the server hung up on the receiver (see LiveConnectionsKept),   *)
(* or the receiver serves another stream.  Where answers are never late     *)
(* (Slow = FALSE) the watchdog is no excuse.                               *)
HandshakeCompletes ==
  \A s \in Senders, r \in Receivers :
    IdOf[r] = Target[s] =>
      (app[s] = "up" /\ app[r] = "up" /\ First(s) /\ First(r)
        ~> \/ phase[s] = "streaming" /\ serving[r] = s
           \/ app[s] # "up" \/ app[r] # "up"
           \/ link[r] = "closed" \/ serving[r] \notin {s, None})

-----------------------------------------------------------------------------
(* What the repository says and the code does not always do                 *)

(* docs/TRACE_SCHEMA.md lines 60-61: the receiver opens its traces, then    *)
(* the sender plays, "so the receiving ledger records from the first        *)
(* packet": the packets go to the receiver that opened its traces.          *)
StreamsToItsServer ==
  \A s \in Senders : phase[s] = "streaming" => serving[dest[s]] = s

(* gstreamer/README.md line 52: a receiver answers a stream-start.          *)
EveryStartAnswered ==
  [][\A r \in Receivers :
       OnStart(r) /\ link[r] = "open" => toServer'[r] # toServer[r]]_vars

(* control_server.py lines 11-12: receiver-ready goes out for every         *)
(* registered receiver: the server does not hang up on a live one.          *)
LiveConnectionsKept ==
  \A c \in Conns : app[c] = "up" => link[c] # "closed"

(* docs/NOTES.md lines 668-671: "the intended ack forwarded once": the ack   *)
(* of the receiver that got the current sender's stream-start goes through. *)
IntendedAckForwarded ==
  [][\A r \in Receivers : RouteAck(r) =>
       LET ack == Head(toServer[r])
           s == senders[ack.stream] IN
       s # None /\ handed[s] = [recv |-> r, gen |-> ack.gen] /\ link[s] = "open"
         => toApp'[s] # toApp[s]]_vars

(* video_sender.cc line 114: the watchdog stops the sender because of "no   *)
(* stream-ack ... within 5 s".                                             *)
WatchdogTellsTruth ==
  \A s \in Senders : phase[s] = "fatal" => s \notin ackInTime
-----------------------------------------------------------------------------
(* Inductive invariants (see ControlPlaneProofs)                            *)

Messages ==
  [type : {"register"}] \cup [type : {"ready"}, recv : Receivers]
    \cup [type : {"start"}, send : Senders, gen : Nat]
    \cup [type : {"ack"}, stream : Streams, gen : Nat, ok : BOOLEAN]

Suspensions == [told : SUBSET Senders, at : Senders, size : Nat]

ServerTypes ==
  /\ senders \in [Streams -> Senders \cup {None}]
  /\ receivers \in [Ids -> Receivers \cup {None}]
  /\ peers \in SUBSET Conns /\ IsFiniteSet(peers)
  /\ pending \in [Streams -> [recv : Receivers, send : Senders, gen : Nat]
                               \cup {None}]
  /\ generation \in Nat
  /\ handler \in [Receivers -> Suspensions \cup {None}]

ProcessTypes ==
  /\ link \in [Conns -> {"none", "open", "lost", "closed"}]
  /\ toServer \in [Conns -> Seq(Messages)] /\ toApp \in [Conns -> Seq(Messages)]
  /\ app \in [Conns -> {"off", "up", "gone"}]
  /\ phase \in [Senders -> {"new", "awaiting", "streaming", "fatal"}]
  /\ serving \in [Receivers -> Senders \cup {None}]

\* A table leads to registered connections, under the name they were given.
TablesListPeers ==
  /\ \A st \in Streams : senders[st] # None =>
       senders[st] \in peers /\ StreamOf[senders[st]] = st
  /\ \A i \in Ids : receivers[i] # None =>
       receivers[i] \in peers /\ IdOf[receivers[i]] = i

(* A connection the server has open is registered or has said and heard     *)
(* nothing else yet.                                                       *)
RegisterComesFirst ==
  \A c \in Conns :
    /\ app[c] = "off" => link[c] = "none"
    /\ c \in peers => link[c] \in {"open", "lost"}
    /\ c \notin peers /\ link[c] # "closed" =>
         toApp[c] = <<>> /\ Range(toServer[c]) \subseteq {Register}

\* A suspended registration has entered its connection already.
SuspendedIsPeer == \A r \in Receivers : handler[r] # None => r \in peers

\* The handshake of generation g, if one is pending, is s's.
OnlyFor(g, s) ==
  g <= generation /\ \A st \in Streams :
    pending[st] # None /\ pending[st].gen = g => pending[st].send = s

(* A generation leads from the pending handshake, through the stream-start  *)
(* and the ok of the receiver, back to one sender.                          *)
GenerationsTell ==
  /\ \A st \in Streams : pending[st] # None => pending[st].gen <= generation
  /\ \A r \in Receivers : \A m \in Range(toApp[r]) :
       m.type = "start" => OnlyFor(m.gen, m.send)
  /\ \A r \in Receivers : \A m \in Range(toServer[r]) :
       m.type = "ack" /\ m.ok => serving[r] # None /\ OnlyFor(m.gen, serving[r])

\* An ok on its way to a sender comes from a receiver that serves it.
OkIsServed ==
  \A s \in Senders : \A m \in Range(toApp[s]) :
    m.type = "ack" /\ m.ok => \E r \in Receivers : serving[r] = s

ControlInv ==
  /\ ServerTypes /\ ProcessTypes /\ TablesListPeers /\ RegisterComesFirst
  /\ SuspendedIsPeer /\ PendingIsLive
  /\ GenerationsTell /\ OkIsServed /\ StreamingIsServed
=============================================================================
