----------------------------- MODULE WebRtcCall -----------------------------
(***************************************************************************)
(* How the WebRTC sender and receiver find each other: the relay            *)
(* webrtc/apps/signaling/signaling_server.py, one session, with the         *)
(* OnMessage of webrtc/apps/{sender,receiver}/video_*.cc, through           *)
(* signaling_client.h.                                                     *)
(*                                                                         *)
(* As in ControlPlane a process is one with its connection, each connection *)
(* keeps its messages in order, and the only await that suspends and is     *)
(* followed by a look at the tables is that of a registering receiver on a  *)
(* sender that is gone.  Unlike there, nothing binds an answer to an offer: *)
(* names are all the relay looks at.                                       *)
(*                                                                         *)
(* libwebrtc is external: an SDP is ready when candidates were gathered,    *)
(* and an answer is applied when an offer was made and none came before.    *)
(***************************************************************************)
EXTENDS Integers, Sequences, FiniteSets

CONSTANTS
  Senders, Receivers,  \* processes
  Streams, Ids,        \* --stream-id and --receiver-id values
  StreamOf, IdOf,      \* the name each process was given
  Target,              \* Target[s]: --to
  MaxDeaths,           \* bound: processes that die unasked
  None

ASSUME CallAssumption ==
  /\ StreamOf \in [Senders -> Streams] /\ IdOf \in [Receivers -> Ids]
  /\ Target \in [Senders -> Ids]
  /\ None \notin Senders \cup Receivers /\ MaxDeaths \in Nat

Conns == Senders \cup Receivers

VARIABLES
  senders, receivers,  \* the session's tables: name -> connection or None
  peers,               \* connections that registered
  handler,             \* receiver -> None or its suspended register loop
  link,                \* "none", "open", "lost" (peer gone), "closed" (by the relay)
  toRelay, toApp,      \* unread messages of each connection
  app,                 \* "off", "up", "gone"
  offering,            \* sender: "none", "gathering", "sent"
  remote,              \* sender: the answer applied, or None
  serves,              \* receiver: the sender whose offer it took, or None
  answering,           \* receiver: "none", "gathering", "sent"
  deaths

relayVars == <<senders, receivers, peers, handler>>
callVars == <<offering, remote, serves, answering>>
webVars == <<relayVars, link, toRelay, toApp, app, callVars, deaths>>

Ready(r) == [type |-> "ready", id |-> IdOf[r]]
Offer(s) == [type |-> "offer", from |-> s]
Answer(r, s) == [type |-> "answer", by |-> r, offer |-> s]

WebInit ==
  /\ senders = [st \in Streams |-> None] /\ receivers = [i \in Ids |-> None]
  /\ peers = {} /\ handler = [r \in Receivers |-> None]
  /\ link = [c \in Conns |-> "none"] /\ app = [c \in Conns |-> "off"]
  /\ toRelay = [c \in Conns |-> <<>>] /\ toApp = [c \in Conns |-> <<>>]
  /\ offering = [s \in Senders |-> "none"] /\ remote = [s \in Senders |-> None]
  /\ serves = [r \in Receivers |-> None]
  /\ answering = [r \in Receivers |-> "none"]
  /\ deaths = 0

SameName(c, d) ==
  \/ {c, d} \subseteq Senders /\ StreamOf[c] = StreamOf[d]
  \/ {c, d} \subseteq Receivers /\ IdOf[c] = IdOf[d]

Up(c) == app[c] = "up" /\ link[c] = "open"

-----------------------------------------------------------------------------
(* Processes                                                                *)

\* Run.  A name is used again only when its process is gone.
Launch(c) ==
  /\ app[c] = "off"
  /\ \A d \in Conns \ {c} : SameName(c, d) => app[d] # "up"
  /\ app' = [app EXCEPT ![c] = "up"] /\ link' = [link EXCEPT ![c] = "open"]
  /\ toRelay' = [toRelay EXCEPT ![c] = <<[type |-> "register"]>>]
  /\ UNCHANGED <<relayVars, toApp, callVars, deaths>>

\* What it sent may still be read, or be lost to a reset.
Die(c) ==
  /\ app[c] = "up" /\ deaths < MaxDeaths
  /\ deaths' = deaths + 1
  /\ app' = [app EXCEPT ![c] = "gone"]
  /\ link' = [link EXCEPT ![c] = IF @ = "open" THEN "lost" ELSE @]
  /\ toApp' = [toApp EXCEPT ![c] = <<>>]
  /\ \E left \in {toRelay[c], <<>>} : toRelay' = [toRelay EXCEPT ![c] = left]
  /\ UNCHANGED <<relayVars, callVars>>

-----------------------------------------------------------------------------
(* The relay                                                                *)

Reads(c, type) ==
  /\ link[c] \in {"open", "lost"} /\ toRelay[c] # <<>>
  /\ Head(toRelay[c]).type = type
  /\ c \in Receivers => handler[c] = None
  /\ toRelay' = [toRelay EXCEPT ![c] = Tail(@)]

\* self.send
Deliver(cs, msg) ==
  toApp' = [c \in Conns |-> IF c \in cs /\ link[c] = "open"
                              THEN Append(toApp[c], msg) ELSE toApp[c]]

Listed(table) == {table[n] : n \in DOMAIN table} \ {None}

\* A sender that is told of the receivers to come, not of those there are.
RegisterSender_Silent(s) ==
  /\ Reads(s, "register")
  /\ senders' = [senders EXCEPT ![StreamOf[s]] = s] /\ peers' = peers \cup {s}
  /\ UNCHANGED <<receivers, handler, link, toApp, app, callVars, deaths>>

\* The receivers are told in any order; a sender looks for its target alone.
RegisterSender(s) ==
  /\ Reads(s, "register")
  /\ senders' = [senders EXCEPT ![StreamOf[s]] = s] /\ peers' = peers \cup {s}
  /\ IF receivers[Target[s]] # None
       THEN Deliver({s}, Ready(receivers[Target[s]])) ELSE UNCHANGED toApp
  /\ UNCHANGED <<receivers, handler, link, app, callVars, deaths>>

\* The loop over s.senders, to its end or to an await on a peer that is gone.
TellSenders(r, told) ==
  LET rest == Listed(senders) \ told IN
  \/ Deliver(rest, Ready(r)) /\ handler' = [handler EXCEPT ![r] = None]
  \/ \E w \in rest, before \in SUBSET rest :
       /\ link[w] = "lost" /\ w \notin before
       /\ Deliver(before, Ready(r))
       /\ handler' = [handler EXCEPT ![r] =
            [told |-> told \cup before \cup {w}, at |-> w,
             size |-> Cardinality(Listed(senders))]]

RegisterReceiver(r) ==
  /\ Reads(r, "register")
  /\ receivers' = [receivers EXCEPT ![IdOf[r]] = r] /\ peers' = peers \cup {r}
  /\ TellSenders(r, {})
  /\ UNCHANGED <<senders, link, app, callVars, deaths>>

\* Taking out of the table whoever has the name now.
Unregister_ByName(c) ==
  /\ peers' = peers \ {c}
  /\ senders' = [st \in Streams |->
       IF c \in peers \cap Senders /\ StreamOf[c] = st THEN None ELSE senders[st]]
  /\ receivers' = [i \in Ids |->
       IF c \in peers \cap Receivers /\ IdOf[c] = i THEN None ELSE receivers[i]]
  /\ link' = [link EXCEPT ![c] = "closed"]

\* unregister and writer.close(), at the end of handle
Unregister(c) ==
  /\ peers' = peers \ {c}
  /\ senders' = [st \in Streams |-> IF senders[st] = c THEN None ELSE senders[st]]
  /\ receivers' = [i \in Ids |-> IF receivers[i] = c THEN None ELSE receivers[i]]
  /\ link' = [link EXCEPT ![c] = "closed"]

\* The iterator raises if the dictionary's size changed during the await.
ResumeRegister(r) ==
  /\ handler[r] # None
  /\ IF Cardinality(Listed(senders)) = handler[r].size
       THEN /\ TellSenders(r, handler[r].told)
            /\ UNCHANGED <<senders, receivers, peers, link>>
       ELSE /\ Unregister(r) /\ handler' = [handler EXCEPT ![r] = None]
            /\ UNCHANGED toApp
  /\ UNCHANGED <<toRelay, app, callVars, deaths>>

\* An offer to a receiver nobody knows is dropped.
RouteOffer(s) ==
  /\ Reads(s, "offer")
  /\ Deliver({receivers[Target[s]]}, Head(toRelay[s]))
  /\ UNCHANGED <<relayVars, link, app, callVars, deaths>>

\* Sending the answer back only while the offerer is the stream's only peer.
RouteAnswer_Registered(r) ==
  /\ Reads(r, "answer")
  /\ LET m == Head(toRelay[r]) IN
     IF Cardinality(Listed(senders)) = 1
       THEN Deliver({senders[StreamOf[m.offer]]}, m) ELSE UNCHANGED toApp
  /\ UNCHANGED <<relayVars, link, app, callVars, deaths>>

\* An answer goes to whoever has the stream's name.
RouteAnswer(r) ==
  /\ Reads(r, "answer")
  /\ LET m == Head(toRelay[r]) IN Deliver({senders[StreamOf[m.offer]]}, m)
  /\ UNCHANGED <<relayVars, link, app, callVars, deaths>>

\* readline returns b"" or raises: the handler ends.
Hangup(c) ==
  /\ link[c] = "lost" /\ toRelay[c] = <<>>
  /\ c \in Receivers => handler[c] = None
  /\ \A r \in Receivers : handler[r] # None => handler[r].at # c
  /\ Unregister(c)
  /\ UNCHANGED <<handler, toRelay, toApp, app, callVars, deaths>>

RelayStep(c) ==
  \/ c \in Senders /\ (RegisterSender(c) \/ RouteOffer(c))
  \/ c \in Receivers /\ (RegisterReceiver(c) \/ ResumeRegister(c) \/ RouteAnswer(c))
  \/ Hangup(c)

-----------------------------------------------------------------------------
(* The sender                                                               *)

Takes(c, type) ==
  /\ app[c] = "up" /\ toApp[c] # <<>> /\ Head(toApp[c]).type = type
  /\ toApp' = [toApp EXCEPT ![c] = Tail(@)]

\* SignalingClient::Send on a connection the relay may have closed.
SendUp(c, msg) ==
  toRelay' = [toRelay EXCEPT ![c] = IF link[c] = "open" THEN Append(@, msg) ELSE @]

\* receiver-ready: Connect makes one peer per receiver id.
OnReady(s) ==
  /\ Takes(s, "ready")
  /\ offering' = [offering EXCEPT ![s] =
       IF @ = "none" /\ Head(toApp[s]).id = Target[s] THEN "gathering" ELSE @]
  /\ UNCHANGED <<relayVars, link, toRelay, app, remote, serves, answering, deaths>>

\* OnIceGatheringChange
OfferReady(s) ==
  /\ app[s] = "up" /\ offering[s] = "gathering"
  /\ offering' = [offering EXCEPT ![s] = "sent"]
  /\ SendUp(s, Offer(s))
  /\ UNCHANGED <<relayVars, link, toApp, app, remote, serves, answering, deaths>>

(* An answer is applied if its receiver was made an offer (peers_.find; the *)
(* local description may not be set yet while candidates are gathered) and  *)
(* no answer came before.                                                  *)
OnAnswer(s) ==
  /\ Takes(s, "answer")
  /\ \/ /\ offering[s] # "none" /\ IdOf[Head(toApp[s]).by] = Target[s]
        /\ remote[s] = None
        /\ remote' = [remote EXCEPT ![s] = Head(toApp[s])]
     \/ /\ \/ offering[s] # "sent" \/ remote[s] # None
           \/ IdOf[Head(toApp[s]).by] # Target[s]
        /\ UNCHANGED remote
  /\ UNCHANGED <<relayVars, link, toRelay, app, offering, serves, answering, deaths>>

-----------------------------------------------------------------------------
(* The receiver                                                             *)

\* Refusing a second offer only for the stream it has.
OnOffer_AnyStream(r) ==
  /\ Takes(r, "offer")
  /\ LET s == Head(toApp[r]).from IN
     IF serves[r] # None /\ StreamOf[serves[r]] = StreamOf[s]
       THEN UNCHANGED <<serves, answering>>
       ELSE /\ serves' = [serves EXCEPT ![r] = s]
            /\ answering' = [answering EXCEPT ![r] = "gathering"]
  /\ UNCHANGED <<relayVars, link, toRelay, app, offering, remote, deaths>>

\* One stream per process; a second offer is logged and ignored.
OnOffer(r) ==
  /\ Takes(r, "offer")
  /\ IF serves[r] # None
       THEN UNCHANGED <<serves, answering>>
       ELSE /\ serves' = [serves EXCEPT ![r] = Head(toApp[r]).from]
            /\ answering' = [answering EXCEPT ![r] = "gathering"]
  /\ UNCHANGED <<relayVars, link, toRelay, app, offering, remote, deaths>>

AnswerReady(r) ==
  /\ app[r] = "up" /\ answering[r] = "gathering"
  /\ answering' = [answering EXCEPT ![r] = "sent"]
  /\ SendUp(r, Answer(r, serves[r]))
  /\ UNCHANGED <<relayVars, link, toApp, app, offering, remote, serves, deaths>>

AppStep(c) ==
  \/ c \in Senders /\ (OnReady(c) \/ OfferReady(c) \/ OnAnswer(c))
  \/ c \in Receivers /\ (OnOffer(c) \/ AnswerReady(c))

WebNext == \E c \in Conns : Launch(c) \/ Die(c) \/ RelayStep(c) \/ AppStep(c)

\* The relay serves every connection, live processes go on; nobody must start.
WebFairness == \A c \in Conns : WF_webVars(RelayStep(c)) /\ WF_webVars(AppStep(c))

WebSpec == WebInit /\ [][WebNext]_webVars /\ WebFairness

-----------------------------------------------------------------------------
(* Properties                                                               *)

(* A name leads to the connection that took it until this one hangs up or   *)
(* another registers under it: the end of an old connection, noticed late,  *)
(* does not take its successor out (`table.get(pid) is writer`).            *)
SuccessorStays ==
  [][LET Kept(old, new) ==
           old \in {None, new} \/ old \notin peers' \/ new \in peers' \ peers
     IN /\ \A st \in Streams : Kept(senders[st], senders'[st])
        /\ \A i \in Ids : Kept(receivers[i], receivers'[i])]_webVars

(* Never do two live senders hold the answer of the same receiver: it would *)
(* write the rows of both into the first one's file (comment in OnMessage   *)
(* of the receiver).                                                       *)
OneCallerPerReceiver ==
  \A s, t \in Senders :
    app[s] = "up" /\ app[t] = "up" /\ remote[s] # None /\ remote[t] # None /\ s # t
      => remote[s].by # remote[t].by

\* No process of that name died before it.
First(c) == \A d \in Conns \ {c} : SameName(c, d) => app[d] = "off"

(* An offer that a receiver took is answered, whichever receiver of that    *)
(* name it was and whoever else dies: while both are connected the sender,  *)
(* if it is the first of its stream, gets the answer made for it.           *)
AcceptedIsAnswered ==
  \A s \in Senders, r \in Receivers :
    First(s) /\ serves[r] = s ~> remote[s] = Answer(r, s) \/ ~Up(s) \/ ~Up(r)

(* Whoever starts first: a sender and the receiver it is for, up for the    *)
(* first time, connect while both stay connected, unless the receiver       *)
(* serves another sender.                                                  *)
FirstPairsConnect ==
  \A s \in Senders, r \in Receivers :
    Target[s] = IdOf[r] =>
      (app[s] = "up" /\ app[r] = "up" /\ First(s) /\ First(r)
        ~> \/ remote[s] = Answer(r, s) \/ serves[r] \notin {s, None}
           \/ ~Up(s) \/ ~Up(r))

-----------------------------------------------------------------------------
(* What one might expect, and the code does not do                          *)

\* An answer that is applied was made for the sender's own offer.
AnswerMatchesOffer ==
  \A s \in Senders : remote[s] # None => remote[s].offer = s

\* A sender and a receiver that stay up connect, restarts before or not.
SurvivorsConnect ==
  \A s \in Senders, r \in Receivers :
    Target[s] = IdOf[r] =>
      (app[s] = "up" /\ app[r] = "up"
        ~> \/ remote[s] = Answer(r, s) \/ app[s] = "gone" \/ app[r] = "gone"
           \/ (serves[r] # None /\ StreamOf[serves[r]] # StreamOf[s]))
-----------------------------------------------------------------------------
(* Inductive invariants (see WebRtcProofs)                                  *)

WebMessages ==
  [type : {"register"}] \cup [type : {"ready"}, id : Ids]
    \cup [type : {"offer"}, from : Senders]
    \cup [type : {"answer"}, by : Receivers, offer : Senders]

CallTypes ==
  /\ senders \in [Streams -> Senders \cup {None}]
  /\ receivers \in [Ids -> Receivers \cup {None}]
  /\ peers \in SUBSET Conns /\ IsFiniteSet(peers)
  /\ link \in [Conns -> {"none", "open", "lost", "closed"}]
  /\ toRelay \in [Conns -> Seq(WebMessages)] /\ toApp \in [Conns -> Seq(WebMessages)]
  /\ app \in [Conns -> {"off", "up", "gone"}]
  /\ handler \in [Receivers -> [told : SUBSET Senders, at : Senders, size : Nat]
                                 \cup {None}]
  /\ remote \in [Senders -> [type : {"answer"}, by : Receivers, offer : Senders]
                             \cup {None}]
  /\ serves \in [Receivers -> Senders \cup {None}]
  /\ answering \in [Receivers -> {"none", "gathering", "sent"}]

\* The senders' table leads to registered connections.
ListsPeers == \A st \in Streams : senders[st] # None => senders[st] \in peers

\* A process registers once, before anything else it says.
RegistersOnce ==
  /\ \A c \in Conns : \A i \in DOMAIN toRelay[c] :
       toRelay[c][i].type = "register" => i = 1 /\ c \notin peers
  /\ \A c \in Conns : app[c] = "off" => link[c] = "none" /\ c \notin peers
  /\ \A r \in Receivers : handler[r] # None => app[r] # "off"

AnswerOf(m, r) == m.type = "answer" /\ m.by = r
Holds(q, r) == \E i \in DOMAIN q : AnswerOf(q[i], r)
HoldsOne(q, r) ==
  \A i, j \in DOMAIN q : AnswerOf(q[i], r) /\ AnswerOf(q[j], r) => i = j
Applied(s, r) == remote[s] # None /\ remote[s].by = r

\* Before a receiver answers there is no answer of it.
AnswersOnce(r) ==
  /\ serves[r] = None => answering[r] = "none"
  /\ answering[r] # "sent" =>
       /\ ~Holds(toRelay[r], r)
       /\ \A s \in Senders : ~Holds(toApp[s], r) /\ ~Applied(s, r)

\* Its answer is at one place: on its way, or with one sender.
OneAnswer(r) ==
  /\ \A c \in Receivers \ {r} : ~Holds(toRelay[c], r)
  /\ HoldsOne(toRelay[r], r)
  /\ \A s \in Senders :
       /\ HoldsOne(toApp[s], r)
       /\ Holds(toApp[s], r) \/ Applied(s, r) =>
            /\ ~Holds(toRelay[r], r)
            /\ ~(Holds(toApp[s], r) /\ Applied(s, r))
            /\ \A t \in Senders \ {s} : ~Holds(toApp[t], r) /\ ~Applied(t, r)

CallInv ==
  /\ CallTypes /\ ListsPeers /\ RegistersOnce
  /\ \A r \in Receivers : AnswersOnce(r) /\ OneAnswer(r)
=============================================================================
