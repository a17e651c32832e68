------------------------- MODULE GrpcChannel_proofs --------------------------
(***************************************************************************)
(* What the Channels of watermill/grpcchannel keep on top of their server,  *)
(* for any Channels, handlers, topics and retries.                          *)
(***************************************************************************)
EXTENDS GrpcChannel, PubSubServer_proofs, FiniteSetTheorems

-----------------------------------------------------------------------------
(* The inductive invariant.                                                 *)

\* The parts of ChanTypeOK: the server, Booleans of the client, everything else.
Flags == closed \in [Channels -> BOOLEAN] /\ receiving \in [Streams -> BOOLEAN]

ClientTypes ==
  /\ handlers \in [Channels -> [Topics -> Seq(Handlers)]]
  /\ sub \in [Handlers -> {"idle", "open", "send", "start", "ok", "err"}]
  /\ owner \in [Streams -> Handlers \cup {NoHandler}]
  /\ queue \in [Streams -> Seq(Handlers)]
  /\ tries \in [Streams -> Nat]
  /\ ret \in [Msgs -> {"idle", "pending", "ok", "err"}]
  /\ ran \in [Handlers -> Seq(Msgs)]
  /\ verdict \in [Handlers -> [Msgs -> {"none", "ok", "failed", "escalated"}]]
  /\ audience \in [Msgs -> SUBSET Handlers]

inSubscribe(h) == sub[h] \in {"open", "send", "start"}

sameTopic(h1, h2) == ChannelOf[h1] = ChannelOf[h2] /\ TopicOf[h1] = TopicOf[h2]

\* Subscribe under subsMu: a stream is opened only for a topic without handlers,
\* so that a topic never has two receivers.
SubInv ==
  /\ \A h \in Handlers : inSubscribe(h) => handlersOf(h) = << >>
  /\ \A h1, h2 \in Handlers :
       inSubscribe(h1) /\ inSubscribe(h2) /\ ChannelOf[h1] = ChannelOf[h2] => h1 = h2
  /\ \A s \in Streams : receiving[s] =>
       /\ owner[s] \in Handlers /\ sub[owner[s]] = "ok"
       /\ handlersOf(owner[s]) # << >>
  /\ \A s1, s2 \in Streams :
       receiving[s1] /\ receiving[s2] /\ sameTopic(owner[s1], owner[s2]) => s1 = s2

\* A Subscribe call opens one stream and sends one request on it.
OwnerInv ==
  /\ \A s \in Streams : owner[s] = NoHandler <=> stream[s] = "new"
  /\ \A s \in Streams : owner[s] \in Handlers => sub[owner[s]] \notin {"idle", "open"}
  /\ \A s1, s2 \in Streams : owner[s1] \in Handlers /\ owner[s1] = owner[s2] => s1 = s2
  /\ \A s \in Streams :
       /\ Len(reqs[s]) <= 1
       /\ owner[s] = NoHandler => reqs[s] = << >>
       /\ owner[s] \in Handlers /\ sub[owner[s]] = "send" => reqs[s] = << >>

\* The handlers of a topic are those whose Subscribe returned nil, once each.
ListedInv ==
  /\ \A c \in Channels : \A t \in Topics : \A i \in DOMAIN handlers[c][t] :
       LET h == handlers[c][t][i] IN
       /\ ChannelOf[h] = c /\ TopicOf[h] = t /\ sub[h] = "ok"
       /\ \A j \in DOMAIN handlers[c][t] : handlers[c][t][j] = h => i = j
  /\ \A h \in Handlers : sub[h] = "ok" => \E i \in DOMAIN handlersOf(h) : handlersOf(h)[i] = h

\* The server has a stream in one list at most, and sends it a message once.
OnceInv ==
  /\ \A k1, k2 \in Keys : \A e1 \in subscribers[k1] : \A e2 \in subscribers[k2] :
       e1.stream = e2.stream => e1 = e2
  /\ \A m \in Msgs : \A e \in todo[m] : m \notin Received(e.stream)
  /\ \A s \in Streams : \A i, j \in 1..Len(sent[s]) : sent[s][i] = sent[s][j] => i = j

\* Calls that may fail before a handler gives a message up, but for the last.
limit == IF retryTimes > 0 THEN retryTimes ELSE 0

\* The receiver goes through a message's handlers, each with its retries.
QueueInv ==
  \A s \in Streams :
    /\ got[s] <= Len(sent[s])
    /\ got[s] > 0 => receiving[s]
    /\ queue[s] # << >> => got[s] > 0
    /\ queue[s] = << >> => tries[s] = 0
    /\ tries[s] <= limit
    /\ \A i \in 1..Len(queue[s]) :
         /\ sameTopic(queue[s][i], owner[s])
         /\ \A j \in 1..Len(queue[s]) : queue[s][i] = queue[s][j] => i = j

\* Stream s is the one over which h gets messages.
serves(s, h) == receiving[s] /\ sameTopic(h, owner[s])

\* A verdict is about a message that came over the topic's stream and whose
\* dispatch has passed the handler.
VerdictInv ==
  \A h \in Handlers : \A m \in Msgs : verdict[h][m] # "none" =>
    \E s \in Streams : serves(s, h) /\ \E i \in 1..got[s] :
      /\ sent[s][i] = m
      /\ i = got[s] => \A j \in 1..Len(queue[s]) : queue[s][j] # h

\* A handler was called only with messages of the topic's stream, in its order.
RanInv ==
  \A h \in Handlers : \A i \in 1..Len(ran[h]) :
    /\ \E s \in Streams : serves(s, h) /\ \E k \in 1..got[s] : sent[s][k] = ran[h][i]
    /\ \A j \in 1..Len(ran[h]) : i <= j => ticket[ran[h][i]] <= ticket[ran[h][j]]

\* The calls of a handler with a message are the tries of its dispatch.
CallsInv ==
  /\ \A s \in Streams : \A i \in 1..Len(queue[s]) :
       calls(queue[s][i], current(s)) = IF i = 1 THEN tries[s] ELSE 0
  /\ \A h \in Handlers : \A m \in Msgs :
       verdict[h][m] \in {"failed", "escalated"} => calls(h, m) = 1 + limit

\* A received message has the verdict of every handler of its audience that is not
\* still in the queue; an audience was fixed before the message was sent.
AudienceInv ==
  /\ \A m \in Msgs : ret[m] = "idle" => call[m] = "idle"
  /\ \A m \in Msgs : \A h \in audience[m] : sub[h] = "ok"
  /\ \A s \in Streams : \A i \in 1..got[s] : \A h \in audience[sent[s][i]] :
       topicStream(h, s) /\ verdict[h][sent[s][i]] = "none" =>
         i = got[s] /\ \E j \in 1..Len(queue[s]) : queue[s][j] = h

ChanInv ==
  /\ IInv /\ Flags /\ ClientTypes /\ SubInv /\ OwnerInv /\ ListedInv /\ OnceInv
  /\ QueueInv /\ VerdictInv /\ RanInv /\ CallsInv /\ AudienceInv

-----------------------------------------------------------------------------
(* The server below the Channels.                                           *)

\* Every step of the Channels is one the server and its network allow, or none:
\* Subscribe opens a stream and sends a request with an address on it, Publish
\* calls, a receiver receives, and Close disconnects.
LEMMA ServerStep == ASSUME [ChanNext]_chanVars PROVE [Next]_vars
<1>1. CASE ServerNext
  BY <1>1 DEF ServerNext, Next, StreamNext, CallNext
<1>2. ASSUME NEW h \in Handlers, SubscribeNext(h) PROVE [Next]_vars
  <2>1. ASSUME NEW s \in Streams, SubscribeOpen(h, s) PROVE [Next]_vars
    BY <2>1 DEF SubscribeOpen, Next, StreamNext
  <2>2. ASSUME NEW s \in Streams, SubscribeSend(h, s) PROVE [Next]_vars
    <3>1. [namespace |-> Namespace[ChannelOf[h]], topic |-> TopicOf[h]] \in Address
      BY ChannelAssumption DEF ChannelAssumption, Address
    <3> QED
      BY <2>2, <3>1 DEF SubscribeSend, Next, StreamNext
  <2> QED
    BY <1>2, <2>1, <2>2 DEF SubscribeNext, SubscribeLock, SubscribeFail, SubscribeStart
<1>3. ASSUME NEW s \in Streams, ReceiverNext(s) PROVE [Next]_vars
  BY <1>3 DEF ReceiverNext, Recv, HandlerOk, HandlerRetry, HandlerFail, Next, StreamNext
<1>4. ASSUME NEW m \in Msgs, Publish(m) \/ PublishOk(m) \/ PublishErr(m) PROVE [Next]_vars
  BY <1>4 DEF Publish, PublishOk, PublishErr, Next, CallNext
<1>5. ASSUME NEW c \in Channels, Close(c) PROVE [Next]_vars
  <2>1. UNCHANGED vars \/ \E S \in SUBSET Streams : Disconnect(S)
    BY <1>5 DEF Close, openStreams
  <2> QED
    BY <2>1 DEF Next
<1>6. CASE UNCHANGED chanVars
  BY <1>6 DEF chanVars
<1> QED
  BY <1>1, <1>2, <1>3, <1>4, <1>5, <1>6 DEF ChanNext

\* What is proved of PubSubServer holds of the server these Channels use.
LEMMA ServerBelow == ChanSpec => Spec
<1>1. ChanInit => Init
  BY DEF ChanInit
<1> QED
  BY <1>1, ServerStep, PTL DEF ChanSpec, Spec

\* What a stream has carried stays, and so does a ticket once drawn.
LEMMA Grows ==
  ASSUME IInv, [Next]_vars
  PROVE  /\ \A s \in Streams : /\ Len(sent[s]) <= Len(sent'[s])
                               /\ \A i \in 1..Len(sent[s]) : sent'[s][i] = sent[s][i]
         /\ \A m \in Msgs : ticket[m] > 0 => ticket'[m] = ticket[m]
<1>0. TypeOK /\ TicketInv
  BY DEF IInv
<1>1. CASE UNCHANGED <<sent, ticket>>
  BY <1>0, <1>1 DEF TypeOK
<1>2. ASSUME NEW m \in Msgs, PublishSend(m)
      PROVE  /\ ticket' = ticket
             /\ \A s \in Streams : /\ Len(sent[s]) <= Len(sent'[s])
                                   /\ \A i \in 1..Len(sent[s]) : sent'[s][i] = sent[s][i]
  <2>1. PICK e \in todo[m] : PublishSend(m)!(e)
    BY <1>2 DEF PublishSend
  <2>2. CASE sent' = sent
    BY <1>0, <2>1, <2>2 DEF TypeOK
  <2>3. CASE sent' = [sent EXCEPT ![e.stream] = Append(@, m)]
    BY <1>0, <2>1, <2>3 DEF TypeOK
  <2> QED
    BY <2>1, <2>2, <2>3
<1>3. ASSUME NEW m \in Msgs, PublishLock(m) PROVE sent' = sent /\ \A n \in Msgs : ticket[n] > 0 => ticket'[n] = ticket[n]
  BY <1>0, <1>3 DEF PublishLock, TypeOK, TicketInv, transport
<1>4. \/ UNCHANGED <<sent, ticket>>
      \/ \E m \in Msgs : PublishSend(m) \/ PublishLock(m)
  BY DEF Next, vars, StartServe, Stop, Crash, Disconnect, transport, srv, StreamNext, OpenStream,
     ClientRecv, Request, SubscribeRecv, SubscribeAdd, SubscribeEnd, CallNext, PublishCall, PublishReturn
<1>5. \A s \in Streams : Len(sent[s]) \in Nat
  BY <1>0 DEF TypeOK
<1> QED
  BY <1>1, <1>2, <1>3, <1>4, <1>5

\* Steps of the server and the network leave the clients and their requests alone.
LEMMA ServerFrame ==
  ASSUME TypeOK, ServerNext
  PROVE  /\ UNCHANGED client /\ UNCHANGED <<reqs, got>>
         /\ \A s \in Streams : stream'[s] = "new" <=> stream[s] = "new"
         /\ \A m \in Msgs : call'[m] = "idle" <=> call[m] = "idle"
<1> USE DEF transport, srv
<1>1. UNCHANGED client
  BY DEF ServerNext
<1>2. UNCHANGED <<reqs, got>>
  BY DEF ServerNext, StartServe, Stop, Crash, Disconnect, SubscribeRecv, SubscribeAdd, SubscribeEnd,
         PublishLock, PublishSend, PublishReturn
<1>3. ASSUME NEW s \in Streams PROVE stream'[s] = "new" <=> stream[s] = "new"
  BY DEF ServerNext, StartServe, Stop, Crash, Disconnect, Break, openStreams, TypeOK, SubscribeRecv,
         SubscribeAdd, SubscribeEnd, PublishLock, PublishSend, PublishReturn
<1>4. ASSUME NEW m \in Msgs PROVE call'[m] = "idle" <=> call[m] = "idle"
  BY DEF ServerNext, StartServe, Stop, Crash, Disconnect, TypeOK, SubscribeRecv,
         SubscribeAdd, SubscribeEnd, PublishLock, PublishSend, PublishReturn
<1> QED
  BY <1>1, <1>2, <1>3, <1>4

-----------------------------------------------------------------------------
(* Types.                                                                   *)

\* The Channel and the topic of a handler.
LEMMA HandlerTypes ==
  ASSUME ClientTypes, NEW h \in Handlers
  PROVE  ChannelOf[h] \in Channels /\ TopicOf[h] \in Topics /\ handlersOf(h) \in Seq(Handlers)
BY ChannelAssumption DEF ChannelAssumption, ClientTypes, handlersOf

\* While a dispatch goes on there is a message and a handler it is at.
LEMMA Dispatching ==
  ASSUME TypeOK, ClientTypes, QueueInv, NEW s \in Streams, queue[s] # << >>
  PROVE  /\ got[s] \in 1..Len(sent[s]) /\ current(s) \in Msgs /\ receiving[s]
         /\ Head(queue[s]) \in Handlers /\ Tail(queue[s]) \in Seq(Handlers) /\ queue[s] \in Seq(Handlers)
         /\ Len(queue[s]) \in Nat \ {0} /\ queue[s][1] = Head(queue[s])
         /\ Len(Tail(queue[s])) = Len(queue[s]) - 1
         /\ \A i \in 1..(Len(queue[s]) - 1) : Tail(queue[s])[i] = queue[s][i + 1]
<1>1. /\ queue[s] \in Seq(Handlers) /\ sent[s] \in Seq(Msgs) /\ got[s] \in Nat
      /\ got[s] > 0 /\ got[s] <= Len(sent[s]) /\ receiving[s]
  BY DEF TypeOK, ClientTypes, QueueInv
<1> QED
  BY <1>1 DEF current

\* What handlers.Set does to the map of handlers.
LEMMA SetEffect ==
  ASSUME ClientTypes, NEW h \in Handlers, NEW l \in Seq(Handlers), setHandlers(h, l)
  PROVE  /\ handlers' \in [Channels -> [Topics -> Seq(Handlers)]]
         /\ \A c \in Channels : \A t \in Topics :
              handlers'[c][t] = IF c = ChannelOf[h] /\ t = TopicOf[h] THEN l ELSE handlers[c][t]
<1>1. ChannelOf[h] \in Channels /\ TopicOf[h] \in Topics
  BY HandlerTypes
<1>2. handlers \in [Channels -> [Topics -> Seq(Handlers)]]
  BY DEF ClientTypes
<1>3. handlers' = [handlers EXCEPT ![ChannelOf[h]] = [@ EXCEPT ![TopicOf[h]] = l]]
  BY DEF setHandlers
<1>4. \A c \in Channels :
        handlers'[c] = IF c = ChannelOf[h] THEN [handlers[c] EXCEPT ![TopicOf[h]] = l] ELSE handlers[c]
  BY <1>1, <1>2, <1>3
<1>5. [handlers[ChannelOf[h]] EXCEPT ![TopicOf[h]] = l] \in [Topics -> Seq(Handlers)]
  BY <1>1, <1>2
<1>6. handlers' \in [Channels -> [Topics -> Seq(Handlers)]]
  BY <1>1, <1>2, <1>3, <1>5
<1> QED
  BY <1>1, <1>2, <1>4, <1>6

\* A call of a handler: the receiver stays at it, or goes on with a result.
again(s) ==
  /\ tries[s] < retryTimes /\ UNCHANGED <<queue, verdict>>
  /\ tries' = [tries EXCEPT ![s] = tries[s] + 1]

over(s, r) == nextHandler(s, r) /\ (r # "ok" => tries[s] >= retryTimes)

Results == {"ok", "failed", "escalated"}

Turn(s) ==
  /\ queue[s] # << >> /\ called(Head(queue[s]), current(s))
  /\ again(s) \/ \E r \in Results : over(s, r)
  /\ UNCHANGED <<vars, closed, handlers, sub, owner, receiving, ret, audience>>

\* Each step of a receiver is Recv or a call of a handler.
LEMMA ReceiverCases ==
  ASSUME NEW s \in Streams, ReceiverNext(s) PROVE Recv(s) \/ Turn(s)
<1>1. ASSUME HandlerOk(s) PROVE Turn(s)
  BY <1>1 DEF HandlerOk, Turn, over, Results
<1>2. ASSUME HandlerRetry(s) PROVE Turn(s)
  BY <1>2 DEF HandlerRetry, Turn, again
<1>3. ASSUME HandlerFail(s) PROVE Turn(s)
  BY <1>3 DEF HandlerFail, Turn, over, Results
<1> QED
  BY <1>1, <1>2, <1>3 DEF ReceiverNext

\* Steps other than those of a receiver leave the dispatches alone.
LEMMA DispatchFrame ==
  ASSUME TypeOK, [ChanNext]_chanVars
  PROVE  \/ UNCHANGED <<queue, tries, got, ran, verdict>>
         \/ \E s \in Streams : Recv(s) \/ Turn(s)
<1>1. CASE ServerNext
  BY <1>1, ServerFrame DEF client
<1>2. ASSUME NEW h \in Handlers, SubscribeNext(h) PROVE UNCHANGED <<queue, tries, got, ran, verdict>>
  BY <1>2 DEF SubscribeNext, SubscribeLock, SubscribeFail, SubscribeOpen, SubscribeSend, SubscribeStart,
     OpenStream, Request, vars, transport
<1>3. ASSUME NEW m \in Msgs, Publish(m) \/ PublishOk(m) \/ PublishErr(m)
      PROVE  UNCHANGED <<queue, tries, got, ran, verdict>>
  BY <1>3 DEF Publish, PublishOk, PublishErr, PublishCall, vars, transport
<1>4. ASSUME NEW c \in Channels, Close(c) PROVE UNCHANGED <<queue, tries, got, ran, verdict>>
  BY <1>4 DEF Close, Disconnect, vars, transport
<1>5. CASE UNCHANGED chanVars
  BY <1>5 DEF chanVars, client, vars, transport
<1> QED
  BY <1>1, <1>2, <1>3, <1>4, <1>5, ReceiverCases DEF ChanNext

\* Steps other than those of a Subscribe leave the subscriptions alone.
LEMMA SubscribeFrame ==
  ASSUME TypeOK, [ChanNext]_chanVars
  PROVE  \/ /\ UNCHANGED <<handlers, sub, owner, receiving, reqs>>
            /\ \A s \in Streams : stream'[s] = "new" <=> stream[s] = "new"
         \/ \E h \in Handlers : SubscribeNext(h)
<1> DEFINE G == /\ UNCHANGED <<handlers, sub, owner, receiving, reqs>>
                /\ \A s \in Streams : stream'[s] = "new" <=> stream[s] = "new"
<1>1. CASE ServerNext
  BY <1>1, ServerFrame DEF client
<1>2. ASSUME NEW s \in Streams, Recv(s) \/ Turn(s) PROVE G
  BY <1>2 DEF Recv, Turn, ClientRecv, vars, transport
<1>3. ASSUME NEW m \in Msgs, Publish(m) \/ PublishOk(m) \/ PublishErr(m) PROVE G
  BY <1>3 DEF Publish, PublishOk, PublishErr, PublishCall, vars, transport
<1>4. ASSUME NEW c \in Channels, Close(c) PROVE G
  BY <1>4 DEF Close, Disconnect, Break, openStreams, vars, transport, TypeOK
<1>5. CASE UNCHANGED chanVars
  BY <1>5 DEF chanVars, client, vars, transport
<1> QED
  BY <1>1, <1>2, <1>3, <1>4, <1>5, ReceiverCases DEF ChanNext

\* What a verdict on message n does to the table of verdicts.
LEMMA VerdictEffect ==
  ASSUME ClientTypes, NEW g \in Handlers, NEW n \in Msgs, NEW r \in Results,
         verdict' = [verdict EXCEPT ![g][n] = r]
  PROVE  /\ verdict' \in [Handlers -> [Msgs -> {"none", "ok", "failed", "escalated"}]]
         /\ \A h \in Handlers : \A m \in Msgs :
              verdict'[h][m] = IF h = g /\ m = n THEN r ELSE verdict[h][m]
<1>1. verdict \in [Handlers -> [Msgs -> {"none", "ok", "failed", "escalated"}]]
  BY DEF ClientTypes
<1>2. verdict' = [verdict EXCEPT ![g] = [verdict[g] EXCEPT ![n] = r]]
  OBVIOUS
<1>3. [verdict[g] EXCEPT ![n] = r] \in [Msgs -> {"none", "ok", "failed", "escalated"}]
  BY <1>1 DEF Results
<1>4. verdict' \in [Handlers -> [Msgs -> {"none", "ok", "failed", "escalated"}]]
  BY <1>1, <1>2, <1>3
<1>5. \A h \in Handlers : verdict'[h] = IF h = g THEN [verdict[g] EXCEPT ![n] = r] ELSE verdict[h]
  BY <1>1, <1>2
<1> QED
  BY <1>1, <1>4, <1>5

\* No step leaves the types of the client.
LEMMA ClientTypeStep == ChanInv /\ [ChanNext]_chanVars => ClientTypes'
<1> SUFFICES ASSUME ChanInv, [ChanNext]_chanVars PROVE ClientTypes'
  OBVIOUS
<1>0. TypeOK /\ ClientTypes /\ SubInv /\ QueueInv
  BY DEF ChanInv, IInv
<1>1. /\ handlers' \in [Channels -> [Topics -> Seq(Handlers)]]
      /\ sub' \in [Handlers -> {"idle", "open", "send", "start", "ok", "err"}]
      /\ owner' \in [Streams -> Handlers \cup {NoHandler}]
  <2>1. CASE UNCHANGED <<handlers, sub, owner>>
    BY <1>0, <2>1 DEF ClientTypes
  <2>2. ASSUME NEW h \in Handlers, SubscribeLock(h)
        PROVE  handlers' \in [Channels -> [Topics -> Seq(Handlers)]]
    <3>1. Append(handlersOf(h), h) \in Seq(Handlers)
      BY <1>0, HandlerTypes
    <3> QED
      BY <1>0, <2>2, <3>1, SetEffect DEF SubscribeLock, ClientTypes
  <2>3. ASSUME NEW h \in Handlers, NEW s \in Streams, SubscribeStart(h, s)
        PROVE  handlers' \in [Channels -> [Topics -> Seq(Handlers)]]
    <3>1. <<h>> \in Seq(Handlers)
      OBVIOUS
    <3> QED
      BY <1>0, <2>3, <3>1, SetEffect DEF SubscribeStart
  <2>4. ASSUME NEW h \in Handlers, SubscribeNext(h)
        PROVE  sub' \in [Handlers -> {"idle", "open", "send", "start", "ok", "err"}]
    <3>1. \E p \in {"open", "send", "start", "ok", "err"} : sub' = [sub EXCEPT ![h] = p]
      BY <2>4 DEF SubscribeNext, SubscribeLock, SubscribeFail, SubscribeOpen, SubscribeSend, SubscribeStart
    <3> QED
      BY <1>0, <3>1 DEF ClientTypes
  <2>5. ASSUME NEW h \in Handlers, NEW s \in Streams, SubscribeOpen(h, s)
        PROVE  owner' \in [Streams -> Handlers \cup {NoHandler}]
    BY <1>0, <2>5 DEF SubscribeOpen, ClientTypes
  <2>6. ASSUME NEW h \in Handlers, SubscribeNext(h)
        PROVE  /\ handlers' \in [Channels -> [Topics -> Seq(Handlers)]]
               /\ owner' \in [Streams -> Handlers \cup {NoHandler}]
    <3>1. handlers' = handlers \/ SubscribeLock(h) \/ \E s \in Streams : SubscribeStart(h, s)
      BY <2>6 DEF SubscribeNext, SubscribeFail, SubscribeOpen, SubscribeSend
    <3>2. owner' = owner \/ \E s \in Streams : SubscribeOpen(h, s)
      BY <2>6 DEF SubscribeNext, SubscribeLock, SubscribeFail, SubscribeSend, SubscribeStart
    <3>3. handlers' \in [Channels -> [Topics -> Seq(Handlers)]]
      BY <1>0, <2>2, <2>3, <3>1 DEF ClientTypes
    <3>4. owner' \in [Streams -> Handlers \cup {NoHandler}]
      BY <1>0, <2>5, <3>2 DEF ClientTypes
    <3> QED
      BY <3>3, <3>4
  <2> QED
    BY <1>0, <2>1, <2>4, <2>6, SubscribeFrame
<1>2. /\ queue' \in [Streams -> Seq(Handlers)] /\ tries' \in [Streams -> Nat]
      /\ ran' \in [Handlers -> Seq(Msgs)]
      /\ verdict' \in [Handlers -> [Msgs -> {"none", "ok", "failed", "escalated"}]]
  <2>1. CASE UNCHANGED <<queue, tries, ran, verdict>>
    BY <1>0, <2>1 DEF ClientTypes
  <2>2. ASSUME NEW s \in Streams, Recv(s) PROVE queue' \in [Streams -> Seq(Handlers)]
    <3>1. handlersOf(owner[s]) \in Seq(Handlers)
      BY <1>0, <2>2, HandlerTypes DEF Recv, SubInv
    <3> QED
      BY <1>0, <2>2, <3>1 DEF Recv, ClientTypes
  <2>3. ASSUME NEW s \in Streams, Recv(s) PROVE UNCHANGED <<tries, ran, verdict>>
    BY <2>3 DEF Recv
  <2>4. ASSUME NEW s \in Streams, Turn(s)
        PROVE  /\ queue' \in [Streams -> Seq(Handlers)] /\ tries' \in [Streams -> Nat]
               /\ ran' \in [Handlers -> Seq(Msgs)]
               /\ verdict' \in [Handlers -> [Msgs -> {"none", "ok", "failed", "escalated"}]]
    <3> DEFINE g == Head(queue[s])  n == current(s)
    <3>1. n \in Msgs /\ g \in Handlers /\ Tail(queue[s]) \in Seq(Handlers)
      BY <1>0, <2>4, Dispatching DEF Turn
    <3>2. /\ queue' = queue \/ queue' = [queue EXCEPT ![s] = Tail(queue[s])]
          /\ tries' = [tries EXCEPT ![s] = 0] \/ tries' = [tries EXCEPT ![s] = tries[s] + 1]
          /\ ran' = [ran EXCEPT ![g] = Append(ran[g], n)]
      BY <2>4 DEF Turn, again, over, nextHandler, called
    <3>3. verdict' = verdict \/ \E r \in Results : verdict' = [verdict EXCEPT ![g][n] = r]
      BY <2>4 DEF Turn, again, over, nextHandler
    <3> HIDE DEF g, n
    <3>4. queue' \in [Streams -> Seq(Handlers)]
      BY <1>0, <3>1, <3>2 DEF ClientTypes
    <3>5. tries' \in [Streams -> Nat]
      <4>1. tries \in [Streams -> Nat] /\ tries[s] + 1 \in Nat
        BY <1>0 DEF ClientTypes
      <4> QED
        BY <3>2, <4>1
    <3>6. ran' \in [Handlers -> Seq(Msgs)]
      <4>1. ran \in [Handlers -> Seq(Msgs)] /\ Append(ran[g], n) \in Seq(Msgs)
        BY <1>0, <3>1 DEF ClientTypes
      <4> QED
        BY <3>2, <4>1
    <3>7. verdict' \in [Handlers -> [Msgs -> {"none", "ok", "failed", "escalated"}]]
      <4>1. CASE verdict' = verdict
        BY <1>0, <4>1 DEF ClientTypes
      <4>2. ASSUME NEW r \in Results, verdict' = [verdict EXCEPT ![g][n] = r]
            PROVE  verdict' \in [Handlers -> [Msgs -> {"none", "ok", "failed", "escalated"}]]
        BY <1>0, <3>1, <4>2, VerdictEffect
      <4> QED
        BY <3>3, <4>1, <4>2
    <3> QED
      BY <3>4, <3>5, <3>6, <3>7
  <2>5. ASSUME NEW s \in Streams, Recv(s)
        PROVE  /\ queue' \in [Streams -> Seq(Handlers)] /\ tries' \in [Streams -> Nat]
               /\ ran' \in [Handlers -> Seq(Msgs)]
               /\ verdict' \in [Handlers -> [Msgs -> {"none", "ok", "failed", "escalated"}]]
    BY <1>0, <2>2, <2>3, <2>5 DEF ClientTypes
  <2> QED
    BY <1>0, <2>1, <2>4, <2>5, DispatchFrame
<1>3. ret' \in [Msgs -> {"idle", "pending", "ok", "err"}] /\ audience' \in [Msgs -> SUBSET Handlers]
  <2>1. UNCHANGED <<ret, audience>> \/ \E m \in Msgs : Publish(m) \/ PublishOk(m) \/ PublishErr(m)
    BY DEF ChanNext, ServerNext, SubscribeNext, SubscribeLock, SubscribeFail, SubscribeOpen, SubscribeSend,
       SubscribeStart, ReceiverNext, Recv, HandlerOk, HandlerRetry, HandlerFail, Close, client, chanVars
  <2>2. ASSUME NEW m \in Msgs, Publish(m) \/ PublishOk(m) \/ PublishErr(m)
        PROVE  /\ \E p \in {"pending", "ok", "err"} : ret' = [ret EXCEPT ![m] = p]
               /\ \E S \in SUBSET Handlers : audience' = audience \/ audience' = [audience EXCEPT ![m] = S]
    BY <2>2 DEF Publish, PublishOk, PublishErr
  <2> QED
    BY <1>0, <2>1, <2>2 DEF ClientTypes
<1> QED
  BY <1>1, <1>2, <1>3 DEF ClientTypes

\* Booleans of the client stay Booleans.
LEMMA FlagsStep == Flags /\ [ChanNext]_chanVars => Flags'
<1> SUFFICES ASSUME Flags, [ChanNext]_chanVars PROVE Flags'
  OBVIOUS
<1>1. CASE UNCHANGED <<closed, receiving>>
  BY <1>1, Zenon DEF Flags
<1>2. ASSUME NEW h \in Handlers, NEW s \in Streams, SubscribeStart(h, s) PROVE Flags'
  <2>1. receiving' = [receiving EXCEPT ![s] = TRUE] /\ closed' = closed
    BY <1>2 DEF SubscribeStart
  <2> QED
    BY <2>1, Zenon DEF Flags
<1>3. ASSUME NEW c \in Channels, Close(c) PROVE Flags'
  <2>1. closed' = [closed EXCEPT ![c] = TRUE] /\ receiving' = receiving
    BY <1>3 DEF Close
  <2> QED
    BY <2>1, Zenon DEF Flags
<1> QED
  BY <1>1, <1>2, <1>3 DEF ChanNext, ServerNext, SubscribeNext, SubscribeLock, SubscribeFail, SubscribeOpen,
     SubscribeSend, ReceiverNext, Recv, HandlerOk, HandlerRetry, HandlerFail, Publish, PublishOk, PublishErr,
     client, chanVars

-----------------------------------------------------------------------------
(* Subscriptions.                                                           *)

\* A change of one topic's handlers, seen from the handlers.
LEMMA SetHandlersOf ==
  ASSUME ClientTypes, NEW h \in Handlers, NEW l \in Seq(Handlers), setHandlers(h, l)
  PROVE  \A g \in Handlers : handlersOf(g)' = IF sameTopic(g, h) THEN l ELSE handlersOf(g)
BY SetEffect, HandlerTypes DEF handlersOf, sameTopic

\* What the first half of Subscribe does: the topic has handlers, and gets another, or
\* h is alone under subsMu.
LEMMA LockEffect ==
  ASSUME ClientTypes, NEW h \in Handlers, SubscribeLock(h)
  PROVE  /\ sub[h] = "idle" /\ UNCHANGED <<vars, owner, receiving>>
         /\ \A g \in Handlers : inSubscribe(g) => ChannelOf[g] # ChannelOf[h]
         /\ \/ /\ handlersOf(h) # << >> /\ sub' = [sub EXCEPT ![h] = "ok"]
               /\ setHandlers(h, Append(handlersOf(h), h))
               /\ Append(handlersOf(h), h) \in Seq(Handlers) /\ Append(handlersOf(h), h) # << >>
            \/ handlersOf(h) = << >> /\ sub' = [sub EXCEPT ![h] = "open"] /\ UNCHANGED handlers
<1>1. Append(handlersOf(h), h) \in Seq(Handlers) /\ Append(handlersOf(h), h) # << >>
  BY HandlerTypes
<1>2. \A g \in Handlers : inSubscribe(g) => ChannelOf[g] # ChannelOf[h]
  BY DEF SubscribeLock, subsMu, inSubscribe
<1> QED
  BY <1>1, <1>2 DEF SubscribeLock

\* What the end of Subscribe does: h is the topic's first handler and its stream has
\* a receiver.
LEMMA StartEffect ==
  ASSUME ClientTypes, Flags, NEW h \in Handlers, NEW s \in Streams, SubscribeStart(h, s)
  PROVE  /\ sub[h] = "start" /\ owner[s] = h /\ UNCHANGED <<vars, owner>>
         /\ sub' = [sub EXCEPT ![h] = "ok"]
         /\ setHandlers(h, <<h>>) /\ <<h>> \in Seq(Handlers) /\ <<h>> # << >>
         /\ \A r \in Streams : receiving'[r] <=> (r = s \/ receiving[r])
<1>1. \A r \in Streams : receiving'[r] <=> (r = s \/ receiving[r])
  <2>1. receiving' = [receiving EXCEPT ![s] = TRUE]
    BY DEF SubscribeStart
  <2> QED
    BY <2>1, Zenon DEF Flags
<1> QED
  BY <1>1 DEF SubscribeStart

\* subsMu keeps one Subscribe per Channel between the test for handlers and the
\* entry into the map, so that a topic gets one stream and one receiver.
LEMMA SubStep == ChanInv /\ [ChanNext]_chanVars => SubInv'
<1> SUFFICES ASSUME ChanInv, [ChanNext]_chanVars PROVE SubInv'
  OBVIOUS
<1>0. TypeOK /\ ClientTypes /\ ClientTypes' /\ Flags /\ SubInv /\ OwnerInv
  BY ClientTypeStep DEF ChanInv, IInv
<1>1. CASE UNCHANGED <<handlers, sub, owner, receiving>>
  BY <1>0, <1>1 DEF SubInv, inSubscribe, handlersOf
<1>2. ASSUME NEW h \in Handlers, SubscribeLock(h) PROVE SubInv'
  <2>1. CASE sub' = [sub EXCEPT ![h] = "open"] /\ handlersOf(h) = << >> /\ UNCHANGED handlers
    <3>1. \A g \in Handlers : /\ inSubscribe(g)' <=> (inSubscribe(g) \/ g = h)
                              /\ handlersOf(g)' = handlersOf(g)
                              /\ sub[g] = "ok" => sub'[g] = "ok"
      <4>1. sub[h] = "idle" /\ sub \in [Handlers -> {"idle", "open", "send", "start", "ok", "err"}]
        BY <1>0, <1>2, LockEffect DEF ClientTypes
      <4>2. \A g \in Handlers : inSubscribe(g)' <=> (inSubscribe(g) \/ g = h)
        BY <2>1, <4>1 DEF inSubscribe
      <4>3. \A g \in Handlers : sub[g] = "ok" => sub'[g] = "ok"
        BY <2>1, <4>1
      <4>4. \A g \in Handlers : handlersOf(g)' = handlersOf(g)
        BY <2>1 DEF handlersOf
      <4> QED
        BY <4>2, <4>3, <4>4
    <3>2. \A g \in Handlers : inSubscribe(g) => ChannelOf[g] # ChannelOf[h]
      BY <1>0, <1>2, LockEffect
    <3>3. UNCHANGED <<owner, receiving>>
      BY <1>0, <1>2, LockEffect
    <3>4. \A g \in Handlers : inSubscribe(g)' => handlersOf(g)' = << >>
      BY <1>0, <2>1, <3>1 DEF SubInv
    <3>5. \A h1, h2 \in Handlers :
            inSubscribe(h1)' /\ inSubscribe(h2)' /\ ChannelOf[h1] = ChannelOf[h2] => h1 = h2
      BY <1>0, <3>1, <3>2 DEF SubInv
    <3> QED
      BY <1>0, <2>1, <3>1, <3>3, <3>4, <3>5 DEF SubInv, handlersOf
  <2>2. CASE /\ handlersOf(h) # << >> /\ sub' = [sub EXCEPT ![h] = "ok"]
             /\ setHandlers(h, Append(handlersOf(h), h))
             /\ Append(handlersOf(h), h) \in Seq(Handlers) /\ Append(handlersOf(h), h) # << >>
    <3>1. PICK l \in Seq(Handlers) : setHandlers(h, l) /\ l # << >>
      BY <2>2
    <3>2. \A g \in Handlers : handlersOf(g)' = IF sameTopic(g, h) THEN l ELSE handlersOf(g)
      BY <1>0, <3>1, SetHandlersOf
    <3>3. \A g \in Handlers : inSubscribe(g)' => inSubscribe(g) /\ ~sameTopic(g, h)
      BY <1>0, <1>2, <2>2, LockEffect DEF inSubscribe, ClientTypes, sameTopic
    <3>4. \A g \in Handlers : sub[g] = "ok" => sub'[g] = "ok"
      BY <1>0, <2>2 DEF ClientTypes
    <3> QED
      BY <1>0, <1>2, <3>1, <3>2, <3>3, <3>4, LockEffect DEF SubInv
  <2> QED
    BY <1>0, <1>2, <2>1, <2>2, LockEffect
<1>3. ASSUME NEW h \in Handlers, SubscribeFail(h) PROVE SubInv'
  <2>1. /\ sub[h] # "ok" /\ sub' = [sub EXCEPT ![h] = "err"] /\ UNCHANGED <<handlers, owner, receiving>>
    BY <1>3 DEF SubscribeFail
  <2> QED
    BY <1>0, <2>1 DEF SubInv, inSubscribe, handlersOf, ClientTypes
<1>4. ASSUME NEW h \in Handlers, NEW s \in Streams, SubscribeOpen(h, s) PROVE SubInv'
  <2>1. /\ sub[h] = "open" /\ sub' = [sub EXCEPT ![h] = "send"] /\ UNCHANGED <<handlers, receiving>>
        /\ owner' = [owner EXCEPT ![s] = h] /\ stream[s] = "new"
    BY <1>4 DEF SubscribeOpen, OpenStream
  <2>2. ~receiving[s]
    BY <1>0, <2>1, ChannelAssumption DEF OwnerInv, SubInv, ChannelAssumption
  <2>3. \A g \in Handlers : /\ inSubscribe(g)' <=> inSubscribe(g)
                            /\ handlersOf(g)' = handlersOf(g)
                            /\ sub[g] = "ok" => sub'[g] = "ok"
    BY <1>0, <2>1 DEF inSubscribe, handlersOf, ClientTypes
  <2>4. \A r \in Streams : receiving[r] => owner'[r] = owner[r]
    BY <1>0, <2>1, <2>2 DEF ClientTypes
  <2>5. \A r \in Streams : receiving'[r] =>
          owner'[r] \in Handlers /\ sub'[owner'[r]] = "ok" /\ handlersOf(owner[r])' # << >>
    BY <1>0, <2>1, <2>3, <2>4 DEF SubInv
  <2>6. \A s1, s2 \in Streams :
          receiving'[s1] /\ receiving'[s2] /\ sameTopic(owner'[s1], owner'[s2]) => s1 = s2
    BY <1>0, <2>1, <2>4 DEF SubInv
  <2> QED
    BY <1>0, <2>1, <2>3, <2>4, <2>5, <2>6 DEF SubInv
<1>5. ASSUME NEW h \in Handlers, NEW s \in Streams, SubscribeSend(h, s) PROVE SubInv'
  <2>1. sub[h] = "send" /\ sub' = [sub EXCEPT ![h] = "start"] /\ UNCHANGED <<handlers, owner, receiving>>
    BY <1>5 DEF SubscribeSend
  <2> QED
    BY <1>0, <2>1 DEF SubInv, inSubscribe, handlersOf, ClientTypes
<1>6. ASSUME NEW h \in Handlers, NEW s \in Streams, SubscribeStart(h, s) PROVE SubInv'
  <2>1. /\ sub[h] = "start" /\ owner[s] = h /\ UNCHANGED owner /\ sub' = [sub EXCEPT ![h] = "ok"]
        /\ \A r \in Streams : receiving'[r] <=> (r = s \/ receiving[r])
    BY <1>0, <1>6, StartEffect
  <2>2. PICK l \in Seq(Handlers) : setHandlers(h, l) /\ l # << >>
    BY <1>0, <1>6, StartEffect
  <2>3. \A g \in Handlers : handlersOf(g)' = IF sameTopic(g, h) THEN l ELSE handlersOf(g)
    BY <1>0, <2>2, SetHandlersOf
  <2>4. \A g \in Handlers : inSubscribe(g)' => inSubscribe(g) /\ ~sameTopic(g, h)
    BY <1>0, <2>1 DEF SubInv, inSubscribe, ClientTypes, sameTopic
  <2>5. \A g \in Handlers : sub[g] = "ok" => sub'[g] = "ok"
    BY <1>0, <2>1 DEF ClientTypes
  <2>6. ASSUME NEW r \in Streams, receiving[r], sameTopic(owner[r], h) PROVE FALSE
    BY <1>0, <2>1, <2>6 DEF SubInv, inSubscribe, sameTopic, handlersOf
  <2>7. sub'[h] = "ok"
    BY <1>0, <2>1 DEF ClientTypes
  <2>8. \A s1, s2 \in Streams :
          receiving'[s1] /\ receiving'[s2] /\ sameTopic(owner'[s1], owner'[s2]) => s1 = s2
    BY <1>0, <2>1, <2>6 DEF SubInv, sameTopic
  <2>9. \A r \in Streams : receiving'[r] =>
          owner'[r] \in Handlers /\ sub'[owner'[r]] = "ok" /\ handlersOf(owner[r])' # << >>
    BY <1>0, <2>1, <2>2, <2>3, <2>5, <2>7 DEF SubInv, sameTopic
  <2>10. \A g \in Handlers : inSubscribe(g)' => handlersOf(g)' = << >>
    BY <1>0, <2>3, <2>4 DEF SubInv
  <2> QED
    BY <1>0, <2>1, <2>4, <2>8, <2>9, <2>10 DEF SubInv
<1> QED
  BY <1>0, <1>1, <1>2, <1>3, <1>4, <1>5, <1>6, SubscribeFrame DEF SubscribeNext

\* A stream belongs to the Subscribe that opened it, which sends one request.
LEMMA OwnerStep == ChanInv /\ [ChanNext]_chanVars => OwnerInv'
<1> SUFFICES ASSUME ChanInv, [ChanNext]_chanVars PROVE OwnerInv'
  OBVIOUS
<1>0. /\ TypeOK /\ ClientTypes /\ OwnerInv /\ NoHandler \notin Handlers
      /\ owner \in [Streams -> Handlers \cup {NoHandler}] /\ reqs \in [Streams -> Seq(Address)]
      /\ sub \in [Handlers -> {"idle", "open", "send", "start", "ok", "err"}]
  BY ChannelAssumption DEF ChanInv, IInv, ChannelAssumption, ClientTypes, TypeOK
<1>1. CASE /\ UNCHANGED <<sub, owner, reqs>>
           /\ \A s \in Streams : stream'[s] = "new" <=> stream[s] = "new"
  BY <1>0, <1>1 DEF OwnerInv
<1>2. ASSUME NEW h \in Handlers, NEW p \in {"open", "ok", "err", "start"}, sub' = [sub EXCEPT ![h] = p],
             UNCHANGED <<owner, stream, reqs>>, p = "open" => sub[h] = "idle"
      PROVE  OwnerInv'
  <2>1. \A s \in Streams : owner[s] \in Handlers =>
          /\ sub'[owner[s]] \notin {"idle", "open"}
          /\ sub'[owner[s]] = "send" => sub[owner[s]] = "send"
    BY <1>0, <1>2 DEF OwnerInv
  <2> QED
    BY <1>0, <1>2, <2>1 DEF OwnerInv
<1>3. ASSUME NEW h \in Handlers, SubscribeLock(h) PROVE OwnerInv'
  <2>1. /\ sub[h] = "idle" /\ UNCHANGED <<owner, stream, reqs>>
        /\ sub' = [sub EXCEPT ![h] = "ok"] \/ sub' = [sub EXCEPT ![h] = "open"]
    BY <1>3 DEF SubscribeLock, vars, transport
  <2> QED
    BY <1>2, <2>1
<1>4. ASSUME NEW h \in Handlers, SubscribeFail(h) PROVE OwnerInv'
  BY <1>2, <1>4 DEF SubscribeFail, vars, transport
<1>5. ASSUME NEW h \in Handlers, NEW s \in Streams, SubscribeOpen(h, s) PROVE OwnerInv'
  <2>1. /\ sub[h] = "open" /\ sub' = [sub EXCEPT ![h] = "send"] /\ UNCHANGED reqs
        /\ owner' = [owner EXCEPT ![s] = h] /\ stream[s] = "new" /\ stream' = [stream EXCEPT ![s] = "open"]
    BY <1>5 DEF SubscribeOpen, OpenStream
  <2>2. owner[s] = NoHandler /\ reqs[s] = << >> /\ \A r \in Streams : owner[r] # h
    BY <1>0, <2>1 DEF OwnerInv
  <2>3. \A r \in Streams : owner'[r] = IF r = s THEN h ELSE owner[r]
    BY <1>0, <2>1
  <2>4. \A r \in Streams : stream'[r] = IF r = s THEN "open" ELSE stream[r]
    BY <1>0, <2>1 DEF TypeOK
  <2>5. \A g \in Handlers : sub'[g] = IF g = h THEN "send" ELSE sub[g]
    BY <1>0, <2>1
  <2>6. \A r \in Streams : owner'[r] = NoHandler <=> stream'[r] = "new"
    BY <1>0, <2>3, <2>4 DEF OwnerInv
  <2>7. \A r \in Streams : owner'[r] \in Handlers => sub'[owner'[r]] \notin {"idle", "open"}
    BY <1>0, <2>2, <2>3, <2>5 DEF OwnerInv
  <2>8. \A s1, s2 \in Streams : owner'[s1] \in Handlers /\ owner'[s1] = owner'[s2] => s1 = s2
    BY <1>0, <2>2, <2>3 DEF OwnerInv
  <2>9. \A r \in Streams : /\ Len(reqs'[r]) <= 1
                           /\ owner'[r] = NoHandler => reqs'[r] = << >>
                           /\ owner'[r] \in Handlers /\ sub'[owner'[r]] = "send" => reqs'[r] = << >>
    BY <1>0, <2>1, <2>2, <2>3, <2>5 DEF OwnerInv
  <2> QED
    BY <2>6, <2>7, <2>8, <2>9 DEF OwnerInv
<1>6. ASSUME NEW h \in Handlers, NEW s \in Streams, SubscribeSend(h, s) PROVE OwnerInv'
  <2> DEFINE a == [namespace |-> Namespace[ChannelOf[h]], topic |-> TopicOf[h]]
  <2>1. /\ sub[h] = "send" /\ owner[s] = h /\ UNCHANGED <<owner, stream>> /\ sub' = [sub EXCEPT ![h] = "start"]
        /\ UNCHANGED reqs \/ reqs' = [reqs EXCEPT ![s] = Append(reqs[s], a)]
    BY <1>6 DEF SubscribeSend, Request, vars, transport
  <2>2. a \in Address
    BY ChannelAssumption DEF ChannelAssumption, Address
  <2> HIDE DEF a
  <2>3. reqs[s] = << >>
    BY <1>0, <2>1 DEF OwnerInv
  <2>4. \A r \in Streams : r # s => reqs'[r] = reqs[r]
    BY <1>0, <2>1
  <2>5. Len(reqs'[s]) <= 1
    <3>1. reqs'[s] = << >> \/ reqs'[s] = Append(<< >>, a)
      BY <1>0, <2>1, <2>3
    <3>2. Append(<< >>, a) = <<a>> /\ Len(<<a>>) = 1 /\ Len(<< >>) = 0
      OBVIOUS
    <3>3. Len(reqs'[s]) = 0 \/ Len(reqs'[s]) = 1
      BY <3>1, <3>2, Zenon
    <3>4. 0 <= 1 /\ 1 <= 1
      OBVIOUS
    <3> QED
      BY <3>3, <3>4, Zenon
  <2>6. \A r \in Streams : owner[r] \in Handlers =>
          /\ sub'[owner[r]] \notin {"idle", "open"}
          /\ sub'[owner[r]] = "send" => r # s /\ sub[owner[r]] = "send"
    BY <1>0, <2>1 DEF OwnerInv
  <2> QED
    BY <1>0, <2>1, <2>4, <2>5, <2>6 DEF OwnerInv
<1>7. ASSUME NEW h \in Handlers, NEW s \in Streams, SubscribeStart(h, s) PROVE OwnerInv'
  BY <1>2, <1>7 DEF SubscribeStart, vars, transport
<1> QED
  BY <1>0, <1>1, <1>3, <1>4, <1>5, <1>6, <1>7, SubscribeFrame DEF SubscribeNext

\* The list of a topic holds the handlers whose Subscribe has returned nil.
LEMMA ListedStep == ChanInv /\ [ChanNext]_chanVars => ListedInv'
<1> SUFFICES ASSUME ChanInv, [ChanNext]_chanVars PROVE ListedInv'
  OBVIOUS
<1>0. /\ TypeOK /\ ClientTypes /\ Flags /\ SubInv /\ ListedInv
      /\ handlers \in [Channels -> [Topics -> Seq(Handlers)]]
      /\ sub \in [Handlers -> {"idle", "open", "send", "start", "ok", "err"}]
  BY DEF ChanInv, IInv, ClientTypes
<1>1. CASE UNCHANGED <<handlers, sub>>
  BY <1>0, <1>1 DEF ListedInv, handlersOf
<1>2. ASSUME NEW h \in Handlers, NEW p \in {"open", "send", "start", "err"}, sub[h] # "ok",
             sub' = [sub EXCEPT ![h] = p], UNCHANGED handlers
      PROVE  ListedInv'
  <2>1. \A g \in Handlers : sub'[g] = "ok" <=> sub[g] = "ok"
    BY <1>0, <1>2
  <2>2. \A c \in Channels : \A t \in Topics : \A i \in DOMAIN handlers[c][t] : handlers[c][t][i] \in Handlers
    BY <1>0
  <2> QED
    BY <1>0, <1>2, <2>1, <2>2 DEF ListedInv, handlersOf
<1>3. ASSUME NEW h \in Handlers, sub[h] # "ok", sub' = [sub EXCEPT ![h] = "ok"],
             setHandlers(h, Append(handlersOf(h), h))
      PROVE  ListedInv'
  <2> DEFINE d == ChannelOf[h]  u == TopicOf[h]  l == Append(handlers[d][u], h)
  <2>1. /\ d \in Channels /\ u \in Topics /\ l \in Seq(Handlers)
        /\ \A c \in Channels : \A t \in Topics :
             handlers'[c][t] = IF c = d /\ t = u THEN l ELSE handlers[c][t]
    <3>1. d \in Channels /\ u \in Topics /\ l \in Seq(Handlers)
      BY <1>0, HandlerTypes DEF handlersOf
    <3>2. setHandlers(h, l)
      BY <1>3 DEF handlersOf
    <3> HIDE DEF l
    <3> QED
      BY <1>0, <3>1, <3>2, SetEffect
  <2>2. \A g \in Handlers : sub'[g] = IF g = h THEN "ok" ELSE sub[g]
    BY <1>0, <1>3
  <2>3. \A i \in DOMAIN handlers[d][u] : handlers[d][u][i] \in Handlers /\ handlers[d][u][i] # h
    BY <1>0, <1>3, <2>1 DEF ListedInv
  <2>4. /\ DOMAIN l = DOMAIN handlers[d][u] \cup {Len(handlers[d][u]) + 1}
        /\ \A i \in DOMAIN handlers[d][u] : l[i] = handlers[d][u][i]
        /\ l[Len(handlers[d][u]) + 1] = h /\ Len(handlers[d][u]) + 1 \notin DOMAIN handlers[d][u]
    BY <1>0, <2>1
  <2> HIDE DEF l
  <2>5. ASSUME NEW c \in Channels, NEW t \in Topics, NEW i \in DOMAIN handlers'[c][t]
        PROVE  LET g == handlers'[c][t][i] IN
               /\ ChannelOf[g] = c /\ TopicOf[g] = t /\ sub'[g] = "ok"
               /\ \A j \in DOMAIN handlers'[c][t] : handlers'[c][t][j] = g => i = j
    <3>1. CASE c = d /\ t = u
      <4>1. handlers'[c][t] = l
        BY <2>1, <3>1
      <4>2. CASE i \in DOMAIN handlers[d][u]
        <5>1. l[i] = handlers[d][u][i] /\ l[i] # h /\ l[i] \in Handlers
          BY <2>3, <2>4, <4>2
        <5>2. ChannelOf[l[i]] = d /\ TopicOf[l[i]] = u /\ sub'[l[i]] = "ok"
          BY <1>0, <2>1, <2>2, <4>2, <5>1 DEF ListedInv
        <5>3. \A j \in DOMAIN l : l[j] = l[i] => i = j
          BY <1>0, <2>1, <2>4, <4>2, <5>1 DEF ListedInv
        <5> QED
          BY <3>1, <4>1, <5>2, <5>3
      <4>3. CASE i = Len(handlers[d][u]) + 1
        BY <2>2, <2>3, <2>4, <3>1, <4>1, <4>3
      <4> QED
        BY <2>4, <4>1, <4>2, <4>3
    <3>2. CASE ~(c = d /\ t = u)
      <4>1. handlers'[c][t] = handlers[c][t] /\ i \in DOMAIN handlers[c][t] /\ handlers[c][t][i] \in Handlers
        BY <1>0, <2>1, <3>2
      <4> QED
        BY <1>0, <2>2, <4>1 DEF ListedInv
    <3> QED
      BY <3>1, <3>2
  <2>6. ASSUME NEW g \in Handlers, sub'[g] = "ok"
        PROVE  \E i \in DOMAIN handlers'[ChannelOf[g]][TopicOf[g]] : handlers'[ChannelOf[g]][TopicOf[g]][i] = g
    <3>1. CASE g = h
      BY <2>1, <2>4, <3>1
    <3>2. CASE g # h
      <4>1. ChannelOf[g] \in Channels /\ TopicOf[g] \in Topics
        BY <1>0, HandlerTypes
      <4>2. PICK i \in DOMAIN handlers[ChannelOf[g]][TopicOf[g]] : handlers[ChannelOf[g]][TopicOf[g]][i] = g
        BY <1>0, <2>2, <2>6, <3>2 DEF ListedInv, handlersOf
      <4>3. CASE ChannelOf[g] = d /\ TopicOf[g] = u
        <5>1. handlers'[ChannelOf[g]][TopicOf[g]] = l /\ i \in DOMAIN l /\ l[i] = g
          BY <2>1, <2>4, <4>1, <4>2, <4>3
        <5> QED
          BY <5>1
      <4>4. CASE ~(ChannelOf[g] = d /\ TopicOf[g] = u)
        <5>1. handlers'[ChannelOf[g]][TopicOf[g]] = handlers[ChannelOf[g]][TopicOf[g]]
          BY <2>1, <4>1, <4>4
        <5> QED
          BY <4>2, <5>1
      <4> QED
        BY <4>3, <4>4
    <3> QED
      BY <3>1, <3>2
  <2> QED
    BY <2>5, <2>6 DEF ListedInv, handlersOf
<1>4. ASSUME NEW h \in Handlers, SubscribeLock(h) PROVE ListedInv'
  BY <1>0, <1>2, <1>3, <1>4, LockEffect
<1>5. ASSUME NEW h \in Handlers, NEW s \in Streams, SubscribeStart(h, s) PROVE ListedInv'
  <2>1. sub[h] = "start" /\ setHandlers(h, <<h>>) /\ sub' = [sub EXCEPT ![h] = "ok"]
    BY <1>0, <1>5, StartEffect
  <2>2. handlersOf(h) = << >>
    BY <1>0, <2>1 DEF SubInv, inSubscribe
  <2>3. Append(handlersOf(h), h) = <<h>>
    BY <2>2
  <2> QED
    BY <1>3, <2>1, <2>3
<1>6. ASSUME NEW h \in Handlers, SubscribeNext(h) PROVE ListedInv'
  <2>1. CASE SubscribeFail(h)
    BY <1>2, <2>1 DEF SubscribeFail
  <2>2. ASSUME NEW s \in Streams, SubscribeOpen(h, s) PROVE ListedInv'
    BY <1>2, <2>2 DEF SubscribeOpen
  <2>3. ASSUME NEW s \in Streams, SubscribeSend(h, s) PROVE ListedInv'
    BY <1>2, <2>3 DEF SubscribeSend
  <2> QED
    BY <1>4, <1>5, <1>6, <2>1, <2>2, <2>3 DEF SubscribeNext
<1> QED
  BY <1>0, <1>1, <1>6, SubscribeFrame

-----------------------------------------------------------------------------
(* A stream gets a message once.                                            *)

\* One request per stream, so one entry in the map of subscribers, so one Send of each
\* message.
LEMMA OnceStep == ChanInv /\ [ChanNext]_chanVars => OnceInv'
<1> SUFFICES ASSUME ChanInv, [ChanNext]_chanVars PROVE OnceInv'
  OBVIOUS
<1>0. /\ TypeOK /\ MutexInv /\ TicketInv /\ OrderInv /\ ListInv /\ AddressInv /\ OnceInv
      /\ \A s \in Streams : Len(reqs[s]) <= 1
      /\ [Next]_vars
  BY ServerStep DEF ChanInv, IInv, OwnerInv
<1>1. /\ subscribers \in [Keys -> SUBSET Subscriber] /\ todo \in [Msgs -> SUBSET Subscriber]
      /\ sent \in [Streams -> Seq(Msgs)] /\ taken \in [Streams -> Nat] /\ reqs \in [Streams -> Seq(Address)]
      /\ clock \in Nat /\ ticket \in [Msgs -> Nat]
  BY <1>0 DEF TypeOK
<1>2. \A k1, k2 \in Keys : \A e1 \in subscribers'[k1] : \A e2 \in subscribers'[k2] :
        e1.stream = e2.stream => e1 = e2
  <2>1. CASE \A k \in Keys : subscribers'[k] \subseteq subscribers[k]
    BY <1>0, <2>1 DEF OnceInv
  <2>2. ASSUME NEW s \in Streams, SubscribeAdd(s)
        PROVE  \A k1, k2 \in Keys : \A e1 \in subscribers'[k1] : \A e2 \in subscribers'[k2] :
                 e1.stream = e2.stream => e1 = e2
    <3> DEFINE e == [n |-> clock + 1, stream |-> s]
    <3>1. /\ subscribers' = [subscribers EXCEPT ![key(reqs[s][taken[s] + 1])] = @ \cup {e}]
          /\ handler[s] = "lock"
      BY <2>2 DEF SubscribeAdd
    <3>2. taken[s] = 0
      <4>1. taken[s] < Len(reqs[s]) /\ Len(reqs[s]) <= 1 /\ taken[s] \in Nat /\ Len(reqs[s]) \in Nat
        BY <1>0, <1>1, <3>1 DEF AddressInv
      <4> QED
        BY <4>1
    <3>3. \A k \in Keys : \A f \in subscribers[k] : f.stream # s
      BY <1>0, <1>1, <3>2 DEF AddressInv, Asked
    <3>4. \A k \in Keys : \A f \in subscribers'[k] : f = e \/ f \in subscribers[k]
      BY <1>1, <3>1
    <3>5. e.stream = s
      OBVIOUS
    <3> HIDE DEF e
    <3> QED
      BY <1>0, <3>3, <3>4, <3>5 DEF OnceInv
  <2>3. \/ \A k \in Keys : subscribers'[k] \subseteq subscribers[k]
        \/ \E s \in Streams : SubscribeAdd(s)
    <3>1. CASE UNCHANGED subscribers
      BY <3>1
    <3>2. CASE subscribers' = newPubSubServer
      BY <3>2 DEF newPubSubServer
    <3>3. ASSUME NEW s \in Streams, SubscribeEnd(s) PROVE \A k \in Keys : subscribers'[k] \subseteq subscribers[k]
      BY <3>3 DEF SubscribeEnd
    <3> QED
      BY <1>0, <3>1, <3>2, <3>3 DEF Next, vars, srv, StartServe, Stop, Crash, Disconnect, StreamNext, OpenStream,
         ClientRecv, Request, SubscribeRecv, CallNext, PublishCall, PublishLock, PublishSend, PublishReturn
  <2> QED
    BY <2>1, <2>2, <2>3
<1>3. /\ \A m \in Msgs : \A e \in todo'[m] : m \notin Received(e.stream)'
      /\ \A s \in Streams : \A i, j \in 1..Len(sent'[s]) : sent'[s][i] = sent'[s][j] => i = j
  <2>1. CASE sent' = sent /\ \A m \in Msgs : todo'[m] \subseteq todo[m]
    BY <1>0, <2>1 DEF OnceInv, Received
  <2>2. ASSUME NEW m \in Msgs, PublishLock(m)
        PROVE  /\ \A n \in Msgs : \A e \in todo'[n] : n \notin Received(e.stream)'
               /\ \A s \in Streams : \A i, j \in 1..Len(sent'[s]) : sent'[s][i] = sent'[s][j] => i = j
    <3>1. sent' = sent /\ ticket[m] = 0 /\ \A n \in Msgs : n # m => todo'[n] = todo[n]
      BY <1>0, <1>1, <2>2 DEF PublishLock, transport, TicketInv
    <3>2. \A s \in Streams : m \notin Received(s)
      <4> SUFFICES ASSUME NEW s \in Streams, m \in Received(s) PROVE FALSE
        OBVIOUS
      <4>1. PICK i \in DOMAIN sent[s] : sent[s][i] = m
        BY DEF Received
      <4>2. i \in 1..Len(sent[s])
        BY <1>1
      <4>3. ticket[m] > 0
        BY <1>0, <4>1, <4>2 DEF OrderInv
      <4> QED
        BY <3>1, <4>3
    <3>3. \A e \in todo'[m] : e.stream \in Streams
      BY <1>1, <2>2, KeysLemma DEF PublishLock, Subscriber
    <3> QED
      BY <1>0, <3>1, <3>2, <3>3 DEF OnceInv, Received
  <2>3. ASSUME NEW m \in Msgs, PublishSend(m)
        PROVE  /\ \A n \in Msgs : \A e \in todo'[n] : n \notin Received(e.stream)'
               /\ \A s \in Streams : \A i, j \in 1..Len(sent'[s]) : sent'[s][i] = sent'[s][j] => i = j
    <3>1. PICK e \in todo[m] : PublishSend(m)!(e)
      BY <2>3 DEF PublishSend
    <3>2. /\ e.stream \in Streams /\ m \notin Received(e.stream)
          /\ todo' = [todo EXCEPT ![m] = todo[m] \ {e}]
      BY <1>0, <1>1, <3>1 DEF OnceInv, Subscriber
    <3>3. \A n \in Msgs : todo'[n] \subseteq todo[n]
      BY <1>1, <3>2
    <3>4. CASE sent' = sent
      BY <2>1, <3>3, <3>4
    <3>5. CASE sent' = [sent EXCEPT ![e.stream] = Append(@, m)]
      <4>1. /\ \A r \in Streams : r # e.stream => sent'[r] = sent[r]
            /\ sent'[e.stream] = Append(sent[e.stream], m) /\ sent[e.stream] \in Seq(Msgs)
        BY <1>1, <3>2, <3>5
      <4>2. \A n \in Msgs : n # m => todo[n] = {}
        BY <1>0, <3>1 DEF MutexInv
      <4>3. \A f \in todo'[m] : f.stream # e.stream
        BY <1>0, <1>1, <3>1, <3>2, KeysLemma DEF ListInv, OnceInv
      <4>4. \A f \in todo'[m] : f.stream \in Streams /\ m \notin Received(f.stream)'
        BY <1>0, <1>1, <3>3, <4>1, <4>3 DEF OnceInv, Received, Subscriber
      <4>5. \A i, j \in 1..Len(sent'[e.stream]) : sent'[e.stream][i] = sent'[e.stream][j] => i = j
        <5>1. \A i \in 1..Len(sent[e.stream]) : sent[e.stream][i] # m
          BY <3>2, <4>1 DEF Received
        <5> QED
          BY <1>0, <3>2, <4>1, <5>1 DEF OnceInv
      <4>6. \A n \in Msgs : \A f \in todo'[n] : n = m
        BY <3>3, <4>2
      <4>7. \A s \in Streams : \A i, j \in 1..Len(sent'[s]) : sent'[s][i] = sent'[s][j] => i = j
        BY <1>0, <4>1, <4>5 DEF OnceInv
      <4> QED
        BY <4>4, <4>6, <4>7
    <3> QED
      BY <3>1, <3>4, <3>5
  <2>4. \/ sent' = sent /\ \A m \in Msgs : todo'[m] \subseteq todo[m]
        \/ \E m \in Msgs : PublishLock(m) \/ PublishSend(m)
    <3>1. CASE Crash
      BY <3>1 DEF Crash
    <3>2. CASE UNCHANGED <<sent, todo>>
      BY <3>2
    <3> QED
      BY <1>0, <3>1, <3>2 DEF Next, vars, srv, transport, StartServe, Stop, Disconnect, StreamNext, OpenStream,
         ClientRecv, Request, SubscribeRecv, SubscribeAdd, SubscribeEnd, CallNext, PublishCall, PublishReturn
  <2> QED
    BY <2>1, <2>2, <2>3, <2>4
<1> QED
  BY <1>2, <1>3 DEF OnceInv

-----------------------------------------------------------------------------
(* Dispatches.                                                              *)

\* A receiver goroutine never ends, and its stream stays that of its Subscribe.
LEMMA ReceivingStable ==
  ASSUME ChanInv, [ChanNext]_chanVars
  PROVE  \A s \in Streams : receiving[s] => receiving'[s] /\ owner'[s] = owner[s]
<1>0. TypeOK /\ ClientTypes /\ Flags /\ SubInv /\ OwnerInv /\ NoHandler \notin Handlers
  BY ChannelAssumption DEF ChanInv, IInv, ChannelAssumption
<1>1. CASE UNCHANGED <<owner, receiving>>
  BY <1>1
<1>2. ASSUME NEW h \in Handlers, NEW s \in Streams, SubscribeOpen(h, s)
      PROVE  \A r \in Streams : receiving[r] => receiving'[r] /\ owner'[r] = owner[r]
  <2>1. stream[s] = "new" /\ receiving' = receiving /\ owner' = [owner EXCEPT ![s] = h]
    BY <1>2 DEF SubscribeOpen, OpenStream
  <2>2. ~receiving[s]
    BY <1>0, <2>1 DEF OwnerInv, SubInv
  <2>3. \A r \in Streams : r # s => owner'[r] = owner[r]
    BY <1>0, <2>1 DEF ClientTypes
  <2> QED
    BY <2>1, <2>2, <2>3
<1>3. ASSUME NEW h \in Handlers, NEW s \in Streams, SubscribeStart(h, s)
      PROVE  \A r \in Streams : receiving[r] => receiving'[r] /\ owner'[r] = owner[r]
  BY <1>0, <1>3, StartEffect
<1>4. ASSUME NEW h \in Handlers, SubscribeNext(h)
      PROVE  \A r \in Streams : receiving[r] => receiving'[r] /\ owner'[r] = owner[r]
  BY <1>1, <1>2, <1>3, <1>4 DEF SubscribeNext, SubscribeLock, SubscribeFail, SubscribeSend
<1> QED
  BY <1>0, <1>1, <1>4, SubscribeFrame

\* Only one stream serves a handler.
LEMMA ServedByOne ==
  ASSUME SubInv, NEW h \in Handlers, NEW s1 \in Streams, NEW s2 \in Streams, serves(s1, h), serves(s2, h)
  PROVE  s1 = s2
BY DEF SubInv, serves, sameTopic

\* One more call of a handler counts for its message only.
LEMMA CallsAppend ==
  ASSUME NEW q \in Seq(Msgs), NEW n \in Msgs, NEW m \in Msgs
  PROVE  /\ Cardinality({i \in DOMAIN q : q[i] = m}) \in Nat
         /\ Cardinality({i \in DOMAIN Append(q, n) : Append(q, n)[i] = m})
              = Cardinality({i \in DOMAIN q : q[i] = m}) + (IF m = n THEN 1 ELSE 0)
<1> DEFINE S == {i \in DOMAIN q : q[i] = m}
           T == {i \in DOMAIN Append(q, n) : Append(q, n)[i] = m}
           k == Len(q) + 1
<1>1. /\ DOMAIN q = 1..Len(q) /\ DOMAIN Append(q, n) = 1..k /\ Len(q) \in Nat
      /\ Append(q, n)[k] = n /\ \A i \in 1..Len(q) : Append(q, n)[i] = q[i]
  OBVIOUS
<1>2. IsFiniteSet(S)
  <2>1. IsFiniteSet(1..Len(q))
    <3>1. 1 \in Int /\ Len(q) \in Int
      BY <1>1
    <3> QED
      BY <3>1, FS_Interval
  <2>2. S \subseteq 1..Len(q)
    BY <1>1
  <2> QED
    BY <2>1, <2>2, FS_Subset
<1>3. k \notin S
  BY <1>1
<1>4. T = IF m = n THEN S \cup {k} ELSE S
  BY <1>1
<1>5. Cardinality(S) \in Nat
  BY <1>2, FS_CardinalityType
<1>6. Cardinality(S \cup {k}) = Cardinality(S) + 1
  BY <1>2, <1>3, FS_AddElement
<1> HIDE DEF S, T, k
<1>7. Cardinality(T) = Cardinality(S) + (IF m = n THEN 1 ELSE 0)
  BY <1>4, <1>5, <1>6
<1> QED
  BY <1>5, <1>7 DEF S, T

\* The calls before and after a call of handler g with message n.
LEMMA CallsEffect ==
  ASSUME ClientTypes, NEW g \in Handlers, NEW n \in Msgs, ran' = [ran EXCEPT ![g] = Append(ran[g], n)]
  PROVE  \A h \in Handlers : \A m \in Msgs :
           /\ calls(h, m) \in Nat
           /\ calls(h, m)' = calls(h, m) + (IF h = g /\ m = n THEN 1 ELSE 0)
<1>1. ran \in [Handlers -> Seq(Msgs)]
  BY DEF ClientTypes
<1> SUFFICES ASSUME NEW h \in Handlers, NEW m \in Msgs
             PROVE  /\ calls(h, m) \in Nat
                    /\ calls(h, m)' = calls(h, m) + (IF h = g /\ m = n THEN 1 ELSE 0)
  OBVIOUS
<1>2. calls(h, m) \in Nat
  <2>1. ran[h] \in Seq(Msgs)
    BY <1>1
  <2> QED
    BY <2>1, CallsAppend DEF calls
<1>3. CASE h = g
  <2>1. ran'[h] = Append(ran[h], n) /\ ran[h] \in Seq(Msgs)
    BY <1>1, <1>3
  <2>2. Cardinality({i \in DOMAIN Append(ran[h], n) : Append(ran[h], n)[i] = m})
          = Cardinality({i \in DOMAIN ran[h] : ran[h][i] = m}) + (IF m = n THEN 1 ELSE 0)
    BY <2>1, CallsAppend
  <2>3. calls(h, m)' = calls(h, m) + (IF m = n THEN 1 ELSE 0)
    BY <2>1, <2>2, Zenon DEF calls
  <2> QED
    BY <1>2, <1>3, <2>3
<1>4. CASE h # g
  <2>1. ran'[h] = ran[h]
    BY <1>1, <1>4
  <2>2. calls(h, m)' = calls(h, m)
    BY <2>1, Zenon DEF calls
  <2> QED
    BY <1>2, <1>4, <2>2
<1> QED
  BY <1>3, <1>4

\* What is dispatched on stream s: its handlers are of its topic, each has no verdict on
\* the message, and no other stream has one of them.
LEMMA DispatchFacts ==
  ASSUME ChanInv, NEW s \in Streams, queue[s] # << >>
  PROVE  /\ receiving[s] /\ got[s] \in 1..Len(sent[s]) /\ current(s) \in Msgs
         /\ \A i \in 1..Len(queue[s]) :
              /\ queue[s][i] \in Handlers /\ serves(s, queue[s][i])
              /\ verdict[queue[s][i]][current(s)] = "none"
         /\ \A r \in Streams : \A i \in 1..Len(queue[s]) : \A j \in 1..Len(queue[r]) :
              queue[r][j] = queue[s][i] => r = s
<1>0. TypeOK /\ ClientTypes /\ SubInv /\ OnceInv /\ QueueInv /\ VerdictInv
  BY DEF ChanInv, IInv
<1>1. receiving[s] /\ got[s] \in 1..Len(sent[s]) /\ current(s) \in Msgs /\ queue[s] \in Seq(Handlers)
  BY <1>0, Dispatching
<1>2. \A r \in Streams : \A j \in 1..Len(queue[r]) : queue[r][j] \in Handlers /\ serves(r, queue[r][j])
  <2> SUFFICES ASSUME NEW r \in Streams, NEW j \in 1..Len(queue[r])
               PROVE  queue[r][j] \in Handlers /\ serves(r, queue[r][j])
    OBVIOUS
  <2>1. queue[r] # << >> /\ queue[r] \in Seq(Handlers)
    BY <1>0 DEF ClientTypes
  <2>2. receiving[r] /\ queue[r][j] \in Handlers
    BY <1>0, <2>1, Dispatching
  <2> QED
    BY <1>0, <2>2 DEF QueueInv, serves
<1>3. ASSUME NEW i \in 1..Len(queue[s]), verdict[queue[s][i]][current(s)] # "none" PROVE FALSE
  <2> DEFINE h == queue[s][i]
  <2>1. h \in Handlers /\ serves(s, h)
    BY <1>2
  <2>2. PICK r \in Streams : serves(r, h) /\ \E k \in 1..got[r] :
              /\ sent[r][k] = current(s)
              /\ k = got[r] => \A j \in 1..Len(queue[r]) : queue[r][j] # h
    BY <1>0, <1>1, <1>3, <2>1 DEF VerdictInv
  <2>3. r = s
    BY <1>0, <2>1, <2>2, ServedByOne
  <2>4. PICK k \in 1..got[s] : /\ sent[s][k] = current(s)
                               /\ k = got[s] => \A j \in 1..Len(queue[s]) : queue[s][j] # h
    BY <2>2, <2>3
  <2>5. k \in 1..Len(sent[s])
    BY <1>1, <2>4
  <2>6. \A i1, j1 \in 1..Len(sent[s]) : sent[s][i1] = sent[s][j1] => i1 = j1
    BY <1>0 DEF OnceInv
  <2>7. sent[s][k] = sent[s][got[s]]
    BY <2>4 DEF current
  <2>8. k = got[s]
    BY <1>1, <2>5, <2>6, <2>7
  <2>9. queue[s][i] # h
    BY <2>4, <2>8
  <2> QED
    BY <2>9
<1>4. ASSUME NEW r \in Streams, NEW i \in 1..Len(queue[s]), NEW j \in 1..Len(queue[r]),
             queue[r][j] = queue[s][i]
      PROVE  r = s
  BY <1>0, <1>2, <1>4, ServedByOne
<1> QED
  BY <1>1, <1>2, <1>3, <1>4

\* What every step keeps of the messages a stream has carried and a receiver has.
LEMMA Carried ==
  ASSUME ChanInv, [ChanNext]_chanVars
  PROVE  /\ \A s \in Streams : /\ Len(sent[s]) \in Nat /\ Len(sent'[s]) \in Nat /\ got[s] \in Nat
                               /\ got[s] <= Len(sent[s]) /\ Len(sent[s]) <= Len(sent'[s])
                               /\ \A i \in 1..got[s] : i \in 1..Len(sent[s]) /\ sent'[s][i] = sent[s][i]
         /\ \A m \in Msgs : ticket[m] > 0 => ticket'[m] = ticket[m]
         /\ \A s \in Streams : \A h \in Handlers : serves(s, h) => serves(s, h)'
<1>0. TypeOK /\ TypeOK' /\ QueueInv /\ IInv /\ [Next]_vars
  BY ServerStep, TypeStep DEF ChanInv, IInv
<1>1. \A s \in Streams : /\ Len(sent[s]) \in Nat /\ Len(sent'[s]) \in Nat /\ got[s] \in Nat
                         /\ got[s] <= Len(sent[s])
  BY <1>0 DEF TypeOK, QueueInv
<1>2. /\ \A s \in Streams : /\ Len(sent[s]) <= Len(sent'[s])
                            /\ \A i \in 1..Len(sent[s]) : sent'[s][i] = sent[s][i]
      /\ \A m \in Msgs : ticket[m] > 0 => ticket'[m] = ticket[m]
  BY <1>0, Grows
<1>3. \A s \in Streams : \A h \in Handlers : serves(s, h) => serves(s, h)'
  BY ReceivingStable DEF serves, sameTopic
<1>4. \A s \in Streams : \A i \in 1..got[s] : i \in 1..Len(sent[s])
  BY <1>1
<1> QED
  BY <1>1, <1>2, <1>3, <1>4

\* A message a handler was called with has a ticket and came over the stream that serves
\* the handler.
LEMMA RanFacts ==
  ASSUME ChanInv, NEW h \in Handlers, NEW i \in 1..Len(ran[h])
  PROVE  /\ ran[h][i] \in Msgs /\ ticket[ran[h][i]] > 0
         /\ \A s \in Streams : serves(s, h) => \E k \in 1..got[s] : sent[s][k] = ran[h][i]
<1>0. TypeOK /\ ClientTypes /\ OrderInv /\ QueueInv /\ SubInv /\ RanInv
  BY DEF ChanInv, IInv
<1>1. ran[h][i] \in Msgs
  BY <1>0 DEF ClientTypes
<1>2. PICK s \in Streams : serves(s, h) /\ \E k \in 1..got[s] : sent[s][k] = ran[h][i]
  BY <1>0 DEF RanInv
<1>3. PICK k \in 1..got[s] : sent[s][k] = ran[h][i]
  BY <1>2
<1>4. k \in 1..Len(sent[s])
  <2>1. got[s] \in Nat /\ Len(sent[s]) \in Nat /\ got[s] <= Len(sent[s])
    BY <1>0 DEF TypeOK, QueueInv
  <2> QED
    BY <2>1
<1>5. ticket[ran[h][i]] > 0
  BY <1>0, <1>3, <1>4 DEF OrderInv
<1>6. \A r \in Streams : serves(r, h) => r = s
  BY <1>0, <1>2, ServedByOne
<1> QED
  BY <1>1, <1>3, <1>5, <1>6

\* Steps that are not a receiver's disturb no dispatch.
LEMMA CalmStep ==
  ASSUME ChanInv, [ChanNext]_chanVars, UNCHANGED <<queue, tries, got, ran, verdict>>
  PROVE  QueueInv' /\ VerdictInv' /\ RanInv' /\ CallsInv'
<1>0. TypeOK /\ ClientTypes /\ QueueInv /\ VerdictInv /\ RanInv /\ CallsInv
  BY DEF ChanInv, IInv
<1>1. /\ \A s \in Streams : /\ Len(sent[s]) \in Nat /\ Len(sent'[s]) \in Nat /\ got[s] \in Nat
                            /\ got[s] <= Len(sent[s]) /\ Len(sent[s]) <= Len(sent'[s])
                            /\ \A i \in 1..got[s] : i \in 1..Len(sent[s]) /\ sent'[s][i] = sent[s][i]
      /\ \A m \in Msgs : ticket[m] > 0 => ticket'[m] = ticket[m]
      /\ \A s \in Streams : \A h \in Handlers : serves(s, h) => serves(s, h)'
  BY Carried
<1>2. \A s \in Streams : receiving[s] => receiving'[s] /\ owner'[s] = owner[s]
  BY ReceivingStable
<1>3. \A s \in Streams : \A i \in 1..Len(queue[s]) : queue[s] # << >> /\ queue[s][i] \in Handlers
  BY <1>0 DEF ClientTypes
<1>4. QueueInv'
  <2> SUFFICES ASSUME NEW s \in Streams
               PROVE  /\ got[s] <= Len(sent'[s])
                      /\ got[s] > 0 => receiving'[s]
                      /\ queue[s] # << >> => got[s] > 0
                      /\ queue[s] = << >> => tries[s] = 0
                      /\ tries[s] <= limit
                      /\ \A i \in 1..Len(queue[s]) :
                           /\ sameTopic(queue[s][i], owner'[s])
                           /\ \A j \in 1..Len(queue[s]) : queue[s][i] = queue[s][j] => i = j
    BY DEF QueueInv
  <2>1. got[s] <= Len(sent'[s])
    BY <1>1
  <2>2. \A i \in 1..Len(queue[s]) : sameTopic(queue[s][i], owner'[s])
    BY <1>0, <1>2, <1>3 DEF QueueInv
  <2> QED
    BY <1>0, <1>2, <2>1, <2>2 DEF QueueInv
<1>5. VerdictInv'
  <2> SUFFICES ASSUME NEW h \in Handlers, NEW m \in Msgs, verdict[h][m] # "none"
               PROVE  \E s \in Streams : serves(s, h)' /\ \E i \in 1..got[s] :
                        /\ sent'[s][i] = m
                        /\ i = got[s] => \A j \in 1..Len(queue[s]) : queue[s][j] # h
    BY DEF VerdictInv
  <2>1. PICK s \in Streams : serves(s, h) /\ \E i \in 1..got[s] :
              /\ sent[s][i] = m
              /\ i = got[s] => \A j \in 1..Len(queue[s]) : queue[s][j] # h
    BY <1>0 DEF VerdictInv
  <2> QED
    BY <1>1, <2>1
<1>6. RanInv'
  <2> SUFFICES ASSUME NEW h \in Handlers, NEW i \in 1..Len(ran[h])
               PROVE  /\ \E s \in Streams : serves(s, h)' /\ \E k \in 1..got[s] : sent'[s][k] = ran[h][i]
                      /\ \A j \in 1..Len(ran[h]) : i <= j => ticket'[ran[h][i]] <= ticket'[ran[h][j]]
    BY DEF RanInv
  <2>1. \E s \in Streams : serves(s, h)' /\ \E k \in 1..got[s] : sent'[s][k] = ran[h][i]
    BY <1>0, <1>1 DEF RanInv
  <2>2. \A j \in 1..Len(ran[h]) : ticket'[ran[h][j]] = ticket[ran[h][j]]
    BY <1>1, RanFacts
  <2> QED
    BY <1>0, <2>1, <2>2 DEF RanInv
<1>7. CallsInv'
  <2>1. \A h \in Handlers : \A m \in Msgs : calls(h, m)' = calls(h, m)
    BY DEF calls
  <2>2. \A s \in Streams : \A i \in 1..Len(queue[s]) :
          current(s)' = current(s) /\ current(s) \in Msgs /\ queue[s][i] \in Handlers
    <3> SUFFICES ASSUME NEW s \in Streams, NEW i \in 1..Len(queue[s])
                 PROVE  current(s)' = current(s) /\ current(s) \in Msgs /\ queue[s][i] \in Handlers
      OBVIOUS
    <3>1. queue[s] # << >> /\ queue[s][i] \in Handlers
      BY <1>3
    <3>2. got[s] \in 1..got[s] /\ current(s) \in Msgs
      BY <1>0, <1>1, <3>1, Dispatching DEF QueueInv
    <3> QED
      BY <1>1, <3>1, <3>2 DEF current
  <2>3. \A s \in Streams : \A i \in 1..Len(queue[s]) :
          calls(queue[s][i], current(s))' = calls(queue[s][i], current(s))
    <3> SUFFICES ASSUME NEW s \in Streams, NEW i \in 1..Len(queue[s])
                 PROVE  calls(queue[s][i], current(s))' = calls(queue[s][i], current(s))
      OBVIOUS
    <3> QED
      BY <2>2 DEF calls
  <2> QED
    BY <1>0, <2>1, <2>3 DEF CallsInv
<1> QED
  BY <1>4, <1>5, <1>6, <1>7

\* Recv begins the dispatch of a message that none of the topic's handlers was called with.
LEMMA RecvStep ==
  ASSUME ChanInv, NEW s \in Streams, Recv(s)
  PROVE  QueueInv' /\ VerdictInv' /\ RanInv' /\ CallsInv'
<1>0. /\ TypeOK /\ ClientTypes /\ SubInv /\ ListedInv /\ OnceInv
      /\ QueueInv /\ VerdictInv /\ RanInv /\ CallsInv
  BY DEF ChanInv, IInv
<1> DEFINE l == handlersOf(owner[s])  n == sent[s][got[s] + 1]
<1>1. /\ receiving[s] /\ queue[s] = << >> /\ got[s] < Len(sent[s]) /\ owner[s] \in Handlers
      /\ UNCHANGED <<sent, ticket, owner, receiving, tries, ran, verdict>>
      /\ got' = [got EXCEPT ![s] = got[s] + 1] /\ queue' = [queue EXCEPT ![s] = l]
  BY <1>0 DEF Recv, ClientRecv, srv, SubInv
<1>2. /\ got \in [Streams -> Nat] /\ sent \in [Streams -> Seq(Msgs)] /\ queue \in [Streams -> Seq(Handlers)]
      /\ ran \in [Handlers -> Seq(Msgs)] /\ tries \in [Streams -> Nat] /\ l \in Seq(Handlers)
  BY <1>0, <1>1, HandlerTypes DEF TypeOK, ClientTypes
<1>3. /\ \A r \in Streams : got'[r] = IF r = s THEN got[s] + 1 ELSE got[r]
      /\ \A r \in Streams : queue'[r] = IF r = s THEN l ELSE queue[r]
  BY <1>1, <1>2
<1>4. \A i \in 1..Len(l) : /\ l[i] \in Handlers /\ sameTopic(l[i], owner[s])
                           /\ \A j \in 1..Len(l) : l[i] = l[j] => i = j
  <2>1. ChannelOf[owner[s]] \in Channels /\ TopicOf[owner[s]] \in Topics
    BY <1>0, <1>1, HandlerTypes
  <2>2. l = handlers[ChannelOf[owner[s]]][TopicOf[owner[s]]] /\ DOMAIN l = 1..Len(l)
    BY <1>2 DEF handlersOf
  <2> DEFINE C == ChannelOf[owner[s]]  T == TopicOf[owner[s]]
  <2>3. \A i \in DOMAIN handlers[C][T] :
          /\ ChannelOf[handlers[C][T][i]] = C /\ TopicOf[handlers[C][T][i]] = T
          /\ \A j \in DOMAIN handlers[C][T] : handlers[C][T][j] = handlers[C][T][i] => i = j
    <3> HIDE DEF C, T
    <3> QED
      BY <1>0, <2>1 DEF ListedInv, C, T
  <2> HIDE DEF l
  <2>4. \A i \in DOMAIN l : /\ ChannelOf[l[i]] = ChannelOf[owner[s]] /\ TopicOf[l[i]] = TopicOf[owner[s]]
                            /\ \A j \in DOMAIN l : l[j] = l[i] => i = j
    BY <2>3, <2>2
  <2>5. \A i \in 1..Len(l) : l[i] \in Handlers
    BY <1>2
  <2> QED
    BY <2>2, <2>4, <2>5, Zenon DEF sameTopic
<1>5. \A r \in Streams : \A i \in 1..got[r] : i \in 1..got'[r]
  <2> SUFFICES ASSUME NEW r \in Streams, NEW i \in 1..got[r] PROVE i \in 1..got'[r]
    OBVIOUS
  <2>1. got[r] \in Nat /\ (got'[r] = got[r] \/ got'[r] = got[r] + 1)
    BY <1>2, <1>3
  <2> QED
    BY <2>1
<1>6. n \in Msgs /\ got[s] + 1 \in 1..Len(sent[s]) /\ \A i \in 1..got[s] : i \in 1..Len(sent[s]) /\ i # got[s] + 1
  BY <1>1, <1>2
<1>7. QueueInv'
  <2> SUFFICES ASSUME NEW r \in Streams
               PROVE  /\ got'[r] <= Len(sent[r])
                      /\ got'[r] > 0 => receiving[r]
                      /\ queue'[r] # << >> => got'[r] > 0
                      /\ queue'[r] = << >> => tries[r] = 0
                      /\ tries[r] <= limit
                      /\ \A i \in 1..Len(queue'[r]) :
                           /\ sameTopic(queue'[r][i], owner[r])
                           /\ \A j \in 1..Len(queue'[r]) : queue'[r][i] = queue'[r][j] => i = j
    BY <1>1 DEF QueueInv
  <2>1. CASE r = s
    <3>1. got'[s] = got[s] + 1 /\ queue'[s] = l
      BY <1>3
    <3>2. got'[s] <= Len(sent[s]) /\ got'[s] > 0
      BY <1>1, <1>2, <3>1
    <3>3. tries[s] = 0 /\ tries[s] <= limit
      BY <1>0, <1>1 DEF QueueInv
    <3> QED
      BY <1>1, <1>4, <2>1, <3>1, <3>2, <3>3
  <2>2. CASE r # s
    BY <1>0, <1>3, <2>2 DEF QueueInv
  <2> QED
    BY <2>1, <2>2
<1>8. VerdictInv'
  <2> SUFFICES ASSUME NEW h \in Handlers, NEW m \in Msgs, verdict[h][m] # "none"
               PROVE  \E r \in Streams : serves(r, h) /\ \E i \in 1..got'[r] :
                        /\ sent[r][i] = m
                        /\ i = got'[r] => \A j \in 1..Len(queue'[r]) : queue'[r][j] # h
    BY <1>1 DEF VerdictInv, serves
  <2>1. PICK r \in Streams : serves(r, h) /\ \E i \in 1..got[r] :
              /\ sent[r][i] = m
              /\ i = got[r] => \A j \in 1..Len(queue[r]) : queue[r][j] # h
    BY <1>0 DEF VerdictInv
  <2>2. PICK i \in 1..got[r] : /\ sent[r][i] = m
                               /\ i = got[r] => \A j \in 1..Len(queue[r]) : queue[r][j] # h
    BY <2>1
  <2>3. i \in 1..got'[r]
    BY <1>5
  <2>4. CASE r = s
    <3>1. i # got'[r]
      BY <1>3, <1>6, <2>4
    <3> QED
      BY <2>1, <2>2, <2>3, <3>1
  <2>5. CASE r # s
    <3>1. got'[r] = got[r] /\ queue'[r] = queue[r]
      BY <1>3, <2>5
    <3> QED
      BY <2>1, <2>2, <3>1
  <2> QED
    BY <2>4, <2>5
<1>9. RanInv'
  <2> SUFFICES ASSUME NEW h \in Handlers, NEW i \in 1..Len(ran[h])
               PROVE  /\ \E r \in Streams : serves(r, h) /\ \E k \in 1..got'[r] : sent[r][k] = ran[h][i]
                      /\ \A j \in 1..Len(ran[h]) : i <= j => ticket[ran[h][i]] <= ticket[ran[h][j]]
    BY <1>1 DEF RanInv, serves
  <2> QED
    BY <1>0, <1>5 DEF RanInv
<1>10. CallsInv'
  <2>1. \A h \in Handlers : \A m \in Msgs : calls(h, m)' = calls(h, m)
    BY <1>1 DEF calls
  <2>2. ASSUME NEW i \in 1..Len(l) PROVE calls(l[i], n) = 0
    <3>1. l[i] \in Handlers /\ serves(s, l[i])
      BY <1>1, <1>4 DEF serves
    <3>2. ASSUME NEW j \in 1..Len(ran[l[i]]), ran[l[i]][j] = n PROVE FALSE
      <4>1. PICK k \in 1..got[s] : sent[s][k] = n
        BY <3>1, <3>2, RanFacts
      <4>2. k = got[s] + 1
        BY <1>0, <1>6, <4>1 DEF OnceInv
      <4> QED
        BY <1>6, <4>1, <4>2
    <3>3. DOMAIN ran[l[i]] = 1..Len(ran[l[i]])
      BY <1>2, <3>1
    <3>4. {j \in DOMAIN ran[l[i]] : ran[l[i]][j] = n} = {}
      BY <3>2, <3>3
    <3> QED
      BY <3>4, FS_EmptySet, Zenon DEF calls
  <2>3. ASSUME NEW r \in Streams, NEW i \in 1..Len(queue'[r])
        PROVE  calls(queue[r][i], current(r))' = IF i = 1 THEN tries[r] ELSE 0
    <3>1. CASE r = s
      <4>1. queue'[r] = l /\ got'[r] = got[s] + 1 /\ tries[r] = 0
        BY <1>0, <1>1, <1>3, <3>1 DEF QueueInv
      <4>2. calls(l[i], n) = 0
        BY <2>2, <4>1
      <4> QED
        BY <1>1, <3>1, <4>1, <4>2, Zenon DEF calls, current
    <3>2. CASE r # s
      <4>1. queue'[r] = queue[r] /\ got'[r] = got[r]
        BY <1>3, <3>2
      <4>2. calls(queue[r][i], current(r)) = IF i = 1 THEN tries[r] ELSE 0
        BY <1>0, <4>1 DEF CallsInv
      <4> QED
        BY <1>1, <4>1, <4>2, Zenon DEF calls, current
    <3> QED
      BY <3>1, <3>2
  <2>4. \A h \in Handlers : \A m \in Msgs :
          verdict[h][m] \in {"failed", "escalated"} => calls(h, m)' = 1 + limit
    BY <1>0, <2>1 DEF CallsInv
  <2> QED
    BY <1>1, <2>3, <2>4 DEF CallsInv
<1> QED
  BY <1>7, <1>8, <1>9, <1>10

\* A call of the handler at the head of the queue of stream s: what changes, and where.
LEMMA TurnEffect ==
  ASSUME ChanInv, NEW s \in Streams, Turn(s)
  PROVE  LET g == Head(queue[s])  n == current(s) IN
         /\ queue[s] # << >> /\ g = queue[s][1] /\ g \in Handlers /\ n \in Msgs /\ serves(s, g)
         /\ got[s] \in 1..Len(sent[s]) /\ 1 \in 1..Len(queue[s]) /\ queue[s] \in Seq(Handlers)
         /\ verdict[g][n] = "none"
         /\ \A r \in Streams : \A j \in 1..Len(queue[r]) : queue[r][j] = g => r = s /\ j = 1
         /\ UNCHANGED <<sent, got, ticket, owner, receiving, audience>>
         /\ ran' = [ran EXCEPT ![g] = Append(ran[g], n)]
         /\ \/ tries[s] < retryTimes /\ UNCHANGED <<queue, verdict>> /\ tries' = [tries EXCEPT ![s] = tries[s] + 1]
            \/ /\ queue' = [queue EXCEPT ![s] = Tail(queue[s])] /\ tries' = [tries EXCEPT ![s] = 0]
               /\ \E r \in Results : verdict' = [verdict EXCEPT ![g][n] = r] /\ (r # "ok" => tries[s] >= retryTimes)
<1> DEFINE g == Head(queue[s])  n == current(s)
<1>0. TypeOK /\ ClientTypes /\ QueueInv
  BY DEF ChanInv, IInv
<1>1. queue[s] # << >>
  BY DEF Turn
<1>2. /\ g = queue[s][1] /\ g \in Handlers /\ n \in Msgs /\ 1 \in 1..Len(queue[s])
      /\ queue[s] \in Seq(Handlers) /\ got[s] \in 1..Len(sent[s])
  BY <1>0, <1>1, Dispatching
<1>3. /\ serves(s, g) /\ verdict[g][n] = "none"
      /\ \A r \in Streams : \A j \in 1..Len(queue[r]) : queue[r][j] = g => r = s
  BY <1>1, <1>2, DispatchFacts
<1>4. \A j \in 1..Len(queue[s]) : queue[s][j] = g => j = 1
  BY <1>0, <1>2 DEF QueueInv
<1>5. UNCHANGED <<sent, got, ticket, owner, receiving, audience>>
  BY DEF Turn, vars, transport, srv
<1>6. ran' = [ran EXCEPT ![g] = Append(ran[g], n)]
  BY DEF Turn, called
<1>7. \/ tries[s] < retryTimes /\ UNCHANGED <<queue, verdict>> /\ tries' = [tries EXCEPT ![s] = tries[s] + 1]
      \/ /\ queue' = [queue EXCEPT ![s] = Tail(queue[s])] /\ tries' = [tries EXCEPT ![s] = 0]
         /\ \E r \in Results : verdict' = [verdict EXCEPT ![g][n] = r] /\ (r # "ok" => tries[s] >= retryTimes)
  <2>1. CASE again(s)
    BY <2>1 DEF again
  <2>2. ASSUME NEW r \in Results, over(s, r)
        PROVE  /\ queue' = [queue EXCEPT ![s] = Tail(queue[s])] /\ tries' = [tries EXCEPT ![s] = 0]
               /\ verdict' = [verdict EXCEPT ![g][n] = r] /\ (r # "ok" => tries[s] >= retryTimes)
    BY <2>2 DEF over, nextHandler
  <2>3. again(s) \/ \E r \in Results : over(s, r)
    BY DEF Turn
  <2> HIDE DEF g, n
  <2> QED
    BY <2>1, <2>2, <2>3
<1> HIDE DEF g, n
<1>8. /\ queue[s] # << >> /\ g = queue[s][1] /\ g \in Handlers /\ n \in Msgs /\ serves(s, g)
      /\ got[s] \in 1..Len(sent[s]) /\ 1 \in 1..Len(queue[s]) /\ queue[s] \in Seq(Handlers)
      /\ verdict[g][n] = "none"
      /\ \A r \in Streams : \A j \in 1..Len(queue[r]) : queue[r][j] = g => r = s /\ j = 1
  BY <1>1, <1>2, <1>3, <1>4
<1> QED
  BY <1>5, <1>6, <1>7, <1>8, Zenon DEF g, n

\* A call of a handler leaves the other streams alone, and the rest of its own queue.
LEMMA QueueAfterTurn ==
  ASSUME ChanInv, NEW s \in Streams, Turn(s)
  PROVE  /\ \A r \in Streams : r # s => queue'[r] = queue[r] /\ tries'[r] = tries[r]
         /\ \/ queue'[s] = queue[s] /\ tries'[s] = tries[s] + 1 /\ tries[s] < retryTimes
            \/ /\ tries'[s] = 0 /\ Len(queue'[s]) = Len(queue[s]) - 1 /\ Len(queue[s]) \in Nat \ {0}
               /\ \A j \in 1..Len(queue'[s]) : /\ j + 1 \in 1..Len(queue[s]) /\ j + 1 # 1
                                               /\ queue'[s][j] = queue[s][j + 1]
               /\ \A j \in 1..Len(queue[s]) : j # 1 => j - 1 \in 1..Len(queue'[s]) /\ queue'[s][j - 1] = queue[s][j]
<1>0. TypeOK /\ ClientTypes /\ QueueInv
  BY DEF ChanInv, IInv
<1>1. /\ queue[s] # << >>
      /\ \/ tries[s] < retryTimes /\ queue' = queue /\ tries' = [tries EXCEPT ![s] = tries[s] + 1]
         \/ queue' = [queue EXCEPT ![s] = Tail(queue[s])] /\ tries' = [tries EXCEPT ![s] = 0]
  BY TurnEffect
<1>2. queue \in [Streams -> Seq(Handlers)] /\ tries \in [Streams -> Nat]
  BY <1>0 DEF ClientTypes
<1>3. /\ Len(queue[s]) \in Nat \ {0} /\ Len(Tail(queue[s])) = Len(queue[s]) - 1
      /\ \A i \in 1..(Len(queue[s]) - 1) : Tail(queue[s])[i] = queue[s][i + 1]
  BY <1>0, <1>1, Dispatching
<1>4. CASE tries[s] < retryTimes /\ queue' = queue /\ tries' = [tries EXCEPT ![s] = tries[s] + 1]
  BY <1>2, <1>4
<1>5. CASE queue' = [queue EXCEPT ![s] = Tail(queue[s])] /\ tries' = [tries EXCEPT ![s] = 0]
  <2>1. queue'[s] = Tail(queue[s]) /\ tries'[s] = 0
    BY <1>2, <1>5
  <2>2. \A r \in Streams : r # s => queue'[r] = queue[r] /\ tries'[r] = tries[r]
    BY <1>2, <1>5
  <2> DEFINE q == Tail(queue[s])  k == Len(queue[s])
  <2>3. k \in Nat \ {0} /\ Len(q) = k - 1 /\ \A i \in 1..(k - 1) : q[i] = queue[s][i + 1]
    BY <1>3
  <2> HIDE DEF q, k
  <2>4. \A j \in 1..Len(q) : j + 1 \in 1..k /\ j + 1 # 1 /\ q[j] = queue[s][j + 1]
    BY <2>3
  <2>5. \A j \in 1..k : j # 1 => j - 1 \in 1..Len(q) /\ q[j - 1] = queue[s][j]
    <3> SUFFICES ASSUME NEW j \in 1..k, j # 1 PROVE j - 1 \in 1..Len(q) /\ q[j - 1] = queue[s][j]
      OBVIOUS
    <3>1. j - 1 \in 1..(k - 1) /\ (j - 1) + 1 = j
      BY <2>3
    <3> QED
      BY <2>3, <3>1
  <2> QED
    BY <2>1, <2>2, <2>3, <2>4, <2>5 DEF q, k
<1> QED
  BY <1>1, <1>4, <1>5

\* The verdicts after a call of a handler: none is withdrawn, and the only new one is of
\* the handler called on the message dispatched, when the queue moves on.
LEMMA VerdictAfterTurn ==
  ASSUME ChanInv, NEW s \in Streams, Turn(s)
  PROVE  /\ \A h \in Handlers : \A m \in Msgs :
              ~(h = Head(queue[s]) /\ m = current(s)) => verdict'[h][m] = verdict[h][m]
         /\ \/ queue'[s] = queue[s] /\ verdict' = verdict
            \/ /\ Len(queue'[s]) = Len(queue[s]) - 1
               /\ verdict'[Head(queue[s])][current(s)] # "none"
               /\ verdict'[Head(queue[s])][current(s)] # "ok" => tries[s] >= retryTimes
<1> DEFINE g == Head(queue[s])  n == current(s)
<1>0. ClientTypes /\ QueueInv /\ TypeOK /\ queue \in [Streams -> Seq(Handlers)]
  BY DEF ChanInv, IInv, ClientTypes
<1>1. /\ g \in Handlers /\ n \in Msgs /\ queue[s] # << >>
      /\ \/ UNCHANGED <<queue, verdict>>
         \/ /\ queue' = [queue EXCEPT ![s] = Tail(queue[s])]
            /\ \E r \in Results : verdict' = [verdict EXCEPT ![g][n] = r] /\ (r # "ok" => tries[s] >= retryTimes)
  BY TurnEffect, Zenon
<1>2. Len(Tail(queue[s])) = Len(queue[s]) - 1
  BY <1>0, <1>1, Dispatching
<1> HIDE DEF g, n
<1>3. ASSUME NEW r \in Results, verdict' = [verdict EXCEPT ![g][n] = r], r # "ok" => tries[s] >= retryTimes,
             queue' = [queue EXCEPT ![s] = Tail(queue[s])]
      PROVE  /\ \A h \in Handlers : \A m \in Msgs : ~(h = g /\ m = n) => verdict'[h][m] = verdict[h][m]
             /\ Len(queue'[s]) = Len(queue[s]) - 1 /\ verdict'[g][n] # "none"
             /\ verdict'[g][n] # "ok" => tries[s] >= retryTimes
  <2>1. \A h \in Handlers : \A m \in Msgs :
          verdict'[h][m] = IF h = g /\ m = n THEN r ELSE verdict[h][m]
    BY <1>0, <1>1, <1>3, VerdictEffect
  <2>2. queue'[s] = Tail(queue[s])
    BY <1>0, <1>3
  <2>3. Len(queue'[s]) = Len(queue[s]) - 1
    BY <1>2, <2>2
  <2>4. r # "none"
    BY DEF Results
  <2> QED
    BY <1>1, <1>3, <2>1, <2>3, <2>4
<1> QED
  BY <1>1, <1>3 DEF g, n

\* A call of a handler keeps the queue a queue of the topic's handlers and the tries
\* within the limit, and a verdict is on a message that has passed its handler.
LEMMA TurnQueueStep ==
  ASSUME ChanInv, NEW s \in Streams, Turn(s) PROVE QueueInv' /\ VerdictInv'
<1> DEFINE g == Head(queue[s])  n == current(s)
<1>0. TypeOK /\ ClientTypes /\ QueueInv /\ VerdictInv /\ retryTimes \in Int /\ tries[s] \in Nat
  BY ChannelAssumption DEF ChanInv, IInv, ChannelAssumption, ClientTypes
<1>1. /\ g = queue[s][1] /\ g \in Handlers /\ n \in Msgs /\ serves(s, g) /\ got[s] \in 1..Len(sent[s])
      /\ UNCHANGED <<sent, got, owner, receiving>> /\ 1 \in 1..Len(queue[s]) /\ queue[s] # << >>
      /\ \A r \in Streams : \A j \in 1..Len(queue[r]) : queue[r][j] = g => r = s /\ j = 1
  BY TurnEffect, Zenon
<1>2. \A r \in Streams : r # s => queue'[r] = queue[r] /\ tries'[r] = tries[r]
  BY QueueAfterTurn
<1>3. \/ queue'[s] = queue[s] /\ tries'[s] = tries[s] + 1 /\ tries[s] < retryTimes
      \/ /\ tries'[s] = 0 /\ Len(queue'[s]) = Len(queue[s]) - 1 /\ Len(queue[s]) \in Nat \ {0}
         /\ \A j \in 1..Len(queue'[s]) : /\ j + 1 \in 1..Len(queue[s]) /\ j + 1 # 1
                                         /\ queue'[s][j] = queue[s][j + 1]
  BY QueueAfterTurn
<1>4. QueueInv'
  <2> SUFFICES ASSUME NEW r \in Streams
               PROVE  /\ got[r] <= Len(sent[r])
                      /\ got[r] > 0 => receiving[r]
                      /\ queue'[r] # << >> => got[r] > 0
                      /\ queue'[r] = << >> => tries'[r] = 0
                      /\ tries'[r] <= limit
                      /\ \A i \in 1..Len(queue'[r]) :
                           /\ sameTopic(queue'[r][i], owner[r])
                           /\ \A j \in 1..Len(queue'[r]) : queue'[r][i] = queue'[r][j] => i = j
    BY <1>1 DEF QueueInv
  <2>1. CASE r # s
    BY <1>0, <1>2, <2>1 DEF QueueInv
  <2>2. CASE r = s
    <3>1. got[s] > 0 /\ got[s] <= Len(sent[s]) /\ receiving[s]
      BY <1>0, <1>1 DEF QueueInv, serves
    <3>2. CASE queue'[s] = queue[s] /\ tries'[s] = tries[s] + 1 /\ tries[s] < retryTimes
      <4>1. tries'[s] <= limit
        BY <1>0, <3>2 DEF limit
      <4> QED
        BY <1>0, <1>1, <2>2, <3>1, <3>2, <4>1 DEF QueueInv
    <3>3. CASE /\ tries'[s] = 0 /\ Len(queue'[s]) = Len(queue[s]) - 1 /\ Len(queue[s]) \in Nat \ {0}
               /\ \A j \in 1..Len(queue'[s]) : /\ j + 1 \in 1..Len(queue[s]) /\ j + 1 # 1
                                               /\ queue'[s][j] = queue[s][j + 1]
      <4>1. tries'[s] <= limit
        BY <1>0, <3>3 DEF limit
      <4>2. \A i \in 1..Len(queue'[s]) : sameTopic(queue'[s][i], owner[s])
        <5> SUFFICES ASSUME NEW i \in 1..Len(queue'[s]) PROVE sameTopic(queue'[s][i], owner[s])
          OBVIOUS
        <5>1. queue'[s][i] = queue[s][i + 1] /\ i + 1 \in 1..Len(queue[s])
          BY <3>3
        <5>2. sameTopic(queue[s][i + 1], owner[s])
          BY <1>0, <5>1 DEF QueueInv
        <5> QED
          BY <5>1, <5>2
      <4>3. \A i, j \in 1..Len(queue'[s]) : queue'[s][i] = queue'[s][j] => i = j
        <5> SUFFICES ASSUME NEW i \in 1..Len(queue'[s]), NEW j \in 1..Len(queue'[s]), queue'[s][i] = queue'[s][j]
                     PROVE  i = j
          OBVIOUS
        <5>1. queue[s][i + 1] = queue[s][j + 1] /\ i + 1 \in 1..Len(queue[s]) /\ j + 1 \in 1..Len(queue[s])
          BY <3>3
        <5>2. i + 1 = j + 1
          BY <1>0, <5>1 DEF QueueInv
        <5> QED
          BY <3>3, <5>2
      <4> QED
        BY <2>2, <3>1, <3>3, <4>1, <4>2, <4>3
    <3> QED
      BY <1>3, <3>2, <3>3
  <2> QED
    BY <2>1, <2>2
<1>5. VerdictInv'
  <2> SUFFICES ASSUME NEW h \in Handlers, NEW m \in Msgs, verdict'[h][m] # "none"
               PROVE  \E r \in Streams : serves(r, h) /\ \E i \in 1..got[r] :
                        /\ sent[r][i] = m
                        /\ i = got[r] => \A j \in 1..Len(queue'[r]) : queue'[r][j] # h
    BY <1>1 DEF VerdictInv, serves
  <2>1. \A j \in 1..Len(queue'[s]) : queue'[s][j] = h => \E k \in 1..Len(queue[s]) : queue[s][k] = h
    BY <1>3
  <2>2. ASSUME verdict[h][m] # "none"
        PROVE  \E r \in Streams : serves(r, h) /\ \E i \in 1..got[r] :
                 /\ sent[r][i] = m
                 /\ i = got[r] => \A j \in 1..Len(queue'[r]) : queue'[r][j] # h
    <3>1. PICK r \in Streams : serves(r, h) /\ \E i \in 1..got[r] :
                /\ sent[r][i] = m
                /\ i = got[r] => \A j \in 1..Len(queue[r]) : queue[r][j] # h
      BY <1>0, <2>2 DEF VerdictInv
    <3>2. (\A j \in 1..Len(queue[r]) : queue[r][j] # h) => \A j \in 1..Len(queue'[r]) : queue'[r][j] # h
      BY <1>2, <2>1
    <3> QED
      BY <3>1, <3>2
  <2>3. ASSUME verdict[h][m] = "none"
        PROVE  \E r \in Streams : serves(r, h) /\ \E i \in 1..got[r] :
                 /\ sent[r][i] = m
                 /\ i = got[r] => \A j \in 1..Len(queue'[r]) : queue'[r][j] # h
    <3>1. h = g /\ m = n
      BY <2>3, VerdictAfterTurn
    <3>2. Len(queue'[s]) = Len(queue[s]) - 1
      BY <2>3, VerdictAfterTurn
    <3>3. queue'[s] # queue[s]
      <4>1. Len(queue[s]) \in Nat
        BY <1>1
      <4> QED
        BY <3>2, <4>1
    <3>4. \A j \in 1..Len(queue'[s]) : queue'[s][j] # g
      BY <1>1, <1>3, <3>3
    <3>5. got[s] \in 1..got[s] /\ sent[s][got[s]] = n
      BY <1>1 DEF current
    <3> QED
      BY <1>1, <3>1, <3>4, <3>5
  <2> QED
    BY <2>2, <2>3
<1> QED
  BY <1>4, <1>5

\* A handler is called with the latest message of its stream.
LEMMA TurnRanStep ==
  ASSUME ChanInv, NEW s \in Streams, Turn(s) PROVE RanInv'
<1> DEFINE g == Head(queue[s])  n == current(s)  k == Len(ran[g]) + 1
<1>0. TypeOK /\ ClientTypes /\ OrderInv /\ RanInv
  BY DEF ChanInv, IInv
<1>1. /\ g \in Handlers /\ n \in Msgs /\ serves(s, g) /\ got[s] \in 1..Len(sent[s])
      /\ UNCHANGED <<sent, got, ticket, owner, receiving>>
      /\ ran' = [ran EXCEPT ![g] = Append(ran[g], n)]
  BY TurnEffect, Zenon
<1>2. ran \in [Handlers -> Seq(Msgs)] /\ ticket \in [Msgs -> Nat] /\ Len(sent[s]) \in Nat
  BY <1>0 DEF ClientTypes, TypeOK
<1>3. n = sent[s][got[s]]
  BY DEF current
<1> HIDE DEF g, n
<1>4. /\ \A h \in Handlers : h # g => ran'[h] = ran[h]
      /\ ran'[g] = Append(ran[g], n) /\ ran[g] \in Seq(Msgs) /\ Len(ran[g]) \in Nat
  BY <1>1, <1>2
<1>5. /\ Len(ran'[g]) = k /\ ran'[g][k] = n
      /\ \A i \in 1..k : i # k => i \in 1..Len(ran[g]) /\ ran'[g][i] = ran[g][i]
  BY <1>1, <1>4
<1>6. \A i \in 1..Len(ran[g]) : ticket[ran[g][i]] <= ticket[n]
  <2> SUFFICES ASSUME NEW i \in 1..Len(ran[g]) PROVE ticket[ran[g][i]] <= ticket[n]
    OBVIOUS
  <2>1. PICK j \in 1..got[s] : sent[s][j] = ran[g][i]
    BY <1>1, RanFacts
  <2>2. CASE j = got[s]
    BY <1>1, <1>2, <1>3, <2>1, <2>2
  <2>3. CASE j < got[s]
    <3>1. j \in 1..Len(sent[s]) /\ got[s] \in 1..Len(sent[s])
      BY <1>1, <1>2
    <3> QED
      BY <1>0, <1>3, <2>1, <2>3, <3>1 DEF OrderInv
  <2> QED
    BY <1>1, <2>2, <2>3
<1> HIDE DEF k
<1> SUFFICES ASSUME NEW h \in Handlers, NEW i \in 1..Len(ran'[h])
             PROVE  /\ \E r \in Streams : serves(r, h) /\ \E j \in 1..got[r] : sent[r][j] = ran'[h][i]
                    /\ \A j \in 1..Len(ran'[h]) : i <= j => ticket[ran'[h][i]] <= ticket[ran'[h][j]]
  BY <1>1 DEF RanInv, serves
<1>7. CASE h # g
  BY <1>0, <1>4, <1>7 DEF RanInv
<1>8. CASE h = g
  <2>1. \E r \in Streams : serves(r, g) /\ \E j \in 1..got[r] : sent[r][j] = ran'[g][i]
    <3>1. CASE i = k
      <4>1. got[s] \in 1..got[s]
        BY <1>1
      <4> QED
        BY <1>1, <1>3, <1>5, <3>1, <4>1
    <3>2. CASE i # k
      BY <1>0, <1>1, <1>5, <1>8, <3>2 DEF RanInv
    <3> QED
      BY <3>1, <3>2
  <2>2. ASSUME NEW j \in 1..Len(ran'[g]), i <= j PROVE ticket[ran'[g][i]] <= ticket[ran'[g][j]]
    <3>1. CASE j = k
      <4>1. CASE i = k
        BY <1>1, <1>2, <1>5, <3>1, <4>1
      <4>2. CASE i # k
        BY <1>5, <1>6, <1>8, <3>1, <4>2
      <4> QED
        BY <4>1, <4>2
    <3>2. CASE j # k
      <4>1. i # k /\ i \in 1..k /\ j \in 1..k
        BY <1>4, <1>5, <1>8, <2>2, <3>2 DEF k
      <4>2. i \in 1..Len(ran[g]) /\ j \in 1..Len(ran[g]) /\ ran'[g][i] = ran[g][i] /\ ran'[g][j] = ran[g][j]
        BY <1>5, <3>2, <4>1
      <4> QED
        BY <1>0, <1>1, <2>2, <4>2 DEF RanInv
    <3> QED
      BY <3>1, <3>2
  <2> QED
    BY <1>8, <2>1, <2>2
<1> QED
  BY <1>7, <1>8

\* The calls of a dispatch are its tries, and a handler gives up after 1 + limit.
LEMMA TurnCallsStep ==
  ASSUME ChanInv, NEW s \in Streams, Turn(s) PROVE CallsInv'
<1> DEFINE g == Head(queue[s])  n == current(s)
<1>0. /\ TypeOK /\ ClientTypes /\ QueueInv /\ CallsInv
      /\ retryTimes \in Int /\ tries[s] \in Nat /\ tries[s] <= limit
  BY ChannelAssumption DEF ChanInv, IInv, ChannelAssumption, ClientTypes, QueueInv
<1>1. /\ g = queue[s][1] /\ g \in Handlers /\ n \in Msgs /\ verdict[g][n] = "none"
      /\ UNCHANGED <<sent, got>> /\ 1 \in 1..Len(queue[s])
      /\ \A r \in Streams : \A j \in 1..Len(queue[r]) : queue[r][j] = g => r = s /\ j = 1
      /\ ran' = [ran EXCEPT ![g] = Append(ran[g], n)]
  BY TurnEffect, Zenon
<1>2. \A h \in Handlers : \A m \in Msgs :
        calls(h, m) \in Nat /\ calls(h, m)' = calls(h, m) + (IF h = g /\ m = n THEN 1 ELSE 0)
  <2> HIDE DEF g, n
  <2> QED
    BY <1>0, <1>1, CallsEffect
<1>3. calls(g, n) = tries[s]
  BY <1>0, <1>1 DEF CallsInv
<1>4. \A r \in Streams : \A i \in 1..Len(queue[r]) :
        /\ queue[r][i] \in Handlers /\ current(r) \in Msgs /\ current(r)' = current(r)
        /\ calls(queue[r][i], current(r)) = IF i = 1 THEN tries[r] ELSE 0
  <2> SUFFICES ASSUME NEW r \in Streams, NEW i \in 1..Len(queue[r])
               PROVE  /\ queue[r][i] \in Handlers /\ current(r) \in Msgs /\ current(r)' = current(r)
                      /\ calls(queue[r][i], current(r)) = IF i = 1 THEN tries[r] ELSE 0
    OBVIOUS
  <2>1. queue[r] # << >> /\ queue[r][i] \in Handlers
    BY <1>0 DEF ClientTypes
  <2>2. current(r) \in Msgs
    BY <1>0, <2>1, Dispatching
  <2>3. current(r)' = current(r)
    BY <1>1 DEF current
  <2> QED
    BY <1>0, <2>1, <2>2, <2>3 DEF CallsInv
<1> HIDE DEF g, n
<1>5. ASSUME NEW r \in Streams, NEW i \in 1..Len(queue'[r])
      PROVE  calls(queue[r][i], current(r))' = IF i = 1 THEN tries'[r] ELSE 0
  <2>1. ASSUME NEW j \in 1..Len(queue[r]), queue'[r][i] = queue[r][j]
        PROVE  calls(queue[r][i], current(r))' = calls(queue[r][j], current(r))
                                                   + (IF queue[r][j] = g /\ current(r) = n THEN 1 ELSE 0)
    <3>1. PICK h \in Handlers, m \in Msgs : h = queue[r][j] /\ m = current(r) /\ current(r)' = m
      BY <1>4
    <3>2. calls(queue[r][i], current(r))' = calls(h, m)'
      BY <2>1, <3>1, Zenon DEF calls
    <3>3. calls(h, m)' = calls(h, m) + (IF h = g /\ m = n THEN 1 ELSE 0)
      BY <1>2
    <3> QED
      BY <3>1, <3>2, <3>3
  <2>2. CASE r # s
    <3>1. queue'[r] = queue[r] /\ tries'[r] = tries[r]
      BY <2>2, QueueAfterTurn
    <3>2. queue[r][i] # g /\ i \in 1..Len(queue[r])
      BY <1>1, <2>2, <3>1
    <3>3. calls(queue[r][i], current(r)) = IF i = 1 THEN tries[r] ELSE 0
      BY <1>4, <3>2
    <3>4. calls(queue[r][i], current(r)) \in Nat
      BY <1>2, <1>4, <3>2
    <3>5. calls(queue[r][i], current(r))' = calls(queue[r][i], current(r)) + 0
      BY <2>1, <3>1, <3>2
    <3> QED
      BY <3>1, <3>3, <3>4, <3>5
  <2>3. CASE r = s /\ queue'[s] = queue[s] /\ tries'[s] = tries[s] + 1
    <3>1. i \in 1..Len(queue[r]) /\ queue'[r][i] = queue[r][i]
      BY <2>3
    <3>2. CASE i = 1
      <4>1. queue[r][i] = g /\ current(r) = n
        BY <1>1, <2>3, <3>2 DEF n
      <4>2. calls(queue[r][i], current(r))' = calls(g, n) + 1
        BY <2>1, <3>1, <4>1
      <4> QED
        BY <1>3, <2>3, <3>2, <4>2
    <3>3. CASE i # 1
      <4>1. queue[r][i] # g
        BY <1>1, <3>1, <3>3
      <4>2. calls(queue[r][i], current(r)) = 0
        BY <1>4, <3>1, <3>3
      <4>3. calls(queue[r][i], current(r))' = calls(queue[r][i], current(r)) + 0
        BY <2>1, <3>1, <4>1
      <4> QED
        BY <3>3, <4>2, <4>3
    <3> QED
      BY <3>2, <3>3
  <2>4. CASE /\ r = s /\ tries'[s] = 0
             /\ \A j \in 1..Len(queue'[s]) : /\ j + 1 \in 1..Len(queue[s]) /\ j + 1 # 1
                                             /\ queue'[s][j] = queue[s][j + 1]
    <3>1. i + 1 \in 1..Len(queue[r]) /\ i + 1 # 1 /\ queue'[r][i] = queue[r][i + 1]
      BY <2>4
    <3>2. queue[r][i + 1] # g
      BY <1>1, <3>1
    <3>3. calls(queue[r][i + 1], current(r)) = 0
      BY <1>4, <3>1
    <3>4. calls(queue[r][i], current(r))' = calls(queue[r][i + 1], current(r)) + 0
      BY <2>1, <3>1, <3>2
    <3> QED
      BY <2>4, <3>3, <3>4
  <2> QED
    BY <2>2, <2>3, <2>4, QueueAfterTurn
<1>6. ASSUME NEW h \in Handlers, NEW m \in Msgs, verdict'[h][m] \in {"failed", "escalated"}
      PROVE  calls(h, m)' = 1 + limit
  <2>1. CASE h = g /\ m = n
    <3>1. tries[s] >= retryTimes
      BY <1>1, <1>6, <2>1, VerdictAfterTurn DEF g, n
    <3>2. tries[s] = limit
      BY <1>0, <3>1 DEF limit
    <3>3. calls(h, m)' = calls(g, n) + 1
      BY <1>2, <2>1
    <3> QED
      BY <1>0, <1>3, <3>2, <3>3
  <2>2. CASE ~(h = g /\ m = n)
    <3>1. verdict[h][m] \in {"failed", "escalated"}
      BY <1>6, <2>2, VerdictAfterTurn DEF g, n
    <3>2. calls(h, m) = 1 + limit
      BY <1>0, <3>1 DEF CallsInv
    <3>3. calls(h, m) \in Nat /\ calls(h, m)' = calls(h, m) + 0
      BY <1>2, <2>2
    <3> QED
      BY <3>2, <3>3
  <2> QED
    BY <2>1, <2>2
<1> QED
  BY <1>5, <1>6 DEF CallsInv

-----------------------------------------------------------------------------
(* Audiences.                                                               *)

\* Only Publish fixes an audience, before the server is called; a Subscribe that has
\* returned nil stays so.
LEMMA PublishFrame ==
  ASSUME ChanInv, [ChanNext]_chanVars
  PROVE  /\ \A m \in Msgs : ret'[m] = "idle" => ret[m] = "idle" /\ call'[m] = "idle"
         /\ \A h \in Handlers : sub[h] = "ok" => sub'[h] = "ok"
         /\ \A m \in Msgs : audience'[m] = audience[m] \/ (ret[m] = "idle" /\ \A h \in audience'[m] : sub[h] = "ok")
<1>0. /\ TypeOK /\ ClientTypes /\ AudienceInv
      /\ ret \in [Msgs -> {"idle", "pending", "ok", "err"}] /\ audience \in [Msgs -> SUBSET Handlers]
      /\ call \in [Msgs -> {"idle", "called", "sending", "done", "lost"}]
      /\ sub \in [Handlers -> {"idle", "open", "send", "start", "ok", "err"}]
  BY DEF ChanInv, IInv, ClientTypes, TypeOK
<1>1. \A h \in Handlers : sub[h] = "ok" => sub'[h] = "ok"
  <2>1. ASSUME NEW g \in Handlers, SubscribeNext(g) PROVE \A h \in Handlers : sub[h] = "ok" => sub'[h] = "ok"
    <3>1. sub[g] # "ok" /\ \E p \in {"open", "send", "start", "ok", "err"} : sub' = [sub EXCEPT ![g] = p]
      BY <2>1 DEF SubscribeNext, SubscribeLock, SubscribeFail, SubscribeOpen, SubscribeSend, SubscribeStart
    <3> QED
      BY <1>0, <3>1
  <2> QED
    BY <1>0, <2>1, SubscribeFrame
<1>2. CASE UNCHANGED <<ret, audience>> /\ \A m \in Msgs : call[m] = "idle" => call'[m] = "idle"
  BY <1>0, <1>1, <1>2 DEF AudienceInv
<1>3. ASSUME NEW k \in Msgs, Publish(k)
      PROVE  /\ \A m \in Msgs : ret'[m] = "idle" => ret[m] = "idle" /\ call'[m] = "idle"
             /\ \A m \in Msgs : audience'[m] = audience[m] \/ (ret[m] = "idle" /\ \A h \in audience'[m] : sub[h] = "ok")
  <2>1. /\ ret[k] = "idle"
        /\ ret' = [ret EXCEPT ![k] = "pending"] \/ ret' = [ret EXCEPT ![k] = "err"]
        /\ audience' = [audience EXCEPT ![k] = {h \in Handlers : sub[h] = "ok"}]
    BY <1>3 DEF Publish
  <2>2. call' = call \/ call' = [call EXCEPT ![k] = "called"]
    BY <1>3 DEF Publish, PublishCall, vars, srv
  <2>3. \A m \in Msgs : ret'[m] = "idle" => m # k /\ ret[m] = "idle"
    BY <1>0, <2>1
  <2>4. \A m \in Msgs : m # k => call'[m] = call[m]
    BY <1>0, <2>2
  <2>5. \A m \in Msgs : ret'[m] = "idle" => ret[m] = "idle" /\ call'[m] = "idle"
    BY <1>0, <2>3, <2>4 DEF AudienceInv
  <2>6. audience'[k] = {h \in Handlers : sub[h] = "ok"} /\ \A m \in Msgs : m # k => audience'[m] = audience[m]
    BY <1>0, <2>1
  <2>7. ret[k] = "idle"
    BY <1>3 DEF Publish
  <2> QED
    BY <2>5, <2>6, <2>7
<1>4. ASSUME NEW k \in Msgs, PublishOk(k) \/ PublishErr(k)
      PROVE  /\ \A m \in Msgs : ret'[m] = "idle" => ret[m] = "idle" /\ call'[m] = "idle"
             /\ audience' = audience
  <2>1. audience' = audience /\ call' = call /\ (ret' = [ret EXCEPT ![k] = "ok"] \/ ret' = [ret EXCEPT ![k] = "err"])
    BY <1>4 DEF PublishOk, PublishErr, vars, srv
  <2>2. \A m \in Msgs : ret'[m] = "idle" => ret[m] = "idle"
    BY <1>0, <2>1
  <2> QED
    BY <1>0, <2>1, <2>2 DEF AudienceInv
<1>5. \/ UNCHANGED <<ret, audience>> /\ \A m \in Msgs : call[m] = "idle" => call'[m] = "idle"
      \/ \E k \in Msgs : Publish(k) \/ PublishOk(k) \/ PublishErr(k)
  <2>1. CASE ServerNext
    BY <1>0, <2>1, ServerFrame DEF client
  <2>2. ASSUME NEW h \in Handlers, SubscribeNext(h) PROVE UNCHANGED <<ret, audience, call>>
    BY <2>2 DEF SubscribeNext, SubscribeLock, SubscribeFail, SubscribeOpen, SubscribeSend, SubscribeStart,
       OpenStream, Request, vars, srv
  <2>3. ASSUME NEW s \in Streams, Recv(s) \/ Turn(s) PROVE UNCHANGED <<ret, audience, call>>
    BY <2>3 DEF Recv, Turn, ClientRecv, vars, srv
  <2>4. ASSUME NEW c \in Channels, Close(c) PROVE UNCHANGED <<ret, audience, call>>
    BY <2>4 DEF Close, Disconnect, vars, srv
  <2>5. CASE UNCHANGED chanVars
    BY <2>5 DEF chanVars, client, vars, srv
  <2> QED
    BY <2>1, <2>2, <2>3, <2>4, <2>5, ReceiverCases DEF ChanNext
<1> QED
  BY <1>1, <1>2, <1>3, <1>4, <1>5

\* A dispatch begins with every handler of the message's audience, and leaves each only
\* with a verdict.
LEMMA AudienceStep == ChanInv /\ [ChanNext]_chanVars => AudienceInv'
<1> SUFFICES ASSUME ChanInv, [ChanNext]_chanVars PROVE AudienceInv'
  OBVIOUS
<1>0. /\ TypeOK /\ ClientTypes /\ TicketInv /\ OrderInv /\ SubInv /\ ListedInv /\ QueueInv /\ AudienceInv
      /\ got \in [Streams -> Nat] /\ sent \in [Streams -> Seq(Msgs)] /\ audience \in [Msgs -> SUBSET Handlers]
  BY DEF ChanInv, IInv, ClientTypes, TypeOK
<1>1. /\ \A m \in Msgs : ret'[m] = "idle" => ret[m] = "idle" /\ call'[m] = "idle"
      /\ \A h \in Handlers : sub[h] = "ok" => sub'[h] = "ok"
      /\ \A m \in Msgs : audience'[m] = audience[m] \/ (ret[m] = "idle" /\ \A h \in audience'[m] : sub[h] = "ok")
  BY PublishFrame
<1>2. audience' \in [Msgs -> SUBSET Handlers]
  BY ClientTypeStep DEF ClientTypes
<1>3. \A m \in Msgs : \A h \in audience'[m] : h \in Handlers /\ sub'[h] = "ok"
  BY <1>0, <1>1, <1>2 DEF AudienceInv
<1>4. ASSUME NEW s \in Streams, NEW i \in 1..Len(sent[s])
      PROVE  sent[s][i] \in Msgs /\ audience'[sent[s][i]] = audience[sent[s][i]]
  <2>1. sent[s][i] \in Msgs /\ ticket[sent[s][i]] > 0
    BY <1>0 DEF OrderInv
  <2>2. call[sent[s][i]] # "idle"
    BY <1>0, <2>1 DEF TicketInv
  <2> QED
    BY <1>0, <1>1, <2>1, <2>2 DEF AudienceInv
<1>5. \A s \in Streams : /\ got[s] \in Nat /\ Len(sent[s]) \in Nat
                         /\ got[s] > 0 => receiving[s]
                         /\ \A i \in 1..got[s] : i \in 1..Len(sent[s]) /\ sent'[s][i] = sent[s][i]
  BY <1>0, Carried DEF QueueInv
<1>6. \A s \in Streams : receiving[s] => owner'[s] = owner[s]
  BY ReceivingStable
<1> SUFFICES ASSUME NEW s \in Streams, NEW i \in 1..got'[s], NEW h \in audience'[sent'[s][i]],
                    topicStream(h, s)', verdict'[h][sent'[s][i]] = "none"
             PROVE  i = got'[s] /\ \E j \in 1..Len(queue'[s]) : queue'[s][j] = h
  BY <1>1, <1>3 DEF AudienceInv
<1>7. ASSUME i \in 1..got[s], verdict[h][sent[s][i]] = "none"
      PROVE  i = got[s] /\ \E j \in 1..Len(queue[s]) : queue[s][j] = h
  <2>1. got[s] > 0 /\ i \in 1..Len(sent[s]) /\ sent'[s][i] = sent[s][i]
    BY <1>5, <1>7
  <2>2. h \in audience[sent[s][i]]
    BY <1>4, <2>1
  <2>3. topicStream(h, s)
    BY <1>5, <1>6, <2>1 DEF topicStream
  <2> QED
    BY <1>0, <1>7, <2>2, <2>3 DEF AudienceInv
<1>8. CASE UNCHANGED <<queue, got, verdict>>
  BY <1>5, <1>7, <1>8
<1>9. ASSUME NEW r \in Streams, Recv(r)
      PROVE  i = got'[s] /\ \E j \in 1..Len(queue'[s]) : queue'[s][j] = h
  <2>1. /\ receiving[r] /\ queue[r] = << >> /\ got[r] < Len(sent[r]) /\ owner[r] \in Handlers
        /\ UNCHANGED <<sent, owner, verdict, audience>>
        /\ got' = [got EXCEPT ![r] = got[r] + 1] /\ queue' = [queue EXCEPT ![r] = handlersOf(owner[r])]
    BY <1>0, <1>9 DEF Recv, ClientRecv, SubInv
  <2>2. CASE s # r
    <3>1. got'[s] = got[s] /\ queue'[s] = queue[s]
      BY <1>0, <2>1, <2>2 DEF ClientTypes
    <3> QED
      BY <1>7, <2>1, <3>1
  <2>3. CASE s = r
    <3>1. got'[s] = got[s] + 1 /\ queue'[s] = handlersOf(owner[s])
      BY <1>0, <2>1, <2>3 DEF ClientTypes
    <3>2. CASE i \in 1..got[s]
      <4>1. \E j \in 1..Len(queue[s]) : queue[s][j] = h
        BY <1>7, <2>1, <3>2
      <4>2. Len(queue[s]) = 0
        BY <2>1, <2>3
      <4> QED
        BY <4>1, <4>2
    <3>3. CASE i = got'[s]
      <4>1. i \in 1..Len(sent[s]) /\ sent[s][i] \in Msgs
        <5>1. i = got[s] + 1 /\ got[s] \in Nat /\ Len(sent[s]) \in Nat /\ got[s] < Len(sent[s]) /\ sent[s] \in Seq(Msgs)
          BY <1>0, <2>1, <2>3, <3>1, <3>3
        <5> QED
          BY <5>1
      <4>2. h \in Handlers /\ sub[h] = "ok"
        BY <1>0, <2>1, <4>1 DEF AudienceInv
      <4>3. handlersOf(h) = handlersOf(owner[s])
        BY <2>1 DEF topicStream, handlersOf
      <4>4. handlersOf(h) \in Seq(Handlers) /\ \E j \in DOMAIN handlersOf(h) : handlersOf(h)[j] = h
        BY <1>0, <4>2, HandlerTypes DEF ListedInv
      <4>5. \E j \in 1..Len(handlersOf(h)) : handlersOf(h)[j] = h
        BY <4>4
      <4> QED
        BY <3>1, <3>3, <4>3, <4>5
    <3> QED
      BY <1>0, <3>1, <3>2, <3>3
  <2> QED
    BY <2>2, <2>3
<1>10. ASSUME NEW r \in Streams, Turn(r)
       PROVE  i = got'[s] /\ \E j \in 1..Len(queue'[s]) : queue'[s][j] = h
  <2>1. UNCHANGED <<sent, got, owner, audience>>
    BY <1>10, TurnEffect, Zenon
  <2>2. i \in 1..got[s] /\ i \in 1..Len(sent[s]) /\ sent[s][i] \in Msgs /\ h \in Handlers
    BY <1>0, <1>4, <1>5, <2>1
  <2>3. verdict[h][sent[s][i]] = "none"
    <3>1. CASE h = Head(queue[r]) /\ sent[s][i] = current(r)
      BY <1>10, <3>1, TurnEffect, Zenon
    <3>2. CASE ~(h = Head(queue[r]) /\ sent[s][i] = current(r))
      BY <1>10, <2>1, <2>2, <3>2, VerdictAfterTurn
    <3> QED
      BY <3>1, <3>2
  <2>4. PICK j \in 1..Len(queue[s]) : queue[s][j] = h
    BY <1>7, <2>2, <2>3
  <2>5. i = got[s]
    BY <1>7, <2>2, <2>3
  <2>6. CASE queue'[s] = queue[s]
    BY <2>1, <2>4, <2>5, <2>6
  <2>7. CASE queue'[s] # queue[s]
    <3>1. r = s
      BY <1>10, <2>7, QueueAfterTurn
    <3>2. verdict'[Head(queue[s])][current(s)] # "none"
      BY <1>10, <2>7, <3>1, VerdictAfterTurn
    <3>3. h # Head(queue[s])
      BY <2>1, <2>5, <3>2 DEF current
    <3>4. j # 1
      BY <1>10, <2>4, <3>1, <3>3, TurnEffect, Zenon
    <3>5. j - 1 \in 1..Len(queue'[s]) /\ queue'[s][j - 1] = queue[s][j]
      BY <1>10, <2>7, <3>1, <3>4, QueueAfterTurn
    <3> QED
      BY <2>1, <2>4, <2>5, <3>5
  <2> QED
    BY <2>6, <2>7
<1> QED
  BY <1>0, <1>8, <1>9, <1>10, DispatchFrame

-----------------------------------------------------------------------------
(* The theorems.                                                            *)

\* Channels that have not been used satisfy the invariant.
LEMMA ChanInitLemma == ASSUME IInv, ChanInit PROVE ChanInv
<1>1. Flags
  BY Zenon DEF ChanInit, Flags
<1>2. ClientTypes
  BY DEF ChanInit, ClientTypes
<1>3. SubInv
  <2>1. (\A h \in Handlers : ~inSubscribe(h)) /\ \A s \in Streams : ~receiving[s]
    BY DEF ChanInit, inSubscribe
  <2> QED
    BY <2>1 DEF SubInv
<1>4. OwnerInv
  BY ChannelAssumption DEF ChanInit, Init, OwnerInv, ChannelAssumption
<1>5. ListedInv
  <2>1. \A c \in Channels : \A t \in Topics : DOMAIN handlers[c][t] = {}
    BY DEF ChanInit
  <2>2. \A h \in Handlers : sub[h] # "ok"
    BY DEF ChanInit
  <2> QED
    BY <2>1, <2>2 DEF ListedInv
<1>6. OnceInv
  BY DEF ChanInit, Init, newPubSubServer, OnceInv
<1>7. QueueInv
  BY ChannelAssumption DEF ChanInit, Init, QueueInv, limit, ChannelAssumption
<1>8. VerdictInv /\ RanInv
  BY DEF ChanInit, VerdictInv, RanInv
<1>9. CallsInv /\ AudienceInv
  BY DEF ChanInit, Init, CallsInv, AudienceInv
<1> QED
  BY <1>1, <1>2, <1>3, <1>4, <1>5, <1>6, <1>7, <1>8, <1>9 DEF ChanInv

\* One stream and one receiver per topic, one Send of a message per stream, and
\* dispatches that go through the handlers in turn: together they are kept by every step
\* of the Channels and of the server below.
THEOREM ChanInvariance == ChanSpec => []ChanInv
<1>1. ChanSpec => []IInv
  BY ServerBelow, Invariance, PTL
<1>2. ChanInv /\ [ChanNext]_chanVars /\ IInv' => ChanInv'
  <2> SUFFICES ASSUME ChanInv, [ChanNext]_chanVars, IInv' PROVE ChanInv'
    OBVIOUS
  <2>1. Flags'
    BY FlagsStep DEF ChanInv
  <2>2. ClientTypes' /\ SubInv' /\ OwnerInv' /\ ListedInv' /\ OnceInv' /\ AudienceInv'
    BY ClientTypeStep, SubStep, OwnerStep, ListedStep, OnceStep, AudienceStep
  <2>3. TypeOK
    BY DEF ChanInv, IInv
  <2>4. QueueInv' /\ VerdictInv' /\ RanInv' /\ CallsInv'
    BY <2>3, DispatchFrame, CalmStep, RecvStep, TurnQueueStep, TurnRanStep, TurnCallsStep
  <2> QED
    BY <2>1, <2>2, <2>4 DEF ChanInv
<1> QED
  BY <1>1, <1>2, ChanInitLemma, PTL DEF ChanSpec

\* The maps, the states of Subscribe and Publish calls and of the receivers, and the
\* server's variables always have their types.
THEOREM ChanTypeCorrect == ChanSpec => []ChanTypeOK
<1>1. ChanInv => ChanTypeOK
  BY DEF ChanInv, IInv, Flags, ClientTypes, ChanTypeOK
<1> QED
  BY <1>1, ChanInvariance, PTL

\* A handler that is done with a message is never called with it again: only the stream
\* that serves the topic can bring the message, it brings it once, and its dispatch has
\* passed the handler.
THEOREM HandledOnceTheorem == ChanSpec => HandledOnce
<1>1. ASSUME ChanInv, [ChanNext]_chanVars, NEW h \in Handlers, NEW m \in Msgs, verdict[h][m] # "none"
      PROVE  calls(h, m)' = calls(h, m)
  <2>0. TypeOK /\ ClientTypes
    BY <1>1 DEF ChanInv, IInv
  <2>1. CASE ran' = ran
    BY <2>1 DEF calls
  <2>2. ASSUME NEW s \in Streams, Turn(s) PROVE calls(h, m)' = calls(h, m)
    <3>1. PICK g \in Handlers, n \in Msgs :
               verdict[g][n] = "none" /\ ran' = [ran EXCEPT ![g] = Append(ran[g], n)]
      <4>1. /\ Head(queue[s]) \in Handlers /\ current(s) \in Msgs
            /\ verdict[Head(queue[s])][current(s)] = "none"
            /\ ran' = [ran EXCEPT ![Head(queue[s])] = Append(ran[Head(queue[s])], current(s))]
        BY <1>1, <2>2, TurnEffect, Zenon
      <4> QED
        BY <4>1
    <3>2. \A f \in Handlers : \A p \in Msgs :
            calls(f, p) \in Nat /\ calls(f, p)' = calls(f, p) + (IF f = g /\ p = n THEN 1 ELSE 0)
      BY <2>0, <3>1, CallsEffect
    <3>3. calls(h, m) \in Nat /\ calls(h, m)' = calls(h, m) + 0
      BY <1>1, <3>1, <3>2
    <3> QED
      BY <3>3
  <2> QED
    BY <1>1, <2>0, <2>1, <2>2, DispatchFrame DEF Recv
<1>2. ChanInv /\ [ChanNext]_chanVars =>
        [\A h \in Handlers : \A m \in Msgs : verdict[h][m] # "none" => calls(h, m)' = calls(h, m)]_chanVars
  BY <1>1
<1> QED
  BY <1>2, ChanInvariance, PTL DEF ChanSpec, HandledOnce

\* Any two handlers are called with the messages they share in one order, retries
\* included: that of the tickets their Publish calls drew on the server.
THEOREM HandlerOrderTheorem == ChanSpec => []HandlerOrder
<1>1. ChanInv => HandlerOrder
  <2> SUFFICES ASSUME ChanInv, NEW h1 \in Handlers, NEW h2 \in Handlers,
                      NEW i1 \in DOMAIN ran[h1], NEW j1 \in DOMAIN ran[h1],
                      NEW i2 \in DOMAIN ran[h2], NEW j2 \in DOMAIN ran[h2],
                      i1 < j1, j2 < i2, ran[h1][i1] = ran[h2][i2], ran[h1][j1] = ran[h2][j2]
               PROVE  ran[h1][i1] = ran[h1][j1]
    BY DEF HandlerOrder
  <2>0. TypeOK /\ ClientTypes /\ TicketInv /\ RanInv
    BY DEF ChanInv, IInv
  <2>1. \A h \in Handlers : DOMAIN ran[h] = 1..Len(ran[h]) /\ Len(ran[h]) \in Nat
    BY <2>0 DEF ClientTypes
  <2>2. i1 \in 1..Len(ran[h1]) /\ j1 \in 1..Len(ran[h1]) /\ i2 \in 1..Len(ran[h2]) /\ j2 \in 1..Len(ran[h2])
    BY <2>1
  <2>3. i1 <= j1 /\ j2 <= i2
    BY <2>1, <2>2
  <2>4. ticket[ran[h1][i1]] <= ticket[ran[h1][j1]]
    BY <2>0, <2>2, <2>3 DEF RanInv
  <2>5. ticket[ran[h2][j2]] <= ticket[ran[h2][i2]]
    BY <2>0, <2>2, <2>3 DEF RanInv
  <2>6. ran[h1][i1] \in Msgs /\ ran[h1][j1] \in Msgs /\ ticket[ran[h1][i1]] > 0
    BY <2>2, RanFacts
  <2>7. ticket[ran[h1][i1]] \in Nat /\ ticket[ran[h1][j1]] \in Nat
    BY <2>0, <2>6 DEF TypeOK
  <2>8. ticket[ran[h1][i1]] = ticket[ran[h1][j1]]
    BY <2>4, <2>5, <2>7
  <2> QED
    BY <2>0, <2>6, <2>8 DEF TicketInv
<1> QED
  BY <1>1, ChanInvariance, PTL

\* A handler gives a message up after exactly 1 + retryTimes calls, and a receiver that
\* is through with a message has a verdict of every handler that was subscribed when the
\* message was published.
THEOREM SettledTheorem == ChanSpec => []Settled
<1>1. ChanInv => Settled
  <2> SUFFICES ASSUME ChanInv PROVE Settled
    OBVIOUS
  <2>0. ClientTypes /\ CallsInv /\ AudienceInv
    BY DEF ChanInv
  <2>1. \A h \in Handlers : \A m \in Msgs : verdict[h][m] \in {"failed", "escalated"} =>
          calls(h, m) = 1 + (IF retryTimes > 0 THEN retryTimes ELSE 0)
    BY <2>0 DEF CallsInv, limit
  <2>2. ASSUME NEW s \in Streams, queue[s] = << >>, NEW i \in 1..got[s], NEW h \in audience[sent[s][i]],
               topicStream(h, s), verdict[h][sent[s][i]] = "none"
        PROVE  FALSE
    <3>1. \E j \in 1..Len(queue[s]) : queue[s][j] = h
      BY <2>0, <2>2 DEF AudienceInv
    <3>2. Len(queue[s]) = 0
      BY <2>2
    <3> QED
      BY <3>1, <3>2
  <2> QED
    BY <2>1, <2>2 DEF Settled
<1> QED
  BY <1>1, ChanInvariance, PTL

-----------------------------------------------------------------------------
(* No message is skipped.                                                   *)

\* While a stream is in the list of message m since before m was served, a message
\* with a later ticket is on it only behind m; and the process that served m lives.
SkipInv ==
  \A m \in Msgs : \A e \in subscribers[key(Dest[m])] : e.n < ticket[m] =>
    /\ call[m] # "lost"
    /\ \A n \in Received(e.stream) : ticket[m] < ticket[n] => m \in Received(e.stream)

\* A later message is sent only when the Publish of m is over, and then m is on every
\* stream that is still connected; a broken stream gets nothing any more.
LEMMA SkipStep == ASSUME IInv, SkipInv, [Next]_vars PROVE SkipInv'
<1>0. /\ TypeOK /\ MutexInv /\ TicketInv /\ OrderInv /\ ListInv /\ CompleteInv
      /\ \A k \in Keys : \A e \in subscribers[k] : e.n \in Nat /\ e.stream \in Streams
      /\ \A m \in Msgs : ticket[m] \in Nat /\ key(Dest[m]) \in Keys
  BY KeysLemma DEF IInv, TypeOK, Subscriber
<1>1. ASSUME \A k \in Keys : subscribers'[k] \subseteq subscribers[k], UNCHANGED <<sent, ticket>>,
             \A m \in Msgs : call'[m] = "lost" => call[m] = "lost"
      PROVE  SkipInv'
  <2>1. \A s \in Streams : Received(s)' = Received(s)
    BY <1>1 DEF Received
  <2> QED
    BY <1>0, <1>1, <2>1 DEF SkipInv
<1>2. CASE StartServe \/ Crash
  BY <1>0, <1>2 DEF StartServe, Crash, newPubSubServer, SkipInv
<1>3. ASSUME NEW s \in Streams, SubscribeAdd(s) PROVE SkipInv'
  <2>1. /\ UNCHANGED <<sent, ticket, call>> /\ clock \in Nat
        /\ \A k \in Keys : \A e \in subscribers'[k] : e \in subscribers[k] \/ e.n = clock + 1
    BY <1>0, <1>3 DEF SubscribeAdd, TypeOK, transport
  <2>2. \A r \in Streams : Received(r)' = Received(r)
    BY <2>1 DEF Received
  <2>3. \A m \in Msgs : ticket[m] <= clock
    BY <1>0 DEF TicketInv
  <2>4. \A m \in Msgs : \A e \in subscribers'[key(Dest[m])] :
          e.n < ticket'[m] => e \in subscribers[key(Dest[m])] /\ e.n < ticket[m]
    BY <1>0, <2>1, <2>3
  <2> QED
    BY <1>0, <2>1, <2>2, <2>4 DEF SkipInv
<1>4. ASSUME NEW x \in Msgs, PublishLock(x) PROVE SkipInv'
  <2>1. /\ UNCHANGED <<sent, subscribers>> /\ clock \in Nat
        /\ \A m \in Msgs : ticket'[m] = IF m = x THEN clock + 1 ELSE ticket[m]
        /\ \A m \in Msgs : call'[m] = "lost" => m # x /\ call[m] = "lost"
        /\ ticket[x] = 0
    BY <1>0, <1>4 DEF PublishLock, TypeOK, TicketInv, transport
  <2>2. \A r \in Streams : Received(r)' = Received(r)
    BY <2>1 DEF Received
  <2>3. \A m \in Msgs : ticket[m] <= clock
    BY <1>0 DEF TicketInv
  <2>4. \A r \in Streams : \A n \in Received(r) : n \in Msgs /\ n # x
    <3> SUFFICES ASSUME NEW r \in Streams, NEW i \in DOMAIN sent[r] PROVE sent[r][i] \in Msgs /\ sent[r][i] # x
      BY DEF Received
    <3>1. sent[r] \in Seq(Msgs) /\ i \in 1..Len(sent[r])
      BY <1>0 DEF TypeOK
    <3>2. ticket[sent[r][i]] > 0
      BY <1>0, <3>1 DEF OrderInv
    <3> QED
      BY <2>1, <3>1, <3>2
  <2> SUFFICES ASSUME NEW m \in Msgs, NEW e \in subscribers[key(Dest[m])], e.n < ticket'[m]
               PROVE  /\ call'[m] # "lost"
                      /\ \A n \in Received(e.stream) : ticket'[m] < ticket'[n] => m \in Received(e.stream)
    BY <1>0, <2>1, <2>2 DEF SkipInv
  <2>5. CASE m = x
    BY <1>0, <2>1, <2>3, <2>4, <2>5
  <2>6. CASE m # x
    BY <1>0, <2>1, <2>4, <2>6 DEF SkipInv
  <2> QED
    BY <2>5, <2>6
<1>5. ASSUME NEW x \in Msgs, PublishSend(x) PROVE SkipInv'
  <2>1. UNCHANGED <<subscribers, ticket, call, stream>> /\ call[x] = "sending"
    BY <1>0, <1>5 DEF PublishSend, MutexInv
  <2>2. PICK e \in todo[x] :
          /\ e.stream \in Streams
          /\ \A s \in Streams : Received(s) \subseteq Received(s)'
          /\ \A s \in Streams :
               \/ Received(s)' = Received(s)
               \/ s = e.stream /\ stream[s] = "open" /\ Received(s)' \subseteq Received(s) \cup {x}
    <3>1. PICK e \in todo[x] : PublishSend(x)!(e)
      BY <1>5 DEF PublishSend
    <3>2. e.stream \in Streams /\ sent \in [Streams -> Seq(Msgs)]
      BY <1>0 DEF TypeOK, Subscriber
    <3>3. CASE sent' = sent
      BY <3>2, <3>3 DEF Received
    <3>4. CASE stream[e.stream] = "open" /\ sent' = [sent EXCEPT ![e.stream] = Append(@, x)]
      <4>1. sent[e.stream] \in Seq(Msgs) /\ sent'[e.stream] = Append(sent[e.stream], x)
        BY <3>2, <3>4
      <4>2. Received(e.stream)' = Received(e.stream) \cup {x}
        <5>1. Received(e.stream)' = {Append(sent[e.stream], x)[i] : i \in DOMAIN Append(sent[e.stream], x)}
          BY <4>1 DEF Received
        <5> QED
          BY <4>1, <5>1, AppendRange DEF Received
      <4>3. \A s \in Streams : s # e.stream => sent'[s] = sent[s]
        BY <3>2, <3>4
      <4>4. \A s \in Streams : s # e.stream => Received(s)' = Received(s)
        BY <4>3 DEF Received
      <4> QED
        BY <3>2, <3>4, <4>2, <4>4
    <3> QED
      BY <3>1, <3>3, <3>4
  <2> SUFFICES ASSUME NEW m \in Msgs, NEW f \in subscribers[key(Dest[m])], f.n < ticket[m],
                      NEW n \in Received(f.stream)', ticket[m] < ticket[n]
               PROVE  m \in Received(f.stream)'
    BY <1>0, <2>1 DEF SkipInv
  <2>3. f.stream \in Streams
    BY <1>0
  <2>4. CASE n \in Received(f.stream)
    BY <2>2, <2>3, <2>4 DEF SkipInv
  <2>5. CASE n = x /\ stream[f.stream] = "open"
    <3>1. m # x /\ call[m] # "sending" /\ todo[m] = {}
      BY <1>0, <2>1, <2>5 DEF MutexInv
    <3>2. call[m] = "done"
      <4>1. call[m] # "lost"
        BY DEF SkipInv
      <4>2. f.n \in Nat /\ ticket[m] \in Nat
        BY <1>0
      <4>3. ticket[m] # 0
        BY <4>2
      <4>4. call[m] \notin {"idle", "called"}
        BY <1>0, <4>3 DEF TicketInv
      <4> QED
        BY <1>0, <3>1, <4>1, <4>4 DEF TypeOK
    <3>3. m \in Received(f.stream)
      BY <1>0, <2>5, <3>1, <3>2 DEF CompleteInv
    <3> QED
      BY <2>2, <2>3, <3>3
  <2> QED
    BY <2>2, <2>3, <2>4, <2>5
<1>6. \/ StartServe \/ Crash
      \/ \E s \in Streams : SubscribeAdd(s)
      \/ \E x \in Msgs : PublishLock(x) \/ PublishSend(x)
      \/ /\ \A k \in Keys : subscribers'[k] \subseteq subscribers[k]
         /\ UNCHANGED <<sent, ticket>>
         /\ \A m \in Msgs : call'[m] = "lost" => call[m] = "lost"
  BY <1>0 DEF Next, vars, srv, transport, Stop, Disconnect, StreamNext, OpenStream, ClientRecv, Request,
     SubscribeRecv, SubscribeEnd, CallNext, PublishCall, PublishReturn, TypeOK
<1> QED
  BY <1>1, <1>2, <1>3, <1>4, <1>5, <1>6

LEMMA SkipInvariance == ChanSpec => []SkipInv
<1>1. Init => SkipInv
  BY KeysLemma DEF Init, SkipInv, newPubSubServer
<1>2. Spec => []SkipInv
  BY <1>1, SkipStep, Invariance, PTL DEF Spec
<1> QED
  BY <1>2, ServerBelow, PTL

\* Whatever fails, breaks or times out during a Publish, a handler is called with a later
\* message only when it has settled this one, if its Subscribe had returned before the
\* Publish and the server had registered its stream.
THEOREM NoneSkippedTheorem == ChanSpec => []NoneSkipped
<1>1. ChanInv /\ SkipInv => NoneSkipped
  <2> SUFFICES ASSUME ChanInv, SkipInv, NEW h \in Handlers, NEW s \in Streams, NEW m \in Msgs, NEW n \in Msgs,
                      receiving[s], topicStream(h, s), h \in audience[m],
                      NEW e \in subscribers[key(Dest[m])], e.stream = s, e.n < ticket[m],
                      calls(h, n) > 0, ticket[m] < ticket[n], verdict[h][m] = "none"
               PROVE  FALSE
    BY DEF NoneSkipped
  <2>0. /\ TypeOK /\ ClientTypes /\ OrderInv /\ SubInv /\ QueueInv /\ RanInv /\ AudienceInv
        /\ sent[s] \in Seq(Msgs) /\ got[s] \in Nat /\ got[s] <= Len(sent[s])
        /\ ticket[m] \in Nat /\ ticket[n] \in Nat
    BY DEF ChanInv, IInv, TypeOK, QueueInv
  <2>1. PICK j \in 1..Len(ran[h]) : ran[h][j] = n
    <3>1. DOMAIN ran[h] = 1..Len(ran[h])
      BY <2>0 DEF ClientTypes
    <3>2. {i \in DOMAIN ran[h] : ran[h][i] = n} # {}
      BY FS_EmptySet DEF calls
    <3> QED
      BY <3>1, <3>2
  <2>2. PICK r \in Streams : serves(r, h) /\ \E k \in 1..got[r] : sent[r][k] = n
    BY <2>0, <2>1 DEF RanInv
  <2>3. r = s
    BY <2>0, <2>2 DEF SubInv, serves, sameTopic, topicStream
  <2>4. PICK k \in 1..got[s] : sent[s][k] = n
    BY <2>2, <2>3
  <2>5. PICK i \in 1..Len(sent[s]) : sent[s][i] = m
    <3>1. n \in Received(s)
      BY <2>0, <2>4 DEF Received
    <3>2. m \in Received(s)
      BY <3>1 DEF SkipInv
    <3> QED
      BY <2>0, <3>2 DEF Received
  <2>6. i < k
    <3>1. k \in 1..Len(sent[s]) /\ i \in 1..Len(sent[s]) /\ i # k
      BY <2>0, <2>4, <2>5
    <3>2. k < i => ticket[n] <= ticket[m]
      BY <2>0, <2>4, <2>5, <3>1 DEF OrderInv
    <3> QED
      BY <2>0, <3>1, <3>2
  <2>7. i \in 1..got[s] /\ i # got[s]
    BY <2>0, <2>4, <2>5, <2>6
  <2> QED
    BY <2>0, <2>5, <2>7 DEF AudienceInv
<1> QED
  BY <1>1, ChanInvariance, SkipInvariance, PTL
=============================================================================
