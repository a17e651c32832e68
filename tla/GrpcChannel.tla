----------------------------- MODULE GrpcChannel -----------------------------
(***************************************************************************)
(* The client side of watermill/grpcchannel (pubsub.go) on top of its       *)
(* server: Channels that Publish, Subscribe handlers to topics and Close.   *)
(* A Subscribe call holds subsMu while it opens the stream of a topic's     *)
(* first handler and sends the request; later handlers join the list.  One  *)
(* receiver goroutine per stream hands each message to the handlers in      *)
(* turn, with retries, before it receives the next.                         *)
(***************************************************************************)
EXTENDS PubSubServer

CONSTANTS
  Channels,         \* client Channels (the serving one is StartServe and Stop)
  Handlers,         \* MessageHandlers, each passed to one Subscribe call
  ChannelOf,        \* the Channel that publishes a message or adds a handler
  Namespace,        \* Channel.Namespace, set before the Channel is used
  TopicOf,          \* the topic a handler is subscribed to
  retryTimes,       \* Channel.retryTimes
  hasErrorHandler   \* Channel.errorHandler is set

NoHandler == "none"

ASSUME ChannelAssumption ==
  /\ ChannelOf \in [Msgs \cup Handlers -> Channels]
  /\ Namespace \in [Channels -> Namespaces]
  /\ TopicOf \in [Handlers -> Topics]
  /\ \A m \in Msgs : Dest[m].namespace = Namespace[ChannelOf[m]]
  /\ retryTimes \in Int /\ hasErrorHandler \in BOOLEAN
  /\ MaxReq >= 1 /\ NoHandler \notin Handlers

VARIABLES
  closed,     \* Close was called on the Channel
  handlers,   \* Channel.handlers, by topic; an absent topic has << >>
  sub,        \* Subscribe call of a handler: "idle", "open", "send", "start", "ok", "err"
  owner,      \* the handler whose Subscribe opened a stream
  receiving,  \* the receiver goroutine of a stream has started
  queue,      \* handlers of the message being dispatched, from the current one
  tries,      \* failed calls of the current handler
  ret,        \* Channel.Publish of a message: "idle", "pending", "ok", "err"
  ran,        \* history: the messages each handler was called with, in order
  verdict,    \* history: "none", "ok", "failed", or "escalated" to errorHandler
  audience    \* history: handlers whose Subscribe had returned nil at Publish

client == <<closed, handlers, sub, owner, receiving, queue, tries, ret, ran, verdict, audience>>
chanVars == <<vars, client>>

ChanTypeOK ==
  /\ TypeOK
  /\ closed \in [Channels -> BOOLEAN]
  /\ handlers \in [Channels -> [Topics -> Seq(Handlers)]]
  /\ sub \in [Handlers -> {"idle", "open", "send", "start", "ok", "err"}]
  /\ owner \in [Streams -> Handlers \cup {NoHandler}]
  /\ receiving \in [Streams -> BOOLEAN]
  /\ queue \in [Streams -> Seq(Handlers)]
  /\ tries \in [Streams -> Nat]
  /\ ret \in [Msgs -> {"idle", "pending", "ok", "err"}]
  /\ ran \in [Handlers -> Seq(Msgs)]
  /\ verdict \in [Handlers -> [Msgs -> {"none", "ok", "failed", "escalated"}]]
  /\ audience \in [Msgs -> SUBSET Handlers]

\* New: no connection, no handlers.
ChanInit ==
  /\ Init
  /\ closed = [c \in Channels |-> FALSE]
  /\ handlers = [c \in Channels |-> [t \in Topics |-> << >>]]
  /\ sub = [h \in Handlers |-> "idle"]
  /\ owner = [s \in Streams |-> NoHandler]
  /\ receiving = [s \in Streams |-> FALSE]
  /\ queue = [s \in Streams |-> << >>]
  /\ tries = [s \in Streams |-> 0]
  /\ ret = [m \in Msgs |-> "idle"]
  /\ ran = [h \in Handlers |-> << >>]
  /\ verdict = [h \in Handlers |-> [m \in Msgs |-> "none"]]
  /\ audience = [m \in Msgs |-> {}]

-----------------------------------------------------------------------------
(* Channel.Subscribe(TopicOf[h], h).                                        *)

\* subsMu of channel c is held by a Subscribe between Lock and Unlock.
subsMu(c) == \E h \in Handlers : ChannelOf[h] = c /\ sub[h] \in {"open", "send", "start"}

handlersOf(h) == handlers[ChannelOf[h]][TopicOf[h]]

setHandlers(h, list) == handlers' = [handlers EXCEPT ![ChannelOf[h]][TopicOf[h]] = list]

\* Fault: Subscribe opens a stream for every handler.
alwaysOpen(h) ==
  /\ sub[h] = "idle" /\ ~subsMu(ChannelOf[h])
  /\ sub' = [sub EXCEPT ![h] = "open"]
  /\ UNCHANGED <<vars, closed, handlers, owner, receiving, queue, tries, ret, ran, verdict, audience>>

\* Lock subsMu; a topic that has handlers gets one more, and that is all.
SubscribeLock(h) ==
  /\ sub[h] = "idle" /\ ~subsMu(ChannelOf[h])
  /\ \/ /\ handlersOf(h) # << >>
        /\ setHandlers(h, Append(handlersOf(h), h))
        /\ sub' = [sub EXCEPT ![h] = "ok"]
     \/ /\ handlersOf(h) = << >>
        /\ sub' = [sub EXCEPT ![h] = "open"]
        /\ UNCHANGED handlers
  /\ UNCHANGED <<vars, closed, owner, receiving, queue, tries, ret, ran, verdict, audience>>

\* client.Subscribe opens the stream.
SubscribeOpen(h, s) ==
  /\ sub[h] = "open" /\ ~closed[ChannelOf[h]] /\ OpenStream(s)
  /\ owner' = [owner EXCEPT ![s] = h]
  /\ sub' = [sub EXCEPT ![h] = "send"]
  /\ UNCHANGED <<closed, handlers, receiving, queue, tries, ret, ran, verdict, audience>>

\* stream.Send of the request.  On a broken stream it may still succeed.
SubscribeSend(h, s) ==
  /\ sub[h] = "send" /\ owner[s] = h
  /\ \/ Request(s, [namespace |-> Namespace[ChannelOf[h]], topic |-> TopicOf[h]])
     \/ stream[s] = "broken" /\ UNCHANGED vars
  /\ sub' = [sub EXCEPT ![h] = "start"]
  /\ UNCHANGED <<closed, handlers, owner, receiving, queue, tries, ret, ran, verdict, audience>>

\* Opening the stream fails, or Send on it.
SubscribeFail(h) ==
  /\ \/ sub[h] = "open"
     \/ sub[h] = "send" /\ \E s \in Streams : owner[s] = h /\ stream[s] = "broken"
  /\ sub' = [sub EXCEPT ![h] = "err"]
  /\ UNCHANGED <<vars, closed, handlers, owner, receiving, queue, tries, ret, ran, verdict, audience>>

\* handlers.Set, the start of the receiver goroutine, Unlock and return.
SubscribeStart(h, s) ==
  /\ sub[h] = "start" /\ owner[s] = h
  /\ setHandlers(h, <<h>>)
  /\ receiving' = [receiving EXCEPT ![s] = TRUE]
  /\ sub' = [sub EXCEPT ![h] = "ok"]
  /\ UNCHANGED <<vars, closed, owner, queue, tries, ret, ran, verdict, audience>>

-----------------------------------------------------------------------------
(* The receiver goroutine of stream s and dispatchMessages.  When Recv      *)
(* fails the goroutine calls it again, for ever: no step changes any state. *)

\* Recv returns a message; dispatchMessages reads the handlers of the topic.
Recv(s) ==
  /\ receiving[s] /\ queue[s] = << >> /\ ClientRecv(s)
  /\ queue' = [queue EXCEPT ![s] = handlersOf(owner[s])]
  /\ UNCHANGED <<closed, handlers, sub, owner, receiving, tries, ret, ran, verdict, audience>>

current(s) == sent[s][got[s]]

called(h, m) == ran' = [ran EXCEPT ![h] = Append(@, m)]

\* The loop of dispatchMessages goes on with the next handler.
nextHandler(s, result) ==
  /\ verdict' = [verdict EXCEPT ![Head(queue[s])][current(s)] = result]
  /\ queue' = [queue EXCEPT ![s] = Tail(@)]
  /\ tries' = [tries EXCEPT ![s] = 0]

HandlerOk(s) ==
  /\ queue[s] # << >>
  /\ called(Head(queue[s]), current(s))
  /\ nextHandler(s, "ok")
  /\ UNCHANGED <<vars, closed, handlers, sub, owner, receiving, ret, audience>>

\* The call fails and retryMessage makes another.
HandlerRetry(s) ==
  /\ queue[s] # << >> /\ tries[s] < retryTimes
  /\ called(Head(queue[s]), current(s))
  /\ tries' = [tries EXCEPT ![s] = @ + 1]
  /\ UNCHANGED <<vars, closed, handlers, sub, owner, receiving, queue, ret, verdict, audience>>

\* Fault: the first handler that gives up ends the dispatch.
giveUpDispatch(s) ==
  /\ queue[s] # << >> /\ tries[s] >= retryTimes
  /\ called(Head(queue[s]), current(s))
  /\ verdict' = [verdict EXCEPT ![Head(queue[s])][current(s)] = "failed"]
  /\ queue' = [queue EXCEPT ![s] = << >>]
  /\ tries' = [tries EXCEPT ![s] = 0]
  /\ UNCHANGED <<vars, closed, handlers, sub, owner, receiving, ret, audience>>

\* Fault: the error of a handler that gives up ends the receiver goroutine.
failAndReturn(s) ==
  /\ queue[s] # << >> /\ tries[s] >= retryTimes
  /\ called(Head(queue[s]), current(s))
  /\ nextHandler(s, "failed")
  /\ receiving' = [receiving EXCEPT ![s] = FALSE]
  /\ UNCHANGED <<vars, closed, handlers, sub, owner, ret, audience>>

\* The last call fails too: errorHandler is run, but not when retryMessage
\* returned at once because retryTimes <= 0.
HandlerFail(s) ==
  /\ queue[s] # << >> /\ tries[s] >= retryTimes
  /\ called(Head(queue[s]), current(s))
  /\ nextHandler(s, IF retryTimes > 0 /\ hasErrorHandler THEN "escalated" ELSE "failed")
  /\ UNCHANGED <<vars, closed, handlers, sub, owner, receiving, ret, audience>>

-----------------------------------------------------------------------------
(* Channel.Publish and Channel.Close.                                       *)

Publish(m) ==
  /\ ret[m] = "idle"
  /\ audience' = [audience EXCEPT ![m] = {h \in Handlers : sub[h] = "ok"}]
  /\ \/ ~closed[ChannelOf[m]] /\ PublishCall(m) /\ ret' = [ret EXCEPT ![m] = "pending"]
     \/ /\ closed[ChannelOf[m]] \/ server # "serving"
        /\ ret' = [ret EXCEPT ![m] = "err"] /\ UNCHANGED vars
  /\ UNCHANGED <<closed, handlers, sub, owner, receiving, queue, tries, ran, verdict>>

\* The server's answer arrives.
PublishOk(m) ==
  /\ ret[m] = "pending" /\ call[m] = "done"
  /\ ret' = [ret EXCEPT ![m] = "ok"]
  /\ UNCHANGED <<vars, closed, handlers, sub, owner, receiving, queue, tries, ran, verdict, audience>>

\* Fault: the server's loop ends with the caller's ctx.
cancelPublish(m) ==
  /\ ret[m] = "pending"
  /\ ret' = [ret EXCEPT ![m] = "err"]
  /\ todo' = [todo EXCEPT ![m] = {}]
  /\ UNCHANGED <<server, transport, mu, subscribers, handler, taken, call, ticket, clock, breaks>>
  /\ UNCHANGED <<closed, handlers, sub, owner, receiving, queue, tries, ran, verdict, audience>>

\* The connection is gone, or ctx ends first: the server may still be pushing
\* the message, or do so later.
PublishErr(m) ==
  /\ ret[m] = "pending"
  /\ ret' = [ret EXCEPT ![m] = "err"]
  /\ UNCHANGED <<vars, closed, handlers, sub, owner, receiving, queue, tries, ran, verdict, audience>>

\* getConnServer has set connServer: a Publish or a Subscribe was there.
connServer(c) ==
  \/ \E m \in Msgs : ChannelOf[m] = c /\ ret[m] # "idle"
  \/ \E h \in Handlers : ChannelOf[h] = c /\ sub[h] # "idle"

\* connServer.Close; the field stays set, so the Channel is not usable again.
Close(c) ==
  LET S == {s \in openStreams : ChannelOf[owner[s]] = c} IN
  /\ connServer(c) /\ ~closed[c]
  /\ closed' = [closed EXCEPT ![c] = TRUE]
  /\ Disconnect(S) \/ (S = {} /\ UNCHANGED vars)
  /\ UNCHANGED <<handlers, sub, owner, receiving, queue, tries, ret, ran, verdict, audience>>

-----------------------------------------------------------------------------
SubscribeNext(h) ==
  \/ SubscribeLock(h) \/ SubscribeFail(h)
  \/ \E s \in Streams : SubscribeOpen(h, s) \/ SubscribeSend(h, s) \/ SubscribeStart(h, s)

ReceiverNext(s) == Recv(s) \/ HandlerOk(s) \/ HandlerRetry(s) \/ HandlerFail(s)

\* The server and the network, as in PubSubServer.
ServerNext ==
  /\ \/ StartServe \/ Stop \/ Crash
     \/ \E S \in SUBSET Streams : Disconnect(S)
     \/ \E s \in Streams : SubscribeRecv(s) \/ SubscribeAdd(s) \/ SubscribeEnd(s)
     \/ \E m \in Msgs : PublishLock(m) \/ PublishSend(m) \/ PublishReturn(m)
  /\ UNCHANGED client

ChanNext ==
  \/ ServerNext
  \/ \E h \in Handlers : SubscribeNext(h)
  \/ \E s \in Streams : ReceiverNext(s)
  \/ \E m \in Msgs : Publish(m) \/ PublishOk(m) \/ PublishErr(m)
  \/ \E c \in Channels : Close(c)

(* sync.Mutex hands the lock to a waiter starved for a millisecond, so a    *)
(* server goroutine that finds mu free again and again gets it (SF).        *)
(* Goroutines that can run do run: Publish and Subscribe on the server; the *)
(* receivers and Subscribe calls of the client; handlers return, and an     *)
(* answer or an error ends a Publish (WF).                                  *)
ChanFairness ==
  /\ \A s \in Streams :
       /\ SF_chanVars(SubscribeAdd(s) /\ UNCHANGED client)
       /\ SF_chanVars(SubscribeEnd(s) /\ UNCHANGED client)
       /\ WF_chanVars(SubscribeRecv(s) /\ UNCHANGED client)
       /\ WF_chanVars(ReceiverNext(s))
  /\ \A m \in Msgs :
       /\ SF_chanVars(PublishLock(m) /\ UNCHANGED client)
       /\ WF_chanVars((PublishSend(m) \/ PublishReturn(m)) /\ UNCHANGED client)
       /\ WF_chanVars(PublishOk(m) \/ PublishErr(m))
  /\ \A h \in Handlers : WF_chanVars(sub[h] # "idle" /\ SubscribeNext(h))

ChanSpec == ChanInit /\ [][ChanNext]_chanVars

ChanFairSpec == ChanSpec /\ ChanFairness

-----------------------------------------------------------------------------
(* Properties.                                                              *)

calls(h, m) == Cardinality({i \in DOMAIN ran[h] : ran[h][i] = m})

topicStream(h, s) ==
  owner[s] # NoHandler /\ ChannelOf[owner[s]] = ChannelOf[h] /\ TopicOf[owner[s]] = TopicOf[h]

\* A handler that is done with a message, successfully or not, is never called
\* with it again: a topic has one stream and one receiver, however its
\* Subscribe calls race, fail and are repeated (pubsub.go Subscribe).
HandledOnce ==
  [][\A h \in Handlers : \A m \in Msgs :
       verdict[h][m] # "none" => calls(h, m)' = calls(h, m)]_chanVars

\* Any two handlers, of any Channels, see the messages they share in one order,
\* retries included: the server's order survives dispatchMessages.
HandlerOrder ==
  \A h1, h2 \in Handlers : \A i1, j1 \in DOMAIN ran[h1] : \A i2, j2 \in DOMAIN ran[h2] :
    i1 < j1 /\ j2 < i2 /\ ran[h1][i1] = ran[h2][i2] /\ ran[h1][j1] = ran[h2][j2]
      => ran[h1][i1] = ran[h1][j1]

\* A handler gives a message up after exactly 1 + retryTimes calls, and
\* no dispatch is over before every handler that was subscribed when the message
\* was published has a verdict, whichever others failed (dispatchMessages).
Settled ==
  /\ \A h \in Handlers : \A m \in Msgs :
       verdict[h][m] \in {"failed", "escalated"} =>
         calls(h, m) = 1 + (IF retryTimes > 0 THEN retryTimes ELSE 0)
  /\ \A s \in Streams : queue[s] = << >> =>
       \A i \in 1..got[s] : \A h \in audience[sent[s][i]] :
         topicStream(h, s) => verdict[h][sent[s][i]] # "none"

\* A handler that is called with a message has settled every earlier one that was
\* published after its Subscribe had returned and served after the server had
\* registered its stream: whoever failed, broke off or saw its ctx end during that
\* Publish, the message is not skipped (Publish on both sides, dispatchMessages).
NoneSkipped ==
  \A h \in Handlers : \A s \in Streams : \A m, n \in Msgs :
    /\ receiving[s] /\ topicStream(h, s) /\ h \in audience[m]
    /\ \E e \in subscribers[key(Dest[m])] : e.stream = s /\ e.n < ticket[m]
    /\ calls(h, n) > 0 /\ ticket[m] < ticket[n]
    => verdict[h][m] # "none"

\* A message put on a stream that stays connected reaches a verdict of every
\* handler that was subscribed before it was published, however slowly the
\* receiver goes through retries of earlier messages.
EventuallySettled ==
  \A s \in Streams : \A m \in Msgs : \A h \in Handlers :
    (m \in Received(s) /\ h \in audience[m] /\ topicStream(h, s))
      ~> (verdict[h][m] # "none" \/ stream[s] = "broken")

\* "The server keeps pushing messages": a subscribed topic of a Channel that is
\* not closed gets a connected stream again after its stream broke, as long
\* as there is a server.
KeepsPushing ==
  \A h \in Handlers : sub[h] = "ok" ~>
    \/ closed[ChannelOf[h]] \/ server # "serving"
    \/ \E s \in Streams : stream[s] = "open" /\ topicStream(h, s)
=============================================================================
