---------------------------- MODULE PubSubServer ----------------------------
(***************************************************************************)
(* The gRPC pub/sub server of watermill/grpcchannel/service.go: one         *)
(* pubSubServer whose Subscribe handlers (one goroutine per bidirectional   *)
(* stream) and Publish handlers (one goroutine per unary call) share the    *)
(* map `subscribers' under the mutex mu.  Publish keeps mu while it calls   *)
(* Send on every subscribed stream, and Send blocks when the flow-control   *)
(* window of its stream is full.                                            *)
(*                                                                          *)
(* The transport (google.golang.org/grpc) is external: a stream carries     *)
(* requests to the server and messages to the client in order, may break at *)
(* any moment, and loses an arbitrary tail of what it carried when it does. *)
(*                                                                          *)
(* The Go slice of subscribers under one key is the set of its elements,    *)
(* each with the number of the mu acquisition that appended it: their order *)
(* by number is their order in the slice.                                   *)
(***************************************************************************)
EXTENDS Integers, Sequences, FiniteSets

CONSTANTS
  Streams,      \* Subscribe streams a client may open
  Msgs,         \* Publish calls, each with a message of its own
  Namespaces,   \* names, as sequences of their "/"-separated segments;
  Topics,       \*   the empty name is << >>
  Dest,         \* the namespace and topic of each message
  Window,       \* messages a stream holds before Send blocks
  MaxReq,       \* bound: SubscribeRequests sent on one stream
  MaxBreaks     \* bound: disconnections, stops and crashes

Address == [namespace : Namespaces, topic : Topics]

ASSUME NamesAssumption ==
  /\ \A n \in Namespaces \cup Topics : n \in Seq(STRING)
  /\ Dest \in [Msgs -> Address]

ASSUME BoundsAssumption ==
  Window \in Nat \ {0} /\ MaxReq \in Nat /\ MaxBreaks \in Nat

VARIABLES
  server,       \* Channel.server of the serving process: "nil", "serving", "stopped"
  mu,           \* pubSubServer.mu is locked
  subscribers,  \* pubSubServer.subscribers; an absent key has the empty slice
  stream,       \* transport: "new", "open" or "broken"
  handler,      \* Subscribe goroutine: "none", "recv", "lock" (in mu.Lock), "end"
  reqs,         \* requests sent on each stream
  taken,        \* how many of them are in subscribers
  call,         \* Publish goroutine: "idle", "called", "sending", "done", "lost"
  todo,         \* subscribers the Publish of a message has not yet served
  sent,         \* messages Send has put on each stream
  got,          \* how many of them the client has received
  ticket,       \* the mu acquisition of each Publish, 0 before it
  clock,        \* mu acquisitions that registered or published
  breaks        \* of these so far

transport == <<stream, reqs, sent, got>>
srv  == <<mu, subscribers, handler, taken, call, todo, ticket, clock>>
vars == <<server, transport, srv, breaks>>

-----------------------------------------------------------------------------
(* Cache keys: fmt.Sprintf("%s/%s", ...) appends the segments of the two    *)
(* names, an empty name counting as "default".                              *)

orDefault(name) == IF name = << >> THEN <<"default">> ELSE name

\* Fault: the key forgets the namespace.
keyOfTopicOnly(namespace, topic) == orDefault(topic)

getCacheKey(namespace, topic) == orDefault(namespace) \o orDefault(topic)

key(a) == getCacheKey(a.namespace, a.topic)

Keys == {key(a) : a \in Address}

Subscriber == [n : Nat, stream : Streams]

-----------------------------------------------------------------------------
TypeOK ==
  /\ server \in {"nil", "serving", "stopped"}
  /\ mu \in BOOLEAN
  /\ subscribers \in [Keys -> SUBSET Subscriber]
  /\ stream \in [Streams -> {"new", "open", "broken"}]
  /\ handler \in [Streams -> {"none", "recv", "lock", "end"}]
  /\ reqs \in [Streams -> Seq(Address)]
  /\ taken \in [Streams -> Nat]
  /\ call \in [Msgs -> {"idle", "called", "sending", "done", "lost"}]
  /\ todo \in [Msgs -> SUBSET Subscriber]
  /\ sent \in [Streams -> Seq(Msgs)]
  /\ got \in [Streams -> Nat]
  /\ ticket \in [Msgs -> Nat]
  /\ clock \in Nat
  /\ breaks \in Nat

\* Fault: the map is never made (cmap.New missing).
nilMap == [k \in {} |-> {}]

newPubSubServer == [k \in Keys |-> {}]

Init ==
  /\ server = "nil"
  /\ mu = FALSE
  /\ subscribers = newPubSubServer
  /\ stream = [s \in Streams |-> "new"]
  /\ handler = [s \in Streams |-> "none"]
  /\ reqs = [s \in Streams |-> << >>]
  /\ taken = [s \in Streams |-> 0]
  /\ call = [m \in Msgs |-> "idle"]
  /\ todo = [m \in Msgs |-> {}]
  /\ sent = [s \in Streams |-> << >>]
  /\ got = [s \in Streams |-> 0]
  /\ ticket = [m \in Msgs |-> 0]
  /\ clock = 0
  /\ breaks = 0

-----------------------------------------------------------------------------
(* The serving process: Channel.StartServe, Channel.Close, and its death.   *)

Break(S) ==
  /\ breaks < MaxBreaks
  /\ breaks' = breaks + 1
  /\ stream' = [s \in Streams |-> IF s \in S THEN "broken" ELSE stream[s]]

openStreams == {s \in Streams : stream[s] = "open"}

\* StartServe returns at once when g.server is set, and Close leaves it set.
StartServe ==
  /\ server = "nil"
  /\ server' = "serving"
  /\ subscribers' = newPubSubServer
  /\ UNCHANGED <<transport, mu, handler, taken, call, todo, ticket, clock, breaks>>

\* grpc.Server.Stop closes the connections; handlers run on until they return.
Stop ==
  /\ server = "serving"
  /\ server' = "stopped"
  /\ Break(openStreams)
  /\ UNCHANGED <<srv, reqs, sent, got>>

Crash ==
  /\ server # "nil"
  /\ server' = "nil"
  /\ Break(openStreams)
  /\ handler' = [s \in Streams |-> IF handler[s] = "none" THEN "none" ELSE "end"]
  /\ call' = [m \in Msgs |-> IF call[m] \in {"called", "sending"} THEN "lost" ELSE call[m]]
  /\ todo' = [m \in Msgs |-> {}]
  /\ mu' = FALSE
  /\ subscribers' = newPubSubServer
  /\ UNCHANGED <<reqs, sent, got, taken, ticket, clock>>

-----------------------------------------------------------------------------
(* Transport and clients.                                                   *)

OpenStream(s) ==
  /\ server = "serving" /\ stream[s] = "new"
  /\ stream' = [stream EXCEPT ![s] = "open"]
  /\ handler' = [handler EXCEPT ![s] = "recv"]
  /\ UNCHANGED <<server, reqs, sent, got, mu, subscribers, taken, call, todo, ticket, clock, breaks>>

Request(s, a) ==
  /\ stream[s] = "open" /\ Len(reqs[s]) < MaxReq
  /\ reqs' = [reqs EXCEPT ![s] = Append(@, a)]
  /\ UNCHANGED <<server, stream, sent, got, srv, breaks>>

\* A connection is lost or closed, and with it the streams S on it.
Disconnect(S) ==
  /\ S # {} /\ S \subseteq openStreams
  /\ Break(S)
  /\ UNCHANGED <<server, reqs, sent, got, srv>>

ClientRecv(s) ==
  /\ got[s] < Len(sent[s])
  /\ got' = [got EXCEPT ![s] = @ + 1]
  /\ UNCHANGED <<server, stream, reqs, sent, srv, breaks>>

-----------------------------------------------------------------------------
(* pubSubServer.Subscribe, the goroutine of stream s.                       *)

\* stream.Recv returns a request.
SubscribeRecv(s) ==
  /\ handler[s] = "recv" /\ taken[s] < Len(reqs[s])
  /\ handler' = [handler EXCEPT ![s] = "lock"]
  /\ UNCHANGED <<server, transport, mu, subscribers, taken, call, todo, ticket, clock, breaks>>

\* Fault: the stream joins the list without taking mu.
addWithoutLock(s) ==
  LET k == key(reqs[s][taken[s] + 1]) IN
  /\ handler[s] = "lock"
  /\ clock' = clock + 1
  /\ subscribers' = [subscribers EXCEPT ![k] = @ \cup {[n |-> clock + 1, stream |-> s]}]
  /\ taken' = [taken EXCEPT ![s] = @ + 1]
  /\ handler' = [handler EXCEPT ![s] = "recv"]
  /\ UNCHANGED <<server, transport, mu, call, todo, ticket, breaks>>

\* Between mu.Lock and mu.Unlock: the stream joins the list of the key.
SubscribeAdd(s) ==
  LET k == key(reqs[s][taken[s] + 1]) IN
  /\ handler[s] = "lock" /\ ~mu
  /\ clock' = clock + 1
  /\ subscribers' = [subscribers EXCEPT ![k] = @ \cup {[n |-> clock + 1, stream |-> s]}]
  /\ taken' = [taken EXCEPT ![s] = @ + 1]
  /\ handler' = [handler EXCEPT ![s] = "recv"]
  /\ UNCHANGED <<server, transport, mu, call, todo, ticket, breaks>>

\* Fault: the stream is removed without taking mu.
removeWithoutLock(s) ==
  /\ handler[s] = "recv" /\ stream[s] = "broken"
  /\ subscribers' = [k \in Keys |-> {e \in subscribers[k] : e.stream # s}]
  /\ handler' = [handler EXCEPT ![s] = "end"]
  /\ UNCHANGED <<server, transport, mu, taken, call, todo, ticket, clock, breaks>>

\* stream.Recv fails (at once or after requests that did arrive);
\* removeSubscriber drops the stream from every list under mu.
SubscribeEnd(s) ==
  /\ handler[s] = "recv" /\ stream[s] = "broken" /\ ~mu
  /\ subscribers' = [k \in Keys |-> {e \in subscribers[k] : e.stream # s}]
  /\ handler' = [handler EXCEPT ![s] = "end"]
  /\ UNCHANGED <<server, transport, mu, taken, call, todo, ticket, clock, breaks>>

-----------------------------------------------------------------------------
(* pubSubServer.Publish, the goroutine of message m.                        *)

PublishCall(m) ==
  /\ server = "serving" /\ call[m] = "idle"
  /\ call' = [call EXCEPT ![m] = "called"]
  /\ UNCHANGED <<server, transport, mu, subscribers, handler, taken, todo, ticket, clock, breaks>>

\* Fault: Publish iterates without holding the lock.
publishWithoutLock(m) ==
  /\ call[m] = "called"
  /\ clock' = clock + 1
  /\ ticket' = [ticket EXCEPT ![m] = clock + 1]
  /\ todo' = [todo EXCEPT ![m] = subscribers[key(Dest[m])]]
  /\ call' = [call EXCEPT ![m] = "sending"]
  /\ UNCHANGED <<server, transport, mu, subscribers, handler, taken, breaks>>

PublishLock(m) ==
  /\ call[m] = "called" /\ ~mu
  /\ mu' = TRUE
  /\ clock' = clock + 1
  /\ ticket' = [ticket EXCEPT ![m] = clock + 1]
  /\ todo' = [todo EXCEPT ![m] = subscribers[key(Dest[m])]]
  /\ call' = [call EXCEPT ![m] = "sending"]
  /\ UNCHANGED <<server, transport, subscribers, handler, taken, breaks>>

first(q, e) == e \in q /\ \A f \in q : e.n <= f.n

\* Fault: the first failing Send ends the loop.
stopAtFirstError(m) ==
  \E e \in todo[m] :
    /\ first(todo[m], e)
    /\ \/ /\ stream[e.stream] = "open"
          /\ Len(sent[e.stream]) - got[e.stream] < Window
          /\ sent' = [sent EXCEPT ![e.stream] = Append(@, m)]
          /\ todo' = [todo EXCEPT ![m] = @ \ {e}]
       \/ /\ stream[e.stream] # "open"
          /\ todo' = [todo EXCEPT ![m] = {}]
          /\ UNCHANGED sent
    /\ UNCHANGED <<server, stream, reqs, got, mu, subscribers, handler, taken, call, ticket, clock, breaks>>

\* One stream.Send of lo.ForEach: it waits for room in the window of an
\* open stream; its error on a broken one is logged and the loop goes on.
PublishSend(m) ==
  \E e \in todo[m] :
    /\ first(todo[m], e)
    /\ todo' = [todo EXCEPT ![m] = @ \ {e}]
    /\ \/ /\ stream[e.stream] = "open"
          /\ Len(sent[e.stream]) - got[e.stream] < Window
          /\ sent' = [sent EXCEPT ![e.stream] = Append(@, m)]
       \/ /\ stream[e.stream] # "open"
          /\ UNCHANGED sent
    /\ UNCHANGED <<server, stream, reqs, got, mu, subscribers, handler, taken, call, ticket, clock, breaks>>

\* Fault: an early return leaves mu locked when nobody was served.
returnWithoutUnlock(m) ==
  /\ call[m] = "sending" /\ todo[m] = {}
  /\ mu' = (subscribers[key(Dest[m])] = {})
  /\ call' = [call EXCEPT ![m] = "done"]
  /\ UNCHANGED <<server, transport, subscribers, handler, taken, todo, ticket, clock, breaks>>

\* The deferred mu.Unlock and the return.
PublishReturn(m) ==
  /\ call[m] = "sending" /\ todo[m] = {}
  /\ mu' = FALSE
  /\ call' = [call EXCEPT ![m] = "done"]
  /\ UNCHANGED <<server, transport, subscribers, handler, taken, todo, ticket, clock, breaks>>

-----------------------------------------------------------------------------
StreamNext(s) ==
  \/ OpenStream(s) \/ ClientRecv(s)
  \/ \E a \in Address : Request(s, a)
  \/ SubscribeRecv(s) \/ SubscribeAdd(s) \/ SubscribeEnd(s)

CallNext(m) == PublishCall(m) \/ PublishLock(m) \/ PublishSend(m) \/ PublishReturn(m)

Next ==
  \/ StartServe \/ Stop \/ Crash
  \/ \E S \in SUBSET Streams : Disconnect(S)
  \/ \E s \in Streams : StreamNext(s)
  \/ \E m \in Msgs : CallNext(m)

Spec == Init /\ [][Next]_vars

-----------------------------------------------------------------------------
(* Properties.                                                              *)

Received(s) == {sent[s][i] : i \in DOMAIN sent[s]}

\* m1 was put on stream s before m2
Before(s, m1, m2) ==
  \E i, j \in DOMAIN sent[s] : i < j /\ sent[s][i] = m1 /\ sent[s][j] = m2

\* All streams see the messages they share in one and the same order, although
\* the Publish handlers that Send them run concurrently (service.go Publish).
TotalOrder ==
  \A s1, s2 \in Streams : \A m1, m2 \in Msgs :
    m1 # m2 /\ Before(s1, m1, m2) => ~Before(s2, m2, m1)

\* Send is never called on a stream whose Subscribe handler has returned, which
\* gRPC forbids: removeSubscriber waits for the Publish that holds the list.
NoSendAfterReturn ==
  \A m \in Msgs : \A e \in todo[m] : handler[e.stream] \in {"recv", "lock"}

\* When Publish has returned, every stream that was registered for its key
\* before it took mu, and is still connected, has been sent the message,
\* whatever the other subscribers did (service.go Publish).
PublishComplete ==
  \A m \in Msgs : call[m] = "done" =>
    \A e \in subscribers[key(Dest[m])] :
      e.n < ticket[m] /\ stream[e.stream] = "open" => m \in Received(e.stream)

\* A stream is only sent messages of a namespace and topic it asked for, the
\* empty name being "default".  (The names are single segments: see README.)
SameAddress(a, b) ==
  /\ orDefault(a.namespace) = orDefault(b.namespace)
  /\ orDefault(a.topic) = orDefault(b.topic)

Isolation ==
  \A s \in Streams : \A m \in Received(s) :
    \E i \in 1..taken[s] : SameAddress(reqs[s][i], Dest[m])

(* The server implements SerialBroadcast: taking mu begins a broadcast, the *)
(* deferred Unlock ends it, and the lists of the map are the members.       *)

Members == [k \in Keys |-> {s \in Streams : \E e \in subscribers[k] : e.stream = s}]
Begun   == {m \in Msgs : ticket[m] # 0}
Active  == {m \in Msgs : call[m] = "sending"}
Due     == {s \in Streams : \E m \in Msgs : \E e \in todo[m] : e.stream = s}

Broadcast == INSTANCE SerialBroadcast WITH
  KeyOf <- [m \in Msgs |-> key(Dest[m])], members <- Members, begun <- Begun,
  active <- Active, due <- Due, up <- openStreams, out <- sent

\* However Subscribe, Publish, removeSubscriber, broken streams and crashes of
\* the process interleave, clients see messages broadcast one at a time to all
\* the members of their key.
Broadcasts == Broadcast!BSpec

\* Every Publish that reached the server returns, unless its process dies: the
\* mutex is always released, slow, broken and late streams notwithstanding.
PublishReturns ==
  \A m \in Msgs : call[m] = "called" ~> call[m] \in {"done", "lost"}

\* A Subscribe handler whose stream broke gets mu and is gone from every list.
BrokenRemoved ==
  \A s \in Streams : stream[s] = "broken" ~>
    (handler[s] = "end" /\ \A k \in Keys : \A e \in subscribers[k] : e.stream # s)
=============================================================================
