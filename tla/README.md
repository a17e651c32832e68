# go-servicekit: models, checks and proofs

go-servicekit is a collection of Go packages that services use to talk to each
other and to their infrastructure: message channels (`watermill/`), message
queues (`mq/`, `rabbitmq/`), configuration and discovery (`consul/`), tracing
(`tracer/`), OAuth2 (`oauth2/`), RPC client pools (`go-zero/zutils/`) and an
asset generator (`templatefile/`). The rest of the tree is vendored: go-zero,
goctl, goprotoc, protobuf headers, sql2pb. This directory holds TLA+ models of the
packages whose correctness depends on concurrency and failure, the TLC runs that
check them on small instances, and TLAPS proofs about all but one of them.

## 1. Inventory

| Component | State | Operations | Hard behaviour | What makes it correct |
|---|---|---|---|---|
| grpcchannel server (`watermill/grpcchannel/service.go`) | `subscribers`: map key -> slice of streams, under `mu` | `Subscribe` (goroutine per stream), `Publish` (goroutine per call), `removeSubscriber` | `Send` under the mutex on streams that block, break or end; lost registrations after a crash | one order for all streams, complete fan-out, no `Send` after a handler returned, isolation of namespaces, every `Publish` returns |
| grpcchannel client (`watermill/grpcchannel/pubsub.go`, `comm.go`) | `handlers` per topic, `connServer`, `server`, retry settings | `StartServe`, `Subscribe`, receiver goroutine, `dispatchMessages`, `retryMessage`, `Publish`, `Close` | races of `Subscribe` calls, failing handlers, a stream that breaks, callers that time out | one stream per topic, every handler has its verdict after exactly 1 + `retryTimes` calls, order kept |
| mq RabbitMQ (`mq/rabbitmq.go`, `mq.go`) | connection pool, the `channel` variable of `Start` | `Publish` with retries, `Start` with two goroutines, `Ack`/`Nack`, `Close` | channel replaced while in use, closures between handling and ack, restarts of the broker | an event leaves the queue only when handled, retries do not duplicate, the consumer survives faults |
| mq RocketMQ (`mq/rocketmq.go`) | started producer and consumer | `Publish`, `Start`, `Close` | start and shutdown order | (the SDK's, see section 7) |
| rabbitmq, older package (`rabbitmq/`) | one connection, a channel with Qos 1 per consumer, a channel per message | `StartConsumer`, `ProduceMessage`, `ProduceMessageWithExchange` | a failed delivery is neither acked nor nacked; closed channels and connections are not replaced | what is acked was handled, what was accepted is queued, one stalled consumer does not stop another |
| gochannel, mysqlchannel (`watermill/`) | handlers per topic, SQL offsets, retry registrations | `Subscribe`, `Publish`, retries | which paths `Ack`; a closure that keeps an earlier message; a map that is never made (section 6) | each message is acked once handled, retries run the message that failed |
| consul client (`consul/client.go`) | `watchCallback`, `queryOption`, `queryVersion`, `once` | `Set`, `BatchSet`, `Get`, `StartWatchService`, the watch goroutine | network loads and callbacks with a shard of the map locked; options shared by `Get` and the watch; racing starts | a change is reported once and in order, a value that stays is reported, `StartWatchService` returns, a value with a timeout expires |
| consul registration (`consul/register.go`) | none | `RegisterService` | none | (the file does not compile) |
| tracer (`tracer/`) | global configuration, cache of providers, otel's provider, go-zero's agents | `InitTrace`, `Get/SetTraceConfig`, `InitGoZeroTracing`, `GoZeroMiddleware`, `Stop`, middlewares | unlocked reads, a plain map, a single flight, providers replaced behind it | one provider per endpoint, never nil, not replaced by the server's own |
| oauth2 (`oauth2/`) | token store | issue, refresh, validate | expiry | only valid tokens are accepted |
| zutils (`go-zero/zutils/zrpc.go`) | map of connection pools | `NewPoolGrpcClient` | check-then-set | one pool per target |
| templatefile (`templatefile/`) | none | the generator, `embedPathToConst`, the loaders of the generated file | collisions of generated names | different paths get different constants |

The components interact in two places that the models cover: the client and the
server of grpcchannel over gRPC streams, and publisher and consumer of `mq` over
the broker. The gRPC transport, the amqp library and the broker are external;
they are modelled from how the code uses them.

## 2. Modules

| Module | Models |
|---|---|
| `PubSubServer` | `pubSubServer` with its serving process and the transport |
| `SerialBroadcast` | the abstract service `PubSubServer` implements |
| `PubSubServer_proofs` | the theorems about `PubSubServer` |
| `PubSubRefinement_proofs` | the proof that it implements `SerialBroadcast` |
| `GrpcChannel`, `GrpcChannel_proofs` | `Channel` on the client side, composed with `PubSubServer` (which it extends), and the theorems |
| `RabbitMQ`, `RabbitMQ_proofs` | publisher, consumer and broker of `mq/rabbitmq.go`, and the theorems |
| `RabbitClient`, `RabbitClient_proofs` | consumers and producers of the older package `rabbitmq/`, and the broker; the theorems |
| `ConsulWatch`, `ConsulWatch_proofs` | `consulClient` of `consul/client.go` with the KV store, and the theorems |
| `Tracer`, `Tracer_proofs` | the process-wide state of `tracer/` with otel's provider and go-zero's agents, and the theorems |
| `Assets` | the generator of `templatefile/generate_assets.go` |
| `MCPubSubServer`, `MCGrpcChannel`, `MCRabbitMQ`, `MCRabbitClient`, `MCConsulWatch`, `MCTracer`, `MCAssets` | instances for TLC |

In every module an operator whose comment starts with "Fault:" is not part of the
model: it is a wrong version of the definition after it, used to see that a
property would notice the mistake.

### PubSubServer

State and code. `subscribers` is the map of `service.go:20-24`. A Go slice is
represented by the set of its elements, each with the number of the `mu`
acquisition that appended it, so that a stream can be in a slice twice and the
order of the slice is the order of the numbers. `mu` is a lock bit, since only
`Publish` holds it over more than one step. `handler[s]` is where the `Subscribe`
goroutine of stream `s` is; `call[m]` where the `Publish` goroutine of message `m`
is; `todo[m]` what is left of its `lo.ForEach`. `ticket` and `clock` number the
acquisitions of `mu`. A name is the sequence of its segments between slashes,
so that `getCacheKey`'s `fmt.Sprintf("%s/%s")` is concatenation, and two names
with slashes can collide as they do in Go.

Steps. `SubscribeRecv`, `SubscribeAdd` and `SubscribeEnd` are the loop of
`Subscribe` and its deferred `removeSubscriber`; the critical sections that
only touch memory are one step. `PublishLock`, one `PublishSend` per subscriber,
and `PublishReturn` are `Publish`: between two sends anything else may happen.
A send waits while `Window` messages are under way on an open stream and fails on a
broken one; the code logs the failure and goes on. `Stop` is `Channel.Close` of the
serving Channel, after which `StartServe` does nothing because `g.server` stays
set; `Crash` loses the memory of the process and a new process may serve.

The transport: streams break one by one or together (`Disconnect`); a broken
stream still yields what had arrived, or any shorter part of it, because the client
and the server may stop receiving at any point.

### SerialBroadcast

What a client may rely on, without goroutines, locks and windows: messages are
broadcast one at a time and each at most once; a broadcast begins owing the message
to all members of its key; nobody joins or leaves until it ends; it ends when nobody
connected is owed it. `PubSubServer` maps to it by `Members` (the streams in the
lists), `Begun` (ticket taken), `Active` (the `Publish` that is sending), `Due`
(the streams in its rest), the open streams and `sent`; `Broadcasts` is the property.
A crash or a new process is its `Restart`.

### GrpcChannel

A handler `h` stands for one call `Subscribe(ctx, TopicOf[h], h)`. `sub[h]` goes
through the critical section of `subsMu` (`pubsub.go:139-181`): the first handler
of a topic opens a stream, sends the request and starts the receiver; later ones
join the list. `Recv`, `HandlerOk`, `HandlerRetry` and `HandlerFail` are the
receiver with `dispatchMessages` and `retryMessage`: `queue[s]` is the rest of the
list it ranges over, read once per message, `tries[s]` the failed calls of
the current handler. `Publish`, `PublishOk` and `PublishErr` are
`Channel.Publish`; an error may be reported at any time after the call was
issued because the caller's `ctx` may end. `Close` closes the connection and leaves
it set. `ran`, `verdict` and `audience` are history. Opening the connection
(`getConnServer`) is part of the step that uses it.

`NoneSkipped` is what these layers together owe a handler: if its `Subscribe` had
returned when a message was published, and the server had registered its stream when it
served the message, the handler is not called with a message served later before it
has its verdict on this one, whatever failed, broke or timed out on the way.

### RabbitMQ

`getChannel` (with the pool below it) yields an open channel with the queue
declared and bound; nil when none can be opened or it closes before the declaration
(`getChannelErr`); or a closed one, when it closes before the bind: `Start` returns
the error, the notifier and the loop go on with what they were given. `Notify` is the
first goroutine of `Start`: `closeChan` is closed once its channel is, so the
`select` fires again at every turn, and each turn assigns `channel`. `Consume`,
`Range`, `HandlerOk`/`HandlerErr`, `Ack`/`Nack` are the second. `Consume` on a nil
channel is a nil dereference, `loop = "dead"`. `at[m]` follows an event through
client, wire, queue and delivery. `PublishOpen`, `PublishWrite`, `PublishRetry`
are `Publish`; all retries use the channel of the first attempt. Nothing closes that
channel, so a later `PublishOpen` may be refused for the channel limit as well as for
an unreachable broker.

### RabbitClient

The older package. A consumer is one `StartConsumer` call: `StartConsumer` and
`StartQos` are its body, `Consume`, `RangeNext`, `RangeEnd`, `HandlerOk`, `HandlerErr`
and `Ack` the goroutine. A failed delivery stays unacked, with `holder` remembering
to whom; with a prefetch count of 1 the broker's `Deliver` is then disabled for that
consumer. On a closed channel `Consume` fails at every turn without changing
anything, so it has no step. `ProduceOpen` to `ProduceReturn` are
`commPushMessage`; the deferred `ch.Close` is a call that waits for the broker's
answer, hence the guard `at[m] # "wire"`. Without a channel both deferred closes
are calls on nil (`"panic"`). `Bound` says whether somebody bound the exchange that
`ProduceMessageWithExchange` declares; the package does not.

### ConsulWatch

Every write to the store has a new index, and a value stands for its index (Consul
returns the index of the last write to a key with the key). `StartWatchService`
is three steps because `watchCallback.Set` waits for the lock of the key's shard,
which `IterCb` holds over the whole visit of that shard, loads and callbacks
included (`rlocked`). The goroutine goes through its shards (`NextShard`,
`EndShard`; the sleep of ten seconds is the state before the first shard), visits the
keys of a shard (`NextKey`), loads one (`Load`, `LoadFail`), compares (`Check`) and
calls back (`Callback`, whose result only changes a log line). `loadOneData`
stores the options it was given, so `Get` changes how the watch of the key reads
and the watch may undo it; both are in the model. A load with `AllowStale` may
return any value the key had. Options are reduced to that choice (none, consistent,
stale): a Datacenter or a WaitIndex that `Get` stores (`client.go:169`) is not
represented. A callback may start the watch of another key
(`Child`). `Loops` names more goroutines than `once` lets start, so that the
effect of `once` is checked and not assumed. `Put` leaves the session alone:
the client library sends key, value and flags, and only `Acquire` uses the session.

### Tracer

Each caller is a goroutine with one call; `pc` is its place. `InitTrace` goes
through the cache, the unlocked test of `globalTraceConfig`, `SetTraceConfig`
(`SetLock`, `SetStore`), the single flight (`InitOnce`, `InitProvider`,
`InitCreate`; `landed` releases the waiters), the second look at otel's provider
(`InitLand`) and the write to the cache. `InitGoZeroTracing` runs on with
`GetTraceConfig`, the agent and the service's own `MustNewServer`. `made` numbers
the providers ever created. `cache` is a plain Go map: while one goroutine writes
and another accesses it the runtime may abort the process (`MapRace`). An empty
`atomic.Value` is a state of its own between `SetLock` and `SetStore`; loading from it
would panic. `Stop` shuts down whatever otel's provider is, and leaves it installed.
`ztrace.StartAgent` is modelled for endpoints that an exporter accepts, and as go-zero
v1.9.4 behaves, which `tracer/go.mod` requires without a replacement: one agent per
endpoint. The copy of go-zero in the repository is newer and is not what `tracer` is
built with; there (`core/trace/agent.go:43-53`) one `sync.Once`, which a failed start
uses up too, allows one agent per process. No property depends on the difference:
with one agent per process `MustNewServer` replaces even less.

### Assets

`Init` chooses the files below each source directory, `Walk` and `Wild` are the two
loops over these directories, `Generate` names the entries and writes the file. A name
is a sequence of letters, digits and separators, because what
`embedPathToConst` does to them is the question; `Rel` is `filepath.Rel`.

## 3. Runs

All runs set `CHECK_DEADLOCK FALSE`: clients may stop calling, and bounded faults
and messages run out.

| Run | Shows | Instance |
|---|---|---|
| `pubsub_server` | `TotalOrder`, `NoSendAfterReturn`, `PublishComplete`, `Isolation`, refinement `Broadcasts`, `TypeOK` | 2 streams with 2 requests each, 2 messages, 2 namespaces with the same topic, window 1, 1 break, stop or crash |
| `grpc_channel` | `Settled`, `NoneSkipped`, `HandledOnce`, `ChanTypeOK` | 1 Channel, 2 handlers of one topic, 2 streams, 2 messages, 1 retry, 1 break |
| `grpc_order` | `HandlerOrder` | 2 Channels with a handler each, in the default namespace once empty and once written out |
| `grpc_live` | `EventuallySettled`, `PublishReturns`, `BrokenRemoved` under `ChanFairSpec` | 1 handler, 1 stream, 2 messages, window 1, 1 retry, 1 break |
| `grpc_keeps_pushing` | `KeepsPushing` is violated | 1 handler, 2 streams, 1 break |
| `rabbit` | `AckedAfterHandled`, `NeverDropped`, `PublishOnce`, `TypeOK`, and `ConsumedWhileUp` under `FairSpec` | 2 events, 2 consumer channels, 2 faults |
| `rabbit_recovers` | `Consumed` is violated after one fault | 1 event, 3 channels, 1 fault |
| `rabbit_client` | `AckedAfterHandled`, `NeverDropped`, `QueuedOnReturn`, `StaysStalled`, `TypeOK`, and `Progress` under `FairSpec` | 2 consumers, 2 messages (one through a bound exchange), 2 faults, queue declared before or not |
| `consul` | `InOrder`, `Delivered`, `WatchReturns` under `FairSpec`, `TypeOK` | 2 keys in 2 shards, 2 `StartWatchService` calls for one of them, whose callback watches the other; 2 writes, a `Get` with `AllowStale`, a timed `Set` |
| `consul_expires` | `Expires` is violated | 1 call, 2 keys |
| `tracer` | `CreatedOnce`, `ProviderReturned`, `NeverLoadsEmpty`, `NotPreempted`, `TypeOK`, and `InitReturns` under `FairSpec` | 3 goroutines with a call each, 3 configs (one incomplete) of 2 endpoints |
| `assets_unique` | `UniqueConst` is violated | 2 source directories, 6 candidate files |

Why these bounds are enough. The server's hazards are between two goroutines
(two `Publish`, or a `Publish` and a `Subscribe` that registers or ends) over at
most two streams: an order needs two messages and two streams, an unfinished loop
two subscribers, a blocked send a full window, which with `Window = 1` one message
fills. Two requests allow a stream in one list twice and in two lists. One break is a
broken stream, a stop or a crash with a restart. On the client, two handlers
of one topic race for the first stream, fail independently and are retried. In
RabbitMQ two channels are the one watched and its replacement, after which opening
fails, and two faults let the replacement close too, while it is being set up or in use;
the run for `Consumed` has a third channel, so that the consumer fails in spite of a
spare one. In the older package two consumers let one stall while the other
goes on, and a message handled by one be requeued to the other. For the watch,
two writes give an old and a new value, two calls race for `once`, two keys in two
shards let one be visited while the other is registered or written. In the tracer
two goroutines share an endpoint, so that one may wait in the flight of the other,
while the third sets up another endpoint, stops the provider or replaces the
configuration; calls that one goroutine makes one after the other are among the
behaviours of several. No safety property of a passing run depends on these bounds:
each is proved for all of them (section 5).

Symmetry is used only in runs without liveness properties; streams, and in
`grpc_*` the messages of one address, are interchangeable in the model.

## 4. Fairness

`GrpcChannel!ChanFairness`: strong fairness for getting `mu`, because Go's
`sync.Mutex` hands the lock to a goroutine that has waited for a millisecond;
weak fairness for every other step of a goroutine that can run. That a client goes
on receiving from an open stream is not assumed but follows from a receiver that
runs and handlers that return: a client that stops reading without closing would block
`Send` under `mu`, and with it the whole server, until the connection breaks. No
fairness is assumed for publishing, faults or restarts, nor for the caller's first
step of a `Subscribe` call.

`RabbitMQ!FairSpec`: goroutines run and the broker comes back (WF); the broker
delivers a queued event, `range` reaches a delivered one and a handler that gets
an event again and again accepts it in the end (SF).

`RabbitClient!FairSpec`: goroutines run and handlers return, with or without an
error (WF); the broker delivers a message to some consumer that asks again and
again (SF). Nothing is assumed about a handler succeeding, nor about calls being made.

`ConsulWatch!FairSpec`: the goroutine runs and callbacks return (WF); a load
tried for ever succeeds in the end and sees the current value (SF: the network
recovers, replicas catch up); `WatchSet` gets the write lock (SF: a waiting writer
of Go's `RWMutex` keeps new readers out, and the goroutine sleeps between turns);
sessions end (WF). No fairness for writers and callers.

`Tracer!FairSpec`: a goroutine that can take its next step again and again takes it
(SF, for the lock of the configuration; otherwise nothing disables a step). No
fairness for making calls.

## 5. Proofs

`PubSubServer_proofs` proves, for every set of streams and messages, every set
of names, every window and every bound:

- `TypeCorrect`: `Spec => []TypeOK`;
- `OrderTheorem`: `Spec => []TotalOrder`;
- `NoSendAfterReturnTheorem`: `Spec => []NoSendAfterReturn`;
- `CompleteTheorem`: `Spec => []PublishComplete`;
- `IsolationTheorem`: `Spec => []Isolation` when no namespace and no topic
  contains a slash (`SingleSegment`). Without that assumption the keys of `a/b` +
  `c` and `a` + `b/c` coincide and the theorem is false.

The argument. None of the four properties is inductive. `Invariance` proves

    IInv == TypeOK /\ MutexInv /\ TicketInv /\ OrderInv /\ ListInv /\ CompleteInv /\ AddressInv

- `MutexInv`: `mu` is locked while a `Publish` is sending, at most one is, only that
  one has anything left to do, and without a server no call is running;
- `TicketInv`: tickets are given out once and never exceed `clock`, nor do the numbers
  of list entries, and the ticket of the sending `Publish` is `clock` itself;
- `OrderInv`: on every stream the tickets of the messages do not decrease, and
  none is zero. With unique tickets this gives `TotalOrder`. It is preserved
  because the only sender has the largest ticket, which is what the mutex over the
  whole loop is for;
- `ListInv`: lists hold only streams whose handler is in its loop, and what a `Publish`
  has left to do is a subset of the current list.
  It needs `MutexInv`: `removeSubscriber` runs only when no rest exists;
- `CompleteInv`: a sending or finished `Publish` has put its message on every open
  stream that was registered before its ticket and is not in the rest of its list;
- `AddressInv`: whoever is in a list, or was sent a message, asked for the key.

Each part has a lemma `...Step` (`IInv /\ [Next]_vars => part'`), one case per
action; `KeysLemma`, `AppendRange`, `SendEffect` and `AskedStable` are the facts about
the operators they share. The only assumptions are the ASSUMEs of `PubSubServer`
about its constants (and `SingleSegment` above).

`PubSubRefinement_proofs` proves `Refinement`: `Spec => Broadcasts`, again for all
constants. It uses `IInv`: `MutexInv` makes `Active` a single message and `Due` empty
while `mu` is free, so that registrations and removals, which need `mu`, are
`Register` and `Leave` steps outside of a broadcast; `TicketInv` gives that a
`Publish` begins once; `ListInv` that the rest of a `Publish` are current members
and that nothing is left when the process dies. One lemma per visible
action (`AddRegisters`, `EndLeaves`, `LockBegins`, `SendGives`, `ReturnFinishes`,
`BreakLoses`, `CrashRestarts`, `StartRestarts`), and `Invisible` for the others.

`GrpcChannel_proofs` proves, for any Channels, handlers, topics, streams, messages and
retries,

- `ChanTypeCorrect`: `ChanSpec => []ChanTypeOK`;
- `HandledOnceTheorem`: `ChanSpec => HandledOnce`;
- `HandlerOrderTheorem`: `ChanSpec => []HandlerOrder`;
- `SettledTheorem`: `ChanSpec => []Settled`;
- `NoneSkippedTheorem`: `ChanSpec => []NoneSkipped`.

Every step of a Channel is one step of the server and its network, or none (lemmas
`ServerStep` and `ServerBelow`), so that the theorems above hold of the composition and
`IInv` is available here.

The argument goes up through the layers, and the invariant `ChanInv` (`ChanInvariance`)
has a part for each, on top of `IInv`:

- `SubInv`: under `subsMu` one `Subscribe` per Channel is between its test for handlers
  and `handlers.Set`, and its topic has none; so no topic has two receivers, and the
  topic of a receiver always has handlers;
- `OwnerInv`: a stream belongs to the `Subscribe` that opened it, which sends one
  request; `ListedInv`: the list of a topic holds exactly the handlers whose
  `Subscribe` returned nil, each once;
- `OnceInv`: with one request a stream is in one list of the server, so that a `Publish`
  sends it a message once, and no message is on a stream twice. This does not follow from
  `IInv`: `PubSubServer` lets a stream ask twice;
- `QueueInv`: the rest of a dispatch has handlers of the stream's topic, each once, and
  `tries` stays within `limit`, the retries there can be;
- `VerdictInv`, `RanInv`: a verdict, or a call, is about a message that came over the
  one stream that serves the handler; a verdict only after the dispatch has passed it,
  the calls in the order of the tickets. With `OnceInv` this gives `HandledOnce`:
  the handler at the head of the queue has no verdict on the message (`DispatchFacts`);
- `CallsInv`: the calls of the current handler with the message are `tries[s]`, those of
  the handlers behind it none. `CallsEffect` counts them (by cardinality);
- `AudienceInv`: an audience is fixed before the server is called, so no message
  already sent gets another one, and a member without a verdict is still in the queue.

`NoneSkipped` needs `SkipInv` besides, an invariant of the server: while a stream is in
the list since before a message was served, a later message is on it only if that one
is. A later message is sent only once the `Publish` of the earlier one is over
(`MutexInv`), which has then put it on every registered stream that is connected
(`CompleteInv`); on a broken stream nothing follows. The order of tickets and
`AudienceInv` carry this from the stream to the handler.

`DispatchFrame` and `SubscribeFrame` say which steps matter for which part; `CalmStep`
covers the others, `RecvStep` a received message, and `TurnEffect`, `QueueAfterTurn` and
`VerdictAfterTurn` describe a call of a handler for the lemmas `Turn...Step`. The
assumptions are `ChannelAssumption` and those of `PubSubServer`; names may contain slashes.

`RabbitMQ_proofs` proves, for any events, channels, retries and faults,
`TypeCorrect`, `AckedTheorem` (`[]AckedAfterHandled`), `PublishTheorem`
(`[]PublishOnce`) and `NeverDroppedTheorem` (`NeverDropped`). The invariant is
`IInv == Types /\ PubInv /\ CurInv /\ CountInv`: an event `Publish` is still
trying to write is with the client and was never written; the delivery the loop
holds is unacked while the channel it came from is open and back in the queue once
that has closed, and the loop leaves the closed channel before anything is delivered
again, whatever the notifier does to the shared variable (`GetChannelLemma`: a
replacement is never the channel consumed from); and successes without an ack are
counted against faults. Without `CurInv` an `Ack` could be for an event that is
elsewhere by then.

`RabbitClient_proofs` proves, for any consumers, messages (finitely many or not), faults
and exchanges, `TypeCorrect`, `AckedTheorem` (`[]AckedAfterHandled`), `QueuedTheorem`
(`[]QueuedOnReturn`), `NeverDroppedTheorem` (`NeverDropped`) and `StalledTheorem`
(`StaysStalled`). The invariant is `IInv == Types /\ ProdInv /\ OwnInv /\ QosInv /\ CountInv`.
`ProdInv` follows a message of `commPushMessage` from declare to the deferred `Close`.
`OwnInv` says that over an open channel a consumer works only on what the broker counts
as its own, and `QosInv` that deliveries are made within a prefetch count of 1; together
they give `StaysStalled`. `CountInv` is the bound on repeated successes: a fault takes a
message from the consumer that had it while its handler goes on, so several handlers
can be at work on one message. `stale(m)` is the set of those it was taken
from, and `handled[m] + |stale(m)|` is at most the number of faults, plus one once
the message is acked or its handler has succeeded and the ack is next. A fault adds
at most one consumer to `stale(m)` (`CountFault`), because only one had the message.
The only assumption is `RabbitClientAssumption`.

`ConsulWatch_proofs` proves, for any keys, shards, callers and bounds, `TypeCorrect`
(`Spec => []TypeOK`) and `InOrderTheorem` (`Spec => InOrder`). `InOrder` is a
property of steps: a callback's value is greater than the one before it. It needs
`IInv == TypeInv /\ Single /\ Newest /\ Loaded /\ Reported`: only one goroutine
runs, because of `once` (otherwise a comparison could be overtaken by another
goroutine's); the store has the newest value of a key; so a value just loaded is
not older than `queryVersion`, unless a load was stale; so what passes the
comparison is newer than what was reported. `OrderStable` covers the steps that
touch none of this; `PutNewest`, `LoadOrder`, `CheckOrder` and `CallbackOrder` are
the four that do. The only assumption is `ConsulAssumption`.

`Tracer_proofs` proves, for any goroutines, configs, endpoints and calls, `TypeCorrect`,
`CreatedOnceTheorem`, `ProviderTheorem` (`[]ProviderReturned`), `NeverLoadsEmptyTheorem`
and `NotPreemptedTheorem` (`NotPreempted`). The invariant is
`IInv == Types /\ OpInv /\ LockInv /\ FlightInv /\ MadeInv /\ CreatedOnce /\ RetInv /\ AgentInv`:
a goroutine is where its call can be; `globalTraceConfig` is never reset to nil and
its value is empty only while the goroutine that holds the lock is about to fill it; one
goroutine at a time is in the flight of an endpoint; otel has a provider as soon as
one was made and never loses it, so that whoever enters `create` found none made and
is the first for its endpoint (`MadeInv`), and whoever comes back from the flight
without an error finds one (`RetInv`); and the endpoint in a service's Telemetry has
its agent before the server is made (`AgentInv`). `NewProvider`, `Agent` and `Landing`
say what the shared operators do. The only assumption is `TracerAssumption`.

Every invariant and every action property of a passing run is stated by one of these
theorems, and the refinement. Only model-checked: liveness (`PublishReturns`,
`BrokenRemoved`, `EventuallySettled`, `ConsumedWhileUp`, `Progress`, `Delivered`,
`WatchReturns`, `InitReturns`), which under fairness is out of the prover's reach; and
the properties that do not hold (section 6). `Assets` has no theorem: its only
property is one of these.

## 6. What the violated properties show

- `KeepsPushing`: when its stream breaks, the receiver logs and calls `Recv` again
  for ever; a later `Subscribe` for the topic only joins the handler list.
- `Consumed` after one fault: the notifier opens channel after channel until none
  can be opened, stores nil, and the loop calls `Consume` on it.
- `Expires`: a key `Set` with a timeout is not tied to the session made for it.
- `UniqueConst`: separators and capitals are not part of a constant's name, so `js/a` and
  `js_a` (or `a-b.js` and `a_b.js`) get one name, and the generated file does not compile.

Seen while modelling, and not a matter for a run:

- `Channel.Subscribe` returns once its request is buffered; a message published right
  after it can be served before the server has registered the stream and does not
  reach it, although `service.go:69` says all subscribers get it.
- `TraceConfig.Stop` shuts otel's provider down and leaves it installed; an
  `InitTrace` after it, also of another config, returns the dead provider. Overlapping
  `InitTrace` and `Stop` calls access the plain map `traceProviderCache` unlocked.
- `rabbitmq.StartConsumer` and `commPushMessage` call `Close` on a nil channel when no
  channel can be opened. A consumer that starts before its queue exists, or loses its
  channel, tries for ever on the closed one. `ProduceMessageWithExchange` declares an
  exchange and binds nothing to it.
- `rocketMQPublisher.Publish` copies the headers into the message before it adds
  `Trace-Id` and `Span-Id` to them, so these are not sent; `Headers` must not be nil.
- In the generated assets, a wildcard entry is lost when two source directories have a
  directory of the same name, and `LoadAssetDir` is keyed by `js/*`, not by the `Dir`
  its comment names.
- `gochannel.New` and `mysqlchannel.New` leave `clientMap` and `subscriberMap` zero;
  the first `Get` on such a map calls a nil function. No `Subscribe` of either package,
  and no `Publish` of gochannel, gets past it.
- `RabbitMQClient.Close` closes a field that nothing sets; the consumer goes on.
- `rabbitMQPublisher.Publish` returns nil once the event is written: without
  confirmations, an event the broker had not read when it restarted is lost.
- A callback of the consul watch that starts the watch of a key in its own shard of
  the map deadlocks the goroutine; one that fails is not called again before the
  next change.

## 7. Not modelled, and the plan

Left out of the modelled components:

- grpcchannel: `connServer` created twice by concurrent first callers
  (`pubsub.go:65-81`; with test and set as separate steps of every caller the instance
  with racing `Subscribe` calls is out of reach of TLC, and no property depends on what
  `Close` leaves open); setters called after first use; handlers that publish; payloads.
- mq RabbitMQ: the pool below `getChannel`, headers and content.
- tracer: spans, headers and the middlewares for http, grpc, gorm and rabbitmq, which
  read the modelled state and change nothing in it, except `lastTracer`, a field
  every `StartSpan` overwrites.
- templatefile: the loaders in the generated file and the spreadsheet helper.

Left out altogether: `gochannel` and `mysqlchannel` (a map that is never made: their
operations panic, section 6); `mq/rocketmq.go` (a wrapper; delivery, retry and shutdown
are the SDK's); `oauth2` (configuration of go-oauth2 around an external store); `zutils`
(one check-then-set around an external pool); `consul/register.go` (does not compile);
the vendored trees, static files and generated code.

Next: what the abstract service `SerialBroadcast` promises, proved of it once (a message
reaches a member at most once per membership, one order for all), so that clients can be
reasoned about above it instead of above `PubSubServer`.
