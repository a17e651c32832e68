---------------------------- MODULE RabbitClient ----------------------------
(***************************************************************************)
(* Package rabbitmq (client.go, consumer.go, producer.go): one connection,  *)
(* never dialled again, shared by consumers with a channel and Qos 1 each   *)
(* and by ProduceMessage calls, each with a channel for itself.  A handled  *)
(* delivery is acked; a failed one is neither acked nor rejected.           *)
(*                                                                          *)
(* The broker and the amqp library are external: a durable queue with one   *)
(* name; Consume of a queue that does not exist closes the channel; a       *)
(* channel that closes gives its unacked deliveries back; Channel.Close     *)
(* waits for the broker's answer, and so for what was written before it.    *)
(***************************************************************************)
EXTENDS Integers, FiniteSets

CONSTANTS
  Consumers,    \* StartConsumer calls
  Msgs,         \* ProduceMessage calls with some content
  ViaExchange,  \* those made with ProduceMessageWithExchange
  Bound,        \* somebody has bound that exchange to the queue
  MaxFaults     \* bound: channels closed and connections lost

NoMsg == "none"
NoConsumer == "nobody"

ASSUME RabbitClientAssumption ==
  /\ ViaExchange \subseteq Msgs /\ Bound \in BOOLEAN /\ MaxFaults \in Nat
  /\ NoMsg \notin Msgs /\ NoConsumer \notin Consumers

VARIABLES
  conn,      \* RabbitClient.client is connected
  declared,  \* the queue exists
  chan,      \* channel of a consumer: "nil", "open", "closed"
  prefetch,  \* its prefetch count, 0 for no limit
  loop,      \* StartConsumer and its goroutine
  inbox,     \* deliveries waiting in msgs
  cur,       \* the delivery in the handler
  holder,    \* the consumer an unacked message was delivered to
  at,        \* message: "client", "wire", "queue", "unacked", "acked", "lost", "unrouted"
  prod,      \* ProduceMessage: "idle", "declare", "publish", "close", "ok", "err", "panic"
  handled,   \* history: times the handler succeeded
  failed,    \* history: messages a handler has failed on
  faults     \* faults so far

consumerVars == <<chan, prefetch, loop, inbox, cur>>
vars == <<conn, declared, consumerVars, holder, at, prod, handled, failed, faults>>

TypeOK ==
  /\ conn \in BOOLEAN /\ declared \in BOOLEAN
  /\ chan \in [Consumers -> {"nil", "open", "closed"}]
  /\ prefetch \in [Consumers -> {0, 1}]
  /\ loop \in [Consumers -> {"off", "qos", "consume", "range", "handle", "ack", "err", "panic"}]
  /\ inbox \in [Consumers -> SUBSET Msgs]
  /\ cur \in [Consumers -> Msgs \cup {NoMsg}]
  /\ \A c \in Consumers : cur[c] # NoMsg <=> loop[c] \in {"handle", "ack"}
  /\ holder \in [Msgs -> Consumers \cup {NoConsumer}]
  /\ \A m \in Msgs : holder[m] # NoConsumer <=> at[m] = "unacked"
  /\ at \in [Msgs -> {"client", "wire", "queue", "unacked", "acked", "lost", "unrouted"}]
  /\ prod \in [Msgs -> {"idle", "declare", "publish", "close", "ok", "err", "panic"}]
  /\ handled \in [Msgs -> Nat] /\ failed \subseteq Msgs
  /\ faults \in 0..MaxFaults

\* NewRabbitMQClient has connected.
Init ==
  /\ conn = TRUE /\ declared \in BOOLEAN
  /\ chan = [c \in Consumers |-> "nil"]
  /\ prefetch = [c \in Consumers |-> 0]
  /\ loop = [c \in Consumers |-> "off"]
  /\ inbox = [c \in Consumers |-> {}]
  /\ cur = [c \in Consumers |-> NoMsg]
  /\ holder = [m \in Msgs |-> NoConsumer]
  /\ at = [m \in Msgs |-> "client"]
  /\ prod = [m \in Msgs |-> "idle"]
  /\ handled = [m \in Msgs |-> 0] /\ failed = {}
  /\ faults = 0

-----------------------------------------------------------------------------
(* The broker and the connection.                                           *)

\* The channels of the consumers in C are closed; what they hold goes back.
closeChannels(C) ==
  /\ chan' = [c \in Consumers |-> IF c \in C /\ chan[c] = "open" THEN "closed" ELSE chan[c]]
  /\ holder' = [m \in Msgs |-> IF holder[m] \in C THEN NoConsumer ELSE holder[m]]

requeued(C, m) == IF holder[m] \in C THEN "queue" ELSE at[m]

Fault == faults < MaxFaults /\ faults' = faults + 1

\* The broker closes the channel of a consumer (a channel exception).
CloseChannel(c) ==
  /\ chan[c] = "open" /\ Fault
  /\ closeChannels({c})
  /\ at' = [m \in Msgs |-> requeued({c}, m)]
  /\ UNCHANGED <<conn, declared, prefetch, loop, inbox, cur, prod, handled, failed>>

\* The connection is lost, for good.
ConnectionLost ==
  /\ conn /\ Fault
  /\ conn' = FALSE
  /\ closeChannels(Consumers)
  /\ at' = [m \in Msgs |-> IF at[m] = "wire" THEN "lost" ELSE requeued(Consumers, m)]
  /\ UNCHANGED <<declared, prefetch, loop, inbox, cur, prod, handled, failed>>

\* The broker takes a published message.  The default exchange knows the queue
\* by its name; no mandatory flag reports that a message went nowhere.
Route(m) ==
  /\ at[m] = "wire"
  /\ at' = [at EXCEPT ![m] = IF declared /\ (m \in ViaExchange => Bound) THEN "queue" ELSE "unrouted"]
  /\ UNCHANGED <<conn, declared, consumerVars, holder, prod, handled, failed, faults>>

held(c) == {m \in Msgs : holder[m] = c}

\* A delivery to a registered consumer, within its prefetch count.
Deliver(c, m) ==
  /\ at[m] = "queue" /\ chan[c] = "open" /\ loop[c] \in {"range", "handle", "ack"}
  /\ prefetch[c] = 0 \/ Cardinality(held(c)) < prefetch[c]
  /\ at' = [at EXCEPT ![m] = "unacked"]
  /\ holder' = [holder EXCEPT ![m] = c]
  /\ inbox' = [inbox EXCEPT ![c] = @ \cup {m}]
  /\ UNCHANGED <<conn, declared, chan, prefetch, loop, cur, prod, handled, failed, faults>>

-----------------------------------------------------------------------------
(* ProduceMessage and ProduceMessageWithExchange.                           *)

\* Without a channel the deferred ch.Close is a call on nil.
ProduceOpen(m) ==
  /\ prod[m] = "idle"
  /\ prod' = [prod EXCEPT ![m] = IF conn THEN "declare" ELSE "panic"]
  /\ UNCHANGED <<conn, declared, consumerVars, holder, at, handled, failed, faults>>

\* Fault: the queue is left to the consumer to declare.
declareNothing(m) ==
  /\ prod[m] = "declare"
  /\ prod' = [prod EXCEPT ![m] = IF conn THEN "publish" ELSE "err"]
  /\ UNCHANGED <<conn, declared, consumerVars, holder, at, handled, failed, faults>>

\* QueueDeclare, or ExchangeDeclare alone.
ProduceDeclare(m) ==
  /\ prod[m] = "declare"
  /\ prod' = [prod EXCEPT ![m] = IF conn THEN "publish" ELSE "err"]
  /\ declared' = (declared \/ (conn /\ m \notin ViaExchange))
  /\ UNCHANGED <<conn, consumerVars, holder, at, handled, failed, faults>>

\* Fault: the channel is not closed.
publishAndReturn(m) ==
  /\ prod[m] = "publish"
  /\ \/ conn /\ at' = [at EXCEPT ![m] = "wire"] /\ prod' = [prod EXCEPT ![m] = "ok"]
     \/ ~conn /\ prod' = [prod EXCEPT ![m] = "err"] /\ UNCHANGED at
  /\ UNCHANGED <<conn, declared, consumerVars, holder, handled, failed, faults>>

ProducePublish(m) ==
  /\ prod[m] = "publish"
  /\ \/ conn /\ at' = [at EXCEPT ![m] = "wire"] /\ prod' = [prod EXCEPT ![m] = "close"]
     \/ ~conn /\ prod' = [prod EXCEPT ![m] = "err"] /\ UNCHANGED at
  /\ UNCHANGED <<conn, declared, consumerVars, holder, handled, failed, faults>>

\* The deferred ch.Close comes back; its own error is ignored.
ProduceReturn(m) ==
  /\ prod[m] = "close" /\ at[m] # "wire"
  /\ prod' = [prod EXCEPT ![m] = "ok"]
  /\ UNCHANGED <<conn, declared, consumerVars, holder, at, handled, failed, faults>>

-----------------------------------------------------------------------------
(* StartConsumer and its goroutine.                                         *)

\* Again, without a channel the deferred ch.Close is a call on nil.
StartConsumer(c) ==
  /\ loop[c] = "off"
  /\ loop' = [loop EXCEPT ![c] = IF conn THEN "qos" ELSE "panic"]
  /\ chan' = [chan EXCEPT ![c] = IF conn THEN "open" ELSE @]
  /\ UNCHANGED <<conn, declared, prefetch, inbox, cur, holder, at, prod, handled, failed, faults>>

\* Fault: the call to Qos is missing.
StartWithoutQos(c) ==
  /\ loop[c] = "qos"
  /\ loop' = [loop EXCEPT ![c] = "consume"]
  /\ UNCHANGED <<conn, declared, chan, prefetch, inbox, cur, holder, at, prod, handled, failed, faults>>

\* ch.Qos(1, 0, false), and the start of the goroutine.
StartQos(c) ==
  /\ loop[c] = "qos"
  /\ \/ /\ chan[c] = "open"
        /\ prefetch' = [prefetch EXCEPT ![c] = 1] /\ loop' = [loop EXCEPT ![c] = "consume"]
     \/ /\ chan[c] # "open"
        /\ loop' = [loop EXCEPT ![c] = "err"] /\ UNCHANGED prefetch
  /\ UNCHANGED <<conn, declared, chan, inbox, cur, holder, at, prod, handled, failed, faults>>

\* ch.Consume.  It fails, and goes on failing, on a closed channel, and closes
\* the channel when there is no such queue.
Consume(c) ==
  /\ loop[c] = "consume" /\ chan[c] = "open"
  /\ \/ declared /\ loop' = [loop EXCEPT ![c] = "range"] /\ UNCHANGED chan
     \/ ~declared /\ chan' = [chan EXCEPT ![c] = "closed"] /\ UNCHANGED loop
  /\ UNCHANGED <<conn, declared, prefetch, inbox, cur, holder, at, prod, handled, failed, faults>>

RangeNext(c) ==
  /\ loop[c] = "range" /\ chan[c] = "open"
  /\ \E m \in inbox[c] :
       /\ inbox' = [inbox EXCEPT ![c] = @ \ {m}]
       /\ cur' = [cur EXCEPT ![c] = m]
  /\ loop' = [loop EXCEPT ![c] = "handle"]
  /\ UNCHANGED <<conn, declared, chan, prefetch, holder, at, prod, handled, failed, faults>>

\* msgs is closed with its channel, and what waited in it is dropped.
RangeEnd(c) ==
  /\ loop[c] = "range" /\ chan[c] # "open"
  /\ inbox' = [inbox EXCEPT ![c] = {}]
  /\ loop' = [loop EXCEPT ![c] = "consume"]
  /\ UNCHANGED <<conn, declared, chan, prefetch, cur, holder, at, prod, handled, failed, faults>>

HandlerOk(c) ==
  /\ loop[c] = "handle" /\ loop' = [loop EXCEPT ![c] = "ack"]
  /\ handled' = [handled EXCEPT ![cur[c]] = @ + 1]
  /\ UNCHANGED <<conn, declared, chan, prefetch, inbox, cur, holder, at, prod, failed, faults>>

\* Fault: the error of the handler is not looked at.
ackAnyway(c) ==
  /\ loop[c] = "handle" /\ loop' = [loop EXCEPT ![c] = "ack"]
  /\ UNCHANGED <<conn, declared, chan, prefetch, inbox, cur, holder, at, prod, handled, failed, faults>>

\* Fault: the delivery is rejected without being requeued.
rejectDelivery(c) ==
  /\ loop[c] = "handle" /\ loop' = [loop EXCEPT ![c] = "range"]
  /\ failed' = failed \cup {cur[c]}
  /\ cur' = [cur EXCEPT ![c] = NoMsg]
  /\ at' = [at EXCEPT ![cur[c]] = "lost"] /\ holder' = [holder EXCEPT ![cur[c]] = NoConsumer]
  /\ UNCHANGED <<conn, declared, chan, prefetch, inbox, prod, handled, faults>>

\* The error is printed; the delivery stays unacked.
HandlerErr(c) ==
  /\ loop[c] = "handle" /\ loop' = [loop EXCEPT ![c] = "range"]
  /\ failed' = failed \cup {cur[c]}
  /\ cur' = [cur EXCEPT ![c] = NoMsg]
  /\ UNCHANGED <<conn, declared, chan, prefetch, inbox, holder, at, prod, handled, faults>>

\* Fault: the loop keeps the delivery it has acked.
ackAndKeep(c) ==
  /\ loop[c] = "ack" /\ loop' = [loop EXCEPT ![c] = "range"]
  /\ at' = [at EXCEPT ![cur[c]] = "acked"] /\ holder' = [holder EXCEPT ![cur[c]] = NoConsumer]
  /\ UNCHANGED <<conn, declared, chan, prefetch, inbox, cur, prod, handled, failed, faults>>

\* Fault: the loop continues without the Ack.
forgetAck(c) ==
  /\ loop[c] = "ack" /\ loop' = [loop EXCEPT ![c] = "range"]
  /\ cur' = [cur EXCEPT ![c] = NoMsg]
  /\ UNCHANGED <<conn, declared, chan, prefetch, inbox, holder, at, prod, handled, failed, faults>>

\* d.Ack, whose error on a closed channel is only printed.
Ack(c) ==
  /\ loop[c] = "ack" /\ loop' = [loop EXCEPT ![c] = "range"]
  /\ cur' = [cur EXCEPT ![c] = NoMsg]
  /\ IF chan[c] = "open"
     THEN at' = [at EXCEPT ![cur[c]] = "acked"] /\ holder' = [holder EXCEPT ![cur[c]] = NoConsumer]
     ELSE UNCHANGED <<at, holder>>
  /\ UNCHANGED <<conn, declared, chan, prefetch, inbox, prod, handled, failed, faults>>

-----------------------------------------------------------------------------
Produce(m) == ProduceOpen(m) \/ ProduceDeclare(m) \/ ProducePublish(m) \/ ProduceReturn(m)

Work(c) ==
  \/ StartQos(c) \/ Consume(c) \/ RangeNext(c) \/ RangeEnd(c) \/ Ack(c)
  \/ HandlerOk(c) \/ HandlerErr(c)

Next ==
  \/ ConnectionLost
  \/ \E c \in Consumers : CloseChannel(c) \/ StartConsumer(c) \/ Work(c)
  \/ \E m \in Msgs : Produce(m) \/ Route(m) \/ \E c \in Consumers : Deliver(c, m)

Spec == Init /\ [][Next]_vars

\* Goroutines run, handlers return, with or without an error, and the broker
\* hands a message to a consumer that asks for one again and again.
FairSpec ==
  /\ Spec
  /\ \A c \in Consumers : WF_vars(Work(c))
  /\ \A m \in Msgs : WF_vars(Route(m)) /\ SF_vars(\E c \in Consumers : Deliver(c, m))
  /\ \A m \in Msgs : WF_vars(prod[m] # "idle" /\ Produce(m))

-----------------------------------------------------------------------------
(* Properties.                                                              *)

\* The consumer waits for a delivery and holds one whose handler failed.
stalled(c) == loop[c] = "range" /\ inbox[c] = {} /\ held(c) \cap failed # {}

stuck(c) == loop[c] \in {"off", "err", "panic"} \/ chan[c] # "open" \/ stalled(c)

\* A message leaves the queue for good only after a handler succeeded on it,
\* and a handler succeeds on it again only after a channel closed: each fault
\* costs at most one repetition, whichever consumer gets it.
AckedAfterHandled ==
  /\ \A m \in Msgs : at[m] = "acked" => handled[m] >= 1
  /\ \A m \in Msgs : handled[m] <= 1 + faults

\* A message the queue has taken is not lost, whatever handlers and channels do.
NeverDropped ==
  [][\A m \in Msgs : at[m] \in {"queue", "unacked"} => at'[m] \in {"queue", "unacked", "acked"}]_vars

\* With Qos 1, "only one unacknowledged message at a time": a consumer whose
\* handler has failed is given nothing more as long as its channel is open,
\* because nothing ever answers the failed delivery.
StaysStalled ==
  [][\A c \in Consumers : stalled(c) => stalled(c)' \/ chan'[c] # "open"]_vars

\* When ProduceMessage returns without an error, the message has reached its
\* queue, unless the connection was lost: the queue was declared before, and the
\* deferred Close waits until the broker has read the message.
QueuedOnReturn ==
  \A m \in Msgs \ ViaExchange :
    prod[m] = "ok" /\ conn => at[m] \in {"queue", "unacked", "acked"}

\* A message in the queue is acked, or its handler fails, or no consumer is left
\* that could take it: one failing handler stops one consumer and no other.
Progress ==
  \A m \in Msgs : at[m] = "queue" ~>
    \/ at[m] = "acked"
    \/ \E c \in Consumers : stalled(c) /\ holder[m] = c
    \/ \A c \in Consumers : stuck(c)
=============================================================================
