------------------------------ MODULE RabbitMQ ------------------------------
(***************************************************************************)
(* mq/rabbitmq.go: a publisher that opens a channel for every Publish, and  *)
(* a consumer whose two goroutines share the captured variable `channel':   *)
(* the notifier, which replaces it when its first channel is closed, and    *)
(* the consuming loop.  Handled deliveries are acked, failed ones requeued. *)
(*                                                                          *)
(* The broker and the amqp library are external: a durable queue, bound to  *)
(* the exchange by the consumer; a connection that may be lost and come     *)
(* back; at most Cardinality(Chans) channels of the consumer open at once;  *)
(* a channel that closes returns its unacknowledged deliveries to the queue *)
(* and drops what was written to it and not yet read.                       *)
(***************************************************************************)
EXTENDS Integers, FiniteSets

CONSTANTS
  Msgs,             \* events, each passed to one Publish
  Chans,            \* amqp channels of the consumer's connection
  PushRetryTimes,   \* RabbitMQConfig.PushRetryTimes
  MaxFaults         \* bound: channels closed and connections lost

ASSUME RabbitAssumption == PushRetryTimes \in Int /\ MaxFaults \in Nat

NoChan == "nil"
NoMsg  == "none"

maxRetries == 3

VARIABLES
  up,        \* the broker can be reached
  bound,     \* QueueBind has been done (it outlives the broker's restarts)
  chan,      \* consumer's channels: "free", "open", "closed"
  channel,   \* the variable of Start both goroutines assign
  watched,   \* the channel of NotifyClose(closeChan)
  notifier,  \* notifying goroutine: "off", "wait", "spin"
  loop,      \* consuming goroutine: "off", "consume", "range", "handle", "ack", "nack", "dead"
  on,        \* the channel it consumes from
  cur,       \* the delivery it holds
  at,        \* each event: "client", "wire", "queue", "unacked", "acked", "lost", "unrouted"
  pub,       \* Publish: "idle", "try", "ok", "err"
  pchan,     \* its channel: "none", "open", "closed"
  attempt,   \* its failed attempts
  writes,    \* history: times the event was written
  handled,   \* history: times the handler succeeded on it
  closed,    \* rabbitMQConsumer.Close was called
  faults     \* faults so far

consumerVars == <<channel, watched, notifier, loop, on, cur, handled, closed>>
publisherVars == <<pub, pchan, attempt, writes>>
vars == <<up, bound, chan, at, consumerVars, publisherVars, faults>>

TypeOK ==
  /\ up \in BOOLEAN /\ bound \in BOOLEAN /\ closed \in BOOLEAN
  /\ chan \in [Chans -> {"free", "open", "closed"}]
  /\ {channel, watched, on} \subseteq Chans \cup {NoChan}
  /\ notifier \in {"off", "wait", "spin"}
  /\ loop \in {"off", "consume", "range", "handle", "ack", "nack", "dead"}
  /\ cur \in IF loop \in {"handle", "ack", "nack"} THEN Msgs ELSE {NoMsg}
  /\ at \in [Msgs -> {"client", "wire", "queue", "unacked", "acked", "lost", "unrouted"}]
  /\ pub \in [Msgs -> {"idle", "try", "ok", "err"}]
  /\ pchan \in [Msgs -> {"none", "open", "closed"}]
  /\ attempt \in [Msgs -> Nat] /\ writes \in [Msgs -> Nat] /\ handled \in [Msgs -> Nat]
  /\ faults \in 0..MaxFaults

Init ==
  /\ up = TRUE /\ bound = FALSE /\ closed = FALSE
  /\ chan = [c \in Chans |-> "free"]
  /\ channel = NoChan /\ watched = NoChan /\ on = NoChan
  /\ notifier = "off" /\ loop = "off" /\ cur = NoMsg
  /\ at = [m \in Msgs |-> "client"]
  /\ pub = [m \in Msgs |-> "idle"]
  /\ pchan = [m \in Msgs |-> "none"]
  /\ attempt = [m \in Msgs |-> 0]
  /\ writes = [m \in Msgs |-> 0]
  /\ handled = [m \in Msgs |-> 0]
  /\ faults = 0

-----------------------------------------------------------------------------
(* The broker and the connection.                                           *)

Fault == faults < MaxFaults /\ faults' = faults + 1

requeue == [m \in Msgs |-> IF at[m] = "unacked" THEN "queue" ELSE at[m]]

\* The broker closes one of the consumer's channels (a channel exception).
CloseChannel(c) ==
  /\ chan[c] = "open" /\ Fault
  /\ chan' = [chan EXCEPT ![c] = "closed"]
  /\ at' = IF c = on THEN requeue ELSE at
  /\ UNCHANGED <<up, bound, consumerVars, publisherVars>>

BrokerDown ==
  /\ up /\ Fault
  /\ up' = FALSE
  /\ chan' = [c \in Chans |-> IF chan[c] = "open" THEN "closed" ELSE chan[c]]
  /\ pchan' = [m \in Msgs |-> IF pchan[m] = "open" THEN "closed" ELSE pchan[m]]
  /\ at' = [m \in Msgs |-> IF at[m] = "wire" THEN "lost" ELSE requeue[m]]
  /\ UNCHANGED <<bound, consumerVars, pub, attempt, writes>>

BrokerUp ==
  /\ ~up /\ up' = TRUE
  /\ UNCHANGED <<bound, chan, at, consumerVars, publisherVars, faults>>

\* The broker reads a published event; without a binding it is not routable,
\* and Publish does not set the mandatory flag.
Route(m) ==
  /\ at[m] = "wire"
  /\ at' = [at EXCEPT ![m] = IF bound THEN "queue" ELSE "unrouted"]
  /\ UNCHANGED <<up, bound, chan, consumerVars, publisherVars, faults>>

-----------------------------------------------------------------------------
(* rabbitMQPublisher.Publish.                                               *)

\* getChannel: a channel of its own for every call, or the call fails.  Nothing
\* closes these channels, so that they may be what uses up the connections' limit.
PublishOpen(m) ==
  /\ pub[m] = "idle"
  /\ \/ up /\ pchan' = [pchan EXCEPT ![m] = "open"] /\ pub' = [pub EXCEPT ![m] = "try"]
     \/ /\ ~up \/ \E n \in Msgs : pchan[n] = "open"
        /\ pub' = [pub EXCEPT ![m] = "err"] /\ UNCHANGED pchan
  /\ UNCHANGED <<up, bound, chan, at, consumerVars, attempt, writes, faults>>

\* Fault: a successful attempt does not leave the retry loop.
writeAndRetry(m) ==
  /\ pub[m] = "try" /\ pchan[m] = "open"
  /\ at' = [at EXCEPT ![m] = "wire"]
  /\ writes' = [writes EXCEPT ![m] = @ + 1]
  /\ attempt' = [attempt EXCEPT ![m] = @ + 1]
  /\ pub' = [pub EXCEPT ![m] = IF attempt[m] + 1 >= maxRetries THEN "ok" ELSE "try"]
  /\ UNCHANGED <<up, bound, chan, consumerVars, pchan, faults>>

\* channel.Publish returns nil once the event is written; nobody waits for a
\* confirmation, and the channel stays open.
PublishWrite(m) ==
  /\ pub[m] = "try" /\ pchan[m] = "open"
  /\ at' = [at EXCEPT ![m] = "wire"]
  /\ writes' = [writes EXCEPT ![m] = @ + 1]
  /\ pub' = [pub EXCEPT ![m] = "ok"]
  /\ UNCHANGED <<up, bound, chan, consumerVars, pchan, attempt, faults>>

\* It fails on a closed channel, and every retry uses the same channel.
PublishRetry(m) ==
  LET retries == IF PushRetryTimes <= 0 THEN maxRetries ELSE PushRetryTimes IN
  /\ pub[m] = "try" /\ pchan[m] = "closed"
  /\ attempt' = [attempt EXCEPT ![m] = @ + 1]
  /\ pub' = [pub EXCEPT ![m] = IF attempt[m] + 1 < retries THEN "try" ELSE "err"]
  /\ UNCHANGED <<up, bound, chan, at, consumerVars, pchan, writes, faults>>

-----------------------------------------------------------------------------
(* rabbitMQConsumer.Start.                                                  *)

\* A closed channel that nothing refers to is as good as one never opened.
available(c) == chan[c] # "open" /\ c \notin {channel, on, watched}

\* getChannel(client, cfg) fails: no channel can be opened, or it closes before the
\* queue is declared (and then the exchange cannot be declared on it either).
getChannelErr ==
  \/ (~up \/ \A c \in Chans : ~available(c)) /\ UNCHANGED faults
  \/ up /\ Fault

\* rabbitMQConsumer.getChannel, whose result its callers assign to `channel': an open
\* channel with the queue declared and bound; a closed one, with an error that only
\* Start looks at, if it closes before the queue is bound; nil if there is none.
getChannel ==
  \/ \E c \in Chans :
       /\ up /\ available(c) /\ channel' = c
       /\ \/ chan' = [chan EXCEPT ![c] = "open"] /\ bound' = TRUE /\ UNCHANGED faults
          \/ chan' = [chan EXCEPT ![c] = "closed"] /\ Fault /\ UNCHANGED bound
  \/ getChannelErr /\ channel' = NoChan /\ UNCHANGED <<chan, bound>>

Start ==
  /\ loop = "off" /\ getChannel /\ channel' # NoChan /\ chan'[channel'] = "open"
  /\ watched' = channel'
  /\ notifier' = "wait" /\ loop' = "consume"
  /\ UNCHANGED <<up, at, on, cur, handled, closed, publisherVars>>

\* closeChan yields the error and then, being closed, nil at every turn.
Notify ==
  /\ \/ notifier = "wait" /\ chan[watched] = "closed"
     \/ notifier = "spin"
  /\ notifier' = "spin"
  /\ getChannel
  /\ UNCHANGED <<up, at, watched, loop, on, cur, handled, closed, publisherVars>>

\* channel.Consume: registers on an open channel, fails on a closed one
\* (then the loop takes another channel), and panics on nil.
Consume ==
  /\ loop = "consume"
  /\ \/ /\ channel # NoChan /\ chan[channel] = "open"
        /\ on' = channel /\ loop' = "range" /\ UNCHANGED <<chan, bound, channel, faults>>
     \/ /\ channel # NoChan /\ chan[channel] # "open"
        /\ getChannel /\ UNCHANGED <<loop, on>>
     \/ /\ channel = NoChan
        /\ loop' = "dead" /\ UNCHANGED <<chan, bound, channel, on, faults>>
  /\ UNCHANGED <<up, at, watched, notifier, cur, handled, closed, publisherVars>>

\* The broker delivers without limit (no Qos).
Deliver(m) ==
  /\ at[m] = "queue" /\ on # NoChan /\ chan[on] = "open"
  /\ at' = [at EXCEPT ![m] = "unacked"]
  /\ UNCHANGED <<up, bound, chan, consumerVars, publisherVars, faults>>

\* The next delivery of `range msgs', or its end when the channel is closed.
Range ==
  /\ loop = "range"
  /\ \/ /\ chan[on] = "open"
        /\ \E m \in Msgs : at[m] = "unacked" /\ cur' = m
        /\ loop' = "handle" /\ UNCHANGED on
     \/ /\ chan[on] # "open"
        /\ on' = NoChan /\ loop' = "consume" /\ UNCHANGED cur
  /\ UNCHANGED <<up, bound, chan, at, channel, watched, notifier, handled, closed, publisherVars, faults>>

\* Fault: the result of the handler is not looked at.
ackAnyway ==
  /\ loop = "handle" /\ loop' = "ack"
  /\ UNCHANGED <<up, bound, chan, at, channel, watched, notifier, on, cur, handled, closed, publisherVars, faults>>

HandlerErr ==
  /\ loop = "handle" /\ loop' = "nack"
  /\ UNCHANGED <<up, bound, chan, at, channel, watched, notifier, on, cur, handled, closed, publisherVars, faults>>

HandlerOk ==
  /\ loop = "handle" /\ loop' = "ack"
  /\ handled' = [handled EXCEPT ![cur] = @ + 1]
  /\ UNCHANGED <<up, bound, chan, at, channel, watched, notifier, on, cur, closed, publisherVars, faults>>

\* Fault: the loop keeps the delivery it has answered.
replyAndKeep(result) ==
  /\ at' = IF chan[on] = "open" THEN [at EXCEPT ![cur] = result] ELSE at
  /\ loop' = "range"
  /\ UNCHANGED <<up, bound, chan, channel, watched, notifier, on, cur, handled, closed, publisherVars, faults>>

\* d.Ack or d.Nack; on a closed channel its error is ignored.
reply(result) ==
  /\ at' = IF chan[on] = "open" THEN [at EXCEPT ![cur] = result] ELSE at
  /\ loop' = "range" /\ cur' = NoMsg
  /\ UNCHANGED <<up, bound, chan, channel, watched, notifier, on, handled, closed, publisherVars, faults>>

\* Fault: Nack without requeue.
NackDrop == loop = "nack" /\ reply("lost")

Ack  == loop = "ack" /\ reply("acked")
Nack == loop = "nack" /\ reply("queue")

\* RabbitMQClient.Close closes client.channel, which nothing ever sets.
Close ==
  /\ ~closed /\ closed' = TRUE
  /\ UNCHANGED <<up, bound, chan, at, channel, watched, notifier, loop, on, cur, handled, publisherVars, faults>>

-----------------------------------------------------------------------------
Consumer == Consume \/ Range \/ HandlerErr \/ HandlerOk \/ Ack \/ Nack

Next ==
  \/ BrokerDown \/ BrokerUp \/ \E c \in Chans : CloseChannel(c)
  \/ Start \/ Notify \/ Consumer \/ Close
  \/ \E m \in Msgs : Route(m) \/ Deliver(m) \/ PublishOpen(m) \/ PublishWrite(m) \/ PublishRetry(m)

Spec == Init /\ [][Next]_vars

(* Goroutines run, the broker comes back and delivers, and a handler that   *)
(* is called with an event again and again succeeds in the end.             *)
FairSpec ==
  /\ Spec
  /\ WF_vars(BrokerUp) /\ WF_vars(Start) /\ WF_vars(Notify) /\ WF_vars(Consumer)
  /\ \A m \in Msgs :
       /\ WF_vars(Route(m)) /\ SF_vars(Deliver(m))
       /\ SF_vars(Range /\ cur' = m) /\ SF_vars(HandlerOk /\ cur = m)

-----------------------------------------------------------------------------
(* Properties.                                                              *)

\* An event leaves the queue for good only after the handler succeeded on it,
\* and succeeds more than once only when a channel closed before its Ack: each
\* fault costs at most one repetition (Start's handler, Ack and Nack).
AckedAfterHandled ==
  /\ \A m \in Msgs : at[m] = "acked" => handled[m] >= 1
  /\ \A m \in Msgs : handled[m] <= 1 + faults

\* An event that reached the bound queue is never dropped by the consumer,
\* however its handler fails and its channels close.
NeverDropped ==
  [][\A m \in Msgs : at[m] \in {"queue", "unacked"} => at'[m] # "lost"]_vars

\* Retrying publishes an event once, and never after reporting an error.
PublishOnce ==
  \A m \in Msgs : writes[m] <= 1 /\ (pub[m] = "err" => writes[m] = 0)

\* While no channel closes, every event in the queue is in the end handled and
\* acked, however often its handler fails before.
ConsumedWhileUp == \A m \in Msgs : at[m] = "queue" ~> at[m] = "acked" \/ faults > 0

\* Start consumes the queue: every event in it is handled and acked.
Consumed == \A m \in Msgs : at[m] = "queue" ~> at[m] = "acked"
=============================================================================
