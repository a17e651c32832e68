--------------------------- MODULE RabbitMQ_proofs ---------------------------
(***************************************************************************)
(* What publisher and consumer of mq/rabbitmq.go keep, for any number of    *)
(* events, channels, retries and faults.                                    *)
(***************************************************************************)
EXTENDS RabbitMQ, TLAPS

-----------------------------------------------------------------------------
(* The inductive invariant.                                                 *)

\* The two halves of TypeOK: Booleans, and everything else.
Flags == up \in BOOLEAN /\ bound \in BOOLEAN /\ closed \in BOOLEAN

Types ==
  /\ chan \in [Chans -> {"free", "open", "closed"}]
  /\ {channel, watched, on} \subseteq Chans \cup {NoChan}
  /\ notifier \in {"off", "wait", "spin"}
  /\ loop \in {"off", "consume", "range", "handle", "ack", "nack", "dead"}
  /\ cur \in IF loop \in {"handle", "ack", "nack"} THEN Msgs ELSE {NoMsg}
  /\ at \in [Msgs -> {"client", "wire", "queue", "unacked", "acked", "lost", "unrouted"}]
  /\ pub \in [Msgs -> {"idle", "try", "ok", "err"}]
  /\ pchan \in [Msgs -> {"none", "open", "closed"}]
  /\ attempt \in [Msgs -> Nat] /\ writes \in [Msgs -> Nat] /\ handled \in [Msgs -> Nat]
  /\ faults \in 0..MaxFaults

\* An event that Publish has not yet written, or failed to write, was not
\* written; before that it is with the client.
PubInv ==
  \A m \in Msgs :
    /\ pub[m] \in {"idle", "try"} => at[m] = "client"
    /\ pub[m] # "ok" => writes[m] = 0
    /\ writes[m] <= 1

\* The loop holds a delivery of the channel it consumes from; the event is
\* unacked while that channel is open, and back in the queue once it closed.
Busy == loop \in {"handle", "ack", "nack"}

CurInv ==
  /\ loop \in {"range", "handle", "ack", "nack"} => on \in Chans
  /\ Busy => at[cur] = IF chan[on] = "open" THEN "unacked" ELSE "queue"

\* A success that has not led to an ack was paid for by a fault; the event in
\* the handler, or between handler and Ack, may have one more.
CountInv ==
  \A m \in Msgs :
    /\ handled[m] <= 1 + faults
    /\ at[m] = "acked" => handled[m] >= 1
    /\ at[m] # "acked" /\ ~(loop = "ack" /\ cur = m) => handled[m] <= faults
    /\ loop = "ack" /\ cur = m => handled[m] >= 1
    /\ loop = "handle" /\ cur = m /\ chan[on] # "open" => handled[m] + 1 <= faults
    /\ loop = "ack" /\ cur = m /\ chan[on] # "open" => handled[m] <= faults

IInv == Types /\ PubInv /\ CurInv /\ CountInv

-----------------------------------------------------------------------------

LEMMA InitLemma == Init => Flags /\ IInv
<1> SUFFICES ASSUME Init PROVE Flags /\ IInv
  OBVIOUS
<1>1. Flags
  BY Zenon DEF Init, Flags
<1>2. Types
  BY RabbitAssumption DEF Init, Types, NoChan, NoMsg
<1>3. PubInv /\ CurInv /\ CountInv
  BY DEF Init, PubInv, CurInv, CountInv, Busy
<1> QED
  BY <1>1, <1>2, <1>3 DEF IInv

\* getChannel keeps the types, and leaves the channel consumed from alone.
LEMMA GetChannelLemma ==
  ASSUME Types, getChannel
  PROVE  /\ chan' \in [Chans -> {"free", "open", "closed"}]
         /\ channel' \in Chans \cup {NoChan}
         /\ on \in Chans => chan'[on] = chan[on]
         /\ faults' \in 0..MaxFaults /\ faults <= faults'
BY RabbitAssumption DEF Types, getChannel, getChannelErr, available, Fault

LEMMA FlagsStep == Flags /\ [Next]_vars => Flags'
<1> SUFFICES ASSUME Flags, [Next]_vars PROVE Flags'
  OBVIOUS
<1> USE DEF Flags, vars, consumerVars
<1>1. ASSUME getChannel, UNCHANGED <<up, closed>> PROVE Flags'
  BY <1>1, Zenon DEF getChannel
<1>2. CASE Start \/ Notify
  BY <1>1, <1>2, Zenon DEF Start, Notify
<1>3. CASE Consume
  BY <1>1, <1>3, Zenon DEF Consume
<1>4. CASE BrokerDown \/ BrokerUp \/ Close
  BY <1>4, Zenon DEF BrokerDown, BrokerUp, Close
<1>5. CASE Range \/ HandlerErr \/ HandlerOk \/ Ack \/ Nack
  BY <1>5, Zenon DEF Range, HandlerErr, HandlerOk, Ack, Nack, reply
<1>6. ASSUME NEW c \in Chans, CloseChannel(c) PROVE Flags'
  BY <1>6, Zenon DEF CloseChannel
<1>7. ASSUME NEW m \in Msgs, Route(m) \/ Deliver(m) PROVE Flags'
  BY <1>7, Zenon DEF Route, Deliver
<1>8. ASSUME NEW m \in Msgs, PublishOpen(m) \/ PublishWrite(m) \/ PublishRetry(m) PROVE Flags'
  BY <1>8, Zenon DEF PublishOpen, PublishWrite, PublishRetry
<1>9. CASE UNCHANGED vars
  BY <1>9, Zenon
<1> QED
  BY <1>2, <1>3, <1>4, <1>5, <1>6, <1>7, <1>8, <1>9 DEF Next, Consumer

LEMMA TypeStep == Types /\ [Next]_vars => Types'
<1> SUFFICES ASSUME Types, [Next]_vars PROVE Types'
  OBVIOUS
<1> USE RabbitAssumption DEF Types, vars, consumerVars, publisherVars
<1>1. CASE BrokerDown
  BY <1>1 DEF BrokerDown, Fault, requeue
<1>2. CASE BrokerUp
  BY <1>2 DEF BrokerUp
<1>3. ASSUME NEW c \in Chans, CloseChannel(c) PROVE Types'
  BY <1>3 DEF CloseChannel, Fault, requeue
<1>4. CASE Start
  BY <1>4, GetChannelLemma DEF Start
<1>5. CASE Notify
  BY <1>5, GetChannelLemma DEF Notify
<1>6. CASE Consume
  BY <1>6, GetChannelLemma DEF Consume
<1>7. CASE Range
  BY <1>7 DEF Range
<1>8. CASE HandlerErr
  BY <1>8 DEF HandlerErr
<1>9. CASE HandlerOk
  BY <1>9 DEF HandlerOk
<1>10. CASE Ack
  BY <1>10 DEF Ack, reply
<1>11. CASE Nack
  BY <1>11 DEF Nack, reply
<1>12. CASE Close
  BY <1>12 DEF Close
<1>13. ASSUME NEW m \in Msgs, Route(m) PROVE Types'
  BY <1>13 DEF Route
<1>14. ASSUME NEW m \in Msgs, Deliver(m) PROVE Types'
  BY <1>14 DEF Deliver
<1>15. ASSUME NEW m \in Msgs, PublishOpen(m) PROVE Types'
  BY <1>15 DEF PublishOpen
<1>16. ASSUME NEW m \in Msgs, PublishWrite(m) PROVE Types'
  BY <1>16 DEF PublishWrite
<1>17. ASSUME NEW m \in Msgs, PublishRetry(m) PROVE Types'
  BY <1>17 DEF PublishRetry, maxRetries
<1>18. CASE UNCHANGED vars
  BY <1>18
<1> QED
  BY <1>1, <1>2, <1>3, <1>4, <1>5, <1>6, <1>7, <1>8, <1>9, <1>10, <1>11, <1>12,
     <1>13, <1>14, <1>15, <1>16, <1>17, <1>18 DEF Next, Consumer

LEMMA PubStep == IInv /\ [Next]_vars => PubInv'
<1> SUFFICES ASSUME IInv, [Next]_vars PROVE PubInv'
  OBVIOUS
<1> USE DEF IInv, Types, PubInv, CurInv, Busy, vars, consumerVars, publisherVars
<1>1. CASE BrokerDown
  BY <1>1 DEF BrokerDown, requeue
<1>2. ASSUME NEW c \in Chans, CloseChannel(c) PROVE PubInv'
  BY <1>2 DEF CloseChannel, requeue
<1>3. CASE Ack \/ Nack
  BY <1>3 DEF Ack, Nack, reply
<1>4. CASE BrokerUp \/ Start \/ Notify \/ Consume \/ Range \/ HandlerErr \/ HandlerOk \/ Close
  BY <1>4 DEF BrokerUp, Start, Notify, Consume, Range, HandlerErr, HandlerOk, Close
<1>5. ASSUME NEW m \in Msgs, Route(m) \/ Deliver(m) PROVE PubInv'
  BY <1>5 DEF Route, Deliver
<1>6. ASSUME NEW m \in Msgs, PublishOpen(m) PROVE PubInv'
  BY <1>6 DEF PublishOpen
<1>7. ASSUME NEW m \in Msgs, PublishWrite(m) PROVE PubInv'
  BY <1>7 DEF PublishWrite
<1>8. ASSUME NEW m \in Msgs, PublishRetry(m) PROVE PubInv'
  BY <1>8 DEF PublishRetry
<1>9. CASE UNCHANGED vars
  BY <1>9
<1> QED
  BY <1>1, <1>2, <1>3, <1>4, <1>5, <1>6, <1>7, <1>8, <1>9 DEF Next, Consumer

\* The delivery the loop holds stays what it is: nobody else writes, routes or
\* delivers an event that is unacked, and one that was requeued is not delivered
\* again before the loop has left its closed channel.
LEMMA CurStep == IInv /\ [Next]_vars => CurInv'
<1> SUFFICES ASSUME IInv, [Next]_vars PROVE CurInv'
  OBVIOUS
<1> USE DEF IInv, Types, PubInv, CurInv, Busy, vars, consumerVars, publisherVars
<1>1. CASE BrokerDown
  BY <1>1 DEF BrokerDown, requeue
<1>2. ASSUME NEW c \in Chans, CloseChannel(c) PROVE CurInv'
  BY <1>2 DEF CloseChannel, requeue
<1>3. CASE Ack \/ Nack
  BY <1>3 DEF Ack, Nack, reply
<1>4. CASE Start
  BY <1>4 DEF Start
<1>5. CASE Notify
  BY <1>5, GetChannelLemma DEF Notify
<1>6. CASE Consume
  BY <1>6 DEF Consume
<1>7. CASE Range
  BY <1>7 DEF Range
<1>8. CASE BrokerUp \/ HandlerErr \/ HandlerOk \/ Close
  BY <1>8 DEF BrokerUp, HandlerErr, HandlerOk, Close
<1>9. ASSUME NEW m \in Msgs, Route(m) PROVE CurInv'
  BY <1>9 DEF Route
<1>10. ASSUME NEW m \in Msgs, Deliver(m) PROVE CurInv'
  BY <1>10 DEF Deliver
<1>11. ASSUME NEW m \in Msgs, PublishOpen(m) \/ PublishRetry(m) PROVE CurInv'
  BY <1>11 DEF PublishOpen, PublishRetry
<1>12. ASSUME NEW m \in Msgs, PublishWrite(m) PROVE CurInv'
  BY <1>12 DEF PublishWrite
<1>13. CASE UNCHANGED vars
  BY <1>13
<1> QED
  BY <1>1, <1>2, <1>3, <1>4, <1>5, <1>6, <1>7, <1>8, <1>9, <1>10, <1>11, <1>12, <1>13
     DEF Next, Consumer

LEMMA CountStep == IInv /\ [Next]_vars => CountInv'
<1> SUFFICES ASSUME IInv, [Next]_vars PROVE CountInv'
  OBVIOUS
<1> USE DEF IInv, Types, PubInv, CurInv, CountInv, Busy, vars, consumerVars, publisherVars
<1>1. CASE BrokerDown
  BY <1>1 DEF BrokerDown, requeue, Fault
<1>2. ASSUME NEW c \in Chans, CloseChannel(c) PROVE CountInv'
  BY <1>2 DEF CloseChannel, requeue, Fault
<1>3. CASE Ack
  BY <1>3 DEF Ack, reply
<1>4. CASE Nack
  BY <1>4 DEF Nack, reply
<1>5. CASE Start
  BY <1>5, GetChannelLemma DEF Start
<1>6. CASE Notify
  BY <1>6, GetChannelLemma DEF Notify
<1>7. CASE Consume
  BY <1>7, GetChannelLemma DEF Consume
<1>8. CASE Range
  BY <1>8 DEF Range
<1>9. CASE HandlerOk
  BY <1>9 DEF HandlerOk
<1>10. CASE BrokerUp \/ HandlerErr \/ Close
  BY <1>10 DEF BrokerUp, HandlerErr, Close
<1>11. ASSUME NEW m \in Msgs, Route(m) PROVE CountInv'
  BY <1>11 DEF Route
<1>12. ASSUME NEW m \in Msgs, Deliver(m) PROVE CountInv'
  BY <1>12 DEF Deliver
<1>13. ASSUME NEW m \in Msgs, PublishOpen(m) \/ PublishRetry(m) PROVE CountInv'
  BY <1>13 DEF PublishOpen, PublishRetry
<1>14. ASSUME NEW m \in Msgs, PublishWrite(m) PROVE CountInv'
  BY <1>14 DEF PublishWrite
<1>15. CASE UNCHANGED vars
  BY <1>15
<1> QED
  BY <1>1, <1>2, <1>3, <1>4, <1>5, <1>6, <1>7, <1>8, <1>9, <1>10, <1>11, <1>12, <1>13,
     <1>14, <1>15 DEF Next, Consumer

\* The inductive invariant holds in every reachable state.
THEOREM Invariance == Spec => []IInv
<1>1. IInv /\ [Next]_vars => IInv'
  <2>1. IInv => Types
    BY DEF IInv
  <2> QED
    BY <2>1, TypeStep, PubStep, CurStep, CountStep DEF IInv
<1> QED
  BY InitLemma, <1>1, PTL DEF Spec

-----------------------------------------------------------------------------

\* The state of publisher, consumer and broker always has its type.
THEOREM TypeCorrect == Spec => []TypeOK
<1>1. Flags /\ IInv => TypeOK
  BY DEF IInv, Flags, Types, TypeOK
<1> QED
  BY InitLemma, FlagsStep, Invariance, <1>1, PTL DEF Spec

\* Whatever closes whenever, an event is acked only after its handler succeeded,
\* and each fault costs at most one repetition (Start, Ack and Nack).
THEOREM AckedTheorem == Spec => []AckedAfterHandled
<1>1. IInv => AckedAfterHandled
  BY DEF IInv, CountInv, AckedAfterHandled
<1> QED
  BY Invariance, <1>1, PTL

\* For any PushRetryTimes, the retries of Publish write an event at most once,
\* and not at all when it reports an error.
THEOREM PublishTheorem == Spec => []PublishOnce
<1>1. IInv => PublishOnce
  BY DEF IInv, PubInv, PublishOnce
<1> QED
  BY Invariance, <1>1, PTL

\* No step drops an event the queue has taken.
THEOREM NeverDroppedTheorem == Spec => NeverDropped
<1> DEFINE Kept == \A m \in Msgs : at[m] \in {"queue", "unacked"} => at'[m] # "lost"
<1>1. IInv /\ [Next]_vars => [Kept]_vars
  <2> SUFFICES ASSUME IInv, Next PROVE Kept
    OBVIOUS
  <2> USE DEF IInv, Types, Kept, consumerVars
  <2>1. CASE BrokerDown
    BY <2>1 DEF BrokerDown, requeue
  <2>2. ASSUME NEW c \in Chans, CloseChannel(c) PROVE Kept
    BY <2>2 DEF CloseChannel, requeue
  <2>3. CASE Ack \/ Nack
    BY <2>3 DEF Ack, Nack, reply
  <2>4. CASE BrokerUp \/ Start \/ Notify \/ Consume \/ Range \/ HandlerErr \/ HandlerOk \/ Close
    BY <2>4 DEF BrokerUp, Start, Notify, Consume, Range, HandlerErr, HandlerOk, Close
  <2>5. ASSUME NEW m \in Msgs, Route(m) \/ Deliver(m) PROVE Kept
    BY <2>5 DEF Route, Deliver
  <2>6. ASSUME NEW m \in Msgs, PublishOpen(m) \/ PublishWrite(m) \/ PublishRetry(m) PROVE Kept
    BY <2>6 DEF PublishOpen, PublishWrite, PublishRetry
  <2> QED
    BY <2>1, <2>2, <2>3, <2>4, <2>5, <2>6 DEF Next, Consumer
<1> QED
  BY Invariance, <1>1, PTL DEF Spec, NeverDropped
=============================================================================
