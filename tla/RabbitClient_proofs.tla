------------------------- MODULE RabbitClient_proofs -------------------------
(***************************************************************************)
(* What producers and consumers of package rabbitmq keep, for any number of *)
(* consumers, messages and faults.                                          *)
(***************************************************************************)
EXTENDS RabbitClient, FiniteSetTheorems, TLAPS

-----------------------------------------------------------------------------
(* The inductive invariant.                                                 *)

\* The two halves of TypeOK: Booleans, and everything else.
Flags == conn \in BOOLEAN /\ declared \in BOOLEAN

Types ==
  /\ chan \in [Consumers -> {"nil", "open", "closed"}]
  /\ prefetch \in [Consumers -> {0, 1}]
  /\ loop \in [Consumers -> {"off", "qos", "consume", "range", "handle", "ack", "err", "panic"}]
  /\ inbox \in [Consumers -> SUBSET Msgs]
  /\ cur \in [Consumers -> Msgs \cup {NoMsg}]
  /\ \A c \in Consumers : cur[c] # NoMsg <=> loop[c] \in {"handle", "ack"}
  /\ holder \in [Msgs -> Consumers \cup {NoConsumer}]
  /\ \A m \in Msgs : holder[m] # NoConsumer <=> at[m] = "unacked"
  /\ at \in [Msgs -> {"client", "wire", "queue", "unacked", "acked", "lost", "unrouted"}]
  /\ prod \in [Msgs -> {"idle", "declare", "publish", "close", "ok", "err", "panic"}]
  /\ handled \in [Msgs -> Nat] /\ failed \subseteq Msgs
  /\ faults \in 0..MaxFaults

\* A message is with the client until it is published, a queue is declared before
\* anything is published to it, and as long as there is a connection, nothing that
\* was published to a declared queue is lost on the way.
ProdInv ==
  \A m \in Msgs :
    /\ prod[m] \in {"idle", "declare", "publish"} => at[m] = "client"
    /\ m \notin ViaExchange =>
         /\ prod[m] \in {"publish", "close", "ok"} => declared
         /\ prod[m] = "close" /\ conn => at[m] \in {"wire", "queue", "unacked", "acked"}
         /\ prod[m] = "ok" /\ conn => at[m] \in {"queue", "unacked", "acked"}

\* Over an open channel a consumer has only what the broker counts as its own; over
\* a closed one the broker counts nothing.
OwnInv ==
  \A c \in Consumers :
    /\ \A m \in Msgs : holder[m] = c => chan[c] = "open" /\ loop[c] \in {"range", "handle", "ack"}
    /\ loop[c] = "off" => inbox[c] = {}
    /\ chan[c] = "open" =>
         /\ \A m \in inbox[c] : holder[m] = c /\ m # cur[c]
         /\ cur[c] # NoMsg => holder[cur[c]] = c

\* Deliveries are made within a prefetch count of 1.
QosInv ==
  \A c \in Consumers :
    /\ IsFiniteSet(held(c))
    /\ loop[c] \in {"consume", "range", "handle", "ack"} => prefetch[c] = 1

\* Handlers that are still at work on a message that is no longer theirs.
stale(m) == {c \in Consumers : loop[c] = "handle" /\ cur[c] = m /\ holder[m] # c}

\* The success that no fault has to pay for.
done(m) == at[m] = "acked" \/ \E c \in Consumers : holder[m] = c /\ cur[c] = m /\ loop[c] = "ack"

\* Every success on a message, and every handler that may still have one behind
\* the broker's back, was paid for by a fault, except one.
paid(m) ==
  /\ IsFiniteSet(stale(m))
  /\ handled[m] + Cardinality(stale(m)) <= faults + (IF done(m) THEN 1 ELSE 0)
  /\ at[m] = "acked" => handled[m] >= 1

CountInv ==
  /\ \A m \in Msgs : paid(m)
  /\ \A c \in Consumers : loop[c] = "ack" => handled[cur[c]] >= 1

IInv == Types /\ ProdInv /\ OwnInv /\ QosInv /\ CountInv

-----------------------------------------------------------------------------
(* The steps.                                                               *)

\* NewRabbitMQClient has connected, and nothing else has happened.
LEMMA InitLemma == Init => Flags /\ IInv
<1> SUFFICES ASSUME Init PROVE Flags /\ IInv
  OBVIOUS
<1>1. Flags
  BY DEF Init, Flags
<1>2. Types /\ ProdInv /\ OwnInv
  BY RabbitClientAssumption DEF Init, Types, ProdInv, OwnInv
<1>3. ASSUME NEW c \in Consumers PROVE held(c) = {}
  BY RabbitClientAssumption DEF Init, held
<1>4. ASSUME NEW m \in Msgs PROVE stale(m) = {} /\ handled[m] = 0 /\ faults = 0 /\ at[m] = "client"
  BY DEF Init, stale
<1>5. QosInv
  BY <1>3, FS_EmptySet DEF Init, QosInv
<1>6. CountInv
  BY <1>4, FS_EmptySet DEF Init, CountInv, paid, done
<1> QED
  BY <1>1, <1>2, <1>5, <1>6 DEF IInv

\* Boolean variables stay Boolean.
LEMMA FlagsStep == Flags /\ [Next]_vars => Flags'
<1> SUFFICES ASSUME Flags, [Next]_vars PROVE Flags'
  OBVIOUS
<1>1. CASE ConnectionLost
  BY <1>1, Zenon DEF Flags, ConnectionLost
<1>2. ASSUME NEW m \in Msgs, ProduceDeclare(m) PROVE Flags'
  BY <1>2, Zenon DEF Flags, ProduceDeclare
<1>3. CASE UNCHANGED <<conn, declared>>
  BY <1>3, Zenon DEF Flags
<1> QED
  BY <1>1, <1>2, <1>3 DEF Next, Work, Produce, Deliver, vars,
     CloseChannel, StartConsumer, StartQos, Consume, RangeNext,
     RangeEnd, Ack, HandlerOk, HandlerErr, ProduceOpen, ProduceDeclare, ProducePublish, ProduceReturn, Route

\* No step leaves the types: what is unacked has a holder, and nothing else has.
LEMMA TypeStep == IInv /\ [Next]_vars => Types'
<1> SUFFICES ASSUME IInv, [Next]_vars PROVE Types'
  OBVIOUS
<1>0. Types /\ ProdInv /\ OwnInv /\ RabbitClientAssumption
  BY RabbitClientAssumption DEF IInv
<1> USE DEF vars, consumerVars
<1>1. CASE UNCHANGED vars
  BY <1>0, <1>1 DEF Types
<1>2. CASE ConnectionLost
  BY <1>0, <1>2 DEF ConnectionLost, Fault, closeChannels, requeued, Types, RabbitClientAssumption
<1>3. ASSUME NEW c \in Consumers, CloseChannel(c) \/ StartConsumer(c) \/ Work(c) PROVE Types'
  <2>1. CASE CloseChannel(c)
    BY <1>0, <2>1 DEF CloseChannel, Fault, closeChannels, requeued, Types, RabbitClientAssumption
  <2>2. CASE StartConsumer(c)
    BY <1>0, <2>2 DEF StartConsumer, Types
  <2>3. CASE StartQos(c)
    BY <1>0, <2>3 DEF StartQos, Types
  <2>4. CASE Consume(c)
    BY <1>0, <2>4 DEF Consume, Types
  <2>5. CASE RangeNext(c)
    BY <1>0, <2>5 DEF RangeNext, Types, RabbitClientAssumption
  <2>6. CASE RangeEnd(c)
    BY <1>0, <2>6 DEF RangeEnd, Types
  <2>7. CASE Ack(c)
    BY <1>0, <2>7 DEF Ack, Types, OwnInv
  <2>8. CASE HandlerOk(c)
    BY <1>0, <2>8 DEF HandlerOk, Types
  <2>9. CASE HandlerErr(c)
    BY <1>0, <2>9 DEF HandlerErr, Types
  <2> QED
    BY <1>3, <2>1, <2>2, <2>3, <2>4, <2>5, <2>6, <2>7, <2>8, <2>9 DEF Work
<1>4. ASSUME NEW m \in Msgs, Produce(m) \/ Route(m) PROVE Types'
  <2>1. CASE ProduceOpen(m)
    BY <1>0, <2>1 DEF ProduceOpen, Types
  <2>2. CASE ProduceDeclare(m)
    BY <1>0, <2>2 DEF ProduceDeclare, Types
  <2>3. CASE ProducePublish(m)
    BY <1>0, <2>3 DEF ProducePublish, Types, ProdInv
  <2>4. CASE ProduceReturn(m)
    BY <1>0, <2>4 DEF ProduceReturn, Types
  <2>5. CASE Route(m)
    BY <1>0, <2>5 DEF Route, Types
  <2> QED
    BY <1>4, <2>1, <2>2, <2>3, <2>4, <2>5 DEF Produce
<1>5. ASSUME NEW m \in Msgs, NEW c \in Consumers, Deliver(c, m) PROVE Types'
  BY <1>0, <1>5 DEF Deliver, Types
<1> QED
  BY <1>1, <1>2, <1>3, <1>4, <1>5 DEF Next

\* QueueDeclare comes before Publish, and the Close after it waits for the broker.
LEMMA ProdStep == IInv /\ [Next]_vars => ProdInv'
<1> SUFFICES ASSUME IInv, [Next]_vars PROVE ProdInv'
  OBVIOUS
<1>0. Types /\ ProdInv /\ OwnInv /\ RabbitClientAssumption
  BY RabbitClientAssumption DEF IInv
<1> USE DEF vars, consumerVars
<1>1. CASE UNCHANGED vars
  BY <1>0, <1>1 DEF Types, ProdInv
<1>2. CASE ConnectionLost
  BY <1>0, <1>2 DEF ConnectionLost, Fault, closeChannels, requeued, Types, ProdInv
<1>3. ASSUME NEW c \in Consumers, CloseChannel(c) \/ StartConsumer(c) \/ Work(c) PROVE ProdInv'
  <2>1. CASE CloseChannel(c)
    BY <1>0, <2>1 DEF CloseChannel, Fault, closeChannels, requeued, Types, ProdInv
  <2>2. CASE StartConsumer(c)
    BY <1>0, <2>2 DEF StartConsumer, Types, ProdInv
  <2>3. CASE StartQos(c)
    BY <1>0, <2>3 DEF StartQos, Types, ProdInv
  <2>4. CASE Consume(c)
    BY <1>0, <2>4 DEF Consume, Types, ProdInv
  <2>5. CASE RangeNext(c)
    BY <1>0, <2>5 DEF RangeNext, Types, ProdInv
  <2>6. CASE RangeEnd(c)
    BY <1>0, <2>6 DEF RangeEnd, Types, ProdInv
  <2>7. CASE Ack(c)
    BY <1>0, <2>7 DEF Ack, Types, ProdInv, OwnInv
  <2>8. CASE HandlerOk(c)
    BY <1>0, <2>8 DEF HandlerOk, Types, ProdInv
  <2>9. CASE HandlerErr(c)
    BY <1>0, <2>9 DEF HandlerErr, Types, ProdInv
  <2> QED
    BY <1>3, <2>1, <2>2, <2>3, <2>4, <2>5, <2>6, <2>7, <2>8, <2>9 DEF Work
<1>4. ASSUME NEW m \in Msgs, Produce(m) \/ Route(m) PROVE ProdInv'
  <2>1. CASE ProduceOpen(m)
    BY <1>0, <2>1 DEF ProduceOpen, Types, ProdInv
  <2>2. CASE ProduceDeclare(m)
    BY <1>0, <2>2 DEF ProduceDeclare, Types, ProdInv
  <2>3. CASE ProducePublish(m)
    BY <1>0, <2>3 DEF ProducePublish, Types, ProdInv
  <2>4. CASE ProduceReturn(m)
    BY <1>0, <2>4 DEF ProduceReturn, Types, ProdInv
  <2>5. CASE Route(m)
    BY <1>0, <2>5 DEF Route, Types, ProdInv
  <2> QED
    BY <1>4, <2>1, <2>2, <2>3, <2>4, <2>5 DEF Produce
<1>5. ASSUME NEW m \in Msgs, NEW c \in Consumers, Deliver(c, m) PROVE ProdInv'
  BY <1>0, <1>5 DEF Deliver, Types, ProdInv
<1> QED
  BY <1>1, <1>2, <1>3, <1>4, <1>5 DEF Next

\* A delivery is taken from its consumer only when its channel closes or it is acked.
LEMMA OwnStep == IInv /\ [Next]_vars => OwnInv'
<1> SUFFICES ASSUME IInv, [Next]_vars PROVE OwnInv'
  OBVIOUS
<1>0. Types /\ ProdInv /\ OwnInv /\ RabbitClientAssumption
  BY RabbitClientAssumption DEF IInv
<1> USE DEF vars, consumerVars
<1>1. CASE UNCHANGED vars
  BY <1>0, <1>1 DEF Types, OwnInv
<1>2. CASE ConnectionLost
  BY <1>0, <1>2 DEF ConnectionLost, Fault, closeChannels, requeued, Types, OwnInv
<1>3. ASSUME NEW c \in Consumers, CloseChannel(c) \/ StartConsumer(c) \/ Work(c) PROVE OwnInv'
  <2>1. CASE CloseChannel(c)
    BY <1>0, <2>1 DEF CloseChannel, Fault, closeChannels, requeued, Types, OwnInv
  <2>2. CASE StartConsumer(c)
    BY <1>0, <2>2 DEF StartConsumer, Types, OwnInv
  <2>3. CASE StartQos(c)
    BY <1>0, <2>3 DEF StartQos, Types, OwnInv
  <2>4. CASE Consume(c)
    BY <1>0, <2>4 DEF Consume, Types, OwnInv
  <2>5. CASE RangeNext(c)
    BY <1>0, <2>5 DEF RangeNext, Types, OwnInv, RabbitClientAssumption
  <2>6. CASE RangeEnd(c)
    BY <1>0, <2>6 DEF RangeEnd, Types, OwnInv
  <2>7. CASE Ack(c)
    BY <1>0, <2>7 DEF Ack, Types, OwnInv
  <2>8. CASE HandlerOk(c)
    BY <1>0, <2>8 DEF HandlerOk, Types, OwnInv
  <2>9. CASE HandlerErr(c)
    BY <1>0, <2>9 DEF HandlerErr, Types, OwnInv
  <2> QED
    BY <1>3, <2>1, <2>2, <2>3, <2>4, <2>5, <2>6, <2>7, <2>8, <2>9 DEF Work
<1>4. ASSUME NEW m \in Msgs, Produce(m) \/ Route(m) PROVE OwnInv'
  <2>1. CASE ProduceOpen(m)
    BY <1>0, <2>1 DEF ProduceOpen, Types, OwnInv
  <2>2. CASE ProduceDeclare(m)
    BY <1>0, <2>2 DEF ProduceDeclare, Types, OwnInv
  <2>3. CASE ProducePublish(m)
    BY <1>0, <2>3 DEF ProducePublish, Types, OwnInv
  <2>4. CASE ProduceReturn(m)
    BY <1>0, <2>4 DEF ProduceReturn, Types, OwnInv
  <2>5. CASE Route(m)
    BY <1>0, <2>5 DEF Route, Types, OwnInv
  <2> QED
    BY <1>4, <2>1, <2>2, <2>3, <2>4, <2>5 DEF Produce
<1>5. ASSUME NEW m \in Msgs, NEW c \in Consumers, Deliver(c, m) PROVE OwnInv'
  BY <1>0, <1>5 DEF Deliver, Types, OwnInv
<1> QED
  BY <1>1, <1>2, <1>3, <1>4, <1>5 DEF Next

\* Only Deliver adds to what a consumer holds, one message at a time.
LEMMA QosStep == IInv /\ [Next]_vars => QosInv'
<1> SUFFICES ASSUME IInv, [Next]_vars PROVE QosInv'
  OBVIOUS
<1>0. Types /\ OwnInv /\ QosInv /\ RabbitClientAssumption
  BY RabbitClientAssumption DEF IInv
<1> DEFINE Less == \A d \in Consumers : (held(d))' \subseteq held(d)
           Limit == \A d \in Consumers :
                      loop'[d] \in {"consume", "range", "handle", "ack"} => prefetch'[d] = 1
<1>6. ASSUME Less, Limit PROVE QosInv'
  BY <1>0, <1>6, FS_Subset DEF QosInv
<1> USE DEF vars, consumerVars
<1>1. CASE UNCHANGED vars
  BY <1>0, <1>6, <1>1 DEF Types, QosInv, held
<1>2. CASE ConnectionLost
  BY <1>0, <1>6, <1>2 DEF ConnectionLost, Fault, closeChannels, requeued, Types, QosInv, held, RabbitClientAssumption
<1>3. ASSUME NEW c \in Consumers, CloseChannel(c) \/ StartConsumer(c) \/ Work(c) PROVE QosInv'
  <2>1. CASE CloseChannel(c)
    BY <1>0, <1>6, <2>1 DEF CloseChannel, Fault, closeChannels, requeued, Types, QosInv, held, RabbitClientAssumption
  <2>2. CASE StartConsumer(c)
    BY <1>0, <1>6, <2>2 DEF StartConsumer, Types, QosInv, held
  <2>3. CASE StartQos(c)
    <3>1. Less
      BY <2>3 DEF StartQos, held
    <3>2. Limit
      BY <1>0, <2>3 DEF StartQos, Types, QosInv
    <3> QED
      BY <1>6, <3>1, <3>2
  <2>4. CASE Consume(c)
    BY <1>0, <1>6, <2>4 DEF Consume, Types, QosInv, held
  <2>5. CASE RangeNext(c)
    BY <1>0, <1>6, <2>5 DEF RangeNext, Types, QosInv, held
  <2>6. CASE RangeEnd(c)
    BY <1>0, <1>6, <2>6 DEF RangeEnd, Types, QosInv, held
  <2>7. CASE Ack(c)
    BY <1>0, <1>6, <2>7 DEF Ack, Types, QosInv, held, RabbitClientAssumption
  <2>8. CASE HandlerOk(c)
    BY <1>0, <1>6, <2>8 DEF HandlerOk, Types, QosInv, held
  <2>9. CASE HandlerErr(c)
    BY <1>0, <1>6, <2>9 DEF HandlerErr, Types, QosInv, held
  <2> QED
    BY <1>3, <2>1, <2>2, <2>3, <2>4, <2>5, <2>6, <2>7, <2>8, <2>9 DEF Work
<1>4. ASSUME NEW m \in Msgs, Produce(m) \/ Route(m) PROVE QosInv'
  <2>1. CASE ProduceOpen(m)
    BY <1>0, <1>6, <2>1 DEF ProduceOpen, Types, QosInv, held
  <2>2. CASE ProduceDeclare(m)
    BY <1>0, <1>6, <2>2 DEF ProduceDeclare, Types, QosInv, held
  <2>3. CASE ProducePublish(m)
    BY <1>0, <1>6, <2>3 DEF ProducePublish, Types, QosInv, held
  <2>4. CASE ProduceReturn(m)
    BY <1>0, <1>6, <2>4 DEF ProduceReturn, Types, QosInv, held
  <2>5. CASE Route(m)
    BY <1>0, <1>6, <2>5 DEF Route, Types, QosInv, held
  <2> QED
    BY <1>4, <2>1, <2>2, <2>3, <2>4, <2>5 DEF Produce
<1>5. ASSUME NEW m \in Msgs, NEW c \in Consumers, Deliver(c, m) PROVE QosInv'
  <2>1. Limit
    BY <1>0, <1>5 DEF Deliver, Types, QosInv
  <2>2. ASSUME NEW d \in Consumers PROVE IsFiniteSet((held(d))')
    <3>1. (held(d))' \subseteq held(d) \cup {m}
      BY <1>0, <1>5 DEF Deliver, Types, held
    <3>2. IsFiniteSet(held(d) \cup {m})
      BY <1>0, FS_AddElement DEF QosInv
    <3> QED
      BY <3>1, <3>2, FS_Subset
  <2> QED
    BY <2>1, <2>2 DEF QosInv
<1> QED
  BY <1>1, <1>2, <1>3, <1>4, <1>5 DEF Next

-----------------------------------------------------------------------------
(* Counting successes.                                                      *)

\* Nothing the count depends on is changed for message m.
LEMMA CountSame ==
  ASSUME Types, CountInv, faults' = faults, NEW m \in Msgs, (stale(m))' = stale(m), handled'[m] = handled[m],
         (done(m))' <=> done(m), at'[m] = "acked" <=> at[m] = "acked"
  PROVE  (paid(m))'
BY DEF CountInv, paid

\* A fault takes a message from at most one consumer: either its handler is at
\* work and may succeed behind the broker's back, or it already has.
LEMMA CountFault ==
  ASSUME Types, OwnInv, CountInv, NEW m \in Msgs, faults' = faults + 1, handled' = handled, loop' = loop, cur' = cur,
         holder'[m] \in {holder[m], NoConsumer}, at'[m] = "acked" <=> at[m] = "acked"
  PROVE  (paid(m))'
<1> DEFINE h == holder[m]
<1>0. /\ IsFiniteSet(stale(m)) /\ Cardinality(stale(m)) \in Nat
      /\ handled[m] + Cardinality(stale(m)) <= faults + (IF done(m) THEN 1 ELSE 0)
      /\ at[m] = "acked" => handled[m] >= 1
      /\ handled[m] \in Nat /\ faults \in Nat
  BY FS_CardinalityType, RabbitClientAssumption DEF CountInv, paid, Types, RabbitClientAssumption
<1>1. CASE (stale(m))' = stale(m)
  BY <1>0, <1>1 DEF paid
<1>2. CASE (stale(m))' # stale(m)
  <2>1. (stale(m))' = stale(m) \cup {h} /\ loop[h] = "handle" /\ h \in Consumers
    <3>1. /\ stale(m) = {c \in Consumers : loop[c] = "handle" /\ cur[c] = m /\ holder[m] # c}
          /\ (stale(m))' = {c \in Consumers : loop[c] = "handle" /\ cur[c] = m /\ holder'[m] # c}
      BY DEF stale
    <3>2. holder'[m] = NoConsumer
      BY <1>2, <3>1
    <3>3. (stale(m))' = {c \in Consumers : loop[c] = "handle" /\ cur[c] = m}
      BY <3>1, <3>2, RabbitClientAssumption DEF RabbitClientAssumption
    <3>4. h \in Consumers /\ loop[h] = "handle" /\ cur[h] = m
      BY <1>2, <3>1, <3>3
    <3> QED
      BY <3>1, <3>3, <3>4
  <2>2. ~done(m)
    BY <2>1, RabbitClientAssumption DEF done, Types, RabbitClientAssumption
  <2>3. IsFiniteSet((stale(m))') /\ Cardinality((stale(m))') <= Cardinality(stale(m)) + 1
        /\ Cardinality((stale(m))') \in Nat
    <3>1. /\ IsFiniteSet(stale(m) \cup {h})
          /\ Cardinality(stale(m) \cup {h}) = IF h \in stale(m) THEN Cardinality(stale(m))
                                                               ELSE Cardinality(stale(m)) + 1
      BY <1>0, FS_AddElement
    <3> QED
      BY <1>0, <2>1, <3>1
  <2> QED
    BY <1>0, <2>2, <2>3 DEF paid
<1> QED
  BY <1>1, <1>2

\* A success is either its consumer's own, or that of a stale handler.
LEMMA CountStep == IInv /\ [Next]_vars => CountInv'
<1> SUFFICES ASSUME IInv, [Next]_vars PROVE CountInv'
  OBVIOUS
<1>0. Types /\ ProdInv /\ OwnInv /\ CountInv /\ RabbitClientAssumption
  BY RabbitClientAssumption DEF IInv
<1> DEFINE Same(n) == /\ (stale(n))' = stale(n) /\ handled'[n] = handled[n] /\ ((done(n))' <=> done(n))
                      /\ at'[n] = "acked" <=> at[n] = "acked"
           Acking == \A d \in Consumers : loop'[d] = "ack" => loop[d] = "ack" /\ cur'[d] = cur[d]
<1>6. ASSUME faults' = faults, \A n \in Msgs : Same(n), Acking PROVE CountInv'
  <2>1. \A n \in Msgs : (paid(n))'
    BY <1>0, <1>6, CountSame
  <2> QED
    BY <1>0, <1>6, <2>1 DEF CountInv, Types
<1>7. ASSUME faults' = faults + 1, UNCHANGED <<handled, loop, cur>>,
             \A n \in Msgs : holder'[n] \in {holder[n], NoConsumer} /\ (at'[n] = "acked" <=> at[n] = "acked")
      PROVE  CountInv'
  <2>1. \A n \in Msgs : (paid(n))'
    BY <1>0, <1>7, CountFault
  <2> QED
    BY <1>0, <1>7, <2>1 DEF CountInv
<1> USE DEF vars, consumerVars
<1>1. CASE UNCHANGED vars
  BY <1>6, <1>1 DEF stale, done
<1>2. CASE ConnectionLost
  BY <1>0, <1>7, <1>2 DEF ConnectionLost, Fault, closeChannels, requeued, Types
<1>3. ASSUME NEW c \in Consumers, CloseChannel(c) \/ StartConsumer(c) \/ Work(c) PROVE CountInv'
  <2>1. CASE CloseChannel(c)
    BY <1>0, <1>7, <2>1 DEF CloseChannel, Fault, closeChannels, requeued, Types
  <2>2. CASE StartConsumer(c)
    <3>1. ASSUME NEW n \in Msgs PROVE Same(n)
      BY <1>0, <2>2 DEF StartConsumer, Types, stale, done
    <3>2. Acking
      BY <1>0, <2>2 DEF StartConsumer, Types
    <3> QED
      BY <1>6, <2>2, <3>1, <3>2 DEF StartConsumer
  <2>3. CASE StartQos(c)
    <3>1. ASSUME NEW n \in Msgs PROVE Same(n)
      BY <1>0, <2>3 DEF StartQos, Types, stale, done
    <3>2. Acking
      BY <1>0, <2>3 DEF StartQos, Types
    <3> QED
      BY <1>6, <2>3, <3>1, <3>2 DEF StartQos
  <2>4. CASE Consume(c)
    <3>1. ASSUME NEW n \in Msgs PROVE Same(n)
      BY <1>0, <2>4 DEF Consume, Types, stale, done
    <3>2. Acking
      BY <1>0, <2>4 DEF Consume, Types
    <3> QED
      BY <1>6, <2>4, <3>1, <3>2 DEF Consume
  <2>5. CASE RangeNext(c)
    <3>1. ASSUME NEW n \in Msgs PROVE Same(n)
      BY <1>0, <2>5 DEF RangeNext, Types, stale, done, OwnInv
    <3>2. Acking
      BY <1>0, <2>5 DEF RangeNext, Types
    <3> QED
      BY <1>6, <2>5, <3>1, <3>2 DEF RangeNext
  <2>6. CASE RangeEnd(c)
    <3>1. ASSUME NEW n \in Msgs PROVE Same(n)
      BY <1>0, <2>6 DEF RangeEnd, Types, stale, done
    <3>2. Acking
      BY <1>0, <2>6 DEF RangeEnd, Types
    <3> QED
      BY <1>6, <2>6, <3>1, <3>2 DEF RangeEnd
  <2>7. CASE Ack(c)
    <3>1. CASE chan[c] = "open"
      <4>1. ASSUME NEW n \in Msgs PROVE (paid(n))'
        <5>1. CASE n # cur[c]
          <6>1. Same(n)
            BY <1>0, <2>7, <3>1, <5>1 DEF Ack, Types, stale, done
          <6> QED
            BY <1>0, <2>7, <6>1, CountSame DEF Ack
        <5>2. CASE n = cur[c]
          <6>1. holder[n] = c /\ loop[c] = "ack" /\ (at[n] = "unacked")
            BY <1>0, <2>7, <3>1, <5>2 DEF Ack, Types, OwnInv
          <6>2. (stale(n))' = stale(n)
            BY <1>0, <2>7, <3>1, <5>2, <6>1 DEF Ack, Types, stale, RabbitClientAssumption
          <6>3. done(n) /\ (done(n))'
            BY <1>0, <2>7, <3>1, <5>2, <6>1 DEF Ack, Types, done
          <6>4. handled[n] >= 1
            BY <1>0, <5>2, <6>1 DEF CountInv
          <6> QED
            BY <1>0, <2>7, <6>2, <6>3, <6>4 DEF Ack, CountInv, paid
        <5> QED
          BY <5>1, <5>2
      <4> QED
        BY <1>0, <2>7, <4>1 DEF Ack, Types, CountInv
    <3>2. CASE chan[c] # "open"
      <4>1. ASSUME NEW n \in Msgs PROVE Same(n)
        BY <1>0, <2>7, <3>2 DEF Ack, Types, OwnInv, stale, done
      <4>2. Acking
        BY <1>0, <2>7 DEF Ack, Types
      <4> QED
        BY <1>6, <2>7, <4>1, <4>2 DEF Ack
    <3> QED
      BY <3>1, <3>2
  <2>8. CASE HandlerOk(c)
    <3>1. ASSUME NEW n \in Msgs, n # cur[c] PROVE (paid(n))'
      <4>1. Same(n)
        BY <1>0, <2>8, <3>1 DEF HandlerOk, Types, stale, done
      <4> QED
        BY <1>0, <2>8, <4>1, CountSame DEF HandlerOk
    <3>2. ASSUME NEW n \in Msgs, n = cur[c] PROVE (paid(n))'
      <4>0. loop[c] = "handle" /\ handled'[n] = handled[n] + 1 /\ faults' = faults /\ at' = at
            /\ handled[n] \in Nat /\ faults \in Nat
        BY <1>0, <2>8, <3>2 DEF HandlerOk, Types, RabbitClientAssumption
      <4>1. /\ IsFiniteSet(stale(n)) /\ Cardinality(stale(n)) \in Nat
            /\ handled[n] + Cardinality(stale(n)) <= faults + (IF done(n) THEN 1 ELSE 0)
        BY <1>0, FS_CardinalityType DEF CountInv, paid
      <4>2. CASE holder[n] = c
        <5>1. (stale(n))' = stale(n) /\ ~done(n) /\ (done(n))'
          BY <1>0, <2>8, <3>2, <4>2 DEF HandlerOk, Types, stale, done, RabbitClientAssumption
        <5> QED
          BY <4>0, <4>1, <5>1 DEF paid
      <4>3. CASE holder[n] # c
        <5>1. (stale(n))' = stale(n) \ {c} /\ c \in stale(n) /\ ((done(n))' <=> done(n))
          BY <1>0, <2>8, <3>2, <4>3 DEF HandlerOk, Types, stale, done
        <5>2. /\ IsFiniteSet(stale(n) \ {c})
              /\ Cardinality(stale(n) \ {c}) = Cardinality(stale(n)) - 1
          BY <4>1, <5>1, FS_RemoveElement
        <5> QED
          BY <4>0, <4>1, <5>1, <5>2 DEF paid
      <4> QED
        BY <4>2, <4>3
    <3>3. ASSUME NEW d \in Consumers, loop'[d] = "ack" PROVE handled'[cur'[d]] >= 1
      BY <1>0, <2>8, <3>3 DEF HandlerOk, Types, CountInv
    <3> QED
      BY <3>1, <3>2, <3>3 DEF CountInv
  <2>9. CASE HandlerErr(c)
    <3>1. ASSUME NEW n \in Msgs PROVE (paid(n))'
      <4>0. /\ handled' = handled /\ faults' = faults /\ at' = at
            /\ handled[n] \in Nat /\ faults \in Nat
        BY <1>0, <2>9 DEF HandlerErr, Types, RabbitClientAssumption
      <4>1. (stale(n))' \subseteq stale(n) /\ ((done(n))' <=> done(n))
        BY <1>0, <2>9 DEF HandlerErr, Types, stale, done
      <4>2. paid(n)
        BY <1>0 DEF CountInv
      <4>3. /\ IsFiniteSet((stale(n))') /\ Cardinality((stale(n))') <= Cardinality(stale(n))
            /\ Cardinality((stale(n))') \in Nat /\ Cardinality(stale(n)) \in Nat
        BY <4>1, <4>2, FS_Subset, FS_CardinalityType DEF paid
      <4> QED
        BY <4>0, <4>1, <4>2, <4>3 DEF paid
    <3>2. Acking
      BY <1>0, <2>9 DEF HandlerErr, Types
    <3> QED
      BY <1>0, <2>9, <3>1, <3>2 DEF HandlerErr, CountInv
  <2> QED
    BY <1>3, <2>1, <2>2, <2>3, <2>4, <2>5, <2>6, <2>7, <2>8, <2>9 DEF Work
<1>4. ASSUME NEW m \in Msgs, Produce(m) \/ Route(m) PROVE CountInv'
  <2>1. CASE ProduceOpen(m)
    BY <1>0, <1>6, <2>1 DEF ProduceOpen, Types, stale, done
  <2>2. CASE ProduceDeclare(m)
    BY <1>0, <1>6, <2>2 DEF ProduceDeclare, Types, stale, done
  <2>3. CASE ProducePublish(m)
    BY <1>0, <1>6, <2>3 DEF ProducePublish, Types, ProdInv, stale, done
  <2>4. CASE ProduceReturn(m)
    BY <1>0, <1>6, <2>4 DEF ProduceReturn, Types, stale, done
  <2>5. CASE Route(m)
    BY <1>0, <1>6, <2>5 DEF Route, Types, stale, done
  <2> QED
    BY <1>4, <2>1, <2>2, <2>3, <2>4, <2>5 DEF Produce
<1>5. ASSUME NEW m \in Msgs, NEW c \in Consumers, Deliver(c, m) PROVE CountInv'
  <2>1. ASSUME NEW n \in Msgs PROVE Same(n)
    BY <1>0, <1>5 DEF Deliver, Types, stale, done, OwnInv, RabbitClientAssumption
  <2>2. Acking
    BY <1>0, <1>5 DEF Deliver, Types
  <2> QED
    BY <1>6, <1>5, <2>1, <2>2 DEF Deliver
<1> QED
  BY <1>1, <1>2, <1>3, <1>4, <1>5 DEF Next

-----------------------------------------------------------------------------
(* The theorems.                                                            *)

\* IInv holds in every state.
THEOREM Invariance == Spec => []IInv
<1>1. IInv /\ [Next]_vars => IInv'
  BY TypeStep, ProdStep, OwnStep, QosStep, CountStep DEF IInv
<1> QED
  BY <1>1, InitLemma, PTL DEF Spec

\* Every variable keeps its type; a delivery is unacked exactly while it has a holder.
THEOREM TypeCorrect == Spec => []TypeOK
<1>1. Flags /\ IInv => TypeOK
  BY Zenon DEF Flags, IInv, Types, TypeOK
<1> QED
  BY <1>1, InitLemma, FlagsStep, Invariance, PTL DEF Spec

\* StartConsumer acks only what its handler has succeeded on, and however many
\* consumers have a message in their handlers at once, a fault costs one repetition.
THEOREM AckedTheorem == Spec => []AckedAfterHandled
<1>1. IInv => AckedAfterHandled
  <2> SUFFICES ASSUME IInv, NEW m \in Msgs
               PROVE  (at[m] = "acked" => handled[m] >= 1) /\ handled[m] <= 1 + faults
    BY DEF AckedAfterHandled
  <2>1. paid(m) /\ handled[m] \in Nat /\ faults \in Nat
    BY RabbitClientAssumption DEF IInv, CountInv, Types, RabbitClientAssumption
  <2>2. Cardinality(stale(m)) \in Nat
    BY <2>1, FS_CardinalityType DEF paid
  <2> QED
    BY <2>1, <2>2 DEF paid
<1> QED
  BY <1>1, Invariance, PTL

\* A ProduceMessage that returned nil has its message in the queue, or acked, unless
\* the connection was lost.
THEOREM QueuedTheorem == Spec => []QueuedOnReturn
<1>1. IInv => QueuedOnReturn
  BY DEF IInv, ProdInv, QueuedOnReturn
<1> QED
  BY <1>1, Invariance, PTL


\* What NeverDropped says of a step.
Kept == \A m \in Msgs : at[m] \in {"queue", "unacked"} => at'[m] \in {"queue", "unacked", "acked"}

\* No step takes a message out of the queue but Deliver and Ack.
LEMMA KeepStep == IInv /\ [Next]_vars => Kept
<1> SUFFICES ASSUME IInv, [Next]_vars PROVE Kept
  OBVIOUS
<1>0. Types /\ ProdInv /\ OwnInv /\ RabbitClientAssumption
  BY RabbitClientAssumption DEF IInv
<1> USE DEF vars, consumerVars
<1>1. CASE UNCHANGED vars
  BY <1>0, <1>1 DEF Types, Kept
<1>2. CASE ConnectionLost
  BY <1>0, <1>2 DEF ConnectionLost, Fault, closeChannels, requeued, Types, Kept
<1>3. ASSUME NEW c \in Consumers, CloseChannel(c) \/ StartConsumer(c) \/ Work(c) PROVE Kept
  <2>1. CASE CloseChannel(c)
    BY <1>0, <2>1 DEF CloseChannel, Fault, closeChannels, requeued, Types, Kept
  <2>2. CASE StartConsumer(c)
    BY <1>0, <2>2 DEF StartConsumer, Types, Kept
  <2>3. CASE StartQos(c)
    BY <1>0, <2>3 DEF StartQos, Types, Kept
  <2>4. CASE Consume(c)
    BY <1>0, <2>4 DEF Consume, Types, Kept
  <2>5. CASE RangeNext(c)
    BY <1>0, <2>5 DEF RangeNext, Types, Kept
  <2>6. CASE RangeEnd(c)
    BY <1>0, <2>6 DEF RangeEnd, Types, Kept
  <2>7. CASE Ack(c)
    BY <1>0, <2>7 DEF Ack, Types, Kept, OwnInv
  <2>8. CASE HandlerOk(c)
    BY <1>0, <2>8 DEF HandlerOk, Types, Kept
  <2>9. CASE HandlerErr(c)
    BY <1>0, <2>9 DEF HandlerErr, Types, Kept
  <2> QED
    BY <1>3, <2>1, <2>2, <2>3, <2>4, <2>5, <2>6, <2>7, <2>8, <2>9 DEF Work
<1>4. ASSUME NEW m \in Msgs, Produce(m) \/ Route(m) PROVE Kept
  <2>1. CASE ProduceOpen(m)
    BY <1>0, <2>1 DEF ProduceOpen, Types, Kept
  <2>2. CASE ProduceDeclare(m)
    BY <1>0, <2>2 DEF ProduceDeclare, Types, Kept
  <2>3. CASE ProducePublish(m)
    BY <1>0, <2>3 DEF ProducePublish, Types, Kept, ProdInv
  <2>4. CASE ProduceReturn(m)
    BY <1>0, <2>4 DEF ProduceReturn, Types, Kept
  <2>5. CASE Route(m)
    BY <1>0, <2>5 DEF Route, Types, Kept
  <2> QED
    BY <1>4, <2>1, <2>2, <2>3, <2>4, <2>5 DEF Produce
<1>5. ASSUME NEW m \in Msgs, NEW c \in Consumers, Deliver(c, m) PROVE Kept
  BY <1>0, <1>5 DEF Deliver, Types, Kept
<1> QED
  BY <1>1, <1>2, <1>3, <1>4, <1>5 DEF Next

\* A step leaves a stalled consumer stalled, or finds its channel closed.
Stalls == \A c \in Consumers : stalled(c) => (stalled(c))' \/ chan'[c] # "open"

\* Within a prefetch count of 1 the broker gives a stalled consumer nothing more.
LEMMA StallStep == IInv /\ [Next]_vars => Stalls
<1> SUFFICES ASSUME IInv, [Next]_vars PROVE Stalls
  OBVIOUS
<1>0. Types /\ OwnInv /\ QosInv /\ RabbitClientAssumption
  BY RabbitClientAssumption DEF IInv
<1> DEFINE Stays(d) == loop'[d] = loop[d] /\ inbox'[d] = inbox[d] /\ held(d) \subseteq (held(d))'
<1>6. ASSUME failed \subseteq failed', \A d \in Consumers : stalled(d) => Stays(d) \/ chan'[d] # "open" PROVE Stalls
  BY <1>6 DEF Stalls, stalled
<1> USE DEF vars, consumerVars
<1>1. CASE UNCHANGED vars
  BY <1>0, <1>6, <1>1 DEF Types, held, stalled
<1>2. CASE ConnectionLost
  BY <1>0, <1>6, <1>2 DEF ConnectionLost, Fault, closeChannels, requeued, Types, held, stalled
<1>3. ASSUME NEW c \in Consumers, CloseChannel(c) \/ StartConsumer(c) \/ Work(c) PROVE Stalls
  <2>1. CASE CloseChannel(c)
    BY <1>0, <1>6, <2>1 DEF CloseChannel, Fault, closeChannels, requeued, Types, held, stalled
  <2>2. CASE StartConsumer(c)
    BY <1>0, <1>6, <2>2 DEF StartConsumer, Types, held, stalled
  <2>3. CASE StartQos(c)
    BY <1>0, <1>6, <2>3 DEF StartQos, Types, held, stalled
  <2>4. CASE Consume(c)
    BY <1>0, <1>6, <2>4 DEF Consume, Types, held, stalled
  <2>5. CASE RangeNext(c)
    BY <1>0, <1>6, <2>5 DEF RangeNext, Types, held, stalled
  <2>6. CASE RangeEnd(c)
    BY <1>0, <1>6, <2>6 DEF RangeEnd, Types, held, stalled
  <2>7. CASE Ack(c)
    BY <1>0, <1>6, <2>7 DEF Ack, Types, held, stalled, OwnInv
  <2>8. CASE HandlerOk(c)
    BY <1>0, <1>6, <2>8 DEF HandlerOk, Types, held, stalled
  <2>9. CASE HandlerErr(c)
    BY <1>0, <1>6, <2>9 DEF HandlerErr, Types, held, stalled
  <2> QED
    BY <1>3, <2>1, <2>2, <2>3, <2>4, <2>5, <2>6, <2>7, <2>8, <2>9 DEF Work
<1>4. ASSUME NEW m \in Msgs, Produce(m) \/ Route(m) PROVE Stalls
  <2>1. CASE ProduceOpen(m)
    BY <1>0, <1>6, <2>1 DEF ProduceOpen, Types, held, stalled
  <2>2. CASE ProduceDeclare(m)
    BY <1>0, <1>6, <2>2 DEF ProduceDeclare, Types, held, stalled
  <2>3. CASE ProducePublish(m)
    BY <1>0, <1>6, <2>3 DEF ProducePublish, Types, held, stalled
  <2>4. CASE ProduceReturn(m)
    BY <1>0, <1>6, <2>4 DEF ProduceReturn, Types, held, stalled
  <2>5. CASE Route(m)
    BY <1>0, <1>6, <2>5 DEF Route, Types, held, stalled
  <2> QED
    BY <1>4, <2>1, <2>2, <2>3, <2>4, <2>5 DEF Produce
<1>5. ASSUME NEW m \in Msgs, NEW c \in Consumers, Deliver(c, m) PROVE Stalls
  <2>1. ASSUME NEW d \in Consumers, d # c PROVE Stays(d)
    BY <1>0, <1>5, <2>1 DEF Deliver, Types, held, RabbitClientAssumption
  <2>2. ~stalled(c)
    <3>1. prefetch[c] = 1 /\ Cardinality(held(c)) < 1 /\ IsFiniteSet(held(c))
      BY <1>0, <1>5 DEF Deliver, QosInv
    <3>2. Cardinality(held(c)) = 0
      BY <3>1, FS_CardinalityType
    <3> QED
      BY <3>1, <3>2, FS_EmptySet DEF stalled
  <2> QED
    BY <1>6, <1>5, <2>1, <2>2 DEF Deliver
<1> QED
  BY <1>1, <1>2, <1>3, <1>4, <1>5 DEF Next

\* Neither a failing handler nor a closed channel, nor the loss of the connection,
\* drops a message the queue has taken.
THEOREM NeverDroppedTheorem == Spec => NeverDropped
<1>1. IInv /\ [Next]_vars => [\A m \in Msgs : at[m] \in {"queue", "unacked"} =>
                                 at'[m] \in {"queue", "unacked", "acked"}]_vars
  BY KeepStep DEF Kept
<1> QED
  BY <1>1, Invariance, PTL DEF Spec, NeverDropped

\* A consumer whose handler has failed gets nothing more over its channel: with
\* Qos 1 nothing answers the failed delivery (StartConsumer).
THEOREM StalledTheorem == Spec => StaysStalled
<1>1. IInv /\ [Next]_vars => [\A c \in Consumers : stalled(c) => stalled(c)' \/ chan'[c] # "open"]_vars
  BY StallStep DEF Stalls
<1> QED
  BY <1>1, Invariance, PTL DEF Spec, StaysStalled
=============================================================================
