------------------------ MODULE PubSubServer_proofs -------------------------
(* Proofs about PubSubServer, for every number of streams and messages,    *)
(* every set of names, and every window.                                   *)
EXTENDS PubSubServer, SequenceTheorems, TLAPS

-----------------------------------------------------------------------------
(* Type correctness.                                                        *)

\* Every address has a key, and so has every message.
LEMMA KeysLemma ==
  /\ \A a \in Address : key(a) \in Keys
  /\ \A m \in Msgs : Dest[m] \in Address /\ key(Dest[m]) \in Keys
BY NamesAssumption DEF Keys

\* Every step of the server, of its streams and of the network keeps the types
\* of the map of subscribers, of the goroutines' states and of the streams.
LEMMA TypeStep == ASSUME TypeOK, [Next]_vars PROVE TypeOK'
<1> USE DEF TypeOK, srv, transport, Subscriber, newPubSubServer
<1>1. CASE StartServe BY <1>1 DEF StartServe
<1>2. CASE Stop BY <1>2 DEF Stop, Break
<1>3. CASE Crash
  <2>1. handler' \in [Streams -> {"none", "recv", "lock", "end"}]
    BY <1>3 DEF Crash
  <2>2. call' \in [Msgs -> {"idle", "called", "sending", "done", "lost"}]
    BY <1>3 DEF Crash
  <2>3. stream' \in [Streams -> {"new", "open", "broken"}] /\ breaks' \in Nat
    BY <1>3 DEF Crash, Break
  <2>4. todo' \in [Msgs -> SUBSET Subscriber] /\ subscribers' \in [Keys -> SUBSET Subscriber]
    BY <1>3 DEF Crash
  <2>5. mu' \in BOOLEAN BY <1>3, Zenon DEF Crash
  <2> QED BY <1>3, <2>1, <2>2, <2>3, <2>4, <2>5 DEF Crash
<1>4. ASSUME NEW S \in SUBSET Streams, Disconnect(S) PROVE TypeOK'
  BY <1>4 DEF Disconnect, Break
<1>5. ASSUME NEW s \in Streams, StreamNext(s) PROVE TypeOK'
  <2>1. CASE OpenStream(s) BY <2>1 DEF OpenStream
  <2>2. CASE ClientRecv(s) BY <2>2 DEF ClientRecv
  <2>3. ASSUME NEW a \in Address, Request(s, a) PROVE TypeOK'
    BY <2>3 DEF Request
  <2>4. CASE SubscribeRecv(s) BY <2>4 DEF SubscribeRecv
  <2>5. CASE SubscribeAdd(s) 
    <3> DEFINE k == key(reqs[s][taken[s] + 1])
               e == [n |-> clock + 1, stream |-> s]
    <3>1. e \in Subscriber OBVIOUS
    <3>2. subscribers' = [subscribers EXCEPT ![k] = @ \cup {e}]
      BY <2>5 DEF SubscribeAdd
    <3> HIDE DEF k, e
    <3>3. subscribers' \in [Keys -> SUBSET Subscriber]
      BY <3>1, <3>2
    <3> QED BY <2>5, <3>3 DEF SubscribeAdd
  <2>6. CASE SubscribeEnd(s) BY <2>6 DEF SubscribeEnd
  <2> QED BY <1>5, <2>1, <2>2, <2>3, <2>4, <2>5, <2>6 DEF StreamNext
<1>6. ASSUME NEW m \in Msgs, CallNext(m) PROVE TypeOK'
  <2>1. CASE PublishCall(m) BY <2>1 DEF PublishCall
  <2>2. CASE PublishLock(m) BY <2>2, KeysLemma DEF PublishLock
  <2>3. CASE PublishSend(m)
    <3>1. PICK e \in todo[m] : PublishSend(m)!(e) BY <2>3 DEF PublishSend
    <3>2. todo' \in [Msgs -> SUBSET Subscriber] BY <3>1
    <3>3. sent' \in [Streams -> Seq(Msgs)]
      <4>1. e.stream \in Streams OBVIOUS
      <4>2. CASE sent' = [sent EXCEPT ![e.stream] = Append(@, m)] BY <4>1, <4>2
      <4>3. CASE sent' = sent BY <4>3
      <4> QED BY <3>1, <4>2, <4>3
    <3> QED BY <3>1, <3>2, <3>3
  <2>4. CASE PublishReturn(m) BY <2>4 DEF PublishReturn
  <2> QED BY <1>6, <2>1, <2>2, <2>3, <2>4 DEF CallNext
<1>7. CASE UNCHANGED vars BY <1>7 DEF vars
<1> QED BY <1>1, <1>2, <1>3, <1>4, <1>5, <1>6, <1>7 DEF Next

\* A server that has not been started has the types.
LEMMA TypeInit == ASSUME Init PROVE TypeOK
<1>1. mu \in BOOLEAN BY Zenon DEF Init
<1> QED BY <1>1 DEF Init, TypeOK, newPubSubServer

\* The map of subscribers, the goroutines' states, the streams and the counters
\* of the server always have their types.
THEOREM TypeCorrect == Spec => []TypeOK
BY TypeInit, TypeStep, PTL DEF Spec

-----------------------------------------------------------------------------
(* mu is locked while a Publish is sending, and at most one is.             *)

MutexInv ==
  /\ \A m \in Msgs : call[m] = "sending" => mu
  /\ \A m1, m2 \in Msgs : call[m1] = "sending" /\ call[m2] = "sending" => m1 = m2
  /\ \A m \in Msgs : call[m] # "sending" => todo[m] = {}
  /\ server = "nil" => \A m \in Msgs : call[m] \notin {"called", "sending"}

\* No step lets a second Publish iterate over a list of subscribers, or leaves
\* one unfinished: mu.Lock excludes, and only the deferred Unlock releases.
LEMMA MutexStep == ASSUME TypeOK, TypeOK', MutexInv, [Next]_vars PROVE MutexInv'
<1> USE DEF TypeOK, MutexInv
<1>1. CASE StartServe BY <1>1 DEF StartServe
<1>2. CASE Stop BY <1>2 DEF Stop, srv
<1>3. CASE Crash BY <1>3 DEF Crash
<1>4. ASSUME NEW S \in SUBSET Streams, Disconnect(S) PROVE MutexInv'
  BY <1>4 DEF Disconnect, srv
<1>5. ASSUME NEW s \in Streams, StreamNext(s) PROVE MutexInv'
  <2>1. <<call, todo, mu, server>>' = <<call, todo, mu, server>>
    BY <1>5 DEF StreamNext, OpenStream, ClientRecv, Request, SubscribeRecv, SubscribeAdd,
                SubscribeEnd, srv
  <2> QED BY <2>1
<1>6. ASSUME NEW m \in Msgs, CallNext(m) PROVE MutexInv'
  <2>1. CASE PublishCall(m) BY <2>1 DEF PublishCall
  <2>2. CASE PublishLock(m) BY <2>2 DEF PublishLock
  <2>3. CASE PublishSend(m) BY <2>3 DEF PublishSend
  <2>4. CASE PublishReturn(m) BY <2>4 DEF PublishReturn
  <2> QED BY <1>6, <2>1, <2>2, <2>3, <2>4 DEF CallNext
<1>7. CASE UNCHANGED vars BY <1>7 DEF vars, srv
<1> QED BY <1>1, <1>2, <1>3, <1>4, <1>5, <1>6, <1>7 DEF Next

-----------------------------------------------------------------------------
(* Tickets number the acquisitions of mu.                                   *)

TicketInv ==
  /\ \A m \in Msgs : ticket[m] <= clock
  /\ \A m \in Msgs : call[m] \in {"idle", "called"} => ticket[m] = 0
  /\ \A m \in Msgs : call[m] = "sending" => ticket[m] = clock
  /\ \A m \in Msgs : call[m] \in {"sending", "done"} => ticket[m] > 0
  /\ \A m1, m2 \in Msgs : m1 # m2 /\ ticket[m1] = ticket[m2] => ticket[m1] = 0
  /\ \A k \in Keys : \A e \in subscribers[k] : e.n <= clock

\* A ticket is drawn once and never shared, and while a Publish is sending no
\* other ticket is drawn.
LEMMA TicketStep ==
  ASSUME TypeOK, TypeOK', MutexInv, TicketInv, [Next]_vars PROVE TicketInv'
<1> USE DEF TypeOK, TicketInv
<1>1. CASE StartServe BY <1>1 DEF StartServe, newPubSubServer
<1>2. CASE Stop BY <1>2 DEF Stop, srv
<1>3. CASE Crash BY <1>3 DEF Crash, newPubSubServer
<1>4. ASSUME NEW S \in SUBSET Streams, Disconnect(S) PROVE TicketInv'
  BY <1>4 DEF Disconnect, srv
<1>5. ASSUME NEW s \in Streams, StreamNext(s) PROVE TicketInv'
  <2>1. CASE UNCHANGED <<call, ticket, clock, subscribers>> BY <2>1
  <2>2. CASE SubscribeAdd(s)
    BY <2>2 DEF SubscribeAdd, MutexInv, Subscriber
  <2>3. CASE SubscribeEnd(s) BY <2>3 DEF SubscribeEnd
  <2> QED BY <1>5, <2>1, <2>2, <2>3
          DEF StreamNext, OpenStream, ClientRecv, Request, SubscribeRecv, srv
<1>6. ASSUME NEW m \in Msgs, CallNext(m) PROVE TicketInv'
  <2>1. CASE PublishCall(m) BY <2>1 DEF PublishCall
  <2>2. CASE PublishLock(m) BY <2>2 DEF PublishLock, MutexInv, Subscriber
  <2>3. CASE PublishSend(m) BY <2>3 DEF PublishSend
  <2>4. CASE PublishReturn(m) BY <2>4 DEF PublishReturn
  <2> QED BY <1>6, <2>1, <2>2, <2>3, <2>4 DEF CallNext
<1>7. CASE UNCHANGED vars BY <1>7 DEF vars, srv
<1> QED BY <1>1, <1>2, <1>3, <1>4, <1>5, <1>6, <1>7 DEF Next

-----------------------------------------------------------------------------
(* Every stream carries messages in the order of their tickets.             *)

OrderInv ==
  \A s \in Streams : \A i \in 1..Len(sent[s]) :
    /\ ticket[sent[s][i]] > 0
    /\ \A j \in 1..Len(sent[s]) : i < j => ticket[sent[s][i]] <= ticket[sent[s][j]]

\* A Send appends the message with the highest ticket of all, so every stream
\* stays sorted; no other step touches a stream or a ticket that is on one.
LEMMA OrderStep ==
  ASSUME TypeOK, TypeOK', MutexInv, TicketInv, TicketInv', OrderInv, [Next]_vars
  PROVE  OrderInv'
<1>1. CASE UNCHANGED <<sent, ticket>> BY <1>1 DEF OrderInv
<1>2. ASSUME NEW m \in Msgs, PublishLock(m) PROVE OrderInv'
  <2>1. sent' = sent /\ ticket' = [ticket EXCEPT ![m] = clock + 1] /\ ticket[m] = 0
    BY <1>2 DEF PublishLock, TicketInv, transport
  <2>2. \A s \in Streams : \A i \in 1..Len(sent[s]) : sent[s][i] \in Msgs \ {m}
    BY <2>1 DEF OrderInv, TypeOK
  <2> QED BY <2>1, <2>2 DEF OrderInv, TypeOK
<1>3. ASSUME NEW m \in Msgs, PublishSend(m) PROVE OrderInv'
  <2>1. PICK e \in todo[m] : PublishSend(m)!(e) BY <1>3 DEF PublishSend
  <2>2. ticket[m] = clock /\ clock > 0
    BY <2>1 DEF MutexInv, TicketInv, TypeOK
  <2>3. e.stream \in Streams BY DEF TypeOK, Subscriber
  <2>4. CASE sent' = sent BY <2>1, <2>4 DEF OrderInv
  <2>5. CASE sent' = [sent EXCEPT ![e.stream] = Append(@, m)]
    <3> SUFFICES ASSUME NEW s \in Streams, NEW i \in 1..Len(sent'[s])
                 PROVE  /\ ticket[sent'[s][i]] > 0
                        /\ \A j \in 1..Len(sent'[s]) :
                             i < j => ticket[sent'[s][i]] <= ticket[sent'[s][j]]
      BY <2>1 DEF OrderInv
    <3>1. CASE s # e.stream BY <2>5, <3>1 DEF OrderInv, TypeOK
    <3>2. CASE s = e.stream
      <4>1. /\ sent[s] \in Seq(Msgs) /\ sent'[s] = Append(sent[s], m)
        BY <2>5, <3>2, <2>3 DEF TypeOK
      <4>2. Len(sent'[s]) = Len(sent[s]) + 1 BY <4>1
      <4>3. \A j \in 1..Len(sent'[s]) :
              sent'[s][j] = IF j <= Len(sent[s]) THEN sent[s][j] ELSE m
        BY <4>1
      <4>4. ticket \in [Msgs -> Nat] /\ clock \in Nat BY DEF TypeOK
      <4>5. \A j \in 1..Len(sent[s]) : sent[s][j] \in Msgs BY <4>1
      <4>6. \A j \in 1..Len(sent[s]) :
              ticket[sent[s][j]] \in Nat /\ ticket[sent[s][j]] <= ticket[m]
        BY <2>2, <4>4, <4>5 DEF TicketInv
      <4>7. CASE i = Len(sent[s]) + 1
        BY <2>2, <4>1, <4>2, <4>3, <4>7
      <4>8. CASE i \in 1..Len(sent[s])
        BY <2>2, <4>1, <4>2, <4>3, <4>6, <4>8 DEF OrderInv
      <4> QED BY <4>1, <4>2, <4>7, <4>8
    <3> QED BY <3>1, <3>2
  <2> QED BY <2>1, <2>4, <2>5
<1> QED
  BY <1>1, <1>2, <1>3
  DEF Next, vars, srv, transport, StartServe, Stop, Crash, Disconnect, StreamNext, OpenStream,
      ClientRecv, Request, SubscribeRecv, SubscribeAdd, SubscribeEnd, CallNext, PublishCall,
      PublishReturn

-----------------------------------------------------------------------------
(* The streams of the lists, and of a Publish's copy, have a live handler.  *)

ListInv ==
  /\ \A k \in Keys : \A e \in subscribers[k] : handler[e.stream] \in {"recv", "lock"}
  /\ \A m \in Msgs : todo[m] \subseteq subscribers[key(Dest[m])]
  /\ \A s \in Streams : stream[s] = "new" => handler[s] = "none"

\* removeSubscriber takes a stream off every list before its handler ends, and
\* can do so only while no Publish is going through a list.
LEMMA ListStep ==
  ASSUME TypeOK, TypeOK', MutexInv, MutexInv', ListInv, [Next]_vars PROVE ListInv'
<1> USE DEF TypeOK, ListInv
<1>1. CASE StartServe BY <1>1 DEF StartServe, MutexInv, newPubSubServer, transport
<1>2. CASE Stop BY <1>2 DEF Stop, Break, srv
<1>3. CASE Crash BY <1>3, KeysLemma DEF Crash, Break, newPubSubServer
<1>4. ASSUME NEW S \in SUBSET Streams, Disconnect(S) PROVE ListInv'
  BY <1>4 DEF Disconnect, Break, srv
<1>5. ASSUME NEW s \in Streams, StreamNext(s) PROVE ListInv'
  <2>1. CASE OpenStream(s) BY <2>1 DEF OpenStream, Subscriber
  <2>2. CASE UNCHANGED <<handler, subscribers, todo, stream>> BY <2>2
  <2>3. CASE SubscribeRecv(s) BY <2>3 DEF SubscribeRecv, Subscriber, transport
  <2>4. CASE SubscribeAdd(s) BY <2>4 DEF SubscribeAdd, Subscriber, transport
  <2>5. CASE SubscribeEnd(s)
    <3>1. \A m \in Msgs : todo[m] = {} BY <2>5 DEF SubscribeEnd, MutexInv
    <3> QED BY <2>5, <3>1 DEF SubscribeEnd, Subscriber, transport
  <2> QED BY <1>5, <2>1, <2>2, <2>3, <2>4, <2>5 DEF StreamNext, ClientRecv, Request, srv, transport
<1>6. ASSUME NEW m \in Msgs, CallNext(m) PROVE ListInv'
  <2>1. CASE PublishCall(m) BY <2>1 DEF PublishCall, transport
  <2>2. CASE PublishLock(m) BY <2>2 DEF PublishLock, transport
  <2>3. CASE PublishSend(m) BY <2>3 DEF PublishSend
  <2>4. CASE PublishReturn(m) BY <2>4 DEF PublishReturn, transport
  <2> QED BY <1>6, <2>1, <2>2, <2>3, <2>4 DEF CallNext
<1>7. CASE UNCHANGED vars BY <1>7 DEF vars, srv, transport
<1> QED BY <1>1, <1>2, <1>3, <1>4, <1>5, <1>6, <1>7 DEF Next

-----------------------------------------------------------------------------
(* A Publish has served every earlier subscriber it does not still owe.     *)

CompleteInv ==
  \A m \in Msgs : call[m] \in {"sending", "done"} =>
    \A e \in subscribers[key(Dest[m])] :
      e.n < ticket[m] /\ stream[e.stream] = "open" /\ e \notin todo[m]
        => m \in Received(e.stream)

\* Append adds exactly the appended message to what a stream has carried.
LEMMA AppendRange ==
  ASSUME NEW q \in Seq(Msgs), NEW m \in Msgs
  PROVE  {Append(q, m)[i] : i \in DOMAIN Append(q, m)} = {q[i] : i \in DOMAIN q} \cup {m}
<1>1. /\ DOMAIN q = 1..Len(q) /\ DOMAIN Append(q, m) = 1..(Len(q) + 1)
      /\ Append(q, m)[Len(q) + 1] = m /\ Len(q) \in Nat
      /\ \A i \in 1..Len(q) : Append(q, m)[i] = q[i]
  OBVIOUS
<1> QED BY <1>1

\* What the Send of message m to one more subscriber changes, and what not.
LEMMA SendEffect ==
  ASSUME TypeOK, NEW m \in Msgs, PublishSend(m)
  PROVE  \E e \in todo[m] :
           /\ e \in Subscriber
           /\ todo' = [todo EXCEPT ![m] = @ \ {e}]
           /\ stream[e.stream] = "open" => m \in Received(e.stream)'
           /\ \A s \in Streams :
                /\ Received(s) \subseteq Received(s)'
                /\ Received(s)' \subseteq Received(s) \cup (IF s = e.stream THEN {m} ELSE {})
<1>1. PICK e \in todo[m] : PublishSend(m)!(e) BY DEF PublishSend
<1>2. e \in Subscriber /\ e.stream \in Streams BY DEF TypeOK, Subscriber
<1>3. sent \in [Streams -> Seq(Msgs)] BY DEF TypeOK
<1>4. CASE stream[e.stream] # "open" /\ sent' = sent
  <2>1. \A s \in Streams : Received(s)' = Received(s) BY <1>4 DEF Received
  <2> QED BY <1>1, <1>2, <1>4, <2>1
<1>5. CASE sent' = [sent EXCEPT ![e.stream] = Append(@, m)]
  <2>1. sent[e.stream] \in Seq(Msgs) /\ sent'[e.stream] = Append(sent[e.stream], m)
    BY <1>2, <1>3, <1>5
  <2>2. Received(e.stream)' = Received(e.stream) \cup {m}
    BY <2>1, AppendRange DEF Received
  <2>3. \A s \in Streams : s # e.stream => sent'[s] = sent[s] BY <1>3, <1>5
  <2>4. \A s \in Streams : s # e.stream => Received(s)' = Received(s) BY <2>3 DEF Received
  <2> QED BY <1>1, <1>2, <2>2, <2>4
<1> QED BY <1>1, <1>4, <1>5

\* Subscribers that join after the lock was taken have a higher number, and a
\* subscriber leaves todo only when it is sent the message or is disconnected.
LEMMA CompleteStep ==
  ASSUME TypeOK, TypeOK', TicketInv, ListInv, CompleteInv, [Next]_vars
  PROVE  CompleteInv'
<1> USE KeysLemma DEF TypeOK, CompleteInv
<1>1. CASE StartServe BY <1>1 DEF StartServe, newPubSubServer
<1>2. CASE Stop BY <1>2 DEF Stop, Break, srv, Received, Subscriber
<1>3. CASE Crash BY <1>3 DEF Crash, newPubSubServer
<1>4. ASSUME NEW S \in SUBSET Streams, Disconnect(S) PROVE CompleteInv'
  BY <1>4 DEF Disconnect, Break, srv, Received, Subscriber
<1>5. ASSUME NEW s \in Streams, StreamNext(s) PROVE CompleteInv'
  <2>1. CASE OpenStream(s)
    <3>1. UNCHANGED <<subscribers, todo, call, ticket, sent>> BY <2>1 DEF OpenStream
    <3>2. stream' = [stream EXCEPT ![s] = "open"] /\ handler[s] = "none"
      BY <2>1 DEF OpenStream, ListInv
    <3> SUFFICES ASSUME NEW n \in Msgs, call[n] \in {"sending", "done"},
                        NEW e \in subscribers[key(Dest[n])],
                        e.n < ticket[n], stream'[e.stream] = "open", e \notin todo[n]
                 PROVE  n \in Received(e.stream)
      BY <3>1 DEF Received
    <3>3. e.stream \in Streams BY DEF Subscriber
    <3>4. e.stream # s BY <3>2 DEF ListInv
    <3>5. stream[e.stream] = "open" BY <3>2, <3>3, <3>4
    <3> QED BY <3>5
  <2>2. CASE UNCHANGED <<subscribers, todo, stream, call, ticket, sent>>
    BY <2>2 DEF Received
  <2>3. CASE SubscribeAdd(s) BY <2>3 DEF SubscribeAdd, TicketInv, Received, transport
  <2>4. CASE SubscribeEnd(s) BY <2>4 DEF SubscribeEnd, Received, transport
  <2> QED BY <1>5, <2>1, <2>2, <2>3, <2>4
          DEF StreamNext, ClientRecv, Request, SubscribeRecv, srv, transport
<1>6. ASSUME NEW m \in Msgs, CallNext(m) PROVE CompleteInv'
  <2>1. CASE PublishCall(m) BY <2>1 DEF PublishCall, Received, transport
  <2>2. CASE PublishLock(m) BY <2>2 DEF PublishLock, Received, transport
  <2>3. CASE PublishSend(m)
    <3>1. UNCHANGED <<stream, subscribers, call, ticket>> BY <2>3 DEF PublishSend
    <3>2. PICK e \in todo[m] :
            /\ todo' = [todo EXCEPT ![m] = @ \ {e}]
            /\ stream[e.stream] = "open" => m \in Received(e.stream)'
            /\ \A s \in Streams : Received(s) \subseteq Received(s)'
      BY <2>3, SendEffect
    <3> SUFFICES ASSUME NEW n \in Msgs, call[n] \in {"sending", "done"},
                        NEW f \in subscribers[key(Dest[n])],
                        f.n < ticket[n], stream[f.stream] = "open", f \notin todo'[n]
                 PROVE  n \in Received(f.stream)'
      BY <3>1
    <3>3. f.stream \in Streams BY DEF Subscriber
    <3>4. CASE f \notin todo[n] BY <3>2, <3>3, <3>4
    <3>5. CASE f \in todo[n]
      <4>1. n = m /\ f = e BY <3>2, <3>5
      <4> QED BY <3>2, <4>1
    <3> QED BY <3>4, <3>5
  <2>4. CASE PublishReturn(m) BY <2>4 DEF PublishReturn, Received, transport
  <2> QED BY <1>6, <2>1, <2>2, <2>3, <2>4 DEF CallNext
<1>7. CASE UNCHANGED vars BY <1>7 DEF vars, srv, transport, Received
<1> QED BY <1>1, <1>2, <1>3, <1>4, <1>5, <1>6, <1>7 DEF Next

-----------------------------------------------------------------------------
(* Lists and streams hold only what was asked for, key by key.              *)

Asked(s, k) == \E i \in 1..taken[s] : key(reqs[s][i]) = k

AddressInv ==
  /\ \A s \in Streams : taken[s] <= Len(reqs[s])
  /\ \A s \in Streams : handler[s] = "lock" => taken[s] < Len(reqs[s])
  /\ \A k \in Keys : \A e \in subscribers[k] : Asked(e.stream, k)
  /\ \A s \in Streams : \A m \in Received(s) : Asked(s, key(Dest[m]))

\* Requests are read in order and none is withdrawn: a key once asked for on a
\* stream stays asked for, even after removeSubscriber.
LEMMA AskedStable ==
  ASSUME TypeOK, AddressInv, [Next]_vars, NEW s \in Streams, NEW k, Asked(s, k)
  PROVE  Asked(s, k)'
<1>1. PICK i \in 1..taken[s] : key(reqs[s][i]) = k BY DEF Asked
<1>2. taken[s] \in Nat /\ reqs[s] \in Seq(Address) /\ taken[s] <= Len(reqs[s])
  BY DEF TypeOK, AddressInv
<1>3. CASE UNCHANGED <<taken, reqs>> BY <1>1, <1>3 DEF Asked
<1>4. ASSUME NEW r \in Streams, NEW a \in Address, Request(r, a) PROVE Asked(s, k)'
  <2>1. taken' = taken /\ reqs' = [reqs EXCEPT ![r] = Append(@, a)]
    BY <1>4 DEF Request, srv
  <2>2. reqs'[s][i] = reqs[s][i]
    BY <1>1, <1>2, <2>1 DEF TypeOK
  <2> QED BY <1>1, <2>1, <2>2 DEF Asked
<1>5. ASSUME NEW r \in Streams, SubscribeAdd(r) PROVE Asked(s, k)'
  <2>1. reqs' = reqs /\ taken' = [taken EXCEPT ![r] = @ + 1]
    BY <1>5 DEF SubscribeAdd, transport
  <2>2. i \in 1..taken'[s] BY <1>1, <1>2, <2>1 DEF TypeOK
  <2> QED BY <1>1, <2>1, <2>2 DEF Asked
<1> QED
  BY <1>3, <1>4, <1>5
  DEF Next, vars, srv, transport, StartServe, Stop, Crash, Disconnect, StreamNext, OpenStream,
      ClientRecv, SubscribeRecv, SubscribeEnd, CallNext, PublishCall, PublishLock, PublishSend,
      PublishReturn

\* A stream enters a list only under the key of the request just read, and a
\* message goes only to streams of the list of its own key.
LEMMA AddressStep ==
  ASSUME TypeOK, TypeOK', ListInv, AddressInv, [Next]_vars PROVE AddressInv'
<1>1. /\ \A k \in Keys : \A e \in subscribers[k] : Asked(e.stream, k)'
      /\ \A s \in Streams : \A m \in Received(s) : Asked(s, key(Dest[m]))'
  BY AskedStable DEF TypeOK, AddressInv, Subscriber
<1>2. \A s \in Streams : taken'[s] <= Len(reqs'[s]) /\ (handler'[s] = "lock" => taken'[s] < Len(reqs'[s]))
  <2> SUFFICES ASSUME NEW s \in Streams
               PROVE  taken'[s] <= Len(reqs'[s]) /\ (handler'[s] = "lock" => taken'[s] < Len(reqs'[s]))
    OBVIOUS
  <2>0. /\ taken[s] \in Nat /\ reqs[s] \in Seq(Address) /\ taken[s] <= Len(reqs[s])
        /\ handler[s] = "lock" => taken[s] < Len(reqs[s])
    BY DEF TypeOK, AddressInv
  <2>1. CASE UNCHANGED <<taken, reqs, handler>> BY <2>0, <2>1
  <2>2. CASE Crash BY <2>0, <2>2 DEF Crash, TypeOK
  <2>3. ASSUME NEW r \in Streams, StreamNext(r)
        PROVE  taken'[s] <= Len(reqs'[s]) /\ (handler'[s] = "lock" => taken'[s] < Len(reqs'[s]))
    <3>1. CASE OpenStream(r) BY <2>0, <3>1 DEF OpenStream, TypeOK
    <3>2. CASE ClientRecv(r) BY <2>0, <3>2 DEF ClientRecv, srv
    <3>3. ASSUME NEW a \in Address, Request(r, a)
          PROVE  taken'[s] <= Len(reqs'[s]) /\ (handler'[s] = "lock" => taken'[s] < Len(reqs'[s]))
      <4>1. taken' = taken /\ handler' = handler BY <3>3 DEF Request, srv
      <4>2. Len(reqs'[s]) >= Len(reqs[s]) BY <2>0, <3>3 DEF Request, TypeOK
      <4> QED BY <2>0, <4>1, <4>2 DEF TypeOK
    <3>4. CASE SubscribeRecv(r) BY <2>0, <3>4 DEF SubscribeRecv, TypeOK, transport
    <3>5. CASE SubscribeAdd(r) BY <2>0, <3>5 DEF SubscribeAdd, TypeOK, transport
    <3>6. CASE SubscribeEnd(r) BY <2>0, <3>6 DEF SubscribeEnd, TypeOK, transport
    <3> QED BY <2>3, <3>1, <3>2, <3>3, <3>4, <3>5, <3>6 DEF StreamNext
  <2> QED
    BY <2>1, <2>2, <2>3
    DEF Next, vars, srv, transport, StartServe, Stop, Disconnect, CallNext, PublishCall,
        PublishLock, PublishSend, PublishReturn
<1>3. \A k \in Keys : \A e \in subscribers'[k] : Asked(e.stream, k)'
  <2>1. CASE \A k \in Keys : subscribers'[k] \subseteq subscribers[k] BY <1>1, <2>1
  <2>2. ASSUME NEW s \in Streams, SubscribeAdd(s)
        PROVE  \A k \in Keys : \A e \in subscribers'[k] : Asked(e.stream, k)'
    <3> DEFINE t == taken[s] + 1
    <3>1. taken[s] \in Nat /\ taken'[s] = t /\ reqs' = reqs
      BY <2>2 DEF SubscribeAdd, TypeOK, transport
    <3>2. \A k : k = key(reqs[s][t]) => Asked(s, k)' BY <3>1 DEF Asked
    <3>3. subscribers' = [subscribers EXCEPT ![key(reqs[s][t])] =
                            @ \cup {[n |-> clock + 1, stream |-> s]}]
      BY <2>2 DEF SubscribeAdd
    <3> HIDE DEF t
    <3>4. ASSUME NEW k \in Keys, NEW e \in subscribers'[k] PROVE Asked(e.stream, k)'
      <4>1. CASE e \in subscribers[k] BY <1>1, <4>1
      <4>2. CASE e \notin subscribers[k]
        <5>1. subscribers \in [Keys -> SUBSET Subscriber] BY DEF TypeOK
        <5>2. subscribers'[k] = IF k = key(reqs[s][t])
                                THEN subscribers[k] \cup {[n |-> clock + 1, stream |-> s]}
                                ELSE subscribers[k]
          BY <3>3, <5>1
        <5>3. k = key(reqs[s][t]) /\ e = [n |-> clock + 1, stream |-> s] BY <4>2, <5>2
        <5> QED BY <3>2, <5>3
      <4> QED BY <4>1, <4>2
    <3> QED BY <3>4
  <2>3. CASE StartServe \/ Crash BY <2>3 DEF StartServe, Crash, newPubSubServer
  <2>4. ASSUME NEW s \in Streams, SubscribeEnd(s)
        PROVE  \A k \in Keys : subscribers'[k] \subseteq subscribers[k]
    BY <2>4 DEF SubscribeEnd
  <2> QED
    BY <2>1, <2>2, <2>3, <2>4
    DEF Next, vars, srv, transport, Stop, Disconnect, StreamNext, OpenStream, ClientRecv, Request,
        SubscribeRecv, CallNext, PublishCall, PublishLock, PublishSend, PublishReturn
<1>4. \A s \in Streams : \A m \in Received(s)' : Asked(s, key(Dest[m]))'
  <2>1. CASE UNCHANGED sent BY <1>1, <2>1 DEF Received
  <2>2. ASSUME NEW n \in Msgs, PublishSend(n)
        PROVE  \A s \in Streams : \A m \in Received(s)' : Asked(s, key(Dest[m]))'
    <3>1. PICK e \in todo[n] : \A s \in Streams :
            Received(s)' \subseteq Received(s) \cup (IF s = e.stream THEN {n} ELSE {})
      BY <2>2, SendEffect
    <3>2. Asked(e.stream, key(Dest[n]))'
      <4>1. e \in subscribers[key(Dest[n])] BY DEF ListInv
      <4> QED BY <1>1, <4>1, KeysLemma
    <3> QED BY <1>1, <3>1, <3>2
  <2> QED
    BY <2>1, <2>2
    DEF Next, vars, srv, transport, StartServe, Stop, Crash, Disconnect, StreamNext, OpenStream,
        ClientRecv, Request, SubscribeRecv, SubscribeAdd, SubscribeEnd, CallNext, PublishCall,
        PublishLock, PublishReturn
<1> QED BY <1>2, <1>3, <1>4 DEF AddressInv

-----------------------------------------------------------------------------
(* The inductive invariant and what follows from it.                        *)

IInv ==
  TypeOK /\ MutexInv /\ TicketInv /\ OrderInv /\ ListInv /\ CompleteInv /\ AddressInv

\* The lock discipline of service.go: one Publish at a time is sending, its
\* ticket is the latest, and the lists are stable while it is.
THEOREM Invariance == Spec => []IInv
<1>1. Init => IInv
  <2> SUFFICES ASSUME Init PROVE IInv OBVIOUS
  <2>1. TypeOK BY TypeInit
  <2>2. MutexInv BY DEF Init, MutexInv
  <2>3. TicketInv BY DEF Init, TicketInv, newPubSubServer
  <2>4. OrderInv BY DEF Init, OrderInv
  <2>5. ListInv BY DEF Init, ListInv, newPubSubServer
  <2>6. CompleteInv BY DEF Init, CompleteInv
  <2>7. AddressInv BY DEF Init, AddressInv, newPubSubServer, Received
  <2> QED BY <2>1, <2>2, <2>3, <2>4, <2>5, <2>6, <2>7 DEF IInv
<1>2. IInv /\ [Next]_vars => IInv'
  <2> SUFFICES ASSUME IInv, [Next]_vars PROVE IInv' OBVIOUS
  <2> USE DEF IInv
  <2>1. TypeOK' BY TypeStep
  <2>2. MutexInv' BY <2>1, MutexStep
  <2>3. TicketInv' BY <2>1, TicketStep
  <2>4. OrderInv' BY <2>1, <2>3, OrderStep
  <2>5. ListInv' BY <2>1, <2>2, ListStep
  <2>6. CompleteInv' BY <2>1, CompleteStep
  <2>7. AddressInv' BY <2>1, AddressStep
  <2> QED BY <2>1, <2>2, <2>3, <2>4, <2>5, <2>6, <2>7
<1> QED BY <1>1, <1>2, PTL DEF Spec

\* Any two streams agree on the order of the messages they share: both carry
\* them in the order in which their Publish calls took mu.
THEOREM OrderTheorem == Spec => []TotalOrder
<1>1. IInv => TotalOrder
  <2> SUFFICES ASSUME IInv,
                      NEW s1 \in Streams, NEW s2 \in Streams, NEW m1 \in Msgs, NEW m2 \in Msgs,
                      m1 # m2, Before(s1, m1, m2), Before(s2, m2, m1)
               PROVE  FALSE
    BY DEF TotalOrder
  <2>1. \A s \in Streams : DOMAIN sent[s] = 1..Len(sent[s]) BY DEF IInv, TypeOK
  <2>2. ticket[m1] <= ticket[m2] /\ ticket[m2] <= ticket[m1] /\ ticket[m1] > 0
    BY <2>1 DEF IInv, OrderInv, Before
  <2>3. ticket[m1] \in Nat /\ ticket[m2] \in Nat BY DEF IInv, TypeOK
  <2> QED BY <2>2, <2>3 DEF IInv, TicketInv
<1> QED BY <1>1, Invariance, PTL

\* Publish never calls Send on a stream whose Subscribe handler has returned.
THEOREM NoSendAfterReturnTheorem == Spec => []NoSendAfterReturn
<1>1. IInv => NoSendAfterReturn
  BY KeysLemma DEF IInv, ListInv, NoSendAfterReturn
<1> QED BY <1>1, Invariance, PTL

\* A Publish that has returned has served every stream registered before it
\* took mu that is still connected.
THEOREM CompleteTheorem == Spec => []PublishComplete
<1>1. IInv => PublishComplete
  BY DEF IInv, MutexInv, CompleteInv, PublishComplete
<1> QED BY <1>1, Invariance, PTL

\* No name contains the separator "/".
SingleSegment == \A n \in Namespaces \cup Topics : Len(n) <= 1

\* With such names getCacheKey tells any two addresses apart, up to "default".
LEMMA KeyInjective ==
  ASSUME SingleSegment, NEW a \in Address, NEW b \in Address, key(a) = key(b)
  PROVE  SameAddress(a, b)
<1> DEFINE S == STRING \cup {"default"}
           na == orDefault(a.namespace)  ta == orDefault(a.topic)
           nb == orDefault(b.namespace)  tb == orDefault(b.topic)
<1>1. \A n \in Namespaces \cup Topics : orDefault(n) \in Seq(S) /\ Len(orDefault(n)) = 1
  <2> SUFFICES ASSUME NEW n \in Namespaces \cup Topics
               PROVE  orDefault(n) \in Seq(S) /\ Len(orDefault(n)) = 1
    OBVIOUS
  <2>1. n \in Seq(S) /\ Len(n) <= 1 BY NamesAssumption, SeqMonotonic DEF SingleSegment
  <2>2. CASE n = << >> BY <2>2 DEF orDefault
  <2>3. CASE n # << >>
    <3> HIDE DEF S
    <3>1. Len(n) # 0 /\ Len(n) \in Nat BY <2>1, <2>3, EmptySeq, LenProperties
    <3>2. Len(n) = 1
      <4>1. \A l \in Nat : l # 0 /\ l <= 1 => l = 1 OBVIOUS
      <4> QED BY <2>1, <3>1, <4>1, Zenon
    <3>3. orDefault(n) = n BY <2>3, Zenon DEF orDefault
    <3> QED BY <2>1, <3>2, <3>3
  <2> QED BY <2>2, <2>3
<1>2. /\ na \in Seq(S) /\ ta \in Seq(S) /\ nb \in Seq(S) /\ tb \in Seq(S)
      /\ Len(na) = 1 /\ Len(ta) = 1 /\ Len(nb) = 1 /\ Len(tb) = 1
  BY <1>1 DEF Address
<1>3. na \o ta = nb \o tb BY DEF key, getCacheKey
<1> HIDE DEF S, na, ta, nb, tb
<1>4. na[1] = nb[1] /\ ta[1] = tb[1]
  <2>1. \A p, q \in Seq(S) : Len(p) = 1 /\ Len(q) = 1 => (p \o q)[1] = p[1] /\ (p \o q)[2] = q[1]
    BY ConcatProperties
  <2> QED BY <1>2, <1>3, <2>1
<1>5. na = nb /\ ta = tb BY <1>2, <1>4
<1> QED BY <1>5 DEF SameAddress, na, ta, nb, tb

\* Unless a name contains a "/", a stream is only sent messages of a namespace
\* and topic it asked for.
THEOREM IsolationTheorem ==
  ASSUME SingleSegment PROVE Spec => []Isolation
<1>1. IInv => Isolation
  <2> SUFFICES ASSUME IInv, NEW s \in Streams, NEW m \in Received(s)
               PROVE  \E i \in 1..taken[s] : SameAddress(reqs[s][i], Dest[m])
    BY DEF Isolation
  <2>1. PICK i \in 1..taken[s] : key(reqs[s][i]) = key(Dest[m])
    BY DEF IInv, AddressInv, Asked
  <2>2. m \in Msgs BY DEF IInv, TypeOK, Received
  <2>3. reqs[s] \in Seq(Address) /\ taken[s] \in Nat /\ taken[s] <= Len(reqs[s])
    BY DEF IInv, TypeOK, AddressInv
  <2>4. reqs[s][i] \in Address BY <2>1, <2>3
  <2> QED BY <2>1, <2>2, <2>4, KeyInjective, KeysLemma
<1> QED BY <1>1, Invariance, PTL
=============================================================================
