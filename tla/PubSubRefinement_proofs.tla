----------------------- MODULE PubSubRefinement_proofs -----------------------
(* The pub/sub server implements SerialBroadcast, for every number of      *)
(* streams and messages, every set of names, and every window.             *)
EXTENDS PubSubServer_proofs

-----------------------------------------------------------------------------
(* How each group of steps looks from outside.                              *)

\* A step that leaves the map, the tickets, the Publish calls, the streams and
\* what was sent alone is invisible to the clients of the broadcast.
LEMMA Invisible ==
  ASSUME UNCHANGED <<subscribers, ticket, call, todo, stream, sent>>
  PROVE  UNCHANGED <<Members, Begun, Active, Due, openStreams, sent>>
BY DEF Members, Begun, Active, Due, openStreams

\* While mu is free nothing is being broadcast and nothing is due.
LEMMA Idle == ASSUME MutexInv, ~mu PROVE Active = {} /\ Due = {}
BY DEF MutexInv, Active, Due

\* The messages due are those of the one Publish that is sending.
LEMMA DueOf ==
  ASSUME MutexInv, NEW m \in Msgs, call[m] = "sending"
  PROVE  Active = {m} /\ Due = {s \in Streams : \E e \in todo[m] : e.stream = s}
BY DEF MutexInv, Active, Due

\* A registration under mu is a Register of SerialBroadcast.
LEMMA AddRegisters ==
  ASSUME IInv, NEW s \in Streams, SubscribeAdd(s)
  PROVE  \E k \in Keys : Broadcast!Register(s, k)
<1> DEFINE k == key(reqs[s][taken[s] + 1])
           e == [n |-> clock + 1, stream |-> s]
<1>1. reqs[s] \in Seq(Address) /\ taken[s] \in Nat /\ taken[s] < Len(reqs[s])
  BY DEF IInv, TypeOK, AddressInv, SubscribeAdd
<1>2. reqs[s][taken[s] + 1] \in Address BY <1>1
<1>3. k \in Keys BY <1>2, KeysLemma
<1>4. subscribers' = [subscribers EXCEPT ![k] = @ \cup {e}] /\ e.stream = s
  BY DEF SubscribeAdd
<1>5. UNCHANGED <<ticket, call, todo, stream, sent>> BY DEF SubscribeAdd, transport
<1>6. Active = {} BY Idle DEF IInv, SubscribeAdd
<1> HIDE DEF k, e
<1>7. subscribers \in [Keys -> SUBSET Subscriber] BY DEF IInv, TypeOK
<1>8. \A j \in Keys : subscribers'[j] = IF j = k THEN subscribers[j] \cup {e} ELSE subscribers[j]
  BY <1>4, <1>7
<1>9. Members' = [Members EXCEPT ![k] = @ \cup {s}]
  <2> DEFINE M(j) == {r \in Streams : \E f \in subscribers[j] : f.stream = r}
  <2>1. Members = [j \in Keys |-> M(j)] BY DEF Members
  <2>2. Members' = [j \in Keys |-> M(j)'] BY DEF Members
  <2>3. \A j \in Keys : M(j)' = IF j = k THEN M(j) \cup {s} ELSE M(j)
    BY <1>4, <1>8
  <2> HIDE DEF M
  <2> QED BY <1>3, <2>1, <2>2, <2>3
<1> QED BY <1>3, <1>5, <1>6, <1>9 DEF Broadcast!Register, Begun, Active, Due, openStreams

\* removeSubscriber is a Leave: the stream is broken, and mu is free.
LEMMA EndLeaves ==
  ASSUME IInv, NEW s \in Streams, SubscribeEnd(s)
  PROVE  Broadcast!Leave(s)
<1>1. UNCHANGED <<ticket, call, todo, stream, sent>> BY DEF SubscribeEnd, transport
<1>2. Active = {} BY Idle DEF IInv, SubscribeEnd
<1>3. s \notin openStreams BY DEF SubscribeEnd, openStreams
<1>4. Members' = [k \in Keys |-> Members[k] \ {s}]
  BY DEF SubscribeEnd, Members
<1> QED BY <1>1, <1>2, <1>3, <1>4 DEF Broadcast!Leave, Begun, Active, Due, openStreams

\* Taking mu in Publish begins the broadcast to the members of the key.
LEMMA LockBegins ==
  ASSUME IInv, NEW m \in Msgs, PublishLock(m)
  PROVE  Broadcast!Begin(m)
<1>1. UNCHANGED <<subscribers, stream, sent>> BY DEF PublishLock, transport
<1>2. Active = {} /\ Due = {} BY Idle DEF IInv, PublishLock
<1>3. clock \in Nat /\ ticket[m] = 0 BY DEF IInv, TypeOK, TicketInv, PublishLock
<1>4. m \notin Begun /\ Begun' = Begun \cup {m}
  BY <1>3 DEF Begun, PublishLock, IInv, TypeOK
<1>5. Active' = {m} BY <1>2 DEF Active, PublishLock, IInv, TypeOK
<1>6. Due' = {s \in Streams : \E e \in subscribers[key(Dest[m])] : e.stream = s}
  <2>1. todo \in [Msgs -> SUBSET Subscriber] /\ \A n \in Msgs : todo[n] = {}
    BY DEF IInv, TypeOK, MutexInv, PublishLock
  <2>2. \A n \in Msgs : todo'[n] = IF n = m THEN subscribers[key(Dest[m])] ELSE {}
    BY <2>1 DEF PublishLock
  <2> QED BY <2>2 DEF Due
<1>7. Due' = Members[key(Dest[m])] BY <1>6, KeysLemma DEF Members
<1> QED BY <1>1, <1>2, <1>4, <1>5, <1>7 DEF Broadcast!Begin, Members, openStreams

\* One Send gives the message to one due stream, or skips a broken one.
LEMMA SendGives ==
  ASSUME IInv, NEW m \in Msgs, PublishSend(m)
  PROVE  \/ \E s \in Streams : Broadcast!Give(m, s) \/ Broadcast!Skip(s)
         \/ UNCHANGED Broadcast!bvars
<1>1. PICK e \in todo[m] : PublishSend(m)!(e) BY DEF PublishSend
<1>2. e \in Subscriber /\ e.stream \in Streams BY DEF IInv, TypeOK, Subscriber
<1>3. call[m] = "sending" BY <1>1 DEF IInv, MutexInv
<1>4. MutexInv BY DEF IInv
<1>5. Active = {m} /\ Due = {s \in Streams : \E f \in todo[m] : f.stream = s}
  BY <1>3, <1>4, DueOf
<1>6. UNCHANGED <<subscribers, ticket, call, stream>> BY <1>1
<1>7. UNCHANGED <<Members, Begun, Active, openStreams>>
  BY <1>6 DEF Members, Begun, Active, openStreams
<1>8. \A n \in Msgs : todo'[n] = IF n = m THEN todo[m] \ {e} ELSE {}
  BY <1>1, <1>3, <1>4 DEF MutexInv, IInv, TypeOK
<1>9. Due' = {s \in Streams : \E f \in todo[m] \ {e} : f.stream = s}
  BY <1>8 DEF Due
<1>10. e.stream \in Due /\ Due' \in {Due, Due \ {e.stream}}
  BY <1>2, <1>5, <1>9
<1>11. CASE stream[e.stream] = "open" /\ sent' = [sent EXCEPT ![e.stream] = Append(@, m)]
  <2>1. e.stream \in openStreams BY <1>2, <1>11 DEF openStreams
  <2>2. Broadcast!Give(m, e.stream) BY <1>5, <1>7, <1>10, <1>11, <2>1 DEF Broadcast!Give
  <2> QED BY <1>2, <2>2
<1>12. CASE stream[e.stream] # "open" /\ UNCHANGED sent
  <2>1. e.stream \notin openStreams BY <1>12 DEF openStreams
  <2>2. CASE Due' = Due BY <1>7, <1>12, <2>2 DEF Broadcast!bvars
  <2>3. CASE Due' = Due \ {e.stream}
    <3>1. Broadcast!Skip(e.stream) BY <1>7, <1>10, <1>12, <2>1, <2>3 DEF Broadcast!Skip
    <3> QED BY <1>2, <3>1
  <2> QED BY <1>10, <2>2, <2>3
<1> QED BY <1>1, <1>11, <1>12

\* The deferred Unlock finishes the broadcast.
LEMMA ReturnFinishes ==
  ASSUME IInv, NEW m \in Msgs, PublishReturn(m)
  PROVE  Broadcast!Finish
<1>1. call[m] = "sending" /\ todo[m] = {} BY DEF PublishReturn
<1>2. Active = {m} /\ Due = {} BY <1>1, DueOf DEF IInv
<1>3. UNCHANGED <<subscribers, ticket, todo, stream, sent>> BY DEF PublishReturn, transport
<1>4. Active' = {}
  BY <1>2 DEF Active, PublishReturn, IInv, TypeOK
<1> QED BY <1>2, <1>3, <1>4 DEF Broadcast!Finish, Members, Begun, Due, openStreams

\* Disconnections, and Stop, only lose streams.
LEMMA BreakLoses ==
  ASSUME IInv, NEW S \in SUBSET Streams, Break(S), UNCHANGED <<subscribers, ticket, call, todo, sent>>
  PROVE  Broadcast!Lose(S)
<1>1. openStreams' = openStreams \ S BY DEF Break, openStreams, IInv, TypeOK
<1> QED BY <1>1 DEF Broadcast!Lose, Members, Begun, Active, Due

\* The death of the process takes the map, the calls and every connection.
LEMMA CrashRestarts == ASSUME IInv, Crash PROVE Broadcast!Restart
<1>1. openStreams' = {} BY DEF Crash, Break, openStreams, IInv, TypeOK
<1>2. Members' = Broadcast!nobody
  <2>1. \A k \in Keys : subscribers'[k] = {} BY DEF Crash, newPubSubServer
  <2> QED BY <2>1 DEF Members, Broadcast!nobody
<1>3. Active' = {} BY DEF Crash, Active
<1>4. Due' = {} BY DEF Crash, Due
<1>5. UNCHANGED <<Begun, sent>> BY DEF Crash, Begun
<1> QED BY <1>1, <1>2, <1>3, <1>4, <1>5 DEF Broadcast!Restart

\* StartServe begins with an empty map, when no Publish is under way.
LEMMA StartRestarts == ASSUME IInv, StartServe PROVE Broadcast!Restart
<1>1. \A m \in Msgs : call[m] # "sending" /\ todo[m] = {} BY DEF IInv, MutexInv, StartServe
<1>2. Active = {} /\ Due = {} BY <1>1 DEF Active, Due
<1>3. UNCHANGED <<ticket, call, todo, stream, sent>> BY DEF StartServe, transport
<1>4. Members' = Broadcast!nobody
  <2>1. \A k \in Keys : subscribers'[k] = {} BY DEF StartServe, newPubSubServer
  <2> QED BY <2>1 DEF Members, Broadcast!nobody
<1>5. UNCHANGED <<Begun, Active, Due, openStreams, sent>>
  BY <1>3 DEF Begun, Active, Due, openStreams
<1> QED BY <1>2, <1>4, <1>5 DEF Broadcast!Restart

-----------------------------------------------------------------------------
(* The refinement.                                                          *)

\* The server process starts as an empty broadcast.
LEMMA RefinesInit == Init => Broadcast!BInit
BY DEF Init, newPubSubServer, Broadcast!BInit, Broadcast!nobody, Members, Begun, Active, Due, openStreams

\* Every step of the server, its streams and the network is a step of
\* SerialBroadcast, or none.
LEMMA RefinesStep == ASSUME IInv, [Next]_vars PROVE [Broadcast!BNext]_(Broadcast!bvars)
<1> DEFINE A == [Broadcast!BNext]_(Broadcast!bvars)
<1>0. ASSUME UNCHANGED <<subscribers, ticket, call, todo, stream, sent>> PROVE A
  BY <1>0, Invisible DEF Broadcast!bvars
<1>1. CASE StartServe BY <1>1, StartRestarts DEF Broadcast!BNext
<1>2. CASE Stop
  <2>1. openStreams \in SUBSET Streams BY DEF openStreams
  <2>2. Broadcast!Lose(openStreams) BY <1>2, <2>1, BreakLoses DEF Stop, srv
  <2> QED BY <2>1, <2>2 DEF Broadcast!BNext
<1>3. CASE Crash BY <1>3, CrashRestarts DEF Broadcast!BNext
<1>4. ASSUME NEW S \in SUBSET Streams, Disconnect(S) PROVE A
  <2>1. Broadcast!Lose(S) BY <1>4, BreakLoses DEF Disconnect, srv
  <2> QED BY <2>1 DEF Broadcast!BNext
<1>5. ASSUME NEW s \in Streams, StreamNext(s) PROVE A
  <2>1. CASE OpenStream(s)
    <3>1. s \notin openStreams /\ openStreams' = openStreams \cup {s}
      BY <2>1 DEF OpenStream, openStreams, IInv, TypeOK
    <3>2. UNCHANGED <<subscribers, ticket, call, todo, sent>> BY <2>1 DEF OpenStream
    <3>3. Broadcast!Connect(s)
      BY <3>1, <3>2 DEF Broadcast!Connect, Members, Begun, Active, Due
    <3> QED BY <3>3 DEF Broadcast!BNext
  <2>2. CASE ClientRecv(s) \/ SubscribeRecv(s) \/ \E a \in Address : Request(s, a)
    BY <1>0, <2>2 DEF ClientRecv, SubscribeRecv, Request, srv, transport
  <2>3. CASE SubscribeAdd(s) BY <2>3, AddRegisters DEF Broadcast!BNext
  <2>4. CASE SubscribeEnd(s) BY <2>4, EndLeaves DEF Broadcast!BNext
  <2> QED BY <1>5, <2>1, <2>2, <2>3, <2>4 DEF StreamNext
<1>6. ASSUME NEW m \in Msgs, CallNext(m) PROVE A
  <2>1. CASE PublishCall(m)
    <3>1. Active' = Active BY <2>1 DEF PublishCall, Active, IInv, TypeOK
    <3>2. UNCHANGED <<subscribers, ticket, todo, stream, sent>>
      BY <2>1 DEF PublishCall, transport
    <3> QED BY <3>1, <3>2 DEF Broadcast!bvars, Members, Begun, Due, openStreams
  <2>2. CASE PublishLock(m) BY <2>2, LockBegins DEF Broadcast!BNext
  <2>3. CASE PublishSend(m) BY <2>3, SendGives DEF Broadcast!BNext
  <2>4. CASE PublishReturn(m) BY <2>4, ReturnFinishes DEF Broadcast!BNext
  <2> QED BY <1>6, <2>1, <2>2, <2>3, <2>4 DEF CallNext
<1>7. CASE UNCHANGED vars BY <1>0, <1>7 DEF vars, srv, transport
<1> QED BY <1>1, <1>2, <1>3, <1>4, <1>5, <1>6, <1>7 DEF Next

\* The server of service.go implements SerialBroadcast: whatever its goroutines,
\* its streams and the network do, clients see one broadcast after another.
THEOREM Refinement == Spec => Broadcasts
<1>1. Init => Broadcast!BInit BY RefinesInit
<1>2. IInv /\ [Next]_vars => [Broadcast!BNext]_(Broadcast!bvars) BY RefinesStep
<1> QED BY <1>1, <1>2, Invariance, PTL DEF Spec, Broadcasts, Broadcast!BSpec
=============================================================================
