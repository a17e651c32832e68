------------------------- MODULE ConsulWatch_proofs -------------------------
(* That changes of a watched key are reported once and in order, for all     *)
(* keys, callers, shards and bounds.                                        *)
EXTENDS ConsulWatch, TLAPS

\* Where a goroutine has a key in its hands.
Visiting == {"get", "check", "callback"}

\* The type, and that a goroutine that visits a key has one.
TypeInv ==
  /\ TypeOK
  /\ \A l \in Loops : pc[l] \in Visiting => cur[l] \in Keys

\* The steps of the goroutine keep the type (watchConfig's loop).
LEMMA TypeLoop ==
  ASSUME TypeInv, NEW l \in Loops, LoopNext(l)
  PROVE  TypeInv'
<1> USE ConsulAssumption DEF TypeInv, TypeOK, Options, Visiting, kv, watch, hist, goto, return
<1>1. CASE NextShard(l)  BY <1>1 DEF NextShard
<1>2. CASE NextKey(l)    BY <1>2 DEF NextKey
<1>3. CASE EndShard(l)   BY <1>3 DEF EndShard
<1>4. CASE Load(l)       BY <1>4 DEF Load
<1>5. CASE LoadFail(l)   BY <1>5 DEF LoadFail
<1>6. CASE Check(l)
  <2>1. cur[l] \in Keys /\ opt[l] \in Options /\ res[l] \in 0..index
        BY <1>6 DEF Check
  <2>2. queryOption' \in [Keys -> Options]
        BY <1>6, <2>1 DEF Check
  <2>3. CASE res[l] \in {0, queryVersion[cur[l]]}
    <3>1. queryVersion' = queryVersion /\ return(l)
          BY <1>6, <2>3 DEF Check
    <3>2. pc' = [pc EXCEPT ![l] = "next"] /\ \A j \in Loops : pc'[j] \in Visiting => cur'[j] \in Keys
          BY <3>1
    <3> QED BY <1>6, <2>2, <3>1, <3>2 DEF Check
  <2>4. CASE res[l] \notin {0, queryVersion[cur[l]]}
    <3>1. queryVersion' \in [Keys -> 0..index]
          BY <1>6, <2>1, <2>4 DEF Check
    <3>2. pc' = [pc EXCEPT ![l] = "callback"] /\ UNCHANGED <<cur, opt, res>>
          BY <1>6, <2>4 DEF Check
    <3> QED BY <1>6, <2>1, <2>2, <3>1, <3>2 DEF Check
  <2> QED BY <2>3, <2>4
<1>7. CASE Callback(l)   BY <1>7 DEF Callback
<1> QED BY <1>1, <1>2, <1>3, <1>4, <1>5, <1>6, <1>7 DEF LoopNext

\* Every step keeps the type (all operations of consulClient).
LEMMA TypeStep == TypeInv /\ [Next]_vars => TypeInv'
<1> SUFFICES ASSUME TypeInv, [Next]_vars PROVE TypeInv'
    OBVIOUS
<1> USE ConsulAssumption DEF TypeInv, TypeOK, Options, Visiting, kv, watch, local, hist
<1>1. ASSUME NEW k \in Keys, NEW t \in BOOLEAN, Set(k, t) PROVE TypeInv'
      BY <1>1 DEF Set, Put
<1>2. ASSUME NEW k \in Keys, SessionExpire(k) PROVE TypeInv'
      BY <1>2 DEF SessionExpire
<1>3. ASSUME NEW k \in Keys, Delete(k) PROVE TypeInv'
      BY <1>3 DEF Delete
<1>4. ASSUME NEW k \in Keys, BatchPut(k) PROVE TypeInv'
  <2>1. CASE Put(k, FALSE) /\ batch' = batch \ {k}
        BY <1>4, <2>1 DEF BatchPut, Put
  <2>2. CASE batch' = {} /\ UNCHANGED <<index, store, versions, session>>
        BY <1>4, <2>2 DEF BatchPut
  <2> QED BY <1>4, <2>1, <2>2 DEF BatchPut
<1>5. ASSUME NEW k \in Keys, NEW o \in Options, Get(k, o) PROVE TypeInv'
      BY <1>5 DEF Get
<1>6. ASSUME NEW K \in SUBSET Keys, BatchSet(K) PROVE TypeInv'
      BY <1>6 DEF BatchSet
<1>7. ASSUME NEW c \in Callers, StartWatchService(c) PROVE TypeInv'
      BY <1>7 DEF StartWatchService
<1>8. ASSUME NEW c \in Callers, WatchSet(c) PROVE TypeInv'
      BY <1>8 DEF WatchSet
<1>9. ASSUME NEW c \in Callers, WatchOption(c) PROVE TypeInv'
      BY <1>9 DEF WatchOption, watchConfig, start
<1>10. ASSUME NEW l \in Loops, LoopNext(l) PROVE TypeInv'
      BY <1>10, TypeLoop
<1>11. CASE UNCHANGED vars
      BY <1>11 DEF vars
<1> QED BY <1>1, <1>2, <1>3, <1>4, <1>5, <1>6, <1>7, <1>8, <1>9, <1>10, <1>11 DEF Next

\* NewConsulClient starts with maps of the right type.
LEMMA TypeInit == Init => TypeInv
<1> SUFFICES ASSUME Init PROVE TypeInv
    OBVIOUS
<1>1. index \in 0..MaxIndex /\ 0 \in 0..index /\ 1 \in 1..NumShards
      BY ConsulAssumption DEF Init
<1>2. versions \in [Keys -> SUBSET (0..index)]
      BY <1>1 DEF Init
<1> QED BY <1>1, <1>2 DEF Init, TypeInv, TypeOK, Options, Visiting

\* The state of the client always has its type.
THEOREM TypeCorrect == Spec => []TypeOK
<1>1. TypeInv => TypeOK  BY DEF TypeInv
<1> QED BY <1>1, TypeInit, TypeStep, PTL DEF Spec

-----------------------------------------------------------------------------
(* The order of the reports.                                                *)

\* At most one goroutine runs, and none before once.Do.
Single ==
  /\ \A l, j \in Loops : pc[l] # "off" /\ pc[j] # "off" => l = j
  /\ ~once => \A l \in Loops : pc[l] = "off"

\* What the store has is the newest value of a key, and queryVersion one of
\* its values.
Newest ==
  \A k \in Keys :
    /\ 0 \in versions[k] /\ store[k] \in versions[k] /\ queryVersion[k] \in versions[k]
    /\ store[k] = 0 \/ \A i \in versions[k] : i <= store[k]

\* A loaded value is no older than the one reported, if no load was stale.
Loaded ==
  \A l \in Loops : pc[l] = "check" =>
    /\ res[l] \in versions[cur[l]]
    /\ tainted[cur[l]] \/ res[l] = 0 \/ queryVersion[cur[l]] <= res[l]

\* queryVersion has been reported, or is about to be.
Reported ==
  /\ \A k \in Keys : tainted[k] \/ seen[k] <= queryVersion[k]
  /\ \A l \in Loops : pc[l] = "callback" =>
       /\ res[l] = queryVersion[cur[l]]
       /\ tainted[cur[l]] \/ seen[cur[l]] < res[l]

IInv == TypeInv /\ Single /\ Newest /\ Loaded /\ Reported

\* once.Do keeps the goroutine alone.
LEMMA SingleStep == IInv /\ [Next]_vars => Single'
<1> SUFFICES ASSUME IInv, [Next]_vars PROVE Single'
    OBVIOUS
<1> USE DEF IInv, TypeInv, TypeOK, Single, kv, watch, local, hist
<1>1. ASSUME UNCHANGED <<pc, once>> PROVE Single'
      BY <1>1
<1>2. ASSUME NEW k \in Keys,
             \/ \E t \in BOOLEAN : Set(k, t)
             \/ SessionExpire(k) \/ Delete(k) \/ BatchPut(k) \/ \E o \in Options : Get(k, o)
      PROVE Single'
      BY <1>1, <1>2 DEF Set, SessionExpire, Delete, BatchPut, Get
<1>3. ASSUME NEW K \in SUBSET Keys, BatchSet(K) PROVE Single'
      BY <1>1, <1>3 DEF BatchSet
<1>4. ASSUME NEW c \in Callers, StartWatchService(c) \/ WatchSet(c) PROVE Single'
      BY <1>1, <1>4 DEF StartWatchService, WatchSet
<1>5. ASSUME NEW c \in Callers, WatchOption(c) PROVE Single'
  <2>1. CASE once /\ UNCHANGED <<once, pc>>
        BY <1>1, <2>1
  <2>2. CASE ~once /\ once' = TRUE /\ \E l \in Loops : start(l)
        BY <2>2 DEF start
  <2> QED BY <1>5, <2>1, <2>2 DEF WatchOption, watchConfig
<1>6. ASSUME NEW l \in Loops, LoopNext(l) PROVE Single'
  <2>1. pc[l] # "off" /\ once' = once /\ \A j \in Loops : j # l => pc'[j] = pc[j]
        BY <1>6 DEF LoopNext, NextShard, NextKey, EndShard, Load, LoadFail, Check, Callback, goto, return
  <2> QED BY <2>1
<1>7. CASE UNCHANGED vars
      BY <1>1, <1>7 DEF vars
<1> QED BY <1>2, <1>3, <1>4, <1>5, <1>6, <1>7 DEF Next

\* A write is newer than everything before it, a deletion leaves nothing.
LEMMA PutNewest ==
  ASSUME IInv, NEW k \in Keys, NEW t \in BOOLEAN, Put(k, t), UNCHANGED <<watch, local, hist>>
  PROVE  Newest' /\ Loaded' /\ Reported'
<1> USE DEF IInv, TypeInv, TypeOK, watch, local, hist, Put
<1>1. Newest'
  <2> SUFFICES ASSUME NEW j \in Keys
      PROVE /\ 0 \in versions'[j] /\ store'[j] \in versions'[j] /\ queryVersion'[j] \in versions'[j]
            /\ store'[j] = 0 \/ \A i \in versions'[j] : i <= store'[j]
      BY DEF Newest
  <2>1. CASE j # k  BY <2>1 DEF Newest
  <2>2. CASE j = k
    <3>1. versions'[j] = versions[j] \cup {index + 1} /\ store'[j] = index + 1
          BY <2>2
    <3>2. \A i \in versions[j] : i \in 0..index
          OBVIOUS
    <3> QED BY <3>1, <3>2 DEF Newest
  <2> QED BY <2>1, <2>2
<1>2. \A j \in Keys : versions[j] \subseteq versions'[j]
      OBVIOUS
<1>3. Loaded'
      BY <1>2 DEF Loaded, Visiting
<1>4. Reported'
      BY DEF Reported
<1> QED BY <1>1, <1>3, <1>4

\* Steps that change neither the values of keys nor what is loaded and reported.
LEMMA OrderStable ==
  ASSUME IInv, UNCHANGED <<store, versions, queryVersion, hist>>,
         \A l \in Loops : pc'[l] \in {"check", "callback"} =>
           pc'[l] = pc[l] /\ cur'[l] = cur[l] /\ res'[l] = res[l]
  PROVE  Newest' /\ Loaded' /\ Reported'
<1>1. Newest'    BY DEF IInv, Newest
<1>2. Loaded'    BY DEF IInv, Loaded, hist
<1>3. Reported'  BY DEF IInv, Reported, hist
<1> QED BY <1>1, <1>2, <1>3

\* loadOneData reads the newest value, or the key is marked.
LEMMA LoadOrder ==
  ASSUME IInv, NEW l \in Loops, Load(l)
  PROVE  Newest' /\ Loaded' /\ Reported'
<1> USE DEF IInv, TypeInv, TypeOK, Visiting, kv, watch, goto
<1> DEFINE k == cur[l]
<1>1. k \in Keys /\ pc' = [pc EXCEPT ![l] = "check"] /\ UNCHANGED <<cur, store, versions, queryVersion, seen>>
      BY DEF Load
<1>2. PICK i : /\ i \in versions[k] /\ res' = [res EXCEPT ![l] = i]
               /\ tainted'[k] \/ i = store[k]
  <2>1. CASE (IF opt[l] = "nil" THEN queryOption[k] ELSE opt[l]) = "stale"
        BY <1>1, <2>1 DEF Load
  <2>2. CASE (IF opt[l] = "nil" THEN queryOption[k] ELSE opt[l]) # "stale"
        BY <1>1, <2>2 DEF Load, Newest
  <2> QED BY <2>1, <2>2
<1>3. \A j \in Keys : tainted[j] => tainted'[j]
      BY <1>1 DEF Load
<1>4. Newest'
      BY <1>1 DEF Newest
<1>5. Loaded'
  <2>1. i \in versions[k] /\ (tainted'[k] \/ i = 0 \/ queryVersion[k] <= i)
        BY <1>1, <1>2 DEF Newest
  <2> QED BY <1>1, <1>2, <1>3, <2>1 DEF Loaded
<1>6. Reported'
      BY <1>1, <1>2, <1>3 DEF Reported
<1> QED BY <1>4, <1>5, <1>6

\* The comparison with queryVersion lets only newer values through.
LEMMA CheckOrder ==
  ASSUME IInv, NEW l \in Loops, Check(l)
  PROVE  Newest' /\ Loaded' /\ Reported'
<1> USE DEF IInv, TypeInv, TypeOK, Visiting, kv, hist, goto, return
<1> DEFINE k == cur[l]
<1>1. k \in Keys /\ pc[l] = "check" /\ UNCHANGED <<store, versions, seen, tainted>>
      BY DEF Check
<1>2. CASE res[l] \in {0, queryVersion[k]}
  <2>1. queryVersion' = queryVersion /\ return(l)
        BY <1>2 DEF Check
  <2>2. \A j \in Loops : pc'[j] \in {"check", "callback"} =>
          pc'[j] = pc[j] /\ cur'[j] = cur[j] /\ res'[j] = res[j]
        BY <2>1
  <2> QED BY <1>1, <2>1, <2>2, OrderStable
<1>3. CASE res[l] \notin {0, queryVersion[k]}
  <2>1. /\ queryVersion' = [queryVersion EXCEPT ![k] = res[l]]
        /\ pc' = [pc EXCEPT ![l] = "callback"] /\ UNCHANGED <<cur, res>>
        BY <1>3 DEF Check
  <2>2. res[l] \in versions[k] /\ (tainted[k] \/ queryVersion[k] < res[l])
    <3>1. res[l] \in Nat /\ queryVersion[k] \in Nat
          BY <1>1
    <3>2. res[l] \in versions[k] /\ (tainted[k] \/ res[l] = 0 \/ queryVersion[k] <= res[l])
          BY <1>1 DEF Loaded
    <3>3. res[l] # 0 /\ res[l] # queryVersion[k]
          BY <1>3
    <3> QED BY <3>1, <3>2, <3>3
  <2>3. Newest'
        BY <1>1, <2>1, <2>2 DEF Newest
  <2>4. \A j \in Loops : j # l => pc'[j] = "off"
        BY <1>1, <2>1 DEF Single
  <2>5. Loaded'
        BY <2>1, <2>4 DEF Loaded
  <2>6. \A j \in Keys : tainted'[j] \/ seen'[j] <= queryVersion'[j]
        BY <1>1, <2>1, <2>2 DEF Reported
  <2>7. /\ res'[l] = queryVersion'[cur'[l]]
        /\ tainted'[cur'[l]] \/ seen'[cur'[l]] < res'[l]
        BY <1>1, <2>1, <2>2 DEF Reported
  <2> QED BY <2>3, <2>4, <2>5, <2>6, <2>7 DEF Reported
<1> QED BY <1>2, <1>3

\* A callback catches up with queryVersion.
LEMMA CallbackOrder ==
  ASSUME IInv, NEW l \in Loops, Callback(l)
  PROVE  Newest' /\ Loaded' /\ Reported'
<1> USE DEF IInv, TypeInv, TypeOK, Visiting, kv, goto, return
<1> DEFINE k == cur[l]
<1>1. /\ k \in Keys /\ pc[l] = "callback" /\ pc' = [pc EXCEPT ![l] = "next"]
      /\ seen' = [seen EXCEPT ![k] = res[l]]
      /\ UNCHANGED <<store, versions, queryVersion, tainted>>
      BY DEF Callback
<1>2. \A j \in Loops : pc'[j] \notin {"check", "callback"}
      BY <1>1 DEF Single
<1>3. res[l] = queryVersion[k]
      BY <1>1 DEF Reported
<1>4. Newest'
      BY <1>1 DEF Newest
<1>5. \A j \in Keys : tainted'[j] \/ seen'[j] <= queryVersion'[j]
      BY <1>1, <1>3 DEF Reported
<1> QED BY <1>2, <1>4, <1>5 DEF Loaded, Reported

\* Every step keeps the invariant.
LEMMA OrderStep == IInv /\ [Next]_vars => IInv'
<1> SUFFICES ASSUME IInv, [Next]_vars PROVE Newest' /\ Loaded' /\ Reported'
    BY TypeStep, SingleStep DEF IInv
<1> USE DEF IInv, TypeInv, TypeOK, kv, watch, local, hist
<1>1. ASSUME NEW k \in Keys, NEW t \in BOOLEAN, Set(k, t) PROVE Newest' /\ Loaded' /\ Reported'
      BY <1>1, PutNewest DEF Set
<1>2. ASSUME NEW k \in Keys, BatchPut(k) PROVE Newest' /\ Loaded' /\ Reported'
  <2>1. CASE Put(k, FALSE)
        BY <1>2, <2>1, PutNewest DEF BatchPut
  <2>2. CASE UNCHANGED <<index, store, versions, session>>
        BY <1>2, <2>2, OrderStable DEF BatchPut
  <2> QED BY <1>2, <2>1, <2>2 DEF BatchPut
<1>3. ASSUME NEW k \in Keys, Delete(k) PROVE Newest' /\ Loaded' /\ Reported'
  <2>1. Newest'    BY <1>3 DEF Delete, Newest
  <2>2. Loaded'    BY <1>3 DEF Delete, Loaded
  <2>3. Reported'  BY <1>3 DEF Delete, Reported
  <2> QED BY <2>1, <2>2, <2>3
<1>4. ASSUME NEW k \in Keys, SessionExpire(k) \/ \E o \in Options : Get(k, o)
      PROVE Newest' /\ Loaded' /\ Reported'
      BY <1>4, OrderStable DEF SessionExpire, Get
<1>5. ASSUME NEW K \in SUBSET Keys, BatchSet(K) PROVE Newest' /\ Loaded' /\ Reported'
      BY <1>5, OrderStable DEF BatchSet
<1>6. ASSUME NEW c \in Callers, StartWatchService(c) \/ WatchSet(c)
      PROVE Newest' /\ Loaded' /\ Reported'
      BY <1>6, OrderStable DEF StartWatchService, WatchSet
<1>7. ASSUME NEW c \in Callers, WatchOption(c) PROVE Newest' /\ Loaded' /\ Reported'
      BY <1>7, OrderStable DEF WatchOption, watchConfig, start
<1>8. ASSUME NEW l \in Loops, LoopNext(l) PROVE Newest' /\ Loaded' /\ Reported'
  <2>1. CASE NextShard(l)  BY <2>1, OrderStable DEF NextShard, goto
  <2>2. CASE NextKey(l)    BY <2>2, OrderStable DEF NextKey, goto
  <2>3. CASE EndShard(l)   BY <2>3, OrderStable DEF EndShard, goto
  <2>4. CASE LoadFail(l)   BY <2>4, OrderStable DEF LoadFail, goto, return
  <2> QED BY <1>8, <2>1, <2>2, <2>3, <2>4, LoadOrder, CheckOrder, CallbackOrder DEF LoopNext
<1>9. CASE UNCHANGED vars
      BY <1>9, OrderStable DEF vars
<1> QED BY <1>1, <1>2, <1>3, <1>4, <1>5, <1>6, <1>7, <1>8, <1>9 DEF Next

\* With empty maps and no goroutine nothing is out of order.
LEMMA OrderInit == Init => IInv
<1> SUFFICES ASSUME Init PROVE Single /\ Newest /\ Loaded /\ Reported
    BY TypeInit DEF IInv
<1> QED BY DEF Init, Single, Newest, Loaded, Reported

\* The inductive invariant holds.
THEOREM Invariance == Spec => []IInv
<1> QED BY OrderInit, OrderStep, PTL DEF Spec

\* Changes of a key are reported at most once and in the order of their
\* indices unless the key was loaded with AllowStale (watchConfig).
THEOREM InOrderTheorem == Spec => InOrder
<1> DEFINE A == \A l \in Loops : pc[l] = "callback" /\ pc'[l] = "next" =>
                  res[l] > seen[cur[l]] \/ tainted[cur[l]]
<1>1. IInv /\ [Next]_vars => [A]_vars
  <2> SUFFICES ASSUME IInv PROVE A
      OBVIOUS
  <2> QED BY DEF IInv, TypeInv, TypeOK, Visiting, Reported
<1> QED BY <1>1, Invariance, PTL DEF Spec, InOrder
=============================================================================
