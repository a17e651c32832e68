---------------------------- MODULE ConsulWatch -----------------------------
(***************************************************************************)
(* consul/client.go: keys of Consul's KV store are set, read and watched.   *)
(* StartWatchService registers a callback and starts, once, the goroutine   *)
(* that goes over all callbacks, loads each key and calls back when its     *)
(* index differs from the one stored in queryVersion.                       *)
(*                                                                          *)
(* The KV store and the concurrent maps are external.  Every write gets a   *)
(* new index, and the value of a key stands for the index it was written    *)
(* with, 0 for an absent key.  A read with the option "stale" may return    *)
(* any value the key had.  IterCb holds the read lock of one shard of the   *)
(* map while it calls its argument on the entries of that shard, and Set    *)
(* needs the write lock of the shard of its key.                            *)
(***************************************************************************)
EXTENDS Integers, FiniteSets

CONSTANTS
  Keys,
  NumShards,   \* shards of watchCallback
  ShardOf,     \* the shard of a key
  Callers,     \* StartWatchService calls
  KeyOf,       \* the key a call watches
  OptOf,       \* the query options it passes
  Child,       \* the key whose watch a callback starts, or NoKey
  TimedKeys,   \* keys that are Set with a timeout
  Gets,        \* keys and options Get is called with
  Loops,       \* goroutines watchConfig may start
  MaxIndex     \* bound: writes to the store

NoKey == "none"

\* What a QueryOptions says about the value a load may return.  Its other fields
\* (Datacenter, WaitIndex, ...), which Get stores for the watch as well, are not
\* represented: a watch reads one store and no load blocks.
Options == {"nil", "consistent", "stale"}

ASSUME ConsulAssumption ==
  /\ NumShards \in Nat \ {0} /\ MaxIndex \in Nat /\ NoKey \notin Keys
  /\ ShardOf \in [Keys -> 1..NumShards] /\ Child \in [Keys -> Keys \cup {NoKey}]
  /\ KeyOf \in [Callers -> Keys] /\ OptOf \in [Callers -> Options]
  /\ Loops \subseteq Nat /\ TimedKeys \subseteq Keys /\ Gets \subseteq Keys \X (Options \ {"nil"})

VARIABLES
  index,          \* index of the last write to the store
  store,          \* the value of each key
  versions,       \* all values it has had
  session,        \* of the Set that wrote the value: "none" without a timeout, "live", "expired"
  batch,          \* keys a running BatchSet has still to Put
  watchCallback,  \* keys with a callback
  queryOption,
  queryVersion,   \* 0 when absent
  call,           \* StartWatchService: "idle", "set", "option", "done"
  once,           \* watchConfig has run
  pc,             \* goroutine: "off", "shard" (and Sleep), "next", "get", "check", "callback"
  shard,          \* the shard it is at
  todo,           \* keys of the shard it has still to visit
  cur,            \* the key it visits,
  opt,            \*   the option it has read for it,
  res,            \*   and the value it has loaded
  seen,           \* history: the value of the last callback
  tainted         \* history: the goroutine has loaded the key with "stale"

kv    == <<index, store, versions, session, batch>>
watch == <<watchCallback, queryVersion, call, once>>
local == <<pc, shard, todo, cur, opt, res>>
hist  == <<seen, tainted>>
vars  == <<kv, watch, queryOption, local, hist>>

TypeOK ==
  /\ index \in 0..MaxIndex
  /\ store \in [Keys -> 0..index]
  /\ versions \in [Keys -> SUBSET (0..index)]
  /\ session \in [Keys -> {"none", "live", "expired"}] /\ once \in BOOLEAN
  /\ batch \subseteq Keys /\ watchCallback \subseteq Keys
  /\ queryOption \in [Keys -> Options]
  /\ queryVersion \in [Keys -> 0..index]
  /\ call \in [Callers -> {"idle", "set", "option", "done"}]
  /\ pc \in [Loops -> {"off", "shard", "next", "get", "check", "callback"}]
  /\ shard \in [Loops -> 1..NumShards]
  /\ todo \in [Loops -> SUBSET Keys]
  /\ cur \in [Loops -> Keys \cup {NoKey}]
  /\ opt \in [Loops -> Options]
  /\ res \in [Loops -> 0..index]
  /\ seen \in [Keys -> 0..index] /\ tainted \in [Keys -> BOOLEAN]

Init ==
  /\ index = 0
  /\ store = [k \in Keys |-> 0]
  /\ versions = [k \in Keys |-> {0}]
  /\ session = [k \in Keys |-> "none"]
  /\ batch = {}
  /\ watchCallback = {}
  /\ queryOption = [k \in Keys |-> "nil"]
  /\ queryVersion = [k \in Keys |-> 0]
  /\ call = [c \in Callers |-> "idle"]
  /\ once = FALSE
  /\ pc = [l \in Loops |-> "off"]
  /\ shard = [l \in Loops |-> 1]
  /\ todo = [l \in Loops |-> {}]
  /\ cur = [l \in Loops |-> NoKey]
  /\ opt = [l \in Loops |-> "nil"]
  /\ res = [l \in Loops |-> 0]
  /\ seen = [k \in Keys |-> 0]
  /\ tainted = [k \in Keys |-> FALSE]

-----------------------------------------------------------------------------
(* The store, and the operations that write to it.                          *)

\* kv.Put; the session pair.Session names gets no hold of the key.
Put(k, timeout) ==
  /\ index < MaxIndex
  /\ index' = index + 1
  /\ store' = [store EXCEPT ![k] = index + 1]
  /\ versions' = [versions EXCEPT ![k] = @ \cup {index + 1}]
  /\ session' = [session EXCEPT ![k] = IF timeout THEN "live" ELSE "none"]

\* Set, with a timeout after creating a session with that TTL.
Set(k, timeout) ==
  /\ timeout => k \in TimedKeys
  /\ Put(k, timeout)
  /\ UNCHANGED <<batch, watch, queryOption, local, hist>>

\* The end of a session releases the locks it holds; Put takes none.
SessionExpire(k) ==
  /\ session[k] = "live"
  /\ session' = [session EXCEPT ![k] = "expired"]
  /\ UNCHANGED <<index, store, versions, batch, watch, queryOption, local, hist>>

\* Another client deletes the key.
Delete(k) ==
  /\ store[k] # 0
  /\ store' = [store EXCEPT ![k] = 0]
  /\ session' = [session EXCEPT ![k] = "none"]
  /\ UNCHANGED <<index, versions, batch, watch, queryOption, local, hist>>

BatchSet(K) ==
  /\ batch = {} /\ K # {}
  /\ batch' = K
  /\ UNCHANGED <<index, store, versions, session, watch, queryOption, local, hist>>

\* One Put of ForEachWhile; an error ends the loop and leaves the rest undone.
BatchPut(k) ==
  /\ k \in batch
  /\ \/ Put(k, FALSE) /\ batch' = batch \ {k}
     \/ batch' = {} /\ UNCHANGED <<index, store, versions, session>>
  /\ UNCHANGED <<watch, queryOption, local, hist>>

\* Get with options: the options stay, for the watch of the key as well.
Get(k, o) ==
  /\ <<k, o>> \in Gets
  /\ queryOption' = [queryOption EXCEPT ![k] = o]
  /\ UNCHANGED <<kv, watch, local, hist>>

-----------------------------------------------------------------------------
(* StartWatchService.                                                       *)

\* Fault: one lock for the whole map, kept while the goroutine sleeps.
neverReleased(l, s) == pc[l] # "off"

\* Goroutine l is inside IterCb and holds the read lock of shard s.
rlocked(l, s) == pc[l] \notin {"off", "shard"} /\ shard[l] = s

StartWatchService(c) ==
  /\ call[c] = "idle"
  /\ call' = [call EXCEPT ![c] = "set"]
  /\ UNCHANGED <<kv, watchCallback, queryVersion, once, queryOption, local, hist>>

\* watchCallback.Set
WatchSet(c) ==
  /\ call[c] = "set" /\ \A l \in Loops : ~rlocked(l, ShardOf[KeyOf[c]])
  /\ watchCallback' = watchCallback \cup {KeyOf[c]}
  /\ call' = [call EXCEPT ![c] = "option"]
  /\ UNCHANGED <<kv, queryVersion, once, queryOption, local, hist>>

start(l) ==
  /\ pc[l] = "off" /\ \A j \in Loops : j < l => pc[j] # "off"
  /\ pc' = [pc EXCEPT ![l] = "shard"]

\* Fault: every StartWatchService starts a goroutine.
startAlways == \E l \in Loops : start(l) /\ once' = TRUE

\* once.Do
watchConfig ==
  \/ ~once /\ once' = TRUE /\ \E l \in Loops : start(l)
  \/ once /\ UNCHANGED <<once, pc>>

WatchOption(c) ==
  /\ call[c] = "option"
  /\ queryOption' = IF OptOf[c] = "nil" THEN queryOption
                    ELSE [queryOption EXCEPT ![KeyOf[c]] = OptOf[c]]
  /\ watchConfig
  /\ call' = [call EXCEPT ![c] = "done"]
  /\ UNCHANGED <<kv, watchCallback, queryVersion, shard, todo, cur, opt, res, hist>>

-----------------------------------------------------------------------------
(* The goroutine of watchConfig.                                            *)

goto(l, where) == pc' = [pc EXCEPT ![l] = where]

\* The function passed to IterCb returns.
return(l) ==
  /\ goto(l, "next")
  /\ cur' = [cur EXCEPT ![l] = NoKey]
  /\ opt' = [opt EXCEPT ![l] = "nil"]
  /\ res' = [res EXCEPT ![l] = 0]

\* IterCb takes the next shard.
NextShard(l) ==
  /\ pc[l] = "shard"
  /\ todo' = [todo EXCEPT ![l] = {k \in watchCallback : ShardOf[k] = shard[l]}]
  /\ goto(l, "next")
  /\ UNCHANGED <<kv, watch, queryOption, shard, cur, opt, res, hist>>

\* The next key of the shard, and its option.
NextKey(l) ==
  /\ pc[l] = "next"
  /\ \E k \in todo[l] :
       /\ todo' = [todo EXCEPT ![l] = @ \ {k}]
       /\ cur' = [cur EXCEPT ![l] = k]
       /\ opt' = [opt EXCEPT ![l] = queryOption[k]]
  /\ goto(l, "get")
  /\ UNCHANGED <<kv, watch, queryOption, shard, res, hist>>

\* Fault: the shard index runs past the last shard.
shardOverrun(l) ==
  /\ pc[l] = "next" /\ todo[l] = {}
  /\ shard' = [shard EXCEPT ![l] = @ + 1]
  /\ goto(l, "shard")
  /\ UNCHANGED <<kv, watch, queryOption, todo, cur, opt, res, hist>>

\* The end of a shard; after the last one the goroutine sleeps and starts over.
EndShard(l) ==
  /\ pc[l] = "next" /\ todo[l] = {}
  /\ shard' = [shard EXCEPT ![l] = IF @ = NumShards THEN 1 ELSE @ + 1]
  /\ goto(l, "shard")
  /\ UNCHANGED <<kv, watch, queryOption, todo, cur, opt, res, hist>>

\* KV().Get in loadOneData, which looks for an option again if there was none.
Load(l) ==
  LET k == cur[l]
      o == IF opt[l] = "nil" THEN queryOption[k] ELSE opt[l] IN
  /\ pc[l] = "get"
  /\ \E i \in IF o = "stale" THEN versions[k] ELSE {store[k]} :
       res' = [res EXCEPT ![l] = i]
  /\ tainted' = [tainted EXCEPT ![k] = @ \/ o = "stale"]
  /\ goto(l, "check")
  /\ UNCHANGED <<kv, watch, queryOption, shard, todo, cur, opt, seen>>

\* Fault: a failed load ends the goroutine.
failEndsLoop(l) ==
  /\ pc[l] = "get" /\ goto(l, "off")
  /\ UNCHANGED <<kv, watch, queryOption, shard, todo, cur, opt, res, hist>>

\* It fails; the key is tried again at the next turn.
LoadFail(l) ==
  /\ pc[l] = "get" /\ return(l)
  /\ UNCHANGED <<kv, watch, queryOption, shard, todo, hist>>

\* loadOneData stores the option it was given, which Get may have replaced
\* meanwhile; an absent key is an error, an index that was stored before no news.
Check(l) ==
  LET k == cur[l] IN
  /\ pc[l] = "check"
  /\ queryOption' = IF opt[l] = "nil" THEN queryOption
                    ELSE [queryOption EXCEPT ![k] = opt[l]]
  /\ \/ /\ res[l] \in {0, queryVersion[k]}
        /\ return(l) /\ UNCHANGED queryVersion
     \/ /\ res[l] \notin {0, queryVersion[k]}
        /\ queryVersion' = [queryVersion EXCEPT ![k] = res[l]]
        /\ goto(l, "callback") /\ UNCHANGED <<cur, opt, res>>
  /\ UNCHANGED <<kv, watchCallback, call, once, shard, todo, hist>>

\* The callback, whose error is only logged, may start the watch of a key.
Callback(l) ==
  LET k == cur[l]
      child == {c \in Keys : c = Child[k]} IN
  /\ pc[l] = "callback"
  /\ \A c \in child : \A j \in Loops : ~rlocked(j, ShardOf[c])
  /\ watchCallback' = watchCallback \cup child
  /\ seen' = [seen EXCEPT ![k] = res[l]]
  /\ return(l)
  /\ UNCHANGED <<kv, queryVersion, call, once, queryOption, shard, todo, tainted>>

-----------------------------------------------------------------------------
LoopNext(l) ==
  \/ NextShard(l) \/ NextKey(l) \/ EndShard(l)
  \/ Load(l) \/ LoadFail(l) \/ Check(l) \/ Callback(l)

Next ==
  \/ \E k \in Keys :
       \/ \E timeout \in BOOLEAN : Set(k, timeout)
       \/ SessionExpire(k) \/ Delete(k) \/ BatchPut(k)
       \/ \E o \in Options : Get(k, o)
  \/ \E K \in SUBSET Keys : BatchSet(K)
  \/ \E c \in Callers : StartWatchService(c) \/ WatchSet(c) \/ WatchOption(c)
  \/ \E l \in Loops : LoopNext(l)

Spec == Init /\ [][Next]_vars

(* The goroutine runs and its callbacks return; a load that is tried for    *)
(* ever succeeds and sees the current value; Go's RWMutex lets no reader in *)
(* while a writer waits, so a StartWatchService gets its lock; sessions end.*)
FairSpec ==
  /\ Spec
  /\ WF_vars(\E l \in Loops : LoopNext(l))
  /\ \A k \in Keys : SF_vars(\E l \in Loops : Load(l) /\ cur[l] = k /\ res'[l] = store[k])
  /\ \A c \in Callers : SF_vars(WatchSet(c)) /\ WF_vars(WatchOption(c))
  /\ \A k \in Keys : WF_vars(SessionExpire(k))

-----------------------------------------------------------------------------
(* Properties.                                                              *)

\* Each change of a key is reported at most once, and never after a later one,
\* unless the key was loaded with AllowStale: there is one goroutine however
\* many StartWatchService calls race (watchConfig, queryVersion).
InOrder ==
  [][\A l \in Loops : pc[l] = "callback" /\ pc'[l] = "next" =>
       res[l] > seen[cur[l]] \/ tainted[cur[l]]]_vars

\* A value that stays is reported, whatever loads and other keys' callbacks
\* failed before, and with whatever options the key is read.
Delivered ==
  \A k \in Keys : \A i \in 1..MaxIndex :
    k \in watchCallback /\ store[k] = i ~> seen[k] = i \/ store[k] # i

\* StartWatchService returns, although the goroutine loads keys and calls back
\* with a shard of the map locked.
WatchReturns == \A c \in Callers : call[c] = "set" ~> call[c] = "done"

\* "Bind the session to the KV (to delete it automatically after 30 s)": a key
\* Set with a timeout is gone, or overwritten, in the end.
Expires == \A k \in Keys : session[k] = "live" ~> session[k] = "none"
=============================================================================
