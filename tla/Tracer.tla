------------------------------- MODULE Tracer -------------------------------
(***************************************************************************)
(* The process-wide state of package tracer (tracing_cfg.go,                *)
(* tracing_method.go, gozero_tracing.go): the global TraceConfig behind a   *)
(* lock that some reads skip, the unsynchronised cache of providers, the    *)
(* global OpenTelemetry provider, and go-zero's agents, as goroutines set   *)
(* tracing up, read the configuration and stop it.                          *)
(*                                                                          *)
(* External: otel's global provider; goroutines.NewSingleFlight, whose Once *)
(* runs one function per key at a time and gives its result to all callers  *)
(* that came meanwhile; ztrace.StartAgent, which installs a provider of its *)
(* own the first time it is called for an endpoint.  That is go-zero v1.9.4, *)
(* which tracer/go.mod:10 requires and which is not in the repository.       *)
(***************************************************************************)
EXTENDS Integers, Sequences, FiniteSets

CONSTANTS
  Callers,     \* goroutines, each making one call
  Configs,     \* TraceConfig objects
  Endpoint,    \* TraceConfig.Endpoint
  Valid,       \* configs checkConfig accepts
  Ops          \* the calls each caller may make: method and receiver

Endpoints == {Endpoint[h] : h \in Configs}

NoConfig == "nil"       \* globalTraceConfig is nil
EmptyValue == "empty"   \* it points to an atomic.Value nothing was stored in
NoOne == "none"

Calls ==
  [name : {"InitTrace", "InitGoZeroTracing", "GoZeroMiddleware", "SetTraceConfig",
           "GetTraceConfig", "Stop"},
   hc : Configs]
NoCall == [name |-> "none", hc |-> NoConfig]

ASSUME TracerAssumption ==
  /\ Valid \subseteq Configs
  /\ Ops \in [Callers -> SUBSET Calls]
  /\ {NoConfig, EmptyValue} \cap Configs = {} /\ NoOne \notin Callers

VARIABLES
  op,        \* the call each goroutine makes
  pc,        \* where it is in it
  ret,       \* its result: a provider, 0 for nil, or -1 for an error
  cache,     \* traceProviderCache, 0 for an absent endpoint
  config,    \* globalTraceConfig
  lock,      \* holder of globalTraceConfigLock
  flight,    \* the caller whose function singleton.Once runs for an endpoint
  made,      \* providers ever created: their endpoint, and by whom
  global,    \* otel's provider, 0 as long as it is not one of the SDK
  dead,      \* providers that were shut down
  agents,    \* go-zero: endpoints whose agent was started
  agentTp,   \* go-zero: the provider of the last agent, 0 if none
  useGoZero, \* TraceConfig.useGoZero
  telemetry, \* srvConfig.Telemetry.Endpoint of InitGoZeroTracing
  fate       \* "ok", "panic" (nil Load) or "fatal" (concurrent map access)

otel == <<made, global, dead, agents, agentTp, useGoZero>>
cfg  == <<config, lock>>
vars == <<op, pc, ret, cache, cfg, flight, otel, telemetry, fate>>

hc(c) == op[c].hc
ep(c) == Endpoint[hc(c)]
Provider == 1..Len(made)

TypeOK ==
  /\ op \in [Callers -> Calls \cup {NoCall}]
  /\ pc \in [Callers -> {"idle", "check", "config", "lock", "store", "once", "wait", "init",
                         "create", "land", "write", "getCheck", "getLoad", "agent", "server", "middleware",
                         "stop", "delete", "stopAgent", "done"}]
  /\ ret \in [Callers -> {-1, 0} \cup Provider]
  /\ cache \in [Endpoints -> {0} \cup Provider]
  /\ config \in Configs \cup {NoConfig, EmptyValue}
  /\ lock \in Callers \cup {NoOne}
  /\ flight \in [Endpoints -> Callers \cup {NoOne}]
  /\ made \in Seq([endpoint : Endpoints, by : {"init", "agent"}])
  /\ global \in {0} \cup Provider /\ agentTp \in {0} \cup Provider
  /\ dead \subseteq Provider /\ agents \subseteq Endpoints
  /\ useGoZero \in [Configs -> BOOLEAN]
  /\ telemetry \in [Callers -> Endpoints \cup {NoOne}]
  /\ fate \in {"ok", "panic", "fatal"}

Init ==
  /\ op = [c \in Callers |-> NoCall] /\ pc = [c \in Callers |-> "idle"]
  /\ ret = [c \in Callers |-> 0]
  /\ cache = [e \in Endpoints |-> 0]
  /\ config = NoConfig /\ lock = NoOne
  /\ flight = [e \in Endpoints |-> NoOne]
  /\ made = << >> /\ global = 0 /\ dead = {} /\ agents = {} /\ agentTp = 0
  /\ useGoZero = [h \in Configs |-> FALSE]
  /\ telemetry = [c \in Callers |-> NoOne]
  /\ fate = "ok"

at(c, l) == fate = "ok" /\ pc[c] = l
goto(c, l) == pc' = [pc EXCEPT ![c] = l]
return(c, r) == ret' = [ret EXCEPT ![c] = r]

\* What the caller of the inner InitTrace of its call goes on with.
afterInit(c) == IF op[c].name = "InitGoZeroTracing" THEN "getCheck" ELSE "done"

-----------------------------------------------------------------------------
(* InitTrace.                                                               *)

\* A provider in the cache is returned at once.
InitCheck(c) ==
  /\ at(c, "check")
  /\ IF cache[ep(c)] # 0
     THEN return(c, cache[ep(c)]) /\ goto(c, afterInit(c))
     ELSE goto(c, "config") /\ UNCHANGED ret
  /\ UNCHANGED <<op, cache, cfg, flight, otel, telemetry, fate>>

\* The test of globalTraceConfig, outside its lock; SetTraceConfig returns
\* when checkConfig does not accept the config.
InitConfig(c) ==
  /\ at(c, "config")
  /\ goto(c, IF config = NoConfig /\ hc(c) \in Valid THEN "lock" ELSE "once")
  /\ UNCHANGED <<op, ret, cache, cfg, flight, otel, telemetry, fate>>

\* Fault: SetTraceConfig does not take the lock.
setWithoutLock(c) ==
  /\ at(c, "lock")
  /\ config' = IF config = NoConfig THEN EmptyValue ELSE config
  /\ goto(c, "store")
  /\ UNCHANGED <<op, ret, cache, lock, flight, otel, telemetry, fate>>

\* SetTraceConfig: Lock, and a new atomic.Value when there is none yet.
SetLock(c) ==
  /\ at(c, "lock") /\ lock = NoOne
  /\ lock' = c
  /\ config' = IF config = NoConfig THEN EmptyValue ELSE config
  /\ goto(c, "store")
  /\ UNCHANGED <<op, ret, cache, flight, otel, telemetry, fate>>

\* Store and the deferred Unlock.
SetStore(c) ==
  /\ at(c, "store")
  /\ config' = hc(c) /\ lock' = NoOne
  /\ goto(c, IF op[c].name = "SetTraceConfig" THEN "done" ELSE "once")
  /\ UNCHANGED <<op, ret, cache, flight, otel, telemetry, fate>>

\* Fault: the function is run without asking whether one is running.
onceAlways(c) ==
  /\ at(c, "once")
  /\ flight' = [flight EXCEPT ![ep(c)] = c] /\ goto(c, "init")
  /\ UNCHANGED <<op, ret, cache, cfg, otel, telemetry, fate>>

\* singleton.Once(hc.Endpoint, ...): run the function, or wait for the one
\* that is running.
InitOnce(c) ==
  /\ at(c, "once")
  /\ IF flight[ep(c)] = NoOne
     THEN flight' = [flight EXCEPT ![ep(c)] = c] /\ goto(c, "init")
     ELSE goto(c, "wait") /\ UNCHANGED flight
  /\ UNCHANGED <<op, ret, cache, cfg, otel, telemetry, fate>>

\* Once returns r, to its caller and to those that waited for it.
landed(c, r) ==
  LET all == {c} \cup {w \in Callers : pc[w] = "wait" /\ ep(w) = ep(c)} IN
  /\ flight' = [flight EXCEPT ![ep(c)] = NoOne]
  /\ pc' = [w \in Callers |-> IF w \notin all THEN pc[w] ELSE
                              IF r = -1 THEN "done" ELSE "land"]
  /\ ret' = [w \in Callers |-> IF w \in all THEN r ELSE ret[w]]

\* Fault: an error leaves the key of the call occupied.
checkAndKeepKey(c) ==
  /\ at(c, "init")
  /\ \/ /\ global # 0 /\ landed(c, 0)
     \/ /\ global = 0 /\ hc(c) \notin Valid
        /\ return(c, -1) /\ goto(c, "done") /\ UNCHANGED flight
     \/ /\ global = 0 /\ hc(c) \in Valid
        /\ goto(c, "create") /\ UNCHANGED <<ret, flight>>
  /\ UNCHANGED <<op, cache, cfg, otel, telemetry, fate>>

\* initTraceProvider: nothing to do when the SDK has a provider; otherwise the
\* config has to be valid.
InitProvider(c) ==
  /\ at(c, "init")
  /\ \/ /\ global # 0 /\ landed(c, 0)
     \/ /\ global = 0 /\ hc(c) \notin Valid /\ landed(c, -1)
     \/ /\ global = 0 /\ hc(c) \in Valid
        /\ goto(c, "create") /\ UNCHANGED <<ret, flight>>
  /\ UNCHANGED <<op, cache, cfg, otel, telemetry, fate>>

newProvider(e, who) == made' = Append(made, [endpoint |-> e, by |-> who])

\* Fault: the new provider is not installed.
createOnly(c) ==
  /\ at(c, "create")
  /\ newProvider(ep(c), "init") /\ landed(c, 0)
  /\ UNCHANGED <<op, cache, cfg, global, dead, agents, agentTp, useGoZero, telemetry, fate>>

\* createExporter may fail; the new provider becomes otel's, whatever that is
\* by now.
InitCreate(c) ==
  /\ at(c, "create")
  /\ \/ newProvider(ep(c), "init") /\ global' = Len(made) + 1 /\ landed(c, 0)
     \/ landed(c, -1) /\ UNCHANGED <<made, global>>
  /\ UNCHANGED <<op, cache, cfg, dead, agents, agentTp, useGoZero, telemetry, fate>>

\* Back from Once without an error: otel's provider is read again.
InitLand(c) ==
  /\ at(c, "land")
  /\ return(c, global)
  /\ goto(c, IF global # 0 THEN "write" ELSE afterInit(c))
  /\ UNCHANGED <<op, cache, cfg, flight, otel, telemetry, fate>>

\* The assignment to the map ends.
InitWrite(c) ==
  /\ at(c, "write")
  /\ cache' = [cache EXCEPT ![ep(c)] = ret[c]]
  /\ goto(c, afterInit(c))
  /\ UNCHANGED <<op, ret, cfg, flight, otel, telemetry, fate>>

\* Go's runtime may abort the process when a map is written while another
\* goroutine reads or writes it.
MapRace ==
  /\ fate = "ok"
  /\ \E c, d \in Callers : c # d /\ pc[c] \in {"write", "delete"} /\ pc[d] \in {"check", "write", "delete"}
  /\ fate' = "fatal"
  /\ UNCHANGED <<op, pc, ret, cache, cfg, flight, otel, telemetry>>

-----------------------------------------------------------------------------
(* GetTraceConfig, alone or in InitGoZeroTracing.                           *)

afterGet(c) == IF op[c].name = "InitGoZeroTracing" THEN "agent" ELSE "done"

\* The test for nil, outside the lock.  An empty TraceConfig has no endpoint,
\* and InitGoZeroTracing then returns without touching the ServiceConf.
GetCheck(c) ==
  /\ at(c, "getCheck")
  /\ goto(c, IF config # NoConfig THEN "getLoad" ELSE
             IF op[c].name = "InitGoZeroTracing" THEN "server" ELSE "done")
  /\ UNCHANGED <<op, ret, cache, cfg, flight, otel, telemetry, fate>>

\* Between Lock and Unlock: the type assertion panics when nothing is stored.
\* InitGoZeroTracing copies what it gets to srvConfig.Telemetry.
GetLoad(c) ==
  /\ at(c, "getLoad") /\ lock = NoOne
  /\ IF config = EmptyValue
     THEN fate' = "panic" /\ UNCHANGED <<pc, telemetry>>
     ELSE /\ goto(c, afterGet(c))
          /\ telemetry' = IF afterGet(c) = "agent"
                          THEN [telemetry EXCEPT ![c] = Endpoint[config]] ELSE telemetry
          /\ UNCHANGED fate
  /\ UNCHANGED <<op, ret, cache, cfg, flight, otel>>

-----------------------------------------------------------------------------
(* go-zero.                                                                 *)

\* ztrace.StartAgent of go-zero v1.9.4, the version tracer is built with: once per
\* endpoint, and a provider of its own becomes otel's.  (For an endpoint that no
\* exporter accepts it does nothing, every time it is called; such endpoints are
\* left out.)  The newer copy in go-zero/go-zero/core/trace/agent.go:43-53 starts one
\* agent per process; NotPreempted, the property about agents, holds of both.
StartAgent(e) ==
  IF e \in agents
  THEN UNCHANGED <<made, global, agents, agentTp>>
  ELSE /\ newProvider(e, "agent")
       /\ global' = Len(made) + 1 /\ agentTp' = Len(made) + 1
       /\ agents' = agents \cup {e}

\* Fault: InitGoZeroTracing does not start the agent itself.
noAgent(c) ==
  /\ at(c, "agent")
  /\ goto(c, "server")
  /\ UNCHANGED <<op, ret, cache, cfg, flight, otel, telemetry, fate>>

\* The end of InitGoZeroTracing.
InitAgent(c) ==
  /\ at(c, "agent")
  /\ StartAgent(telemetry[c])
  /\ goto(c, "server")
  /\ UNCHANGED <<op, ret, cache, cfg, flight, dead, useGoZero, telemetry, fate>>

\* The service then calls rest.MustNewServer with the same ServiceConf, whose
\* Telemetry has an endpoint of its own if InitGoZeroTracing left it alone.  It
\* starts the agent by ServiceConf.SetUp (in the copy of go-zero in the repository,
\* core/service/serviceconf.go:67).
MustNewServer(c) ==
  /\ at(c, "server")
  /\ \E e \in IF telemetry[c] # NoOne THEN {telemetry[c]} ELSE Endpoints : StartAgent(e)
  /\ goto(c, "done")
  /\ UNCHANGED <<op, ret, cache, cfg, flight, dead, useGoZero, telemetry, fate>>

GoZeroMiddleware(c) ==
  /\ at(c, "middleware")
  /\ goto(c, "done")
  /\ IF hc(c) \in Valid
     THEN StartAgent(ep(c)) /\ useGoZero' = [useGoZero EXCEPT ![hc(c)] = TRUE]
     ELSE UNCHANGED <<made, global, agents, agentTp, useGoZero>>
  /\ UNCHANGED <<op, ret, cache, cfg, flight, dead, telemetry, fate>>

-----------------------------------------------------------------------------
(* Stop.                                                                    *)

\* Fault: Stop does not ask whether there is a provider of the SDK.
stopUnchecked(c) ==
  /\ at(c, "stop")
  /\ dead' = dead \cup {global}
  /\ goto(c, "delete")
  /\ UNCHANGED <<op, ret, cache, cfg, flight, made, global, agents, agentTp, useGoZero, telemetry, fate>>

\* Shutdown of whatever otel's provider is; on an error Stop returns.
StopShutdown(c) ==
  /\ at(c, "stop")
  /\ dead' = dead \cup ({global} \ {0})
  /\ \/ global = 0 /\ goto(c, "stopAgent")
     \/ global # 0 /\ (goto(c, "delete") \/ goto(c, "done"))
  /\ UNCHANGED <<op, ret, cache, cfg, flight, made, global, agents, agentTp, useGoZero, telemetry, fate>>

StopDelete(c) ==
  /\ at(c, "delete")
  /\ cache' = [cache EXCEPT ![ep(c)] = 0]
  /\ goto(c, "stopAgent")
  /\ UNCHANGED <<op, ret, cfg, flight, otel, telemetry, fate>>

StopAgent(c) ==
  /\ at(c, "stopAgent")
  /\ dead' = IF useGoZero[hc(c)] THEN dead \cup ({agentTp} \ {0}) ELSE dead
  /\ useGoZero' = [useGoZero EXCEPT ![hc(c)] = FALSE]
  /\ goto(c, "done")
  /\ UNCHANGED <<op, ret, cache, cfg, flight, made, global, agents, agentTp, telemetry, fate>>

-----------------------------------------------------------------------------
entry(o) ==
  CASE o.name \in {"InitTrace", "InitGoZeroTracing"} -> "check"
    [] o.name = "SetTraceConfig" -> IF o.hc \in Valid THEN "lock" ELSE "done"
    [] o.name = "GetTraceConfig" -> "getCheck"
    [] o.name = "GoZeroMiddleware" -> "middleware"
    [] o.name = "Stop" -> "stop"

Call(c) ==
  /\ at(c, "idle")
  /\ \E o \in Ops[c] : op' = [op EXCEPT ![c] = o] /\ goto(c, entry(o))
  /\ UNCHANGED <<ret, cache, cfg, flight, otel, telemetry, fate>>

Step(c) ==
  \/ InitCheck(c) \/ InitConfig(c) \/ SetLock(c) \/ SetStore(c) \/ InitOnce(c)
  \/ InitProvider(c) \/ InitCreate(c) \/ InitLand(c) \/ InitWrite(c)
  \/ GetCheck(c) \/ GetLoad(c) \/ InitAgent(c) \/ GoZeroMiddleware(c)
  \/ StopShutdown(c) \/ StopDelete(c) \/ StopAgent(c)

Next ==
  \/ MapRace
  \/ \E c \in Callers : Call(c) \/ MustNewServer(c) \/ Step(c)

Spec == Init /\ [][Next]_vars

\* Goroutines run, and a sync.Mutex is handed to those that wait for it.
FairSpec == Spec /\ \A c \in Callers : SF_vars(Step(c))

-----------------------------------------------------------------------------
(* Properties.                                                              *)

\* "One name is executed only once": however many InitTrace calls overlap with
\* each other, with Stop and with go-zero's agents, initTraceProvider creates at
\* most one provider, and one exporter, for an endpoint.
CreatedOnce ==
  \A i, j \in Provider :
    made[i].by = "init" /\ made[j].by = "init" /\ made[i].endpoint = made[j].endpoint => i = j

\* An InitTrace that returns no error returns a provider, whoever ran the
\* function and whatever replaced otel's provider meanwhile; and so does the
\* cache: its last line (nil, nil) is dead code.
ProviderReturned ==
  \A c \in Callers :
    op[c].name \in {"InitTrace", "InitGoZeroTracing"} /\ pc[c] \in {"getCheck", "agent", "server", "done"}
      => ret[c] # 0

\* GetTraceConfig, whose test for nil is outside the lock, never loads from an
\* atomic.Value in which SetTraceConfig has not yet stored anything.
NeverLoadsEmpty == fate # "panic"

\* "Avoids being preempted by rest.MustNewServer": once InitGoZeroTracing has
\* filled the service's Telemetry, creating the server leaves otel's provider
\* alone, even after other goroutines replaced or stopped it.
NotPreempted ==
  [][\A c \in Callers : telemetry[c] # NoOne /\ MustNewServer(c) => global' = global]_vars

\* Every InitTrace comes back from the single flight, also when the caller it
\* waits for fails.
InitReturns == \A c \in Callers : pc[c] = "once" ~> pc[c] \in {"land", "done"} \/ fate # "ok"
=============================================================================
