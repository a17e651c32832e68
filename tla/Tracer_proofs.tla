---------------------------- MODULE Tracer_proofs ----------------------------
(***************************************************************************)
(* What the process-wide state of package tracer keeps, for any goroutines, *)
(* configs, endpoints and calls.                                            *)
(***************************************************************************)
EXTENDS Tracer, TLAPS

-----------------------------------------------------------------------------
(* The inductive invariant.                                                 *)

\* TypeOK without useGoZero, whose values are Booleans.
Types ==
  /\ op \in [Callers -> Calls \cup {NoCall}]
  /\ pc \in [Callers -> {"idle", "check", "config", "lock", "store", "once", "wait", "init",
                         "create", "land", "write", "getCheck", "getLoad", "agent", "server", "middleware",
                         "stop", "delete", "stopAgent", "done"}]
  /\ ret \in [Callers -> {-1, 0} \cup Provider]
  /\ cache \in [Endpoints -> {0} \cup Provider]
  /\ config \in Configs \cup {NoConfig, EmptyValue}
  /\ lock \in Callers \cup {NoOne}
  /\ flight \in [Endpoints -> Callers \cup {NoOne}]
  /\ made \in Seq([endpoint : Endpoints, by : {"init", "agent"}])
  /\ global \in {0} \cup Provider /\ agentTp \in {0} \cup Provider
  /\ dead \subseteq Provider /\ agents \subseteq Endpoints
  /\ telemetry \in [Callers -> Endpoints \cup {NoOne}]
  /\ fate \in {"ok", "panic", "fatal"}

InitNames == {"InitTrace", "InitGoZeroTracing"}

\* A goroutine is where its call can be.
OpInv ==
  \A c \in Callers :
    /\ pc[c] # "idle" => op[c] \in Calls
    /\ pc[c] \in {"check", "config", "once", "wait", "init", "create", "land", "write"}
         => op[c].name \in InitNames
    /\ pc[c] \in {"lock", "store"} => op[c].name \in InitNames \cup {"SetTraceConfig"}
    /\ pc[c] \in {"getCheck", "getLoad"} => op[c].name \in {"GetTraceConfig", "InitGoZeroTracing"}
    /\ pc[c] \in {"agent", "server"} => op[c].name = "InitGoZeroTracing"
    /\ pc[c] = "middleware" => op[c].name = "GoZeroMiddleware"
    /\ pc[c] \in {"stop", "delete", "stopAgent"} => op[c].name = "Stop"

\* The value in globalTraceConfig is empty only between Lock and Unlock, and the
\* variable is never reset to nil.
LockInv ==
  /\ \A c \in Callers : pc[c] = "store" => lock = c
  /\ \A c \in Callers : pc[c] = "getLoad" => config # NoConfig
  /\ config = EmptyValue => \E c \in Callers : lock = c /\ pc[c] = "store"
  /\ fate # "panic"

\* One goroutine at a time is in the single flight of an endpoint.
FlightInv ==
  \A c \in Callers : pc[c] \in {"init", "create"} => flight[ep(c)] = c

\* A provider was made only if otel has one, which it then keeps; a goroutine that
\* is about to make one is the first to do so for its endpoint.
MadeInv ==
  /\ made # << >> => global # 0
  /\ \A c \in Callers : pc[c] = "create" =>
       \A i \in Provider : made[i].by = "init" => made[i].endpoint # ep(c)

\* Behind the single flight there is a provider.
RetInv ==
  \A c \in Callers :
    /\ pc[c] = "land" => global # 0
    /\ pc[c] = "write" => ret[c] \notin {-1, 0}
    /\ op[c].name \in InitNames /\ pc[c] \in {"getCheck", "getLoad", "agent", "server", "done"}
         => ret[c] # 0

\* The agent of a service's Telemetry is started before its server is made.
AgentInv ==
  \A c \in Callers :
    /\ pc[c] \notin {"agent", "server", "done"} => telemetry[c] = NoOne
    /\ pc[c] = "agent" => telemetry[c] \in Endpoints
    /\ pc[c] = "server" /\ telemetry[c] # NoOne => telemetry[c] \in agents

IInv == Types /\ OpInv /\ LockInv /\ FlightInv /\ MadeInv /\ CreatedOnce /\ RetInv /\ AgentInv

-----------------------------------------------------------------------------
(* What the operators shared by the actions do.                             *)

\* The receiver of a call under way, and its endpoint.
LEMMA Receiver ==
  ASSUME OpInv, NEW c \in Callers, pc[c] # "idle"
  PROVE  hc(c) \in Configs /\ ep(c) \in Endpoints
BY DEF OpInv, Calls, hc, ep, Endpoints

\* A new provider gets the next number, and the others keep theirs.
LEMMA NewProvider ==
  ASSUME Types, NEW e \in Endpoints, NEW who \in {"init", "agent"}, newProvider(e, who)
  PROVE  /\ made' \in Seq([endpoint : Endpoints, by : {"init", "agent"}])
         /\ made' # << >>
         /\ Provider' = Provider \cup {Len(made) + 1} /\ Len(made) + 1 \notin Provider
         /\ Len(made) + 1 # 0
         /\ \A i \in Provider : made'[i] = made[i]
         /\ made'[Len(made) + 1] = [endpoint |-> e, by |-> who]
<1> DEFINE rec == [endpoint |-> e, by |-> who]
           R == [endpoint : Endpoints, by : {"init", "agent"}]
<1>1. made \in Seq(R) /\ rec \in R /\ made' = Append(made, rec)
  BY DEF Types, newProvider
<1> HIDE DEF rec, R
<1>2. /\ made' \in Seq(R) /\ Len(made') = Len(made) + 1 /\ Len(made) \in Nat
      /\ \A i \in 1..Len(made) : made'[i] = made[i]
      /\ made'[Len(made) + 1] = rec
  BY <1>1
<1>3. made' # << >>
  BY <1>2
<1>4. Provider' = Provider \cup {Len(made) + 1} /\ Len(made) + 1 \notin Provider
  BY <1>2 DEF Provider
<1> QED
  BY <1>2, <1>3, <1>4 DEF rec, R, Provider

\* An agent leaves the providers InitTrace made alone, and otel with a provider.
LEMMA Agent ==
  ASSUME Types, NEW e \in Endpoints, StartAgent(e)
  PROVE  /\ made' \in Seq([endpoint : Endpoints, by : {"init", "agent"}])
         /\ Provider \subseteq Provider'
         /\ global' \in {0} \cup Provider' /\ agentTp' \in {0} \cup Provider'
         /\ agents' = agents \cup {e}
         /\ e \in agents => global' = global
         /\ global # 0 => global' # 0
         /\ (made # << >> => global # 0) => (made' # << >> => global' # 0)
         /\ \A i \in Provider' : made'[i].by = "init" => i \in Provider /\ made'[i] = made[i]
<1>1. CASE e \in agents
  <2>1. made' = made /\ global' = global /\ agents' = agents /\ agentTp' = agentTp
    BY <1>1 DEF StartAgent
  <2>2. Provider' = Provider
    BY <2>1 DEF Provider
  <2>3. /\ made \in Seq([endpoint : Endpoints, by : {"init", "agent"}])
        /\ global \in {0} \cup Provider /\ agentTp \in {0} \cup Provider
    BY DEF Types
  <2>4. agents' = agents \cup {e}
    BY <1>1, <2>1
  <2>5. \A i \in Provider' : i \in Provider /\ made'[i] = made[i]
    BY <2>1, <2>2, Zenon
  <2>6. /\ global # 0 => global' # 0
        /\ (made # << >> => global # 0) => (made' # << >> => global' # 0)
    BY <2>1, Zenon
  <2>7. Provider \subseteq Provider' /\ global' \in {0} \cup Provider' /\ agentTp' \in {0} \cup Provider'
    BY <2>1, <2>2, <2>3, Zenon
  <2>8. made' \in Seq([endpoint : Endpoints, by : {"init", "agent"}]) /\ global' = global
    BY <2>1, <2>3, Zenon
  <2> QED
    BY <2>4, <2>5, <2>6, <2>7, <2>8, Zenon
<1>2. CASE e \notin agents
  <2>1. /\ newProvider(e, "agent")
        /\ global' = Len(made) + 1 /\ agentTp' = Len(made) + 1 /\ agents' = agents \cup {e}
    BY <1>2 DEF StartAgent
  <2>2. /\ made' \in Seq([endpoint : Endpoints, by : {"init", "agent"}])
        /\ Provider' = Provider \cup {Len(made) + 1}
        /\ Len(made) + 1 # 0
        /\ \A i \in Provider : made'[i] = made[i]
        /\ made'[Len(made) + 1] = [endpoint |-> e, by |-> "agent"]
    <3>1. "agent" \in {"init", "agent"}
      OBVIOUS
    <3> QED
      BY <2>1, <3>1, NewProvider, Zenon
  <2>3. made'[Len(made) + 1].by = "agent"
    BY <2>2
  <2> QED
    BY <1>2, <2>1, <2>2, <2>3
<1> QED
  BY <1>1, <1>2

\* Numbers of providers stay numbers of providers.
LEMMA Grows ==
  ASSUME Types, Provider \subseteq Provider'
  PROVE  /\ ret \in [Callers -> {-1, 0} \cup Provider']
         /\ cache \in [Endpoints -> {0} \cup Provider']
         /\ dead \subseteq Provider'
         /\ global \in {0} \cup Provider' /\ agentTp \in {0} \cup Provider'
<1> DEFINE P == Provider
           Q == Provider'
<1>1. /\ ret \in [Callers -> {-1, 0} \cup P] /\ cache \in [Endpoints -> {0} \cup P]
      /\ dead \subseteq P /\ global \in {0} \cup P /\ agentTp \in {0} \cup P
  BY DEF Types
<1>2. P \subseteq Q
  OBVIOUS
<1> HIDE DEF P, Q
<1>3. /\ ret \in [Callers -> {-1, 0} \cup Q] /\ cache \in [Endpoints -> {0} \cup Q]
      /\ dead \subseteq Q /\ global \in {0} \cup Q /\ agentTp \in {0} \cup Q
  BY <1>1, <1>2
<1> QED
  BY <1>3 DEF Q

\* Once returns to the caller that ran the function and to those that waited.
LEMMA Landing ==
  ASSUME Types, OpInv, NEW c \in Callers, pc[c] # "idle", NEW r \in {-1, 0}, landed(c, r)
  PROVE  /\ flight' = [flight EXCEPT ![ep(c)] = NoOne]
         /\ flight' \in [Endpoints -> Callers \cup {NoOne}]
         /\ pc' \in [Callers -> {"idle", "check", "config", "lock", "store", "once", "wait", "init",
                         "create", "land", "write", "getCheck", "getLoad", "agent", "server", "middleware",
                         "stop", "delete", "stopAgent", "done"}]
         /\ pc'[c] = IF r = -1 THEN "done" ELSE "land"
         /\ ret' \in [Callers -> {-1, 0} \cup Provider]
         /\ \A w \in Callers :
              \/ pc'[w] = pc[w] /\ ret'[w] = ret[w]
              \/ /\ w = c \/ pc[w] = "wait"
                 /\ pc'[w] = (IF r = -1 THEN "done" ELSE "land") /\ ret'[w] = r
BY DEF Types, landed

-----------------------------------------------------------------------------
(* The steps.                                                               *)

\* The process starts with nothing set up, cached or installed.
LEMMA InitLemma == Init => IInv
<1> SUFFICES ASSUME Init PROVE IInv
  OBVIOUS
<1>1. Provider = {}
  BY DEF Init, Provider
<1>2. Types
  BY <1>1 DEF Init, Types, Calls, NoCall
<1>3. OpInv /\ LockInv /\ FlightInv /\ RetInv /\ AgentInv
  BY TracerAssumption DEF Init, OpInv, LockInv, FlightInv, RetInv, AgentInv, NoConfig, EmptyValue
<1>4. MadeInv /\ CreatedOnce
  BY <1>1 DEF Init, MadeInv, CreatedOnce
<1> QED
  BY <1>2, <1>3, <1>4 DEF IInv

\* No step leaves the types; a cached or returned number is that of a provider.
LEMMA TypeStep == IInv /\ [Next]_vars => Types'
<1> SUFFICES ASSUME IInv, [Next]_vars PROVE Types'
  OBVIOUS
<1>0. Types /\ OpInv /\ TracerAssumption
  BY TracerAssumption DEF IInv
<1>1. ASSUME UNCHANGED made PROVE Provider' = Provider
  BY <1>1 DEF Provider
<1> USE DEF at, goto, return, otel, cfg, vars
<1>2. CASE MapRace
  BY <1>0, <1>1, <1>2 DEF MapRace, Types
<1>3. CASE UNCHANGED vars
  BY <1>0, <1>1, <1>3 DEF Types
<1>4. ASSUME NEW c \in Callers, Call(c) \/ MustNewServer(c) \/ Step(c) PROVE Types'
  <2>0. pc[c] # "idle" => hc(c) \in Configs /\ ep(c) \in Endpoints
    BY <1>0, Receiver
  <2>1. CASE Call(c)
    <3>1. PICK o \in Ops[c] : op' = [op EXCEPT ![c] = o] /\ pc' = [pc EXCEPT ![c] = entry(o)]
      BY <2>1 DEF Call
    <3>2. o \in Calls
      BY <1>0 DEF TracerAssumption
    <3>3. entry(o) \in {"check", "lock", "done", "getCheck", "middleware", "stop"}
      BY <3>2 DEF entry, Calls
    <3> HIDE DEF vars
    <3> QED
      BY <1>0, <1>1, <2>1, <3>1, <3>2, <3>3 DEF Call, Types
  <2>2. CASE InitCheck(c)
    BY <1>0, <1>1, <2>0, <2>2 DEF InitCheck, Types, afterInit
  <2>3. CASE InitConfig(c)
    BY <1>0, <1>1, <2>3 DEF InitConfig, Types
  <2>4. CASE SetLock(c)
    BY <1>0, <1>1, <2>4 DEF SetLock, Types
  <2>5. CASE SetStore(c)
    BY <1>0, <1>1, <2>0, <2>5 DEF SetStore, Types
  <2>6. CASE InitOnce(c)
    BY <1>0, <1>1, <2>0, <2>6 DEF InitOnce, Types
  <2>7. CASE InitProvider(c)
    BY <1>0, <1>1, <2>0, <2>7, Landing DEF InitProvider, Types
  <2>8. CASE InitCreate(c)
    BY <1>0, <1>1, <2>0, <2>8, Landing, NewProvider DEF InitCreate, Types
  <2>9. CASE InitLand(c)
    BY <1>0, <1>1, <2>9 DEF InitLand, Types, afterInit
  <2>10. CASE InitWrite(c)
    <3>1. ret[c] \in Provider
      BY <1>0, <2>10 DEF InitWrite, IInv, RetInv, Types
    <3> QED
      BY <1>0, <1>1, <2>0, <2>10, <3>1 DEF InitWrite, Types, afterInit
  <2>11. CASE GetCheck(c)
    BY <1>0, <1>1, <2>11 DEF GetCheck, Types
  <2>12. CASE GetLoad(c)
    <3>1. config # EmptyValue => Endpoint[config] \in Endpoints
      BY <1>0, <2>12 DEF GetLoad, IInv, LockInv, Types, Endpoints
    <3> QED
      BY <1>0, <1>1, <2>12, <3>1 DEF GetLoad, Types, afterGet
  <2>13. CASE InitAgent(c)
    <3>1. telemetry[c] \in Endpoints
      BY <2>13 DEF InitAgent, IInv, AgentInv
    <3>2. StartAgent(telemetry[c])
      BY <2>13 DEF InitAgent
    <3> QED
      BY <1>0, <2>13, <3>1, <3>2, Agent, Grows DEF InitAgent, Types
  <2>14. CASE MustNewServer(c)
    <3>1. PICK e \in Endpoints : StartAgent(e)
      BY <1>0, <2>14 DEF MustNewServer, Types
    <3> QED
      BY <1>0, <2>14, <3>1, Agent, Grows DEF MustNewServer, Types
  <2>15. CASE GoZeroMiddleware(c)
    <3>1. CASE hc(c) \in Valid
      BY <1>0, <2>0, <2>15, <3>1, Agent, Grows DEF GoZeroMiddleware, Types
    <3>2. CASE hc(c) \notin Valid
      BY <1>0, <1>1, <2>15, <3>2 DEF GoZeroMiddleware, Types
    <3> QED
      BY <3>1, <3>2
  <2>16. CASE StopShutdown(c)
    BY <1>0, <1>1, <2>16 DEF StopShutdown, Types
  <2>17. CASE StopDelete(c)
    BY <1>0, <1>1, <2>0, <2>17 DEF StopDelete, Types
  <2>18. CASE StopAgent(c)
    BY <1>0, <1>1, <2>18 DEF StopAgent, Types
  <2> QED
    BY <1>4, <2>1, <2>2, <2>3, <2>4, <2>5, <2>6, <2>7, <2>8, <2>9, <2>10, <2>11, <2>12,
       <2>13, <2>14, <2>15, <2>16, <2>17, <2>18 DEF Step
<1> QED
  BY <1>2, <1>3, <1>4 DEF Next


\* No step takes a goroutine out of its call.
LEMMA OpStep == IInv /\ [Next]_vars => OpInv'
<1> SUFFICES ASSUME IInv, [Next]_vars PROVE OpInv'
  OBVIOUS
<1>0. Types /\ OpInv /\ TracerAssumption
  BY TracerAssumption DEF IInv
<1> USE DEF at, goto, return, otel, cfg, vars
<1>2. CASE MapRace
  BY <1>0, <1>2 DEF MapRace, Types, OpInv, InitNames
<1>3. CASE UNCHANGED vars
  BY <1>0, <1>3 DEF Types, OpInv, InitNames
<1>4. ASSUME NEW c \in Callers, Call(c) \/ MustNewServer(c) \/ Step(c) PROVE OpInv'
  <2>0. pc[c] # "idle" => hc(c) \in Configs /\ ep(c) \in Endpoints
    BY <1>0, Receiver
  <2>1. CASE Call(c)
    <3>1. PICK o \in Ops[c] : op' = [op EXCEPT ![c] = o] /\ pc' = [pc EXCEPT ![c] = entry(o)]
      BY <2>1 DEF Call
    <3>2. o \in Calls
      BY <1>0 DEF TracerAssumption
    <3> QED
      BY <1>0, <2>1, <3>1, <3>2 DEF Call, Types, entry, Calls, OpInv, InitNames
  <2>2. CASE InitCheck(c)
    BY <1>0, <2>2 DEF InitCheck, afterInit, Types, OpInv, InitNames
  <2>3. CASE InitConfig(c)
    BY <1>0, <2>0, <2>3 DEF InitConfig, Types, OpInv, InitNames
  <2>4. CASE SetLock(c)
    BY <1>0, <2>0, <2>4 DEF SetLock, Types, OpInv, InitNames
  <2>5. CASE SetStore(c)
    BY <1>0, <2>0, <2>5 DEF SetStore, Types, OpInv, InitNames
  <2>6. CASE InitOnce(c)
    BY <1>0, <2>0, <2>6 DEF InitOnce, Types, OpInv, InitNames
  <2>7. CASE InitProvider(c)
    BY <1>0, <2>7, Landing DEF InitProvider, Types, OpInv, InitNames
  <2>8. CASE InitCreate(c)
    BY <1>0, <2>8, Landing DEF InitCreate, Types, OpInv, InitNames
  <2>9. CASE InitLand(c)
    BY <1>0, <2>9 DEF InitLand, afterInit, Types, OpInv, InitNames
  <2>10. CASE InitWrite(c)
    BY <1>0, <2>10 DEF InitWrite, afterInit, Types, OpInv, InitNames
  <2>11. CASE GetCheck(c)
    BY <1>0, <2>0, <2>11 DEF GetCheck, Types, OpInv, InitNames
  <2>12. CASE GetLoad(c)
    BY <1>0, <2>12 DEF GetLoad, afterGet, Types, OpInv, InitNames
  <2>13. CASE InitAgent(c)
    BY <1>0, <2>0, <2>13 DEF InitAgent, Types, OpInv, InitNames
  <2>14. CASE MustNewServer(c)
    BY <1>0, <2>0, <2>14 DEF MustNewServer, Types, OpInv, InitNames
  <2>15. CASE GoZeroMiddleware(c)
    BY <1>0, <2>0, <2>15 DEF GoZeroMiddleware, Types, OpInv, InitNames
  <2>16. CASE StopShutdown(c)
    BY <1>0, <2>0, <2>16 DEF StopShutdown, Types, OpInv, InitNames
  <2>17. CASE StopDelete(c)
    BY <1>0, <2>0, <2>17 DEF StopDelete, Types, OpInv, InitNames
  <2>18. CASE StopAgent(c)
    BY <1>0, <2>0, <2>18 DEF StopAgent, Types, OpInv, InitNames
  <2> QED
    BY <1>4, <2>1, <2>2, <2>3, <2>4, <2>5, <2>6, <2>7, <2>8, <2>9, <2>10, <2>11, <2>12, <2>13, <2>14, <2>15, <2>16, <2>17, <2>18 DEF Step
<1> QED
  BY <1>2, <1>3, <1>4 DEF Next


\* The value of globalTraceConfig is filled before the lock is given back.
LEMMA LockStep == IInv /\ [Next]_vars => LockInv'
<1> SUFFICES ASSUME IInv, [Next]_vars PROVE LockInv'
  OBVIOUS
<1>0. Types /\ OpInv /\ TracerAssumption /\ LockInv
  BY TracerAssumption DEF IInv
<1> USE DEF at, goto, return, otel, cfg, vars
<1>2. CASE MapRace
  BY <1>0, <1>2 DEF MapRace, Types, LockInv
<1>3. CASE UNCHANGED vars
  BY <1>0, <1>3 DEF Types, LockInv
<1>4. ASSUME NEW c \in Callers, Call(c) \/ MustNewServer(c) \/ Step(c) PROVE LockInv'
  <2>0. pc[c] # "idle" => hc(c) \in Configs /\ ep(c) \in Endpoints
    BY <1>0, Receiver
  <2>1. CASE Call(c)
    <3>1. PICK o \in Ops[c] : op' = [op EXCEPT ![c] = o] /\ pc' = [pc EXCEPT ![c] = entry(o)]
      BY <2>1 DEF Call
    <3>2. o \in Calls
      BY <1>0 DEF TracerAssumption
    <3> QED
      BY <1>0, <2>1, <3>1, <3>2 DEF Call, Types, entry, Calls, LockInv
  <2>2. CASE InitCheck(c)
    BY <1>0, <2>2 DEF InitCheck, afterInit, Types, LockInv
  <2>3. CASE InitConfig(c)
    BY <1>0, <2>0, <2>3 DEF InitConfig, Types, LockInv
  <2>4. CASE SetLock(c)
    BY <1>0, <2>4 DEF SetLock, TracerAssumption, NoConfig, EmptyValue, Types, LockInv
  <2>5. CASE SetStore(c)
    BY <1>0, <2>0, <2>5 DEF SetStore, TracerAssumption, Types, LockInv
  <2>6. CASE InitOnce(c)
    BY <1>0, <2>0, <2>6 DEF InitOnce, Types, LockInv
  <2>7. CASE InitProvider(c)
    BY <1>0, <2>7, Landing DEF InitProvider, Types, LockInv
  <2>8. CASE InitCreate(c)
    BY <1>0, <2>8, Landing DEF InitCreate, Types, LockInv
  <2>9. CASE InitLand(c)
    BY <1>0, <2>9 DEF InitLand, afterInit, Types, LockInv
  <2>10. CASE InitWrite(c)
    BY <1>0, <2>10 DEF InitWrite, afterInit, Types, LockInv
  <2>11. CASE GetCheck(c)
    BY <1>0, <2>0, <2>11 DEF GetCheck, Types, LockInv
  <2>12. CASE GetLoad(c)
    BY <1>0, <2>12 DEF GetLoad, afterGet, TracerAssumption, Types, LockInv
  <2>13. CASE InitAgent(c)
    BY <1>0, <2>0, <2>13 DEF InitAgent, Types, LockInv
  <2>14. CASE MustNewServer(c)
    BY <1>0, <2>0, <2>14 DEF MustNewServer, Types, LockInv
  <2>15. CASE GoZeroMiddleware(c)
    BY <1>0, <2>0, <2>15 DEF GoZeroMiddleware, Types, LockInv
  <2>16. CASE StopShutdown(c)
    BY <1>0, <2>0, <2>16 DEF StopShutdown, Types, LockInv
  <2>17. CASE StopDelete(c)
    BY <1>0, <2>0, <2>17 DEF StopDelete, Types, LockInv
  <2>18. CASE StopAgent(c)
    BY <1>0, <2>0, <2>18 DEF StopAgent, Types, LockInv
  <2> QED
    BY <1>4, <2>1, <2>2, <2>3, <2>4, <2>5, <2>6, <2>7, <2>8, <2>9, <2>10, <2>11, <2>12, <2>13, <2>14, <2>15, <2>16, <2>17, <2>18 DEF Step
<1> QED
  BY <1>2, <1>3, <1>4 DEF Next
\* Once admits a goroutine only when the flight of its endpoint has ended.
LEMMA FlightStep == IInv /\ [Next]_vars => FlightInv'
<1> SUFFICES ASSUME IInv, [Next]_vars PROVE FlightInv'
  OBVIOUS
<1>0. Types /\ OpInv /\ TracerAssumption /\ FlightInv
  BY TracerAssumption DEF IInv
<1> USE DEF at, goto, return, otel, cfg, vars
<1>2. CASE MapRace
  BY <1>0, <1>2 DEF MapRace, Types, FlightInv, hc, ep
<1>3. CASE UNCHANGED vars
  BY <1>0, <1>3 DEF Types, FlightInv, hc, ep
<1>4. ASSUME NEW c \in Callers, Call(c) \/ MustNewServer(c) \/ Step(c) PROVE FlightInv'
  <2>0. pc[c] # "idle" => hc(c) \in Configs /\ ep(c) \in Endpoints
    BY <1>0, Receiver
  <2>1. CASE Call(c)
    <3>1. PICK o \in Ops[c] : op' = [op EXCEPT ![c] = o] /\ pc' = [pc EXCEPT ![c] = entry(o)]
      BY <2>1 DEF Call
    <3>2. o \in Calls
      BY <1>0 DEF TracerAssumption
    <3>3. entry(o) \in {"check", "lock", "done", "getCheck", "middleware", "stop"}
      BY <3>2 DEF entry, Calls
    <3>4. entry(o) \in {"getCheck", "done"} => o.name \notin InitNames
      BY <3>2 DEF entry, Calls, InitNames
    <3> QED
      BY <1>0, <2>1, <3>1, <3>2, <3>3, <3>4 DEF Call, Types, FlightInv, OpInv, hc, ep
  <2>2. CASE InitCheck(c)
    BY <1>0, <2>0, <2>2 DEF InitCheck, afterInit, Types, FlightInv, hc, ep
  <2>3. CASE InitConfig(c)
    BY <1>0, <2>0, <2>3 DEF InitConfig, Types, FlightInv, hc, ep
  <2>4. CASE SetLock(c)
    BY <1>0, <2>0, <2>4 DEF SetLock, Types, FlightInv, hc, ep
  <2>5. CASE SetStore(c)
    BY <1>0, <2>0, <2>5 DEF SetStore, Types, FlightInv, hc, ep
  <2>6. CASE InitOnce(c)
    <3>1. \A w \in Callers : pc[w] # "idle" => ep(w) \in Endpoints /\ (ep(w))' = ep(w)
      BY <1>0, <2>6, Receiver DEF InitOnce, ep, hc
    <3> QED
      BY <1>0, <2>6, <3>1 DEF InitOnce, Types, FlightInv, TracerAssumption
  <2>7. CASE InitProvider(c)
    <3>1. \A w \in Callers : pc[w] # "idle" => ep(w) \in Endpoints /\ (ep(w))' = ep(w)
      BY <1>0, <2>7, Receiver DEF InitProvider, ep, hc
    <3> QED
      BY <1>0, <2>7, <3>1, Landing DEF InitProvider, Types, FlightInv, TracerAssumption
  <2>8. CASE InitCreate(c)
    <3>1. \A w \in Callers : pc[w] # "idle" => ep(w) \in Endpoints /\ (ep(w))' = ep(w)
      BY <1>0, <2>8, Receiver DEF InitCreate, ep, hc
    <3> QED
      BY <1>0, <2>8, <3>1, Landing DEF InitCreate, Types, FlightInv, TracerAssumption
  <2>9. CASE InitLand(c)
    BY <1>0, <2>0, <2>9 DEF InitLand, afterInit, Types, FlightInv, hc, ep
  <2>10. CASE InitWrite(c)
    BY <1>0, <2>0, <2>10 DEF InitWrite, afterInit, Types, FlightInv, hc, ep
  <2>11. CASE GetCheck(c)
    BY <1>0, <2>0, <2>11 DEF GetCheck, Types, FlightInv, hc, ep
  <2>12. CASE GetLoad(c)
    BY <1>0, <2>12 DEF GetLoad, afterGet, Types, FlightInv, hc, ep
  <2>13. CASE InitAgent(c)
    BY <1>0, <2>0, <2>13 DEF InitAgent, Types, FlightInv, hc, ep
  <2>14. CASE MustNewServer(c)
    BY <1>0, <2>0, <2>14 DEF MustNewServer, Types, FlightInv, hc, ep
  <2>15. CASE GoZeroMiddleware(c)
    BY <1>0, <2>0, <2>15 DEF GoZeroMiddleware, Types, FlightInv, hc, ep
  <2>16. CASE StopShutdown(c)
    BY <1>0, <2>0, <2>16 DEF StopShutdown, Types, FlightInv, hc, ep
  <2>17. CASE StopDelete(c)
    BY <1>0, <2>0, <2>17 DEF StopDelete, Types, FlightInv, hc, ep
  <2>18. CASE StopAgent(c)
    BY <1>0, <2>0, <2>18 DEF StopAgent, Types, FlightInv, hc, ep
  <2> QED
    BY <1>4, <2>1, <2>2, <2>3, <2>4, <2>5, <2>6, <2>7, <2>8, <2>9, <2>10,
       <2>11, <2>12, <2>13, <2>14, <2>15, <2>16, <2>17, <2>18 DEF Step
<1> QED
  BY <1>2, <1>3, <1>4 DEF Next

\* Telemetry is filled with an endpoint whose agent InitGoZeroTracing starts.
LEMMA AgentStep == IInv /\ [Next]_vars => AgentInv'
<1> SUFFICES ASSUME IInv, [Next]_vars PROVE AgentInv'
  OBVIOUS
<1>0. Types /\ OpInv /\ TracerAssumption /\ AgentInv /\ LockInv
  BY TracerAssumption DEF IInv
<1> USE DEF at, goto, return, otel, cfg, vars
<1>2. CASE MapRace
  BY <1>0, <1>2 DEF MapRace, Types, AgentInv
<1>3. CASE UNCHANGED vars
  BY <1>0, <1>3 DEF Types, AgentInv
<1>4. ASSUME NEW c \in Callers, Call(c) \/ MustNewServer(c) \/ Step(c) PROVE AgentInv'
  <2>0. pc[c] # "idle" => hc(c) \in Configs /\ ep(c) \in Endpoints
    BY <1>0, Receiver
  <2>1. CASE Call(c)
    <3>1. PICK o \in Ops[c] : op' = [op EXCEPT ![c] = o] /\ pc' = [pc EXCEPT ![c] = entry(o)]
      BY <2>1 DEF Call
    <3>2. o \in Calls
      BY <1>0 DEF TracerAssumption
    <3>3. entry(o) \in {"check", "lock", "done", "getCheck", "middleware", "stop"}
      BY <3>2 DEF entry, Calls
    <3>4. entry(o) \in {"getCheck", "done"} => o.name \notin InitNames
      BY <3>2 DEF entry, Calls, InitNames
    <3> QED
      BY <1>0, <2>1, <3>1, <3>2, <3>3, <3>4 DEF Call, Types, AgentInv, OpInv
  <2>2. CASE InitCheck(c)
    BY <1>0, <2>0, <2>2 DEF InitCheck, afterInit, Types, AgentInv
  <2>3. CASE InitConfig(c)
    BY <1>0, <2>0, <2>3 DEF InitConfig, Types, AgentInv
  <2>4. CASE SetLock(c)
    BY <1>0, <2>0, <2>4 DEF SetLock, Types, AgentInv
  <2>5. CASE SetStore(c)
    BY <1>0, <2>0, <2>5 DEF SetStore, Types, AgentInv
  <2>6. CASE InitOnce(c)
    BY <1>0, <2>0, <2>6 DEF InitOnce, Types, AgentInv
  <2>7. CASE InitProvider(c)
    BY <1>0, <2>0, <2>7, Landing DEF InitProvider, Types, AgentInv
  <2>8. CASE InitCreate(c)
    BY <1>0, <2>0, <2>8, Landing DEF InitCreate, Types, AgentInv
  <2>9. CASE InitLand(c)
    BY <1>0, <2>0, <2>9 DEF InitLand, afterInit, Types, AgentInv
  <2>10. CASE InitWrite(c)
    BY <1>0, <2>0, <2>10 DEF InitWrite, afterInit, Types, AgentInv
  <2>11. CASE GetCheck(c)
    BY <1>0, <2>0, <2>11 DEF GetCheck, Types, AgentInv
  <2>12. CASE GetLoad(c)
    <3>1. config # EmptyValue => Endpoint[config] \in Endpoints
      BY <1>0, <2>12 DEF GetLoad, LockInv, Types, Endpoints
    <3> QED
      BY <1>0, <2>12, <3>1 DEF GetLoad, afterGet, Types, AgentInv
  <2>13. CASE InitAgent(c)
    <3>1. telemetry[c] \in Endpoints /\ StartAgent(telemetry[c])
      BY <1>0, <2>13 DEF InitAgent, AgentInv
    <3>2. agents' = agents \cup {telemetry[c]}
      BY <1>0, <3>1, Agent
    <3> QED
      BY <1>0, <2>13, <3>2 DEF InitAgent, Types, AgentInv
  <2>14. CASE MustNewServer(c)
    <3>1. PICK e \in Endpoints : StartAgent(e)
      BY <1>0, <2>14 DEF MustNewServer, Types
    <3>2. agents' = agents \cup {e}
      BY <1>0, <3>1, Agent
    <3> QED
      BY <1>0, <2>14, <3>2 DEF MustNewServer, Types, AgentInv
  <2>15. CASE GoZeroMiddleware(c)
    <3>1. agents \subseteq agents'
      BY <1>0, <2>0, <2>15, Agent DEF GoZeroMiddleware
    <3> QED
      BY <1>0, <2>15, <3>1 DEF GoZeroMiddleware, Types, AgentInv
  <2>16. CASE StopShutdown(c)
    BY <1>0, <2>0, <2>16 DEF StopShutdown, Types, AgentInv
  <2>17. CASE StopDelete(c)
    BY <1>0, <2>0, <2>17 DEF StopDelete, Types, AgentInv
  <2>18. CASE StopAgent(c)
    BY <1>0, <2>0, <2>18 DEF StopAgent, Types, AgentInv
  <2> QED
    BY <1>4, <2>1, <2>2, <2>3, <2>4, <2>5, <2>6, <2>7, <2>8, <2>9, <2>10,
       <2>11, <2>12, <2>13, <2>14, <2>15, <2>16, <2>17, <2>18 DEF Step
<1> QED
  BY <1>2, <1>3, <1>4 DEF Next

\* otel never loses its provider, so what comes back from Once finds one.
LEMMA RetStep == IInv /\ [Next]_vars => RetInv'
<1> SUFFICES ASSUME IInv, [Next]_vars PROVE RetInv'
  OBVIOUS
<1>0. Types /\ OpInv /\ TracerAssumption /\ RetInv /\ AgentInv
  BY TracerAssumption DEF IInv
<1> USE DEF at, goto, return, otel, cfg, vars
<1>2. CASE MapRace
  BY <1>0, <1>2 DEF MapRace, Types, RetInv, InitNames
<1>3. CASE UNCHANGED vars
  BY <1>0, <1>3 DEF Types, RetInv, InitNames
<1>4. ASSUME NEW c \in Callers, Call(c) \/ MustNewServer(c) \/ Step(c) PROVE RetInv'
  <2>0. pc[c] # "idle" => hc(c) \in Configs /\ ep(c) \in Endpoints
    BY <1>0, Receiver
  <2>1. CASE Call(c)
    <3>1. PICK o \in Ops[c] : op' = [op EXCEPT ![c] = o] /\ pc' = [pc EXCEPT ![c] = entry(o)]
      BY <2>1 DEF Call
    <3>2. o \in Calls
      BY <1>0 DEF TracerAssumption
    <3>3. entry(o) \in {"check", "lock", "done", "getCheck", "middleware", "stop"}
      BY <3>2 DEF entry, Calls
    <3>4. entry(o) \in {"getCheck", "done"} => o.name \notin InitNames
      BY <3>2 DEF entry, Calls, InitNames
    <3> QED
      BY <1>0, <2>1, <3>1, <3>2, <3>3, <3>4 DEF Call, Types, RetInv, OpInv, InitNames
  <2>2. CASE InitCheck(c)
    BY <1>0, <2>0, <2>2 DEF InitCheck, afterInit, Types, RetInv, InitNames
  <2>3. CASE InitConfig(c)
    BY <1>0, <2>0, <2>3 DEF InitConfig, Types, RetInv, InitNames
  <2>4. CASE SetLock(c)
    BY <1>0, <2>0, <2>4 DEF SetLock, Types, RetInv, InitNames
  <2>5. CASE SetStore(c)
    BY <1>0, <2>5 DEF SetStore, OpInv, Types, RetInv, InitNames
  <2>6. CASE InitOnce(c)
    BY <1>0, <2>0, <2>6 DEF InitOnce, Types, RetInv, InitNames
  <2>7. CASE InitProvider(c)
    BY <1>0, <2>0, <2>7, Landing DEF InitProvider, Types, RetInv, InitNames
  <2>8. CASE InitCreate(c)
    <3>1. CASE newProvider(ep(c), "init") /\ global' = Len(made) + 1 /\ landed(c, 0)
      <4>1. global' # 0
        BY <1>0, <3>1 DEF Types
      <4> QED
        BY <1>0, <2>0, <2>8, <3>1, <4>1, Landing DEF InitCreate, Types, RetInv, InitNames
    <3>2. CASE landed(c, -1) /\ UNCHANGED <<made, global>>
      BY <1>0, <2>0, <2>8, <3>2, Landing DEF InitCreate, Types, RetInv, InitNames
    <3> QED
      BY <2>8, <3>1, <3>2 DEF InitCreate
  <2>9. CASE InitLand(c)
    <3>1. global \notin {-1, 0}
      BY <1>0, <2>9 DEF InitLand, RetInv, Types, Provider
    <3> QED
      BY <1>0, <2>9, <3>1 DEF InitLand, Types, RetInv, InitNames
  <2>10. CASE InitWrite(c)
    BY <1>0, <2>0, <2>10 DEF InitWrite, afterInit, Types, RetInv, InitNames
  <2>11. CASE GetCheck(c)
    BY <1>0, <2>11 DEF GetCheck, OpInv, Types, RetInv, InitNames
  <2>12. CASE GetLoad(c)
    BY <1>0, <2>12 DEF GetLoad, afterGet, Types, RetInv, InitNames
  <2>13. CASE InitAgent(c)
    <3>1. global # 0 => global' # 0
      BY <1>0, <2>0, <2>13, Agent DEF InitAgent, AgentInv, Types
    <3> QED
      BY <1>0, <2>13, <3>1 DEF InitAgent, OpInv, Types, RetInv, InitNames
  <2>14. CASE MustNewServer(c)
    <3>1. global # 0 => global' # 0
      BY <1>0, <2>0, <2>14, Agent DEF MustNewServer, AgentInv, Types
    <3> QED
      BY <1>0, <2>14, <3>1 DEF MustNewServer, OpInv, Types, RetInv, InitNames
  <2>15. CASE GoZeroMiddleware(c)
    <3>1. global # 0 => global' # 0
      BY <1>0, <2>0, <2>15, Agent DEF GoZeroMiddleware, AgentInv, Types
    <3> QED
      BY <1>0, <2>15, <3>1 DEF GoZeroMiddleware, OpInv, Types, RetInv, InitNames
  <2>16. CASE StopShutdown(c)
    BY <1>0, <2>16 DEF StopShutdown, OpInv, Types, RetInv, InitNames
  <2>17. CASE StopDelete(c)
    BY <1>0, <2>17 DEF StopDelete, OpInv, Types, RetInv, InitNames
  <2>18. CASE StopAgent(c)
    BY <1>0, <2>18 DEF StopAgent, OpInv, Types, RetInv, InitNames
  <2> QED
    BY <1>4, <2>1, <2>2, <2>3, <2>4, <2>5, <2>6, <2>7, <2>8, <2>9, <2>10,
       <2>11, <2>12, <2>13, <2>14, <2>15, <2>16, <2>17, <2>18 DEF Step
<1> QED
  BY <1>2, <1>3, <1>4 DEF Next

\* A provider is made only inside the flight and only while otel has none; an agent's
\* provider is not one of initTraceProvider.
LEMMA MadeStep == IInv /\ [Next]_vars => MadeInv' /\ CreatedOnce'
<1> SUFFICES ASSUME IInv, [Next]_vars PROVE MadeInv' /\ CreatedOnce'
  OBVIOUS
<1>0. Types /\ OpInv /\ TracerAssumption /\ FlightInv /\ MadeInv /\ CreatedOnce /\ AgentInv
  BY TracerAssumption DEF IInv
<1> USE DEF at, goto, return, otel, cfg, vars
<1> DEFINE Same == \A w \in Callers : pc'[w] = "create" => pc[w] = "create" /\ op'[w] = op[w]
<1>1. ASSUME UNCHANGED <<made, global>>, Same PROVE MadeInv' /\ CreatedOnce'
  <2>1. Provider' = Provider
    BY <1>1 DEF Provider
  <2> QED
    BY <1>0, <1>1, <2>1 DEF MadeInv, CreatedOnce, ep, hc
<1>2. ASSUME Same, (made # << >> => global # 0) => (made' # << >> => global' # 0),
              \A i \in Provider' : made'[i].by = "init" => i \in Provider /\ made'[i] = made[i]
      PROVE  MadeInv' /\ CreatedOnce'
  BY <1>0, <1>2 DEF MadeInv, CreatedOnce, ep, hc
<1> HIDE DEF Same
<1>3. CASE MapRace
  BY <1>1, <1>3 DEF MapRace, Same
<1>4. CASE UNCHANGED vars
  BY <1>1, <1>4 DEF Same
<1>5. ASSUME NEW c \in Callers, Call(c) \/ MustNewServer(c) \/ Step(c) PROVE MadeInv' /\ CreatedOnce'
  <2>0. pc[c] # "idle" => hc(c) \in Configs /\ ep(c) \in Endpoints
    BY <1>0, Receiver
  <2>1. CASE Call(c)
    <3>1. PICK o \in Ops[c] : op' = [op EXCEPT ![c] = o] /\ pc' = [pc EXCEPT ![c] = entry(o)]
      BY <2>1 DEF Call
    <3>2. o \in Calls
      BY <1>0 DEF TracerAssumption
    <3>3. entry(o) \in {"check", "lock", "done", "getCheck", "middleware", "stop"}
      BY <3>2 DEF entry, Calls
    <3>4. Same
      BY <1>0, <2>1, <3>1, <3>3 DEF Types, Same
    <3> QED
      BY <1>1, <2>1, <3>4 DEF Call
  <2>2. CASE InitCheck(c)
    BY <1>0, <1>1, <2>2 DEF InitCheck, Types, Same, afterInit
  <2>3. CASE InitConfig(c)
    BY <1>0, <1>1, <2>3 DEF InitConfig, Types, Same
  <2>4. CASE SetLock(c)
    BY <1>0, <1>1, <2>4 DEF SetLock, Types, Same
  <2>5. CASE SetStore(c)
    BY <1>0, <1>1, <2>5 DEF SetStore, Types, Same
  <2>6. CASE InitOnce(c)
    BY <1>0, <1>1, <2>6 DEF InitOnce, Types, Same
  <2>7. CASE InitProvider(c)
    <3>1. CASE global = 0 /\ pc' = [pc EXCEPT ![c] = "create"]
      <4>1. made' = << >> /\ Provider' = {} /\ global' = global
        BY <1>0, <2>7, <3>1 DEF InitProvider, MadeInv, Provider
      <4> QED
        BY <4>1 DEF MadeInv, CreatedOnce
    <3>2. CASE landed(c, 0) \/ landed(c, -1)
      <4>1. Same
        BY <1>0, <2>7, <3>2, Landing DEF InitProvider, Same
      <4> QED
        BY <1>1, <2>7, <4>1 DEF InitProvider
    <3> QED
      BY <2>7, <3>1, <3>2 DEF InitProvider
  <2>8. CASE InitCreate(c)
    <3>1. CASE newProvider(ep(c), "init") /\ global' = Len(made) + 1 /\ landed(c, 0)
      <4>0. "init" \in {"init", "agent"} /\ ep(c) \in Endpoints /\ pc[c] = "create" /\ op' = op
        BY <2>0, <2>8 DEF InitCreate
      <4>1. /\ Provider' = Provider \cup {Len(made) + 1} /\ Len(made) + 1 \notin Provider
            /\ Len(made) + 1 # 0
            /\ \A i \in Provider : made'[i] = made[i]
            /\ made'[Len(made) + 1] = [endpoint |-> ep(c), by |-> "init"]
        BY <1>0, <3>1, <4>0, NewProvider, Zenon
      <4>2. \A w \in Callers : pc'[w] = "create" =>
              w # c /\ pc[w] = "create" /\ (ep(w))' = ep(w) /\ ep(w) # ep(c)
        <5>1. \A w \in Callers : pc'[w] = "create" => w # c /\ pc[w] = "create"
          BY <1>0, <3>1, <4>0, Landing
        <5> QED
          BY <1>0, <4>0, <5>1 DEF FlightInv, ep, hc
      <4>3. \A i \in Provider : made[i].by = "init" => made[i].endpoint # ep(c)
        BY <1>0, <4>0 DEF MadeInv
      <4>4. /\ made'[Len(made) + 1].endpoint = ep(c)
            /\ global' # 0
        BY <3>1, <4>1
      <4>5. MadeInv'
        BY <1>0, <4>1, <4>2, <4>4 DEF MadeInv
      <4>6. CreatedOnce'
        BY <1>0, <4>1, <4>3, <4>4 DEF CreatedOnce
      <4> QED
        BY <4>5, <4>6
    <3>2. CASE landed(c, -1) /\ UNCHANGED <<made, global>>
      <4>1. Same
        BY <1>0, <2>8, <3>2, Landing DEF InitCreate, Same
      <4> QED
        BY <1>1, <3>2, <4>1
    <3> QED
      BY <2>8, <3>1, <3>2 DEF InitCreate
  <2>9. CASE InitLand(c)
    BY <1>0, <1>1, <2>9 DEF InitLand, Types, Same, afterInit
  <2>10. CASE InitWrite(c)
    BY <1>0, <1>1, <2>10 DEF InitWrite, Types, Same, afterInit
  <2>11. CASE GetCheck(c)
    BY <1>0, <1>1, <2>11 DEF GetCheck, Types, Same
  <2>12. CASE GetLoad(c)
    BY <1>0, <1>1, <2>12 DEF GetLoad, Types, Same, afterGet
  <2>13. CASE InitAgent(c)
    <3>1. telemetry[c] \in Endpoints /\ StartAgent(telemetry[c]) /\ Same
      BY <1>0, <2>13 DEF InitAgent, AgentInv, Types, Same
    <3> QED
      BY <1>0, <1>2, <3>1, Agent
  <2>14. CASE MustNewServer(c)
    <3>1. Same
      BY <1>0, <2>14 DEF MustNewServer, Types, Same
    <3>2. PICK e \in Endpoints : StartAgent(e)
      BY <1>0, <2>14 DEF MustNewServer, Types
    <3> QED
      BY <1>0, <1>2, <3>1, <3>2, Agent
  <2>15. CASE GoZeroMiddleware(c)
    <3>1. Same
      BY <1>0, <2>15 DEF GoZeroMiddleware, Types, Same
    <3>2. CASE hc(c) \in Valid
      BY <1>0, <1>2, <2>0, <2>15, <3>1, <3>2, Agent DEF GoZeroMiddleware
    <3>3. CASE hc(c) \notin Valid
      BY <1>1, <2>15, <3>1, <3>3 DEF GoZeroMiddleware
    <3> QED
      BY <3>2, <3>3
  <2>16. CASE StopShutdown(c)
    BY <1>0, <1>1, <2>16 DEF StopShutdown, Types, Same
  <2>17. CASE StopDelete(c)
    BY <1>0, <1>1, <2>17 DEF StopDelete, Types, Same
  <2>18. CASE StopAgent(c)
    BY <1>0, <1>1, <2>18 DEF StopAgent, Types, Same
  <2> QED
    BY <1>5, <2>1, <2>2, <2>3, <2>4, <2>5, <2>6, <2>7, <2>8, <2>9, <2>10,
       <2>11, <2>12, <2>13, <2>14, <2>15, <2>16, <2>17, <2>18 DEF Step
<1> QED
  BY <1>3, <1>4, <1>5 DEF Next

-----------------------------------------------------------------------------
(* The theorems.                                                            *)

\* IInv holds in every state.
THEOREM Invariance == Spec => []IInv
<1>1. IInv /\ [Next]_vars => IInv'
  BY TypeStep, OpStep, LockStep, FlightStep, MadeStep, RetStep, AgentStep DEF IInv
<1> QED
  BY <1>1, InitLemma, PTL DEF Spec

\* Every variable keeps its type.
THEOREM TypeCorrect == Spec => []TypeOK
<1> DEFINE U == useGoZero \in [Configs -> BOOLEAN]
<1>1. Init => U
  BY DEF Init
<1>2. ASSUME IInv, U, [Next]_vars PROVE U'
  <2>1. CASE useGoZero' = useGoZero
    BY <1>2, <2>1, Zenon
  <2>2. ASSUME NEW h, NEW b \in BOOLEAN, useGoZero' = [useGoZero EXCEPT ![h] = b] PROVE U'
    BY <1>2, <2>2, Zenon
  <2>3. ASSUME NEW c \in Callers, Call(c) \/ MustNewServer(c) \/ Step(c) PROVE U'
    <3>1. CASE GoZeroMiddleware(c)
      BY <2>1, <2>2, <3>1 DEF GoZeroMiddleware
    <3>2. CASE StopAgent(c)
      BY <2>2, <3>2 DEF StopAgent
    <3> QED
      BY <2>1, <2>3, <3>1, <3>2 DEF Step, Call, InitCheck, InitConfig, SetLock, SetStore, InitOnce,
         InitProvider, InitCreate, InitLand, InitWrite, GetCheck, GetLoad, InitAgent, MustNewServer,
         StopShutdown, StopDelete, otel
  <2> QED
    BY <1>2, <2>1, <2>3 DEF Next, MapRace, vars, otel
<1>3. IInv /\ U => TypeOK
  BY Zenon DEF IInv, Types, TypeOK
<1> QED
  BY <1>1, <1>2, <1>3, Invariance, PTL DEF Spec

\* initTraceProvider makes at most one provider for an endpoint, however InitTrace,
\* Stop and go-zero's agents interleave (singleton.Once, SDKTracerProvider).
THEOREM CreatedOnceTheorem == Spec => []CreatedOnce
<1>1. IInv => CreatedOnce
  BY DEF IInv
<1> QED
  BY <1>1, Invariance, PTL

\* An InitTrace without an error returns a provider: its final (nil, nil) is dead.
THEOREM ProviderTheorem == Spec => []ProviderReturned
<1>1. IInv => ProviderReturned
  BY DEF IInv, RetInv, ProviderReturned, InitNames
<1> QED
  BY <1>1, Invariance, PTL

\* GetTraceConfig never asserts the type of an atomic.Value without a value, although
\* it tests globalTraceConfig for nil outside the lock.
THEOREM NeverLoadsEmptyTheorem == Spec => []NeverLoadsEmpty
<1>1. IInv => NeverLoadsEmpty
  BY DEF IInv, LockInv, NeverLoadsEmpty
<1> QED
  BY <1>1, Invariance, PTL

\* rest.MustNewServer leaves otel's provider alone after an InitGoZeroTracing that
\* filled the service's Telemetry, whatever ran in between.
THEOREM NotPreemptedTheorem == Spec => NotPreempted
<1>1. ASSUME IInv, [Next]_vars
      PROVE  [\A c \in Callers : telemetry[c] # NoOne /\ MustNewServer(c) => global' = global]_vars
  <2>1. ASSUME NEW c \in Callers, telemetry[c] # NoOne, MustNewServer(c) PROVE global' = global
    <3>1. StartAgent(telemetry[c]) /\ telemetry[c] \in agents
      BY <1>1, <2>1 DEF IInv, AgentInv, MustNewServer, at
    <3> QED
      BY <3>1 DEF StartAgent
  <2> QED
    BY <2>1
<1> QED
  BY <1>1, Invariance, PTL DEF Spec, NotPreempted
==============================================================================
