------------------------------ MODULE MCTracer ------------------------------
(* Instances of Tracer for TLC. *)
EXTENDS Tracer, TLC

CONSTANTS p, q, r, a, b, x

MCEndpoint == (a :> "e1") @@ (b :> "e1") @@ (x :> "e2")

calls(names, h) == [name : names, hc : {h}]

\* Calls with one config, with another of its endpoint that lacks the
\* ServiceName, and with one of another endpoint.
MCOps == (p :> calls({"InitTrace", "InitGoZeroTracing", "Stop"}, a))
      @@ (q :> calls({"InitTrace", "GetTraceConfig", "Stop"}, a) \cup calls({"InitGoZeroTracing"}, b))
      @@ (r :> calls({"InitTrace", "SetTraceConfig"}, x) \cup calls({"GoZeroMiddleware", "Stop"}, a))
=============================================================================
