--------------------------- MODULE MCConsulWatch ----------------------------
(* Instances of ConsulWatch for TLC. *)
EXTENDS ConsulWatch, TLC

CONSTANTS a, b, p, q

\* The callback of a starts the watch of b, which is in another shard.
MCShardOf == (a :> 1) @@ (b :> 2)
MCChild == (a :> b) @@ (b :> NoKey)

\* Both calls watch a.
MCKeyOf == [c \in Callers |-> a]
MCGets == {<<a, "stale">>}
MCOptOf == [c \in Callers |-> IF c = p THEN "nil" ELSE "consistent"]
=============================================================================
