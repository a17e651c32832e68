--------------------------- MODULE SerialBroadcast ---------------------------
(***************************************************************************)
(* What the pub/sub server promises its clients, without goroutines, locks, *)
(* windows or requests: messages are broadcast one at a time, each at most  *)
(* once, to everybody who is a member of its key when the broadcast begins; *)
(* nobody joins or leaves during a broadcast, and it is not over before     *)
(* every member that is still connected has the message.                    *)
(***************************************************************************)
EXTENDS Sequences

CONSTANTS Streams, Msgs, Keys,
          KeyOf            \* the key of each message

VARIABLES
  members,   \* streams registered for each key
  begun,     \* messages whose broadcast has begun
  active,    \* the message being broadcast, if any, in a set
  due,       \* streams it is still owed to
  up,        \* connected streams
  out        \* what each stream was given

bvars == <<members, begun, active, due, up, out>>

nobody == [k \in Keys |-> {}]

BInit ==
  /\ members = nobody
  /\ begun = {} /\ active = {} /\ due = {} /\ up = {}
  /\ out = [s \in Streams |-> << >>]

Connect(s) ==
  /\ s \notin up /\ up' = up \cup {s}
  /\ UNCHANGED <<members, begun, active, due, out>>

Lose(S) ==
  /\ up' = up \ S
  /\ UNCHANGED <<members, begun, active, due, out>>

Register(s, k) ==
  /\ active = {}
  /\ members' = [members EXCEPT ![k] = @ \cup {s}]
  /\ UNCHANGED <<begun, active, due, up, out>>

Leave(s) ==
  /\ active = {} /\ s \notin up
  /\ members' = [k \in Keys |-> members[k] \ {s}]
  /\ UNCHANGED <<begun, active, due, up, out>>

Begin(m) ==
  /\ active = {} /\ m \notin begun
  /\ begun' = begun \cup {m}
  /\ active' = {m}
  /\ due' = members[KeyOf[m]]
  /\ UNCHANGED <<members, up, out>>

\* A stream registered twice for the key is given the message twice.
Give(m, s) ==
  /\ m \in active /\ s \in due \cap up
  /\ out' = [out EXCEPT ![s] = Append(@, m)]
  /\ due' \in {due, due \ {s}}
  /\ UNCHANGED <<members, begun, active, up>>

Skip(s) ==
  /\ s \in due \ up
  /\ due' = due \ {s}
  /\ UNCHANGED <<members, begun, active, up, out>>

Finish ==
  /\ active # {} /\ due = {}
  /\ active' = {}
  /\ UNCHANGED <<members, begun, due, up, out>>

\* The server process starts, or dies and takes every connection with it.
Restart ==
  /\ up' \in {up, {}} /\ due \cap up' = {}
  /\ members' = nobody /\ active' = {} /\ due' = {}
  /\ UNCHANGED <<begun, out>>

BNext ==
  \/ Restart \/ Finish
  \/ \E S \in SUBSET Streams : Lose(S)
  \/ \E s \in Streams : Connect(s) \/ Leave(s) \/ Skip(s)
  \/ \E s \in Streams, k \in Keys : Register(s, k)
  \/ \E m \in Msgs : Begin(m) \/ \E s \in Streams : Give(m, s)

BSpec == BInit /\ [][BNext]_bvars
=============================================================================
