--------------------------- MODULE MCGrpcChannel ----------------------------
(* Instances of GrpcChannel for TLC. *)
EXTENDS GrpcChannel, TLC

CONSTANTS s1, s2, m1, m2, c1, c2, h1, h2

MCTopics == {<<"test">>}
MCTopicOf == [h \in Handlers |-> <<"test">>]

\* Both handlers on one Channel.
OneNamespaces == {<<"order">>}
OneDest == [m \in Msgs |-> [namespace |-> <<"order">>, topic |-> <<"test">>]]
OneNamespace == [c \in Channels |-> <<"order">>]
OneChannel == [x \in Msgs \cup Handlers |-> c1]

\* Each on a Channel of its own, whose Namespace is the default, written out
\* in one of them only.
TwoNamespaces == {<< >>, <<"default">>}
TwoDest == [m \in Msgs |-> [namespace |-> << >>, topic |-> <<"test">>]]
TwoNamespace == [c \in Channels |-> IF c = c1 THEN << >> ELSE <<"default">>]
TwoChannels == [x \in Msgs \cup Handlers |-> IF x = h2 THEN c2 ELSE c1]

\* Streams are interchangeable, and so are messages (one Channel, one address).
Symmetry == Permutations(Streams) \cup Permutations(Msgs)
=============================================================================
