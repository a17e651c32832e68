--------------------------- MODULE MCPubSubServer ---------------------------
(* Instances of PubSubServer for TLC. *)
EXTENDS PubSubServer, TLC

CONSTANTS s1, s2, m1, m2

MCTopics == {<<"t">>}

dest(n1, n2) == (m1 :> [namespace |-> n1, topic |-> <<"t">>]) @@
                (m2 :> [namespace |-> n2, topic |-> <<"t">>])

\* Two namespaces, one of them by default, with a topic of the same name.
TwoNamespaces == {<< >>, <<"b">>}
TwoDest == dest(<< >>, <<"b">>)

Symmetry == Permutations(Streams)
=============================================================================
