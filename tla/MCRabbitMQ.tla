----------------------------- MODULE MCRabbitMQ -----------------------------
(* Instances of RabbitMQ for TLC. *)
EXTENDS RabbitMQ, TLC

CONSTANTS m1, m2, k1, k2, k3, k4

Symmetry == Permutations(Msgs) \cup Permutations(Chans)
=============================================================================
