--------------------------- MODULE MCRabbitClient ---------------------------
(* Instances of RabbitClient for TLC. *)
EXTENDS RabbitClient

CONSTANTS c1, c2, m1, m2
=============================================================================
