------------------------- MODULE MCProducerConsumer -------------------------
(* The program with two producers and two consumers on a pool of three     *)
(* threads, so that tasks queue up in the pool while others sleep.         *)
EXTENDS PooledProducerConsumer

CONSTANTS w1, w2, w3, p1, p2, c1, c2

MCWorkers == {w1, w2, w3}
MCProducers == {p1, p2}
MCConsumers == {c1, c2}
MCSubmissionOrder == <<p1, c1, p2, c2>>
=============================================================================
