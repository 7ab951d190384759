---------------------------- MODULE MCThreadPool ----------------------------
(* The constants of ThreadPool for TLC.  No symmetry is declared: the run   *)
(* checks liveness.                                                         *)
EXTENDS ThreadPool

CONSTANTS w1, w2, w3, c1, c2, t1, t2, t3

MCWorkers == {w1, w2, w3}
MCClients == {c1, c2}
MCTasks == {t1, t2, t3}
=============================================================================
