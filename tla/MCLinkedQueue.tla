--------------------------- MODULE MCLinkedQueue ---------------------------
(* Five addresses, so that freed ones come back while others are in use    *)
(* and the list can run empty and be filled again after a node was lost,   *)
(* and two times with two events at one of them, so that a new event goes  *)
(* to either end, between two others or in front of its equals.            *)
EXTENDS LinkedQueue, TLC

CONSTANTS n1, n2, n3, n4, n5

MCNodes == {n1, n2, n3, n4, n5}
MCEvents ==
  {[cur_time |-> 1, event_type |-> -1], [cur_time |-> 2, event_type |-> 0],
   [cur_time |-> 2, event_type |-> -1]}
Symmetry == Permutations(MCNodes)
=============================================================================
