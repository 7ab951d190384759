---------------------------- MODULE MCChatServer ----------------------------
(* Three connections, so that one can go while the second speaks and the   *)
(* third is announced, and a buffer small enough to fill up.               *)
EXTENDS ChatServer, TLC

CONSTANTS ann, bob, eve

MCConns == {ann, bob, eve}
MCTalkers == {ann, bob}
MCSlow == {eve}
Symmetry == Permutations(MCTalkers) \cup Permutations(MCConns \ MCTalkers)
=============================================================================
