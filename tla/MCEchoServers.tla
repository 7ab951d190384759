--------------------------- MODULE MCEchoServers ---------------------------
(* Three connections for processes that hold two; four processes allow a   *)
(* child that spins, a fork that fails and a child that accepts.           *)
EXTENDS EchoServers

CONSTANTS ann, bob, eve

MCConns == {ann, bob, eve}
MCCallers == [select |-> MCConns, epoll |-> {ann, bob}, fork |-> MCConns]
MCWorkers == {1, 2}
=============================================================================
