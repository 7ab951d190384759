----------------------------- MODULE ForkServer -----------------------------
(***************************************************************************)
(* tcp_server.cpp: a process per connection.  The parent keeps its copy of *)
(* every descriptor, a child that is done falls back into the loop around  *)
(* accept, and nobody waits for children: a dead one keeps its number.     *)
(***************************************************************************)
EXTENDS EchoClients

Unborn == {p \in Procs : role[p] = "unborn"}

(* fork: the child has a copy of the parent's descriptors; without a       *)
(* process left it returns -1 and the parent goes on.                      *)
Fork(p, table, job) ==
  \/ /\ Unborn # {}
     /\ LET q == CHOOSE u \in Unborn : \A v \in Unborn : u <= v IN
        /\ role' = [role EXCEPT ![q] = job]
        /\ fds' = [fds EXCEPT ![p] = table, ![q] = table]
  \/ /\ Unborn = {}
     /\ fds' = [fds EXCEPT ![p] = table]
     /\ UNCHANGED role

(* Without a free descriptor accept returns -1 at once, and a child is     *)
(* forked that receives from and sends to -1 for ever.                     *)
ForkAccept(p) ==
  /\ role[p] = "accept"
  /\ \/ /\ HasRoom(p) /\ backlog # <<>>
        /\ Fork(p, fds[p] \cup {Head(backlog)}, Head(backlog))
        /\ backlog' = Tail(backlog)
     \/ /\ ~HasRoom(p)
        /\ Fork(p, fds[p], "spin")
        /\ UNCHANGED backlog
  /\ UNCHANGED <<users, wires, edge>>

(* The child's loop around recv and send.                                  *)
ForkServe(p) ==
  /\ role[p] \in Conns
  /\ LET c == role[p] IN
     \/ Echo(c)
     \/ /\ AtEnd(c)
        /\ role' = [role EXCEPT ![p] = "accept"]
        /\ fds' = [fds EXCEPT ![p] = @ \ {c}]
        /\ UNCHANGED wires
     \/ AtReset(c) /\ Die(p) /\ UNCHANGED wires
  /\ UNCHANGED <<users, backlog, edge>>

ForkStep(p) == ForkAccept(p) \/ ForkServe(p)
=============================================================================
