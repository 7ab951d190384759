---------------------------- MODULE SelectServer ----------------------------
(***************************************************************************)
(* tcp_server_select.cpp: one process, a table of descriptors, and a loop  *)
(* around select that accepts first and then serves the slots in order.    *)
(***************************************************************************)
EXTENDS EchoClients, FiniteSetsExt

CONSTANT FdSize  \* FD_SIZE, the slots of the table

ASSUME TableAssumption == FdSize \in Nat /\ FdSize > FdLimit

VARIABLES
  accept_fds,  \* the table
  max_pos,     \* the slots below are looked at
  fd_sets      \* what select reported and the loop has not come to

selectVars == <<accept_fds, max_pos, fd_sets>>

Server == 1

SelectInit ==
  /\ accept_fds = [i \in 1..FdSize |-> NoConn]
  /\ max_pos = 0
  /\ fd_sets = {}

InSet(i) == accept_fds[i] \in fd_sets

(* A bug: the listening socket is put into the set before the loop only.   *)
ReadyListensOnce ==
  {c \in {accept_fds[i] : i \in 1..max_pos} \ {NoConn} : Readable(c)}
    \cup (IF backlog # <<>> /\ max_pos = 0 THEN {Listen} ELSE {})

(* A bug: the last slot is not put into the set.                           *)
ReadyOffByOne ==
  {c \in {accept_fds[i] : i \in 1..(max_pos - 1)} \ {NoConn} : Readable(c)}
    \cup (IF backlog # <<>> THEN {Listen} ELSE {})

(* What select reports of the sockets in the set.                          *)
Ready ==
  {c \in {accept_fds[i] : i \in 1..max_pos} \ {NoConn} : Readable(c)}
    \cup (IF backlog # <<>> THEN {Listen} ELSE {})

(* The loop has come to its end, and select returns.                       *)
Select ==
  /\ Server \in Alive
  /\ Listen \notin fd_sets /\ ~ \E i \in 1..max_pos : InSet(i)
  /\ Ready # {} /\ fd_sets' = Ready
  /\ UNCHANGED <<users, backlog, wires, edge, procs, accept_fds, max_pos>>

(* A bug: max_pos is the new slot instead of the one behind it.            *)
MaxPosOffByOne(curpos) == Max({curpos - 1, max_pos})

MaxPosWith(curpos) == Max({curpos, max_pos})

(* The lowest free slot takes what accept returns: a connection, or -1     *)
(* when the process has no descriptor left.                                *)
SelectAccept ==
  /\ Listen \in fd_sets /\ Server \in Alive
  /\ fd_sets' = fd_sets \ {Listen}
  /\ LET curpos == Min({i \in 1..FdSize : accept_fds[i] = NoConn}) IN
     /\ max_pos' = MaxPosWith(curpos)
     /\ \/ /\ HasRoom(Server)
           /\ accept_fds' = [accept_fds EXCEPT ![curpos] = Head(backlog)]
           /\ fds' = [fds EXCEPT ![Server] = @ \cup {Head(backlog)}]
           /\ backlog' = Tail(backlog)
        \/ ~HasRoom(Server) /\ UNCHANGED <<accept_fds, fds, backlog>>
  /\ UNCHANGED <<users, wires, edge, role>>

(* One pass of the loop over the table: a line goes back, the end of the   *)
(* stream frees the slot, and after a reset the send ends the process.     *)
SelectServe(i) ==
  /\ Server \in Alive /\ Listen \notin fd_sets
  /\ InSet(i) /\ ~ \E j \in 1..(i - 1) : InSet(j)
  /\ fd_sets' = fd_sets \ {accept_fds[i]}
  /\ LET c == accept_fds[i] IN
     \/ Echo(c) /\ UNCHANGED <<accept_fds, backlog>>
     \/ /\ AtEnd(c)
        /\ fds' = [fds EXCEPT ![Server] = @ \ {c}]
        /\ accept_fds' = [accept_fds EXCEPT ![i] = NoConn]
        /\ UNCHANGED <<role, wires, backlog>>
     \/ /\ AtReset(c)
        /\ Die(Server)
        /\ backlog' = <<>>
        /\ UNCHANGED <<wires, accept_fds>>
  /\ UNCHANGED <<users, edge, max_pos>>

SelectStep == Select \/ SelectAccept \/ \E i \in 1..max_pos : SelectServe(i)
=============================================================================
