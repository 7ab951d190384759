---------------------------- MODULE EchoServers ----------------------------
(***************************************************************************)
(* The clients with whichever of the three servers listens on port 8111.   *)
(***************************************************************************)
EXTENDS SelectServer, EpollServer, ForkServer

vars == <<users, backlog, wires, edge, procs, selectVars, events>>

Init ==
  /\ ClientsInit /\ SelectInit /\ EpollInit
  /\ program \in DOMAIN Callers
  /\ role = [p \in Procs |->
       CASE program = "select" -> IF p = Server THEN "run" ELSE "unborn"
         [] program = "epoll" -> IF p \in Workers THEN "run" ELSE "unborn"
         [] program = "fork" -> IF p = Server THEN "accept" ELSE "unborn"]

ServerStep(p) ==
  \/ program = "select" /\ p = Server /\ SelectStep /\ UNCHANGED events
  \/ program = "epoll" /\ EpollStep(p) /\ UNCHANGED selectVars
  \/ program = "fork" /\ ForkStep(p) /\ UNCHANGED <<selectVars, events>>

Next ==
  \/ \E c \in Conns : ClientStep(c) /\ UNCHANGED <<selectVars, events>>
  \/ \E p \in Procs : ServerStep(p)

(* A process that can run does; a client that can read does, and one whose *)
(* server is gone notices.  Nobody has to connect, type or leave.          *)
Fairness ==
  /\ \A p \in Procs : WF_vars(ServerStep(p))
  /\ \A c \in Conns :
       WF_vars((Receive(c) \/ GiveUp(c)) /\ UNCHANGED <<selectVars, events>>)

Spec == Init /\ [][Next]_vars /\ Fairness

-----------------------------------------------------------------------------
(* Who reads from a connection.                                            *)
Readers(c) ==
  CASE program = "select" -> {i \in 1..max_pos : accept_fds[i] = c}
    [] program = "epoll" -> {p \in Alive : c \in fds[p]}
    [] program = "fork" -> {p \in Procs : role[p] = c}

Service == INSTANCE EchoService WITH
  visitor <- [c \in Conns |->
    CASE client[c] = "new" -> "out" [] client[c] = "gone" -> "gone" [] OTHER -> "in"],
  said <- sent,
  heard <- got,
  fragile <- program = "select",
  up <- Alive # {}

(* Every line comes back once, in order, to the client that sent it, and   *)
(* only the select server can be brought down, by a client that leaves     *)
(* with an echo unread (SIGPIPE at tcp_server_select.cpp:157).             *)
ImplementsEcho == Service!Spec

(* No connection has two readers, and none that is open is without one -   *)
(* unless fork has failed; slots name open descriptors; and an edge that   *)
(* epoll_wait has returned is not lost on what arrived behind the line the *)
(* server read (tcp_server_epoll.cpp:123).                                 *)
Attended ==
  \A c \in Conns :
    /\ Cardinality(Readers(c)) <= 1
    /\ Accepted(c) /\ link[c] = "open" => Readers(c) # {} \/ (program = "fork" /\ Unborn = {})
    /\ program = "select" /\ Server \in Alive => (Accepted(c) <=> Readers(c) # {})
    /\ program = "epoll" /\ Accepted(c) /\ Readable(c) =>
         c \in edge \/ \E p \in Alive : c \in events[p]

(* A client that waits for its echo and has a reader does not wait for     *)
(* ever, whatever other clients do: no slot, event or process of another   *)
(* connection holds it up (tcp_server_select.cpp:142).                     *)
Answered ==
  \A c \in Conns : client[c] = "waiting" /\ Readers(c) # {} ~> client[c] # "waiting"

(* A connection waits for accept only while no process that accepts has a  *)
(* descriptor left (tcp_server_select.cpp:127, tcp_server.cpp:53).         *)
Exhausted == \A p \in Alive : role[p] \in {"run", "accept"} => ~HasRoom(p)
Admitted ==
  (<>[]Exhausted) \/ \A c \in Conns : Contains(backlog, c) ~> ~Contains(backlog, c)

(* A client that closed its end orderly does not cost the select and the   *)
(* epoll server a descriptor for ever.                                     *)
Released ==
  \A c \in Conns :
    program # "fork" /\ link[c] = "fin" /\ Accepted(c) ~> ~Accepted(c)
=============================================================================
