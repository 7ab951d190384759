---------------------------- MODULE EpollServer ----------------------------
(***************************************************************************)
(* tcp_server_epoll.cpp: the processes forked at the start share the       *)
(* listening socket, which does not block and is level-triggered; the      *)
(* connections of a process are edge-triggered and read once per event.    *)
(***************************************************************************)
EXTENDS EchoClients

CONSTANT Workers  \* MAX_PROCESS - 1 processes

ASSUME WorkersAssumption == Workers \subseteq Procs /\ Workers # {}

VARIABLE events  \* what epoll_wait returned to a process and is not handled

EpollInit == events = [p \in Procs |-> {}]

(* epoll_wait returns each event once; one whose reason is gone is dropped.*)
EpollWait(w) ==
  /\ events[w] = {}
  /\ LET ready == {c \in edge \cap fds[w] : Readable(c)}
                  \cup (IF backlog # <<>> THEN {Listen} ELSE {}) IN
     /\ ready # {}
     /\ events' = [events EXCEPT ![w] = ready]
  /\ edge' = edge \ fds[w]
  /\ UNCHANGED <<users, backlog, wires, procs>>

(* Whoever comes first gets the connection; registering it reports what    *)
(* has arrived already.  For the others, and for a process without a free  *)
(* descriptor, accept returns -1, which epoll_ctl refuses.                 *)
EpollAccept(w) ==
  /\ Listen \in events[w]
  /\ events' = [events EXCEPT ![w] = @ \ {Listen}]
  /\ \/ /\ backlog # <<>> /\ HasRoom(w)
        /\ fds' = [fds EXCEPT ![w] = @ \cup {Head(backlog)}]
        /\ edge' = IF Readable(Head(backlog)) THEN edge \cup {Head(backlog)} ELSE edge
        /\ backlog' = Tail(backlog)
     \/ /\ backlog = <<>> \/ ~HasRoom(w)
        /\ UNCHANGED <<fds, edge, backlog>>
  /\ UNCHANGED <<users, wires, role>>

(* A bug: the end of the stream is passed over like an error.              *)
EndPassedOver(w, c) == AtEnd(c) /\ UNCHANGED <<wires, edge, procs>>

ReadEnd(w, c) ==
  /\ AtEnd(c)
  /\ fds' = [fds EXCEPT ![w] = @ \ {c}]
  /\ edge' = edge \ {c}
  /\ UNCHANGED <<role, wires>>

(* A bug: the buffer is sent whatever recv has returned.                   *)
ErrorAnswered(w, c) == AtReset(c) /\ Die(w) /\ UNCHANGED <<wires, edge>>

(* An error is passed over, and the descriptor stays open.                 *)
ReadError(w, c) ==
  /\ AtReset(c)
  /\ link' = [link EXCEPT ![c] = "dead"]
  /\ UNCHANGED <<toServer, toClient, edge, procs>>

(* One recv for an event.  A client that has closed answers the echo,      *)
(* which is a new event.                                                   *)
EpollRead(w, c) ==
  /\ c \in events[w]
  /\ events' = [events EXCEPT ![w] = @ \ {c}]
  /\ \/ Echo(c) /\ edge' = IF link[c] = "fin" THEN edge \cup {c} ELSE edge
     \/ ReadEnd(w, c)
     \/ ReadError(w, c)
  /\ UNCHANGED <<users, backlog>>

EpollStep(w) ==
  /\ w \in Alive
  /\ EpollWait(w) \/ EpollAccept(w) \/ \E c \in Conns : EpollRead(w, c)
=============================================================================
