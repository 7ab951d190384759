---------------------------- MODULE EchoClients ----------------------------
(***************************************************************************)
(* The clients of the echo servers (tcp_cline.cpp), the TCP connections    *)
(* between them and a server, and the descriptors of the server's          *)
(* processes.  All three servers listen on port 8111, so one of them runs. *)
(* A client has one line on its way at a time: a direction of a connection *)
(* holds at most one, known by its number.                                 *)
(***************************************************************************)
EXTENDS Integers, Sequences, FiniteSets, SequencesExt

CONSTANTS
  Conns,     \* connections, each made once by a client
  NoConn,    \* a slot without a connection
  Callers,   \* bound: the connections that are made, for each program
  Listen,    \* the listening socket, among what is ready
  MaxLines,  \* bound: lines of a client, "quit" included
  MaxProcs,  \* bound: processes the system allows
  FdLimit    \* bound: connections a process may hold open

ASSUME EchoSizes == MaxLines \in Nat /\ MaxProcs \in Nat \ {0} /\ FdLimit \in Nat \ {0}
ASSUME EchoConns ==
  /\ IsFiniteSet(Conns) /\ NoConn \notin Conns /\ Listen \notin Conns
  /\ Conns \cap {"unborn", "run", "accept", "spin", "dead"} = {}
ASSUME EchoCallers ==
  /\ DOMAIN Callers \subseteq {"select", "epoll", "fork"}
  /\ \A name \in DOMAIN Callers : Callers[name] \subseteq Conns

Procs == 1..MaxProcs

VARIABLES
  program,   \* the server that was started: "select", "epoll" or "fork"
  client,    \* "new", "typing", "waiting" for an echo, "closing" or "gone"
  sent,      \* the last line a client sent
  got,       \* the last line that came back to it
  backlog,   \* established connections that wait for accept
  toServer,  \* the line the server has not read, 0: none
  toClient,  \* the echo the client has not read, 0: none
  link,      \* what the server's end knows: "open", "fin", "rst", "dead" (rst was reported)
  edge,      \* connections with an event epoll_wait has not returned
  role,      \* what a process does: "unborn", "run", "accept", "spin", "dead" or a connection
  fds        \* the connections each process holds open

users == <<program, client, sent, got>>
wires == <<toServer, toClient, link>>
procs == <<role, fds>>

Alive == {p \in Procs : role[p] \notin {"unborn", "dead"}}
Accepted(c) == \E p \in Alive : c \in fds[p]
Connected(c) == Accepted(c) \/ Contains(backlog, c)
Readable(c) == toServer[c] # 0 \/ link[c] \in {"fin", "rst"}
HasRoom(p) == Cardinality(fds[p]) < FdLimit

(* The kernel tells the epoll instance that a connection is registered in. *)
Notify(c) ==
  edge' = IF program = "epoll" /\ Accepted(c) THEN edge \cup {c} ELSE edge

ClientsInit ==
  /\ client = [c \in Conns |-> "new"]
  /\ sent = [c \in Conns |-> 0]
  /\ got = [c \in Conns |-> 0]
  /\ backlog = <<>>
  /\ toServer = [c \in Conns |-> 0]
  /\ toClient = [c \in Conns |-> 0]
  /\ link = [c \in Conns |-> "open"]
  /\ edge = {}
  /\ fds = [p \in Procs |-> {}]

-----------------------------------------------------------------------------
(* The client program.                                                     *)

Connect(c) ==
  /\ client[c] = "new" /\ c \in Callers[program] /\ Alive # {}
  /\ client' = [client EXCEPT ![c] = "typing"]
  /\ backlog' = Append(backlog, c)
  /\ UNCHANGED <<program, sent, got, wires, edge, procs>>

(* fgets and send; after "quit" the client does not wait for the echo.     *)
SendLine(c) ==
  /\ client[c] = "typing" /\ Connected(c) /\ sent[c] < MaxLines
  /\ sent' = [sent EXCEPT ![c] = @ + 1]
  /\ toServer' = [toServer EXCEPT ![c] = sent[c] + 1]
  /\ \E next \in {"waiting", "closing"} : client' = [client EXCEPT ![c] = next]
  /\ Notify(c)
  /\ UNCHANGED <<program, got, backlog, toClient, link, procs>>

Receive(c) ==
  /\ client[c] = "waiting" /\ toClient[c] # 0
  /\ got' = [got EXCEPT ![c] = toClient[c]]
  /\ toClient' = [toClient EXCEPT ![c] = 0]
  /\ client' = [client EXCEPT ![c] = "typing"]
  /\ UNCHANGED <<program, sent, backlog, toServer, link, edge, procs>>

(* close: after "quit", at the end of the input, when the server's end is  *)
(* gone, or because the process is killed.  With an echo unread the kernel *)
(* sends a reset, otherwise the end of the stream.                         *)
Close(c) ==
  /\ client[c] \in {"typing", "waiting", "closing"}
  /\ client' = [client EXCEPT ![c] = "gone"]
  /\ link' = [link EXCEPT ![c] = IF toClient[c] # 0 THEN "rst" ELSE "fin"]
  /\ toClient' = [toClient EXCEPT ![c] = 0]
  /\ Notify(c)
  /\ UNCHANGED <<program, sent, got, backlog, toServer, procs>>

(* recv returns 0 or -1: the server is gone.                               *)
GiveUp(c) == ~Connected(c) /\ toClient[c] = 0 /\ Close(c)

ClientStep(c) == Connect(c) \/ SendLine(c) \/ Receive(c) \/ Close(c)

-----------------------------------------------------------------------------
(* What the loops of all three servers do with a connection.               *)

(* recv returns a line, which is sent back.  A client that has closed      *)
(* answers with a reset; recv goes on to report the end of the stream.     *)
Echo(c) ==
  /\ toServer[c] # 0
  /\ toServer' = [toServer EXCEPT ![c] = 0]
  /\ toClient' = IF link[c] = "open" THEN [toClient EXCEPT ![c] = toServer[c]] ELSE toClient
  /\ UNCHANGED <<link, procs>>

AtEnd(c) == toServer[c] = 0 /\ link[c] = "fin"    \* recv returns 0
AtReset(c) == toServer[c] = 0 /\ link[c] = "rst"  \* recv returns -1

(* send on a connection that was reset raises SIGPIPE.                     *)
Die(p) ==
  /\ role' = [role EXCEPT ![p] = "dead"]
  /\ fds' = [fds EXCEPT ![p] = {}]
=============================================================================
