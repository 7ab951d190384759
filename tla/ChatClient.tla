----------------------------- MODULE ChatClient -----------------------------
(***************************************************************************)
(* The chat client of src/ChatRoom/Client.cpp: a child process that copies *)
(* the lines of the user into a pipe, and a parent that waits for edge-    *)
(* triggered events of the pipe and of the socket.  A handler of an event  *)
(* is one action; what the child and the server do comes in between.       *)
(***************************************************************************)
EXTENDS Integers, Sequences, SequencesExt

CONSTANTS
  MaxLines,   \* bound: lines the user types before exit
  MaxBlocks,  \* bound: messages the server sends
  Window      \* blocks that fit into the buffers of the two ends

ASSUME BoundsAssumption ==
  MaxLines \in Nat /\ MaxBlocks \in Nat /\ Window \in Nat \ {0}

Sources == {"socket", "pipe"}

VARIABLES
  child,         \* "reads", or "gone" (a zombie until the parent waits for it)
  typed,         \* the number of the last line
  exit,          \* "no", or how the child left: behind a text, alone
  pipe,          \* the lines in the pipe
  parent,        \* "loop", "waitpid", "gone" or "killed"
  isClientWork,  \* the parent's
  pid_,          \* the parent's: "child", or "none" (-1)
  open,          \* the parent has its ends of pipe and socket
  edges, batch,  \* events that epoll holds, and the rest of a batch it returned
  inbox,         \* blocks of the server that have not been read
  sends,         \* how many the server has sent
  serverEnd,     \* "up", "closed", "aborted" with blocks unread, or "reset"
                 \* when the parent has run into what its end has answered
  outbox,        \* the blocks that have reached the server
  unread,        \* how many of them it has not read yet
  refused        \* the lines that send has not taken while it was up (history)

users == <<child, typed, exit>>
delivery == <<outbox, unread, refused>>
clientVars == <<users, pipe, parent, isClientWork, pid_, open, edges, batch, inbox, sends,
                serverEnd, delivery>>

ClientInit ==
  /\ child = "reads" /\ typed = 0 /\ exit = "no"
  /\ pipe = <<>>
  /\ parent = "loop" /\ isClientWork = TRUE /\ pid_ = "child" /\ open = TRUE
  /\ edges = {} /\ batch = {}
  /\ inbox = 0 /\ sends = 0 /\ serverEnd = "up"
  /\ outbox = <<>> /\ unread = 0 /\ refused = {}

Edge(e) == edges' = IF open THEN edges \cup {e} ELSE edges

-----------------------------------------------------------------------------
(* The child.  Without a reader at the other end, write kills it. *)
TypeText ==
  /\ child = "reads" /\ typed < MaxLines
  /\ typed' = typed + 1
  /\ IF open THEN pipe' = Append(pipe, typed') /\ UNCHANGED child
             ELSE child' = "gone" /\ UNCHANGED pipe
  /\ Edge("pipe")
  /\ UNCHANGED <<exit, parent, isClientWork, pid_, open, batch, inbox, sends,
                 serverEnd, delivery>>

(* The user types exit, or stdin ends and the child dies of a write of     *)
(* strlen - 1 bytes.  Either way the pipe has lost its last writer.        *)
Leave ==
  /\ child = "reads"
  /\ child' = "gone"
  /\ exit' = IF pipe = <<>> THEN "alone" ELSE "behind"
  /\ Edge("pipe")
  /\ UNCHANGED <<typed, pipe, parent, isClientWork, pid_, open, batch, inbox, sends,
                 serverEnd, delivery>>

(* The server. *)
ServerSends ==
  /\ serverEnd = "up" /\ sends < MaxBlocks
  /\ sends' = sends + 1
  /\ inbox' = inbox + 1
  /\ Edge("socket")
  /\ UNCHANGED <<users, pipe, parent, isClientWork, pid_, open, batch, serverEnd, delivery>>

ServerReads ==
  /\ serverEnd = "up" /\ unread > 0
  /\ unread' = unread - 1
  /\ UNCHANGED <<users, pipe, parent, isClientWork, pid_, open, edges, batch, inbox, sends,
                 serverEnd, outbox, refused>>

(* A socket that is closed before everything is read resets the connection.*)
ServerCloses ==
  /\ serverEnd = "up"
  /\ serverEnd' = IF unread = 0 THEN "closed" ELSE "aborted"
  /\ Edge("socket")
  /\ UNCHANGED <<users, pipe, parent, isClientWork, pid_, open, batch, inbox, sends, delivery>>

-----------------------------------------------------------------------------
(* The parent. *)
SourceReadable(e) ==
  IF e = "socket" THEN inbox > 0 \/ serverEnd # "up" ELSE pipe # <<>> \/ child = "gone"

(* A bug: there is room for one event only, and the other is dropped. *)
ParentWaitsOne ==
  /\ parent = "loop" /\ isClientWork /\ batch = {} /\ edges # {}
  /\ \E e \in edges : batch' = {e} /\ SourceReadable(e)
  /\ edges' = {}
  /\ UNCHANGED <<users, pipe, parent, isClientWork, pid_, open, inbox, sends,
                 serverEnd, delivery>>

ParentWaits ==
  /\ parent = "loop" /\ isClientWork /\ batch = {} /\ edges # {}
  /\ batch' = {e \in edges : SourceReadable(e)}
  /\ edges' = {}
  /\ UNCHANGED <<users, pipe, parent, isClientWork, pid_, open, inbox, sends,
                 serverEnd, delivery>>

(* Close() while there is a child: both descriptors are closed, and the    *)
(* parent waits for the child to end.                                      *)
CloseAndWait ==
  /\ open' = FALSE /\ edges' = {}
  /\ isClientWork' = FALSE
  /\ parent' = "waitpid"

PrintMessage ==
  /\ open /\ inbox > 0
  /\ inbox' = inbox - 1
  /\ UNCHANGED <<parent, isClientWork, open, edges, serverEnd>>

ServerGone ==
  /\ open /\ inbox = 0 /\ serverEnd \in {"closed", "reset"}
  /\ CloseAndWait
  /\ UNCHANGED <<inbox, serverEnd>>

(* recv returns -1: the parent prints an empty message and stays.          *)
ResetRead ==
  /\ open /\ inbox = 0 /\ serverEnd = "aborted"
  /\ serverEnd' = "reset"
  /\ UNCHANGED <<inbox, parent, isClientWork, open, edges>>

SocketEvent ==
  /\ parent = "loop" /\ "socket" \in batch
  /\ batch' = batch \ {"socket"}
  /\ PrintMessage \/ ServerGone \/ ResetRead
  /\ UNCHANGED <<users, pipe, pid_, sends, delivery>>

(* A bug: what a read returns is taken for one line. *)
BlockOfOneLine == <<Head(pipe)>>

(* The lines that one read takes out of the pipe: all of them. *)
Block == pipe

(* send does not wait: with the buffers full it takes nothing, and nobody  *)
(* looks at what it returns.                                               *)
Deliver ==
  IF unread < Window
  THEN /\ outbox' = Append(outbox, Block) /\ unread' = unread + 1
       /\ UNCHANGED refused
  ELSE /\ refused' = refused \cup ToSet(Block)
       /\ UNCHANGED <<outbox, unread>>

(* One block takes what was read to the server.  The first block to a      *)
(* server that has closed is answered with a reset; an end that has been   *)
(* reset reports it once, and the next block raises SIGPIPE.               *)
SendText ==
  /\ open /\ pipe # <<>>
  /\ pipe' = <<>>
  /\ IF serverEnd = "up" THEN Deliver ELSE UNCHANGED delivery
  /\ serverEnd' = IF serverEnd = "up" THEN "up" ELSE "reset"
  /\ IF serverEnd = "reset"
     THEN parent' = "killed" /\ open' = FALSE /\ edges' = {}
     ELSE /\ edges' = IF serverEnd = "closed" THEN edges \cup {"socket"} ELSE edges
          /\ UNCHANGED <<parent, open>>
  /\ UNCHANGED isClientWork

EndOfPipe ==
  /\ open /\ pipe = <<>> /\ child = "gone"
  /\ isClientWork' = FALSE
  /\ UNCHANGED <<pipe, delivery, serverEnd, edges, parent, open>>

(* The event of a pipe that Close has closed in the same batch: read and   *)
(* send fail.                                                              *)
ClosedPipe ==
  /\ ~open
  /\ UNCHANGED <<pipe, delivery, serverEnd, edges, parent, open, isClientWork>>

PipeEvent ==
  /\ parent = "loop" /\ "pipe" \in batch
  /\ batch' = batch \ {"pipe"}
  /\ SendText \/ EndOfPipe \/ ClosedPipe
  /\ UNCHANGED <<users, pid_, inbox, sends>>

(* Behind the loop: Close() again, which does nothing any more when there  *)
(* is no child.                                                            *)
LoopEnds ==
  /\ parent = "loop" /\ ~isClientWork /\ batch = {}
  /\ \/ pid_ = "child" /\ CloseAndWait
     \/ pid_ = "none" /\ parent' = "gone" /\ UNCHANGED <<open, edges, isClientWork>>
  /\ UNCHANGED <<users, pipe, pid_, batch, inbox, sends, serverEnd, delivery>>

(* waitpid returns the child, then -1. *)
Waitpid ==
  /\ parent = "waitpid" /\ child = "gone"
  /\ pid_' = "none"
  /\ parent' = "loop"
  /\ UNCHANGED <<users, pipe, isClientWork, open, edges, batch, inbox, sends,
                 serverEnd, delivery>>

ParentStep == ParentWaits \/ SocketEvent \/ PipeEvent \/ LoopEnds \/ Waitpid

ClientNext == TypeText \/ Leave \/ ServerSends \/ ServerReads \/ ServerCloses \/ ParentStep

ClientSpec == ClientInit /\ [][ClientNext]_clientVars

(* The parent is scheduled; nothing makes the user type or the server act. *)
FairClientSpec == ClientSpec /\ WF_clientVars(ParentStep)

-----------------------------------------------------------------------------
(* What is typed reaches the server in order and no line twice, however    *)
(* the pipe cuts or joins lines.  As long as both are there a line is lost *)
(* only by a send that does not take it (Client.cpp:133), which takes a    *)
(* server that is Window blocks behind.                                    *)
TextsInOrder ==
  LET arrived == FlattenSeq(outbox)
      readOff == typed - Len(pipe)
  IN  /\ \A i, j \in 1..Len(arrived) : i < j => arrived[i] < arrived[j]
      /\ refused # {} => Len(outbox) >= Window
      /\ serverEnd = "up" /\ open =>
           /\ \A i \in 1..Len(pipe) : pipe[i] = readOff + i
           /\ ToSet(arrived) \cup refused = 1..readOff
           /\ ToSet(arrived) \cap refused = {}

(* A user who leaves when everything typed before has been read is noticed *)
(* by the parent, which ends.                                              *)
ExitAloneEnds == (exit = "alone") ~> (parent \in {"gone", "killed"})

(* The client says that input of exit leaves the room (Client.cpp:77).     *)
ExitEnds == (exit # "no") ~> (parent \in {"gone", "killed"})
=============================================================================
