----------------------------- MODULE ChatServer -----------------------------
(***************************************************************************)
(* The chat server of src/ChatRoom (Server.cpp, Common.hpp) and the TCP    *)
(* connections it serves.  One thread waits in epoll_wait for edge-        *)
(* triggered events and handles a batch of them one after the other.  A    *)
(* handler is one action: peers only add input or hang up while it runs,   *)
(* which they may as well do before or after it.                           *)
(***************************************************************************)
EXTENDS Integers, Sequences, FiniteSets

CONSTANTS
  Conns,     \* connections, each made once by a peer
  NoConn,    \* a descriptor that is not open
  Listen,    \* socketFd_, as the data of an event
  Talkers,   \* the connections whose peers send texts
  Long,      \* those among them whose texts may not fit into message
  MaxTexts,  \* bound: texts each of them sends
  MaxFds,    \* bound: descriptors the process can have for connections
  Slow,      \* the connections whose peers may leave messages unread, or abort
  MaxAway,   \* bound: how many peers hang up
  Capacity,  \* messages that fit into the buffers towards a peer
  Paced      \* TRUE: peers wait until the server is at rest

ASSUME SizesAssumption ==
  /\ MaxTexts \in Nat /\ MaxFds \in Nat /\ MaxAway \in Nat /\ Capacity \in Nat \ {0}
  /\ Paced \in BOOLEAN
ASSUME PeersAssumption == Talkers \subseteq Conns /\ Long \subseteq Talkers /\ Slow \subseteq Conns
ASSUME ConnsAssumption == IsFiniteSet(Conns) /\ NoConn \notin Conns /\ Listen \notin Nat

Fds == 1..MaxFds

VARIABLES
  alive,        \* the server process runs
  limit,        \* the largest descriptor it may have (RLIMIT_NOFILE)
  clientsList,  \* clientsList_, a list of descriptors
  socket,       \* the connection behind each descriptor
  ready,        \* descriptors with an event in the epoll instance
  events,       \* the rest of the batch epoll_wait returned
  backlog,      \* established connections that wait for accept
  input,        \* what a peer sent and the server has not read
  link,         \* what the server's end knows of a peer that hung up
  peer,         \* "new", "up" or "gone"
  sent,         \* how many texts a peer has begun to send
  half,         \* the rest of the last text is still on its way
  heard,        \* what the server has sent to a peer (history)
  read,         \* how much of it the peer has read
  said          \* the last text of a peer that was passed on (history)

server == <<alive, limit, clientsList, socket, events, said>>
peers == <<peer, sent, half, read>>
vars == <<server, ready, backlog, input, link, peers, heard>>

Away == {c \in Conns : peer[c] = "gone"}
FdsOf(c) == {f \in Fds : socket[f] = c}
Open == {f \in Fds : socket[f] # NoConn}
Listed == {clientsList[i] : i \in 1..Len(clientsList)}
Free == {f \in Fds : f <= limit} \ Open
LowestFree == CHOOSE f \in Free : \A g \in Free : f <= g
Unread(c) == IF c \in Slow THEN Len(heard[c]) - read[c] ELSE 0
Full(c) == Unread(c) >= Capacity
Quiet == events = {} /\ ready = {} /\ backlog = <<>>

Welcome(f) == [kind |-> "welcome", id |-> f, text |-> 0]
Joined(f) == [kind |-> "joined", id |-> f, text |-> 0]
Line(f, i) == [kind |-> "line", id |-> f, text |-> i]
CautionLine == [kind |-> "caution", id |-> 0, text |-> 0]

Init ==
  /\ alive = TRUE
  /\ limit \in Fds /\ (Paced => limit = MaxFds)
  /\ clientsList = <<>>
  /\ socket = [f \in Fds |-> NoConn]
  /\ ready = {} /\ events = {}
  /\ backlog = <<>>
  /\ input = [c \in Conns |-> <<>>]
  /\ link = [c \in Conns |-> "open"]
  /\ peer = [c \in Conns |-> "new"]
  /\ sent = [c \in Conns |-> 0]
  /\ half = [c \in Conns |-> FALSE]
  /\ heard = [c \in Conns |-> <<>>]
  /\ read = [c \in Conns |-> 0]
  /\ said = [c \in Conns |-> 0]

-----------------------------------------------------------------------------
(* The peers and the kernel.  A text travels in a block of BUFF_SIZE bytes *)
(* that may arrive in two pieces: its number stands for the piece in which *)
(* the text begins, 0 for the other, zero bytes or the end of the text.    *)
(* What peers do when the server is gone is of no interest.                *)

Connect(c) ==
  /\ alive /\ peer[c] = "new" /\ (Paced => Quiet)
  /\ peer' = [peer EXCEPT ![c] = "up"]
  /\ backlog' = Append(backlog, c)
  /\ ready' = ready \cup {Listen}
  /\ UNCHANGED <<server, input, link, sent, half, read, heard>>

Arrives(c, pieces) ==
  /\ input' = [input EXCEPT ![c] = @ \o pieces]
  /\ ready' = ready \cup FdsOf(c)

Connected(c) == peer[c] = "up" /\ (FdsOf(c) # {} \/ \E i \in 1..Len(backlog) : backlog[i] = c)

Send(c) ==
  /\ alive /\ c \in Talkers /\ Connected(c) /\ ~half[c] /\ sent[c] < MaxTexts
  /\ Paced => Quiet /\ \A d \in Conns : Unread(d) = 0
  /\ sent' = [sent EXCEPT ![c] = @ + 1]
  /\ \/ Arrives(c, <<sent'[c], 0>>) /\ UNCHANGED half
     \/ ~Paced /\ Arrives(c, <<sent'[c]>>) /\ half' = [half EXCEPT ![c] = TRUE]
  /\ UNCHANGED <<server, backlog, link, peer, read, heard>>

SendRest(c) ==
  /\ alive /\ Connected(c) /\ half[c]
  /\ Arrives(c, <<0>>)
  /\ half' = [half EXCEPT ![c] = FALSE]
  /\ UNCHANGED <<server, backlog, link, peer, sent, read, heard>>

Read(c) ==
  /\ alive /\ peer[c] = "up" /\ Unread(c) > 0
  /\ read' = [read EXCEPT ![c] = Len(heard[c])]
  /\ UNCHANGED <<server, ready, backlog, input, link, peer, sent, half, heard>>

(* The peer closes its socket or dies; with unread data that is a reset,   *)
(* and a peer may as well abort the connection.                            *)
HangUp(c) ==
  /\ alive /\ peer[c] = "up" /\ (Paced => Quiet)
  /\ Cardinality(Away) < MaxAway
  /\ peer' = [peer EXCEPT ![c] = "gone"]
  /\ \/ Unread(c) = 0 /\ link' = [link EXCEPT ![c] = "fin"]
     \/ c \in Slow /\ link' = [link EXCEPT ![c] = "rst"]
  /\ ready' = ready \cup FdsOf(c)
  /\ UNCHANGED <<server, backlog, input, sent, half, read, heard>>

-----------------------------------------------------------------------------
(* What send does with a message to connection c.  A peer that closed      *)
(* answers the first one with a reset ("fin" to "broken"); an abrupt reset *)
(* is reported once ("rst"); any send after that raises SIGPIPE, which the *)
(* server does not handle.                                                 *)
Kills(c) == link[c] = "broken"
Fails(c) == link[c] = "rst" \/ (link[c] = "open" /\ Full(c))

Hearing(S, line) ==
  [c \in Conns |-> IF c \in S /\ link[c] = "open" THEN Append(heard[c], line) ELSE heard[c]]

(* The list without the descriptors of S, in the same order (remove).      *)
Without(list, S) ==
  LET kept[n \in 0..Len(list)] ==
        IF n = 0 THEN <<>>
        ELSE IF list[n] \in S THEN kept[n - 1] ELSE Append(kept[n - 1], list[n])
  IN  kept[Len(list)]

(* A bug: the descriptor is closed and stays in the list. *)
CloseForgetsList(sock, list, S) ==
  /\ socket' = [f \in Fds |-> IF f \in S THEN NoConn ELSE sock[f]]
  /\ clientsList' = list

(* close(fd) and remove(fd) for the descriptors of S; epoll forgets them.  *)
Close(sock, list, S) ==
  /\ socket' = [f \in Fds |-> IF f \in S THEN NoConn ELSE sock[f]]
  /\ clientsList' = Without(list, S)

(* SendToAllClient: line goes to every listed descriptor but skip, in the  *)
(* order of the list.  hangups are the connections whose end the handler   *)
(* has run into already, heardBefore is what it has sent already.  A send  *)
(* that fails erases the list node the loop stands on: the process then    *)
(* crashes, or the freed node still leads to the next one.  With a smashed *)
(* stack it crashes before the loop or behind it, or not at all.           *)
SendToAllClient(sock, list, skip, line, heardBefore, hangups, pending, smashed) ==
  LET targets == Without(list, {skip})
      Conn(k) == sock[targets[k]]
      kills == {k \in 1..Len(targets) : Kills(Conn(k))}
      fails == {k \in 1..Len(targets) : Fails(Conn(k))}
      Told(n) == {Conn(k) : k \in (1..n) \ fails}
      resets(n) == {c \in Told(n) : link[c] = "fin"}
      SendUpTo(n) ==
        /\ heard' = [c \in Conns |->
             IF c \in Told(n) /\ link[c] = "open" THEN Append(heardBefore[c], line)
                                                  ELSE heardBefore[c]]
        /\ link' = [c \in Conns |-> IF c \in hangups \cup resets(n) THEN "broken" ELSE link[c]]
  IN  \/ /\ kills = {}
         /\ SendUpTo(Len(targets))
         /\ ready' = (pending \cup {f \in Fds : sock[f] \in resets(Len(targets))})
                       \ {targets[k] : k \in fails}
         /\ Close(sock, list, {targets[k] : k \in fails})
         /\ UNCHANGED alive
      \/ \E k \in kills \cup fails \cup (IF smashed THEN {1, Len(targets) + 1} ELSE {}) :
           /\ \A j \in kills : j >= k
           /\ SendUpTo(k - 1)
           /\ alive' = FALSE
           /\ UNCHANGED <<socket, clientsList, ready>>

-----------------------------------------------------------------------------
(* The server. *)

(* epoll reports a descriptor on which something has happened, if there    *)
(* is still anything to read on it.                                        *)
Readable(f) ==
  IF f = Listen THEN backlog # <<>>
  ELSE socket[f] # NoConn /\ (input[socket[f]] # <<>> \/ link[socket[f]] # "open")

EpollWait ==
  /\ alive /\ events = {} /\ ready # {}
  /\ events' = {f \in ready : Readable(f)}
  /\ ready' = {}
  /\ UNCHANGED <<alive, limit, clientsList, socket, said, backlog, input, link, peers, heard>>

(* A signal ends a wait for nothing (EINTR): the server leaves its loop.   *)
WaitInterrupted ==
  /\ alive /\ ~Paced /\ events = {} /\ ready = {}
  /\ alive' = FALSE
  /\ UNCHANGED <<limit, clientsList, socket, events, said, ready, backlog, input, link,
                 peers, heard>>

(* What is there already when f joins the epoll instance is an event.      *)
AddSocketFdToEpoll(c, f) ==
  ready \cup (IF input[c] # <<>> \/ link[c] # "open" THEN {f} ELSE {})

(* One accept per event; the descriptor is added to epoll and to the list, *)
(* the newcomer is welcomed and announced.                                 *)
Accept ==
  /\ alive /\ Listen \in events /\ backlog # <<>> /\ Free # {}
  /\ LET c == Head(backlog)
         f == LowestFree
     IN  /\ link[c] # "rst"
         /\ SendToAllClient([socket EXCEPT ![f] = c], Append(clientsList, f), f, Joined(f),
              Hearing({c}, Welcome(f)), {d \in {c} : link[d] = "fin"},
              AddSocketFdToEpoll(c, f), FALSE)
  /\ backlog' = Tail(backlog)
  /\ events' = events \ {Listen}
  /\ UNCHANGED <<limit, said, input, peers>>

(* A bug: the result of SendToAllClient, -1 in an empty room, is checked.  *)
AcceptChecksBroadcast ==
  /\ alive /\ Listen \in events /\ backlog # <<>>
  /\ Free = {} \/ link[Head(backlog)] = "rst" \/ clientsList = <<>>
  /\ alive' = FALSE
  /\ events' = events \ {Listen}
  /\ backlog' = IF Free = {} THEN backlog ELSE Tail(backlog)
  /\ UNCHANGED <<limit, clientsList, socket, said, ready, input, link, peers, heard>>

(* The welcome fails, and the server ends with exit(-1): there is no       *)
(* descriptor left and accept has returned -1, or the newcomer is gone.    *)
AcceptFails ==
  /\ alive /\ Listen \in events /\ backlog # <<>>
  /\ Free = {} \/ link[Head(backlog)] = "rst"
  /\ alive' = FALSE
  /\ events' = events \ {Listen}
  /\ backlog' = IF Free = {} THEN backlog ELSE Tail(backlog)
  /\ UNCHANGED <<limit, clientsList, socket, said, ready, input, link, peers, heard>>

(* recv returns 0: the peer has hung up and nothing is left to read. *)
EndOfInput(f) ==
  socket[f] # NoConn /\ input[socket[f]] = <<>> /\ link[socket[f]] \in {"fin", "broken"}

(* A bug: the end of the input is only logged. *)
ClientQuitsLogOnly(f) ==
  /\ EndOfInput(f)
  /\ UNCHANGED <<clientsList, socket, ready, alive, said, input, link, heard>>

ClientQuits(f) ==
  /\ EndOfInput(f)
  /\ Close(socket, clientsList, {f})
  /\ ready' = ready \ {f}
  /\ UNCHANGED <<alive, said, input, link, heard>>

(* What recv hands over otherwise: the text of the first piece, if that    *)
(* has one, and up to two pieces with it; or nothing with an error, which  *)
(* the code takes for an empty message (a reset, or a descriptor that was  *)
(* closed or opened again since epoll_wait).                               *)
Received(f) ==
  IF socket[f] # NoConn /\ input[socket[f]] # <<>> THEN Head(input[socket[f]]) ELSE 0

Consume(f) ==
  input' = [c \in Conns |->
    IF c = socket[f] THEN SubSeq(input[c], 3, Len(input[c])) ELSE input[c]]

(* What fills buff up, or message together with the words before it:       *)
(* sprintf writes beyond the end of message.                               *)
Overlong(f) == socket[f] \in Long /\ input[socket[f]] # <<>>

ResetSeen(f) == socket[f] # NoConn /\ input[socket[f]] = <<>> /\ link[socket[f]] = "rst"

(* The only one in the list: a caution instead of a broadcast. *)
Caution(f) ==
  /\ Len(clientsList) = 1
  /\ Consume(f)
  /\ LET c == socket[f] IN
     \/ c = NoConn /\ UNCHANGED <<alive, ready, link, heard>>
     \/ /\ c # NoConn
        /\ IF ResetSeen(f) \/ Kills(c)
           THEN alive' = FALSE /\ UNCHANGED <<ready, link, heard>>
           ELSE /\ heard' = IF Fails(c) THEN heard ELSE Hearing({c}, CautionLine)
                /\ link' = [link EXCEPT ![c] = IF @ \in {"fin", "rst"} THEN "broken" ELSE @]
                /\ ready' = IF link[c] = "fin" THEN ready \cup {f} ELSE ready
                /\ UNCHANGED alive
  /\ UNCHANGED <<clientsList, socket, said>>

(* A bug: the message comes back to its author. *)
BroadCastEcho(f) ==
  LET text == Received(f) IN
  /\ Len(clientsList) # 1
  /\ Consume(f)
  /\ SendToAllClient(socket, clientsList, 0, Line(f, text), heard,
       {c \in Conns : c = socket[f] /\ ResetSeen(f)}, ready, Overlong(f))
  /\ said' = [c \in Conns |-> IF c = socket[f] /\ text > 0 THEN text ELSE said[c]]

(* A bug: the loop ends after the first of the others. *)
BroadCastToFirst(f) ==
  LET text == Received(f)
      others == Without(clientsList, {f})
      first == IF others = <<>> THEN <<>> ELSE <<Head(others)>>
  IN
  /\ Len(clientsList) # 1
  /\ Consume(f)
  /\ heard' = Hearing({socket[first[k]] : k \in 1..Len(first)}, Line(f, text))
  /\ said' = [c \in Conns |-> IF c = socket[f] /\ text > 0 THEN text ELSE said[c]]
  /\ UNCHANGED <<alive, clientsList, socket, ready, link>>

(* Anything but the end of the input goes to everybody else. *)
BroadCast(f) ==
  LET text == Received(f) IN
  /\ Len(clientsList) # 1
  /\ Consume(f)
  /\ SendToAllClient(socket, clientsList, f, Line(f, text), heard,
       {c \in Conns : c = socket[f] /\ ResetSeen(f)}, ready, Overlong(f))
  /\ said' = [c \in Conns |-> IF c = socket[f] /\ text > 0 THEN text ELSE said[c]]

(* SendBroadCastMessage *)
Receive(f) ==
  /\ alive /\ f \in events
  /\ \/ ClientQuits(f)
     \/ ~EndOfInput(f) /\ (Caution(f) \/ BroadCast(f))
  /\ events' = events \ {f}
  /\ UNCHANGED <<limit, backlog, peers>>

ServerStep == EpollWait \/ Accept \/ AcceptFails \/ \E f \in Fds : Receive(f)

Next ==
  \/ ServerStep \/ WaitInterrupted
  \/ \E c \in Conns : Connect(c) \/ Send(c) \/ SendRest(c) \/ Read(c) \/ HangUp(c)

Spec == Init /\ [][Next]_vars

(* The server runs on while it has something to do, and peers read. *)
FairSpec == Spec /\ WF_vars(ServerStep) /\ \A c \in Conns : WF_vars(Read(c))

-----------------------------------------------------------------------------
(* The list and the descriptor table agree at every return to the loop:    *)
(* who is in the list has an open descriptor, once, and the other way      *)
(* round, also after a batch with events of descriptors that were closed   *)
(* or opened again in the meantime.                                        *)
RosterMatchesSockets ==
  alive =>
    /\ Listed = Open
    /\ Len(clientsList) = Cardinality(Listed)
    /\ \A f, g \in Open : socket[f] = socket[g] => f = g
    /\ \A f \in Open, i \in 1..Len(backlog) : socket[f] # backlog[i]

(* The server goes down only when somebody has left or does not read, when *)
(* a connection comes for which there is no descriptor, when a text that   *)
(* may not fit is broadcast, or when the wait for nothing is interrupted:  *)
(* people who stay, read and write texts that fit do not bring it down.    *)
OnlyTheseBringDown ==
  [][alive /\ ~alive' =>
       \/ \E c \in Conns : peer[c] = "gone" \/ Full(c)
       \/ Listen \in events \ events' /\ Free = {}
       \/ \E f \in Fds \cap (events \ events') : Overlong(f) /\ Len(clientsList) > 1
       \/ events = {} /\ ready = {}]_vars

(* A person's chat ID is the descriptor, if that is in the list.           *)
ChatId ==
  [c \in Conns |-> IF FdsOf(c) \cap Listed # {} THEN CHOOSE f \in FdsOf(c) : TRUE ELSE 0]

Room == INSTANCE ChatRoom WITH
  Ids <- Fds,
  id <- ChatId,
  away <- Away,
  closed <- ~alive
ImplementsRoom == Room!Spec

InRoom(c) == alive /\ FdsOf(c) # {}

(* With peers that read at once and wait for the server to come to rest    *)
(* before they act, a text is heard by everybody who is there and stays.   *)
(* Without the pace it need not be: one recv per edge-triggered event      *)
(* leaves behind what arrives in between.                                  *)
TextsAreHeard ==
  \A c, d \in Conns, i \in 1..MaxTexts :
    c # d =>
      (InRoom(c) /\ InRoom(d) /\ input[c] # <<>> /\ Head(input[c]) = i)
        ~> \/ c \in Away \/ d \in Away
           \/ \E k \in 1..Len(heard[d]) : heard[d][k].text = i /\ heard[d][k].id \in FdsOf(c)

(* Under the same conditions the server notices everybody who hangs up,    *)
(* and survives it.                                                        *)
GoneArePutOut == \A c \in Conns : c \in Away ~> (alive /\ FdsOf(c) = {})
=============================================================================
