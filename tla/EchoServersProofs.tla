------------------------- MODULE EchoServersProofs -------------------------
(***************************************************************************)
(* The three echo servers leave no client unattended and echo each line    *)
(* once, whatever the clients do and however many of them there are.       *)
(***************************************************************************)
EXTENDS EchoServers, FiniteSetTheorems, TLAPS

-----------------------------------------------------------------------------
(* The inductive invariant, part by part.                                  *)

Types ==
  /\ program \in DOMAIN Callers
  /\ client \in [Conns -> {"new", "typing", "waiting", "closing", "gone"}]
  /\ sent \in [Conns -> 0..MaxLines] /\ got \in [Conns -> Nat]
  /\ toServer \in [Conns -> Nat] /\ toClient \in [Conns -> Nat]
  /\ link \in [Conns -> {"open", "fin", "rst", "dead"}]
  /\ backlog \in Seq(Conns)
  /\ role \in [Procs -> Conns \cup {"unborn", "run", "accept", "spin", "dead"}]
  /\ fds \in [Procs -> SUBSET Conns]
  /\ events \in [Procs -> SUBSET (Conns \cup {Listen})]
  /\ accept_fds \in [1..FdSize -> Conns \cup {NoConn}]
  /\ max_pos \in 0..FdSize
  /\ fd_sets \subseteq Conns \cup {Listen}

(* A client has at most one line on its way, in one direction.             *)
OneLine ==
  \A c \in Conns :
    /\ toServer[c] \in {0, sent[c]} /\ toClient[c] \in {0, sent[c]}
    /\ toServer[c] = 0 \/ toClient[c] = 0
    /\ client[c] \in {"new", "typing"} => got[c] = sent[c] /\ toServer[c] = 0 /\ toClient[c] = 0
    /\ client[c] \in {"waiting", "closing"} => sent[c] = got[c] + 1
    /\ client[c] = "gone" => toClient[c] = 0
    /\ client[c] = "gone" <=> link[c] # "open"
    /\ link[c] = "rst" => got[c] < sent[c] /\ toServer[c] = 0

(* A connection is with one accepting process or waits for one.            *)
Queued ==
  /\ \A i, j \in 1..Len(backlog) : i # j => backlog[i] # backlog[j]
  /\ \A c \in Conns : client[c] = "new" \/ Contains(backlog, c) =>
       /\ ~ (client[c] = "new" /\ Contains(backlog, c))
       /\ \A p \in Procs : c \notin fds[p] /\ role[p] # c
       /\ \A i \in 1..FdSize : accept_fds[i] # c

(* The select server's table holds the open descriptors, each once, below  *)
(* max_pos.                                                                *)
Table ==
  program = "select" =>
    /\ role[Server] \in {"run", "dead"} /\ \A p \in Procs \ {Server} : role[p] = "unborn"
    /\ Cardinality(fds[Server]) <= FdLimit
    /\ \A i, j \in 1..FdSize : accept_fds[i] = accept_fds[j] /\ i # j => accept_fds[i] = NoConn
    /\ \A i \in 1..FdSize : accept_fds[i] # NoConn => i <= max_pos
    /\ role[Server] = "run" =>
         /\ \A c \in Conns : c \in fds[Server] <=> \E i \in 1..FdSize : accept_fds[i] = c
         /\ Listen \in fd_sets => backlog # <<>>

(* A connection is registered with one of the epoll processes, and what    *)
(* can be read from it is announced or about to be.                        *)
Registered ==
  program = "epoll" =>
    /\ \A p \in Procs : role[p] = IF p \in Workers THEN "run" ELSE "unborn"
    /\ \A p \in Procs \ Workers : fds[p] = {}
    /\ \A p, q \in Procs : p # q => fds[p] \cap fds[q] = {}
    /\ \A p \in Procs : events[p] \subseteq fds[p] \cup {Listen}
    /\ \A p \in Procs, c \in Conns : c \in fds[p] /\ Readable(c) => c \in edge \cup events[p]

(* Every connection got a child of its own when there was one to be had.   *)
Forked ==
  program = "fork" =>
    /\ role[Server] = "accept" /\ \A p \in Procs : role[p] # "run"
    /\ \A p, q \in Procs : role[p] = role[q] /\ role[p] \in Conns => p = q
    /\ \A p \in Procs, c \in Conns : c \in fds[p] /\ link[c] = "open" =>
         Unborn = {} \/ \E q \in Procs : role[q] = c

IInv == Types /\ OneLine /\ Queued /\ Table /\ Registered /\ Forked

-----------------------------------------------------------------------------
(* The constants.                                                          *)
LEMMA Constants ==
  /\ Server \in Procs /\ MaxProcs \in Nat /\ MaxLines \in Nat /\ FdLimit \in Nat /\ FdSize \in Nat /\ FdLimit < FdSize
  /\ IsFiniteSet(Conns) /\ NoConn \notin Conns /\ Listen \notin Conns
  /\ Conns \cap {"unborn", "run", "accept", "spin", "dead"} = {}
  /\ Workers \subseteq Procs /\ Workers # {}
  /\ \A name \in DOMAIN Callers : name \in {"select", "epoll", "fork"} /\ Callers[name] \subseteq Conns
BY EchoSizes, EchoConns, EchoCallers, TableAssumption, WorkersAssumption DEF Procs, Server

(* A set of numbers that is not empty has a least one: what Min and the    *)
(* CHOOSE of Fork pick exists.                                             *)
LEMMA LeastNumber ==
  ASSUME NEW S \in SUBSET Nat, S # {}
  PROVE  \E n \in S : \A m \in S : n <= m
<1> DEFINE R == OpToRel(<, Nat)
<1>1. IsWellFoundedOn(R, Nat)
  BY NatLessThanWellFounded
<1>2. \A i, j \in Nat : i < j => <<i, j>> \in R
  BY DEF OpToRel
<1> HIDE DEF R
<1>3. PICK n \in S : \A m \in S : ~ (<<m, n>> \in R)
  BY <1>1, WFMin
<1>4. ASSUME NEW m \in S PROVE n <= m
  <2>1. ~ (m < n)
    BY <1>2, <1>3
  <2> QED BY <2>1
<1> QED BY <1>4

(* A set any two members of which are equal.                               *)
LEMMA AtMostOne ==
  ASSUME NEW S, \A x, y \in S : x = y
  PROVE  Cardinality(S) <= 1
<1>1. CASE S = {}
  BY <1>1, FS_EmptySet
<1>2. CASE S # {}
  <2>1. PICK x \in S : TRUE
    BY <1>2
  <2>2. S = {x}
    BY <2>1
  <2>3. Cardinality({x}) = 1
    BY FS_Singleton
  <2> QED BY <2>2, <2>3
<1> QED BY <1>1, <1>2

(* A connection more that waits for accept.                                *)
LEMMA AppendFacts ==
  ASSUME NEW s \in Seq(Conns), NEW c \in Conns
  PROVE  /\ Append(s, c) \in Seq(Conns)
         /\ \A d : Contains(Append(s, c), d) <=> Contains(s, d) \/ d = c
         /\ ~ Contains(s, c) /\ (\A i, j \in 1..Len(s) : i # j => s[i] # s[j])
              => \A i, j \in 1..Len(Append(s, c)) : i # j => Append(s, c)[i] # Append(s, c)[j]
<1> DEFINE a == Append(s, c)
<1>1. /\ a \in Seq(Conns) /\ Len(a) = Len(s) + 1 /\ Len(s) \in Nat /\ a[Len(s) + 1] = c
      /\ \A i \in 1..Len(s) : a[i] = s[i]
  OBVIOUS
<1> HIDE DEF a
<1>2. \A i \in 1..Len(a) : i \in 1..Len(s) \/ i = Len(s) + 1
  BY <1>1
<1>3. 1..Len(s) \subseteq 1..Len(a) /\ Len(s) + 1 \in 1..Len(a)
  BY <1>1
<1>4. \A d : Contains(a, d) <=> Contains(s, d) \/ d = c
  BY <1>1, <1>2, <1>3 DEF Contains
<1>5. ASSUME ~ Contains(s, c), \A i, j \in 1..Len(s) : i # j => s[i] # s[j]
      PROVE  \A i, j \in 1..Len(a) : i # j => a[i] # a[j]
  BY <1>1, <1>2, <1>5 DEF Contains
<1> QED BY <1>1, <1>4, <1>5 DEF a

(* A connection that is accepted.                                          *)
LEMMA HeadFacts ==
  ASSUME NEW s \in Seq(Conns), s # <<>>, \A i, j \in 1..Len(s) : i # j => s[i] # s[j]
  PROVE  /\ Head(s) \in Conns /\ Tail(s) \in Seq(Conns) /\ Contains(s, Head(s))
         /\ \A d : Contains(Tail(s), d) <=> Contains(s, d) /\ d # Head(s)
         /\ \A i, j \in 1..Len(Tail(s)) : i # j => Tail(s)[i] # Tail(s)[j]
<1> DEFINE a == Tail(s)
<1>1. /\ a \in Seq(Conns) /\ Len(a) = Len(s) - 1 /\ Len(s) \in Nat /\ Len(s) # 0
      /\ \A i \in 1..Len(a) : a[i] = s[i + 1]
      /\ Head(s) = s[1] /\ \A i \in 1..Len(s) : s[i] \in Conns
  OBVIOUS
<1> HIDE DEF a
<1>2. 1 \in 1..Len(s) /\ \A i \in 1..Len(a) : i + 1 \in 1..Len(s) /\ i + 1 # 1
  BY <1>1
<1>3. \A i \in 1..Len(s) : i = 1 \/ (i - 1 \in 1..Len(a) /\ (i - 1) + 1 = i)
  BY <1>1
<1>4. \A i \in 1..Len(s) : i = 1 \/ (i - 1 \in 1..Len(a) /\ a[i - 1] = s[i])
  BY <1>1, <1>3
<1>5. Contains(s, Head(s))
  BY <1>1, <1>2 DEF Contains
<1>6. ASSUME NEW d PROVE Contains(a, d) <=> Contains(s, d) /\ d # Head(s)
  <2>1. ASSUME Contains(a, d) PROVE Contains(s, d) /\ d # Head(s)
    <3>1. PICK i \in 1..Len(a) : a[i] = d
      BY <2>1 DEF Contains
    <3> QED BY <1>1, <1>2, <3>1 DEF Contains
  <2>2. ASSUME Contains(s, d), d # Head(s) PROVE Contains(a, d)
    <3>1. PICK i \in 1..Len(s) : s[i] = d
      BY <2>2 DEF Contains
    <3> QED BY <1>1, <1>4, <2>2, <3>1 DEF Contains
  <2> QED BY <2>1, <2>2
<1>7. \A i, j \in 1..Len(a) : i # j => a[i] # a[j]
  BY <1>1, <1>2
<1> QED BY <1>1, <1>2, <1>5, <1>6, <1>7 DEF a

-----------------------------------------------------------------------------
(* The invariant when the server starts.                                   *)
LEMMA InitHolds == Init => IInv
<1> SUFFICES ASSUME Init PROVE IInv
  OBVIOUS
<1>1. program \in {"select", "epoll", "fork"} /\ program \in DOMAIN Callers
  BY Constants DEF Init
<1>2. /\ client = [c \in Conns |-> "new"] /\ sent = [c \in Conns |-> 0] /\ got = [c \in Conns |-> 0]
      /\ toServer = [c \in Conns |-> 0] /\ toClient = [c \in Conns |-> 0] /\ link = [c \in Conns |-> "open"]
      /\ backlog = <<>> /\ fds = [p \in Procs |-> {}]
  BY DEF Init, ClientsInit
<1>3. /\ accept_fds = [i \in 1..FdSize |-> NoConn] /\ max_pos = 0 /\ fd_sets = {}
      /\ events = [p \in Procs |-> {}]
  BY DEF Init, SelectInit, EpollInit
<1>4. /\ program = "select" => role = [p \in Procs |-> IF p = Server THEN "run" ELSE "unborn"]
      /\ program = "epoll" => role = [p \in Procs |-> IF p \in Workers THEN "run" ELSE "unborn"]
      /\ program = "fork" => role = [p \in Procs |-> IF p = Server THEN "accept" ELSE "unborn"]
  BY DEF Init
<1>5. role \in [Procs -> {"unborn", "run", "accept"}]
  BY <1>1, <1>4
<1>6. Types
  <2>1. role \in [Procs -> Conns \cup {"unborn", "run", "accept", "spin", "dead"}]
    BY <1>5
  <2>2. 0 \in 0..MaxLines /\ max_pos \in 0..FdSize /\ backlog \in Seq(Conns)
    BY <1>2, <1>3, Constants
  <2> QED BY <1>1, <1>2, <1>3, <2>1, <2>2 DEF Types
<1>7. OneLine
  BY <1>2 DEF OneLine
<1>8. Queued
  <2>1. \A c : ~ Contains(backlog, c)
    BY <1>2 DEF Contains
  <2>2. \A p \in Procs, c \in Conns : role[p] # c
    BY <1>5, Constants
  <2>3. \A i \in 1..FdSize, c \in Conns : accept_fds[i] # c
    BY <1>3, Constants
  <2> QED BY <1>2, <2>1, <2>2, <2>3 DEF Queued
<1>9. Table
  <2> SUFFICES ASSUME program = "select" PROVE Table
    BY DEF Table
  <2>1. role = [p \in Procs |-> IF p = Server THEN "run" ELSE "unborn"]
    BY <1>4
  <2>2. fds[Server] = {} /\ Cardinality(fds[Server]) <= FdLimit
    BY <1>2, Constants, FS_EmptySet
  <2>3. \A i \in 1..FdSize : accept_fds[i] = NoConn
    BY <1>3
  <2> QED BY <1>3, <2>1, <2>2, <2>3, Constants DEF Table
<1>10. Registered
  BY <1>2, <1>3, <1>4 DEF Registered
<1>11. Forked
  <2> SUFFICES ASSUME program = "fork" PROVE Forked
    BY DEF Forked
  <2>1. role = [p \in Procs |-> IF p = Server THEN "accept" ELSE "unborn"]
    BY <1>4
  <2> QED BY <1>2, <2>1, Constants DEF Forked
<1> QED BY <1>6, <1>7, <1>8, <1>9, <1>10, <1>11 DEF IInv

-----------------------------------------------------------------------------
(* The clients.                                                            *)
ClientRest == UNCHANGED <<program, procs, selectVars, events>>

(* Whoever connects was nowhere before.                                    *)
LEMMA ConnectHolds ==
  ASSUME IInv, NEW c \in Conns, Connect(c), ClientRest
  PROVE  IInv'
<1> USE DEF IInv
<1>1. /\ client[c] = "new" /\ client' = [client EXCEPT ![c] = "typing"] /\ backlog' = Append(backlog, c)
      /\ UNCHANGED <<program, sent, got, toServer, toClient, link, edge, role, fds,
                     accept_fds, max_pos, fd_sets, events>>
  BY DEF Connect, ClientRest, wires, procs, selectVars
<1>2. /\ client'[c] = "typing" /\ \A d \in Conns : d # c => client'[d] = client[d]
      /\ backlog \in Seq(Conns)
  BY <1>1 DEF Types
<1>3. ~ Contains(backlog, c)
  BY <1>1 DEF Queued
<1>4. /\ backlog' \in Seq(Conns)
      /\ \A d : Contains(backlog', d) <=> Contains(backlog, d) \/ d = c
      /\ \A i, j \in 1..Len(backlog') : i # j => backlog'[i] # backlog'[j]
  BY <1>1, <1>2, <1>3, AppendFacts DEF Queued
<1>5. Types'
  BY <1>1, <1>2, <1>4 DEF Types
<1>6. OneLine'
  <2> SUFFICES ASSUME NEW d \in Conns
      PROVE  /\ toServer[d] \in {0, sent[d]} /\ toClient[d] \in {0, sent[d]}
             /\ toServer[d] = 0 \/ toClient[d] = 0
             /\ client'[d] \in {"new", "typing"} => got[d] = sent[d] /\ toServer[d] = 0 /\ toClient[d] = 0
             /\ client'[d] \in {"waiting", "closing"} => sent[d] = got[d] + 1
             /\ client'[d] = "gone" => toClient[d] = 0
             /\ client'[d] = "gone" <=> link[d] # "open"
             /\ link[d] = "rst" => got[d] < sent[d] /\ toServer[d] = 0
    BY <1>1 DEF OneLine
  <2> QED BY <1>1, <1>2 DEF OneLine
<1>7. Queued'
  <2>1. ASSUME NEW d \in Conns, client'[d] = "new" \/ Contains(backlog', d)
        PROVE  /\ ~ (client'[d] = "new" /\ Contains(backlog', d))
               /\ \A p \in Procs : d \notin fds[p] /\ role[p] # d
               /\ \A i \in 1..FdSize : accept_fds[i] # d
    BY <1>1, <1>2, <1>4, <2>1 DEF Queued
  <2> QED BY <1>1, <1>4, <2>1 DEF Queued
<1>8. Table'
  <2>1. backlog' # <<>>
    BY <1>4 DEF Contains
  <2> QED BY <1>1, <2>1 DEF Table
<1>9. Registered'
  BY <1>1 DEF Registered, Readable
<1>10. Forked'
  BY <1>1 DEF Forked, Unborn
<1> QED BY <1>5, <1>6, <1>7, <1>8, <1>9, <1>10

(* What a client does with its own connection leaves the queue and the     *)
(* servers' tables alone.                                                  *)
LEMMA OwnConnection ==
  ASSUME IInv, NEW c \in Conns, client[c] # "new", NEW next, next # "new",
         client' = [client EXCEPT ![c] = next],
         UNCHANGED <<program, backlog, procs, selectVars, events>>
  PROVE  Queued' /\ Table'
<1>1. /\ UNCHANGED <<program, backlog, role, fds, accept_fds, max_pos, fd_sets, events>>
      /\ \A d \in Conns : client'[d] = "new" <=> client[d] = "new"
  BY DEF IInv, Types, procs, selectVars
<1>2. Queued'
  BY <1>1 DEF IInv, Queued
<1>3. Table'
  BY <1>1 DEF IInv, Table
<1> QED BY <1>2, <1>3

(* A line is sent when none is on its way, and announced.                  *)
LEMMA SendLineHolds ==
  ASSUME IInv, NEW c \in Conns, SendLine(c), ClientRest
  PROVE  IInv'
<1> USE DEF IInv
<1>1. /\ client[c] = "typing" /\ Connected(c) /\ sent[c] < MaxLines
      /\ sent' = [sent EXCEPT ![c] = @ + 1] /\ toServer' = [toServer EXCEPT ![c] = sent[c] + 1]
      /\ Notify(c)
      /\ UNCHANGED <<program, got, backlog, toClient, link, role, fds,
                     accept_fds, max_pos, fd_sets, events>>
  BY DEF SendLine, ClientRest, procs, selectVars
<1>2. PICK next \in {"waiting", "closing"} : client' = [client EXCEPT ![c] = next]
  BY DEF SendLine
<1>3. /\ client'[c] = next /\ sent'[c] = sent[c] + 1 /\ toServer'[c] = sent[c] + 1
      /\ \A d \in Conns : d # c => client'[d] = client[d] /\ sent'[d] = sent[d] /\ toServer'[d] = toServer[d]
      /\ sent[c] \in 0..MaxLines /\ MaxLines \in Nat
  BY <1>1, <1>2, Constants DEF Types
<1>4. Types'
  <2>1. sent[c] + 1 \in 0..MaxLines /\ sent[c] + 1 \in Nat
    BY <1>1, <1>3
  <2> QED BY <1>1, <1>2, <2>1 DEF Types
<1>5. OneLine'
  <2> SUFFICES ASSUME NEW d \in Conns
      PROVE  /\ toServer'[d] \in {0, sent'[d]} /\ toClient[d] \in {0, sent'[d]}
             /\ toServer'[d] = 0 \/ toClient[d] = 0
             /\ client'[d] \in {"new", "typing"} => got[d] = sent'[d] /\ toServer'[d] = 0 /\ toClient[d] = 0
             /\ client'[d] \in {"waiting", "closing"} => sent'[d] = got[d] + 1
             /\ client'[d] = "gone" => toClient[d] = 0
             /\ client'[d] = "gone" <=> link[d] # "open"
             /\ link[d] = "rst" => got[d] < sent'[d] /\ toServer'[d] = 0
    BY <1>1 DEF OneLine
  <2>1. CASE d = c
    BY <1>1, <1>2, <1>3, <2>1 DEF OneLine
  <2>2. CASE d # c
    BY <1>3, <2>2 DEF OneLine
  <2> QED BY <2>1, <2>2
<1>6. Queued' /\ Table'
  BY <1>1, <1>2, OwnConnection DEF procs, selectVars
<1>7. Registered'
  <2> SUFFICES ASSUME program = "epoll" PROVE Registered'
    BY <1>1 DEF Registered
  <2>1. ASSUME NEW p \in Procs, NEW d \in Conns, d \in fds[p], toServer'[d] # 0 \/ link[d] \in {"fin", "rst"}
        PROVE  d \in edge' \cup events[p]
    <3>1. p \in Workers /\ role[p] = "run"
      BY <2>1 DEF Registered
    <3>2. Accepted(d)
      BY <2>1, <3>1 DEF Accepted, Alive
    <3>3. CASE d = c
      BY <1>1, <3>2, <3>3 DEF Notify
    <3>4. CASE d # c
      BY <1>1, <1>3, <2>1, <3>4 DEF Registered, Readable, Notify
    <3> QED BY <3>3, <3>4
  <2> QED BY <1>1, <2>1 DEF Registered, Readable
<1>8. Forked'
  BY <1>1 DEF Forked, Unborn
<1> QED BY <1>4, <1>5, <1>6, <1>7, <1>8

(* The echo that arrives is the one the client waits for.                  *)
LEMMA ReceiveHolds ==
  ASSUME IInv, NEW c \in Conns, Receive(c), ClientRest
  PROVE  IInv'
<1> USE DEF IInv
<1>1. /\ client[c] = "waiting" /\ toClient[c] # 0 /\ client' = [client EXCEPT ![c] = "typing"]
      /\ got' = [got EXCEPT ![c] = toClient[c]] /\ toClient' = [toClient EXCEPT ![c] = 0]
      /\ UNCHANGED <<program, sent, backlog, toServer, link, edge, role, fds,
                     accept_fds, max_pos, fd_sets, events>>
  BY DEF Receive, ClientRest, procs, selectVars
<1>2. /\ client'[c] = "typing" /\ got'[c] = toClient[c] /\ toClient'[c] = 0
      /\ \A d \in Conns : d # c => client'[d] = client[d] /\ got'[d] = got[d] /\ toClient'[d] = toClient[d]
      /\ toClient[c] \in Nat
  BY <1>1 DEF Types
<1>3. Types'
  BY <1>1, <1>2 DEF Types
<1>4. OneLine'
  <2> SUFFICES ASSUME NEW d \in Conns
      PROVE  /\ toServer[d] \in {0, sent[d]} /\ toClient'[d] \in {0, sent[d]}
             /\ toServer[d] = 0 \/ toClient'[d] = 0
             /\ client'[d] \in {"new", "typing"} => got'[d] = sent[d] /\ toServer[d] = 0 /\ toClient'[d] = 0
             /\ client'[d] \in {"waiting", "closing"} => sent[d] = got'[d] + 1
             /\ client'[d] = "gone" => toClient'[d] = 0
             /\ client'[d] = "gone" <=> link[d] # "open"
             /\ link[d] = "rst" => got'[d] < sent[d] /\ toServer[d] = 0
    BY <1>1 DEF OneLine
  <2>1. CASE d = c
    BY <1>1, <1>2, <2>1 DEF OneLine
  <2>2. CASE d # c
    BY <1>2, <2>2 DEF OneLine
  <2> QED BY <2>1, <2>2
<1>5. Queued' /\ Table'
  BY <1>1, OwnConnection DEF procs, selectVars
<1>6. Registered'
  BY <1>1 DEF Registered, Readable
<1>7. Forked'
  BY <1>1 DEF Forked, Unborn
<1> QED BY <1>3, <1>4, <1>5, <1>6, <1>7

(* A reset is for a client that leaves its echo unread.                    *)
LEMMA CloseHolds ==
  ASSUME IInv, NEW c \in Conns, Close(c), ClientRest
  PROVE  IInv'
<1> USE DEF IInv
<1> DEFINE end == IF toClient[c] # 0 THEN "rst" ELSE "fin"
<1>1. /\ client[c] \in {"typing", "waiting", "closing"} /\ client' = [client EXCEPT ![c] = "gone"]
      /\ link' = [link EXCEPT ![c] = end] /\ toClient' = [toClient EXCEPT ![c] = 0]
      /\ Notify(c)
      /\ UNCHANGED <<program, sent, got, backlog, toServer, role, fds,
                     accept_fds, max_pos, fd_sets, events>>
  BY DEF Close, ClientRest, procs, selectVars
<1>2. /\ client'[c] = "gone" /\ link'[c] = end /\ toClient'[c] = 0
      /\ \A d \in Conns : d # c => client'[d] = client[d] /\ link'[d] = link[d] /\ toClient'[d] = toClient[d]
  BY <1>1 DEF Types
<1>3. Types'
  BY <1>1 DEF Types
<1>4. OneLine'
  <2> SUFFICES ASSUME NEW d \in Conns
      PROVE  /\ toServer[d] \in {0, sent[d]} /\ toClient'[d] \in {0, sent[d]}
             /\ toServer[d] = 0 \/ toClient'[d] = 0
             /\ client'[d] \in {"new", "typing"} => got[d] = sent[d] /\ toServer[d] = 0 /\ toClient'[d] = 0
             /\ client'[d] \in {"waiting", "closing"} => sent[d] = got[d] + 1
             /\ client'[d] = "gone" => toClient'[d] = 0
             /\ client'[d] = "gone" <=> link'[d] # "open"
             /\ link'[d] = "rst" => got[d] < sent[d] /\ toServer[d] = 0
    BY <1>1 DEF OneLine
  <2>1. CASE d = c
    <3>1. sent[c] \in Nat /\ got[c] \in Nat
      BY Constants DEF Types
    <3> QED BY <1>1, <1>2, <2>1, <3>1 DEF OneLine
  <2>2. CASE d # c
    BY <1>2, <2>2 DEF OneLine
  <2> QED BY <2>1, <2>2
<1>5. Queued' /\ Table'
  BY <1>1, OwnConnection DEF procs, selectVars
<1>6. Registered'
  <2> SUFFICES ASSUME program = "epoll" PROVE Registered'
    BY <1>1 DEF Registered
  <2>1. ASSUME NEW p \in Procs, NEW d \in Conns, d \in fds[p], toServer[d] # 0 \/ link'[d] \in {"fin", "rst"}
        PROVE  d \in edge' \cup events[p]
    <3>1. p \in Workers /\ role[p] = "run"
      BY <2>1 DEF Registered
    <3>2. Accepted(d)
      BY <2>1, <3>1 DEF Accepted, Alive
    <3>3. CASE d = c
      BY <1>1, <3>2, <3>3 DEF Notify
    <3>4. CASE d # c
      BY <1>1, <1>2, <2>1, <3>4 DEF Registered, Readable, Notify
    <3> QED BY <3>3, <3>4
  <2> QED BY <1>1, <2>1 DEF Registered, Readable
<1>7. Forked'
  <2>1. \A d \in Conns : link'[d] = "open" => link[d] = "open"
    BY <1>1, <1>2 DEF OneLine
  <2> QED BY <1>1, <2>1 DEF Forked, Unborn
<1> QED BY <1>3, <1>4, <1>5, <1>6, <1>7

-----------------------------------------------------------------------------
(* The echo of a line, in all three servers.                               *)
LEMMA EchoHolds ==
  ASSUME Types, OneLine, NEW c \in Conns, Echo(c), UNCHANGED users
  PROVE  /\ OneLine' /\ toServer' \in [Conns -> Nat] /\ toClient' \in [Conns -> Nat]
         /\ toServer'[c] = 0 /\ link' = link /\ role' = role /\ fds' = fds
         /\ \A d \in Conns : d # c => toServer'[d] = toServer[d]
<1>1. /\ toServer[c] # 0 /\ toServer' = [toServer EXCEPT ![c] = 0]
      /\ toClient' = IF link[c] = "open" THEN [toClient EXCEPT ![c] = toServer[c]] ELSE toClient
      /\ UNCHANGED <<program, client, sent, got, link, role, fds>>
  BY DEF Echo, users, procs
<1>2. /\ toServer'[c] = 0 /\ toClient'[c] \in {toServer[c], toClient[c]} /\ toServer[c] \in Nat
      /\ link[c] # "open" => toClient'[c] = toClient[c]
      /\ \A d \in Conns : d # c => toServer'[d] = toServer[d] /\ toClient'[d] = toClient[d]
  BY <1>1 DEF Types
<1>3. OneLine'
  <2> SUFFICES ASSUME NEW d \in Conns
      PROVE  /\ toServer'[d] \in {0, sent[d]} /\ toClient'[d] \in {0, sent[d]}
             /\ toServer'[d] = 0 \/ toClient'[d] = 0
             /\ client[d] \in {"new", "typing"} => got[d] = sent[d] /\ toServer'[d] = 0 /\ toClient'[d] = 0
             /\ client[d] \in {"waiting", "closing"} => sent[d] = got[d] + 1
             /\ client[d] = "gone" => toClient'[d] = 0
             /\ client[d] = "gone" <=> link[d] # "open"
             /\ link[d] = "rst" => got[d] < sent[d] /\ toServer'[d] = 0
    BY <1>1 DEF OneLine
  <2>1. CASE d = c
    BY <1>1, <1>2, <2>1 DEF OneLine
  <2>2. CASE d # c
    BY <1>2, <2>2 DEF OneLine
  <2> QED BY <2>1, <2>2
<1> QED BY <1>1, <1>2, <1>3 DEF Types

-----------------------------------------------------------------------------
(* The select server.                                                      *)

(* select reports connections of the table, and the listening socket when  *)
(* somebody waits.                                                         *)
LEMMA SelectHolds ==
  ASSUME IInv, program = "select", Select, events' = events
  PROVE  IInv'
<1> USE DEF IInv
<1>1. /\ fd_sets' = Ready
      /\ UNCHANGED <<program, client, sent, got, backlog, toServer, toClient, link, edge, role, fds,
                     accept_fds, max_pos, events>>
  BY DEF Select, users, wires, procs
<1>2. Ready \subseteq Conns \cup {Listen}
  <2>1. \A i \in 1..max_pos : i \in 1..FdSize
    BY Constants DEF Types
  <2> QED BY <2>1 DEF Ready, Types
<1>3. Listen \in Ready => backlog # <<>>
  <2>1. \A c \in {accept_fds[i] : i \in 1..max_pos} \ {NoConn} : c \in Conns
    <3>1. \A i \in 1..max_pos : i \in 1..FdSize
      BY Constants DEF Types
    <3> QED BY <3>1 DEF Types
  <2> QED BY <2>1, Constants DEF Ready
<1>4. Types' /\ OneLine' /\ Queued'
  BY <1>1, <1>2 DEF Types, OneLine, Queued
<1>5. Table'
  BY <1>1, <1>3 DEF Table
<1>6. Registered' /\ Forked'
  BY <1>1 DEF Registered, Forked
<1> QED BY <1>4, <1>5, <1>6

(* The table has a free slot as long as the descriptors run out first.     *)
LEMMA FreeSlot ==
  ASSUME IInv, program = "select", role[Server] = "run"
  PROVE  /\ Min({i \in 1..FdSize : accept_fds[i] = NoConn}) \in 1..FdSize
         /\ accept_fds[Min({i \in 1..FdSize : accept_fds[i] = NoConn})] = NoConn
<1> DEFINE F == {i \in 1..FdSize : accept_fds[i] = NoConn}
<1>1. ASSUME F = {} PROVE FALSE
  <2>1. \A i \in 1..FdSize : accept_fds[i] \in Conns /\ accept_fds[i] # NoConn
    BY <1>1 DEF IInv, Types
  <2>2. accept_fds \in [1..FdSize -> fds[Server]]
    BY <2>1 DEF IInv, Types, Table
  <2>3. /\ IsFiniteSet(1..FdSize) /\ Cardinality(1..FdSize) = FdSize
        /\ FdSize \in Nat /\ FdLimit \in Nat /\ FdLimit < FdSize
    <3>1. 1 \in Int /\ FdSize \in Int /\ FdSize \in Nat
      BY Constants
    <3>2. IsFiniteSet(1..FdSize) /\ Cardinality(1..FdSize) = IF 1 > FdSize THEN 0 ELSE FdSize - 1 + 1
      BY ONLY <3>1, FS_Interval
    <3> QED BY <3>1, <3>2, Constants
  <2>4. fds[Server] \subseteq Conns /\ Cardinality(fds[Server]) <= FdLimit
    BY Constants DEF IInv, Types, Table
  <2>5. IsFiniteSet(fds[Server])
    BY <2>4, Constants, FS_Subset
  <2>6. Cardinality(fds[Server]) \in Nat
    BY <2>5, FS_CardinalityType
  <2>7. Cardinality(fds[Server]) < Cardinality(1..FdSize)
    BY <2>3, <2>4, <2>6
  <2>8. \E i, j \in 1..FdSize : i # j /\ accept_fds[i] = accept_fds[j]
    BY <2>2, <2>3, <2>5, <2>7, FS_PigeonHole
  <2> QED BY <2>1, <2>8 DEF IInv, Table
<1>2. F \in SUBSET Nat
  BY Constants
<1> HIDE DEF F
<1>3. \E n \in F : \A m \in F : n <= m
  BY <1>1, <1>2, LeastNumber
<1>4. Min(F) \in F
  BY <1>3 DEF Min
<1> QED BY <1>4 DEF F

(* The greater of two numbers.                                             *)
LEMMA MaxOfTwo ==
  ASSUME NEW a \in Nat, NEW b \in Nat
  PROVE  Max({a, b}) = IF a >= b THEN a ELSE b
<1>1. \E x \in {a, b} : \A y \in {a, b} : x >= y
  OBVIOUS
<1>2. Max({a, b}) \in {a, b} /\ \A y \in {a, b} : Max({a, b}) >= y
  BY <1>1 DEF Max
<1> QED BY <1>2

(* A connection that is accepted is in one slot, and max_pos covers it.    *)
LEMMA SelectAcceptHolds ==
  ASSUME IInv, program = "select", SelectAccept, events' = events
  PROVE  IInv'
<1> USE DEF IInv
<1> DEFINE curpos == Min({i \in 1..FdSize : accept_fds[i] = NoConn})
           c == Head(backlog)
<1>1. /\ Listen \in fd_sets /\ Server \in Alive /\ fd_sets' = fd_sets \ {Listen}
      /\ max_pos' = Max({curpos, max_pos})
      /\ UNCHANGED <<program, client, sent, got, toServer, toClient, link, edge, role, events>>
  BY DEF SelectAccept, MaxPosWith, users, wires
<1>2. \/ /\ HasRoom(Server) /\ accept_fds' = [accept_fds EXCEPT ![curpos] = c]
         /\ fds' = [fds EXCEPT ![Server] = @ \cup {c}] /\ backlog' = Tail(backlog)
      \/ UNCHANGED <<accept_fds, fds, backlog>>
  BY DEF SelectAccept
<1>3. role[Server] = "run" /\ Server \in Procs /\ backlog # <<>> /\ backlog \in Seq(Conns)
  BY <1>1, Constants DEF Table, Alive, Types
<1>4. curpos \in 1..FdSize /\ accept_fds[curpos] = NoConn
  BY <1>3, FreeSlot
<1>5. /\ c \in Conns /\ Tail(backlog) \in Seq(Conns) /\ Contains(backlog, c)
      /\ \A d : Contains(Tail(backlog), d) <=> Contains(backlog, d) /\ d # c
      /\ \A i, j \in 1..Len(Tail(backlog)) : i # j => Tail(backlog)[i] # Tail(backlog)[j]
  BY <1>3, HeadFacts DEF Queued
<1> HIDE DEF curpos, c
<1>6. max_pos' \in 0..FdSize /\ max_pos' >= curpos /\ max_pos' >= max_pos
  <2>1. curpos \in Nat /\ max_pos \in Nat /\ FdSize \in Nat
    BY <1>4, Constants DEF Types
  <2>2. max_pos' = IF curpos >= max_pos THEN curpos ELSE max_pos
    BY <1>1, <2>1, MaxOfTwo
  <2>3. curpos <= FdSize /\ max_pos <= FdSize
    BY <1>4, Constants DEF Types
  <2> QED BY <2>1, <2>2, <2>3
<1>7. c # NoConn /\ client[c] # "new" /\ (\A p \in Procs : c \notin fds[p]) /\ \A i \in 1..FdSize : accept_fds[i] # c
  BY <1>5, Constants DEF Queued
<1>8. CASE UNCHANGED <<accept_fds, fds, backlog>>
  <2>1. Types' /\ OneLine' /\ Queued'
    BY <1>1, <1>6, <1>8 DEF Types, OneLine, Queued
  <2>2. Table'
    <3>1. \A i \in 1..FdSize : accept_fds[i] # NoConn => i <= max_pos'
      BY <1>6, Constants DEF Table, Types
    <3> QED BY <1>1, <1>8, <3>1 DEF Table
  <2>3. Registered' /\ Forked'
    BY <1>1, <1>8 DEF Registered, Forked
  <2> QED BY <2>1, <2>2, <2>3
<1>9. CASE /\ HasRoom(Server) /\ accept_fds' = [accept_fds EXCEPT ![curpos] = c]
           /\ fds' = [fds EXCEPT ![Server] = @ \cup {c}] /\ backlog' = Tail(backlog)
  <2>1. /\ accept_fds'[curpos] = c /\ \A i \in 1..FdSize : i # curpos => accept_fds'[i] = accept_fds[i]
        /\ fds'[Server] = fds[Server] \cup {c} /\ \A p \in Procs : p # Server => fds'[p] = fds[p]
    BY <1>3, <1>4, <1>9 DEF Types
  <2>2. Types'
    BY <1>1, <1>4, <1>5, <1>6, <1>9 DEF Types
  <2>3. OneLine'
    BY <1>1 DEF OneLine
  <2>4. Queued'
    <3>1. ASSUME NEW d \in Conns, client[d] = "new" \/ Contains(backlog', d)
          PROVE  /\ ~ (client[d] = "new" /\ Contains(backlog', d))
                 /\ \A p \in Procs : d \notin fds'[p] /\ role[p] # d
                 /\ \A i \in 1..FdSize : accept_fds'[i] # d
      <4>1. d # c /\ (client[d] = "new" \/ Contains(backlog, d)) /\ (Contains(backlog', d) => Contains(backlog, d))
        BY <1>5, <1>7, <1>9, <3>1
      <4> QED BY <2>1, <4>1, Constants DEF Queued
    <3> QED BY <1>1, <1>5, <1>9, <3>1 DEF Queued
  <2>5. Table'
    <3>1. Cardinality(fds'[Server]) <= FdLimit
      <4>1. IsFiniteSet(fds[Server])
        BY <1>3, Constants, FS_Subset DEF Types
      <4>2. Cardinality(fds[Server] \cup {c}) = Cardinality(fds[Server]) + 1
        BY <1>3, <1>7, <4>1, FS_AddElement
      <4>3. Cardinality(fds[Server]) < FdLimit /\ Cardinality(fds[Server]) \in Nat /\ FdLimit \in Nat
        BY <1>9, <4>1, FS_CardinalityType, Constants DEF HasRoom
      <4> QED BY <2>1, <4>2, <4>3
    <3>2. \A i, j \in 1..FdSize : accept_fds'[i] = accept_fds'[j] /\ i # j => accept_fds'[i] = NoConn
      BY <1>7, <2>1 DEF Table
    <3>3. \A i \in 1..FdSize : accept_fds'[i] # NoConn => i <= max_pos'
      <4>1. curpos \in Nat /\ max_pos \in Nat /\ max_pos' \in Nat
        BY <1>4, <1>6, Constants DEF Types
      <4> QED BY <1>6, <2>1, <4>1 DEF Table
    <3>4. \A d \in Conns : d \in fds'[Server] <=> \E i \in 1..FdSize : accept_fds'[i] = d
      <4>1. \A d \in Conns : d # c => ((\E i \in 1..FdSize : accept_fds'[i] = d) <=> (\E i \in 1..FdSize : accept_fds[i] = d))
        BY <1>4, <1>7, <2>1, Constants
      <4>2. \E i \in 1..FdSize : accept_fds'[i] = c
        BY <1>4, <2>1
      <4> QED BY <1>3, <2>1, <4>1, <4>2 DEF Table
    <3> QED BY <1>1, <1>3, <3>1, <3>2, <3>3, <3>4 DEF Table
  <2>6. Registered' /\ Forked'
    BY <1>1 DEF Registered, Forked
  <2> QED BY <2>2, <2>3, <2>4, <2>5, <2>6
<1> QED BY <1>2, <1>8, <1>9 DEF curpos, c

(* A slot is served, freed, or was the last one to be served.              *)
LEMMA SelectServeHolds ==
  ASSUME IInv, program = "select", NEW i \in 1..max_pos, SelectServe(i), events' = events
  PROVE  IInv'
<1> USE DEF IInv
<1> DEFINE c == accept_fds[i]
<1>1. /\ Server \in Alive /\ Listen \notin fd_sets /\ c \in fd_sets /\ fd_sets' = fd_sets \ {c}
      /\ UNCHANGED <<program, client, sent, got, edge, max_pos, events>>
  BY DEF SelectServe, InSet, users
<1>2. \/ Echo(c) /\ UNCHANGED <<accept_fds, backlog>>
      \/ /\ AtEnd(c) /\ fds' = [fds EXCEPT ![Server] = @ \ {c}]
         /\ accept_fds' = [accept_fds EXCEPT ![i] = NoConn]
         /\ UNCHANGED <<role, toServer, toClient, link, backlog>>
      \/ /\ AtReset(c) /\ Die(Server) /\ backlog' = <<>>
         /\ UNCHANGED <<toServer, toClient, link, accept_fds>>
  BY DEF SelectServe, wires
<1>3. /\ role[Server] = "run" /\ Server \in Procs /\ i \in 1..FdSize /\ c \in Conns
      /\ fd_sets' \subseteq Conns \cup {Listen} /\ Listen \notin fd_sets'
  BY <1>1, Constants DEF Table, Alive, Types
<1>4. Registered' /\ Forked'
  BY <1>1 DEF Registered, Forked
<1> HIDE DEF c
<1>5. CASE Echo(c) /\ UNCHANGED <<accept_fds, backlog>>
  <2>1. OneLine' /\ toServer' \in [Conns -> Nat] /\ toClient' \in [Conns -> Nat] /\ UNCHANGED <<link, role, fds>>
    BY <1>1, <1>3, <1>5, EchoHolds DEF users
  <2>2. Types'
    BY <1>1, <1>3, <1>5, <2>1 DEF Types
  <2>3. Queued' /\ Table'
    BY <1>1, <1>3, <1>5, <2>1 DEF Queued, Table
  <2> QED BY <1>4, <2>1, <2>2, <2>3
<1>6. CASE /\ AtEnd(c) /\ fds' = [fds EXCEPT ![Server] = @ \ {c}]
           /\ accept_fds' = [accept_fds EXCEPT ![i] = NoConn]
           /\ UNCHANGED <<role, toServer, toClient, link, backlog>>
  <2>1. /\ accept_fds'[i] = NoConn /\ \A j \in 1..FdSize : j # i => accept_fds'[j] = accept_fds[j]
        /\ fds'[Server] = fds[Server] \ {c} /\ \A p \in Procs : p # Server => fds'[p] = fds[p]
    BY <1>3, <1>6 DEF Types
  <2>2. Types' /\ OneLine'
    BY <1>1, <1>3, <1>6 DEF Types, OneLine
  <2>3. Queued'
    <3>1. \A p \in Procs : fds'[p] \subseteq fds[p]
      BY <2>1
    <3>2. \A d \in Conns : \A j \in 1..FdSize : accept_fds'[j] = d => accept_fds[j] = d
      BY <2>1, Constants
    <3> QED BY <1>1, <1>6, <3>1, <3>2 DEF Queued
  <2>4. Table'
    <3>1. Cardinality(fds'[Server]) <= FdLimit
      <4>1. IsFiniteSet(fds[Server])
        BY <1>3, Constants, FS_Subset DEF Types
      <4>2. IsFiniteSet(fds'[Server]) /\ Cardinality(fds'[Server]) <= Cardinality(fds[Server])
        BY <2>1, <4>1, FS_Subset
      <4> QED BY <4>1, <4>2, FS_CardinalityType, Constants DEF Table
    <3>2. \A j, k \in 1..FdSize : accept_fds'[j] = accept_fds'[k] /\ j # k => accept_fds'[j] = NoConn
      BY <2>1 DEF Table
    <3>3. \A j \in 1..FdSize : accept_fds'[j] # NoConn => j <= max_pos
      BY <2>1 DEF Table
    <3>4. \A d \in Conns : d \in fds'[Server] <=> \E j \in 1..FdSize : accept_fds'[j] = d
      <4>1. \A d \in Conns : d # c => ((\E j \in 1..FdSize : accept_fds'[j] = d) <=> (\E j \in 1..FdSize : accept_fds[j] = d))
        BY <1>3, <2>1, Constants DEF c
      <4>2. ~ \E j \in 1..FdSize : accept_fds'[j] = c
        BY <1>3, <2>1, Constants DEF Table, c
      <4> QED BY <1>3, <2>1, <4>1, <4>2 DEF Table
    <3> QED BY <1>1, <1>3, <1>6, <3>1, <3>2, <3>3, <3>4 DEF Table
  <2> QED BY <1>4, <2>2, <2>3, <2>4
<1>7. CASE /\ AtReset(c) /\ Die(Server) /\ backlog' = <<>>
           /\ UNCHANGED <<toServer, toClient, link, accept_fds>>
  <2>1. /\ role' = [role EXCEPT ![Server] = "dead"] /\ fds' = [fds EXCEPT ![Server] = {}]
        /\ role'[Server] = "dead" /\ \A p \in Procs : p # Server => role'[p] = role[p]
        /\ fds'[Server] = {} /\ \A p \in Procs : p # Server => fds'[p] = fds[p]
    BY <1>3, <1>7 DEF Die, Types
  <2>2. Types' /\ OneLine'
    BY <1>1, <1>3, <1>7, <2>1 DEF Types, OneLine
  <2>3. Queued'
    <3>1. \A d : ~ Contains(backlog', d)
      BY <1>7 DEF Contains
    <3>2. \A p \in Procs, d \in Conns : (d \in fds'[p] => d \in fds[p]) /\ (role'[p] = d => role[p] = d)
      BY <2>1, Constants
    <3> QED BY <1>1, <1>7, <3>1, <3>2 DEF Queued
  <2>4. Table'
    <3>1. Cardinality(fds'[Server]) <= FdLimit
      <4>1. fds'[Server] = {} /\ Cardinality({}) = 0
        BY <2>1, FS_EmptySet
      <4> QED BY <4>1, Constants
    <3> QED BY <1>1, <1>3, <1>7, <2>1, <3>1 DEF Table
  <2> QED BY <1>4, <2>2, <2>3, <2>4
<1> QED BY <1>2, <1>5, <1>6, <1>7 DEF c

-----------------------------------------------------------------------------
(* The epoll server.                                                       *)

(* epoll_wait returns every event there is reason for.                     *)
LEMMA EpollWaitHolds ==
  ASSUME IInv, program = "epoll", NEW w \in Alive, EpollWait(w), UNCHANGED selectVars
  PROVE  IInv'
<1> USE DEF IInv
<1> DEFINE ready == {c \in edge \cap fds[w] : Readable(c)} \cup (IF backlog # <<>> THEN {Listen} ELSE {})
<1>1. /\ events[w] = {} /\ events' = [events EXCEPT ![w] = ready] /\ edge' = edge \ fds[w]
      /\ UNCHANGED <<program, client, sent, got, backlog, toServer, toClient, link, role, fds,
                     accept_fds, max_pos, fd_sets>>
  BY DEF EpollWait, users, wires, procs, selectVars
<1>2. /\ w \in Procs /\ events'[w] = ready /\ \A p \in Procs : p # w => events'[p] = events[p]
      /\ ready \subseteq fds[w] \cup {Listen}
  BY <1>1 DEF Alive, Types
<1>3. Types' /\ OneLine' /\ Queued'
  BY <1>1, <1>2 DEF Types, OneLine, Queued
<1>4. Table' /\ Forked'
  BY <1>1 DEF Table, Forked
<1>5. Registered'
  <2>1. ASSUME NEW p \in Procs, NEW c \in Conns, c \in fds[p], toServer[c] # 0 \/ link[c] \in {"fin", "rst"}
        PROVE  c \in edge' \cup events'[p]
    <3>1. Readable(c) /\ c \in edge \cup events[p]
      BY <2>1 DEF Registered, Readable
    <3>2. CASE p = w
      BY <1>1, <1>2, <2>1, <3>1, <3>2
    <3>3. CASE p # w
      BY <1>1, <1>2, <2>1, <3>1, <3>3 DEF Registered
    <3> QED BY <3>2, <3>3
  <2>2. \A p \in Procs : events'[p] \subseteq fds[p] \cup {Listen}
    BY <1>2 DEF Registered
  <2> QED BY <1>1, <2>1, <2>2 DEF Registered, Readable
<1> QED BY <1>3, <1>4, <1>5

(* A connection is registered with the process that was first.             *)
LEMMA EpollAcceptHolds ==
  ASSUME IInv, program = "epoll", NEW w \in Alive, EpollAccept(w), UNCHANGED selectVars
  PROVE  IInv'
<1> USE DEF IInv
<1> DEFINE c == Head(backlog)
<1>1. /\ events' = [events EXCEPT ![w] = @ \ {Listen}]
      /\ UNCHANGED <<program, client, sent, got, toServer, toClient, link, role,
                     accept_fds, max_pos, fd_sets>>
  BY DEF EpollAccept, users, wires, selectVars
<1>2. \/ /\ backlog # <<>> /\ HasRoom(w) /\ fds' = [fds EXCEPT ![w] = @ \cup {c}]
         /\ edge' = IF Readable(c) THEN edge \cup {c} ELSE edge
         /\ backlog' = Tail(backlog)
      \/ UNCHANGED <<fds, edge, backlog>>
  BY DEF EpollAccept
<1>3. /\ w \in Procs /\ events'[w] = events[w] \ {Listen} /\ \A p \in Procs : p # w => events'[p] = events[p]
      /\ role[w] # "unborn" /\ w \in Workers
  BY <1>1 DEF Alive, Types, Registered
<1>4. Table' /\ Forked' /\ OneLine'
  BY <1>1 DEF Table, Forked, OneLine
<1>5. \A p \in Procs, d \in Conns : d \in events'[p] <=> d \in events[p]
  BY <1>3, Constants
<1> HIDE DEF c
<1>6. CASE UNCHANGED <<fds, edge, backlog>>
  <2>1. Types' /\ Queued'
    BY <1>1, <1>6 DEF Types, Queued
  <2>2. \A p \in Procs : events'[p] \subseteq events[p]
    BY <1>3
  <2>3. Registered'
    BY <1>1, <1>5, <1>6, <2>2 DEF Registered, Readable
  <2> QED BY <1>4, <2>1, <2>3
<1>7. CASE /\ backlog # <<>> /\ HasRoom(w) /\ fds' = [fds EXCEPT ![w] = @ \cup {c}]
           /\ edge' = IF Readable(c) THEN edge \cup {c} ELSE edge
           /\ backlog' = Tail(backlog)
  <2>1. /\ c \in Conns /\ Tail(backlog) \in Seq(Conns) /\ Contains(backlog, c)
        /\ \A d : Contains(Tail(backlog), d) <=> Contains(backlog, d) /\ d # c
        /\ \A i, j \in 1..Len(Tail(backlog)) : i # j => Tail(backlog)[i] # Tail(backlog)[j]
    BY <1>7, HeadFacts DEF Queued, Types, c
  <2>2. client[c] # "new" /\ (\A p \in Procs : c \notin fds[p])
    BY <2>1 DEF Queued
  <2>3. fds'[w] = fds[w] \cup {c} /\ \A p \in Procs : p # w => fds'[p] = fds[p]
    BY <1>3, <1>7 DEF Types
  <2>4. Types'
    BY <1>1, <1>7, <2>1 DEF Types
  <2>5. Queued'
    <3>1. ASSUME NEW d \in Conns, client[d] = "new" \/ Contains(backlog', d)
          PROVE  /\ ~ (client[d] = "new" /\ Contains(backlog', d))
                 /\ \A p \in Procs : d \notin fds'[p] /\ role[p] # d
                 /\ \A i \in 1..FdSize : accept_fds[i] # d
      <4>1. d # c /\ (client[d] = "new" \/ Contains(backlog, d)) /\ (Contains(backlog', d) => Contains(backlog, d))
        BY <1>7, <2>1, <2>2, <3>1
      <4> QED BY <2>3, <4>1 DEF Queued
    <3> QED BY <1>1, <1>7, <2>1, <3>1 DEF Queued
  <2>6. Registered'
    <3>1. \A p \in Procs \ Workers : fds'[p] = {}
      BY <1>3, <2>3 DEF Registered
    <3>2. \A p, q \in Procs : p # q => fds'[p] \cap fds'[q] = {}
      BY <2>2, <2>3 DEF Registered
    <3>3. \A p \in Procs : events'[p] \subseteq fds'[p] \cup {Listen}
      BY <1>3, <2>3 DEF Registered
    <3>4. ASSUME NEW p \in Procs, NEW d \in Conns, d \in fds'[p], Readable(d)
          PROVE  d \in edge' \cup events'[p]
      <4>1. CASE d = c
        BY <1>7, <3>4, <4>1
      <4>2. CASE d # c
        BY <1>5, <1>7, <2>3, <3>4, <4>2 DEF Registered
      <4> QED BY <4>1, <4>2
    <3> QED BY <1>1, <3>1, <3>2, <3>3, <3>4 DEF Registered, Readable
  <2> QED BY <1>4, <2>4, <2>5, <2>6
<1> QED BY <1>2, <1>6, <1>7 DEF c

(* One recv for an event, and a new event for what stays behind it.        *)
LEMMA EpollReadHolds ==
  ASSUME IInv, program = "epoll", NEW w \in Alive, NEW c \in Conns, EpollRead(w, c), UNCHANGED selectVars
  PROVE  IInv'
<1> USE DEF IInv
<1>1. /\ c \in events[w] /\ events' = [events EXCEPT ![w] = @ \ {c}]
      /\ UNCHANGED <<program, client, sent, got, backlog, accept_fds, max_pos, fd_sets>>
  BY DEF EpollRead, users, selectVars
<1>2. \/ Echo(c) /\ edge' = IF link[c] = "fin" THEN edge \cup {c} ELSE edge
      \/ ReadEnd(w, c)
      \/ ReadError(w, c)
  BY DEF EpollRead
<1>3. /\ w \in Procs /\ events'[w] = events[w] \ {c} /\ \A p \in Procs : p # w => events'[p] = events[p]
      /\ \A p \in Procs : events'[p] \subseteq events[p]
      /\ c # Listen /\ c \in fds[w] /\ \A p \in Procs : p # w => c \notin fds[p]
  BY <1>1, Constants DEF Alive, Types, Registered
<1>4. Table' /\ Forked'
  BY <1>1 DEF Table, Forked
<1>5. CASE Echo(c) /\ edge' = IF link[c] = "fin" THEN edge \cup {c} ELSE edge
  <2>1. /\ OneLine' /\ toServer' \in [Conns -> Nat] /\ toClient' \in [Conns -> Nat] /\ UNCHANGED <<link, role, fds>>
        /\ toServer'[c] = 0 /\ \A d \in Conns : d # c => toServer'[d] = toServer[d]
    BY <1>1, <1>5, EchoHolds DEF users
  <2>2. Types' /\ Queued'
    BY <1>1, <1>3, <2>1 DEF Types, Queued
  <2>3. link[c] # "rst"
    BY <1>5 DEF OneLine, Echo
  <2>4. ASSUME NEW p \in Procs, NEW d \in Conns, d \in fds[p], toServer'[d] # 0 \/ link[d] \in {"fin", "rst"}
        PROVE  d \in edge' \cup events'[p]
    <3>1. CASE d = c
      BY <1>5, <2>1, <2>3, <2>4, <3>1
    <3>2. CASE d # c
      <4>1. d \in edge \cup events[p]
        BY <2>1, <2>4, <3>2 DEF Registered, Readable
      <4> QED BY <1>3, <1>5, <3>2, <4>1
    <3> QED BY <3>1, <3>2
  <2>5. \A p \in Procs : events'[p] \subseteq fds[p] \cup {Listen}
    BY <1>3 DEF Registered
  <2>6. Registered'
    BY <1>1, <2>1, <2>4, <2>5 DEF Registered, Readable
  <2> QED BY <1>4, <2>1, <2>2, <2>6
<1>6. CASE ReadEnd(w, c)
  <2>1. /\ fds' = [fds EXCEPT ![w] = @ \ {c}] /\ edge' = edge \ {c} /\ UNCHANGED <<role, toServer, toClient, link>>
        /\ fds'[w] = fds[w] \ {c} /\ \A p \in Procs : p # w => fds'[p] = fds[p]
    BY <1>3, <1>6 DEF ReadEnd, wires, Types
  <2>2. Types' /\ OneLine' /\ Queued'
    BY <1>1, <1>3, <2>1 DEF Types, OneLine, Queued
  <2>3. ASSUME NEW p \in Procs, NEW d \in Conns, d \in fds'[p], toServer[d] # 0 \/ link[d] \in {"fin", "rst"}
        PROVE  d \in edge' \cup events'[p]
    <3>1. d # c /\ d \in fds[p]
      BY <1>3, <2>1, <2>3
    <3>2. d \in edge \cup events[p]
      BY <2>3, <3>1 DEF Registered, Readable
    <3> QED BY <1>3, <2>1, <3>1, <3>2
  <2>4. \A p \in Procs : events'[p] \subseteq fds'[p] \cup {Listen}
    BY <1>3, <2>1 DEF Registered
  <2>5. /\ \A p \in Procs \ Workers : fds'[p] = {}
        /\ \A p, q \in Procs : p # q => fds'[p] \cap fds'[q] = {}
    BY <2>1 DEF Registered
  <2>6. Registered'
    BY <1>1, <2>1, <2>3, <2>4, <2>5 DEF Registered, Readable
  <2> QED BY <1>4, <2>2, <2>6
<1>7. CASE ReadError(w, c)
  <2>1. /\ toServer[c] = 0 /\ link[c] = "rst" /\ link' = [link EXCEPT ![c] = "dead"]
        /\ UNCHANGED <<toServer, toClient, edge, role, fds>>
        /\ link'[c] = "dead" /\ \A d \in Conns : d # c => link'[d] = link[d]
    BY <1>7 DEF ReadError, AtReset, procs, Types
  <2>2. Types' /\ Queued'
    BY <1>1, <1>3, <2>1 DEF Types, Queued
  <2>3. OneLine'
    BY <1>1, <2>1 DEF OneLine
  <2>4. ASSUME NEW p \in Procs, NEW d \in Conns, d \in fds[p], toServer[d] # 0 \/ link'[d] \in {"fin", "rst"}
        PROVE  d \in edge \cup events'[p]
    <3>1. d # c
      BY <2>1, <2>4
    <3>2. d \in edge \cup events[p]
      BY <2>1, <2>4, <3>1 DEF Registered, Readable
    <3> QED BY <1>3, <3>1, <3>2
  <2>5. \A p \in Procs : events'[p] \subseteq fds[p] \cup {Listen}
    BY <1>3 DEF Registered
  <2>6. Registered'
    BY <1>1, <2>1, <2>4, <2>5 DEF Registered, Readable
  <2> QED BY <1>4, <2>2, <2>3, <2>6
<1> QED BY <1>2, <1>5, <1>6, <1>7

-----------------------------------------------------------------------------
(* The fork server.                                                        *)

(* The child is a process that was free.                                   *)
LEMMA FirstUnborn ==
  ASSUME Unborn # {}
  PROVE  (CHOOSE u \in Unborn : \A v \in Unborn : u <= v) \in Unborn
<1>1. Unborn \in SUBSET Nat
  BY Constants DEF Unborn, Procs
<1> QED BY <1>1, LeastNumber

(* The connection goes to the child, or to nobody when there is none.      *)
LEMMA ForkAcceptHolds ==
  ASSUME IInv, program = "fork", NEW p \in Procs, ForkAccept(p), UNCHANGED <<selectVars, events>>
  PROVE  IInv'
<1> USE DEF IInv
<1> DEFINE c == Head(backlog)
<1>1. /\ role[p] = "accept"
      /\ UNCHANGED <<program, client, sent, got, toServer, toClient, link, edge,
                     accept_fds, max_pos, fd_sets, events>>
  BY DEF ForkAccept, users, wires, selectVars
<1>2. \/ /\ backlog # <<>> /\ Fork(p, fds[p] \cup {c}, c) /\ backlog' = Tail(backlog)
      \/ Fork(p, fds[p], "spin") /\ UNCHANGED backlog
  BY DEF ForkAccept
<1>3. Table' /\ Registered' /\ OneLine' /\ fds[p] \in SUBSET Conns
  BY <1>1 DEF Table, Registered, OneLine, Types
<1> HIDE DEF c
<1>4. CASE Fork(p, fds[p], "spin") /\ UNCHANGED backlog
  <2>1. /\ role' \in [Procs -> Conns \cup {"unborn", "run", "accept", "spin", "dead"}]
        /\ fds' \in [Procs -> SUBSET Conns]
        /\ \A r \in Procs : fds'[r] = fds[r] \/ fds'[r] = fds[p]
        /\ \/ Unborn = {} /\ role' = role
           \/ \E q \in Procs : /\ role[q] = "unborn" /\ role'[q] = "spin"
                              /\ \A r \in Procs : r # q => role'[r] = role[r]
    <3>1. CASE Unborn = {}
      <4>1. fds' = [fds EXCEPT ![p] = fds[p]] /\ role' = role
        BY <1>3, <1>4, <3>1 DEF Fork
      <4> QED BY <1>3, <1>4, <3>1, <4>1 DEF Types
    <3>2. CASE Unborn # {}
      <4> DEFINE q == CHOOSE u \in Unborn : \A v \in Unborn : u <= v
      <4>1. q \in Procs /\ role[q] = "unborn"
        BY <3>2, FirstUnborn DEF Unborn
      <4>2. role' = [role EXCEPT ![q] = "spin"] /\ fds' = [fds EXCEPT ![p] = fds[p], ![q] = fds[p]]
        BY <1>3, <1>4, <3>2 DEF Fork
      <4> HIDE DEF q
      <4>3. role'[q] = "spin" /\ \A r \in Procs : r # q => role'[r] = role[r]
        BY <4>1, <4>2 DEF Types
      <4>4. \A r \in Procs : fds'[r] = fds[r] \/ fds'[r] = fds[p]
        BY <4>1, <4>2 DEF Types
      <4>5. /\ role' \in [Procs -> Conns \cup {"unborn", "run", "accept", "spin", "dead"}]
            /\ fds' \in [Procs -> SUBSET Conns]
        BY <1>3, <1>4, <4>1, <4>2 DEF Types
      <4> QED BY <4>1, <4>3, <4>4, <4>5
    <3> QED BY <3>1, <3>2
  <2>2. /\ \A r \in Procs : role'[r] = role[r] \/ (role[r] = "unborn" /\ role'[r] = "spin")
        /\ Unborn = {} => Unborn' = {}
    BY <2>1 DEF Unborn
  <2>3. \A r \in Procs, d \in Conns : role'[r] = d <=> role[r] = d
    BY <2>2, Constants
  <2>4. \A r \in Procs, d \in Conns : d \in fds'[r] => \E q \in Procs : d \in fds[q]
    BY <2>1
  <2>5. Types'
    BY <1>1, <1>4, <2>1 DEF Types
  <2>6. Queued'
    BY <1>1, <1>4, <2>3, <2>4 DEF Queued
  <2>7. Forked'
    <3>1. role'[Server] = "accept" /\ \A r \in Procs : role'[r] # "run"
      BY <2>2, Constants DEF Forked
    <3>2. \A r, q \in Procs : role'[r] = role'[q] /\ role'[r] \in Conns => r = q
      BY <1>1, <2>3 DEF Forked
    <3>3. ASSUME NEW r \in Procs, NEW d \in Conns, d \in fds'[r], link[d] = "open"
          PROVE  Unborn' = {} \/ \E q \in Procs : role'[q] = d
      BY <1>1, <2>2, <2>3, <2>4, <3>3 DEF Forked
    <3> QED BY <1>1, <3>1, <3>2, <3>3 DEF Forked
  <2> QED BY <1>3, <2>5, <2>6, <2>7
<1>5. CASE backlog # <<>> /\ Fork(p, fds[p] \cup {c}, c) /\ backlog' = Tail(backlog)
  <2>1. /\ c \in Conns /\ Tail(backlog) \in Seq(Conns) /\ Contains(backlog, c)
        /\ \A d : Contains(Tail(backlog), d) <=> Contains(backlog, d) /\ d # c
        /\ \A i, j \in 1..Len(Tail(backlog)) : i # j => Tail(backlog)[i] # Tail(backlog)[j]
    BY <1>5, HeadFacts DEF Queued, Types, c
  <2>2. client[c] # "new" /\ (\A r \in Procs : c \notin fds[r] /\ role[r] # c)
    BY <2>1 DEF Queued
  <2>3. /\ role' \in [Procs -> Conns \cup {"unborn", "run", "accept", "spin", "dead"}]
        /\ fds' \in [Procs -> SUBSET Conns]
        /\ \A r \in Procs : fds'[r] = fds[r] \/ fds'[r] = fds[p] \cup {c}
        /\ \/ Unborn = {} /\ role' = role
           \/ \E q \in Procs : /\ role[q] = "unborn" /\ role'[q] = c
                              /\ \A r \in Procs : r # q => role'[r] = role[r]
    <3>1. CASE Unborn = {}
      <4>1. fds' = [fds EXCEPT ![p] = fds[p] \cup {c}] /\ role' = role
        BY <1>3, <1>5, <2>1, <3>1 DEF Fork
      <4> QED BY <1>3, <1>5, <2>1, <3>1, <4>1 DEF Types
    <3>2. CASE Unborn # {}
      <4> DEFINE q == CHOOSE u \in Unborn : \A v \in Unborn : u <= v
      <4>1. q \in Procs /\ role[q] = "unborn"
        BY <3>2, FirstUnborn DEF Unborn
      <4>2. role' = [role EXCEPT ![q] = c] /\ fds' = [fds EXCEPT ![p] = fds[p] \cup {c}, ![q] = fds[p] \cup {c}]
        BY <1>3, <1>5, <2>1, <3>2 DEF Fork
      <4> HIDE DEF q
      <4>3. role'[q] = c /\ \A r \in Procs : r # q => role'[r] = role[r]
        BY <4>1, <4>2 DEF Types
      <4>4. \A r \in Procs : fds'[r] = fds[r] \/ fds'[r] = fds[p] \cup {c}
        BY <4>1, <4>2 DEF Types
      <4>5. /\ role' \in [Procs -> Conns \cup {"unborn", "run", "accept", "spin", "dead"}]
            /\ fds' \in [Procs -> SUBSET Conns]
        BY <1>3, <1>5, <2>1, <4>1, <4>2 DEF Types
      <4> QED BY <4>1, <4>3, <4>4, <4>5
    <3> QED BY <3>1, <3>2
  <2>4. /\ \A r \in Procs : role'[r] = role[r] \/ (role[r] = "unborn" /\ role'[r] = c)
        /\ \A r, q \in Procs : role'[r] = c /\ role'[q] = c => r = q
        /\ Unborn = {} => Unborn' = {}
        /\ Unborn = {} \/ \E q \in Procs : role'[q] = c
    BY <2>2, <2>3 DEF Unborn
  <2>5. \A r \in Procs, d \in Conns : d # c => (role'[r] = d <=> role[r] = d)
    BY <2>4, Constants
  <2>6. \A r \in Procs, d \in Conns : d # c /\ d \in fds'[r] => \E q \in Procs : d \in fds[q]
    BY <2>3
  <2>7. Types'
    BY <1>1, <1>5, <2>1, <2>3 DEF Types
  <2>8. Queued'
    <3>1. ASSUME NEW d \in Conns, client[d] = "new" \/ Contains(backlog', d)
          PROVE  /\ ~ (client[d] = "new" /\ Contains(backlog', d))
                 /\ \A r \in Procs : d \notin fds'[r] /\ role'[r] # d
                 /\ \A i \in 1..FdSize : accept_fds[i] # d
      <4>1. d # c /\ (client[d] = "new" \/ Contains(backlog, d)) /\ (Contains(backlog', d) => Contains(backlog, d))
        BY <1>5, <2>1, <2>2, <3>1
      <4> QED BY <2>5, <2>6, <4>1 DEF Queued
    <3> QED BY <1>1, <1>5, <2>1, <3>1 DEF Queued
  <2>9. Forked'
    <3>1. role'[Server] = "accept" /\ \A r \in Procs : role'[r] # "run"
      BY <2>1, <2>4, Constants DEF Forked
    <3>2. ASSUME NEW r \in Procs, NEW q \in Procs, role'[r] = role'[q], role'[r] \in Conns
          PROVE  r = q
      <4>1. CASE role'[r] = c
        BY <2>4, <3>2, <4>1
      <4>2. CASE role'[r] # c
        <5>1. role[r] = role'[r] /\ role[q] = role'[q]
          BY <2>5, <3>2, <4>2
        <5> QED BY <1>1, <3>2, <5>1 DEF Forked
      <4> QED BY <4>1, <4>2
    <3>3. ASSUME NEW r \in Procs, NEW d \in Conns, d \in fds'[r], link[d] = "open"
          PROVE  Unborn' = {} \/ \E q \in Procs : role'[q] = d
      <4>1. CASE d = c
        BY <2>4, <4>1
      <4>2. CASE d # c
        BY <1>1, <2>4, <2>5, <2>6, <3>3, <4>2 DEF Forked
      <4> QED BY <4>1, <4>2
    <3> QED BY <1>1, <3>1, <3>2, <3>3 DEF Forked
  <2> QED BY <1>3, <2>7, <2>8, <2>9
<1> QED BY <1>2, <1>4, <1>5 DEF c

(* A child leaves its connection when the client has left it.              *)
LEMMA ForkServeHolds ==
  ASSUME IInv, program = "fork", NEW p \in Procs, ForkServe(p), UNCHANGED <<selectVars, events>>
  PROVE  IInv'
<1> USE DEF IInv
<1> DEFINE c == role[p]
<1>1. /\ c \in Conns
      /\ UNCHANGED <<program, client, sent, got, backlog, edge, accept_fds, max_pos, fd_sets, events>>
  BY DEF ForkServe, users, selectVars
<1>2. \/ Echo(c)
      \/ AtEnd(c) /\ role' = [role EXCEPT ![p] = "accept"] /\ fds' = [fds EXCEPT ![p] = @ \ {c}]
         /\ UNCHANGED <<toServer, toClient, link>>
      \/ AtReset(c) /\ role' = [role EXCEPT ![p] = "dead"] /\ fds' = [fds EXCEPT ![p] = {}]
         /\ UNCHANGED <<toServer, toClient, link>>
  BY DEF ForkServe, Die, wires
<1>3. Table' /\ Registered'
  BY <1>1 DEF Table, Registered
<1> HIDE DEF c
<1>4. CASE Echo(c)
  <2>1. OneLine' /\ toServer' \in [Conns -> Nat] /\ toClient' \in [Conns -> Nat] /\ UNCHANGED <<link, role, fds>>
    BY <1>1, <1>4, EchoHolds DEF users
  <2>2. Types'
    BY <1>1, <2>1 DEF Types
  <2>3. Queued' /\ Forked'
    BY <1>1, <2>1 DEF Queued, Forked, Unborn
  <2> QED BY <1>3, <2>1, <2>2, <2>3
<1>5. ASSUME NEW next \in {"accept", "dead"}, NEW rest \in SUBSET fds[p], link[c] # "open",
             role' = [role EXCEPT ![p] = next], fds' = [fds EXCEPT ![p] = rest],
             UNCHANGED <<toServer, toClient, link>>
      PROVE  IInv'
  <2>1. /\ role'[p] = next /\ \A q \in Procs : q # p => role'[q] = role[q]
        /\ \A q \in Procs : fds'[q] \subseteq fds[q]
    BY <1>5 DEF Types
  <2>2. /\ \A q \in Procs, d \in Conns : role'[q] = d => role[q] = d
        /\ \A q \in Procs, d \in Conns : role[q] = d /\ d # c => role'[q] = d
        /\ p # Server /\ role[p] # "unborn"
    BY <1>1, <2>1, Constants DEF Forked, c
  <2>3. Types'
    BY <1>1, <1>5 DEF Types
  <2>4. OneLine'
    BY <1>1, <1>5 DEF OneLine
  <2>5. Queued'
    BY <1>1, <2>1, <2>2 DEF Queued
  <2>6. Forked'
    <3>1. Unborn' = Unborn
      BY <1>5, <2>1, <2>2 DEF Unborn
    <3>2. role'[Server] = "accept" /\ \A q \in Procs : role'[q] # "run"
      BY <2>1, <2>2, Constants DEF Forked
    <3>3. \A q, r \in Procs : role'[q] = role'[r] /\ role'[q] \in Conns => q = r
      BY <1>1, <2>2 DEF Forked
    <3>4. ASSUME NEW q \in Procs, NEW d \in Conns, d \in fds'[q], link[d] = "open"
          PROVE  Unborn' = {} \/ \E r \in Procs : role'[r] = d
      BY <1>1, <1>5, <2>1, <2>2, <3>1, <3>4 DEF Forked
    <3> QED BY <1>1, <1>5, <3>2, <3>3, <3>4 DEF Forked
  <2> QED BY <1>3, <2>3, <2>4, <2>5, <2>6
<1>6. CASE AtEnd(c) /\ role' = [role EXCEPT ![p] = "accept"] /\ fds' = [fds EXCEPT ![p] = @ \ {c}]
           /\ UNCHANGED <<toServer, toClient, link>>
  <2>1. link[c] # "open" /\ fds[p] \ {c} \in SUBSET fds[p] /\ fds' = [fds EXCEPT ![p] = fds[p] \ {c}]
    BY <1>6 DEF AtEnd
  <2> QED BY <1>5, <1>6, <2>1
<1>7. CASE AtReset(c) /\ role' = [role EXCEPT ![p] = "dead"] /\ fds' = [fds EXCEPT ![p] = {}]
           /\ UNCHANGED <<toServer, toClient, link>>
  <2>1. link[c] # "open" /\ {} \in SUBSET fds[p]
    BY <1>7 DEF AtReset
  <2> QED BY <1>5, <1>7, <2>1
<1> QED BY <1>2, <1>4, <1>6, <1>7 DEF c

-----------------------------------------------------------------------------
(* Every step of a client or of a server process.                          *)
LEMMA NextHolds ==
  ASSUME IInv, [Next]_vars
  PROVE  IInv'
<1>1. ASSUME NEW c \in Conns, ClientStep(c), UNCHANGED <<selectVars, events>>
      PROVE  IInv'
  <2>1. program' = program /\ UNCHANGED procs
    BY <1>1 DEF ClientStep, Connect, SendLine, Receive, Close
  <2>2. ClientRest
    BY <1>1, <2>1 DEF ClientRest
  <2> QED BY <1>1, <2>2, ConnectHolds, SendLineHolds, ReceiveHolds, CloseHolds DEF ClientStep
<1>2. ASSUME NEW p \in Procs, ServerStep(p)
      PROVE  IInv'
  <2>1. CASE program = "select" /\ p = Server /\ SelectStep /\ UNCHANGED events
    BY <2>1, SelectHolds, SelectAcceptHolds, SelectServeHolds DEF SelectStep
  <2>2. CASE program = "epoll" /\ EpollStep(p) /\ UNCHANGED selectVars
    BY <2>2, EpollWaitHolds, EpollAcceptHolds, EpollReadHolds DEF EpollStep
  <2>3. CASE program = "fork" /\ ForkStep(p) /\ UNCHANGED <<selectVars, events>>
    BY <2>3, ForkAcceptHolds, ForkServeHolds DEF ForkStep
  <2> QED BY <1>2, <2>1, <2>2, <2>3 DEF ServerStep
<1>3. CASE UNCHANGED vars
  <2>1. UNCHANGED <<program, client, sent, got, backlog, toServer, toClient, link, edge, role, fds,
                    accept_fds, max_pos, fd_sets, events>>
    BY <1>3 DEF vars, users, wires, procs, selectVars
  <2>2. Types' /\ OneLine' /\ Queued'
    BY <2>1 DEF IInv, Types, OneLine, Queued
  <2>3. Table' /\ Registered' /\ Forked'
    BY <2>1 DEF IInv, Table, Registered, Forked, Readable, Unborn
  <2> QED BY <2>2, <2>3 DEF IInv
<1> QED BY <1>1, <1>2, <1>3 DEF Next

(* For any number of clients, lines, processes and descriptors, whichever  *)
(* server runs: connections, descriptors and events belong together.       *)
THEOREM ServersAreOrderly == Spec => []IInv
<1>1. Init => IInv
  BY InitHolds
<1>2. IInv /\ [Next]_vars => IInv'
  BY NextHolds
<1> QED BY <1>1, <1>2, PTL DEF Spec

-----------------------------------------------------------------------------
(* What the invariant says of who reads from a connection.                 *)
LEMMA InvariantAttends ==
  ASSUME IInv
  PROVE  Attended
<1> SUFFICES ASSUME NEW c \in Conns
    PROVE  /\ Cardinality(Readers(c)) <= 1
           /\ Accepted(c) /\ link[c] = "open" => Readers(c) # {} \/ (program = "fork" /\ Unborn = {})
           /\ program = "select" /\ Server \in Alive => (Accepted(c) <=> Readers(c) # {})
           /\ program = "epoll" /\ Accepted(c) /\ Readable(c) => c \in edge \/ \E p \in Alive : c \in events[p]
  BY DEF Attended
<1> USE DEF IInv
<1>0. program \in {"select", "epoll", "fork"} /\ c # NoConn
  BY Constants DEF Types
<1>1. CASE program = "select"
  <2>1. Readers(c) = {i \in 1..max_pos : accept_fds[i] = c}
    BY <1>1 DEF Readers
  <2>2. \A i \in 1..max_pos : i \in 1..FdSize
    BY Constants DEF Types
  <2>3. \A i, j \in Readers(c) : i = j
    BY <1>0, <1>1, <2>1, <2>2 DEF Table
  <2>4. Accepted(c) <=> Server \in Alive /\ c \in fds[Server]
    BY <1>1, Constants DEF Accepted, Alive, Table
  <2>5. Server \in Alive => role[Server] = "run"
    BY <1>1 DEF Alive, Table
  <2>6. (\E i \in 1..FdSize : accept_fds[i] = c) <=> Readers(c) # {}
    <3>1. \A i \in 1..FdSize : accept_fds[i] = c => i \in 1..max_pos
      <4>1. max_pos \in Nat /\ \A i \in 1..FdSize : accept_fds[i] = c => i <= max_pos
        BY <1>0, <1>1, Constants DEF Table, Types
      <4> QED BY <4>1, Constants
    <3> QED BY <2>1, <2>2, <3>1
  <2>7. Server \in Alive => (Accepted(c) <=> Readers(c) # {})
    BY <1>1, <2>4, <2>5, <2>6 DEF Table
  <2> QED BY <1>1, <2>3, <2>4, <2>7, AtMostOne
<1>2. CASE program = "epoll"
  <2>1. Readers(c) = {p \in Alive : c \in fds[p]}
    BY <1>2 DEF Readers
  <2>2. \A p, q \in Readers(c) : p = q
    BY <1>2, <2>1 DEF Registered, Alive
  <2>3. Accepted(c) => Readers(c) # {}
    BY <2>1 DEF Accepted
  <2>4. Accepted(c) /\ Readable(c) => c \in edge \/ \E p \in Alive : c \in events[p]
    BY <1>2 DEF Accepted, Registered, Alive
  <2> QED BY <1>2, <2>2, <2>3, <2>4, AtMostOne
<1>3. CASE program = "fork"
  <2>1. Readers(c) = {p \in Procs : role[p] = c}
    BY <1>3 DEF Readers
  <2>2. \A p, q \in Readers(c) : p = q
    BY <1>3, <2>1 DEF Forked
  <2>3. Accepted(c) /\ link[c] = "open" => Readers(c) # {} \/ Unborn = {}
    BY <1>3, <2>1 DEF Accepted, Alive, Forked
  <2> QED BY <1>3, <2>2, <2>3, AtMostOne
<1> QED BY <1>0, <1>1, <1>2, <1>3

(* Every open connection has one reader, unless fork has failed, and no    *)
(* event of the epoll server is lost (tcp_server.cpp:53,                   *)
(* tcp_server_select.cpp:91, tcp_server_epoll.cpp:123).                    *)
THEOREM EveryClientAttended == Spec => []Attended
BY InvariantAttends, ServersAreOrderly, PTL

-----------------------------------------------------------------------------
(* The refinement.                                                         *)
Visitor(c) ==
  CASE client[c] = "new" -> "out" [] client[c] = "gone" -> "gone" [] OTHER -> "in"

(* A server that runs, and one that was brought down.                      *)
LEMMA UpFacts ==
  ASSUME IInv
  PROVE  /\ program # "select" => Alive # {}
         /\ program = "select" => (Alive # {} <=> role[Server] = "run")
<1> USE DEF IInv
<1>1. CASE program = "select"
  BY <1>1, Constants DEF Table, Alive
<1>2. CASE program = "epoll"
  <2>1. PICK w \in Workers : w \in Procs
    BY Constants
  <2> QED BY <1>2, <2>1 DEF Registered, Alive
<1>3. CASE program = "fork"
  BY <1>3, Constants DEF Forked, Alive
<1> QED BY <1>1, <1>2, <1>3, Constants DEF Types

(* The servers start as the abstract service does.                         *)
LEMMA InitRefines == Init => Service!Init
<1> SUFFICES ASSUME Init PROVE Service!Init
  OBVIOUS
<1>1. IInv
  BY InitHolds
<1>2. [c \in Conns |-> Visitor(c)] = [c \in Conns |-> "out"]
  BY DEF Init, ClientsInit, Visitor
<1>3. sent = [c \in Conns |-> 0] /\ got = [c \in Conns |-> 0]
  BY DEF Init, ClientsInit
<1>4. Alive # {}
  <2>1. program = "select" => role[Server] = "run"
    BY Constants DEF Init
  <2> QED BY <1>1, <2>1, UpFacts
<1> QED BY <1>2, <1>3, <1>4 DEF Service!Init, Visitor

(* A step of a client is one of its visitor.                               *)
LEMMA ClientRefines ==
  ASSUME IInv, NEW c \in Conns, ClientStep(c), ClientRest
  PROVE  Service!Next
<1> USE DEF IInv
<1> DEFINE V == [d \in Conns |-> Visitor(d)]
<1>0. /\ program' = program /\ UNCHANGED role /\ (Alive # {})' = (Alive # {})
      /\ (program = "select")' = (program = "select")
  BY DEF ClientRest, procs, Alive
<1>1. \A d \in Conns : V[d] = Visitor(d) /\ V'[d] = Visitor(d)'
  OBVIOUS
<1>2. CASE Connect(c)
  <2>1. /\ client[c] = "new" /\ client' = [client EXCEPT ![c] = "typing"] /\ Alive # {}
        /\ UNCHANGED <<sent, got>>
    BY <1>2 DEF Connect
  <2>2. V[c] = "out" /\ V' = [V EXCEPT ![c] = "in"]
    BY <2>1 DEF Visitor, Types
  <2>3. Service!Enter(c)
    BY <1>0, <2>1, <2>2 DEF Service!Enter, Visitor
  <2> QED BY <2>3 DEF Service!Next
<1>3. CASE SendLine(c)
  <2>1. /\ client[c] = "typing" /\ sent[c] < MaxLines /\ sent' = [sent EXCEPT ![c] = @ + 1]
        /\ \E next \in {"waiting", "closing"} : client' = [client EXCEPT ![c] = next]
        /\ UNCHANGED got /\ got[c] = sent[c]
    BY <1>3 DEF SendLine, OneLine
  <2>2. V[c] = "in" /\ V' = V
    BY <2>1 DEF Visitor, Types
  <2>3. Service!Say(c)
    BY <1>0, <2>1, <2>2 DEF Service!Say, Visitor
  <2> QED BY <2>3 DEF Service!Next
<1>4. CASE Receive(c)
  <2>1. /\ client[c] = "waiting" /\ client' = [client EXCEPT ![c] = "typing"] /\ UNCHANGED sent
        /\ got' = [got EXCEPT ![c] = toClient[c]] /\ toClient[c] = sent[c] /\ sent[c] = got[c] + 1
    BY <1>4 DEF Receive, OneLine
  <2>2. V[c] = "in" /\ V' = V
    BY <2>1 DEF Visitor, Types
  <2>3. got[c] < sent[c] /\ got' = [got EXCEPT ![c] = @ + 1]
    BY <2>1 DEF Types
  <2>4. Service!Hear(c)
    BY <1>0, <2>1, <2>2, <2>3 DEF Service!Hear, Visitor
  <2> QED BY <2>4 DEF Service!Next
<1>5. CASE Close(c)
  <2>1. /\ client[c] \in {"typing", "waiting", "closing"} /\ client' = [client EXCEPT ![c] = "gone"]
        /\ UNCHANGED <<sent, got>>
    BY <1>5 DEF Close
  <2>2. V[c] = "in" /\ V' = [V EXCEPT ![c] = "gone"]
    BY <2>1 DEF Visitor, Types
  <2>3. Service!Leave(c)
    BY <1>0, <2>1, <2>2 DEF Service!Leave, Visitor
  <2> QED BY <2>3 DEF Service!Next
<1> QED BY <1>2, <1>3, <1>4, <1>5 DEF ClientStep

(* A step of a server is not seen, unless it is its last one: that is      *)
(* somebody's doing who has left with an echo unread.                      *)
LEMMA ServerRefines ==
  ASSUME IInv, IInv', NEW p \in Procs, ServerStep(p)
  PROVE  Service!Next \/ UNCHANGED Service!vars
<1>1. UNCHANGED <<program, client, sent, got>>
  <2>1. CASE program = "select" /\ p = Server /\ SelectStep /\ UNCHANGED events
    BY <2>1 DEF SelectStep, Select, SelectAccept, SelectServe, users
  <2>2. CASE program = "epoll" /\ EpollStep(p) /\ UNCHANGED selectVars
    BY <2>2 DEF EpollStep, EpollWait, EpollAccept, EpollRead, users
  <2>3. CASE program = "fork" /\ ForkStep(p) /\ UNCHANGED <<selectVars, events>>
    BY <2>3 DEF ForkStep, ForkAccept, ForkServe, users
  <2> QED BY <2>1, <2>2, <2>3 DEF ServerStep
<1>2. UNCHANGED [c \in Conns |-> Visitor(c)]
  BY <1>1 DEF Visitor
<1>3. CASE (Alive # {})' = (Alive # {})
  BY <1>1, <1>2, <1>3 DEF Service!vars, Visitor
<1>4. CASE (Alive # {})' # (Alive # {})
  <2>1. program = "select" /\ SelectStep /\ role' # role
    <3>1. role' # role
      BY <1>4 DEF Alive
    <3>2. CASE program = "epoll" /\ EpollStep(p)
      BY <3>1, <3>2 DEF EpollStep, EpollWait, EpollAccept, EpollRead, Echo, ReadEnd, ReadError, procs
    <3>3. CASE program = "fork"
      <4>1. role[Server] = "accept" /\ role'[Server] = "accept"
        BY <1>1, <3>3 DEF IInv, Forked
      <4>2. Alive # {} /\ Alive' # {}
        BY <4>1, Constants DEF Alive
      <4> QED BY <1>4, <4>2
    <3> QED BY <3>1, <3>2, <3>3 DEF ServerStep
  <2>2. PICK i \in 1..max_pos : SelectServe(i) /\ role' # role
    BY <2>1 DEF SelectStep, Select, SelectAccept, procs
  <2>3. AtReset(accept_fds[i]) /\ Die(Server) /\ Server \in Alive
    BY <2>2 DEF SelectServe, Echo, procs
  <2>4. accept_fds[i] \in Conns
    BY <2>1, <2>2, Constants DEF SelectServe, InSet, IInv, Types, Table
  <2>5. Alive' = {}
    <3>1. role'[Server] = "dead"
      BY <2>3, Constants DEF Die, IInv, Types
    <3> QED BY <1>1, <2>1, <3>1 DEF IInv, Table, Alive
  <2>6. \E c \in Conns : Visitor(c) = "gone" /\ got[c] < sent[c]
    <3>1. link[accept_fds[i]] = "rst"
      BY <2>3 DEF AtReset
    <3> QED BY <2>4, <3>1 DEF IInv, OneLine, Visitor
  <2>7. \E c \in Conns : [d \in Conns |-> Visitor(d)][c] = "gone" /\ got[c] < sent[c]
    BY <2>6
  <2>8. Service!Fail
    BY <1>1, <1>2, <2>1, <2>3, <2>5, <2>7 DEF Service!Fail, Visitor
  <2> QED BY <2>8 DEF Service!Next
<1> QED BY <1>3, <1>4

(* Whichever server runs, it echoes every line once and in order, and only *)
(* the select server goes down, by a client that left its echo unread      *)
(* (tcp_server.cpp:64, tcp_server_select.cpp:157, tcp_server_epoll.cpp:150,*)
(* tcp_cline.cpp:52).                                                      *)
THEOREM ServersEcho == Spec => ImplementsEcho
<1>1. ASSUME IInv, IInv', [Next]_vars PROVE [Service!Next]_(Service!vars)
  <2>1. CASE UNCHANGED vars
    <3>1. UNCHANGED <<program, client, sent, got, role>>
      BY <2>1 DEF vars, users, procs
    <3> QED BY <3>1 DEF Service!vars, Alive
  <2>2. ASSUME NEW c \in Conns, ClientStep(c), UNCHANGED <<selectVars, events>>
        PROVE  Service!Next
    <3>1. program' = program /\ UNCHANGED procs
      BY <2>2 DEF ClientStep, Connect, SendLine, Receive, Close
    <3> QED BY <1>1, <2>2, <3>1, ClientRefines DEF ClientRest
  <2> QED BY <1>1, <2>1, <2>2, ServerRefines DEF Next
<1> QED BY <1>1, InitRefines, ServersAreOrderly, PTL DEF Spec, ImplementsEcho, Service!Spec
=============================================================================
