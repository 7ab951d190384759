----------------------------- MODULE ChatProofs -----------------------------
(***************************************************************************)
(* The chat server keeps its list and its descriptors in step and is a     *)
(* room, for any number of people and texts; the chat client passes on     *)
(* what is typed in order.                                                 *)
(***************************************************************************)
EXTENDS ChatServer, ChatClient, FiniteSetTheorems, WellFoundedInduction, TLAPS

Distinct(s) == \A i, j \in 1..Len(s) : s[i] = s[j] => i = j
InSeq(s) == {s[i] : i \in 1..Len(s)}

(* A descriptor table and a list that agree.                               *)
Agree(sock, list) ==
  /\ sock \in [Fds -> Conns \cup {NoConn}]
  /\ list \in Seq(Fds)
  /\ Distinct(list)
  /\ InSeq(list) = {f \in Fds : sock[f] # NoConn}
  /\ \A f, g \in InSeq(list) : sock[f] = sock[g] => f = g

Types ==
  /\ alive \in BOOLEAN
  /\ Agree(socket, clientsList)
  /\ backlog \in Seq(Conns)
  /\ input \in [Conns -> Seq(Nat)]
  /\ link \in [Conns -> {"open", "fin", "rst", "broken"}]
  /\ peer \in [Conns -> {"new", "up", "gone"}]
  /\ sent \in [Conns -> 0..MaxTexts]
  /\ heard = [c \in Conns |-> heard[c]]
  /\ said \in [Conns -> Nat]

(* Nobody waits twice, or in the room.                                     *)
Waiting ==
  /\ Distinct(backlog)
  /\ \A i \in 1..Len(backlog), f \in Fds : socket[f] # backlog[i]

(* Who has a connection has connected.                                     *)
Connections ==
  /\ \A i \in 1..Len(backlog) : peer[backlog[i]] # "new"
  /\ \A f \in Fds : socket[f] # NoConn => peer[socket[f]] # "new"

(* The kernel knows who has hung up.                                       *)
Ends == \A c \in Conns : link[c] = "open" <=> peer[c] # "gone"

(* What waits to be read is in order, and later than what was passed on.   *)
Increasing(s, low, high) ==
  /\ \A i \in 1..Len(s) : s[i] > 0 => low < s[i] /\ s[i] <= high
  /\ \A i, j \in 1..Len(s) : i < j /\ s[i] > 0 /\ s[j] > 0 => s[i] < s[j]

Texts == \A c \in Conns : said[c] <= sent[c] /\ Increasing(input[c], said[c], sent[c])

IInv == Types /\ Connections /\ Ends /\ Texts /\ (alive => Waiting)

-----------------------------------------------------------------------------
(* Induction, over a set of numbers.                                       *)
LEMMA SetInduction ==
  ASSUME NEW S \in SUBSET Nat, 0 \in S, \A n \in S : n + 1 \in S
  PROVE  \A n \in Nat : n \in S
<1> DEFINE R == OpToRel(<, Nat)
           T == Nat \ S
<1>1. IsWellFoundedOn(R, Nat)
  BY NatLessThanWellFounded
<1>2. \A i, j \in Nat : i < j => <<i, j>> \in R
  BY DEF OpToRel
<1> HIDE DEF R
<1>3. ASSUME T # {} PROVE FALSE
  <2>1. T \in SUBSET Nat
    OBVIOUS
  <2> HIDE DEF T
  <2>2. PICK n \in T : \A m \in T : ~ (<<m, n>> \in R)
    BY <1>1, <1>3, <2>1, WFMin
  <2> USE DEF T
  <2>3. n # 0 /\ n \in Nat /\ n \notin S
    OBVIOUS
  <2>4. n - 1 \in Nat /\ n - 1 < n /\ (n - 1) + 1 = n
    BY <2>3
  <2>5. n - 1 \in S
    BY <1>2, <2>2, <2>3, <2>4
  <2> QED BY <2>3, <2>4, <2>5
<1> QED BY <1>3

-----------------------------------------------------------------------------
(* The list without some of its elements.                                  *)
Kept(s, S, k, F) ==
  F = [n \in 0..k |-> IF n = 0 THEN <<>>
                      ELSE IF s[n] \in S THEN F[n - 1] ELSE Append(F[n - 1], s[n])]

LEMMA KeptExists ==
  ASSUME NEW s, NEW S
  PROVE  \A k \in Nat : \E F : Kept(s, S, k, F)
<1> DEFINE T == {k \in Nat : \E F : Kept(s, S, k, F)}
<1>1. 0 \in T
  <2> DEFINE F == [n \in 0..0 |-> <<>>]
  <2>1. Kept(s, S, 0, F)
    BY DEF Kept
  <2> QED BY <2>1
<1>2. ASSUME NEW k \in T PROVE k + 1 \in T
  <2>1. PICK F : Kept(s, S, k, F)
    OBVIOUS
  <2> DEFINE G == [n \in 0..(k + 1) |->
                     IF n <= k THEN F[n]
                     ELSE IF s[n] \in S THEN F[k] ELSE Append(F[k], s[n])]
  <2>2. ASSUME NEW n \in 0..(k + 1)
        PROVE  G[n] = IF n = 0 THEN <<>>
                      ELSE IF s[n] \in S THEN G[n - 1] ELSE Append(G[n - 1], s[n])
    <3>1. CASE n <= k
      <4>1. n \in 0..k /\ (n # 0 => n - 1 \in 0..(k + 1) /\ n - 1 <= k)
        BY <3>1
      <4>2. F[n] = IF n = 0 THEN <<>>
                   ELSE IF s[n] \in S THEN F[n - 1] ELSE Append(F[n - 1], s[n])
        BY <2>1, <4>1 DEF Kept
      <4>3. G[n] = F[n] /\ (n # 0 => G[n - 1] = F[n - 1])
        BY <3>1, <4>1
      <4> HIDE DEF G
      <4> QED BY <4>2, <4>3
    <3>2. CASE n > k
      <4>1. n = k + 1 /\ n # 0 /\ n - 1 = k /\ k \in 0..(k + 1) /\ k <= k /\ ~ (n <= k)
        BY <3>2
      <4>2. G[k] = F[k] /\ G[n] = IF s[n] \in S THEN F[k] ELSE Append(F[k], s[n])
        BY <4>1
      <4> HIDE DEF G
      <4> QED BY <4>1, <4>2
    <3> QED BY <3>1, <3>2
  <2>3. Kept(s, S, k + 1, G)
    BY <2>2 DEF Kept
  <2> HIDE DEF G
  <2> QED BY <2>3
<1> HIDE DEF T
<1>3. \A k \in Nat : k \in T
  BY <1>1, <1>2, SetInduction, T \in SUBSET Nat DEF T
<1> QED BY <1>3 DEF T

(* What is left of a list, whose elements it has once if the list had.     *)
LEMMA WithoutIs ==
  ASSUME NEW D, NEW s \in Seq(D), NEW S
  PROVE  /\ Without(s, S) \in Seq(D)
         /\ InSeq(Without(s, S)) = InSeq(s) \ S
         /\ Distinct(s) => Distinct(Without(s, S))
<1> DEFINE N == Len(s)
           F == CHOOSE G : Kept(s, S, N, G)
           First(n) == {s[i] : i \in 1..n}
           Good(n) == /\ F[n] \in Seq(D)
                      /\ InSeq(F[n]) = First(n) \ S
                      /\ Distinct(s) => Distinct(F[n])
           T == {n \in Nat : n <= N => Good(n)}
<1>1. N \in Nat /\ s = [i \in 1..N |-> s[i]] /\ \A i \in 1..N : s[i] \in D
  OBVIOUS
<1>2. Without(s, S) = F[N]
  BY DEF Without, Kept
<1>3. Kept(s, S, N, F)
  BY <1>1, KeptExists
<1> HIDE DEF F, N
<1>4. 0 \in T
  <2>1. F[0] = <<>>
    BY <1>1, <1>3 DEF Kept
  <2>2. InSeq(<<>>) = {} /\ First(0) = {} /\ Distinct(<<>>) /\ <<>> \in Seq(D)
    BY DEF InSeq, Distinct
  <2> QED BY <2>1, <2>2
<1>5. ASSUME NEW n \in T PROVE n + 1 \in T
  <2>1. SUFFICES ASSUME n + 1 <= N PROVE Good(n + 1)
    OBVIOUS
  <2>2. n \in Nat /\ n <= N /\ n + 1 \in 1..N /\ n + 1 \in 0..N /\ n + 1 # 0 /\ (n + 1) - 1 = n
    BY <1>1, <2>1
  <2>3. Good(n)
    BY <2>2
  <2>4. F[n + 1] = IF s[n + 1] \in S THEN F[n] ELSE Append(F[n], s[n + 1])
    BY <1>3, <2>2 DEF Kept
  <2>5. First(n + 1) = First(n) \cup {s[n + 1]}
    BY <2>2
  <2>6. CASE s[n + 1] \in S
    BY <2>3, <2>4, <2>5, <2>6
  <2>7. CASE s[n + 1] \notin S
    <3> DEFINE t == F[n]
               u == Append(t, s[n + 1])
    <3>1. t \in Seq(D) /\ s[n + 1] \in D
      BY <1>1, <2>2, <2>3
    <3> HIDE DEF t
    <3>2. u \in Seq(D) /\ Len(u) = Len(t) + 1 /\ Len(t) \in Nat
          /\ u[Len(t) + 1] = s[n + 1] /\ \A i \in 1..Len(t) : u[i] = t[i]
      BY <3>1
    <3> HIDE DEF u
    <3>3. InSeq(u) = InSeq(t) \cup {s[n + 1]}
      BY <3>2 DEF InSeq
    <3>4. ASSUME Distinct(s) PROVE Distinct(u)
      <4>1. Distinct(t) /\ s[n + 1] \notin InSeq(t)
        <5>1. s[n + 1] \notin First(n)
          BY <1>1, <2>2, <3>4 DEF Distinct, N
        <5> QED BY <2>3, <3>4, <5>1 DEF t
      <4>2. \A i \in 1..Len(t) : t[i] # s[n + 1]
        BY <4>1 DEF InSeq
      <4> QED BY <3>2, <4>1, <4>2 DEF Distinct
    <3>5. F[n + 1] = u /\ InSeq(t) = First(n) \ S
      BY <2>3, <2>4, <2>7 DEF t, u
    <3> QED BY <2>5, <2>7, <3>2, <3>3, <3>4, <3>5
  <2> QED BY <2>6, <2>7
<1> HIDE DEF T
<1>6. \A n \in Nat : n \in T
  BY <1>4, <1>5, SetInduction, T \in SUBSET Nat DEF T
<1>7. Good(N)
  <2>1. N \in T /\ N <= N
    BY <1>1, <1>6
  <2> HIDE DEF Good
  <2> QED BY <2>1 DEF T
<1>8. First(N) = InSeq(s)
  BY DEF InSeq, N
<1> QED BY <1>2, <1>7, <1>8

(* The least of a set of numbers.                                          *)
LEMMA LeastNumber ==
  ASSUME NEW T \in SUBSET Nat, T # {}
  PROVE  \E n \in T : \A m \in T : n <= m
<1> DEFINE R == OpToRel(<, Nat)
<1>1. IsWellFoundedOn(R, Nat)
  BY NatLessThanWellFounded
<1>2. \A i, j \in Nat : i < j => <<i, j>> \in R
  BY DEF OpToRel
<1> HIDE DEF R
<1>3. PICK n \in T : \A m \in T : ~ (<<m, n>> \in R)
  BY <1>1, WFMin
<1>4. ASSUME NEW m \in T PROVE n <= m
  <2>1. ~(<<m, n>> \in R)
    BY <1>3
  <2>2. ~(m < n)
    BY <1>2, <2>1
  <2> QED BY <2>2
<1> QED BY <1>4

-----------------------------------------------------------------------------
(* The descriptors of the server.                                          *)
Shut(sock, out) == [f \in Fds |-> IF f \in out THEN NoConn ELSE sock[f]]

LEMMA FdsAreNumbers == Fds \subseteq Nat /\ 0 \notin Fds /\ Listen \notin Fds
BY SizesAssumption, ConnsAssumption DEF Fds

(* Closing descriptors keeps the list in step with the table.              *)
LEMMA AgreeAfterClose ==
  ASSUME NEW sock, NEW list, NEW out, Agree(sock, list)
  PROVE  Agree(Shut(sock, out), Without(list, out))
<1>1. /\ Without(list, out) \in Seq(Fds)
      /\ InSeq(Without(list, out)) = InSeq(list) \ out
      /\ Distinct(Without(list, out))
  BY WithoutIs DEF Agree
<1>2. Shut(sock, out) \in [Fds -> Conns \cup {NoConn}]
  BY DEF Agree, Shut
<1>3. \A f \in Fds : Shut(sock, out)[f] = IF f \in out THEN NoConn ELSE sock[f]
  BY DEF Shut
<1> QED BY <1>1, <1>2, <1>3 DEF Agree

(* accept takes the least of the descriptors that are left, if any is.     *)
LEMMA DescriptorLeft ==
  ASSUME Free # {}
  PROVE  LowestFree \in Fds /\ socket[LowestFree] = NoConn
<1> DEFINE F == Free
<1>1. F \in SUBSET Nat /\ F # {}
  BY FdsAreNumbers DEF Free
<1> HIDE DEF F
<1>2. \E f \in F : \A g \in F : f <= g
  BY <1>1, LeastNumber
<1>3. LowestFree \in F
  BY <1>2 DEF F, LowestFree
<1> QED BY <1>3 DEF F, Free, Open

(* The list grows with the table.                                          *)
LEMMA AgreeAfterOpen ==
  ASSUME NEW sock, NEW list, NEW c \in Conns, NEW f \in Fds, Agree(sock, list),
         sock[f] = NoConn, \A g \in Fds : sock[g] # c
  PROVE  Agree([sock EXCEPT ![f] = c], Append(list, f))
<1> DEFINE new == [sock EXCEPT ![f] = c]
           more == Append(list, f)
           n == Len(list)
<1>1. new \in [Fds -> Conns \cup {NoConn}] /\ new[f] = c /\ \A g \in Fds \ {f} : new[g] = sock[g]
  BY DEF Agree
<1>2. /\ more \in Seq(Fds) /\ Len(more) = n + 1 /\ n \in Nat
      /\ more[n + 1] = f /\ \A i \in 1..n : more[i] = list[i]
  BY DEF Agree
<1> HIDE DEF new, more
<1>3. f \notin InSeq(list) /\ c # NoConn
  BY ConnsAssumption DEF Agree
<1>4. InSeq(more) = InSeq(list) \cup {f}
  BY <1>2 DEF InSeq, n
<1>5. Distinct(more)
  <2>1. \A i \in 1..n : list[i] # f
    BY <1>3 DEF InSeq, n
  <2>2. Distinct(list)
    BY DEF Agree
  <2> QED BY <1>2, <2>1, <2>2 DEF Distinct, n
<1>6. InSeq(more) = {g \in Fds : new[g] # NoConn}
  BY <1>1, <1>3, <1>4 DEF Agree
<1>7. \A g, h \in InSeq(more) : new[g] = new[h] => g = h
  BY <1>1, <1>3, <1>4 DEF Agree
<1>8. Agree(new, more)
  BY <1>1, <1>2, <1>5, <1>6, <1>7 DEF Agree
<1> QED BY <1>8 DEF new, more

-----------------------------------------------------------------------------
(* What SendToAllClient leaves behind.                                     *)
Targets(list, skip) == InSeq(list) \ {skip}
Failing(sock, list, skip) == {f \in Targets(list, skip) : Fails(sock[f])}

Hear(told, line, before) ==
  heard' = [c \in Conns |-> IF c \in told /\ link[c] = "open" THEN Append(before[c], line)
                                                             ELSE before[c]]

(* A send to a closed peer breaks its link.                                *)
Break(hangups) ==
  \E R : /\ \A c \in R : link[c] = "fin"
         /\ link' = [c \in Conns |-> IF c \in hangups \cup R THEN "broken" ELSE link[c]]

Delivered(sock, list, skip, line, before, hangups) ==
  LET out == Failing(sock, list, skip)
  IN  /\ alive' = alive
      /\ socket' = Shut(sock, out)
      /\ clientsList' = Without(list, out)
      /\ Hear({sock[f] : f \in Targets(list, skip) \ out}, line, before)
      /\ Break(hangups)

Interrupted(sock, list, skip, line, before, hangups, smashed) ==
  /\ alive' = FALSE
  /\ socket' = socket /\ clientsList' = clientsList
  /\ \E told \in SUBSET {sock[f] : f \in Targets(list, skip)} : Hear(told, line, before)
  /\ Break(hangups)
  /\ smashed \/ \E f \in Targets(list, skip) : Kills(sock[f]) \/ Fails(sock[f])

LEMMA SendOutcome ==
  ASSUME NEW sock, NEW list \in Seq(Fds), NEW skip, NEW line, NEW before, NEW hangups, NEW pending,
         NEW smashed, SendToAllClient(sock, list, skip, line, before, hangups, pending, smashed)
  PROVE  \/ Delivered(sock, list, skip, line, before, hangups)
         \/ Interrupted(sock, list, skip, line, before, hangups, smashed)
<1> DEFINE targets == Without(list, {skip})
           N == Len(targets)
           Conn(k) == sock[targets[k]]
           kills == {k \in 1..N : Kills(Conn(k))}
           fails == {k \in 1..N : Fails(Conn(k))}
           Told(n) == {Conn(k) : k \in (1..n) \ fails}
           resets(n) == {c \in Told(n) : link[c] = "fin"}
           SendUpTo(n) ==
             /\ heard' = [c \in Conns |->
                  IF c \in Told(n) /\ link[c] = "open" THEN Append(before[c], line) ELSE before[c]]
             /\ link' = [c \in Conns |-> IF c \in hangups \cup resets(n) THEN "broken" ELSE link[c]]
           Whole == /\ SendUpTo(N)
                    /\ Close(sock, list, {targets[k] : k \in fails})
                    /\ UNCHANGED alive
           broken == IF smashed THEN {1, N + 1} ELSE {}
           Part == \E k \in kills \cup fails \cup broken :
                     /\ SendUpTo(k - 1)
                     /\ alive' = FALSE
                     /\ UNCHANGED <<socket, clientsList, ready>>
<1>1. Whole \/ Part
  BY DEF SendToAllClient
<1>2. InSeq(targets) = Targets(list, skip)
  BY WithoutIs DEF Targets
<1> HIDE DEF targets
<1>3. N \in Nat /\ Targets(list, skip) = {targets[k] : k \in 1..N}
  <2>1. targets \in Seq(Fds)
    BY WithoutIs DEF targets
  <2> QED BY <1>2, <2>1 DEF InSeq
<1> HIDE DEF N
<1>4. \A n : SendUpTo(n) => Hear(Told(n), line, before) /\ Break(hangups)
  <2>1. \A n, c : c \in resets(n) => link[c] = "fin"
    OBVIOUS
  <2> HIDE DEF Told, resets
  <2> QED BY <2>1 DEF Hear, Break
<1> HIDE DEF SendUpTo
<1>5. CASE Whole
  <2> DEFINE out == Failing(sock, list, skip)
  <2>1. {targets[k] : k \in fails} = out
    BY <1>3 DEF Failing
  <2>2. Told(N) = {sock[f] : f \in Targets(list, skip) \ out}
    BY <1>3 DEF Failing
  <2>3. socket' = Shut(sock, out) /\ clientsList' = Without(list, out)
    BY <1>5, <2>1 DEF Close, Shut
  <2> HIDE DEF Told, out
  <2>4. Hear({sock[f] : f \in Targets(list, skip) \ out}, line, before) /\ Break(hangups)
    BY <1>4, <1>5, <2>2
  <2> QED BY <1>5, <2>3, <2>4 DEF Delivered, out
<1>6. CASE Part
  <2>1. PICK k \in kills \cup fails \cup broken :
          SendUpTo(k - 1) /\ alive' = FALSE /\ UNCHANGED <<socket, clientsList, ready>>
    BY <1>6
  <2>2. k \in 1..(N + 1)
    BY <1>3
  <2>3. Told(k - 1) \subseteq {sock[f] : f \in Targets(list, skip)}
    BY <1>3, <2>2
  <2>4. smashed \/ \E f \in Targets(list, skip) : Kills(sock[f]) \/ Fails(sock[f])
    <3>1. CASE k \in broken
      BY <3>1
    <3>2. CASE k \in kills \cup fails
      BY <1>3, <3>2
    <3> QED BY <3>1, <3>2
  <2> HIDE DEF Told, kills, fails, broken
  <2>5. Hear(Told(k - 1), line, before) /\ Break(hangups)
    BY <1>4, <2>1
  <2> QED BY <2>1, <2>3, <2>4, <2>5 DEF Interrupted
<1> QED BY <1>1, <1>5, <1>6

-----------------------------------------------------------------------------
(* What waits to be read.                                                  *)
LEMMA IncreasingRest ==
  ASSUME NEW s \in Seq(Nat), NEW low \in Nat, NEW high \in Nat, Increasing(s, low, high)
  PROVE  LET t == SubSeq(s, 3, Len(s)) IN
         /\ t \in Seq(Nat) /\ Increasing(t, low, high)
         /\ s # <<>> /\ Head(s) > 0 => Increasing(t, Head(s), high) /\ Head(s) <= high
                                       /\ low < Head(s)
<1> DEFINE t == SubSeq(s, 3, Len(s))
           n == Len(s)
<1>1. n \in Nat /\ \A i \in 1..n : s[i] \in Nat
  OBVIOUS
<1>2. t \in Seq(Nat) /\ Len(t) \in Nat
  OBVIOUS
<1>3. \A i \in 1..Len(t) : i + 2 \in 1..n /\ t[i] = s[i + 2]
  OBVIOUS
<1>4. s # <<>> => 1 \in 1..n /\ Head(s) = s[1]
  OBVIOUS
<1> HIDE DEF t, n
<1>5. \A i \in 1..n : s[i] > 0 => low < s[i] /\ s[i] <= high
  BY DEF Increasing, n
<1>6. \A i, j \in 1..n : i < j /\ s[i] > 0 /\ s[j] > 0 => s[i] < s[j]
  BY DEF Increasing, n
<1>7. \A i, j \in 1..Len(t) : i < j /\ t[i] > 0 /\ t[j] > 0 => t[i] < t[j]
  <2> SUFFICES ASSUME NEW i \in 1..Len(t), NEW j \in 1..Len(t), i < j, t[i] > 0, t[j] > 0
               PROVE  t[i] < t[j]
    OBVIOUS
  <2>1. i + 2 \in 1..n /\ j + 2 \in 1..n /\ i + 2 < j + 2
    BY <1>2, <1>3
  <2> QED BY <1>3, <1>6, <2>1
<1>8. \A i \in 1..Len(t) : t[i] > 0 => low < t[i] /\ t[i] <= high
  BY <1>3, <1>5
<1>9. ASSUME s # <<>>, Head(s) > 0
      PROVE  /\ \A i \in 1..Len(t) : t[i] > 0 => Head(s) < t[i]
             /\ Head(s) <= high /\ low < Head(s)
  <2>1. 1 \in 1..n /\ Head(s) = s[1] /\ s[1] > 0
    BY <1>4, <1>9
  <2>2. ASSUME NEW i \in 1..Len(t), t[i] > 0 PROVE Head(s) < t[i]
    <3>1. i + 2 \in 1..n /\ t[i] = s[i + 2] /\ i \in Nat /\ 1 < i + 2
      <4>1. \A k \in 1..Len(t) : k \in Nat /\ 1 < k + 2
        BY <1>2
      <4>2. i \in Nat /\ 1 < i + 2
        BY <4>1
      <4> QED BY <1>3, <4>2
    <3> QED BY <1>6, <2>1, <2>2, <3>1
  <2> QED BY <1>5, <2>1, <2>2
<1> QED BY <1>2, <1>7, <1>8, <1>9 DEF Increasing, t

LEMMA IncreasingMore ==
  ASSUME NEW s \in Seq(Nat), NEW low \in Nat, NEW high \in Nat, low <= high, Increasing(s, low, high)
  PROVE  /\ s \o <<high + 1, 0>> \in Seq(Nat) /\ Increasing(s \o <<high + 1, 0>>, low, high + 1)
         /\ s \o <<high + 1>> \in Seq(Nat) /\ Increasing(s \o <<high + 1>>, low, high + 1)
         /\ s \o <<0>> \in Seq(Nat) /\ Increasing(s \o <<0>>, low, high)
<1> DEFINE n == Len(s)
<1>1. n \in Nat /\ \A i \in 1..n : s[i] \in Nat
  OBVIOUS
<1>2. \A i \in 1..n : s[i] > 0 => low < s[i] /\ s[i] <= high
  BY DEF Increasing
<1>3. \A i, j \in 1..n : i < j /\ s[i] > 0 /\ s[j] > 0 => s[i] < s[j]
  BY DEF Increasing
<1>4. ASSUME NEW t \in Seq(Nat), Len(t) \in n..(n + 2), \A i \in 1..n : t[i] = s[i],
             n + 1 \in 1..Len(t) => t[n + 1] \in {0, high + 1},
             n + 2 \in 1..Len(t) => t[n + 2] = 0
      PROVE  /\ Increasing(t, low, high + 1)
             /\ (n + 1 \in 1..Len(t) => t[n + 1] = 0) => Increasing(t, low, high)
  <2> DEFINE m == Len(t)
  <2>1. m \in Nat /\ \A i \in 1..m : t[i] \in Nat /\ (i \in 1..n \/ i = n + 1 \/ i = n + 2)
    BY <1>1, <1>4
  <2> HIDE DEF m, n
  <2>2. \A i \in 1..m : t[i] > 0 => \/ i \in 1..n /\ t[i] = s[i] /\ low < t[i] /\ t[i] <= high
                                    \/ i = n + 1 /\ t[i] = high + 1
    BY <1>2, <1>4, <2>1 DEF m
  <2>3. ASSUME NEW i \in 1..m, NEW j \in 1..m, i < j, t[i] > 0, t[j] > 0
        PROVE  t[i] < t[j]
    <3>1. t[i] \in Nat /\ t[j] \in Nat /\ n \in Nat
      BY <1>1, <2>1
    <3>2. CASE i \in 1..n /\ j \in 1..n
      BY <1>3, <1>4, <2>3, <3>2
    <3>3. CASE i \in 1..n /\ j = n + 1
      BY <2>2, <2>3, <3>1, <3>3
    <3>4. CASE i = n + 1
      BY <2>2, <2>3, <3>1, <3>4
    <3> QED BY <2>2, <2>3, <3>2, <3>3, <3>4
  <2>4. \A i \in 1..m : t[i] > 0 => low < t[i] /\ t[i] <= high + 1
    BY <2>1, <2>2
  <2>5. (n + 1 \in 1..m => t[n + 1] = 0) => \A i \in 1..m : t[i] > 0 => low < t[i] /\ t[i] <= high
    BY <2>2
  <2> QED BY <2>3, <2>4, <2>5 DEF Increasing, m
<1>5. /\ s \o <<high + 1, 0>> \in Seq(Nat) /\ Len(s \o <<high + 1, 0>>) = n + 2
      /\ \A i \in 1..n : (s \o <<high + 1, 0>>)[i] = s[i]
      /\ (s \o <<high + 1, 0>>)[n + 1] = high + 1 /\ (s \o <<high + 1, 0>>)[n + 2] = 0
  OBVIOUS
<1>6. /\ s \o <<high + 1>> \in Seq(Nat) /\ Len(s \o <<high + 1>>) = n + 1
      /\ \A i \in 1..n : (s \o <<high + 1>>)[i] = s[i]
      /\ (s \o <<high + 1>>)[n + 1] = high + 1
  OBVIOUS
<1>7. /\ s \o <<0>> \in Seq(Nat) /\ Len(s \o <<0>>) = n + 1
      /\ \A i \in 1..n : (s \o <<0>>)[i] = s[i]
      /\ (s \o <<0>>)[n + 1] = 0
  OBVIOUS
<1>8. Increasing(s \o <<high + 1, 0>>, low, high + 1)
  <2> DEFINE t == s \o <<high + 1, 0>>
  <2>1. /\ t \in Seq(Nat) /\ Len(t) \in n..(n + 2) /\ \A i \in 1..n : t[i] = s[i]
        /\ t[n + 1] \in {0, high + 1} /\ t[n + 2] = 0
    BY <1>1, <1>5
  <2> HIDE DEF t, n
  <2>2. Increasing(t, low, high + 1)
    BY <1>4, <2>1
  <2> QED BY <2>2 DEF t
<1>9. Increasing(s \o <<high + 1>>, low, high + 1)
  <2> DEFINE t == s \o <<high + 1>>
  <2>1. /\ t \in Seq(Nat) /\ Len(t) \in n..(n + 2) /\ \A i \in 1..n : t[i] = s[i]
        /\ t[n + 1] \in {0, high + 1} /\ n + 2 \notin 1..Len(t)
    BY <1>1, <1>6
  <2> HIDE DEF t, n
  <2>2. Increasing(t, low, high + 1)
    BY <1>4, <2>1
  <2> QED BY <2>2 DEF t
<1>10. Increasing(s \o <<0>>, low, high)
  <2> DEFINE t == s \o <<0>>
  <2>1. /\ t \in Seq(Nat) /\ Len(t) \in n..(n + 2) /\ \A i \in 1..n : t[i] = s[i]
        /\ t[n + 1] = 0 /\ n + 2 \notin 1..Len(t)
    BY <1>1, <1>7
  <2> HIDE DEF t, n
  <2>2. Increasing(t, low, high)
    BY <1>4, <2>1
  <2> QED BY <2>2 DEF t
<1> QED BY <1>5, <1>6, <1>7, <1>8, <1>9, <1>10

(* A read keeps the order, and what is passed on comes before the rest.    *)
LEMMA TextsAfterRead ==
  ASSUME Types, Texts, NEW f \in Fds, Consume(f), sent' = sent,
         \/ said' = said
         \/ said' = [c \in Conns |-> IF c = socket[f] /\ Received(f) > 0 THEN Received(f) ELSE said[c]]
  PROVE  input' \in [Conns -> Seq(Nat)] /\ said' \in [Conns -> Nat] /\ Texts'
<1>1. \A c \in Conns : /\ input[c] \in Seq(Nat) /\ said[c] \in Nat /\ sent[c] \in Nat
                       /\ said[c] <= sent[c] /\ Increasing(input[c], said[c], sent[c])
  BY SizesAssumption DEF Types, Texts
<1>2. ASSUME NEW c \in Conns
      PROVE  /\ input'[c] \in Seq(Nat) /\ said'[c] \in Nat /\ said'[c] <= sent[c]
             /\ Increasing(input'[c], said'[c], sent[c])
  <2> DEFINE s == input[c]
             t == SubSeq(s, 3, Len(s))
             low == said[c]
             high == sent[c]
  <2>1. /\ s \in Seq(Nat) /\ low \in Nat /\ high \in Nat /\ low <= high /\ Increasing(s, low, high)
    BY <1>1
  <2>2. input'[c] = IF c = socket[f] THEN t ELSE s
    BY DEF Consume
  <2>3. \/ said'[c] = low
        \/ c = socket[f] /\ Received(f) > 0 /\ said'[c] = Received(f)
    OBVIOUS
  <2>4. c = socket[f] /\ Received(f) > 0 => s # <<>> /\ Received(f) = Head(s)
    BY DEF Received
  <2>5. s # <<>> => Head(s) \in Nat
    BY <2>1
  <2> HIDE DEF s, low, high
  <2>6. /\ t \in Seq(Nat) /\ Increasing(t, low, high)
        /\ s # <<>> /\ Head(s) > 0 => Increasing(t, Head(s), high) /\ Head(s) <= high
                                      /\ low < Head(s)
    BY <2>1, IncreasingRest
  <2> HIDE DEF t
  <2>7. said'[c] \in Nat /\ said'[c] <= high /\ Increasing(input'[c], said'[c], high)
    BY <2>1, <2>2, <2>3, <2>4, <2>5, <2>6
  <2> QED BY <2>1, <2>2, <2>6, <2>7 DEF high
<1>3. input' = [c \in Conns |-> input'[c]] /\ said' = [c \in Conns |-> said'[c]]
  BY DEF Consume, Types
<1>4. input' \in [Conns -> Seq(Nat)] /\ said' \in [Conns -> Nat]
  BY <1>2, <1>3
<1> QED BY <1>2, <1>4 DEF Texts

-----------------------------------------------------------------------------
(* The peers. *)
LEMMA ConnectHolds ==
  ASSUME IInv, NEW c \in Conns, Connect(c)
  PROVE  IInv'
<1>1. /\ alive' = alive /\ clientsList' = clientsList /\ socket' = socket /\ said' = said
      /\ input' = input /\ link' = link /\ sent' = sent /\ heard' = heard
      /\ peer[c] = "new" /\ peer' = [peer EXCEPT ![c] = "up"] /\ backlog' = Append(backlog, c)
  BY DEF Connect, server
<1>2. Types'
  BY <1>1 DEF IInv, Types, Agree
<1>3. Ends' /\ Texts'
  BY <1>1 DEF IInv, Types, Ends, Texts
<1> DEFINE n == Len(backlog)
           b == backlog'
<1>4. /\ n \in Nat /\ Len(b) = n + 1 /\ b[n + 1] = c
      /\ \A i \in 1..n : b[i] = backlog[i] /\ backlog[i] # c /\ peer[backlog[i]] # "new"
      /\ \A i \in 1..n : backlog[i] \in Conns
  <2> DEFINE old == backlog
  <2>1. old \in Seq(Conns) /\ b = Append(old, c)
    BY <1>1 DEF IInv, Types
  <2>2. /\ Len(old) \in Nat /\ Len(Append(old, c)) = Len(old) + 1
        /\ Append(old, c)[Len(old) + 1] = c
        /\ \A i \in 1..Len(old) : Append(old, c)[i] = old[i] /\ old[i] \in Conns
    <3> HIDE DEF old, b
    <3> QED BY <2>1
  <2>3. \A i \in 1..n : peer[backlog[i]] # "new"
    BY DEF IInv, Connections
  <2> HIDE DEF b
  <2> QED BY <1>1, <2>1, <2>2, <2>3
<1>5. \A f \in Fds : socket[f] # c
  BY <1>1, ConnsAssumption DEF IInv, Connections
<1> HIDE DEF b
<1>6. Connections'
  <2>0. \A d \in Conns : peer'[d] = IF d = c THEN "up" ELSE peer[d]
    BY <1>1 DEF IInv, Types
  <2>1. ASSUME NEW i \in 1..Len(b) PROVE peer'[b[i]] # "new"
    <3>1. i \in 1..n \/ i = n + 1
      BY <1>4
    <3>2. CASE i \in 1..n
      BY <1>4, <2>0, <3>2
    <3>3. CASE i = n + 1
      BY <1>4, <2>0, <3>3
    <3> QED BY <3>1, <3>2, <3>3
  <2>2. \A f \in Fds : socket[f] # NoConn => peer'[socket[f]] # "new"
    BY <1>1, <1>5 DEF IInv, Types, Connections, Agree
  <2> QED BY <1>1, <2>1, <2>2 DEF Connections, b
<1>7. ASSUME alive PROVE Waiting'
  <2>1. Waiting
    BY <1>7 DEF IInv
  <2>2. Distinct(b)
    <3> DEFINE old == backlog
    <3>1. Distinct(old)
      BY <2>1 DEF Waiting
    <3> QED BY <1>4, <3>1 DEF Distinct
  <2>3. \A i \in 1..Len(b), f \in Fds : socket[f] # b[i]
    BY <1>4, <1>5, <2>1 DEF Waiting
  <2> QED BY <1>1, <2>2, <2>3 DEF Waiting, b
<1> QED BY <1>1, <1>2, <1>3, <1>6, <1>7 DEF IInv

(* What no piece of text disturbs.                                         *)
LEMMA InputArrives ==
  ASSUME IInv, UNCHANGED <<server, backlog, link, peer, heard>>,
         input' \in [Conns -> Seq(Nat)], sent' \in [Conns -> 0..MaxTexts], Texts'
  PROVE  IInv'
<1>1. /\ alive' = alive /\ clientsList' = clientsList /\ socket' = socket /\ said' = said
      /\ backlog' = backlog /\ link' = link /\ peer' = peer /\ heard' = heard
  BY DEF server
<1> QED BY <1>1 DEF IInv, Types, Agree, Connections, Ends, Waiting

LEMMA SendHolds ==
  ASSUME IInv, NEW c \in Conns, Send(c)
  PROVE  IInv'
<1> DEFINE s == input[c]
           low == said[c]
           high == sent[c]
<1>1. /\ UNCHANGED <<server, backlog, link, peer, heard>> /\ said' = said
      /\ sent[c] < MaxTexts /\ sent' = [sent EXCEPT ![c] = @ + 1]
  BY DEF Send, server
<1>2. sent' \in [Conns -> 0..MaxTexts] /\ sent'[c] = high + 1
  BY <1>1, SizesAssumption DEF IInv, Types
<1>3. /\ s \in Seq(Nat) /\ low \in Nat /\ high \in Nat
      /\ low <= high /\ Increasing(s, low, high)
  BY SizesAssumption DEF IInv, Types, Texts
<1>4. \/ input' = [input EXCEPT ![c] = s \o <<high + 1, 0>>]
      \/ input' = [input EXCEPT ![c] = s \o <<high + 1>>]
  BY <1>2 DEF Send, Arrives
<1> HIDE DEF s, low, high
<1>5. /\ s \o <<high + 1, 0>> \in Seq(Nat) /\ Increasing(s \o <<high + 1, 0>>, low, high + 1)
      /\ s \o <<high + 1>> \in Seq(Nat) /\ Increasing(s \o <<high + 1>>, low, high + 1)
  BY <1>3, IncreasingMore
<1>6. PICK t \in Seq(Nat) : input' = [input EXCEPT ![c] = t] /\ Increasing(t, low, high + 1)
  BY <1>4, <1>5
<1>7. input' \in [Conns -> Seq(Nat)]
  BY <1>6 DEF IInv, Types
<1>8. Texts'
  <2>1. ASSUME NEW d \in Conns
        PROVE  said'[d] <= sent'[d] /\ Increasing(input'[d], said'[d], sent'[d])
    <3>1. CASE d = c
      <4>1. input'[d] = t /\ said'[d] = low /\ sent'[d] = high + 1
        BY <1>1, <1>2, <1>6, <3>1 DEF IInv, Types, low
      <4>2. low <= high + 1
        BY <1>3
      <4> QED BY <1>6, <4>1, <4>2
    <3>2. CASE d # c
      <4>1. input'[d] = input[d] /\ said'[d] = said[d] /\ sent'[d] = sent[d]
        BY <1>1, <1>6, <3>2 DEF IInv, Types
      <4> QED BY <4>1 DEF IInv, Texts
    <3> QED BY <3>1, <3>2
  <2> QED BY <2>1 DEF Texts
<1> QED BY <1>1, <1>2, <1>7, <1>8, InputArrives

LEMMA SendRestHolds ==
  ASSUME IInv, NEW c \in Conns, SendRest(c)
  PROVE  IInv'
<1> DEFINE t == input[c] \o <<0>>
<1>1. /\ UNCHANGED <<server, backlog, link, peer, heard>> /\ said' = said /\ sent' = sent
      /\ input' = [input EXCEPT ![c] = t]
  BY DEF SendRest, Arrives, server
<1>2. sent \in [Conns -> 0..MaxTexts] /\ said \in [Conns -> Nat] /\ input \in [Conns -> Seq(Nat)]
  BY DEF IInv, Types
<1>3. t \in Seq(Nat) /\ Increasing(t, said[c], sent[c])
  <2>1. /\ input[c] \in Seq(Nat) /\ said[c] \in Nat /\ sent[c] \in Nat
        /\ said[c] <= sent[c] /\ Increasing(input[c], said[c], sent[c])
    BY <1>2, SizesAssumption DEF IInv, Texts
  <2> QED BY <2>1, IncreasingMore
<1> HIDE DEF t
<1>4. input' \in [Conns -> Seq(Nat)] /\ \A d \in Conns : input'[d] = IF d = c THEN t ELSE input[d]
  BY <1>1, <1>2, <1>3
<1>5. Texts'
  BY <1>1, <1>3, <1>4 DEF IInv, Texts
<1> QED BY <1>1, <1>2, <1>4, <1>5, InputArrives

LEMMA HangUpHolds ==
  ASSUME IInv, NEW c \in Conns, HangUp(c)
  PROVE  IInv'
<1>1. /\ alive' = alive /\ clientsList' = clientsList /\ socket' = socket /\ said' = said
      /\ backlog' = backlog /\ input' = input /\ sent' = sent /\ heard' = heard
      /\ peer' = [peer EXCEPT ![c] = "gone"]
      /\ link' = [link EXCEPT ![c] = "fin"] \/ link' = [link EXCEPT ![c] = "rst"]
  BY DEF HangUp, server
<1>2. Types'
  BY <1>1 DEF IInv, Types, Agree
<1>3. Ends'
  BY <1>1 DEF IInv, Types, Ends
<1>4. Connections'
  BY <1>1 DEF IInv, Types, Agree, Connections
<1>5. Texts' /\ (alive => Waiting')
  BY <1>1 DEF IInv, Texts, Waiting
<1> QED BY <1>1, <1>2, <1>3, <1>4, <1>5 DEF IInv

(* Nothing that the invariant speaks of changes.                           *)
LEMMA StutterHolds ==
  ASSUME IInv, UNCHANGED <<server, backlog, link, peer, heard, input, sent>>
  PROVE  IInv'
<1> QED BY InputArrives DEF IInv, Types, Texts, server

-----------------------------------------------------------------------------
(* The server. *)
LEMMA LinksAfterBreak ==
  ASSUME Types, Ends, NEW hangups, Break(hangups), peer' = peer,
         \A c \in hangups : link[c] # "open"
  PROVE  link' \in [Conns -> {"open", "fin", "rst", "broken"}] /\ Ends'
<1>1. PICK R : /\ \A c \in R : link[c] = "fin"
               /\ link' = [c \in Conns |-> IF c \in hangups \cup R THEN "broken" ELSE link[c]]
  BY DEF Break
<1>2. link' \in [Conns -> {"open", "fin", "rst", "broken"}]
  BY <1>1 DEF Types
<1>3. ASSUME NEW c \in Conns PROVE link'[c] = "open" <=> link[c] = "open"
  BY <1>1
<1> QED BY <1>2, <1>3 DEF Ends

(* Who is at the head of the line is nowhere in the room.                  *)
LEMMA HeadOfLine ==
  ASSUME IInv, alive, backlog # <<>>
  PROVE  LET c == Head(backlog)
             b == Tail(backlog)
         IN  /\ c \in Conns /\ peer[c] # "new" /\ \A g \in Fds : socket[g] # c
             /\ b \in Seq(Conns) /\ Distinct(b)
             /\ \A i \in 1..Len(b) : /\ b[i] \in Conns /\ b[i] # c /\ peer[b[i]] # "new"
                                     /\ \A g \in Fds : socket[g] # b[i]
<1> DEFINE c == Head(backlog)
           b == Tail(backlog)
           n == Len(backlog)
<1>1. /\ backlog \in Seq(Conns) /\ n \in Nat /\ 1 \in 1..n /\ c = backlog[1]
      /\ b \in Seq(Conns) /\ Len(b) = n - 1
      /\ \A i \in 1..Len(b) : i + 1 \in 1..n /\ b[i] = backlog[i + 1] /\ i + 1 # 1 /\ i \in Nat
  <2> DEFINE s == backlog
  <2>1. s \in Seq(Conns) /\ s # <<>>
    BY DEF IInv, Types
  <2> HIDE DEF s
  <2>2. /\ Len(s) \in Nat /\ 1 \in 1..Len(s) /\ Head(s) = s[1]
        /\ Tail(s) \in Seq(Conns) /\ Len(Tail(s)) = Len(s) - 1
    BY <2>1
  <2>3. \A i \in 1..Len(Tail(s)) : /\ i + 1 \in 1..Len(s) /\ Tail(s)[i] = s[i + 1]
                                  /\ i + 1 # 1 /\ i \in Nat
    BY <2>1, <2>2
  <2> QED BY <2>1, <2>2, <2>3 DEF s
<1>2. \A i \in 1..n : backlog[i] \in Conns /\ peer[backlog[i]] # "new"
                      /\ \A g \in Fds : socket[g] # backlog[i]
  BY DEF IInv, Types, Connections, Waiting
<1>3. \A i, j \in 1..n : backlog[i] = backlog[j] => i = j
  BY DEF IInv, Waiting, Distinct
<1>4. c \in Conns /\ peer[c] # "new" /\ \A g \in Fds : socket[g] # c
  BY <1>1, <1>2
<1> HIDE DEF c, b
<1>5. \A i \in 1..Len(b) : /\ b[i] \in Conns /\ b[i] # c /\ peer[b[i]] # "new"
                           /\ \A g \in Fds : socket[g] # b[i]
  BY <1>1, <1>2, <1>3
<1>6. Distinct(b)
  <2> SUFFICES ASSUME NEW i \in 1..Len(b), NEW j \in 1..Len(b), b[i] = b[j] PROVE i = j
    BY DEF Distinct
  <2>1. i + 1 = j + 1
    BY <1>1, <1>3
  <2> QED BY <1>1, <2>1
<1> QED BY <1>1, <1>4, <1>5, <1>6 DEF c, b

(* Who is let in gets a descriptor of their own.                           *)
LEMMA Newcomer ==
  ASSUME IInv, alive, backlog # <<>>, Free # {}
  PROVE  LET c == Head(backlog)
             f == LowestFree
             sock == [socket EXCEPT ![f] = c]
             list == Append(clientsList, f)
         IN  /\ f \in Fds /\ socket[f] = NoConn
             /\ Agree(sock, list)
             /\ InSeq(list) = InSeq(clientsList) \cup {f}
             /\ sock[f] = c /\ \A g \in Fds \ {f} : sock[g] = socket[g]
<1> DEFINE c == Head(backlog)
           f == LowestFree
           sock == [socket EXCEPT ![f] = c]
           list == Append(clientsList, f)
<1>1. Agree(socket, clientsList)
  BY DEF IInv, Types
<1>2. c \in Conns /\ \A g \in Fds : socket[g] # c
  BY HeadOfLine
<1>3. f \in Fds /\ socket[f] = NoConn
  BY DescriptorLeft
<1> HIDE DEF c, f
<1>4. Agree(sock, list)
  BY <1>1, <1>2, <1>3, AgreeAfterOpen
<1>5. sock[f] = c /\ \A g \in Fds \ {f} : sock[g] = socket[g]
  BY <1>1, <1>3 DEF Agree
<1>6. InSeq(list) = InSeq(clientsList) \cup {f}
  BY <1>1, <1>2, <1>3, <1>4, <1>5, ConnsAssumption DEF Agree
<1> QED BY <1>3, <1>4, <1>5, <1>6 DEF c, f

LEMMA AcceptHolds ==
  ASSUME IInv, Accept
  PROVE  IInv'
<1> DEFINE c == Head(backlog)
           f == LowestFree
           sock == [socket EXCEPT ![f] = c]
           list == Append(clientsList, f)
           b == Tail(backlog)
           before == Hearing({c}, Welcome(f))
           hangups == {d \in {c} : link[d] = "fin"}
           pending == AddSocketFdToEpoll(c, f)
<1>1. /\ alive /\ backlog # <<>> /\ Free # {} /\ backlog' = b
      /\ SendToAllClient(sock, list, f, Joined(f), before, hangups, pending, FALSE)
      /\ said' = said /\ input' = input /\ peer' = peer /\ sent' = sent
  BY DEF Accept, peers
<1>2. /\ c \in Conns /\ f \in Fds /\ socket[f] = NoConn /\ peer[c] # "new"
      /\ \A g \in Fds : socket[g] # c
      /\ Agree(sock, list)
      /\ sock[f] = c /\ \A g \in Fds \ {f} : sock[g] = socket[g]
      /\ b \in Seq(Conns)
      /\ \A i \in 1..Len(b) : /\ b[i] \in Conns /\ b[i] # c /\ peer[b[i]] # "new"
                              /\ \A g \in Fds : socket[g] # b[i]
      /\ Distinct(b)
  BY <1>1, HeadOfLine, Newcomer
<1>3. \A d \in hangups : link[d] # "open"
  OBVIOUS
<1>4. list \in Seq(Fds)
  BY <1>2 DEF Agree
<1> HIDE DEF c, f, sock, list, before, hangups, pending, b
<1>5. \/ Delivered(sock, list, f, Joined(f), before, hangups)
      \/ Interrupted(sock, list, f, Joined(f), before, hangups, FALSE)
  BY <1>1, <1>4, SendOutcome
<1>6. Break(hangups) /\ heard' = [d \in Conns |-> heard'[d]]
  BY <1>5 DEF Delivered, Interrupted, Hear
<1>7. link' \in [Conns -> {"open", "fin", "rst", "broken"}] /\ Ends'
  BY <1>1, <1>3, <1>6, LinksAfterBreak DEF IInv
<1>8. Agree(socket', clientsList') /\ alive' \in BOOLEAN
      /\ \A g \in Fds : socket'[g] \in {NoConn, c, socket[g]}
  <2>1. CASE Delivered(sock, list, f, Joined(f), before, hangups)
    <3> DEFINE out == Failing(sock, list, f)
    <3>1. socket' = Shut(sock, out) /\ clientsList' = Without(list, out) /\ alive' = alive
      BY <2>1 DEF Delivered
    <3> HIDE DEF out
    <3>2. Agree(Shut(sock, out), Without(list, out))
      BY <1>2, AgreeAfterClose
    <3>3. \A g \in Fds : Shut(sock, out)[g] \in {NoConn, c, socket[g]}
      BY <1>2 DEF Shut
    <3> QED BY <1>1, <3>1, <3>2, <3>3
  <2>2. CASE Interrupted(sock, list, f, Joined(f), before, hangups, FALSE)
    BY <2>2 DEF Interrupted, IInv, Types
  <2> QED BY <1>5, <2>1, <2>2
<1>9. Types'
  BY <1>1, <1>2, <1>6, <1>7, <1>8 DEF IInv, Types
<1>10. Connections'
  BY <1>1, <1>2, <1>8 DEF IInv, Connections
<1>11. Waiting'
  BY <1>1, <1>2, <1>8, ConnsAssumption DEF IInv, Waiting
<1>12. Texts'
  BY <1>1 DEF IInv, Texts
<1> QED BY <1>7, <1>9, <1>10, <1>11, <1>12 DEF IInv

LEMMA AcceptFailsHolds ==
  ASSUME IInv, AcceptFails
  PROVE  IInv'
<1>1. /\ alive' = FALSE /\ clientsList' = clientsList /\ socket' = socket /\ said' = said
      /\ input' = input /\ link' = link /\ peer' = peer /\ sent' = sent /\ heard' = heard
      /\ backlog' \in {backlog, Tail(backlog)} /\ alive /\ backlog # <<>>
  BY DEF AcceptFails, peers
<1>2. backlog' \in Seq(Conns) /\ \A i \in 1..Len(backlog') : peer[backlog'[i]] # "new"
  BY <1>1, HeadOfLine DEF IInv, Types, Connections
<1> QED BY <1>1, <1>2 DEF IInv, Types, Agree, Connections, Ends, Texts

LEMMA WaitInterruptedHolds ==
  ASSUME IInv, WaitInterrupted
  PROVE  IInv'
<1>1. /\ alive' = FALSE
      /\ UNCHANGED <<clientsList, socket, said, backlog, input, link, peer, sent, heard>>
  BY DEF WaitInterrupted, peers
<1> QED BY <1>1 DEF IInv, Types, Agree, Connections, Ends, Texts

(* A handler that closes descriptors, and lets nobody in.                  *)
LEMMA RoomShrinks ==
  ASSUME IInv, backlog' = backlog, peer' = peer,
         Agree(socket', clientsList'), \A g \in Fds : socket'[g] \in {NoConn, socket[g]},
         alive' => alive
  PROVE  Connections' /\ (alive' => Waiting')
<1>1. Connections'
  BY DEF IInv, Connections
<1>2. \A i \in 1..Len(backlog) : backlog[i] \in Conns
  BY DEF IInv, Types
<1> QED BY <1>1, <1>2, ConnsAssumption DEF IInv, Waiting

LEMMA ReceiveHolds ==
  ASSUME IInv, NEW f \in Fds, Receive(f)
  PROVE  IInv'
<1>1. backlog' = backlog /\ peer' = peer /\ sent' = sent /\ alive
  BY DEF Receive, peers
<1>2. Agree(socket, clientsList)
  BY DEF IInv, Types
<1>3. CASE ClientQuits(f)
  <2>1. /\ socket' = Shut(socket, {f}) /\ clientsList' = Without(clientsList, {f})
        /\ alive' = alive /\ said' = said /\ input' = input /\ link' = link /\ heard' = heard
    BY <1>3 DEF ClientQuits, Close, Shut
  <2>2. Agree(socket', clientsList')
    BY <1>2, <2>1, AgreeAfterClose
  <2>3. \A g \in Fds : socket'[g] \in {NoConn, socket[g]}
    BY <2>1 DEF Shut
  <2>4. Connections' /\ (alive' => Waiting')
    BY <1>1, <2>1, <2>2, <2>3, RoomShrinks
  <2> QED BY <1>1, <2>1, <2>2, <2>4 DEF IInv, Types, Ends, Texts
<1>4. CASE Caution(f)
  <2>1. Consume(f) /\ clientsList' = clientsList /\ socket' = socket /\ said' = said
    BY <1>4 DEF Caution
  <2>2. input' \in [Conns -> Seq(Nat)] /\ said' \in [Conns -> Nat] /\ Texts'
    BY <1>1, <2>1, TextsAfterRead DEF IInv
  <2>3. alive' \in BOOLEAN /\ heard' = [c \in Conns |-> heard'[c]]
    BY <1>1, <1>4 DEF Caution, Hearing, IInv, Types
  <2>4. link' \in [Conns -> {"open", "fin", "rst", "broken"}] /\ Ends'
    <3>1. \/ link' = link
          \/ /\ socket[f] \in Conns
             /\ link' = [link EXCEPT ![socket[f]] = IF @ \in {"fin", "rst"} THEN "broken" ELSE @]
      BY <1>2, <1>4 DEF Caution, Agree
    <3> QED BY <1>1, <3>1 DEF IInv, Types, Ends
  <2>5. \A g \in Fds : socket'[g] \in {NoConn, socket[g]}
    BY <2>1
  <2>6. Connections' /\ (alive' => Waiting')
    BY <1>1, <1>2, <2>1, <2>5, RoomShrinks
  <2>7. Types'
    BY <1>1, <1>2, <2>1, <2>2, <2>3, <2>4 DEF IInv, Types
  <2> QED BY <2>2, <2>4, <2>6, <2>7 DEF IInv
<1>5. CASE BroadCast(f)
  <2> DEFINE line == Line(f, Received(f))
             hangups == {c \in Conns : c = socket[f] /\ ResetSeen(f)}
  <2>1. /\ Consume(f) /\ SendToAllClient(socket, clientsList, f, line, heard, hangups, ready, Overlong(f))
        /\ said' = [c \in Conns |-> IF c = socket[f] /\ Received(f) > 0 THEN Received(f) ELSE said[c]]
    BY <1>5 DEF BroadCast
  <2>2. \A c \in hangups : link[c] # "open"
    BY DEF ResetSeen
  <2> HIDE DEF line, hangups
  <2>3. input' \in [Conns -> Seq(Nat)] /\ said' \in [Conns -> Nat] /\ Texts'
    BY <1>1, <2>1, TextsAfterRead DEF IInv
  <2>4. clientsList \in Seq(Fds)
    BY <1>2 DEF Agree
  <2>5. \/ Delivered(socket, clientsList, f, line, heard, hangups)
        \/ Interrupted(socket, clientsList, f, line, heard, hangups, Overlong(f))
    BY <2>1, <2>4, SendOutcome
  <2>6. Break(hangups) /\ heard' = [d \in Conns |-> heard'[d]]
    BY <2>5 DEF Delivered, Interrupted, Hear
  <2>7. link' \in [Conns -> {"open", "fin", "rst", "broken"}] /\ Ends'
    BY <1>1, <2>2, <2>6, LinksAfterBreak DEF IInv
  <2>8. /\ Agree(socket', clientsList') /\ alive' \in BOOLEAN
        /\ \A g \in Fds : socket'[g] \in {NoConn, socket[g]}
    <3>1. CASE Delivered(socket, clientsList, f, line, heard, hangups)
      <4> DEFINE out == Failing(socket, clientsList, f)
      <4>1. socket' = Shut(socket, out) /\ clientsList' = Without(clientsList, out) /\ alive' = alive
        BY <3>1 DEF Delivered
      <4> HIDE DEF out
      <4>2. Agree(Shut(socket, out), Without(clientsList, out))
        BY <1>2, AgreeAfterClose
      <4>3. \A g \in Fds : Shut(socket, out)[g] \in {NoConn, socket[g]}
        BY DEF Shut
      <4> QED BY <1>1, <4>1, <4>2, <4>3
    <3>2. CASE Interrupted(socket, clientsList, f, line, heard, hangups, Overlong(f))
      BY <1>2, <3>2 DEF Interrupted
    <3> QED BY <2>5, <3>1, <3>2
  <2>9. Connections' /\ (alive' => Waiting')
    BY <1>1, <2>8, RoomShrinks
  <2>10. Types'
    BY <1>1, <2>3, <2>6, <2>7, <2>8 DEF IInv, Types
  <2> QED BY <2>3, <2>7, <2>9, <2>10 DEF IInv
<1> QED BY <1>3, <1>4, <1>5 DEF Receive

(* List, descriptors, connections and texts belong together                *)
(* (Server.cpp:70, Server.cpp:104, Server.cpp:157).                        *)
THEOREM RoomIsOrderly == Spec => []IInv
<1>1. Init => IInv
  <2> SUFFICES ASSUME Init PROVE IInv
    OBVIOUS
  <2>1. Agree(socket, clientsList)
    <3>1. /\ socket \in [Fds -> Conns \cup {NoConn}] /\ \A f \in Fds : socket[f] = NoConn
          /\ clientsList = <<>>
      BY DEF Init
    <3>2. InSeq(<<>>) = {} /\ Distinct(<<>>) /\ <<>> \in Seq(Fds)
      BY DEF InSeq, Distinct
    <3> QED BY <3>1, <3>2 DEF Agree
  <2>2. Types
    BY <2>1, SizesAssumption DEF Init, Types
  <2>3. Connections /\ Ends /\ Waiting
    BY ConnsAssumption DEF Init, Connections, Ends, Waiting, Distinct
  <2>4. Texts
    BY DEF Init, Texts, Increasing
  <2> QED BY <2>2, <2>3, <2>4 DEF IInv
<1>2. IInv /\ [Next]_vars => IInv'
  <2> SUFFICES ASSUME IInv, [Next]_vars PROVE IInv'
    OBVIOUS
  <2>1. CASE UNCHANGED vars
    BY <2>1, StutterHolds DEF vars, peers
  <2>7. CASE WaitInterrupted
    BY <2>7, WaitInterruptedHolds
  <2>2. CASE EpollWait
    <3>1. UNCHANGED <<alive, clientsList, socket, said, backlog, input, link, peer, sent, heard>>
      BY <2>2 DEF EpollWait, peers
    <3> QED BY <3>1 DEF IInv, Types, Agree, Connections, Ends, Texts, Waiting
  <2>3. CASE Accept
    BY <2>3, AcceptHolds
  <2>4. CASE AcceptFails
    BY <2>4, AcceptFailsHolds
  <2>5. CASE \E f \in Fds : Receive(f)
    BY <2>5, ReceiveHolds
  <2>6. ASSUME NEW c \in Conns, Connect(c) \/ Send(c) \/ SendRest(c) \/ Read(c) \/ HangUp(c)
        PROVE  IInv'
    <3>1. CASE Read(c)
      BY <3>1, StutterHolds DEF Read
    <3> QED BY <2>6, <3>1, ConnectHolds, SendHolds, SendRestHolds, HangUpHolds
  <2> QED BY <2>1, <2>2, <2>3, <2>4, <2>5, <2>6, <2>7 DEF Next, ServerStep
<1> QED BY <1>1, <1>2, PTL DEF Spec

(* Who is in the list has an open descriptor, once, and the other way      *)
(* round, however many descriptors are closed and opened again within a    *)
(* batch (Server.cpp:70, Server.cpp:104-129).                              *)
THEOREM ListMatchesTable == Spec => []RosterMatchesSockets
<1>1. IInv => RosterMatchesSockets
  <2> SUFFICES ASSUME IInv, alive PROVE RosterMatchesSockets
    BY DEF RosterMatchesSockets
  <2>1. Agree(socket, clientsList) /\ Waiting
    BY DEF IInv, Types
  <2>2. Listed = Open /\ \A f, g \in Open : socket[f] = socket[g] => f = g
    BY <2>1 DEF Agree, Listed, Open, InSeq
  <2>3. Len(clientsList) = Cardinality(Listed)
    <3> DEFINE n == Len(clientsList)
               S == Listed
    <3>1. clientsList \in Seq(Fds) /\ n \in Nat /\ Distinct(clientsList)
      BY <2>1 DEF Agree
    <3>2. clientsList \in Bijection(1..n, S)
      <4>1. clientsList \in [1..n -> S]
        BY <3>1 DEF Listed
      <4>2. \A f \in S : \E i \in 1..n : clientsList[i] = f
        BY DEF Listed
      <4> HIDE DEF n, S
      <4>3. \A i, j \in 1..n : clientsList[i] = clientsList[j] => i = j
        BY <3>1 DEF Distinct, n
      <4> QED BY <4>1, <4>2, <4>3 DEF Bijection, Injection, Surjection, IsInjective
    <3> HIDE DEF n, S
    <3>3. ExistsBijection(1..n, S)
      BY <3>2 DEF ExistsBijection
    <3>4. Cardinality(S) = n
      BY <3>1, <3>3, FS_CountingElements
    <3> QED BY <3>4 DEF n, S
  <2>4. \A f \in Open, i \in 1..Len(backlog) : socket[f] # backlog[i]
    BY <2>1 DEF Waiting, Open
  <2> QED BY <2>2, <2>3, <2>4 DEF RosterMatchesSockets
<1> QED BY <1>1, RoomIsOrderly, PTL

-----------------------------------------------------------------------------
(* The server goes down only when somebody has left or does not read, when *)
(* a connection finds no descriptor, when a text that may not fit is       *)
(* broadcast, or when its wait for nothing is interrupted: whatever else   *)
(* people who stay and read do, however it is interleaved, it runs on      *)
(* (Server.cpp:90, Server.cpp:103-124, Server.cpp:147, Server.cpp:176-180).*)
THEOREM PresenceIsHarmless == Spec => OnlyTheseBringDown
<1> DEFINE Absent == \E c \in Conns : peer[c] = "gone" \/ Full(c)
           Refused == Listen \in events \ events' /\ Free = {}
           Smashed == \E f \in Fds \cap (events \ events') : Overlong(f) /\ Len(clientsList) > 1
           Idle == events = {} /\ ready = {}
           Cause == Absent \/ Refused \/ Smashed \/ Idle
<1>1. ASSUME IInv, NEW c \in Conns, Kills(c) \/ Fails(c) \/ link[c] = "rst"
      PROVE  Absent
  BY <1>1 DEF IInv, Ends, Kills, Fails
<1>2. ASSUME NEW sock, NEW list, NEW skip, NEW line, NEW before, NEW hangups, NEW smashed, IInv,
             Agree(sock, list), Interrupted(sock, list, skip, line, before, hangups, smashed)
      PROVE  Absent \/ smashed
  <2>1. CASE smashed
    BY <2>1
  <2>2. CASE ~smashed
    <3>1. PICK f \in Targets(list, skip) : Kills(sock[f]) \/ Fails(sock[f])
      BY <1>2, <2>2 DEF Interrupted
    <3>2. sock[f] \in Conns
      BY <1>2 DEF Agree, Targets
    <3> QED BY <1>1, <1>2, <3>1, <3>2
  <2> QED BY <2>1, <2>2
<1>3. ASSUME IInv, Next, alive, ~alive' PROVE Cause
  <2>1. CASE Accept
    <3> DEFINE c == Head(backlog)
               f == LowestFree
               sock == [socket EXCEPT ![f] = c]
               list == Append(clientsList, f)
               before == Hearing({c}, Welcome(f))
               hangups == {d \in {c} : link[d] = "fin"}
               pending == AddSocketFdToEpoll(c, f)
    <3>1. /\ SendToAllClient(sock, list, f, Joined(f), before, hangups, pending, FALSE)
          /\ backlog # <<>> /\ Free # {}
      BY <2>1 DEF Accept
    <3>2. Agree(sock, list)
      BY <1>3, <3>1, Newcomer
    <3>3. list \in Seq(Fds)
      BY <3>2 DEF Agree
    <3> HIDE DEF c, f, sock, list, before, hangups, pending
    <3>4. \/ Delivered(sock, list, f, Joined(f), before, hangups)
          \/ Interrupted(sock, list, f, Joined(f), before, hangups, FALSE)
      BY <3>1, <3>3, SendOutcome
    <3>5. ~Delivered(sock, list, f, Joined(f), before, hangups)
      BY <1>3 DEF Delivered
    <3> HIDE DEF Absent
    <3>6. Absent \/ FALSE
      BY <1>2, <1>3, <3>2, <3>4, <3>5
    <3> QED BY <3>6
  <2>2. CASE AcceptFails
    <3>1. /\ alive /\ backlog # <<>> /\ (Free = {} \/ link[Head(backlog)] = "rst")
          /\ Listen \in events \ events'
      BY <2>2 DEF AcceptFails
    <3>2. Head(backlog) \in Conns
      BY <1>3, <3>1, HeadOfLine
    <3>3. CASE Free = {}
      BY <3>1, <3>3
    <3>4. CASE link[Head(backlog)] = "rst"
      BY <1>1, <1>3, <3>2, <3>4
    <3> QED BY <3>1, <3>3, <3>4
  <2>3. ASSUME NEW f \in Fds, Receive(f) PROVE Cause
    <3>1. Agree(socket, clientsList) /\ f \in events \ events'
      BY <1>3, <2>3 DEF IInv, Types, Receive
    <3>2. CASE Caution(f)
      <4>1. socket[f] # NoConn /\ (ResetSeen(f) \/ Kills(socket[f]))
        BY <1>3, <3>2 DEF Caution
      <4>2. socket[f] \in Conns /\ (link[socket[f]] = "rst" \/ Kills(socket[f]))
        BY <3>1, <4>1 DEF ResetSeen, Agree
      <4> QED BY <1>1, <1>3, <4>2
    <3>3. CASE BroadCast(f)
      <4> DEFINE line == Line(f, Received(f))
                 hangups == {c \in Conns : c = socket[f] /\ ResetSeen(f)}
                 smashed == Overlong(f)
      <4>1. /\ SendToAllClient(socket, clientsList, f, line, heard, hangups, ready, smashed)
            /\ Len(clientsList) # 1
        BY <3>3 DEF BroadCast
      <4>2. clientsList \in Seq(Fds)
        BY <3>1 DEF Agree
      <4>3. smashed => Len(clientsList) > 1
        <5>1. ASSUME smashed PROVE f \in InSeq(clientsList)
          <6>1. socket[f] # NoConn
            BY <5>1, PeersAssumption, ConnsAssumption DEF Overlong
          <6> QED BY <3>1, <6>1 DEF Agree
        <5>2. \A g \in InSeq(clientsList) : Len(clientsList) > 1
          <6> DEFINE n == Len(clientsList)
          <6>1. n \in Nat /\ n # 1
            BY <4>1, <4>2
          <6> HIDE DEF n
          <6>2. \A i \in 1..n : n > 1
            BY <6>1
          <6> QED BY <6>2 DEF n, InSeq
        <5> HIDE DEF smashed
        <5> QED BY <5>1, <5>2
      <4>4. smashed => Smashed
        BY <3>1, <4>3
      <4> HIDE DEF line, hangups, smashed
      <4>5. \/ Delivered(socket, clientsList, f, line, heard, hangups)
            \/ Interrupted(socket, clientsList, f, line, heard, hangups, smashed)
        BY <4>1, <4>2, SendOutcome
      <4>6. ~Delivered(socket, clientsList, f, line, heard, hangups)
        BY <1>3 DEF Delivered
      <4> HIDE DEF Absent, Smashed
      <4>7. Absent \/ smashed
        BY <1>2, <1>3, <3>1, <4>5, <4>6
      <4> QED BY <4>4, <4>7
    <3>4. ~ClientQuits(f)
      BY <1>3 DEF ClientQuits
    <3> HIDE DEF Cause
    <3> QED BY <2>3, <3>2, <3>3, <3>4 DEF Receive
  <2>4. CASE WaitInterrupted
    BY <2>4 DEF WaitInterrupted
  <2>5. ~EpollWait /\ \A c \in Conns : ~(Connect(c) \/ Send(c) \/ SendRest(c) \/ Read(c) \/ HangUp(c))
    BY <1>3 DEF EpollWait, Connect, Send, SendRest, Read, HangUp, server
  <2> HIDE DEF Cause
  <2> QED BY <1>3, <2>1, <2>2, <2>3, <2>4, <2>5 DEF Next, ServerStep
<1>4. IInv /\ [Next]_vars => [alive /\ ~alive' => Cause]_vars
  BY <1>3
<1> QED BY <1>4, RoomIsOrderly, PTL DEF Spec, OnlyTheseBringDown

-----------------------------------------------------------------------------
(* The room.  A person is known by the descriptor of the connection.       *)
IdIn(sock, list) ==
  [c \in Conns |-> IF {f \in Fds : sock[f] = c} \cap InSeq(list) # {}
                   THEN CHOOSE f \in {g \in Fds : sock[g] = c} : TRUE ELSE 0]

LEMMA IdsMatch ==
  ASSUME NEW sock, NEW list, Agree(sock, list)
  PROVE  /\ IdIn(sock, list) \in [Conns -> Fds \cup {0}]
         /\ \A c \in Conns, f \in Fds : IdIn(sock, list)[c] = f <=> sock[f] = c
         /\ \A c \in Conns : IdIn(sock, list)[c] # 0 =>
              IdIn(sock, list)[c] \in Fds /\ sock[IdIn(sock, list)[c]] = c
<1> DEFINE id == IdIn(sock, list)
<1>1. ASSUME NEW c \in Conns
      PROVE  \/ id[c] = 0 /\ \A f \in Fds : sock[f] # c
             \/ id[c] \in Fds /\ sock[id[c]] = c /\ \A f \in Fds : sock[f] = c => f = id[c]
  <2> DEFINE F == {f \in Fds : sock[f] = c}
  <2>1. id[c] = IF F \cap InSeq(list) # {} THEN CHOOSE f \in F : TRUE ELSE 0
    BY DEF IdIn
  <2>2. F \subseteq InSeq(list)
    BY ConnsAssumption DEF Agree
  <2>3. \A f, g \in F : f = g
    BY <2>2 DEF Agree
  <2>4. CASE F = {}
    BY <2>1, <2>4
  <2>5. CASE F # {}
    <3>1. id[c] \in F
      BY <2>1, <2>2, <2>5
    <3> QED BY <2>3, <3>1
  <2> QED BY <2>4, <2>5
<1>2. id = [c \in Conns |-> id[c]]
  BY DEF IdIn
<1>3. id \in [Conns -> Fds \cup {0}]
  BY <1>1, <1>2
<1> HIDE DEF id
<1>4. \A c \in Conns, f \in Fds : id[c] = f <=> sock[f] = c
  <2>1. \A f \in Fds : f # 0
    BY FdsAreNumbers
  <2> QED BY <1>1, <2>1
<1>5. \A c \in Conns : id[c] # 0 => id[c] \in Fds /\ sock[id[c]] = c
  BY <1>1
<1> QED BY <1>3, <1>4, <1>5 DEF id

LEMMA ChatIdIs ==
  /\ ChatId = IdIn(socket, clientsList)
  /\ ChatId' = IdIn(socket', clientsList')
BY DEF ChatId, IdIn, FdsOf, Listed, InSeq

(* What is sent is heard by everybody else who is there and stays.         *)
LEMMA DeliveredToAll ==
  ASSUME IInv, NEW sock, NEW list, NEW skip \in Fds, NEW line, NEW before, NEW hangups,
         Agree(sock, list), Delivered(sock, list, skip, line, before, hangups)
  PROVE  /\ ChatId' \in [Conns -> Fds \cup {0}]
         /\ \A d \in Conns :
              /\ ChatId'[d] \in {IdIn(sock, list)[d], 0}
              /\ IdIn(sock, list)[d] = skip => ChatId'[d] = skip
              /\ heard'[d] = IF /\ IdIn(sock, list)[d] \notin {0, skip}
                                /\ ChatId'[d] # 0 /\ peer[d] # "gone"
                             THEN Append(before[d], line) ELSE before[d]
<1> DEFINE out == Failing(sock, list, skip)
           told == {sock[f] : f \in Targets(list, skip) \ out}
           id == IdIn(sock, list)
           id2 == ChatId'
<1>1. /\ socket' = Shut(sock, out) /\ clientsList' = Without(list, out)
      /\ heard' = [c \in Conns |-> IF c \in told /\ link[c] = "open" THEN Append(before[c], line)
                                                                    ELSE before[c]]
  BY DEF Delivered, Hear
<1>2. \A f \in out : f \in Fds /\ f # skip /\ sock[f] # NoConn /\ Fails(sock[f])
  BY DEF Failing, Targets, Agree
<1>3. Targets(list, skip) = {f \in Fds : sock[f] # NoConn /\ f # skip}
  BY DEF Targets, Agree
<1>4. \A f \in Targets(list, skip) : f \in out <=> Fails(sock[f])
  BY DEF Failing
<1> HIDE DEF out
<1>5. Agree(Shut(sock, out), Without(list, out))
  BY AgreeAfterClose
<1>6. id2 = IdIn(Shut(sock, out), Without(list, out))
  BY <1>1, ChatIdIs
<1>7. /\ id2 \in [Conns -> Fds \cup {0}]
      /\ \A c \in Conns, f \in Fds : id2[c] = f <=> Shut(sock, out)[f] = c
      /\ \A c \in Conns : id2[c] # 0 => id2[c] \in Fds
  BY <1>5, <1>6, IdsMatch
<1>8. /\ id \in [Conns -> Fds \cup {0}]
      /\ \A c \in Conns, f \in Fds : id[c] = f <=> sock[f] = c
      /\ \A c \in Conns : id[c] # 0 => id[c] \in Fds /\ sock[id[c]] = c
  BY IdsMatch
<1>9. \A f \in Fds : Shut(sock, out)[f] = IF f \in out THEN NoConn ELSE sock[f]
  BY DEF Shut
<1> HIDE DEF id, id2, told
<1>10. ASSUME NEW d \in Conns
       PROVE  /\ id2[d] \in {id[d], 0}
              /\ id2[d] = 0 <=> id[d] = 0 \/ id[d] \in out
              /\ id[d] = skip => id2[d] = skip
  <2>1. d # NoConn /\ 0 \notin Fds
    BY ConnsAssumption, FdsAreNumbers
  <2>2. ASSUME id2[d] # 0 PROVE id2[d] = id[d] /\ id[d] \notin out /\ id[d] # 0
    BY <1>7, <1>8, <1>9, <2>1, <2>2
  <2>3. ASSUME id[d] # 0, id[d] \notin out PROVE id2[d] = id[d]
    BY <1>7, <1>8, <1>9, <2>1, <2>3
  <2> QED BY <1>2, <2>1, <2>2, <2>3
<1>11. ASSUME NEW d \in Conns
       PROVE  d \in told <=> id[d] \notin {0, skip} /\ id2[d] # 0
  <2>1. d # NoConn /\ 0 \notin Fds
    BY ConnsAssumption, FdsAreNumbers
  <2>2. ASSUME d \in told PROVE id[d] \notin {0, skip} /\ id2[d] # 0
    <3>1. PICK f \in Targets(list, skip) \ out : d = sock[f]
      BY <2>2 DEF told
    <3>2. id[d] = f /\ f # skip /\ f # 0 /\ f \notin out
      BY <1>3, <1>8, <2>1, <3>1
    <3> QED BY <1>10, <3>2
  <2>3. ASSUME id[d] \notin {0, skip}, id2[d] # 0 PROVE d \in told
    <3>1. id[d] \in Targets(list, skip) /\ sock[id[d]] = d /\ id[d] \notin out
      BY <1>3, <1>8, <1>10, <2>1, <2>3
    <3> QED BY <3>1 DEF told
  <2> QED BY <2>2, <2>3
<1>12. \A d \in Conns : link[d] = "open" <=> peer[d] # "gone"
  BY DEF IInv, Ends
<1>13. \A d \in Conns : heard'[d] =
         IF id[d] \notin {0, skip} /\ id2[d] # 0 /\ peer[d] # "gone"
         THEN Append(before[d], line) ELSE before[d]
  BY <1>1, <1>11, <1>12
<1> QED BY <1>7, <1>10, <1>13 DEF id, id2

SomeHeard(id, skip, line, before) ==
  \E S \in SUBSET {d \in Conns : id[d] \notin {0, skip} /\ peer[d] # "gone"} :
    heard' = [d \in Conns |-> IF d \in S THEN Append(before[d], line) ELSE before[d]]

(* When the server goes down, some of them have heard it.                  *)
LEMMA InterruptedForSome ==
  ASSUME IInv, NEW sock, NEW list, NEW skip \in Fds, NEW line, NEW before, NEW hangups,
         NEW smashed, Agree(sock, list),
         Interrupted(sock, list, skip, line, before, hangups, smashed)
  PROVE  /\ ChatId' = ChatId /\ ~alive'
         /\ SomeHeard(IdIn(sock, list), skip, line, before)
<1> DEFINE id == IdIn(sock, list)
<1>1. PICK told \in SUBSET {sock[f] : f \in Targets(list, skip)} : Hear(told, line, before)
  BY DEF Interrupted
<1> DEFINE S == {d \in Conns : d \in told /\ link[d] = "open"}
<1>2. \A c \in Conns, f \in Fds : id[c] = f <=> sock[f] = c
  BY IdsMatch
<1>3. \A f \in Targets(list, skip) : f \in Fds /\ f # skip /\ f # 0
  BY FdsAreNumbers DEF Targets, Agree
<1>4. ChatId' = ChatId /\ ~alive'
  BY ChatIdIs DEF Interrupted
<1> HIDE DEF id
<1>5. ASSUME NEW d \in S PROVE d \in Conns /\ id[d] \notin {0, skip} /\ peer[d] # "gone"
  <2>1. PICK f \in Targets(list, skip) : d = sock[f]
    OBVIOUS
  <2>2. id[d] = f
    BY <1>2, <1>3, <2>1
  <2> QED BY <1>3, <2>2 DEF IInv, Ends
<1>6. heard' = [d \in Conns |-> IF d \in S THEN Append(before[d], line) ELSE before[d]]
  BY <1>1 DEF Hear
<1> HIDE DEF S
<1>7. SomeHeard(id, skip, line, before)
  BY <1>5, <1>6 DEF SomeHeard
<1> QED BY <1>4, <1>7 DEF id

(* What the connections say of the people.                                 *)
LEMMA PeopleInRoom ==
  ASSUME IInv
  PROVE  /\ ChatId \in [Conns -> Fds \cup {0}] /\ 0 \notin Fds
         /\ \A c \in Conns, f \in Fds : ChatId[c] = f <=> socket[f] = c
         /\ \A c \in Conns : ChatId[c] # 0 => ChatId[c] \in Fds /\ socket[ChatId[c]] = c
         /\ Room!Members = {c \in Conns : ChatId[c] # 0}
         /\ \A c \in Conns : c \in Away <=> peer[c] = "gone"
         /\ \A c \in Conns : c \in Away <=> link[c] # "open"
<1>1. Agree(socket, clientsList)
  BY DEF IInv, Types
<1> QED BY <1>1, ChatIdIs, IdsMatch, FdsAreNumbers DEF Room!Members, Away, IInv, Ends

LEMMA AcceptJoins ==
  ASSUME IInv, Accept
  PROVE  \/ \E c \in Conns, f \in Fds : Room!Join(c, f)
         \/ Room!Close
<1> DEFINE c == Head(backlog)
           f == LowestFree
           sock == [socket EXCEPT ![f] = c]
           list == Append(clientsList, f)
           before == Hearing({c}, Welcome(f))
           hangups == {d \in {c} : link[d] = "fin"}
           pending == AddSocketFdToEpoll(c, f)
           id == IdIn(sock, list)
<1>1. /\ alive /\ backlog # <<>> /\ Free # {}
      /\ SendToAllClient(sock, list, f, Joined(f), before, hangups, pending, FALSE)
      /\ said' = said /\ peer' = peer
  BY DEF Accept, peers
<1>2. /\ c \in Conns /\ f \in Fds /\ socket[f] = NoConn
      /\ \A g \in Fds : socket[g] # c
      /\ Agree(sock, list)
      /\ sock[f] = c /\ \A g \in Fds \ {f} : sock[g] = socket[g]
  BY <1>1, HeadOfLine, Newcomer
<1>3. list \in Seq(Fds)
  BY <1>2 DEF Agree
<1>4. \A d \in Conns : before[d] = IF d = c /\ link[d] = "open" THEN Append(heard[d], Welcome(f))
                                   ELSE heard[d]
  BY DEF Hearing
<1> HIDE DEF c, f, sock, list, before, hangups, pending
<1>5. \/ Delivered(sock, list, f, Joined(f), before, hangups)
      \/ Interrupted(sock, list, f, Joined(f), before, hangups, FALSE)
  BY <1>1, <1>3, SendOutcome
<1>6. /\ ChatId \in [Conns -> Fds \cup {0}] /\ 0 \notin Fds
      /\ \A d \in Conns, g \in Fds : ChatId[d] = g <=> socket[g] = d
      /\ \A d \in Conns : ChatId[d] # 0 => ChatId[d] \in Fds /\ socket[ChatId[d]] = d
      /\ Room!Members = {d \in Conns : ChatId[d] # 0}
      /\ \A d \in Conns : d \in Away <=> peer[d] = "gone"
      /\ \A d \in Conns : d \in Away <=> link[d] # "open"
  BY PeopleInRoom
<1>7. /\ id \in [Conns -> Fds \cup {0}]
      /\ \A d \in Conns, g \in Fds : id[d] = g <=> sock[g] = d
      /\ \A d \in Conns : id[d] # 0 => id[d] \in Fds /\ sock[id[d]] = d
  BY <1>2, IdsMatch
<1> HIDE DEF id
<1>8. ChatId[c] = 0 /\ id[c] = f /\ \A d \in Conns \ {c} : id[d] = ChatId[d] /\ id[d] # f
  <2>1. ChatId[c] = 0 /\ id[c] = f
    BY <1>2, <1>6, <1>7
  <2>2. ASSUME NEW d \in Conns \ {c} PROVE id[d] = ChatId[d] /\ id[d] # f
    <3>1. id[d] # f
      BY <1>2, <1>7
    <3>2. ASSUME id[d] # 0 PROVE id[d] = ChatId[d]
      BY <1>2, <1>6, <1>7, <3>1, <3>2
    <3>3. ASSUME ChatId[d] # 0 PROVE id[d] = ChatId[d]
      <4>1. ChatId[d] \in Fds /\ socket[ChatId[d]] = d
        BY <1>6, <3>3
      <4>2. ChatId[d] # f
        BY <1>2, <4>1, ConnsAssumption
      <4> QED BY <1>2, <1>7, <4>1, <4>2
    <3> QED BY <3>1, <3>2, <3>3
  <2> QED BY <2>1, <2>2
<1>9. Welcome(f) = Room!Welcome(f) /\ Joined(f) = Room!Joined(f)
  BY DEF Welcome, Joined, Room!Welcome, Room!Joined
<1>10. Away' = Away
  BY <1>1 DEF Away
<1>11. \A d \in Room!Members : ChatId[d] # f
  BY <1>6, <1>2, ConnsAssumption
<1>12. CASE Delivered(sock, list, f, Joined(f), before, hangups)
  <2>1. alive' = alive /\ heard' = [d \in Conns |-> heard'[d]]
    BY <1>12 DEF Delivered, Hear
  <2>2. /\ ChatId' \in [Conns -> Fds \cup {0}]
        /\ \A d \in Conns :
             /\ ChatId'[d] \in {id[d], 0}
             /\ id[d] = f => ChatId'[d] = f
             /\ heard'[d] = IF id[d] \notin {0, f} /\ ChatId'[d] # 0 /\ peer[d] # "gone"
                            THEN Append(before[d], Joined(f)) ELSE before[d]
    BY <1>2, <1>12, DeliveredToAll DEF id
  <2>3. ChatId'[c] = f /\ \A d \in Conns \ {c} : ChatId'[d] \in {ChatId[d], 0}
    BY <1>2, <1>8, <2>2
  <2>4. ASSUME NEW d \in Conns
        PROVE  heard'[d] = IF d = c /\ d \notin Away THEN Append(heard[d], Room!Welcome(f))
                           ELSE IF d \in Room!Present THEN Append(heard[d], Room!Joined(f))
                           ELSE heard[d]
    <3>1. d \in Room!Present <=> ChatId[d] # 0 /\ ChatId'[d] # 0 /\ d \notin Away
      BY <1>6 DEF Room!Present
    <3>2. CASE d = c
      BY <1>4, <1>6, <1>8, <1>9, <2>2, <3>1, <3>2
    <3>3. CASE d # c
      BY <1>4, <1>6, <1>8, <1>9, <2>2, <3>1, <3>3
    <3> QED BY <3>2, <3>3
  <2>5. Room!Join(c, f)
    BY <1>1, <1>2, <1>6, <1>8, <1>10, <1>11, <2>1, <2>3, <2>4 DEF Room!Join, Room!OthersKeepTheirId
  <2> QED BY <1>2, <2>5
<1>13. CASE Interrupted(sock, list, f, Joined(f), before, hangups, FALSE)
  <2>1. ChatId' = ChatId /\ ~alive'
    BY <1>2, <1>13, InterruptedForSome
  <2>2. PICK S \in SUBSET {d \in Conns : IdIn(sock, list)[d] \notin {0, f} /\ peer[d] # "gone"} :
          heard' = [d \in Conns |-> IF d \in S THEN Append(before[d], Joined(f)) ELSE before[d]]
    <3> DEFINE line == Joined(f)
    <3>1. /\ f \in Fds /\ Agree(sock, list)
          /\ Interrupted(sock, list, f, line, before, hangups, FALSE)
      BY <1>2, <1>13
    <3> HIDE DEF line
    <3>2. SomeHeard(IdIn(sock, list), f, line, before)
      BY <3>1, InterruptedForSome
    <3> QED BY <3>2 DEF line, SomeHeard
  <2>3. S \in SUBSET (Room!Members \ Away) /\ c \in Conns \ Room!Members /\ c \notin S
    BY <1>2, <1>6, <1>8 DEF id
  <2>4. heard' = [d \in Conns |->
                    IF d \in S THEN Append(heard[d], Room!Joined(f))
                    ELSE IF d = c /\ d \notin Away THEN Append(heard[d], Room!Welcome(f))
                    ELSE heard[d]]
    BY <1>4, <1>6, <1>9, <2>2, <2>3
  <2>5. Room!Close
    BY <1>1, <1>2, <1>10, <2>1, <2>3, <2>4 DEF Room!Close
  <2> QED BY <2>5
<1> QED BY <1>5, <1>12, <1>13

LEMMA BroadCastSays ==
  ASSUME IInv, alive, NEW f \in Fds, BroadCast(f), peer' = peer
  PROVE  \/ \E c \in Conns, i \in 1..MaxTexts : Room!Say(c, i)
         \/ Room!Noise(f)
         \/ Room!Close
<1> DEFINE text == Received(f)
           line == Line(f, text)
           hangups == {c \in Conns : c = socket[f] /\ ResetSeen(f)}
<1>1. /\ SendToAllClient(socket, clientsList, f, line, heard, hangups, ready, Overlong(f))
      /\ said' = [c \in Conns |-> IF c = socket[f] /\ text > 0 THEN text ELSE said[c]]
  BY DEF BroadCast
<1>2. Agree(socket, clientsList) /\ clientsList \in Seq(Fds)
  BY DEF IInv, Types, Agree
<1>3. \/ text > 0 /\ socket[f] \in Conns /\ text \in 1..MaxTexts /\ said[socket[f]] < text
      \/ text = 0
  <2> DEFINE c == socket[f]
  <2>1. CASE c # NoConn /\ input[c] # <<>>
    <3>1. c \in Conns
      BY <1>2, <2>1 DEF Agree
    <3> DEFINE s == input[c]
    <3>2. s \in Seq(Nat) /\ s # <<>> /\ Increasing(s, said[c], sent[c]) /\ sent[c] \in 0..MaxTexts
      BY <2>1, <3>1 DEF IInv, Types, Texts
    <3>3. text = Head(s)
      BY <2>1 DEF Received
    <3> HIDE DEF s, text
    <3>4. 1 \in 1..Len(s) /\ text = s[1] /\ text \in Nat
      BY <3>2, <3>3
    <3>5. text > 0 => said[c] < text /\ text <= sent[c]
      BY <3>2, <3>4 DEF Increasing
    <3> QED BY <3>1, <3>2, <3>4, <3>5, SizesAssumption
  <2>2. CASE ~(c # NoConn /\ input[c] # <<>>)
    BY <2>2 DEF Received
  <2> QED BY <2>1, <2>2
<1> HIDE DEF text, line, hangups
<1>4. \/ Delivered(socket, clientsList, f, line, heard, hangups)
      \/ Interrupted(socket, clientsList, f, line, heard, hangups, Overlong(f))
  BY <1>1, <1>2, SendOutcome
<1>5. /\ ChatId \in [Conns -> Fds \cup {0}] /\ 0 \notin Fds
      /\ \A d \in Conns, g \in Fds : ChatId[d] = g <=> socket[g] = d
      /\ \A d \in Conns : ChatId[d] # 0 => ChatId[d] \in Fds /\ socket[ChatId[d]] = d
      /\ Room!Members = {d \in Conns : ChatId[d] # 0}
      /\ \A d \in Conns : d \in Away <=> peer[d] = "gone"
      /\ \A d \in Conns : d \in Away <=> link[d] # "open"
  BY PeopleInRoom
<1>6. line = Room!Line(f, text)
  BY DEF line, Line, Room!Line
<1>7. Away' = Away
  BY DEF Away
<1>8. text = 0 => said' = said
  <2>1. said = [c \in Conns |-> said[c]]
    BY DEF IInv, Types
  <2> QED BY <1>1, <2>1
<1>9. text > 0 => said' = [said EXCEPT ![socket[f]] = text]
  <2>1. said = [c \in Conns |-> said[c]]
    BY DEF IInv, Types
  <2> QED BY <1>1, <1>3, <2>1
<1>10. socket[f] \in Conns => ChatId[socket[f]] = f /\ socket[f] \in Room!Members
                              /\ \A d \in Conns : ChatId[d] = f <=> d = socket[f]
  BY <1>5
<1>11. CASE Delivered(socket, clientsList, f, line, heard, hangups)
  <2>1. alive' = alive /\ heard' = [d \in Conns |-> heard'[d]]
    BY <1>11 DEF Delivered, Hear
  <2>2. /\ ChatId' \in [Conns -> Fds \cup {0}]
        /\ \A d \in Conns :
             /\ ChatId'[d] \in {ChatId[d], 0}
             /\ ChatId[d] = f => ChatId'[d] = f
             /\ heard'[d] = IF ChatId[d] \notin {0, f} /\ ChatId'[d] # 0 /\ peer[d] # "gone"
                            THEN Append(heard[d], line) ELSE heard[d]
    BY <1>2, <1>11, DeliveredToAll, ChatIdIs
  <2>3. \A d \in Conns : d \in Room!Present <=> ChatId[d] # 0 /\ ChatId'[d] # 0 /\ d \notin Away
    BY <1>5 DEF Room!Present
  <2>4. CASE text = 0
    <3>1. heard' = [d \in Conns |-> IF d \in {e \in Room!Present : ChatId[e] # f}
                                    THEN Append(heard[d], Room!Line(f, 0)) ELSE heard[d]]
      BY <1>5, <1>6, <2>1, <2>2, <2>3, <2>4
    <3>2. Room!Noise(f)
      BY <1>7, <1>8, <2>1, <2>2, <2>4, <3>1
         DEF Room!Noise, Room!Tell, Room!OthersKeepTheirId
    <3> QED BY <3>2
  <2>5. CASE text > 0
    <3> DEFINE c == socket[f]
    <3>1. /\ c \in Conns /\ text \in 1..MaxTexts /\ text > said[c]
          /\ ChatId[c] = f /\ c \in Room!Members /\ \A d \in Conns : ChatId[d] = f <=> d = c
      BY <1>3, <1>10, <2>5, SizesAssumption DEF IInv, Types
    <3>2. said' = [said EXCEPT ![c] = text]
      BY <1>9, <2>5
    <3> HIDE DEF c
    <3>3. heard' = [d \in Conns |-> IF d \in Room!Present \ {c}
                                    THEN Append(heard[d], Room!Line(ChatId[c], text)) ELSE heard[d]]
      BY <1>5, <1>6, <2>1, <2>2, <2>3, <3>1
    <3>4. Room!Say(c, text)
      BY <1>7, <2>1, <2>2, <3>1, <3>2, <3>3 DEF Room!Say, Room!Tell, Room!OthersKeepTheirId
    <3> QED BY <3>1, <3>4
  <2> QED BY <1>3, <2>4, <2>5
<1>12. CASE Interrupted(socket, clientsList, f, line, heard, hangups, Overlong(f))
  <2>1. ChatId' = ChatId /\ ~alive'
    BY <1>2, <1>12, InterruptedForSome
  <2>2. PICK S \in SUBSET {d \in Conns : ChatId[d] \notin {0, f} /\ peer[d] # "gone"} :
          heard' = [d \in Conns |-> IF d \in S THEN Append(heard[d], line) ELSE heard[d]]
    <3>1. SomeHeard(IdIn(socket, clientsList), f, line, heard)
      BY <1>2, <1>12, InterruptedForSome
    <3>2. SomeHeard(ChatId, f, line, heard)
      BY <3>1, ChatIdIs
    <3> QED BY <3>2 DEF SomeHeard
  <2>3. S \in SUBSET (Room!Members \ Away)
    BY <1>5
  <2>4. CASE text = 0
    <3>1. heard' = [d \in Conns |-> IF d \in S THEN Append(heard[d], Room!Line(f, 0)) ELSE heard[d]]
      BY <1>6, <2>2, <2>4
    <3> QED BY <1>7, <1>8, <2>1, <2>3, <2>4, <3>1 DEF Room!Close, Room!Tell
  <2>5. CASE text > 0
    <3> DEFINE c == socket[f]
    <3>1. /\ c \in Conns /\ text \in 1..MaxTexts /\ text > said[c]
          /\ ChatId[c] = f /\ c \in Room!Members
      BY <1>3, <1>10, <2>5, SizesAssumption DEF IInv, Types
    <3>2. said' = [said EXCEPT ![c] = text]
      BY <1>9, <2>5
    <3> HIDE DEF c
    <3>3. c \in Room!Members \ S
      BY <2>2, <3>1
    <3>4. heard' = [d \in Conns |-> IF d \in S THEN Append(heard[d], Room!Line(ChatId[c], text))
                                    ELSE heard[d]]
      BY <1>6, <2>2, <3>1
    <3> QED BY <1>7, <2>1, <2>3, <3>1, <3>2, <3>3, <3>4 DEF Room!Close, Room!Tell
  <2> QED BY <1>3, <2>4, <2>5
<1> QED BY <1>4, <1>11, <1>12

LEMMA CautionToOne ==
  ASSUME IInv, alive, NEW f \in Fds, Caution(f), peer' = peer
  PROVE  \/ \E c \in Conns : Room!Caution(c)
         \/ Room!Close
         \/ UNCHANGED Room!vars
<1>1. /\ Len(clientsList) = 1 /\ said' = said /\ Away' = Away
      /\ clientsList' = clientsList /\ socket' = socket /\ ChatId' = ChatId
  BY ChatIdIs DEF Caution, Away
<1>2. Agree(socket, clientsList) /\ heard = [d \in Conns |-> heard[d]]
  BY DEF IInv, Types
<1>3. /\ \A d \in Conns, g \in Fds : ChatId[d] = g <=> socket[g] = d
      /\ \A d \in Conns : ChatId[d] # 0 => ChatId[d] \in Fds /\ socket[ChatId[d]] = d
      /\ Room!Members = {d \in Conns : ChatId[d] # 0} /\ 0 \notin Fds
      /\ \A d \in Conns : d \in Away <=> link[d] # "open"
  BY PeopleInRoom
<1>4. CASE socket[f] = NoConn
  <2>1. alive' = alive /\ heard' = heard
    BY <1>4 DEF Caution
  <2> QED BY <1>1, <2>1 DEF Room!vars
<1>5. CASE socket[f] # NoConn
  <2> DEFINE c == socket[f]
  <2>1. c \in Conns /\ ChatId[c] = f
    BY <1>2, <1>3, <1>5 DEF Agree
  <2>2. Room!Members = {c}
    <3>1. \A g, h \in InSeq(clientsList) : g = h
      BY <1>1 DEF InSeq
    <3>2. ASSUME NEW d \in Conns, ChatId[d] # 0 PROVE d = c
      <4>1. ChatId[d] \in Fds /\ socket[ChatId[d]] = d /\ d # NoConn
        BY <1>3, <3>2, ConnsAssumption
      <4>2. ChatId[d] \in InSeq(clientsList) /\ f \in InSeq(clientsList)
        BY <1>2, <1>5, <4>1 DEF Agree
      <4> QED BY <3>1, <4>1, <4>2
    <3> QED BY <1>3, <2>1, <3>2
  <2>3. CASE ResetSeen(f) \/ Kills(c)
    <3>1. alive' = FALSE /\ heard' = heard
      BY <1>5, <2>3 DEF Caution
    <3> QED BY <1>1, <3>1 DEF Room!Close
  <2>4. CASE ~(ResetSeen(f) \/ Kills(c))
    <3>1. alive' = alive /\ heard' = IF Fails(c) THEN heard ELSE Hearing({c}, CautionLine)
      BY <1>5, <2>4 DEF Caution
    <3>2. CASE Fails(c)
      BY <1>1, <3>1, <3>2 DEF Room!vars
    <3>3. CASE ~Fails(c)
      <4>1. heard' = [d \in Conns |-> IF d \in {c} \ Away THEN Append(heard[d], Room!CautionLine)
                                      ELSE heard[d]]
        BY <1>3, <2>1, <3>1, <3>3 DEF Hearing, CautionLine, Room!CautionLine
      <4>2. Room!Caution(c)
        BY <1>1, <2>2, <3>1, <4>1 DEF Room!Caution, Room!Tell
      <4> QED BY <2>1, <4>2
    <3> QED BY <3>2, <3>3
  <2> QED BY <2>3, <2>4
<1> QED BY <1>4, <1>5

LEMMA QuitLeaves ==
  ASSUME IInv, alive, NEW f \in Fds, ClientQuits(f), peer' = peer
  PROVE  \E c \in Conns : Room!Leave(c)
<1> DEFINE c == socket[f]
           id2 == ChatId'
<1>1. /\ socket' = Shut(socket, {f}) /\ clientsList' = Without(clientsList, {f})
      /\ alive' = alive /\ said' = said /\ heard' = heard /\ c # NoConn /\ Away' = Away
  BY DEF ClientQuits, EndOfInput, Close, Shut, Away
<1>2. Agree(socket, clientsList)
  BY DEF IInv, Types
<1>3. /\ ChatId \in [Conns -> Fds \cup {0}] /\ 0 \notin Fds
      /\ \A d \in Conns, g \in Fds : ChatId[d] = g <=> socket[g] = d
      /\ \A d \in Conns : ChatId[d] # 0 => ChatId[d] \in Fds /\ socket[ChatId[d]] = d
      /\ Room!Members = {d \in Conns : ChatId[d] # 0}
  BY PeopleInRoom
<1>4. c \in Conns /\ ChatId[c] = f
  BY <1>1, <1>2, <1>3 DEF Agree
<1>5. Agree(Shut(socket, {f}), Without(clientsList, {f}))
  BY <1>2, AgreeAfterClose
<1>6. id2 = IdIn(Shut(socket, {f}), Without(clientsList, {f}))
  BY <1>1, ChatIdIs
<1>7. /\ id2 \in [Conns -> Fds \cup {0}]
      /\ \A d \in Conns, g \in Fds : id2[d] = g <=> Shut(socket, {f})[g] = d
      /\ \A d \in Conns : id2[d] # 0 => id2[d] \in Fds
  BY <1>5, <1>6, IdsMatch
<1>8. \A g \in Fds : Shut(socket, {f})[g] = IF g = f THEN NoConn ELSE socket[g]
  BY DEF Shut
<1> HIDE DEF c, id2
<1>9. ASSUME NEW d \in Conns PROVE id2[d] = IF d = c THEN 0 ELSE ChatId[d]
  <2>1. d # NoConn
    BY ConnsAssumption
  <2>2. id2[d] # 0 => id2[d] = ChatId[d] /\ id2[d] # f
    BY <1>3, <1>7, <1>8, <2>1
  <2>3. ChatId[d] # 0 /\ ChatId[d] # f => id2[d] = ChatId[d]
    BY <1>3, <1>7, <1>8, <2>1
  <2>4. ChatId[d] = f <=> d = c
    BY <1>3, <1>4 DEF c
  <2> QED BY <1>3, <2>2, <2>3, <2>4
<1>10. id2 = [ChatId EXCEPT ![c] = 0]
  BY <1>3, <1>7, <1>9
<1>11. Room!Leave(c)
  BY <1>1, <1>3, <1>4, <1>10 DEF Room!Leave, id2
<1> QED BY <1>4, <1>11

(* Nothing that the room is about changes.                                 *)
LEMMA RoomStutters ==
  ASSUME UNCHANGED <<alive, clientsList, socket, said, heard, peer>>
  PROVE  UNCHANGED Room!vars
BY ChatIdIs DEF Room!vars, Away

(* The server is a room: everybody who is there and stays hears the same   *)
(* lines in the same order, under the writer's chat ID, not the writer     *)
(* itself, whoever hangs up and whatever breaks (Server.cpp:104-180).      *)
THEOREM ServerIsRoom == Spec => ImplementsRoom
<1>1. Init => Room!Init
  <2> SUFFICES ASSUME Init PROVE Room!Init
    OBVIOUS
  <2>1. \A c \in Conns : FdsOf(c) = {}
    BY ConnsAssumption DEF Init, FdsOf
  <2>2. ChatId = [c \in Conns |-> 0]
    BY <2>1 DEF ChatId
  <2> QED BY <2>2 DEF Init, Room!Init, Away
<1>2. IInv /\ [Next]_vars => [Room!Next]_Room!vars
  <2> SUFFICES ASSUME IInv, [Next]_vars PROVE [Room!Next]_Room!vars
    OBVIOUS
  <2>1. CASE UNCHANGED vars
    BY <2>1, RoomStutters DEF vars, server, peers
  <2>2. CASE EpollWait
    BY <2>2, RoomStutters DEF EpollWait, peers
  <2>3. CASE Accept
    <3>1. alive
      BY <2>3 DEF Accept
    <3> QED BY <2>3, <3>1, AcceptJoins DEF Room!Next
  <2>4. CASE AcceptFails \/ WaitInterrupted
    <3>1. /\ alive /\ ~alive' /\ ChatId' = ChatId /\ Away' = Away
          /\ heard' = heard /\ said' = said
      BY <2>4, ChatIdIs DEF AcceptFails, WaitInterrupted, peers, Away
    <3> QED BY <3>1 DEF Room!Next, Room!Close
  <2>5. ASSUME NEW f \in Fds, Receive(f) PROVE [Room!Next]_Room!vars
    <3>1. alive /\ peer' = peer
      BY <2>5 DEF Receive, peers
    <3>2. CASE ClientQuits(f)
      BY <3>1, <3>2, QuitLeaves DEF Room!Next
    <3>3. CASE Caution(f)
      BY <3>1, <3>3, CautionToOne DEF Room!Next
    <3>4. CASE BroadCast(f)
      BY <3>1, <3>4, BroadCastSays DEF Room!Next
    <3> QED BY <2>5, <3>2, <3>3, <3>4 DEF Receive
  <2>6. ASSUME NEW c \in Conns, Connect(c) \/ Send(c) \/ SendRest(c) \/ Read(c) \/ HangUp(c)
        PROVE  [Room!Next]_Room!vars
    <3>1. ASSUME Connect(c) PROVE [Room!Next]_Room!vars
      <4>1. /\ UNCHANGED <<alive, clientsList, socket, said, heard>>
            /\ peer[c] = "new" /\ peer' = [peer EXCEPT ![c] = "up"]
        BY <3>1 DEF Connect, server
      <4>2. Away' = Away
        BY <4>1 DEF Away, IInv, Types
      <4> QED BY <4>1, <4>2, ChatIdIs DEF Room!vars
    <3>2. ASSUME Send(c) \/ SendRest(c) \/ Read(c) PROVE [Room!Next]_Room!vars
      BY <3>2, RoomStutters DEF Send, SendRest, Read, server
    <3>3. ASSUME HangUp(c) PROVE [Room!Next]_Room!vars
      <4>1. /\ UNCHANGED <<alive, clientsList, socket, said, heard>>
            /\ peer[c] = "up" /\ peer' = [peer EXCEPT ![c] = "gone"]
        BY <3>3 DEF HangUp, server
      <4>2. c \notin Away /\ Away' = Away \cup {c}
        BY <4>1 DEF Away, IInv, Types
      <4>3. Room!HangUp(c)
        BY <4>1, <4>2, ChatIdIs DEF Room!HangUp
      <4> QED BY <4>3 DEF Room!Next
    <3> QED BY <2>6, <3>1, <3>2, <3>3
  <2> QED BY <2>1, <2>2, <2>3, <2>4, <2>5, <2>6 DEF Next, ServerStep
<1> QED BY <1>1, <1>2, RoomIsOrderly, PTL DEF Spec, ImplementsRoom, Room!Spec

-----------------------------------------------------------------------------
(* The chat client, a program of its own.                                  *)
Ascending(a) == \A i, j \in 1..Len(a) : i < j => a[i] < a[j]

(* What has arrived is in order.  As long as both ends are there, the pipe *)
(* has the last lines, and those before have arrived or were refused.      *)
Lines(arrived) ==
  LET readOff == typed - Len(pipe)
  IN  /\ arrived \in Seq(Nat) /\ Ascending(arrived)
      /\ serverEnd = "up" /\ open =>
           /\ readOff \in Nat
           /\ \A i \in 1..Len(pipe) : pipe[i] = readOff + i
           /\ ToSet(arrived) \cup refused = 1..readOff
           /\ ToSet(arrived) \cap refused = {}

(* What the server has not read is of what has reached it.                 *)
Backlog ==
  /\ unread \in Nat /\ unread <= Len(outbox)
  /\ refused # {} => Len(outbox) >= Window

ClientIInv ==
  /\ typed \in Nat
  /\ pipe \in Seq(Nat)
  /\ outbox \in Seq(Seq(Nat))
  /\ Backlog
  /\ Lines(FlattenSeq(outbox))

(* The blocks of a sequence, one behind the other.                         *)
Joint(s, k, F) == F = [i \in 1..k |-> IF i = 1 THEN s[i] ELSE F[i - 1] \o s[i]]

LEMMA JointExists ==
  ASSUME NEW s
  PROVE  \A k \in Nat : \E F : Joint(s, k, F)
<1> DEFINE T == {k \in Nat : \E F : Joint(s, k, F)}
<1>1. 0 \in T
  <2> DEFINE F == [i \in 1..0 |-> <<>>]
  <2>1. Joint(s, 0, F)
    BY DEF Joint
  <2> QED BY <2>1
<1>2. ASSUME NEW k \in T PROVE k + 1 \in T
  <2>1. PICK F : Joint(s, k, F)
    OBVIOUS
  <2> DEFINE G == [i \in 1..(k + 1) |-> IF i <= k THEN F[i] ELSE IF i = 1 THEN s[i] ELSE F[k] \o s[i]]
  <2>2. ASSUME NEW i \in 1..(k + 1)
        PROVE  G[i] = IF i = 1 THEN s[i] ELSE G[i - 1] \o s[i]
    <3>1. CASE i <= k
      <4>1. i \in 1..k /\ (i # 1 => i - 1 \in 1..(k + 1) /\ i - 1 <= k)
        BY <3>1
      <4>2. F[i] = IF i = 1 THEN s[i] ELSE F[i - 1] \o s[i]
        BY <2>1, <4>1 DEF Joint
      <4>3. G[i] = F[i] /\ (i # 1 => G[i - 1] = F[i - 1])
        BY <3>1, <4>1
      <4> HIDE DEF G
      <4> QED BY <4>2, <4>3
    <3>2. CASE i > k
      <4>1. i = k + 1 /\ ~(i <= k) /\ (i # 1 => i - 1 = k /\ k \in 1..(k + 1) /\ k <= k)
        BY <3>2
      <4>2. (i # 1 => G[k] = F[k]) /\ G[i] = IF i = 1 THEN s[i] ELSE F[k] \o s[i]
        BY <4>1
      <4> HIDE DEF G
      <4> QED BY <4>1, <4>2
    <3> QED BY <3>1, <3>2
  <2>3. Joint(s, k + 1, G)
    BY <2>2 DEF Joint
  <2> HIDE DEF G
  <2> QED BY <2>3
<1> HIDE DEF T
<1>3. \A k \in Nat : k \in T
  BY <1>1, <1>2, SetInduction, T \in SUBSET Nat DEF T
<1> QED BY <1>3 DEF T

LEMMA FlattenIs ==
  ASSUME NEW s
  PROVE  FlattenSeq(s) = IF Len(s) = 0 THEN s ELSE (CHOOSE F : Joint(s, Len(s), F))[Len(s)]
BY DEF FlattenSeq, Joint

LEMMA FlattenMore ==
  ASSUME NEW s \in Seq(Seq(Nat)), NEW b \in Seq(Nat)
  PROVE  FlattenSeq(Append(s, b)) = FlattenSeq(s) \o b
<1> DEFINE n == Len(s)
           t == Append(s, b)
           F == CHOOSE H : Joint(s, n, H)
           G == CHOOSE H : Joint(t, Len(t), H)
<1>1. n \in Nat /\ Len(t) = n + 1 /\ t[n + 1] = b /\ \A i \in 1..n : t[i] = s[i]
  OBVIOUS
<1>2. FlattenSeq(s) = IF n = 0 THEN s ELSE F[n]
  BY FlattenIs
<1> HIDE DEF t
<1>3. FlattenSeq(t) = IF Len(t) = 0 THEN t ELSE G[Len(t)]
  BY FlattenIs
<1> HIDE DEF n
<1>4. Joint(s, n, F)
  BY <1>1, JointExists
<1>5. Joint(t, Len(t), G)
  <2>1. n + 1 \in Nat
    BY <1>1
  <2>2. \E H : Joint(t, n + 1, H)
    BY <2>1, JointExists
  <2>3. \E H : Joint(t, Len(t), H)
    BY <1>1, <2>2
  <2> QED BY <2>3
<1> HIDE DEF F, G
<1>6. Joint(t, n + 1, G) /\ FlattenSeq(t) = G[n + 1]
  BY <1>1, <1>3, <1>5
<1>7. CASE n = 0
  <2>1. G[1] = b
    BY <1>1, <1>6, <1>7 DEF Joint
  <2>2. s = <<>> /\ <<>> \o b = b
    BY <1>7 DEF n
  <2> QED BY <1>2, <1>6, <1>7, <2>1, <2>2 DEF t
<1>8. CASE n > 0
  <2> DEFINE T == {i \in Nat : i + 1 <= n => G[i + 1] = F[i + 1]}
  <2>1. 0 \in T
    <3>1. 1 \in 1..n /\ 1 \in 1..(n + 1)
      BY <1>1, <1>8
    <3>2. G[1] = t[1] /\ F[1] = s[1]
      BY <1>4, <1>6, <3>1 DEF Joint
    <3> QED BY <1>1, <3>1, <3>2
  <2>2. ASSUME NEW i \in T PROVE i + 1 \in T
    <3>1. SUFFICES ASSUME (i + 1) + 1 <= n PROVE G[(i + 1) + 1] = F[(i + 1) + 1]
      OBVIOUS
    <3> DEFINE j == (i + 1) + 1
    <3>2. j \in 1..n /\ j \in 1..(n + 1) /\ j # 1 /\ j - 1 = i + 1 /\ i + 1 <= n
      BY <1>1, <3>1
    <3>3. G[i + 1] = F[i + 1]
      BY <3>2
    <3> HIDE DEF j
    <3>4. G[j] = G[j - 1] \o t[j] /\ F[j] = F[j - 1] \o s[j]
      BY <1>4, <1>6, <3>2 DEF Joint
    <3>5. G[j] = F[j]
      BY <1>1, <3>2, <3>3, <3>4
    <3> QED BY <3>5 DEF j
  <2> HIDE DEF T
  <2>3. \A i \in Nat : i \in T
    BY <2>1, <2>2, SetInduction, T \in SUBSET Nat DEF T
  <2>4. G[n] = F[n]
    <3>1. n - 1 \in Nat /\ (n - 1) + 1 = n /\ n <= n
      BY <1>1, <1>8
    <3>2. n - 1 \in T
      BY <2>3, <3>1
    <3> QED BY <3>1, <3>2 DEF T
  <2>5. n + 1 \in 1..(n + 1) /\ n + 1 # 1 /\ (n + 1) - 1 = n /\ n # 0
    BY <1>1, <1>8
  <2>6. G[n + 1] = G[n] \o b
    BY <1>1, <1>6, <2>5 DEF Joint
  <2> QED BY <1>2, <1>6, <2>4, <2>5, <2>6 DEF t
<1> QED BY <1>1, <1>7, <1>8

LEMMA Concatenated ==
  ASSUME NEW a \in Seq(Nat), NEW p \in Seq(Nat), NEW i \in 1..(Len(a) + Len(p))
  PROVE  (a \o p)[i] = IF i <= Len(a) THEN a[i] ELSE p[i - Len(a)]
OBVIOUS

(* A block of the lines from d + 1 on.                                     *)
LEMMA BlockIs ==
  ASSUME NEW p \in Seq(Nat), NEW d \in Nat, \A i \in 1..Len(p) : p[i] = d + i
  PROVE  ToSet(p) = (d + 1)..(d + Len(p))
<1> DEFINE n == Len(p)
<1>1. n \in Nat /\ ToSet(p) = {p[i] : i \in 1..n}
  BY DEF ToSet
<1> HIDE DEF n
<1>2. \A i \in 1..n : p[i] = d + i
  BY DEF n
<1>3. \A x \in (d + 1)..(d + n) : x - d \in 1..n /\ d + (x - d) = x
  BY <1>1
<1>4. \A i \in 1..n : d + i \in (d + 1)..(d + n)
  BY <1>1
<1>5. ToSet(p) \subseteq (d + 1)..(d + n)
  BY <1>1, <1>2, <1>4
<1>6. \A x \in (d + 1)..(d + n) : x \in ToSet(p)
  <2> TAKE x \in (d + 1)..(d + n)
  <2>1. PICK i \in 1..n : d + i = x
    BY <1>3
  <2>2. p[i] = x
    BY <1>2, <2>1
  <2> QED BY <1>1, <2>2
<1> QED BY <1>5, <1>6 DEF n

(* Behind the lines up to d it keeps the order. *)
LEMMA BlockArrives ==
  ASSUME NEW a \in Seq(Nat), NEW p \in Seq(Nat), NEW d \in Nat, Ascending(a),
         ToSet(a) \subseteq 1..d, \A i \in 1..Len(p) : p[i] = d + i
  PROVE  /\ a \o p \in Seq(Nat) /\ Ascending(a \o p)
         /\ ToSet(a \o p) = ToSet(a) \cup ToSet(p)
<1> DEFINE m == Len(a)
           n == Len(p)
           q == a \o p
<1>1. /\ m \in Nat /\ n \in Nat /\ q \in Seq(Nat) /\ Len(q) = m + n
      /\ ToSet(a) = {a[i] : i \in 1..m} /\ ToSet(p) = {p[i] : i \in 1..n}
      /\ ToSet(q) = {q[i] : i \in 1..(m + n)}
  <2>1. m \in Nat /\ n \in Nat /\ q \in Seq(Nat) /\ Len(q) = m + n
    OBVIOUS
  <2>2. \A s \in Seq(Nat) : ToSet(s) = {s[i] : i \in 1..Len(s)}
    BY DEF ToSet
  <2> HIDE DEF q
  <2> QED BY <2>1, <2>2
<1>2. \A i \in 1..(m + n) : q[i] = IF i <= m THEN a[i] ELSE p[i - m]
  BY Concatenated
<1>3. \A i \in 1..m : a[i] \in 1..d
  BY <1>1
<1>4. \A i \in 1..n : p[i] = d + i
  OBVIOUS
<1>5. \A i, j \in 1..m : i < j => a[i] < a[j]
  BY DEF Ascending
<1> HIDE DEF m, n, q
<1>6. \A i \in 1..m : i \in 1..(m + n) /\ q[i] = a[i]
  BY <1>1, <1>2
<1>7. \A i \in 1..n : i + m \in 1..(m + n) /\ q[i + m] = p[i]
  <2> TAKE i \in 1..n
  <2>1. i + m \in 1..(m + n) /\ ~ (i + m <= m) /\ (i + m) - m = i
    BY <1>1
  <2> QED BY <1>2, <2>1
<1>8. \A i \in 1..(m + n) : i \in 1..m \/ (i - m \in 1..n /\ ~ (i <= m))
  BY <1>1
<1>9. ToSet(q) = ToSet(a) \cup ToSet(p)
  <2>1. ToSet(q) \subseteq ToSet(a) \cup ToSet(p)
    BY <1>1, <1>2, <1>6, <1>8
  <2>2. ToSet(a) \subseteq ToSet(q)
    BY <1>1, <1>6
  <2>3. ToSet(p) \subseteq ToSet(q)
    BY <1>1, <1>7
  <2> QED BY <2>1, <2>2, <2>3
<1>10. ASSUME NEW i \in 1..(m + n), NEW j \in 1..(m + n), i < j PROVE q[i] < q[j]
  <2>1. CASE j \in 1..m
    <3>1. i \in 1..m
      BY <1>1, <1>10, <2>1
    <3> QED BY <1>5, <1>6, <1>10, <2>1, <3>1
  <2>2. CASE i \in 1..m /\ j - m \in 1..n /\ ~ (j <= m)
    <3>1. q[i] \in 1..d /\ q[j] = d + (j - m)
      BY <1>2, <1>3, <1>4, <1>6, <2>2
    <3> QED BY <1>1, <2>2, <3>1
  <2>3. CASE i - m \in 1..n /\ j - m \in 1..n /\ ~ (i <= m) /\ ~ (j <= m)
    <3>1. q[i] = d + (i - m) /\ q[j] = d + (j - m)
      BY <1>2, <1>4, <2>3
    <3> QED BY <1>1, <1>10, <3>1
  <2>4. j \in 1..m \/ ~ (j <= m)
    BY <1>8
  <2> QED BY <1>1, <1>8, <1>10, <2>1, <2>2, <2>3
<1>11. Ascending(q)
  BY <1>1, <1>10 DEF Ascending
<1> QED BY <1>1, <1>9, <1>11 DEF q

(* What is typed arrives in order, each line once at most, however the     *)
(* pipe cuts or joins lines, and while the server and the parent are there *)
(* only a send that does not take it loses a line (Client.cpp:85-134).     *)
THEOREM LinesArriveInOrder == ClientSpec => []TextsInOrder
<1> DEFINE arrived == FlattenSeq(outbox)
<1>1. ClientInit => ClientIInv
  <2> SUFFICES ASSUME ClientInit PROVE ClientIInv
    OBVIOUS
  <2>1. typed = 0 /\ pipe = <<>> /\ outbox = <<>> /\ unread = 0 /\ refused = {}
    BY DEF ClientInit
  <2>2. FlattenSeq(<<>>) = <<>>
    BY DEF FlattenSeq
  <2>3. <<>> \in Seq(Nat) /\ ToSet(<<>>) = {} /\ Ascending(<<>>) /\ Len(<<>>) = 0 /\ 1..0 = {}
    BY DEF ToSet, Ascending
  <2>4. Lines(<<>>) /\ Backlog
    BY <2>1, <2>3 DEF Lines, Backlog
  <2> QED BY <2>1, <2>2, <2>4 DEF ClientIInv
<1>2. ClientIInv /\ [ClientNext]_clientVars => ClientIInv'
  <2> SUFFICES ASSUME ClientIInv, [ClientNext]_clientVars PROVE ClientIInv'
    OBVIOUS
  <2>1. /\ typed \in Nat /\ pipe \in Seq(Nat) /\ outbox \in Seq(Seq(Nat))
        /\ Backlog /\ Lines(arrived) /\ Window \in Nat \ {0}
    BY BoundsAssumption DEF ClientIInv
  <2>2. ASSUME typed' = typed, pipe' = pipe, outbox' = outbox, refused' = refused,
               (unread' = unread \/ (unread > 0 /\ unread' = unread - 1)),
               ((serverEnd' = "up" /\ open') => (serverEnd = "up" /\ open))
        PROVE  ClientIInv'
    BY <2>1, <2>2 DEF ClientIInv, Lines, Backlog
  <2>3. CASE TypeText
    <3>1. UNCHANGED <<outbox, unread, refused, open, serverEnd>> /\ typed' = typed + 1
      BY <2>3 DEF TypeText, delivery
    <3>2. pipe' = IF open THEN Append(pipe, typed + 1) ELSE pipe
      BY <2>3 DEF TypeText
    <3>3. pipe' \in Seq(Nat) /\ typed' \in Nat
      BY <2>1, <3>1, <3>2
    <3>4. Lines(arrived)'
      <4> DEFINE a == arrived
                 n == Len(pipe)
      <4>1. a' = a /\ n \in Nat
        BY <2>1, <3>1
      <4>2. CASE serverEnd = "up" /\ open
        <5>1. Len(pipe') = n + 1 /\ pipe'[n + 1] = typed + 1 /\ \A i \in 1..n : pipe'[i] = pipe[i]
          BY <2>1, <3>2, <4>2
        <5>2. typed' - Len(pipe') = typed - n
          BY <2>1, <3>1, <4>1, <5>1
        <5>3. (typed - n) + (n + 1) = typed + 1
          BY <2>1, <4>1
        <5>4. \A i \in 1..n : pipe[i] = (typed - n) + i
          BY <2>1, <4>2 DEF Lines
        <5>5. \A i \in 1..Len(pipe') : pipe'[i] = (typed' - Len(pipe')) + i
          BY <4>1, <5>1, <5>2, <5>3, <5>4
        <5> HIDE DEF a
        <5> QED BY <2>1, <3>1, <4>1, <4>2, <5>2, <5>5 DEF Lines, a
      <4>3. CASE ~ (serverEnd = "up" /\ open)
        BY <2>1, <3>1, <4>1, <4>3 DEF Lines
      <4> QED BY <4>2, <4>3
    <3> QED BY <2>1, <3>1, <3>3, <3>4 DEF ClientIInv, Backlog
  <2>4. CASE PipeEvent
    <3>1. CASE SendText
      <4>1. /\ typed' = typed /\ pipe' = <<>> /\ open
            /\ IF serverEnd = "up" THEN Deliver ELSE UNCHANGED delivery
            /\ serverEnd' = IF serverEnd = "up" THEN "up" ELSE "reset"
        BY <2>4, <3>1 DEF PipeEvent, SendText, users
      <4>2. typed' - Len(pipe') = typed /\ Len(pipe') = 0 /\ pipe' \in Seq(Nat)
        BY <2>1, <4>1
      <4>3. CASE serverEnd = "up"
        <5> DEFINE a == arrived
                   d == typed - Len(pipe)
        <5>1. /\ d \in Nat /\ (\A i \in 1..Len(pipe) : pipe[i] = d + i)
              /\ a \in Seq(Nat) /\ Ascending(a)
              /\ ToSet(a) \cup refused = 1..d /\ ToSet(a) \cap refused = {}
          BY <2>1, <4>1, <4>3 DEF Lines
        <5>2. d + Len(pipe) = typed
          BY <2>1
        <5>3. FlattenSeq(Append(outbox, pipe)) = a \o pipe
          BY <2>1, FlattenMore
        <5> HIDE DEF a, d
        <5>4. ToSet(pipe) = (d + 1)..typed
          BY <2>1, <5>1, <5>2, BlockIs
        <5>5. /\ a \o pipe \in Seq(Nat) /\ Ascending(a \o pipe)
              /\ ToSet(a \o pipe) = ToSet(a) \cup ToSet(pipe)
          BY <2>1, <5>1, BlockArrives
        <5>6. 1..d \cup ToSet(pipe) = 1..typed /\ 1..d \cap ToSet(pipe) = {}
          <6>1. d <= typed
            BY <2>1, <5>1, <5>2
          <6> QED BY <2>1, <5>1, <5>4, <6>1
        <5>7. CASE unread < Window
          <6>1. outbox' = Append(outbox, pipe) /\ unread' = unread + 1 /\ refused' = refused
            BY <4>1, <4>3, <5>7 DEF Deliver, Block
          <6>2. outbox' \in Seq(Seq(Nat)) /\ Len(outbox') = Len(outbox) + 1 /\ Len(outbox) \in Nat
            BY <2>1, <6>1
          <6>3. Backlog'
            BY <2>1, <6>1, <6>2 DEF Backlog
          <6> DEFINE b == a \o pipe
          <6>4. /\ b \in Seq(Nat) /\ Ascending(b)
                /\ ToSet(b) \cup refused = 1..typed /\ ToSet(b) \cap refused = {}
            BY <5>1, <5>5, <5>6
          <6>5. arrived' = b
            BY <5>3, <6>1
          <6> HIDE DEF b
          <6>6. Lines(arrived)'
            BY <2>1, <4>1, <4>2, <6>1, <6>4, <6>5 DEF Lines
          <6> QED BY <2>1, <4>1, <4>2, <6>2, <6>3, <6>6 DEF ClientIInv
        <5>8. CASE ~ (unread < Window)
          <6>1. outbox' = outbox /\ unread' = unread /\ refused' = refused \cup ToSet(pipe)
            BY <4>1, <4>3, <5>8 DEF Deliver, Block
          <6>2. Len(outbox) \in Nat /\ Len(outbox) >= Window
            BY <2>1, <5>8 DEF Backlog
          <6>3. Backlog'
            BY <2>1, <6>1, <6>2 DEF Backlog
          <6>4. ToSet(a) \cup refused' = 1..typed /\ ToSet(a) \cap refused' = {}
            BY <5>1, <5>6, <6>1
          <6>5. arrived' = a
            BY <6>1 DEF a
          <6>6. Lines(arrived)'
            BY <2>1, <4>1, <4>2, <5>1, <6>4, <6>5 DEF Lines
          <6> QED BY <2>1, <4>1, <4>2, <6>1, <6>3, <6>6 DEF ClientIInv
        <5> QED BY <5>7, <5>8
      <4>4. CASE serverEnd # "up"
        <5>1. UNCHANGED <<outbox, unread, refused>> /\ serverEnd' # "up"
          BY <4>1, <4>4 DEF delivery
        <5>2. Lines(arrived)'
          BY <2>1, <5>1 DEF Lines
        <5> QED BY <2>1, <4>1, <4>2, <5>1, <5>2 DEF ClientIInv, Backlog
      <4> QED BY <4>3, <4>4
    <3>2. CASE EndOfPipe \/ ClosedPipe
      <4>1. /\ typed' = typed /\ pipe' = pipe /\ outbox' = outbox /\ refused' = refused
            /\ unread' = unread /\ serverEnd' = serverEnd /\ open' = open
        BY <2>4, <3>2 DEF PipeEvent, EndOfPipe, ClosedPipe, users, delivery
      <4> QED BY <2>2, <4>1
    <3> QED BY <2>4, <3>1, <3>2 DEF PipeEvent
  <2>5. CASE Leave \/ ServerSends \/ ServerReads \/ ServerCloses \/ UNCHANGED clientVars
    <3>1. /\ typed' = typed /\ pipe' = pipe /\ outbox' = outbox /\ refused' = refused
          /\ (unread' = unread \/ (unread > 0 /\ unread' = unread - 1))
          /\ open' = open /\ (serverEnd' = "up" => serverEnd = "up")
      BY <2>5 DEF Leave, ServerSends, ServerReads, ServerCloses, clientVars, users, delivery
    <3> QED BY <2>2, <3>1
  <2>6. CASE ParentWaits \/ SocketEvent \/ LoopEnds \/ Waitpid
    <3>1. /\ typed' = typed /\ pipe' = pipe /\ outbox' = outbox /\ refused' = refused
          /\ unread' = unread /\ (open' => open) /\ (serverEnd' = "up" => serverEnd = "up")
      BY <2>6 DEF ParentWaits, SocketEvent, PrintMessage, ServerGone, ResetRead,
        CloseAndWait, LoopEnds, Waitpid, users, delivery
    <3> QED BY <2>2, <3>1
  <2> QED BY <2>3, <2>4, <2>5, <2>6 DEF ClientNext, ParentStep
<1>3. ClientIInv => TextsInOrder
  BY DEF ClientIInv, Lines, Backlog, Ascending, TextsInOrder
<1> QED BY <1>1, <1>2, <1>3, PTL DEF ClientSpec
=============================================================================
