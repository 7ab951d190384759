-------------------------- MODULE MergeSortProofs --------------------------
(***************************************************************************)
(* The merge sort sorts files of every length, and its threads never meet  *)
(* in the array.                                                           *)
(***************************************************************************)
EXTENDS MergeSort, FiniteSetTheorems, TLAPS

States == {"none", "created", "left", "both", "joined", "merge", "copy", "done"}

Started == {t \in Threads : pc[t] # "none"}

(* Where a slice can lie that is not u but has to do with it.              *)
InLeft(t, u) == u[1] <= t[1] /\ t[2] <= Mid(u)
InRight(t, u) == Mid(u) < t[1] /\ t[2] <= u[2]
Inside(t, u) == InLeft(t, u) \/ InRight(t, u)
Apart(t, u) == t[2] < u[1] \/ u[2] < t[1]

Types ==
  /\ length \in Lengths
  /\ input \in [0..(length - 1) -> Values]
  /\ array \in [0..(length - 1) -> Values]
  /\ pc \in [Threads -> States]
  /\ DOMAIN Tmp = Threads
  /\ main \in {"create", "join", "print"}

(* Every thread but the first has a parent that waits for it, and works in *)
(* the file.                                                               *)
Tree ==
  /\ main = "create" => Started = {}
  /\ \A t \in Started : t[2] < length /\ (t[1] <= t[2] \/ t = Root)
  /\ \A t \in Started :
       /\ pc[t] \in {"left", "both", "joined", "merge", "copy"} => t[1] < t[2] /\ Left(t) \in Started
       /\ pc[t] \in {"both", "joined", "merge", "copy"} => Right(t) \in Started
       /\ pc[t] # "done" => t = Root \/ \E u \in Started :
            /\ u[1] < u[2]
            /\ \/ t = Left(u) /\ pc[u] \in {"left", "both"}
               \/ t = Right(u) /\ pc[u] \in {"both", "joined"}

(* Two slices lie apart or one of them in a half of the other.             *)
Laminar ==
  \A t, u \in Started : t = u \/ Apart(t, u) \/ Inside(t, u) \/ Inside(u, t)

(* A half is not touched before its thread is created, and everybody in it *)
(* has returned when that thread has been joined.                          *)
Phases ==
  \A t, u \in Started : t # u =>
    /\ InLeft(t, u) => pc[u] # "created" /\ (pc[u] \in {"left", "both"} \/ pc[t] = "done")
    /\ InRight(t, u) =>
         pc[u] \notin {"created", "left"} /\ (pc[u] \in {"both", "joined"} \/ pc[t] = "done")

TInv == Types /\ Tree /\ Laminar /\ Phases

-----------------------------------------------------------------------------
(* Induction, over a set of numbers.                                       *)
LEMMA SetInduction ==
  ASSUME NEW S \in SUBSET Nat, 0 \in S, \A n \in S : n + 1 \in S
  PROVE  \A n \in Nat : n \in S
<1> DEFINE R == OpToRel(<, Nat)
           T == Nat \ S
<1>1. IsWellFoundedOn(R, Nat)
  BY NatLessThanWellFounded
<1>2. \A i, j \in Nat : i < j => <<i, j>> \in R
  BY DEF OpToRel
<1> HIDE DEF R
<1>3. ASSUME T # {} PROVE FALSE
  <2>1. T \in SUBSET Nat
    OBVIOUS
  <2> HIDE DEF T
  <2>2. PICK n \in T : \A m \in T : ~ (<<m, n>> \in R)
    BY <1>1, <1>3, <2>1, WFMin
  <2> USE DEF T
  <2>3. n # 0 /\ n \in Nat /\ n \notin S
    OBVIOUS
  <2>4. n - 1 \in Nat /\ n - 1 < n /\ (n - 1) + 1 = n
    BY <2>3
  <2>5. n - 1 \in S
    BY <1>2, <2>2, <2>3, <2>4
  <2> QED BY <2>3, <2>4, <2>5
<1> QED BY <1>3

(* A finite set of numbers that is not empty has a greatest one.           *)
LEMMA GreatestNumber ==
  ASSUME NEW S \in SUBSET Nat, IsFiniteSet(S), S # {}
  PROVE  \E n \in S : \A m \in S : m <= n
<1> DEFINE N == Cardinality(S)
<1>1. N \in Nat /\ ExistsBijection(1..N, S)
  BY FS_CardinalityType
<1>2. PICK f : f \in Bijection(1..N, S)
  BY <1>1 DEF ExistsBijection
<1>3. f \in [1..N -> S] /\ \A s \in S : \E k \in 1..N : f[k] = s
  BY <1>2 DEF Bijection, Injection, Surjection
<1> HIDE DEF N
<1>4. \A k \in 1..N : f[k] \in Nat
  BY <1>3
\* the lengths of the prefixes of f that have a greatest element
<1> DEFINE T == {n \in Nat : n \in 1..N => \E k \in 1..n : \A j \in 1..n : f[j] <= f[k]}
<1>5. 0 \in T
  OBVIOUS
<1>6. ASSUME NEW n \in T PROVE n + 1 \in T
  <2> SUFFICES ASSUME n + 1 \in 1..N
               PROVE  \E k \in 1..(n + 1) : \A j \in 1..(n + 1) : f[j] <= f[k]
    OBVIOUS
  <2>1. CASE n = 0
    <3>1. 1 \in 1..(n + 1) /\ \A j \in 1..(n + 1) : f[j] <= f[1]
      BY <1>4, <2>1
    <3> QED BY <3>1
  <2>2. CASE n # 0
    <3>1. n \in 1..N /\ n + 1 \in 1..(n + 1) /\ \A j \in 1..(n + 1) : j \in 1..N /\ (j = n + 1 \/ j \in 1..n)
      BY <1>1, <2>2
    <3>2. PICK k \in 1..n : \A j \in 1..n : f[j] <= f[k]
      BY <3>1
    <3>3. k \in 1..(n + 1) /\ f[k] \in Nat /\ f[n + 1] \in Nat /\ \A j \in 1..n : f[j] \in Nat
      BY <1>4, <3>1
    <3>4. CASE f[n + 1] <= f[k]
      BY <3>1, <3>2, <3>3, <3>4
    <3>5. CASE f[k] < f[n + 1]
      <4>1. \A j \in 1..n : f[j] <= f[n + 1]
        BY <3>2, <3>3, <3>5
      <4> QED BY <3>1, <3>3, <4>1
    <3> QED BY <3>3, <3>4, <3>5
  <2> QED BY <2>1, <2>2
<1> HIDE DEF T
<1>7. N \in T
  <2>1. \A n \in Nat : n \in T
    BY <1>5, <1>6, SetInduction, T \in SUBSET Nat DEF T
  <2> QED BY <1>1, <2>1
<1>8. N \in 1..N
  <2>1. PICK k \in 1..N : TRUE
    BY <1>3
  <2> QED BY <1>1, <2>1
<1>9. PICK k \in 1..N : \A j \in 1..N : f[j] <= f[k]
  BY <1>7, <1>8 DEF T
<1> QED BY <1>3, <1>9

(* Every thread the program can create is one of Threads.                  *)
LEMMA RangesAreThreads ==
  ASSUME length \in Lengths
  PROVE  /\ length \in Nat
         /\ Longest \in Nat
         /\ Root \in Threads
         /\ \A i \in Nat : \A j \in Int : i <= length /\ -1 <= j /\ j < length => <<i, j>> \in Threads
         /\ \A t \in Threads : t[1] \in Nat /\ t[2] \in Int /\ t = <<t[1], t[2]>>
<1>1. \E n \in Lengths : \A m \in Lengths : m <= n
  BY InputAssumption, GreatestNumber
<1>2. Longest \in Lengths /\ length <= Longest /\ length \in Nat /\ Longest \in Nat
  BY <1>1, InputAssumption DEF Longest
<1> QED BY <1>2 DEF Threads, Root

(* The middle of a slice.                                                  *)
LEMMA MidInside ==
  ASSUME NEW t \in Threads, length \in Lengths
  PROVE  /\ Mid(t) \in Int
         /\ t[1] < t[2] => t[1] <= Mid(t) /\ Mid(t) < t[2]
         /\ t[1] = t[2] => Mid(t) = t[1]
BY RangesAreThreads DEF Mid

(* The halves of a slice.                                                  *)
LEMMA Halves ==
  ASSUME NEW t \in Threads, length \in Lengths, t[1] < t[2], t[2] < length
  PROVE  /\ Left(t) \in Threads /\ Left(t)[1] = t[1] /\ Left(t)[2] = Mid(t)
         /\ Right(t) \in Threads /\ Right(t)[1] = Mid(t) + 1 /\ Right(t)[2] = t[2]
BY RangesAreThreads, MidInside DEF Left, Right

-----------------------------------------------------------------------------
(* Two different threads have something to sort.                           *)
LEMMA Nonempty ==
  ASSUME Types, Tree, NEW t \in Started, NEW u \in Started, t # u
  PROVE  t[1] <= t[2] /\ u[1] <= u[2]
<1>1. length \in Nat /\ \A x \in Started : x = <<x[1], x[2]>> /\ x[1] \in Nat /\ x[2] \in Int
  BY RangesAreThreads DEF Types, Started
<1>2. \A x \in Started : x[2] < length /\ (x[1] <= x[2] \/ x = Root)
  BY DEF Tree
<1>3. Root[1] = 0 /\ Root[2] = length - 1
  BY DEF Root
<1>4. ASSUME NEW x \in Started, NEW y \in Started, x # y, x[1] > x[2] PROVE FALSE
  <2>1. x = Root /\ length = 0
    BY <1>1, <1>2, <1>3, <1>4
  <2>2. y[2] < y[1]
    BY <1>1, <1>2, <2>1
  <2>3. y = Root
    BY <1>1, <1>2, <2>2
  <2> QED BY <1>4, <2>1, <2>3
<1> QED BY <1>1, <1>4

(* Facts about the threads that exist, for the arithmetic of the proofs.   *)
LEMMA StartedRanges ==
  ASSUME Types, Tree, NEW t \in Started
  PROVE  /\ length \in Nat /\ t \in Threads
         /\ t[1] \in Nat /\ t[2] \in Int /\ t = <<t[1], t[2]>> /\ Mid(t) \in Int
         /\ t[2] < length
         /\ t[1] < t[2] => t[1] <= Mid(t) /\ Mid(t) < t[2]
         /\ t[1] = t[2] => Mid(t) = t[1]
         /\ t[1] < t[2] =>
              /\ Left(t) \in Threads /\ Left(t)[1] = t[1] /\ Left(t)[2] = Mid(t)
              /\ Right(t) \in Threads /\ Right(t)[1] = Mid(t) + 1 /\ Right(t)[2] = t[2]
BY RangesAreThreads, MidInside, Halves DEF Types, Tree, Started

(* What lies in a slice lies in one of its halves.                         *)
LEMMA WithinIsInside ==
  ASSUME Types, Tree, Laminar, NEW t \in Started, NEW u \in Started, t # u,
         u[1] <= t[1], t[2] <= u[2]
  PROVE  Inside(t, u) /\ ~ Inside(u, t) /\ ~ Apart(t, u)
<1>1. t[1] <= t[2] /\ u[1] <= u[2]
  BY Nonempty
<1>2. t = u \/ Apart(t, u) \/ Inside(t, u) \/ Inside(u, t)
  BY DEF Laminar
<1>3. ~ Apart(t, u)
  BY <1>1, StartedRanges DEF Apart
<1>4. ~ Inside(u, t)
  <2>1. CASE t[1] < t[2]
    BY <1>1, <2>1, StartedRanges DEF Inside, InLeft, InRight
  <2>2. CASE t[1] = t[2]
    BY <1>1, <2>2, StartedRanges DEF Inside, InLeft, InRight
  <2> QED BY <1>1, <2>1, <2>2, StartedRanges
<1> QED BY <1>2, <1>3, <1>4

(* A thread whose half has returned finds everybody in it returned.        *)
LEMMA HalfReturned ==
  ASSUME TInv, NEW c \in Started, pc[c] = "done", NEW t \in Started,
         c[1] <= t[1], t[2] <= c[2]
  PROVE  pc[t] = "done"
<1>1. CASE t = c
  BY <1>1
<1>2. CASE t # c
  <2>1. Inside(t, c)
    BY <1>2, WithinIsInside DEF TInv
  <2> QED BY <1>2, <2>1 DEF TInv, Phases, Inside
<1> QED BY <1>1, <1>2

-----------------------------------------------------------------------------
(* What a step of a thread that exists may do to the tree: nothing is in   *)
(* its slice yet, or all of the half it has waited for has returned.       *)
Moves(u, next) ==
  \/ pc[u] = "created" /\ u[1] >= u[2] /\ next = "done"
  \/ pc[u] = "both" /\ pc[Left(u)] = "done" /\ next = "joined"
  \/ pc[u] = "joined" /\ pc[Right(u)] = "done" /\ next = "merge"
  \/ pc[u] = "merge" /\ next = "copy"
  \/ pc[u] = "copy" /\ next = "done"

LEMMA MoveHolds ==
  ASSUME TInv, NEW u \in Threads, NEW next, Moves(u, next),
         pc' = [pc EXCEPT ![u] = next], length' = length, main' = main
  PROVE  Tree' /\ Laminar' /\ Phases'
<1> USE DEF TInv
<1>1. u \in Started /\ next \notin {"none", "created", "left", "both"} /\ pc[u] # "done"
  BY DEF Moves, Started
<1>2. pc'[u] = next /\ \A t \in Threads : t # u => pc'[t] = pc[t]
  BY DEF Types
<1>3. Started' = Started
  BY <1>1, <1>2 DEF Started
<1>4. Laminar'
  BY <1>3 DEF Laminar, Apart, Inside, InLeft, InRight
<1>5. Root' = Root
  BY DEF Root
<1>6. Tree'
  <2>1. main' = "create" => Started' = {}
    BY <1>3 DEF Tree
  <2>2. \A t \in Started' : t[2] < length' /\ (t[1] <= t[2] \/ t = Root')
    BY <1>3, <1>5 DEF Tree
  <2>3. ASSUME NEW t \in Started
        PROVE  /\ pc'[t] \in {"left", "both", "joined", "merge", "copy"} => t[1] < t[2] /\ Left(t) \in Started
               /\ pc'[t] \in {"both", "joined", "merge", "copy"} => Right(t) \in Started
    BY <1>1, <1>2 DEF Tree, Started, Moves
  <2>4. ASSUME NEW t \in Started, pc'[t] # "done", t # Root
        PROVE  \E w \in Started :
                 /\ w[1] < w[2]
                 /\ \/ t = Left(w) /\ pc'[w] \in {"left", "both"}
                    \/ t = Right(w) /\ pc'[w] \in {"both", "joined"}
    <3>1. pc[t] # "done"
      BY <1>1, <1>2, <2>4 DEF Started
    <3>2. PICK w \in Started :
            /\ w[1] < w[2]
            /\ \/ t = Left(w) /\ pc[w] \in {"left", "both"}
               \/ t = Right(w) /\ pc[w] \in {"both", "joined"}
      BY <2>4, <3>1 DEF Tree
    <3>3. CASE w # u
      BY <1>2, <3>2, <3>3 DEF Started
    <3>4. CASE w = u
      BY <1>2, <3>1, <3>2, <3>4 DEF Moves
    <3> QED BY <3>3, <3>4
  <2> QED BY <1>3, <1>5, <2>1, <2>2, <2>3, <2>4 DEF Tree
<1>7. Phases'
  <2> SUFFICES ASSUME NEW t \in Started, NEW w \in Started, t # w
               PROVE  /\ InLeft(t, w) => pc'[w] # "created" /\ (pc'[w] \in {"left", "both"} \/ pc'[t] = "done")
                      /\ InRight(t, w) =>
                           pc'[w] \notin {"created", "left"} /\ (pc'[w] \in {"both", "joined"} \/ pc'[t] = "done")
    BY <1>3 DEF Phases, InLeft, InRight
  <2>1. /\ InLeft(t, w) => pc[w] # "created" /\ (pc[w] \in {"left", "both"} \/ pc[t] = "done")
        /\ InRight(t, w) =>
             pc[w] \notin {"created", "left"} /\ (pc[w] \in {"both", "joined"} \/ pc[t] = "done")
    BY DEF Phases
  <2>2. CASE w # u
    BY <1>1, <1>2, <2>1, <2>2 DEF Started
  <2>3. CASE w = u
    <3>1. pc'[t] = pc[t] /\ pc'[w] = next
      BY <1>2, <2>3 DEF Started
    <3>2. CASE pc[u] = "created" /\ u[1] >= u[2]
      <4>1. t[1] <= t[2] /\ u[1] = u[2] /\ Mid(u) = u[1]
        BY <1>1, <2>3, <3>2, Nonempty, StartedRanges
      <4>2. ~ InLeft(t, u) /\ ~ InRight(t, u)
        BY <1>1, <2>3, <4>1, StartedRanges DEF InLeft, InRight
      <4> QED BY <2>3, <4>2
    <3>3. CASE pc[u] = "both" /\ pc[Left(u)] = "done" /\ next = "joined"
      <4>1. u[1] < u[2] /\ Left(u) \in Started
        BY <1>1, <3>3 DEF Tree
      <4>2. InLeft(t, u) => pc[t] = "done"
        BY <1>1, <3>3, <4>1, HalfReturned, StartedRanges DEF InLeft
      <4> QED BY <2>1, <2>3, <3>1, <3>3, <4>2
    <3>4. CASE pc[u] = "joined" /\ pc[Right(u)] = "done" /\ next = "merge"
      <4>1. u[1] < u[2] /\ Right(u) \in Started
        BY <1>1, <3>4 DEF Tree
      <4>2. InRight(t, u) => pc[t] = "done"
        BY <1>1, <3>4, <4>1, HalfReturned, StartedRanges DEF InRight
      <4> QED BY <2>1, <2>3, <3>1, <3>4, <4>2
    <3>5. CASE pc[u] \in {"merge", "copy"} /\ next \in {"copy", "done"}
      BY <2>1, <2>3, <3>1, <3>5
    <3> QED BY <3>2, <3>3, <3>4, <3>5 DEF Moves
  <2> QED BY <2>2, <2>3
<1> QED BY <1>4, <1>6, <1>7

(* The thread of main is the first one.                                    *)
LEMMA RootHolds ==
  ASSUME TInv, MainCreates
  PROVE  Tree' /\ Laminar' /\ Phases'
<1> USE DEF TInv
<1>1. Started = {} /\ main' = "join" /\ length' = length /\ pc' = [pc EXCEPT ![Root] = "created"]
  BY DEF MainCreates, Tree
<1>2. Root \in Threads /\ length \in Nat /\ Root[2] = length - 1
  BY RangesAreThreads DEF Types, Root
<1>3. Started' = {Root} /\ pc'[Root] = "created" /\ Root' = Root
  BY <1>1, <1>2 DEF Types, Started, Root
<1>4. Tree'
  BY <1>1, <1>2, <1>3 DEF Tree
<1>5. Laminar' /\ Phases'
  BY <1>3 DEF Laminar, Phases
<1> QED BY <1>4, <1>5

(* Thread u creates c for the half that nobody has touched.                *)
Births(u, c, next) ==
  \/ pc[u] = "created" /\ u[1] < u[2] /\ c = Left(u) /\ next = "left"
  \/ pc[u] = "left" /\ c = Right(u) /\ next = "both"

(* Where a new thread lies among the others.                               *)
LEMMA NewHalf ==
  ASSUME TInv, NEW u \in Threads, NEW c, NEW next, Births(u, c, next)
  PROVE  /\ u \in Started /\ u[1] < u[2] /\ c \in Threads /\ c \notin Started
         /\ c[1] <= c[2] /\ c[1] >= u[1] /\ c[2] <= u[2]
         /\ c = Left(u) => InLeft(c, u) /\ ~ InRight(c, u)
         /\ c = Right(u) => InRight(c, u) /\ ~ InLeft(c, u)
         /\ \A t \in Started : ~ (c[1] <= t[1] /\ t[2] <= c[2])
         /\ \A t \in Started \ {u} :
              /\ Apart(c, t) \/ Inside(c, t)
              /\ InLeft(c, t) => InLeft(u, t)
              /\ InRight(c, t) => InRight(u, t)
<1> USE DEF TInv
<1>1. u \in Started /\ u[1] < u[2]
  BY DEF Births, Started, Tree
<1>2. /\ u[1] \in Nat /\ u[2] \in Int /\ Mid(u) \in Int /\ u[1] <= Mid(u) /\ Mid(u) < u[2]
      /\ Left(u) \in Threads /\ Left(u)[1] = u[1] /\ Left(u)[2] = Mid(u)
      /\ Right(u) \in Threads /\ Right(u)[1] = Mid(u) + 1 /\ Right(u)[2] = u[2]
  BY <1>1, StartedRanges
<1>3. c \in Threads /\ c[1] \in Int /\ c[2] \in Int /\ c[1] <= c[2] /\ c[1] >= u[1] /\ c[2] <= u[2]
  BY <1>2 DEF Births
<1>4. /\ c = Left(u) => InLeft(c, u) /\ ~ InRight(c, u)
      /\ c = Right(u) => InRight(c, u) /\ ~ InLeft(c, u)
  BY <1>2 DEF InLeft, InRight
<1>5. \A t \in Started \ {u} : t[1] \in Int /\ t[2] \in Int /\ t[1] <= t[2] /\ Mid(t) \in Int
  BY <1>1, Nonempty, StartedRanges
<1>6. ASSUME NEW t \in Started \ {u}
      PROVE  /\ ~ InRight(t, u)
             /\ InLeft(t, u) => c = Right(u) /\ pc[u] = "left"
  BY <1>1 DEF Births, Phases
<1>7. ASSUME NEW t \in Started, c[1] <= t[1], t[2] <= c[2] PROVE FALSE
  <2>1. CASE t = u
    BY <1>2, <1>7, <2>1 DEF Births
  <2>2. CASE t # u
    <3>0. u[1] <= t[1] /\ t[2] <= u[2]
      BY <1>2, <1>3, <1>5, <1>7, <2>2
    <3>1. Inside(t, u)
      BY <1>1, <2>2, <3>0, WithinIsInside
    <3>2. InLeft(t, u) /\ c = Right(u)
      BY <1>6, <2>2, <3>1 DEF Inside
    <3> QED BY <1>2, <1>5, <1>7, <2>2, <3>2 DEF InLeft
  <2> QED BY <2>1, <2>2
<1>8. c \notin Started
  BY <1>3, <1>7
<1>9. ASSUME NEW t \in Started \ {u}
      PROVE  /\ Apart(c, t) \/ Inside(c, t)
             /\ InLeft(c, t) => InLeft(u, t)
             /\ InRight(c, t) => InRight(u, t)
  <2>1. Apart(t, u) \/ Inside(t, u) \/ Inside(u, t)
    BY <1>1 DEF Laminar
  <2>2. t[1] \in Int /\ t[2] \in Int /\ t[1] <= t[2] /\ Mid(t) \in Int /\ t[1] <= Mid(t) /\ Mid(t) <= t[2]
    <3>1. t[1] < t[2] \/ t[1] = t[2]
      BY <1>5
    <3> QED BY <1>5, <3>1, StartedRanges
  <2>3. CASE Apart(t, u)
    <3>1. Apart(c, t)
      BY <1>2, <1>3, <2>2, <2>3 DEF Apart
    <3> QED BY <1>3, <2>2, <3>1 DEF Apart, InLeft, InRight
  <2>4. CASE Inside(t, u)
    <3>1. InLeft(t, u) /\ c = Right(u)
      BY <1>6, <2>4 DEF Inside
    <3>2. t[2] < c[1]
      BY <1>2, <2>2, <3>1 DEF InLeft
    <3> QED BY <1>3, <2>2, <3>2 DEF Apart, InLeft, InRight
  <2>5. CASE Inside(u, t)
    BY <1>2, <1>3, <2>2, <2>5 DEF Inside, InLeft, InRight
  <2> QED BY <2>1, <2>3, <2>4, <2>5
<1> QED BY <1>1, <1>3, <1>4, <1>7, <1>8, <1>9

(* The new thread finds its place in the tree.                             *)
LEMMA BirthHolds ==
  ASSUME TInv, NEW u \in Threads, NEW c, NEW next, Births(u, c, next),
         pc' = [pc EXCEPT ![u] = next, ![c] = "created"], length' = length, main' = main
  PROVE  Tree' /\ Laminar' /\ Phases'
<1> USE DEF TInv
<1>1. /\ u \in Started /\ u[1] < u[2] /\ c \in Threads /\ c \notin Started
      /\ c[1] <= c[2] /\ c[1] >= u[1] /\ c[2] <= u[2]
      /\ c = Left(u) => InLeft(c, u) /\ ~ InRight(c, u)
      /\ c = Right(u) => InRight(c, u) /\ ~ InLeft(c, u)
      /\ \A t \in Started : ~ (c[1] <= t[1] /\ t[2] <= c[2])
      /\ \A t \in Started \ {u} :
           /\ Apart(c, t) \/ Inside(c, t)
           /\ InLeft(c, t) => InLeft(u, t)
           /\ InRight(c, t) => InRight(u, t)
  BY NewHalf
<1>2. /\ pc'[u] = next /\ pc'[c] = "created" /\ next \in {"left", "both"} /\ pc[u] # "done"
      /\ \A t \in Threads : t # u /\ t # c => pc'[t] = pc[t]
  BY <1>1 DEF Births, Types, Started
<1>3. Started' = Started \cup {c}
  BY <1>1, <1>2 DEF Started
<1>4. \A t \in Started : ~ Inside(t, c)
  <2>1. c[1] \in Int /\ c[2] \in Int /\ Mid(c) \in Int /\ c[1] <= Mid(c) /\ Mid(c) <= c[2]
    <3>1. c[1] \in Int /\ c[2] \in Int /\ (c[1] < c[2] \/ c[1] = c[2])
      BY <1>1, RangesAreThreads DEF Types
    <3> QED BY <1>1, <3>1, MidInside DEF Types
  <2>2. \A t \in Started : t[1] \in Int /\ t[2] \in Int
    BY StartedRanges
  <2> QED BY <1>1, <2>1, <2>2 DEF Inside, InLeft, InRight
<1>5. Root' = Root
  BY DEF Root
<1>6. Tree'
  <2>1. main' = "create" => Started' = {}
    BY <1>1 DEF Tree
  <2>2. \A t \in Started' : t[2] < length' /\ (t[1] <= t[2] \/ t = Root')
    <3>1. c[2] < length
      BY <1>1, StartedRanges, RangesAreThreads DEF Types
    <3> QED BY <1>1, <1>3, <1>5, <3>1 DEF Tree
  <2>3. ASSUME NEW t \in Started'
        PROVE  /\ pc'[t] \in {"left", "both", "joined", "merge", "copy"} => t[1] < t[2] /\ Left(t) \in Started'
               /\ pc'[t] \in {"both", "joined", "merge", "copy"} => Right(t) \in Started'
    <3>1. CASE t = c
      BY <1>2, <3>1
    <3>2. CASE t = u
      BY <1>1, <1>2, <1>3, <3>2 DEF Tree, Births
    <3>3. CASE t # u /\ t # c
      BY <1>2, <1>3, <3>3 DEF Tree, Started
    <3> QED BY <3>1, <3>2, <3>3
  <2>4. ASSUME NEW t \in Started', pc'[t] # "done", t # Root
        PROVE  \E w \in Started' :
                 /\ w[1] < w[2]
                 /\ \/ t = Left(w) /\ pc'[w] \in {"left", "both"}
                    \/ t = Right(w) /\ pc'[w] \in {"both", "joined"}
    <3>1. CASE t = c
      BY <1>1, <1>2, <1>3, <3>1 DEF Births
    <3>2. CASE t # c
      <4>1. t \in Started /\ pc[t] # "done"
        BY <1>2, <1>3, <2>4, <3>2 DEF Started
      <4>2. PICK w \in Started :
              /\ w[1] < w[2]
              /\ \/ t = Left(w) /\ pc[w] \in {"left", "both"}
                 \/ t = Right(w) /\ pc[w] \in {"both", "joined"}
        BY <2>4, <4>1 DEF Tree
      <4>3. w \in Started' /\ w # c
        BY <1>1, <1>3
      <4>4. CASE w # u
        BY <1>2, <4>2, <4>3, <4>4 DEF Started
      <4>5. CASE w = u
        BY <1>2, <4>2, <4>3, <4>5 DEF Births
      <4> QED BY <4>4, <4>5
    <3> QED BY <3>1, <3>2
  <2> QED BY <1>5, <2>1, <2>2, <2>3, <2>4 DEF Tree
<1>7. Laminar'
  <2> SUFFICES ASSUME NEW t \in Started', NEW w \in Started', t # w
               PROVE  Apart(t, w) \/ Inside(t, w) \/ Inside(w, t)
    BY DEF Laminar, Apart, Inside, InLeft, InRight
  <2>1. ASSUME NEW x \in Started PROVE Apart(c, x) \/ Inside(c, x)
    BY <1>1 DEF Births, Inside
  <2>2. CASE t = c
    BY <1>3, <2>1, <2>2
  <2>3. CASE w = c
    BY <1>3, <2>1, <2>3 DEF Apart
  <2>4. CASE t # c /\ w # c
    BY <1>3, <2>4 DEF Laminar
  <2> QED BY <2>2, <2>3, <2>4
<1>8. Phases'
  <2> SUFFICES ASSUME NEW t \in Started', NEW w \in Started', t # w
               PROVE  /\ InLeft(t, w) => pc'[w] # "created" /\ (pc'[w] \in {"left", "both"} \/ pc'[t] = "done")
                      /\ InRight(t, w) =>
                           pc'[w] \notin {"created", "left"} /\ (pc'[w] \in {"both", "joined"} \/ pc'[t] = "done")
    BY DEF Phases, InLeft, InRight
  <2>1. CASE w = c
    BY <1>3, <1>4, <2>1 DEF Inside
  <2>2. CASE t = c /\ w = u
    BY <1>1, <1>2, <2>2 DEF Births
  <2>3. CASE t = c /\ w # u
    <3>1. w \in Started \ {u} /\ pc'[w] = pc[w]
      BY <1>2, <1>3, <2>3 DEF Started
    <3>2. /\ InLeft(u, w) => pc[w] # "created" /\ (pc[w] \in {"left", "both"} \/ pc[u] = "done")
          /\ InRight(u, w) =>
               pc[w] \notin {"created", "left"} /\ (pc[w] \in {"both", "joined"} \/ pc[u] = "done")
      BY <1>1, <3>1 DEF Phases
    <3> QED BY <1>1, <1>2, <2>3, <3>1, <3>2
  <2>4. CASE t # c /\ w # c
    <3>1. t \in Started /\ w \in Started
      BY <1>3, <2>4
    <3>2. /\ InLeft(t, w) => pc[w] # "created" /\ (pc[w] \in {"left", "both"} \/ pc[t] = "done")
          /\ InRight(t, w) =>
               pc[w] \notin {"created", "left"} /\ (pc[w] \in {"both", "joined"} \/ pc[t] = "done")
      BY <3>1 DEF Phases
    <3>3. pc[t] = "done" => pc'[t] = "done"
      BY <1>2, <2>4, <3>1 DEF Started
    <3>4. CASE w # u
      <4>1. pc'[w] = pc[w]
        BY <1>2, <2>4, <3>1, <3>4 DEF Started
      <4> QED BY <3>2, <3>3, <4>1
    <3>5. CASE w = u
      BY <1>2, <3>2, <3>5 DEF Births
    <3> QED BY <3>4, <3>5
  <2> QED BY <2>1, <2>2, <2>3, <2>4
<1> QED BY <1>6, <1>7, <1>8

-----------------------------------------------------------------------------
(* The numbers of a slice of an array a.                                   *)
Sorted(a, t) == \A i, j \in Slice(t) : i < j => a[i] <= a[j]

(* The length of a slice, and the indices that run through Tmp.            *)
Size(t) == t[2] - t[1]
Places(t) == 0..Size(t)

(* A slice two halves of which are sorted.                                 *)
Mergeable(t) ==
  /\ length \in Lengths /\ array \in [0..(length - 1) -> Values]
  /\ t \in Threads /\ t[1] < t[2] /\ t[2] < length
  /\ Sorted(array, Left(t)) /\ Sorted(array, Right(t))

(* One step of the merge loops.                                            *)
NextIndex(t, k, i) == IF TakeLeft(t, i, Mid(t) + k - (i - t[1])) THEN i + 1 ELSE i

IsLeftIndex(t, n, f) ==
  f = [k \in 0..n |-> IF k = 0 THEN t[1] ELSE NextIndex(t, k, f[k - 1])]

(* The recursion has a solution on every prefix of its domain.             *)
LEMMA LeftIndexExists ==
  ASSUME NEW t
  PROVE  \A n \in Nat : \E f : IsLeftIndex(t, n, f)
<1> DEFINE T == {n \in Nat : \E f : IsLeftIndex(t, n, f)}
<1>1. 0 \in T
  <2> DEFINE f == [k \in 0..0 |-> t[1]]
  <2>1. IsLeftIndex(t, 0, f)
    BY DEF IsLeftIndex
  <2> QED BY <2>1
<1>2. ASSUME NEW n \in T PROVE n + 1 \in T
  <2>1. PICK f : IsLeftIndex(t, n, f)
    OBVIOUS
  <2> DEFINE g == [k \in 0..(n + 1) |-> IF k = n + 1 THEN NextIndex(t, k, f[n]) ELSE f[k]]
  <2>2. n \in Nat
    OBVIOUS
  <2>3. \A k \in 0..n : f[k] = IF k = 0 THEN t[1] ELSE NextIndex(t, k, f[k - 1])
    BY <2>1 DEF IsLeftIndex
  <2>4. ASSUME NEW k \in 0..(n + 1)
        PROVE  g[k] = IF k = 0 THEN t[1] ELSE NextIndex(t, k, g[k - 1])
    <3>1. CASE k = n + 1
      <4>1. k # 0 /\ k - 1 = n /\ n \in 0..(n + 1) /\ n # n + 1
        BY <2>2, <3>1
      <4>2. g[k - 1] = f[n] /\ g[k] = NextIndex(t, k, f[n])
        BY <3>1, <4>1
      <4> QED BY <4>1, <4>2
    <3>2. CASE k = 0
      <4>1. g[k] = f[k] /\ 0 \in 0..n
        BY <2>2, <3>2
      <4> QED BY <2>3, <3>2, <4>1
    <3>3. CASE k \in 1..n
      <4>1. k \in 0..n /\ k - 1 \in 0..(n + 1) /\ k - 1 # n + 1 /\ k # n + 1 /\ k # 0
        BY <2>2, <3>3
      <4>2. g[k] = f[k] /\ g[k - 1] = f[k - 1]
        BY <4>1
      <4> QED BY <2>3, <4>1, <4>2
    <3> QED BY <2>2, <3>1, <3>2, <3>3
  <2>5. IsLeftIndex(t, n + 1, g)
    BY <2>4 DEF IsLeftIndex
  <2> QED BY <2>2, <2>5
<1> HIDE DEF T
<1>3. \A n \in Nat : n \in T
  BY <1>1, <1>2, SetInduction, T \in SUBSET Nat DEF T
<1> QED BY <1>3 DEF T

(* What LeftIndex computes.                                                *)
LEMMA LeftIndexUnfolds ==
  ASSUME NEW t, Size(t) \in Nat
  PROVE  \A k \in Places(t) :
           LeftIndex(t)[k] = IF k = 0 THEN t[1] ELSE NextIndex(t, k, LeftIndex(t)[k - 1])
<1> DEFINE P(i) == i = [k \in 0..(t[2] - t[1]) |->
                         IF k = 0 THEN t[1]
                         ELSE IF TakeLeft(t, i[k - 1], Mid(t) + k - (i[k - 1] - t[1]))
                              THEN i[k - 1] + 1 ELSE i[k - 1]]
<1>1. LeftIndex(t) = CHOOSE i : P(i)
  BY DEF LeftIndex
<1>2. \E i : P(i)
  BY LeftIndexExists DEF IsLeftIndex, NextIndex, Size
<1>3. P(LeftIndex(t))
  BY <1>1, <1>2
<1> QED BY <1>3 DEF NextIndex, Places, Size

-----------------------------------------------------------------------------
(* The index j when k elements are in Tmp, and where the next one is from. *)
RightIndex(t, k) == Mid(t) + 1 + k - (LeftIndex(t)[k] - t[1])
FromLeft(t, k) == TakeLeft(t, LeftIndex(t)[k], RightIndex(t, k))
Source(t, k) == IF FromLeft(t, k) THEN LeftIndex(t)[k] ELSE RightIndex(t, k)

(* The numbers behind a mergeable slice.                                   *)
LEMMA MergeableFacts ==
  ASSUME NEW t, Mergeable(t)
  PROVE  /\ t[1] \in Nat /\ t[2] \in Int /\ Mid(t) \in Int /\ Size(t) \in Nat /\ length \in Nat
         /\ t[1] <= Mid(t) /\ Mid(t) < t[2] /\ t[2] < length
         /\ \A i, j \in t[1]..Mid(t) : i <= j => array[i] <= array[j]
         /\ \A i, j \in (Mid(t) + 1)..t[2] : i <= j => array[i] <= array[j]
         /\ \A i \in t[1]..t[2] : array[i] \in Values /\ array[i] \in Int
<1>1. length \in Lengths /\ t \in Threads /\ t[1] < t[2] /\ t[2] < length
  BY DEF Mergeable
<1>2. /\ t[1] \in Nat /\ t[2] \in Int /\ Mid(t) \in Int /\ length \in Nat
      /\ t[1] <= Mid(t) /\ Mid(t) < t[2]
  BY <1>1, RangesAreThreads, MidInside
<1>3. Size(t) \in Nat
  BY <1>1, <1>2 DEF Size
<1>4. \A i \in t[1]..t[2] : array[i] \in Values /\ array[i] \in Int
  <2>1. array \in [0..(length - 1) -> Values]
    BY DEF Mergeable
  <2>2. \A i \in t[1]..t[2] : i \in 0..(length - 1)
    BY <1>1, <1>2
  <2> QED BY <2>1, <2>2, InputAssumption
<1>5. Slice(Left(t)) = t[1]..Mid(t) /\ Slice(Right(t)) = (Mid(t) + 1)..t[2]
  BY <1>1, Halves DEF Slice
<1>6. \A i, j \in t[1]..Mid(t) : i <= j => array[i] <= array[j]
  <2>1. \A i, j \in t[1]..Mid(t) : i < j => array[i] <= array[j]
    BY <1>5 DEF Mergeable, Sorted
  <2>2. \A i \in t[1]..Mid(t) : array[i] \in Int
    BY <1>2, <1>4
  <2> QED BY <1>2, <2>1, <2>2
<1>7. \A i, j \in (Mid(t) + 1)..t[2] : i <= j => array[i] <= array[j]
  <2>1. \A i, j \in (Mid(t) + 1)..t[2] : i < j => array[i] <= array[j]
    BY <1>5 DEF Mergeable, Sorted
  <2>2. \A i \in (Mid(t) + 1)..t[2] : array[i] \in Int
    BY <1>2, <1>4
  <2> QED BY <1>2, <2>1, <2>2
<1> QED BY <1>1, <1>2, <1>3, <1>4, <1>6, <1>7

(* The two indices stay in their halves, or at their ends.                 *)
LEMMA IndexBounds ==
  ASSUME NEW t, Mergeable(t)
  PROVE  \A k \in Places(t) :
           /\ LeftIndex(t)[k] \in t[1]..(Mid(t) + 1)
           /\ RightIndex(t, k) \in (Mid(t) + 1)..(t[2] + 1)
           /\ FromLeft(t, k) => LeftIndex(t)[k] <= Mid(t)
           /\ ~ FromLeft(t, k) => RightIndex(t, k) <= t[2]
<1> DEFINE I(k) == LeftIndex(t)[k]
           J(k) == RightIndex(t, k)
           B(k) == I(k) \in t[1]..(Mid(t) + 1) /\ J(k) \in (Mid(t) + 1)..(t[2] + 1)
           T == {k \in Nat : k \in Places(t) => B(k)}
<1>1. /\ t[1] \in Nat /\ t[2] \in Int /\ Mid(t) \in Int /\ Size(t) \in Nat
      /\ t[1] <= Mid(t) /\ Mid(t) < t[2] /\ Size(t) = t[2] - t[1]
  BY MergeableFacts DEF Size
<1>2. \A k \in Places(t) : I(k) = IF k = 0 THEN t[1] ELSE NextIndex(t, k, I(k - 1))
  BY <1>1, LeftIndexUnfolds
<1>3. \A k \in Places(t) : k \in Nat /\ k <= t[2] - t[1]
  BY <1>1 DEF Places
<1>4. ASSUME NEW k \in Places(t), B(k)
      PROVE  /\ FromLeft(t, k) => I(k) <= Mid(t)
             /\ ~ FromLeft(t, k) => J(k) <= t[2]
  <2>1. J(k) = Mid(t) + 1 + k - (I(k) - t[1])
    BY DEF RightIndex
  <2>2. /\ FromLeft(t, k) => I(k) <= Mid(t)
        /\ ~ FromLeft(t, k) => ~ (I(k) <= Mid(t)) \/ ~ (J(k) > t[2])
    BY DEF FromLeft, TakeLeft
  <2> HIDE DEF I, J
  <2>3. I(k) \in Int /\ J(k) \in Int /\ (~ (I(k) <= Mid(t)) => I(k) = Mid(t) + 1)
    BY <1>1, <1>4
  <2>4. I(k) = Mid(t) + 1 => J(k) <= t[2]
    BY <1>1, <1>3, <2>1, <2>3
  <2> QED BY <1>1, <2>2, <2>3, <2>4
<1>5. 0 \in T
  BY <1>1, <1>2 DEF RightIndex
<1>6. ASSUME NEW k \in T PROVE k + 1 \in T
  <2> SUFFICES ASSUME k + 1 \in Places(t) PROVE B(k + 1)
    OBVIOUS
  <2>1. k \in Places(t) /\ k \in Nat /\ k + 1 # 0 /\ (k + 1) - 1 = k
    BY <1>1 DEF Places
  <2>2. B(k)
    BY <2>1
  <2>3. J(k) = Mid(t) + 1 + k - (I(k) - t[1]) /\ J(k + 1) = Mid(t) + 1 + (k + 1) - (I(k + 1) - t[1])
    BY DEF RightIndex
  <2>4. I(k + 1) = NextIndex(t, k + 1, I(k))
    BY <1>2, <2>1
  <2>5. Mid(t) + (k + 1) - (I(k) - t[1]) = J(k)
    <3> HIDE DEF I, J
    <3> QED BY <1>1, <2>1, <2>2, <2>3
  <2>6. I(k + 1) = IF FromLeft(t, k) THEN I(k) + 1 ELSE I(k)
    BY <2>4, <2>5 DEF NextIndex, FromLeft
  <2> HIDE DEF I, J
  <2> QED BY <1>1, <1>4, <2>1, <2>2, <2>3, <2>6
<1>7. \A k \in Nat : k \in T
  <2> HIDE DEF T
  <2> QED BY <1>5, <1>6, SetInduction, T \in SUBSET Nat DEF T
<1>8. \A k \in Places(t) : B(k)
  BY <1>3, <1>7
<1> QED BY <1>4, <1>8

(* The index of an element of Tmp moves on by one, and the other stays.    *)
LEMMA IndexStep ==
  ASSUME NEW t, Mergeable(t), NEW k \in Places(t), k + 1 \in Places(t)
  PROVE  IF FromLeft(t, k)
         THEN LeftIndex(t)[k + 1] = LeftIndex(t)[k] + 1 /\ RightIndex(t, k + 1) = RightIndex(t, k)
         ELSE LeftIndex(t)[k + 1] = LeftIndex(t)[k] /\ RightIndex(t, k + 1) = RightIndex(t, k) + 1
<1> DEFINE I(n) == LeftIndex(t)[n]
           J(n) == RightIndex(t, n)
<1>1. /\ t[1] \in Nat /\ t[2] \in Int /\ Mid(t) \in Int /\ Size(t) \in Nat
      /\ k \in Nat /\ k + 1 # 0 /\ (k + 1) - 1 = k
  BY MergeableFacts DEF Places
<1>2. I(k + 1) = NextIndex(t, k + 1, I(k))
  BY <1>1, LeftIndexUnfolds
<1>3. I(k) \in Int
  BY <1>1, IndexBounds
<1>4. J(k) = Mid(t) + 1 + k - (I(k) - t[1]) /\ J(k + 1) = Mid(t) + 1 + (k + 1) - (I(k + 1) - t[1])
  BY DEF RightIndex
<1>5. Mid(t) + (k + 1) - (I(k) - t[1]) = J(k)
  <2> HIDE DEF I, J
  <2> QED BY <1>1, <1>3, <1>4
<1>6. I(k + 1) = IF FromLeft(t, k) THEN I(k) + 1 ELSE I(k)
  BY <1>2, <1>5 DEF NextIndex, FromLeft
<1> HIDE DEF I, J
<1>7. IF FromLeft(t, k) THEN I(k + 1) = I(k) + 1 /\ J(k + 1) = J(k)
      ELSE I(k + 1) = I(k) /\ J(k + 1) = J(k) + 1
  BY <1>1, <1>3, <1>4, <1>6
<1> QED BY <1>7 DEF I, J

(* Neither index ever goes back.                                           *)
LEMMA IndexMonotone ==
  ASSUME NEW t, Mergeable(t)
  PROVE  \A k, l \in Places(t) : k <= l =>
           LeftIndex(t)[k] <= LeftIndex(t)[l] /\ RightIndex(t, k) <= RightIndex(t, l)
<1> DEFINE Le(k, l) == LeftIndex(t)[k] <= LeftIndex(t)[l] /\ RightIndex(t, k) <= RightIndex(t, l)
           T == {d \in Nat : \A k \in Places(t) : k + d \in Places(t) => Le(k, k + d)}
<1>1. Size(t) \in Nat /\ \A k \in Places(t) : k \in Nat
  BY MergeableFacts DEF Places
<1>2. \A k \in Places(t) : LeftIndex(t)[k] \in Int /\ RightIndex(t, k) \in Int
  BY IndexBounds, MergeableFacts
<1>3. 0 \in T
  BY <1>1, <1>2
<1>4. ASSUME NEW d \in T PROVE d + 1 \in T
  <2> SUFFICES ASSUME NEW k \in Places(t), k + (d + 1) \in Places(t) PROVE Le(k, k + (d + 1))
    OBVIOUS
  <2>1. k + d \in Places(t) /\ k + (d + 1) = (k + d) + 1
    BY <1>1 DEF Places
  <2>2. Le(k, k + d)
    BY <2>1
  <2>3. Le(k + d, (k + d) + 1)
    BY <1>2, <2>1, IndexStep
  <2> QED BY <1>2, <2>1, <2>2, <2>3
<1> HIDE DEF T
<1>5. \A d \in Nat : d \in T
  BY <1>3, <1>4, SetInduction, T \in SUBSET Nat DEF T
<1> SUFFICES ASSUME NEW k \in Places(t), NEW l \in Places(t), k <= l PROVE Le(k, l)
  OBVIOUS
<1>6. l - k \in Nat /\ k + (l - k) = l
  BY <1>1
<1>7. l - k \in T
  BY <1>5, <1>6
<1> QED BY <1>6, <1>7 DEF T

-----------------------------------------------------------------------------
(* Two sets of indices at which the same numbers are found have as many of *)
(* each number.                                                            *)
LEMMA SameCount ==
  ASSUME NEW S, NEW T, IsFiniteSet(S), NEW f \in Bijection(S, T), NEW a, NEW b,
         \A s \in S : a[s] = b[f[s]], NEW v
  PROVE  Count(a, S, v) = Count(b, T, v)
<1> DEFINE A == {s \in S : a[s] = v}
           B == {r \in T : b[r] = v}
           g == [s \in A |-> f[s]]
<1>1. /\ f \in [S -> T]
      /\ \A x, y \in S : f[x] = f[y] => x = y
      /\ \A r \in T : \E s \in S : f[s] = r
  BY DEF Bijection, Injection, Surjection, IsInjective
<1>2. g \in [A -> B]
  BY <1>1
<1>3. \A x, y \in A : g[x] = g[y] => x = y
  BY <1>1
<1>4. \A r \in B : \E s \in A : g[s] = r
  BY <1>1
<1>5. DOMAIN g = A
  OBVIOUS
<1>6. IsFiniteSet(A)
  BY FS_Subset
<1> HIDE DEF A, B, g
<1>7. g \in Bijection(A, B)
  BY <1>2, <1>3, <1>4, <1>5 DEF Bijection, Injection, Surjection, IsInjective
<1>8. ExistsBijection(A, B)
  BY <1>7 DEF ExistsBijection
<1>9. Cardinality(A) = Cardinality(B)
  BY <1>6, <1>8, FS_Bijection
<1> QED BY <1>9 DEF A, B, Count

(* Every element of the slice goes to one place of Tmp.                    *)
LEMMA SourceIsBijection ==
  ASSUME NEW t, Mergeable(t)
  PROVE  [k \in Places(t) |-> Source(t, k)] \in Bijection(Places(t), Slice(t))
<1> DEFINE f == [k \in Places(t) |-> Source(t, k)]
           I(k) == LeftIndex(t)[k]
           J(k) == RightIndex(t, k)
<1>1. /\ t[1] \in Nat /\ t[2] \in Int /\ Mid(t) \in Int /\ Size(t) \in Nat /\ Size(t) = t[2] - t[1]
      /\ t[1] <= Mid(t) /\ Mid(t) < t[2]
      /\ \A k \in Places(t) : k \in Nat
  BY MergeableFacts DEF Size, Places
<1>2. \A k \in Places(t) :
        /\ I(k) \in t[1]..(Mid(t) + 1) /\ J(k) \in (Mid(t) + 1)..(t[2] + 1)
        /\ FromLeft(t, k) => I(k) <= Mid(t)
        /\ ~ FromLeft(t, k) => J(k) <= t[2]
  BY IndexBounds
<1>3. \A k \in Places(t) : Source(t, k) = IF FromLeft(t, k) THEN I(k) ELSE J(k)
  BY DEF Source
<1>4. ASSUME NEW k \in Places(t), NEW l \in Places(t), k < l
      PROVE  /\ I(k) <= I(l) /\ J(k) <= J(l)
             /\ IF FromLeft(t, k) THEN I(k) < I(l) ELSE J(k) < J(l)
  <2>1. k + 1 \in Places(t) /\ k + 1 <= l /\ k <= l
    BY <1>1, <1>4 DEF Places
  <2>2. I(k) <= I(l) /\ J(k) <= J(l) /\ I(k + 1) <= I(l) /\ J(k + 1) <= J(l)
    BY <2>1, IndexMonotone
  <2>3. IF FromLeft(t, k) THEN I(k + 1) = I(k) + 1 ELSE J(k + 1) = J(k) + 1
    BY <2>1, IndexStep
  <2> HIDE DEF I, J
  <2>4. I(k) \in Int /\ I(l) \in Int /\ J(k) \in Int /\ J(l) \in Int
    BY <1>1, <1>2
  <2> QED BY <2>2, <2>3, <2>4
<1>5. f \in [Places(t) -> Slice(t)]
  <2> SUFFICES ASSUME NEW k \in Places(t) PROVE Source(t, k) \in t[1]..t[2]
    BY DEF Slice
  <2> HIDE DEF I, J
  <2> QED BY <1>1, <1>2, <1>3
<1>6. \A k, l \in Places(t) : k < l => Source(t, k) # Source(t, l)
  <2> SUFFICES ASSUME NEW k \in Places(t), NEW l \in Places(t), k < l
               PROVE  Source(t, k) # Source(t, l)
    OBVIOUS
  <2>1. /\ I(k) \in Int /\ I(l) \in Int /\ J(k) \in Int /\ J(l) \in Int
        /\ J(k) > Mid(t) /\ J(l) > Mid(t)
    BY <1>1, <1>2
  <2> HIDE DEF I, J
  <2> QED BY <1>1, <1>2, <1>3, <1>4, <2>1
<1>7. \A k, l \in Places(t) : f[k] = f[l] => k = l
  BY <1>1, <1>6
<1>8. f \in Injection(Places(t), Slice(t))
  <2> HIDE DEF f
  <2>1. DOMAIN f = Places(t)
    BY <1>5
  <2> QED BY <1>5, <1>7, <2>1 DEF Injection, IsInjective
<1>9. /\ IsFiniteSet(Slice(t)) /\ Cardinality(Slice(t)) = t[2] - t[1] + 1
      /\ Cardinality(Places(t)) = t[2] - t[1] + 1
  <2>1. /\ IsFiniteSet(t[1]..t[2])
        /\ Cardinality(t[1]..t[2]) = IF t[1] > t[2] THEN 0 ELSE t[2] - t[1] + 1
    <3>1. t[1] \in Int /\ t[2] \in Int
      BY <1>1
    <3> QED BY ONLY <3>1, FS_Interval
  <2>2. Cardinality(0..Size(t)) = IF 0 > Size(t) THEN 0 ELSE Size(t) - 0 + 1
    BY <1>1, FS_Interval
  <2>3. t[1] <= t[2] /\ ~ (0 > Size(t)) /\ Size(t) - 0 + 1 = t[2] - t[1] + 1
    BY <1>1
  <2> QED BY <1>1, <2>1, <2>2, <2>3 DEF Slice, Places
<1> HIDE DEF f
<1>10. f \in Surjection(Places(t), Slice(t))
  BY <1>8, <1>9, FS_Injection
<1> QED BY <1>8, <1>10 DEF Bijection, f

(* What the merge loops leave in Tmp: sorted, and the numbers of the slice.*)
LEMMA MergeSorts ==
  ASSUME NEW t, Mergeable(t)
  PROVE  /\ Merged(t) \in [Places(t) -> Values]
         /\ \A k, l \in Places(t) : k < l => Merged(t)[k] <= Merged(t)[l]
         /\ \A v : Count(Merged(t), Places(t), v) = Count(array, Slice(t), v)
<1> DEFINE I(k) == LeftIndex(t)[k]
           J(k) == RightIndex(t, k)
           f == [k \in Places(t) |-> Source(t, k)]
<1>1. /\ t[1] \in Nat /\ t[2] \in Int /\ Mid(t) \in Int /\ Size(t) \in Nat
      /\ t[1] <= Mid(t) /\ Mid(t) < t[2]
      /\ \A k \in Places(t) : k \in Nat
      /\ \A i, j \in t[1]..Mid(t) : i <= j => array[i] <= array[j]
      /\ \A i, j \in (Mid(t) + 1)..t[2] : i <= j => array[i] <= array[j]
      /\ \A i \in t[1]..t[2] : array[i] \in Values /\ array[i] \in Int
  BY MergeableFacts DEF Places
<1>2. f \in Bijection(Places(t), Slice(t))
  BY SourceIsBijection
<1>3. \A k \in Places(t) : Source(t, k) \in t[1]..t[2]
  <2>1. f \in [Places(t) -> Slice(t)]
    BY <1>2 DEF Bijection, Injection
  <2> QED BY <2>1 DEF Slice
<1>4. Merged(t) = [k \in Places(t) |-> array[Source(t, k)]]
  <2> DEFINE j(k) == Mid(t) + 1 + k - (LeftIndex(t)[k] - t[1])
  <2>1. Merged(t) = [k \in Places(t) |->
          IF TakeLeft(t, LeftIndex(t)[k], j(k)) THEN array[LeftIndex(t)[k]] ELSE array[j(k)]]
    BY DEF Merged, Places, Size
  <2> SUFFICES \A k \in Places(t) : array[Source(t, k)] =
                 IF TakeLeft(t, LeftIndex(t)[k], j(k)) THEN array[LeftIndex(t)[k]] ELSE array[j(k)]
    BY <2>1
  <2> QED BY DEF Source, FromLeft, RightIndex
<1>5. Merged(t) \in [Places(t) -> Values]
  BY <1>1, <1>3, <1>4
<1>6. ASSUME NEW k \in Places(t), NEW l \in Places(t), k < l
      PROVE  array[Source(t, k)] <= array[Source(t, l)]
  <2>1. \A n \in {k, l} :
          /\ I(n) \in t[1]..(Mid(t) + 1) /\ J(n) \in (Mid(t) + 1)..(t[2] + 1)
          /\ FromLeft(t, n) => I(n) <= Mid(t)
          /\ ~ FromLeft(t, n) => J(n) <= t[2]
          /\ Source(t, n) = IF FromLeft(t, n) THEN I(n) ELSE J(n)
    BY IndexBounds DEF Source
  <2>2. I(k) <= I(l) /\ J(k) <= J(l)
    BY <1>1, <1>6, IndexMonotone
  <2>3. FromLeft(t, k) <=> (I(k) <= Mid(t) /\ (J(k) > t[2] \/ array[I(k)] < array[J(k)]))
    BY DEF FromLeft, TakeLeft
  <2> HIDE DEF I, J
  <2>4. /\ I(k) \in Int /\ I(l) \in Int /\ J(k) \in Int /\ J(l) \in Int
        /\ I(k) >= t[1] /\ J(k) > Mid(t) /\ I(l) >= t[1] /\ J(l) > Mid(t)
    BY <1>1, <2>1
  <2>5. CASE FromLeft(t, k) /\ FromLeft(t, l)
    <3>1. I(k) \in t[1]..Mid(t) /\ I(l) \in t[1]..Mid(t)
      BY <1>1, <2>1, <2>4, <2>5
    <3>2. array[I(k)] <= array[I(l)]
      BY <1>1, <2>2, <3>1
    <3> QED BY <2>1, <2>5, <3>2
  <2>6. CASE ~ FromLeft(t, k) /\ ~ FromLeft(t, l)
    <3>1. J(k) \in (Mid(t) + 1)..t[2] /\ J(l) \in (Mid(t) + 1)..t[2]
      BY <1>1, <2>1, <2>4, <2>6
    <3>2. array[J(k)] <= array[J(l)]
      BY <1>1, <2>2, <3>1
    <3> QED BY <2>1, <2>6, <3>2
  <2>7. CASE FromLeft(t, k) /\ ~ FromLeft(t, l)
    <3>1. I(k) \in t[1]..t[2] /\ J(k) \in (Mid(t) + 1)..t[2] /\ J(l) \in (Mid(t) + 1)..t[2]
      BY <1>1, <2>1, <2>2, <2>4, <2>7
    <3>2. array[I(k)] < array[J(k)]
      BY <1>1, <2>3, <2>7, <3>1
    <3>3. array[J(k)] <= array[J(l)]
      BY <1>1, <2>2, <3>1
    <3>4. array[I(k)] \in Int /\ array[J(k)] \in Int /\ array[J(l)] \in Int
      BY <1>1, <2>4, <3>1
    <3> QED BY <2>1, <2>7, <3>2, <3>3, <3>4
  <2>8. CASE ~ FromLeft(t, k) /\ FromLeft(t, l)
    <3>1. I(k) \in t[1]..Mid(t) /\ I(l) \in t[1]..Mid(t) /\ J(k) \in t[1]..t[2]
      BY <1>1, <2>1, <2>2, <2>4, <2>8
    <3>2. ~ (array[I(k)] < array[J(k)])
      BY <1>1, <2>3, <2>8, <3>1
    <3>3. array[I(k)] <= array[I(l)]
      BY <1>1, <2>2, <3>1
    <3>4. array[I(k)] \in Int /\ array[J(k)] \in Int /\ array[I(l)] \in Int
      BY <1>1, <2>4, <3>1
    <3> QED BY <2>1, <2>8, <3>2, <3>3, <3>4
  <2> QED BY <2>5, <2>6, <2>7, <2>8
<1>7. ASSUME NEW v
      PROVE  Count(Merged(t), Places(t), v) = Count(array, Slice(t), v)
  <2>1. IsFiniteSet(Places(t))
    BY <1>1, FS_Interval DEF Places
  <2>2. \A k \in Places(t) : Merged(t)[k] = array[f[k]]
    BY <1>4
  <2> DEFINE m == Merged(t)
  <2> HIDE DEF f, m
  <2>3. \A k \in Places(t) : m[k] = array[f[k]]
    BY <2>2 DEF m
  <2>4. Count(m, Places(t), v) = Count(array, Slice(t), v)
    BY <1>2, <2>1, <2>3, SameCount
  <2> QED BY <2>4 DEF m
<1> QED BY <1>4, <1>5, <1>6, <1>7

-----------------------------------------------------------------------------
(* As many of each number.                                                 *)
SameNumbers(a, S, b, T) == \A v \in Values : Count(a, S, v) = Count(b, T, v)

(* What a thread has returned is sorted.                                   *)
ReturnedSorted == \A t \in Started : pc[t] = "done" => Sorted(array, t)

(* What a thread is about to copy is its slice, sorted.                    *)
TmpMerged ==
  \A t \in Started : pc[t] = "copy" =>
    /\ Tmp[t] \in [Places(t) -> Values]
    /\ \A k, l \in Places(t) : k < l => Tmp[t][k] <= Tmp[t][l]
    /\ SameNumbers(Tmp[t], Places(t), array, Slice(t))

(* Nobody has written what is still to be sorted.                          *)
Untouched ==
  /\ main = "create" => array = input
  /\ \A t \in Started :
       /\ pc[t] = "created" => \A i \in Slice(t) : array[i] = input[i]
       /\ pc[t] = "left" => \A i \in Slice(Right(t)) : array[i] = input[i]

(* A slice has its numbers until a thread above it has written over it.    *)
Whole ==
  \A t \in Started :
    (\A u \in Started : pc[u] = "done" /\ u # t => ~ Inside(t, u))
      => SameNumbers(array, Slice(t), input, Slice(t))

Data == ReturnedSorted /\ TmpMerged /\ Untouched /\ Whole

IInv == TInv /\ Data

(* A count is that of the parts.                                           *)
LEMMA CountOfParts ==
  ASSUME NEW S, IsFiniteSet(S), NEW A \in SUBSET S, NEW a, NEW v
  PROVE  Count(a, S, v) = Count(a, A, v) + Count(a, S \ A, v)
<1> DEFINE X == {i \in A : a[i] = v}
           Y == {i \in S \ A : a[i] = v}
<1>1. {i \in S : a[i] = v} = X \cup Y /\ X \cap Y = {}
  OBVIOUS
<1>2. X \in SUBSET S /\ Y \in SUBSET S
  OBVIOUS
<1> HIDE DEF X, Y
<1>3. IsFiniteSet(X) /\ IsFiniteSet(Y)
  BY <1>2, FS_Subset
<1>4. Cardinality(X \cup Y) = Cardinality(X) + Cardinality(Y) - Cardinality(X \cap Y)
  BY <1>3, FS_Union
<1>5. Cardinality(X \cap Y) = 0 /\ Cardinality(X) \in Nat /\ Cardinality(Y) \in Nat
  BY <1>1, <1>3, FS_EmptySet, FS_CardinalityType
<1>6. Cardinality(X \cup Y) = Cardinality(X) + Cardinality(Y)
  BY <1>4, <1>5
<1> QED BY <1>1, <1>6 DEF Count, X, Y

(* A thread sorts a part of the file.                                     *)
LEMMA SliceInFile ==
  ASSUME Types, Tree, NEW t \in Started
  PROVE  Slice(t) \subseteq 0..(length - 1) /\ IsFiniteSet(Slice(t))
<1>1. t[1] \in Nat /\ t[2] \in Int /\ t[1] \in Int /\ t[2] < length /\ length \in Nat
  BY StartedRanges
<1>2. IsFiniteSet(t[1]..t[2])
  BY ONLY <1>1, FS_Interval
<1> QED BY <1>1, <1>2 DEF Slice

(* Copying back changes the order of the slice and nothing else.           *)
LEMMA CopyFacts ==
  ASSUME IInv, NEW t \in Threads, CopyBack(t)
  PROVE  /\ t \in Started /\ pc[t] = "copy" /\ pc' = [pc EXCEPT ![t] = "done"] /\ Tmp' = [Tmp EXCEPT ![t] = <<>>]
         /\ array' \in [0..(length - 1) -> Values]
         /\ \A i \in 0..(length - 1) : i \notin Slice(t) => array'[i] = array[i]
         /\ Sorted(array', t)
         /\ \A S \in SUBSET (0..(length - 1)) :
              Slice(t) \subseteq S \/ Slice(t) \cap S = {} => SameNumbers(array', S, array, S)
<1> USE DEF IInv, TInv, Data
<1>1. /\ pc[t] = "copy" /\ pc' = [pc EXCEPT ![t] = "done"] /\ Tmp' = [Tmp EXCEPT ![t] = <<>>]
      /\ array' = [i \in DOMAIN array |-> IF i \in Slice(t) THEN Tmp[t][i - t[1]] ELSE array[i]]
  BY DEF CopyBack
<1>2. t \in Started /\ array \in [0..(length - 1) -> Values]
  BY <1>1 DEF Started, Types
<1>3. /\ t[1] \in Nat /\ t[2] \in Int /\ length \in Nat /\ t[2] < length
      /\ Slice(t) \subseteq 0..(length - 1) /\ IsFiniteSet(Slice(t)) /\ t[1] < t[2]
  BY <1>1, <1>2, StartedRanges, SliceInFile DEF Tree
<1>4. /\ Tmp[t] \in [Places(t) -> Values]
      /\ \A k, l \in Places(t) : k < l => Tmp[t][k] <= Tmp[t][l]
      /\ SameNumbers(Tmp[t], Places(t), array, Slice(t))
  BY <1>1, <1>2 DEF TmpMerged
<1>5. \A i \in Slice(t) : i - t[1] \in Places(t) /\ array'[i] = Tmp[t][i - t[1]]
  BY <1>1, <1>2, <1>3 DEF Slice, Places, Size
<1>6. \A i \in 0..(length - 1) : i \notin Slice(t) => array'[i] = array[i]
  BY <1>1, <1>2
<1>7. array' \in [0..(length - 1) -> Values]
  <2>1. \A i \in 0..(length - 1) : array'[i] \in Values
    BY <1>2, <1>4, <1>5, <1>6
  <2> QED BY <1>1, <1>2, <2>1
<1>8. Sorted(array', t)
  <2> SUFFICES ASSUME NEW i \in Slice(t), NEW j \in Slice(t), i < j
               PROVE  array'[i] <= array'[j]
    BY DEF Sorted
  <2>1. i - t[1] < j - t[1]
    BY <1>3 DEF Slice
  <2> QED BY <1>4, <1>5, <2>1
<1>9. SameNumbers(array', Slice(t), array, Slice(t))
  <2> DEFINE f == [i \in Slice(t) |-> i - t[1]]
  <2>1. f \in [Slice(t) -> Places(t)] /\ DOMAIN f = Slice(t)
    BY <1>5
  <2>2. \A i, j \in Slice(t) : f[i] = f[j] => i = j
    BY <1>3 DEF Slice
  <2>3. \A k \in Places(t) : \E i \in Slice(t) : f[i] = k
    <3> TAKE k \in Places(t)
    <3>1. k + t[1] \in Slice(t) /\ (k + t[1]) - t[1] = k
      BY <1>3 DEF Slice, Places, Size
    <3> QED BY <3>1
  <2>4. \A i \in Slice(t) : array'[i] = Tmp[t][f[i]]
    BY <1>5
  <2> HIDE DEF f
  <2>5. f \in Bijection(Slice(t), Places(t))
    BY <2>1, <2>2, <2>3 DEF Bijection, Injection, Surjection, IsInjective
  <2>6. \A v : Count(array', Slice(t), v) = Count(Tmp[t], Places(t), v)
    BY <1>3, <2>4, <2>5, SameCount
  <2> QED BY <1>4, <2>6 DEF SameNumbers
<1>10. ASSUME NEW S \in SUBSET (0..(length - 1)), Slice(t) \subseteq S \/ Slice(t) \cap S = {}
       PROVE  SameNumbers(array', S, array, S)
  <2>1. \A i \in S \ Slice(t) : array'[i] = array[i]
    BY <1>6
  <2>2. CASE Slice(t) \cap S = {}
    <3>1. \A i \in S : array'[i] = array[i]
      BY <2>1, <2>2
    <3>2. \A v : {i \in S : array'[i] = v} = {i \in S : array[i] = v}
      BY <3>1
    <3> QED BY <3>2 DEF SameNumbers, Count
  <2>3. CASE Slice(t) \subseteq S
    <3>1. IsFiniteSet(S)
      <4>1. 0 \in Int /\ length - 1 \in Int
        BY <1>3
      <4>2. IsFiniteSet(0..(length - 1))
        BY ONLY <4>1, FS_Interval
      <4> QED BY <4>2, FS_Subset
    <3>2. \A v : Count(array', S \ Slice(t), v) = Count(array, S \ Slice(t), v)
      <4>1. \A v : {i \in S \ Slice(t) : array'[i] = v} = {i \in S \ Slice(t) : array[i] = v}
        BY <2>1
      <4> QED BY <4>1 DEF Count
    <3>3. \A v : /\ Count(array', S, v) = Count(array', Slice(t), v) + Count(array', S \ Slice(t), v)
                /\ Count(array, S, v) = Count(array, Slice(t), v) + Count(array, S \ Slice(t), v)
      BY <2>3, <3>1, CountOfParts
    <3> QED BY <1>9, <3>2, <3>3 DEF SameNumbers
  <2> QED BY <1>10, <2>2, <2>3
<1> QED BY <1>1, <1>2, <1>6, <1>7, <1>8, <1>10

(* Slices that lie apart have no index in common, and so on.               *)
LEMMA SlicesOfThreads ==
  ASSUME Types, Tree, NEW t \in Started, NEW u \in Started
  PROVE  /\ Apart(t, u) => Slice(t) \cap Slice(u) = {}
         /\ t # u /\ Inside(t, u) => Slice(t) \subseteq Slice(u)
         /\ u[1] < u[2] /\ InLeft(t, u) => Slice(t) \cap Slice(Right(u)) = {}
         /\ u[1] < u[2] => Slice(Left(u)) \subseteq Slice(u) /\ Slice(Right(u)) \subseteq Slice(u)
<1>1. /\ t[1] \in Nat /\ t[2] \in Int /\ u[1] \in Nat /\ u[2] \in Int /\ Mid(u) \in Int
      /\ u[1] < u[2] => u[1] <= Mid(u) /\ Mid(u) < u[2]
      /\ u[1] = u[2] => Mid(u) = u[1]
      /\ u[1] < u[2] => Left(u)[1] = u[1] /\ Left(u)[2] = Mid(u) /\ Right(u)[1] = Mid(u) + 1 /\ Right(u)[2] = u[2]
  BY StartedRanges
<1>2. t # u => u[1] <= u[2]
  BY Nonempty
<1>3. t # u => u[1] <= Mid(u) /\ Mid(u) <= u[2]
  BY <1>1, <1>2
<1> QED BY <1>1, <1>3 DEF Slice, Apart, Inside, InLeft, InRight

-----------------------------------------------------------------------------
(* Nobody has been created yet.                                            *)
LEMMA InitHolds == Init => IInv
<1> SUFFICES ASSUME Init PROVE IInv
  OBVIOUS
<1> USE DEF Init
<1>1. Types
  BY DEF Types, States
<1>2. Started = {}
  BY DEF Started
<1>3. Tree /\ Laminar /\ Phases
  BY <1>2 DEF Tree, Laminar, Phases
<1>4. Data
  BY <1>2 DEF Data, ReturnedSorted, TmpMerged, Untouched, Whole
<1> QED BY <1>1, <1>3, <1>4 DEF IInv, TInv

(* The first thread is given the whole file as it was read.                *)
LEMMA MainCreatesHolds ==
  ASSUME IInv, MainCreates
  PROVE  IInv'
<1> USE DEF IInv, TInv, Data
<1>1. Tree' /\ Laminar' /\ Phases'
  BY RootHolds
<1>2. /\ Started = {} /\ main = "create" /\ main' = "join" /\ pc' = [pc EXCEPT ![Root] = "created"]
      /\ UNCHANGED <<length, input, array, Tmp>>
  BY DEF MainCreates, Tree
<1>3. Root \in Threads
  BY RangesAreThreads DEF Types
<1>4. Types'
  BY <1>2, <1>3 DEF Types, States
<1>5. Started' = {Root} /\ pc'[Root] = "created"
  BY <1>2, <1>3 DEF Types, Started
<1>6. array = input
  BY <1>2 DEF Untouched
<1>7. Data'
  BY <1>2, <1>5, <1>6 DEF ReturnedSorted, TmpMerged, Untouched, Whole, SameNumbers
<1> QED BY <1>1, <1>4, <1>7

(* The new thread finds its half as it was read.                           *)
LEMMA CreatesHolds ==
  ASSUME IInv, NEW u \in Threads, NEW c, NEW next, Births(u, c, next),
         pc' = [pc EXCEPT ![u] = next, ![c] = "created"],
         UNCHANGED <<length, input, main, array, Tmp>>
  PROVE  IInv'
<1> USE DEF IInv, TInv, Data
<1>1. Tree' /\ Laminar' /\ Phases'
  BY BirthHolds
<1>2. u \in Started /\ u[1] < u[2] /\ c \in Threads /\ c \notin Started
  BY NewHalf
<1>3. /\ pc'[u] = next /\ pc'[c] = "created" /\ next \in {"left", "both"} /\ pc[u] \in {"created", "left"}
      /\ \A t \in Threads : t # u /\ t # c => pc'[t] = pc[t]
  BY <1>2 DEF Births, Types, Started
<1>4. Started' = Started \cup {c}
  BY <1>2, <1>3 DEF Started
<1>5. Types'
  BY <1>2, <1>3 DEF Types, States
<1>6. \A t \in Started' : pc'[t] \in {"done", "copy"} => t \in Started /\ pc'[t] = pc[t]
  BY <1>2, <1>3, <1>4 DEF Started
<1>7. ReturnedSorted'
  <2> SUFFICES ASSUME NEW t \in Started', pc'[t] = "done" PROVE Sorted(array, t)
    BY DEF ReturnedSorted, Sorted, Slice
  <2>1. t \in Started /\ pc[t] = "done"
    BY <1>6
  <2> QED BY <2>1 DEF ReturnedSorted
<1>8. TmpMerged'
  <2> SUFFICES ASSUME NEW t \in Started', pc'[t] = "copy"
               PROVE  /\ Tmp[t] \in [Places(t) -> Values]
                      /\ \A k, l \in Places(t) : k < l => Tmp[t][k] <= Tmp[t][l]
                      /\ SameNumbers(Tmp[t], Places(t), array, Slice(t))
    BY DEF TmpMerged, SameNumbers, Count, Slice, Places, Size
  <2>1. t \in Started /\ pc[t] = "copy"
    BY <1>6
  <2> QED BY <2>1 DEF TmpMerged
<1>9. \A i \in Slice(c) : array[i] = input[i]
  BY <1>2, SlicesOfThreads DEF Births, Untouched
<1>10. Untouched'
  <2>1. main' # "create"
    BY <1>2 DEF Tree
  <2>2. ASSUME NEW t \in Started'
        PROVE  /\ pc'[t] = "created" => \A i \in Slice(t) : array[i] = input[i]
               /\ pc'[t] = "left" => \A i \in Slice(Right(t)) : array[i] = input[i]
    <3>1. CASE t = c
      BY <1>3, <1>9, <3>1
    <3>2. CASE t = u
      BY <1>2, <1>3, <3>2, SlicesOfThreads DEF Births, Untouched
    <3>3. CASE t # c /\ t # u
      BY <1>3, <1>4, <3>3 DEF Untouched, Started
    <3> QED BY <3>1, <3>2, <3>3
  <2> QED BY <2>1, <2>2 DEF Untouched, Slice
<1>11. Whole'
  <2> SUFFICES ASSUME NEW t \in Started', \A w \in Started' : pc'[w] = "done" /\ w # t => ~ Inside(t, w)
               PROVE  SameNumbers(array, Slice(t), input, Slice(t))
    BY DEF Whole, SameNumbers, Count, Slice, Inside, InLeft, InRight, Mid
  <2>1. SameNumbers(array, Slice(c), input, Slice(c))
    <3>1. \A v : {i \in Slice(c) : array[i] = v} = {i \in Slice(c) : input[i] = v}
      BY <1>9
    <3> QED BY <3>1 DEF SameNumbers, Count
  <2>2. CASE t \in Started
    <3>1. \A w \in Started : pc[w] = "done" => w \in Started' /\ pc'[w] = "done"
      BY <1>2, <1>3, <1>4 DEF Started
    <3> QED BY <2>2, <3>1 DEF Whole
  <2> QED BY <1>4, <2>1, <2>2
<1> QED BY <1>1, <1>5, <1>7, <1>10, <1>11, <1>8

(* A step that moves on one thread and leaves array and Tmp alone.         *)
LEMMA MovesOnHolds ==
  ASSUME IInv, NEW u \in Threads, NEW next \in {"done", "joined", "merge"}, Moves(u, next),
         next = "done" => u[1] >= u[2],
         pc' = [pc EXCEPT ![u] = next],
         UNCHANGED <<length, input, main, array, Tmp>>
  PROVE  IInv'
<1> USE DEF IInv, TInv, Data
<1>1. Tree' /\ Laminar' /\ Phases'
  BY MoveHolds
<1>2. /\ u \in Started /\ pc[u] # "done" /\ pc'[u] = next
      /\ \A t \in Threads : t # u => pc'[t] = pc[t]
      /\ Started' = Started
  BY DEF Moves, Types, Started
<1>3. Types'
  BY <1>2 DEF Types, States
<1>4. ReturnedSorted'
  <2>1. next = "done" => Sorted(array, u)
    BY <1>2, StartedRanges DEF Sorted, Slice
  <2> QED BY <1>2, <2>1 DEF ReturnedSorted, Sorted, Slice, Started
<1>5. TmpMerged' /\ Untouched'
  BY <1>2 DEF TmpMerged, Untouched, SameNumbers, Count, Slice, Places, Size, Started
<1>6. Whole'
  BY <1>2 DEF Whole, SameNumbers, Count, Slice, Inside, InLeft, InRight, Started
<1> QED BY <1>1, <1>3, <1>4, <1>5, <1>6

(* The merge loops write into Tmp only, and leave the slice there, sorted. *)
LEMMA MergeHolds ==
  ASSUME IInv, NEW u \in Threads, Merge(u), UNCHANGED <<length, input, main>>
  PROVE  IInv'
<1> USE DEF IInv, TInv, Data
<1>1. /\ pc[u] = "merge" /\ Tmp' = [Tmp EXCEPT ![u] = Merged(u)]
      /\ pc' = [pc EXCEPT ![u] = "copy"] /\ array' = array
  BY DEF Merge
<1>2. Tree' /\ Laminar' /\ Phases'
  BY <1>1, MoveHolds DEF Moves
<1>3. /\ u \in Started /\ pc'[u] = "copy" /\ Tmp'[u] = Merged(u)
      /\ \A t \in Threads : t # u => pc'[t] = pc[t] /\ Tmp'[t] = Tmp[t]
      /\ Started' = Started
  BY <1>1 DEF Types, Started
<1>4. Types'
  BY <1>1, <1>3 DEF Types, States
<1>5. Mergeable(u)
  <2>1. u[1] < u[2] /\ Left(u) \in Started /\ Right(u) \in Started
    BY <1>1, <1>3 DEF Tree
  <2>2. /\ u[1] \in Nat /\ u[2] \in Int /\ Mid(u) \in Int /\ u[1] <= Mid(u) /\ Mid(u) < u[2] /\ u[2] < length
        /\ Left(u)[1] = u[1] /\ Left(u)[2] = Mid(u) /\ Right(u)[1] = Mid(u) + 1 /\ Right(u)[2] = u[2]
    BY <1>3, <2>1, StartedRanges
  <2>3. InLeft(Left(u), u) /\ InRight(Right(u), u) /\ Left(u) # u /\ Right(u) # u
    BY <2>2 DEF InLeft, InRight
  <2>4. pc[Left(u)] = "done" /\ pc[Right(u)] = "done"
    BY <1>1, <1>3, <2>1, <2>3 DEF Phases
  <2>5. Sorted(array, Left(u)) /\ Sorted(array, Right(u))
    BY <2>1, <2>4 DEF ReturnedSorted
  <2> QED BY <2>1, <2>2, <2>5 DEF Mergeable, Types
<1>6. /\ Merged(u) \in [Places(u) -> Values]
      /\ \A k, l \in Places(u) : k < l => Merged(u)[k] <= Merged(u)[l]
      /\ \A v : Count(Merged(u), Places(u), v) = Count(array, Slice(u), v)
  BY <1>5, MergeSorts
<1> DEFINE m == Merged(u)
<1> HIDE DEF m
<1>7. TmpMerged'
  <2> SUFFICES ASSUME NEW t \in Started, pc'[t] = "copy"
               PROVE  /\ Tmp'[t] \in [Places(t) -> Values]
                      /\ \A k, l \in Places(t) : k < l => Tmp'[t][k] <= Tmp'[t][l]
                      /\ SameNumbers(Tmp'[t], Places(t), array, Slice(t))
    BY <1>1, <1>3 DEF TmpMerged, SameNumbers, Count, Slice, Places, Size
  <2>1. CASE t = u
    BY <1>3, <1>6, <2>1 DEF SameNumbers
  <2>2. CASE t # u
    BY <1>3, <2>2 DEF TmpMerged, Started
  <2> QED BY <2>1, <2>2
<1>8. ReturnedSorted' /\ Untouched'
  BY <1>1, <1>3 DEF ReturnedSorted, Untouched, Sorted, Slice, Started
<1>9. Whole'
  BY <1>1, <1>3 DEF Whole, SameNumbers, Count, Slice, Inside, InLeft, InRight, Started
<1> QED BY <1>2, <1>4, <1>7, <1>8, <1>9

(* Copying back leaves the slice sorted with the numbers it had; whoever   *)
(* has something in it has returned, or has yet to write it.               *)
LEMMA CopyBackHolds ==
  ASSUME IInv, NEW u \in Threads, CopyBack(u), UNCHANGED <<length, input, main>>
  PROVE  IInv'
<1> USE DEF IInv, TInv, Data
<1>1. /\ u \in Started /\ pc[u] = "copy" /\ pc' = [pc EXCEPT ![u] = "done"] /\ Tmp' = [Tmp EXCEPT ![u] = <<>>]
      /\ array' \in [0..(length - 1) -> Values]
      /\ \A i \in 0..(length - 1) : i \notin Slice(u) => array'[i] = array[i]
      /\ Sorted(array', u)
  BY CopyFacts
<1>2. Tree' /\ Laminar' /\ Phases'
  BY <1>1, MoveHolds DEF Moves
<1>3. /\ pc'[u] = "done" /\ main # "create" /\ u[1] < u[2]
      /\ \A t \in Threads : t # u => pc'[t] = pc[t] /\ Tmp'[t] = Tmp[t]
      /\ Started' = Started
  BY <1>1 DEF Types, Started, Tree
<1>4. Types'
  BY <1>1, <1>3 DEF Types, States
<1>5. \A t \in Started : Slice(t) \subseteq 0..(length - 1)
  BY SliceInFile
<1>6. ASSUME NEW S \in SUBSET (0..(length - 1)), S \cap Slice(u) = {}
      PROVE  \A i \in S : array'[i] = array[i]
  BY <1>1, <1>6
\* a thread still at work lies apart, or waits for the half in which u is
<1>7. ASSUME NEW t \in Started, t # u, pc[t] # "done"
      PROVE  Apart(t, u) \/ (InLeft(u, t) /\ pc[t] \in {"left", "both"})
                         \/ (InRight(u, t) /\ pc[t] \in {"both", "joined"})
  BY <1>1, <1>7 DEF Laminar, Phases, Inside
<1>8. ReturnedSorted'
  <2> SUFFICES ASSUME NEW t \in Started, pc'[t] = "done" PROVE Sorted(array', t)
    BY <1>3 DEF ReturnedSorted, Sorted, Slice
  <2>1. CASE t = u
    BY <1>1, <2>1
  <2>2. CASE t # u
    <3>1. pc[t] = "done" /\ Sorted(array, t)
      BY <1>3, <2>2 DEF ReturnedSorted, Started
    <3>2. ~ Inside(u, t)
      BY <1>1, <2>2, <3>1 DEF Phases, Inside
    <3>3. CASE Apart(t, u)
      <4>1. \A i \in Slice(t) : array'[i] = array[i]
        BY <1>1, <1>5, <1>6, <3>3, SlicesOfThreads
      <4> QED BY <3>1, <4>1 DEF Sorted
    <3>4. CASE Inside(t, u)
      BY <1>1, <2>2, <3>4, SlicesOfThreads DEF Sorted
    <3> QED BY <1>1, <2>2, <3>2, <3>3, <3>4 DEF Laminar
  <2> QED BY <2>1, <2>2
<1>9. TmpMerged'
  <2> SUFFICES ASSUME NEW t \in Started, pc'[t] = "copy"
               PROVE  /\ Tmp'[t] \in [Places(t) -> Values]
                      /\ \A k, l \in Places(t) : k < l => Tmp'[t][k] <= Tmp'[t][l]
                      /\ SameNumbers(Tmp'[t], Places(t), array', Slice(t))
    BY <1>3 DEF TmpMerged, SameNumbers, Count, Slice, Places, Size
  <2>1. t # u /\ pc[t] = "copy" /\ Tmp'[t] = Tmp[t]
    BY <1>3 DEF Started
  <2>2. \A i \in Slice(t) : array'[i] = array[i]
    BY <1>1, <1>5, <1>6, <1>7, <2>1, SlicesOfThreads
  <2>3. \A v : {i \in Slice(t) : array'[i] = v} = {i \in Slice(t) : array[i] = v}
    BY <2>2
  <2>4. SameNumbers(Tmp[t], Places(t), array', Slice(t)) <=> SameNumbers(Tmp[t], Places(t), array, Slice(t))
    BY <2>3 DEF SameNumbers, Count
  <2> QED BY <2>1, <2>4 DEF TmpMerged
<1>10. Untouched'
  <2> SUFFICES ASSUME NEW t \in Started
               PROVE  /\ pc'[t] = "created" => \A i \in Slice(t) : array'[i] = input[i]
                      /\ pc'[t] = "left" => \A i \in Slice(Right(t)) : array'[i] = input[i]
    BY <1>3 DEF Untouched, Slice, Right, Mid
  <2>1. CASE t = u
    BY <1>3, <2>1
  <2>2. CASE t # u /\ pc[t] = "created"
    <3>1. \A i \in Slice(t) : array'[i] = array[i]
      BY <1>1, <1>5, <1>6, <1>7, <2>2, SlicesOfThreads
    <3>2. pc'[t] = "created"
      BY <1>3, <2>2 DEF Started
    <3> QED BY <2>2, <3>1, <3>2 DEF Untouched
  <2>3. CASE t # u /\ pc[t] = "left"
    <3>1. t[1] < t[2]
      BY <2>3 DEF Tree
    <3>2. Slice(Right(t)) \subseteq Slice(t) /\ Slice(t) \subseteq 0..(length - 1)
      BY <1>5, <3>1, SlicesOfThreads
    <3>3. Slice(Right(t)) \cap Slice(u) = {}
      <4>1. Apart(t, u) \/ InLeft(u, t)
        BY <1>7, <2>3
      <4> QED BY <1>1, <3>1, <3>2, <4>1, SlicesOfThreads
    <3>4. \A i \in Slice(Right(t)) : array'[i] = array[i]
      BY <1>6, <3>2, <3>3
    <3>5. pc'[t] = "left"
      BY <1>3, <2>3 DEF Started
    <3> QED BY <2>3, <3>4, <3>5 DEF Untouched
  <2> QED BY <1>3, <2>1, <2>2, <2>3 DEF Started
<1>11. Whole'
  <2> SUFFICES ASSUME NEW t \in Started, \A w \in Started : pc'[w] = "done" /\ w # t => ~ Inside(t, w)
               PROVE  SameNumbers(array', Slice(t), input, Slice(t))
    BY <1>3 DEF Whole, SameNumbers, Count, Slice, Inside, InLeft, InRight, Mid
  <2>1. \A w \in Started : pc[w] = "done" => pc'[w] = "done"
    BY <1>1, <1>3 DEF Started
  <2>2. SameNumbers(array, Slice(t), input, Slice(t))
    BY <2>1 DEF Whole
  <2>3. t = u \/ Apart(t, u) \/ Inside(u, t)
    BY <1>1, <1>3 DEF Laminar
  <2>4. Slice(u) \subseteq Slice(t) \/ Slice(u) \cap Slice(t) = {}
    BY <1>1, <2>3, SlicesOfThreads
  <2>5. SameNumbers(array', Slice(t), array, Slice(t))
    BY <1>5, <2>4, CopyFacts
  <2> QED BY <2>2, <2>5 DEF SameNumbers
<1> QED BY <1>2, <1>4, <1>8, <1>9, <1>10, <1>11

(* Every step of a thread or of main.                                      *)
LEMMA NextHolds ==
  ASSUME IInv, [Next]_vars
  PROVE  IInv'
<1>1. CASE MainCreates
  BY <1>1, MainCreatesHolds
<1>2. CASE MainPrints
  <2>1. main # "create" /\ main' = "print" /\ UNCHANGED <<length, input, array, pc, Tmp>>
    BY <1>2 DEF MainPrints
  <2>2. TInv'
    BY <2>1 DEF IInv, TInv, Types, Tree, Laminar, Phases, Started, Root, Left, Right, Mid,
       Apart, Inside, InLeft, InRight
  <2>3. Data'
    BY <2>1 DEF IInv, Data, ReturnedSorted, TmpMerged, Untouched, Whole, Started, Sorted, SameNumbers,
       Count, Slice, Places, Size, Right, Mid, Inside, InLeft, InRight
  <2> QED BY <2>2, <2>3 DEF IInv
<1>3. CASE UNCHANGED vars
  <2>1. UNCHANGED <<length, input, array, pc, Tmp, main>>
    BY <1>3 DEF vars
  <2>2. TInv'
    BY <2>1 DEF IInv, TInv, Types, Tree, Laminar, Phases, Started, Root, Left, Right, Mid,
       Apart, Inside, InLeft, InRight
  <2>3. Data'
    BY <2>1 DEF IInv, Data, ReturnedSorted, TmpMerged, Untouched, Whole, Started, Sorted, SameNumbers,
       Count, Slice, Places, Size, Right, Mid, Inside, InLeft, InRight
  <2> QED BY <2>2, <2>3 DEF IInv
<1>4. ASSUME NEW t \in Threads, Step(t) PROVE IInv'
  <2>0. UNCHANGED <<length, input, main>>
    BY <1>4 DEF Step
  <2>1. CASE Return(t)
    <3>1. Moves(t, "done") /\ t[1] >= t[2] /\ pc' = [pc EXCEPT ![t] = "done"] /\ UNCHANGED <<array, Tmp>>
      BY <2>1 DEF Return, Moves
    <3> QED BY <2>0, <3>1, MovesOnHolds
  <2>2. CASE CreateLeft(t)
    <3>1. Births(t, Left(t), "left") /\ pc' = [pc EXCEPT ![t] = "left", ![Left(t)] = "created"]
      BY <2>2 DEF CreateLeft, Create, Births
    <3>2. UNCHANGED <<array, Tmp>>
      BY <2>2 DEF CreateLeft
    <3> DEFINE c == Left(t)
    <3> HIDE DEF c
    <3>3. Births(t, c, "left") /\ pc' = [pc EXCEPT ![t] = "left", ![c] = "created"]
      BY <3>1 DEF c
    <3> QED BY <2>0, <3>2, <3>3, CreatesHolds
  <2>3. CASE CreateRight(t)
    <3>1. Births(t, Right(t), "both") /\ pc' = [pc EXCEPT ![t] = "both", ![Right(t)] = "created"]
      BY <2>3 DEF CreateRight, Create, Births
    <3>2. UNCHANGED <<array, Tmp>>
      BY <2>3 DEF CreateRight
    <3> DEFINE c == Right(t)
    <3> HIDE DEF c
    <3>3. Births(t, c, "both") /\ pc' = [pc EXCEPT ![t] = "both", ![c] = "created"]
      BY <3>1 DEF c
    <3> QED BY <2>0, <3>2, <3>3, CreatesHolds
  <2>4. CASE JoinLeft(t)
    <3>1. Moves(t, "joined") /\ pc' = [pc EXCEPT ![t] = "joined"] /\ UNCHANGED <<array, Tmp>>
      BY <2>4 DEF JoinLeft, Moves
    <3> QED BY <2>0, <3>1, MovesOnHolds
  <2>5. CASE JoinRight(t)
    <3>1. Moves(t, "merge") /\ pc' = [pc EXCEPT ![t] = "merge"] /\ UNCHANGED <<array, Tmp>>
      BY <2>5 DEF JoinRight, Moves
    <3> QED BY <2>0, <3>1, MovesOnHolds
  <2>6. CASE Merge(t)
    BY <2>0, <2>6, MergeHolds
  <2>7. CASE CopyBack(t)
    BY <2>0, <2>7, CopyBackHolds
  <2> QED BY <1>4, <2>1, <2>2, <2>3, <2>4, <2>5, <2>6, <2>7 DEF Step
<1> QED BY <1>1, <1>2, <1>3, <1>4 DEF Next

(* For files of every length: the threads form a tree over disjoint or     *)
(* nested slices, and what has returned is sorted.                         *)
THEOREM SortIsOrderly == Spec => []IInv
<1>1. Init => IInv
  BY InitHolds
<1>2. IInv /\ [Next]_vars => IInv'
  BY NextHolds
<1> QED BY <1>1, <1>2, PTL DEF Spec

(* Two threads that merge or copy never have an element in common, and the *)
(* parent whose stack holds a thread's arguments has not returned          *)
(* (merge_sort.cpp:21-51).                                                 *)
THEOREM NoSharedElements == Spec => []RangesDisjoint
<1>1. IInv => RangesDisjoint
  <2> SUFFICES ASSUME IInv PROVE RangesDisjoint
    OBVIOUS
  <2> USE DEF IInv, TInv
  <2>1. ASSUME NEW t \in Active, NEW u \in Active, t # u,
               pc[t] \in {"merge", "copy"}, pc[u] \in {"merge", "copy"}
        PROVE  Slice(t) \cap Slice(u) = {}
    <3>1. t \in Started /\ u \in Started
      BY DEF Active, Started
    <3>2. Apart(t, u)
      BY <2>1, <3>1 DEF Laminar, Phases, Inside
    <3> QED BY <3>1, <3>2, SlicesOfThreads
  <2>2. ASSUME NEW t \in Active PROVE t = Root \/ \E u \in Parents(t) : u \in Active
    <3>1. t \in Started /\ pc[t] # "done"
      BY DEF Active, Started
    <3>2. CASE t = Root
      BY <3>2
    <3>3. CASE t # Root
      <4>1. PICK u \in Started :
              /\ u[1] < u[2]
              /\ \/ t = Left(u) /\ pc[u] \in {"left", "both"}
                 \/ t = Right(u) /\ pc[u] \in {"both", "joined"}
        BY <3>1, <3>3 DEF Tree
      <4>2. u # t
        BY <4>1, StartedRanges
      <4>3. u \in Threads /\ u \in Active
        BY <4>1 DEF Started, Active
      <4> QED BY <4>1, <4>2, <4>3 DEF Parents
    <3> QED BY <3>2, <3>3
  <2> QED BY <2>1, <2>2 DEF RangesDisjoint
<1> QED BY <1>1, SortIsOrderly, PTL

(* Whatever the file and the schedule, the slice of a thread that has      *)
(* returned is sorted, and it holds the numbers of the input there when    *)
(* its parent, or main, takes it over (merge_sort.cpp:28-51).              *)
THEOREM ReturnedSlicesSorted == Spec => []ReturnedIsSorted
<1>1. IInv => ReturnedIsSorted
  <2> SUFFICES ASSUME IInv, NEW t \in Threads, pc[t] = "done"
               PROVE  /\ \A i, j \in Slice(t) : i < j => array[i] <= array[j]
                      /\ t = Root \/ Parents(t) \cap Active # {} => \A v \in Values :
                           Count(array, Slice(t), v) = Count(input, Slice(t), v)
    BY DEF ReturnedIsSorted
  <2> USE DEF IInv, TInv, Data
  <2>1. t \in Started /\ Sorted(array, t)
    BY DEF Started, ReturnedSorted
  <2>2. ASSUME t = Root \/ Parents(t) \cap Active # {}, NEW w \in Started, pc[w] = "done", w # t, Inside(t, w)
        PROVE  FALSE
    <3>1. /\ t[1] \in Nat /\ t[2] \in Int /\ w[1] \in Nat /\ w[2] \in Int /\ Mid(w) \in Int
          /\ w = <<w[1], w[2]>> /\ w[2] < length /\ length \in Nat
          /\ t[1] <= t[2] /\ w[1] <= w[2] /\ w[1] <= Mid(w) /\ Mid(w) <= w[2]
      <4>1. t[1] <= t[2] /\ w[1] <= w[2]
        BY <2>1, <2>2, Nonempty
      <4>2. w[1] = w[2] \/ w[1] < w[2]
        BY <4>1, StartedRanges
      <4> QED BY <2>1, <4>1, <4>2, StartedRanges
    <3>2. w[1] <= t[1] /\ t[2] <= w[2]
      BY <2>2, <3>1 DEF Inside, InLeft, InRight
    <3>3. CASE t = Root
      <4>1. w[1] = 0 /\ w[2] = length - 1
        BY <3>1, <3>2, <3>3 DEF Root
      <4> QED BY <2>2, <3>1, <3>3, <4>1 DEF Root
    <3>4. CASE \E u \in Parents(t) : u \in Active
      <4>1. PICK u \in Parents(t) : u \in Active
        BY <3>4
      <4>2. /\ u \in Started /\ pc[u] # "done" /\ u[1] < u[2] /\ u # t /\ t \in {Left(u), Right(u)}
        BY <4>1 DEF Parents, Active, Started
      <4>3. /\ u[1] \in Nat /\ u[2] \in Int /\ Mid(u) \in Int /\ u[1] <= Mid(u) /\ Mid(u) < u[2]
            /\ Left(u)[1] = u[1] /\ Left(u)[2] = Mid(u) /\ Right(u)[1] = Mid(u) + 1 /\ Right(u)[2] = u[2]
        BY <4>2, StartedRanges
      <4>4. u # w /\ ~ Inside(u, w)
        BY <2>2, <4>2 DEF Phases, Inside
      <4>5. Apart(u, w) \/ Inside(w, u)
        BY <4>2, <4>4 DEF Laminar
      <4>6. ~ Apart(u, w)
        BY <3>1, <3>2, <4>2, <4>3 DEF Apart
      <4>7. w[1] = t[1] /\ w[2] = t[2]
        BY <3>1, <3>2, <4>2, <4>3, <4>5, <4>6 DEF Inside, InLeft, InRight
      <4> QED BY <2>1, <2>2, <3>1, <4>7, StartedRanges
    <3> QED BY <2>2, <3>3, <3>4
  <2>3. ASSUME t = Root \/ Parents(t) \cap Active # {}
        PROVE  SameNumbers(array, Slice(t), input, Slice(t))
    BY <2>1, <2>2, <2>3 DEF Whole
  <2> QED BY <2>1, <2>3 DEF Sorted, SameNumbers
<1> QED BY <1>1, SortIsOrderly, PTL
=============================================================================
