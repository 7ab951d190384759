----------------------------- MODULE MergeSort -----------------------------
(***************************************************************************)
(* The parallel merge sort of src/Thread/merge_sort.cpp.  Every call of    *)
(* MergeSort is a thread, known by the range <<L, R>> it is given; all     *)
(* threads work on the one global array without a lock.  Creating, joining,*)
(* merging into Tmp and copying back are the steps at which the threads    *)
(* can be told apart.                                                      *)
(***************************************************************************)
EXTENDS Integers, FiniteSets

CONSTANTS
  Lengths,  \* numbers of lines the input file may have
  Values    \* the numbers in it

ASSUME InputAssumption ==
  Lengths \subseteq Nat /\ IsFiniteSet(Lengths) /\ Lengths # {} /\ Values \subseteq Int

VARIABLES
  length,  \* what ReadLength returned
  input,   \* what ReadFile returned
  array,
  pc,      \* where each thread is
  Tmp,     \* the local array of each thread
  main     \* "create", "join" or "print"

vars == <<length, input, array, pc, Tmp, main>>

Longest == CHOOSE n \in Lengths : \A m \in Lengths : m <= n
Threads == (0..Longest) \X (-1..(Longest - 1))

Root == <<0, length - 1>>

(* A bug: the shift binds closer than the sum. *)
MidPrecedence(t) == t[1] + (t[2] \div 2)

Mid(t) == (t[1] + t[2]) \div 2

Left(t) == <<t[1], Mid(t)>>
Right(t) == <<Mid(t) + 1, t[2]>>
Slice(t) == t[1]..t[2]

Init ==
  /\ length \in Lengths
  /\ input \in [0..(length - 1) -> Values]
  /\ array = input
  /\ pc = [t \in Threads |-> "none"]
  /\ Tmp = [t \in Threads |-> <<>>]
  /\ main = "create"

-----------------------------------------------------------------------------
(* pthread_create: from now on thread t may read its two arguments. *)
Create(t, u, next) == pc' = [pc EXCEPT ![t] = next, ![u] = "created"]

(* A range of one element, or of none, is sorted. *)
Return(t) ==
  /\ pc[t] = "created" /\ t[1] >= t[2]
  /\ pc' = [pc EXCEPT ![t] = "done"]
  /\ UNCHANGED <<array, Tmp>>

CreateLeft(t) ==
  /\ pc[t] = "created" /\ t[1] < t[2]
  /\ Create(t, Left(t), "left")
  /\ UNCHANGED <<array, Tmp>>

CreateRight(t) ==
  /\ pc[t] = "left"
  /\ Create(t, Right(t), "both")
  /\ UNCHANGED <<array, Tmp>>

JoinLeft(t) ==
  /\ pc[t] = "both" /\ pc[Left(t)] = "done"
  /\ pc' = [pc EXCEPT ![t] = "joined"]
  /\ UNCHANGED <<array, Tmp>>

(* A bug: the left half is joined twice. *)
JoinLeftAgain(t) ==
  /\ pc[t] = "joined" /\ pc[Left(t)] = "done"
  /\ pc' = [pc EXCEPT ![t] = "merge"]
  /\ UNCHANGED <<array, Tmp>>

JoinRight(t) ==
  /\ pc[t] = "joined" /\ pc[Right(t)] = "done"
  /\ pc' = [pc EXCEPT ![t] = "merge"]
  /\ UNCHANGED <<array, Tmp>>

(* A bug: the larger one goes first. *)
TakeLeftLarger(t, i, j) == i <= Mid(t) /\ (j > t[2] \/ array[i] > array[j])

(* The next element of Tmp is arr[i] of the left half, not arr[j]. *)
TakeLeft(t, i, j) == i <= Mid(t) /\ (j > t[2] \/ array[i] < array[j])

(* The index i when k elements are in Tmp, and the index j then. *)
LeftIndex(t) ==
  LET i[k \in 0..(t[2] - t[1])] ==
        IF k = 0 THEN t[1]
        ELSE IF TakeLeft(t, i[k - 1], Mid(t) + k - (i[k - 1] - t[1]))
             THEN i[k - 1] + 1 ELSE i[k - 1]
  IN  i

Merged(t) ==
  LET i == LeftIndex(t)
      j(k) == Mid(t) + 1 + k - (i[k] - t[1])
  IN  [k \in 0..(t[2] - t[1]) |->
         IF TakeLeft(t, i[k], j(k)) THEN array[i[k]] ELSE array[j(k)]]

Merge(t) ==
  /\ pc[t] = "merge"
  /\ Tmp' = [Tmp EXCEPT ![t] = Merged(t)]
  /\ pc' = [pc EXCEPT ![t] = "copy"]
  /\ UNCHANGED array

CopyBack(t) ==
  /\ pc[t] = "copy"
  /\ array' = [i \in DOMAIN array |-> IF i \in Slice(t) THEN Tmp[t][i - t[1]] ELSE array[i]]
  /\ pc' = [pc EXCEPT ![t] = "done"]
  /\ Tmp' = [Tmp EXCEPT ![t] = <<>>]

Step(t) ==
  /\ \/ Return(t) \/ CreateLeft(t) \/ CreateRight(t)
     \/ JoinLeft(t) \/ JoinRight(t) \/ Merge(t) \/ CopyBack(t)
  /\ UNCHANGED <<length, input, main>>

MainCreates ==
  /\ main = "create" /\ main' = "join"
  /\ pc' = [pc EXCEPT ![Root] = "created"]
  /\ UNCHANGED <<length, input, array, Tmp>>

MainPrints ==
  /\ main = "join" /\ pc[Root] = "done"
  /\ main' = "print"
  /\ UNCHANGED <<length, input, array, pc, Tmp>>

Next == MainCreates \/ MainPrints \/ \E t \in Threads : Step(t)

(* Threads that can take a step take it. *)
Fairness == WF_vars(MainCreates) /\ WF_vars(MainPrints) /\ \A t \in Threads : WF_vars(Step(t))

Spec == Init /\ [][Next]_vars
FairSpec == Spec /\ Fairness

-----------------------------------------------------------------------------
(* There is no lock: a thread that reads or writes its range of the array  *)
(* has it for itself, and whoever may still read its arguments finds them  *)
(* on the stack of a thread that has not returned.                         *)
Active == {t \in Threads : pc[t] \notin {"none", "done"}}
Parents(t) == {u \in Threads : u # t /\ u[1] < u[2] /\ t \in {Left(u), Right(u)}}

RangesDisjoint ==
  /\ \A t \in Active, u \in Active :
       t # u /\ pc[t] \in {"merge", "copy"} /\ pc[u] \in {"merge", "copy"}
         => Slice(t) \cap Slice(u) = {}
  /\ \A t \in Active : t = Root \/ \E u \in Parents(t) : u \in Active

(* A thread that has returned leaves its range sorted for good, and hands  *)
(* its parent the numbers that were there, no more and no less of each.    *)
Count(a, S, v) == Cardinality({i \in S : a[i] = v})
ReturnedIsSorted ==
  \A t \in Threads : pc[t] = "done" =>
    /\ \A i, j \in Slice(t) : i < j => array[i] <= array[j]
    /\ t = Root \/ Parents(t) \cap Active # {} => \A v \in Values :
         Count(array, Slice(t), v) = Count(input, Slice(t), v)

(* The sorting comes to its end. *)
Printed == <>(main = "print")
=============================================================================
