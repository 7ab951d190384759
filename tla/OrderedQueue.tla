---------------------------- MODULE OrderedQueue ----------------------------
(***************************************************************************)
(* What the template Queue<T> of src/BankQueueSystem/Queue.hpp stands for: *)
(* a sequence that grows at its end (enqueue) or at the place its order    *)
(* asks for (orderEnqueue) and shrinks at its front (dequeue).  Sentinel,  *)
(* pointers and memory do not appear here.  A queue grows in one of the    *)
(* two ways, never in both.                                                *)
(***************************************************************************)
EXTENDS Naturals, Sequences, SequencesExt

CONSTANTS
  Items,
  Before(_, _)  \* Before(a, b): a has to stay in front of b

VARIABLES
  items,
  ordered  \* which way the queue grows

vars == <<items, ordered>>

(* The place orderEnqueue finds: in front of the first element that need   *)
(* not come before e, so in front of those equal to it.                    *)
InsertInOrder(s, e) ==
  LET Later(x) == ~Before(x, e)
      i == SelectInSeq(s, Later)
  IN  IF i = 0 THEN Append(s, e) ELSE InsertAt(s, i, e)

Init == items = <<>> /\ ordered \in BOOLEAN

Enqueue(e) == ~ordered /\ items' = Append(items, e)

OrderEnqueue(e) == ordered /\ items' = InsertInOrder(items, e)

Dequeue == items # <<>> /\ items' = Tail(items)

Clear == items' = <<>>

Next ==
  /\ Dequeue \/ Clear \/ \E e \in Items : Enqueue(e) \/ OrderEnqueue(e)
  /\ UNCHANGED ordered

Spec == Init /\ [][Next]_vars
=============================================================================
