---------------------------- MODULE LinkedQueue ----------------------------
(***************************************************************************)
(* The pointer code of Queue<T> (src/BankQueueSystem/Queue.hpp): a singly  *)
(* linked list behind a sentinel, with a rear pointer that orderEnqueue    *)
(* does not maintain.  Addresses are reused as soon as they are freed, so  *)
(* a pointer that is kept too long points into somebody else's node.       *)
(***************************************************************************)
EXTENDS Integers, Sequences, FiniteSets, SequencesExt

CONSTANTS
  Nodes,  \* the addresses new can return
  Events  \* what the nodes carry: records with a cur_time (for customers
          \* nothing looks at it)

ASSUME NodesAssumption == IsFiniteSet(Nodes)
ASSUME EventsAssumption == \A e \in Events : e.cur_time \in Nat

front == "front"  \* the sentinel's address
NULL == "NULL"

ASSUME AddressAssumption == front \notin Nodes /\ NULL \notin Nodes

VARIABLES
  usage,     \* "events": orderEnqueue only; "customers": enqueue only
  next,      \* the next pointer of every node and of the sentinel
  event,     \* the rest of every node
  rear,
  heap,      \* the addresses that are allocated
  held,      \* what dequeue returned and the caller has not deleted yet
  firsts     \* how often orderEnqueue has found the list empty (history)

queueVars == <<usage, next, event, rear, heap, held, firsts>>

(* The i-th cell of the list, the sentinel being cell 0; NULL beyond it.   *)
Cell[i \in 0..(Cardinality(Nodes) + 1)] ==
  IF i = 0 THEN front
  ELSE IF Cell[i - 1] = NULL THEN NULL ELSE next[Cell[i - 1]]

(* length() *)
length == Cardinality({i \in 1..(Cardinality(Nodes) + 1) : Cell[i] # NULL})

List == {Cell[i] : i \in 1..length}

QueueInit ==
  /\ usage \in {"events", "customers"}
  /\ next = [a \in Nodes \cup {front} |-> NULL]
  /\ event \in [Nodes -> {CHOOSE e \in Events : TRUE}]
  /\ rear = front
  /\ heap = {} /\ held = NULL /\ firsts = 0

Free == Nodes \ heap

-----------------------------------------------------------------------------
(* Append a new node, a copy of the caller's, behind rear. *)
AppendNode(a, e) ==
  /\ next' = [next EXCEPT ![a] = NULL, ![rear] = a]
  /\ event' = [event EXCEPT ![a] = e]
  /\ rear' = a
  /\ heap' = heap \cup {a}

Enqueue(a, e) ==
  /\ usage = "customers" /\ a \in Free
  /\ AppendNode(a, e)
  /\ UNCHANGED <<usage, held, firsts>>

(* A bug: the new event goes behind those of the same time. *)
InsertionCellBehindEquals(e) ==
  Cell[CHOOSE i \in 0..length :
         /\ \A j \in 1..i : event[Cell[j]].cur_time <= e.cur_time
         /\ i < length => event[Cell[i + 1]].cur_time > e.cur_time]

(* The last cell that has to stay in front of the new event. *)
InsertionCell(e) ==
  Cell[CHOOSE i \in 0..length :
         /\ \A j \in 1..i : event[Cell[j]].cur_time < e.cur_time
         /\ i < length => event[Cell[i + 1]].cur_time >= e.cur_time]

(* temp, at b, holds a copy of the event and is left to itself once        *)
(* enqueue has copied it to a: nobody frees b.                             *)
OrderEnqueueEmpty(a, b, e) ==
  /\ usage = "events" /\ {a, b} \subseteq Free /\ a # b /\ next[front] = NULL
  /\ next' = [next EXCEPT ![b] = NULL, ![a] = NULL, ![rear] = a]
  /\ event' = [event EXCEPT ![b] = e, ![a] = e]
  /\ rear' = a
  /\ heap' = heap \cup {a, b}
  /\ firsts' = firsts + 1
  /\ UNCHANGED <<usage, held>>

(* A bug: the rest of the list is not linked to the new node. *)
OrderEnqueueDropsRest(a, e) ==
  /\ usage = "events" /\ a \in Free /\ next[front] # NULL
  /\ LET c == InsertionCell(e) IN next' = [next EXCEPT ![a] = NULL, ![c] = a]
  /\ event' = [event EXCEPT ![a] = e]
  /\ heap' = heap \cup {a}
  /\ UNCHANGED <<usage, rear, held, firsts>>

OrderEnqueue(a, e) ==
  /\ usage = "events" /\ a \in Free /\ next[front] # NULL
  /\ LET c == InsertionCell(e) IN next' = [next EXCEPT ![a] = next[c], ![c] = a]
  /\ event' = [event EXCEPT ![a] = e]
  /\ heap' = heap \cup {a}
  /\ UNCHANGED <<usage, rear, held, firsts>>

(* A bug: rear stays where it is when its node leaves the list. *)
DequeueKeepsRear ==
  /\ held = NULL /\ next[front] # NULL
  /\ held' = next[front]
  /\ next' = [next EXCEPT ![front] = next[next[front]]]
  /\ UNCHANGED <<usage, event, rear, heap, firsts>>

Dequeue ==
  /\ held = NULL /\ next[front] # NULL
  /\ held' = next[front]
  /\ next' = [next EXCEPT ![front] = next[next[front]]]
  /\ rear' = IF rear = next[front] THEN front ELSE rear
  /\ UNCHANGED <<usage, event, heap, firsts>>

(* The caller deletes the node that dequeue returned. *)
Delete ==
  /\ held # NULL
  /\ heap' = heap \ {held}
  /\ held' = NULL
  /\ UNCHANGED <<usage, next, event, rear, firsts>>

ClearQueue ==
  /\ next' = [next EXCEPT ![front] = NULL]
  /\ heap' = heap \ List
  /\ rear' = front
  /\ UNCHANGED <<usage, event, held, firsts>>

QueueNext ==
  \/ Dequeue \/ Delete \/ ClearQueue
  \/ \E a \in Nodes, e \in Events :
       Enqueue(a, e) \/ OrderEnqueue(a, e) \/ \E b \in Nodes : OrderEnqueueEmpty(a, b, e)

QueueSpec == QueueInit /\ [][QueueNext]_queueVars

-----------------------------------------------------------------------------
(* rear never dangles: it is the sentinel or a node of the list, and it is *)
(* the last one whenever enqueue is going to write through it, that is for *)
(* customers always and for events when the list is empty.                 *)
RearIsUsable ==
  /\ rear \in List \cup {front}
  /\ usage = "customers" \/ List = {} => rear = Cell[length]

(* Where every allocated node is: in the list, held by the caller of       *)
(* dequeue (who deletes what is out of the list), or lost, of which there  *)
(* is exactly one for each event that met an empty list (Queue.hpp:69-73)  *)
(* and none among customers.                                               *)
HeapAccounted ==
  LET reachable == List \cup ({held} \ {NULL})
  IN  /\ reachable \subseteq heap /\ held \notin List
      /\ Cardinality(heap \ reachable) = firsts

(* The list behaves like the sequence the simulation thinks of. *)
Sooner(x, y) == x.cur_time < y.cur_time
Abstract == INSTANCE OrderedQueue WITH
  items <- [i \in 1..length |-> event[Cell[i]]], ordered <- (usage = "events"),
  Items <- Events, Before <- Sooner
ImplementsSequence == Abstract!Spec

=============================================================================
