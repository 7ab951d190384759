------------------------------- MODULE Stack -------------------------------
(***************************************************************************)
(* What StackAlloc (src/MemoryPool/StackAlloc.h) stands for: a stack whose *)
(* pop returns what was pushed last.  Nodes, pointers and the allocator do *)
(* not appear here.                                                        *)
(***************************************************************************)
EXTENDS Sequences

CONSTANTS Values

VARIABLES
  items,    \* the top comes first
  returned  \* what the last pop returned

vars == <<items, returned>>

Init == items = <<>> /\ returned \in Values

Push(v) == items' = <<v>> \o items /\ UNCHANGED returned

Pop ==
  /\ items # <<>>
  /\ returned' = Head(items)
  /\ items' = Tail(items)

Clear == items' = <<>> /\ UNCHANGED returned

Next == Pop \/ Clear \/ \E v \in Values : Push(v)

Spec == Init /\ [][Next]_vars
=============================================================================
