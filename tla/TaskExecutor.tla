---------------------------- MODULE TaskExecutor ----------------------------
(***************************************************************************)
(* What FixedThreadPool promises to the code that submits tasks to it: a   *)
(* task is accepted once, tasks start in the order in which they were      *)
(* accepted, at most Capacity of them at a time, and each one runs once.   *)
(* Threads, locks, wake-ups and the shutdown protocol do not appear here.  *)
(***************************************************************************)
EXTENDS Naturals, Sequences, FiniteSets

CONSTANTS Tasks, Capacity

VARIABLES pending, running, finished

vars == <<pending, running, finished>>

Accepted == {pending[i] : i \in 1..Len(pending)} \cup running \cup finished

Init == pending = <<>> /\ running = {} /\ finished = {}

Accept(t) ==
  /\ t \notin Accepted
  /\ pending' = Append(pending, t)
  /\ UNCHANGED <<running, finished>>

Start ==
  /\ pending # <<>>
  /\ Cardinality(running) < Capacity
  /\ running' = running \cup {Head(pending)}
  /\ pending' = Tail(pending)
  /\ UNCHANGED finished

Complete(t) ==
  /\ t \in running
  /\ running' = running \ {t}
  /\ finished' = finished \cup {t}
  /\ UNCHANGED pending

Next ==
  \/ Start
  \/ \E t \in Tasks : Accept(t) \/ Complete(t)

Spec == Init /\ [][Next]_vars
=============================================================================
