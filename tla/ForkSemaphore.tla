--------------------------- MODULE ForkSemaphore ---------------------------
(***************************************************************************)
(* fork_sem.cpp: a parent waits on a System V semaphore for its child to   *)
(* post.  Both use SEM_UNDO, so the kernel takes an operation back when    *)
(* its process ends.  The set belongs to the system, not to a process: it  *)
(* outlives a parent that is killed, and meets the next run of the program.*)
(***************************************************************************)
EXTENDS Integers

CONSTANT MaxRuns  \* bound: how often the program is started, at any time

ASSUME RunsAssumption == MaxRuns \in Nat \ {0}

Runs == 1..MaxRuns

VARIABLES
  set,     \* the run whose set has the key, 0: none
  semval,  \* the value of its semaphore
  parent,  \* "new", "refused", "acquired", "initialised", "waiting" (on its way to semop),
           \* "asleep" (in it), "passed", "released" or "killed"
  child    \* "none", "sleeping", "posted", "exited" or "killed"

vars == <<set, semval, parent, child>>

Init ==
  /\ set = 0
  /\ semval = 0
  /\ parent = [r \in Runs |-> "new"]
  /\ child = [r \in Runs |-> "none"]

Moves(r, from, to) == parent[r] = from /\ parent' = [parent EXCEPT ![r] = to]

(* IPC_CREAT | IPC_EXCL: a set that exists, whoever left it, ends the run. *)
AcquireBinarySemaphore(r) ==
  \/ set = 0 /\ Moves(r, "new", "acquired") /\ set' = r /\ UNCHANGED <<semval, child>>
  \/ set # 0 /\ Moves(r, "new", "refused") /\ UNCHANGED <<set, semval, child>>

(* A bug: the initial value of a lock.                                     *)
InitializedToOne(r) ==
  Moves(r, "acquired", "initialised") /\ semval' = 1 /\ UNCHANGED <<set, child>>

InitializeBinarySemaphore(r) ==
  /\ Moves(r, "acquired", "initialised")
  /\ semval' = 0
  /\ UNCHANGED <<set, child>>

(* A fork that fails returns -1, and the caller takes the parent's branch. *)
Fork(r) ==
  /\ Moves(r, "initialised", "waiting")
  /\ \E c \in {"none", "sleeping"} : child' = [child EXCEPT ![r] = c]
  /\ UNCHANGED <<set, semval>>

WaitBinarySemaphore(r) ==
  \/ /\ semval > 0
     /\ Moves(r, "waiting", "passed")
     /\ semval' = semval - 1
     /\ UNCHANGED <<set, child>>
  \/ semval = 0 /\ Moves(r, "waiting", "asleep") /\ UNCHANGED <<set, semval, child>>

(* A bug: sem_op is 0.                                                     *)
PostZero(r) ==
  /\ child[r] = "sleeping"
  /\ child' = [child EXCEPT ![r] = "posted"]
  /\ UNCHANGED <<set, semval, parent>>

(* The kernel completes the operation of a parent that sleeps.             *)
PostBinarySemaphore(r) ==
  /\ child[r] = "sleeping"
  /\ child' = [child EXCEPT ![r] = "posted"]
  /\ \/ Moves(r, "asleep", "passed") /\ UNCHANGED semval
     \/ parent[r] # "asleep" /\ semval' = semval + 1 /\ UNCHANGED parent
  /\ UNCHANGED set

(* A bug: the set is not removed.                                          *)
SetStays(r) == Moves(r, "passed", "released") /\ UNCHANGED <<set, semval, child>>

ReleaseBinarySemaphore(r) ==
  /\ Moves(r, "passed", "released")
  /\ set' = 0
  /\ UNCHANGED <<semval, child>>

(* The child's end takes its post back, never below zero.                  *)
ChildEnds(r, how) ==
  /\ child' = [child EXCEPT ![r] = how]
  /\ semval' = IF child[r] = "posted" /\ set = r /\ semval > 0 THEN semval - 1 ELSE semval
  /\ UNCHANGED <<set, parent>>

ChildExits(r) == child[r] = "posted" /\ ChildEnds(r, "exited")
KillChild(r) == child[r] \in {"sleeping", "posted"} /\ ChildEnds(r, "killed")

(* A parent that is killed leaves the set behind, and gives back what it   *)
(* has taken.                                                              *)
KillParent(r) ==
  /\ parent[r] \in {"acquired", "initialised", "waiting", "asleep", "passed"}
  /\ parent' = [parent EXCEPT ![r] = "killed"]
  /\ semval' = IF parent[r] = "passed" THEN semval + 1 ELSE semval
  /\ UNCHANGED <<set, child>>

Parent(r) ==
  \/ InitializeBinarySemaphore(r) \/ Fork(r) \/ WaitBinarySemaphore(r)
  \/ ReleaseBinarySemaphore(r)
Child(r) == PostBinarySemaphore(r) \/ ChildExits(r)
Kill(r) == KillParent(r) \/ KillChild(r)

Next == \E r \in Runs : AcquireBinarySemaphore(r) \/ Parent(r) \/ Child(r) \/ Kill(r)

(* Processes run on; nobody has to start the program or to kill one.       *)
Spec == Init /\ [][Next]_vars /\ \A r \in Runs : WF_vars(Parent(r)) /\ WF_vars(Child(r))

-----------------------------------------------------------------------------
(* The parent comes past the semaphore only after its own child has        *)
(* posted, whatever earlier runs left behind (fork_sem.cpp:73).            *)
ParentAfterChild ==
  \A r \in Runs : parent[r] \in {"passed", "released"} => child[r] \notin {"none", "sleeping"}

(* A parent that is asleep when its child posts gets away and removes the  *)
(* set, although the child's end takes the post back (fork_sem.cpp:47),    *)
(* unless one of them is killed.                                           *)
WaiterReleased ==
  \A r \in Runs :
    parent[r] = "asleep" /\ child[r] = "sleeping" ~>
      parent[r] = "released" \/ "killed" \in {parent[r], child[r]}

(* A set without a parent that will remove it was left by a kill or holds  *)
(* a sleeper whom nobody will wake, because fork failed, the child was     *)
(* killed, or its end took the post back before the parent looked: only    *)
(* then are later runs refused for good (fork_sem.cpp:58).                 *)
SetIsRemoved ==
  \A r \in Runs :
    set = r ~> \/ set = 0
               \/ parent[r] = "killed"
               \/ parent[r] = "asleep" /\ child[r] \in {"none", "exited", "killed"}
=============================================================================
