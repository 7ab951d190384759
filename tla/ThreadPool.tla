----------------------------- MODULE ThreadPool -----------------------------
(***************************************************************************)
(* FixedThreadPool of src/Thread/threadpool.h.  The state the threads      *)
(* share is the struct Data behind a shared_ptr: the task queue, the       *)
(* shutdown flag, one mutex and one condition variable.  Every section of  *)
(* the code that holds the mutex is one action, because no other thread    *)
(* reads or writes Data while it runs; what happens outside the mutex      *)
(* (notify_one, notify_all, the task itself, dropping the shared_ptr) is   *)
(* an action of its own, so the gap between an unlock and the notification *)
(* that follows it is visible to the other threads.                        *)
(***************************************************************************)
EXTENDS Integers, Sequences, FiniteSets

CONSTANTS
  Workers,  \* the threads the constructor starts (thread_count of them)
  Clients,  \* the threads that call execute or execute2
  Tasks,    \* the tasks they submit, each of them once
  NoTask    \* what a worker that runs no task has in `current`

ASSUME ThreadsAssumption == IsFiniteSet(Workers) /\ IsFiniteSet(Clients)
ASSUME NoTaskAssumption == NoTask \notin Tasks

VARIABLES
  pool,         \* where the life of the pool object stands
  is_shutdown,  \* Data::_is_shutdown
  tasks,        \* Data::_tasks
  refs,         \* use count of the shared_ptr<Data>
  worker,       \* where each worker is in its loop
  current,      \* the task each worker runs
  client,       \* where each client is in execute
  finished      \* the tasks that ran to their end (history)

data == <<is_shutdown, tasks>>
vars == <<pool, is_shutdown, tasks, refs, worker, current, client, finished>>

At(s) == {w \in Workers : worker[w] = s}
Notifying == {c \in Clients : client[c] = "notify"}
Running == {current[w] : w \in At("running")}
Submitted == {tasks[i] : i \in 1..Len(tasks)} \cup Running \cup finished

Init ==
  /\ pool = "constructing"
  /\ is_shutdown = FALSE
  /\ tasks = <<>>
  /\ refs = 1
  /\ worker = [w \in Workers |-> "none"]
  /\ current = [w \in Workers |-> NoTask]
  /\ client = [c \in Clients |-> "idle"]
  /\ finished = {}

-----------------------------------------------------------------------------
(* The constructor: one detached thread after the other.                   *)

(* A bug: the thread captures a plain pointer instead of the shared_ptr. *)
SpawnRawPointer(w) ==
  /\ pool = "constructing" /\ worker[w] = "none"
  /\ worker' = [worker EXCEPT ![w] = "ready"]
  /\ UNCHANGED <<pool, data, refs, current, client, finished>>

Spawn(w) ==
  /\ pool = "constructing" /\ worker[w] = "none"
  /\ worker' = [worker EXCEPT ![w] = "ready"]
  /\ refs' = refs + 1
  /\ UNCHANGED <<pool, data, current, client, finished>>

(* std::thread throws: the constructor unwinds and drops _data, but its    *)
(* destructor does not run, so nothing tells the started workers to stop.  *)
SpawnFails ==
  /\ pool = "constructing" /\ At("none") # {}
  /\ pool' = "failed"
  /\ refs' = refs - 1
  /\ UNCHANGED <<data, worker, current, client, finished>>

Constructed ==
  /\ pool = "constructing" /\ At("none") = {}
  /\ pool' = "live"
  /\ UNCHANGED <<data, refs, worker, current, client, finished>>

-----------------------------------------------------------------------------
(* execute and execute2: enqueue under the mutex, then notify_one.         *)

Execute(c, t) ==
  /\ pool = "live" /\ client[c] = "idle" /\ t \notin Submitted
  /\ tasks' = Append(tasks, t)
  /\ client' = [client EXCEPT ![c] = "notify"]
  /\ UNCHANGED <<pool, is_shutdown, refs, worker, current, finished>>

(* A bug: notify only when the queue was empty before the push. *)
ExecuteNotifyWhenEmpty(c) ==
  /\ client[c] = "notify"
  /\ client' = [client EXCEPT ![c] = "idle"]
  /\ \/ /\ Len(tasks) = 1
        /\ \E w \in At("waiting") : worker' = [worker EXCEPT ![w] = "ready"]
     \/ /\ Len(tasks) # 1 \/ At("waiting") = {}
        /\ UNCHANGED worker
  /\ UNCHANGED <<pool, data, refs, current, finished>>

(* notify_one wakes one of the threads in _cond.wait, if there is any. *)
ExecuteNotify(c) ==
  /\ client[c] = "notify"
  /\ client' = [client EXCEPT ![c] = "idle"]
  /\ \/ \E w \in At("waiting") : worker' = [worker EXCEPT ![w] = "ready"]
     \/ At("waiting") = {} /\ UNCHANGED worker
  /\ UNCHANGED <<pool, data, refs, current, finished>>

-----------------------------------------------------------------------------
(* The thread function: what a worker does between two releases of the     *)
(* mutex.  "ready" is a worker that competes for the mutex.                *)

(* A bug: front() without pop(). *)
TakeWithoutPop(w) ==
  /\ worker[w] = "ready" /\ tasks # <<>>
  /\ current' = [current EXCEPT ![w] = Head(tasks)]
  /\ worker' = [worker EXCEPT ![w] = "running"]
  /\ UNCHANGED <<pool, data, refs, client, finished>>

Take(w) ==
  /\ worker[w] = "ready" /\ tasks # <<>>
  /\ current' = [current EXCEPT ![w] = Head(tasks)]
  /\ tasks' = Tail(tasks)
  /\ worker' = [worker EXCEPT ![w] = "running"]
  /\ UNCHANGED <<pool, is_shutdown, refs, client, finished>>

(* A bug: the flag is not looked at before the worker goes to sleep. *)
WaitIgnoringShutdown(w) ==
  /\ worker[w] = "ready" /\ tasks = <<>>
  /\ worker' = [worker EXCEPT ![w] = "waiting"]
  /\ UNCHANGED <<pool, data, refs, current, client, finished>>

Wait(w) ==
  /\ worker[w] = "ready" /\ tasks = <<>> /\ ~is_shutdown
  /\ worker' = [worker EXCEPT ![w] = "waiting"]
  /\ UNCHANGED <<pool, data, refs, current, client, finished>>

(* The thread ends and its copy of the shared_ptr goes away with it. *)
Exit(w) ==
  /\ worker[w] = "ready" /\ tasks = <<>> /\ is_shutdown
  /\ worker' = [worker EXCEPT ![w] = "done"]
  /\ refs' = refs - 1
  /\ UNCHANGED <<pool, data, current, client, finished>>

Finish(w) ==
  /\ worker[w] = "running"
  /\ worker' = [worker EXCEPT ![w] = "ready"]
  /\ finished' = finished \cup {current[w]}
  /\ current' = [current EXCEPT ![w] = NoTask]
  /\ UNCHANGED <<pool, data, refs, client>>

SpuriousWake(w) ==
  /\ worker[w] = "waiting"
  /\ worker' = [worker EXCEPT ![w] = "ready"]
  /\ UNCHANGED <<pool, data, refs, current, client, finished>>

-----------------------------------------------------------------------------
(* The destructor.  Nobody may still be inside execute when it starts.     *)

Shutdown ==
  /\ pool = "live" /\ Notifying = {}
  /\ is_shutdown' = TRUE
  /\ pool' = "notify"
  /\ UNCHANGED <<tasks, refs, worker, current, client, finished>>

(* A bug: notify_one instead of notify_all. *)
NotifyOneAtShutdown ==
  /\ pool = "notify"
  /\ pool' = "release"
  /\ \/ \E w \in At("waiting") : worker' = [worker EXCEPT ![w] = "ready"]
     \/ At("waiting") = {} /\ UNCHANGED worker
  /\ UNCHANGED <<data, refs, current, client, finished>>

NotifyAll ==
  /\ pool = "notify"
  /\ pool' = "release"
  /\ worker' = [w \in Workers |-> IF worker[w] = "waiting" THEN "ready" ELSE worker[w]]
  /\ UNCHANGED <<data, refs, current, client, finished>>

ReleaseData ==
  /\ pool = "release"
  /\ pool' = "destroyed"
  /\ refs' = refs - 1
  /\ UNCHANGED <<data, worker, current, client, finished>>

-----------------------------------------------------------------------------
Lifecycle == SpawnFails \/ Constructed \/ Shutdown \/ NotifyAll \/ ReleaseData

Critical(w) == Take(w) \/ Wait(w) \/ Exit(w)

Next ==
  \/ Lifecycle
  \/ \E w \in Workers : Spawn(w) \/ Critical(w) \/ Finish(w) \/ SpuriousWake(w)
  \/ \E c \in Clients : ExecuteNotify(c) \/ \E t \in Tasks : Execute(c, t)

(* std::mutex promises that some worker gets the lock, not which one; a    *)
(* thread outside the mutex runs on, and tasks end.                        *)
Fairness ==
  /\ WF_vars(\E w \in Workers : Critical(w))
  /\ \A w \in Workers : WF_vars(Finish(w))
  /\ \A c \in Clients : WF_vars(ExecuteNotify(c))
  /\ WF_vars(NotifyAll) /\ WF_vars(ReleaseData)

Spec == Init /\ [][Next]_vars
FairSpec == Spec /\ Fairness

-----------------------------------------------------------------------------
(* Every variable holds a value of its type. *)
TypeOK ==
  /\ pool \in {"constructing", "live", "failed", "notify", "release", "destroyed"}
  /\ is_shutdown \in BOOLEAN
  /\ tasks \in Seq(Tasks)
  /\ refs \in Nat
  /\ worker \in [Workers -> {"none", "ready", "running", "waiting", "done"}]
  /\ current \in [Workers -> Tasks \cup {NoTask}]
  /\ client \in [Clients -> {"idle", "notify"}]
  /\ finished \subseteq Tasks

(* execute releases the mutex before notify_one: while a worker sleeps,    *)
(* every queued task has a worker on its way to the mutex or a client      *)
(* about to notify, so no task is left behind with a worker asleep.        *)
NoStrandedTask ==
  At("waiting") # {} => Len(tasks) <= Cardinality(At("ready")) + Cardinality(Notifying)

(* The workers are detached and may outlive the pool object: the use count *)
(* of Data is the number of threads that can still touch it, plus one for  *)
(* the object while that holds its pointer.                                *)
SharedDataCounted ==
  refs = Cardinality(Workers \ (At("none") \cup At("done")))
           + (IF pool \in {"failed", "destroyed"} THEN 0 ELSE 1)

(* After the destructor's notify_all nobody sleeps on the condition        *)
(* variable of a pool that no one will ever notify again.                  *)
NoSleeperAfterShutdown ==
  pool \in {"release", "destroyed"} => At("waiting") = {}

(* The pool implements the executor: first come, first started, each task  *)
(* once, at most as many at a time as there are workers.                   *)
Executor == INSTANCE TaskExecutor WITH
  pending <- tasks, running <- Running, finished <- finished,
  Capacity <- Cardinality(Workers)
ImplementsExecutor == Executor!Spec

(* A task handed to execute is run, whether or not the pool is destroyed   *)
(* in the meantime: the workers look at the queue before the flag.         *)
EveryTaskRuns == \A t \in Tasks : (t \in Submitted) ~> (t \in finished)

(* The threads of a destroyed pool come to their end. *)
ShutdownDrains ==
  (pool = "destroyed") ~> (\A w \in Workers : worker[w] = "done")

=============================================================================
