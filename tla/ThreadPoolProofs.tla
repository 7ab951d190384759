-------------------------- MODULE ThreadPoolProofs --------------------------
(***************************************************************************)
(* Proofs about ThreadPool for every number of workers, clients and tasks: *)
(* its type invariant, the three safety invariants the runs check, and     *)
(* that it implements TaskExecutor.                                        *)
(***************************************************************************)
EXTENDS ThreadPool, FiniteSetTheorems, SequenceTheorems, TLAPS

(* The worker states a notification moves between are sets of workers, and *)
(* those are finite.                                                       *)
LEMMA AtFinite ==
  ASSUME NEW s
  PROVE  IsFiniteSet(At(s)) /\ Cardinality(At(s)) \in Nat
  BY ThreadsAssumption, FS_Subset, FS_CardinalityType DEF At

(* So are the clients between unlock and notify_one. *)
LEMMA NotifyingFinite == IsFiniteSet(Notifying) /\ Cardinality(Notifying) \in Nat
  BY ThreadsAssumption, FS_Subset, FS_CardinalityType DEF Notifying

(* The threads that hold a copy of the shared_ptr. *)
Alive == Workers \ (At("none") \cup At("done"))

(* So are the threads that hold a copy. *)
LEMMA AliveFinite == IsFiniteSet(Alive) /\ Cardinality(Alive) \in Nat
  BY ThreadsAssumption, FS_Subset, FS_CardinalityType DEF Alive

-----------------------------------------------------------------------------
(* The strengthening that is inductive. *)

(* The flag is up from the destructor's critical section on. *)
FlagUp == pool \in {"notify", "release", "destroyed"} => is_shutdown

(* No task is queued twice, and the tasks that run were taken from the     *)
(* queue, each by one worker.                                              *)
TasksDistinct ==
  /\ \A i, j \in 1..Len(tasks) : tasks[i] = tasks[j] => i = j
  /\ \A i \in 1..Len(tasks), w \in At("running") : tasks[i] # current[w]
  /\ \A v, w \in At("running") : current[v] = current[w] => v = w
  /\ \A w \in At("running") : current[w] \in Tasks

(* The types of the variables without the sign of refs, which follows from *)
(* SharedDataCounted.                                                      *)
Types ==
  /\ pool \in {"constructing", "live", "failed", "notify", "release", "destroyed"}
  /\ is_shutdown \in BOOLEAN
  /\ tasks \in Seq(Tasks)
  /\ worker \in [Workers -> {"none", "ready", "running", "waiting", "done"}]
  /\ current \in [Workers -> Tasks \cup {NoTask}]
  /\ client \in [Clients -> {"idle", "notify"}]
  /\ finished \subseteq Tasks

(* Nothing is queued or running when the constructor starts. *)
LEMMA InitTypes == Init => Types /\ TasksDistinct
<1> SUFFICES ASSUME Init PROVE Types /\ TasksDistinct
  OBVIOUS
<1>1. <<>> \in Seq(Tasks) /\ Len(<<>>) = 0
  BY EmptySeq
<1>2. Types
  BY <1>1 DEF Init, Types
<1>3. At("running") = {}
  BY DEF Init, At
<1>4. TasksDistinct
  BY <1>1, <1>3 DEF Init, TasksDistinct
<1> QED BY <1>2, <1>4

(* A step keeps the types; a worker that finishes hands back a task. *)
LEMMA NextTypes == Types /\ TasksDistinct /\ [Next]_vars => Types'
<1> SUFFICES ASSUME Types, TasksDistinct, [Next]_vars PROVE Types'
  OBVIOUS
<1> USE DEF Types
<1>1. CASE Lifecycle
  BY <1>1 DEF Lifecycle, SpawnFails, Constructed, Shutdown, NotifyAll, ReleaseData, data
<1>2. ASSUME NEW w \in Workers, Spawn(w) \/ Wait(w) \/ Exit(w) \/ SpuriousWake(w)
      PROVE  Types'
  BY <1>2 DEF Spawn, Wait, Exit, SpuriousWake, data
<1>3. ASSUME NEW w \in Workers, Take(w)
      PROVE  Types'
  <2>1. Head(tasks) \in Tasks /\ Tail(tasks) \in Seq(Tasks)
    BY <1>3, HeadTailProperties DEF Take
  <2> QED BY <1>3, <2>1 DEF Take
<1>4. ASSUME NEW w \in Workers, Finish(w)
      PROVE  Types'
  <2>1. current[w] \in Tasks
    BY <1>4 DEF Finish, TasksDistinct, At
  <2> QED BY <1>4, <2>1 DEF Finish, data
<1>5. ASSUME NEW c \in Clients, ExecuteNotify(c)
      PROVE  Types'
  BY <1>5 DEF ExecuteNotify, At, data
<1>6. ASSUME NEW c \in Clients, NEW t \in Tasks, Execute(c, t)
      PROVE  Types'
  BY <1>6 DEF Execute
<1>7. CASE UNCHANGED vars
  BY <1>7 DEF vars, data
<1> QED BY <1>1, <1>2, <1>3, <1>4, <1>5, <1>6, <1>7 DEF Next, Critical

(* A step keeps the tasks apart: execute adds a task that is nowhere yet,  *)
(* and a worker takes the head of the queue off it.                        *)
LEMMA NextTasksDistinct == Types /\ TasksDistinct /\ [Next]_vars => TasksDistinct'
<1> SUFFICES ASSUME Types, TasksDistinct, [Next]_vars PROVE TasksDistinct'
  OBVIOUS
<1> USE DEF TasksDistinct, At
<1>1. CASE Lifecycle
  BY <1>1 DEF Lifecycle, SpawnFails, Constructed, Shutdown, NotifyAll, ReleaseData, data, Types
<1>2. ASSUME NEW w \in Workers, Spawn(w) \/ Wait(w) \/ Exit(w) \/ SpuriousWake(w)
      PROVE  TasksDistinct'
  BY <1>2 DEF Spawn, Wait, Exit, SpuriousWake, data, Types
<1>3. ASSUME NEW w \in Workers, Take(w)
      PROVE  TasksDistinct'
  <2>1. /\ tasks # <<>> /\ tasks \in Seq(Tasks)
        /\ tasks' = Tail(tasks)
        /\ current' = [current EXCEPT ![w] = Head(tasks)]
        /\ worker' = [worker EXCEPT ![w] = "running"]
        /\ worker[w] = "ready"
    BY <1>3 DEF Take, Types
  <2>2. /\ Len(tasks) \in Nat /\ 1 \in 1..Len(tasks)
        /\ Head(tasks) = tasks[1] /\ Head(tasks) \in Tasks
        /\ Len(tasks') = Len(tasks) - 1
        /\ \A i \in 1..Len(tasks') : i + 1 \in 1..Len(tasks) /\ i + 1 # 1 /\ tasks'[i] = tasks[i + 1]
    BY <2>1, HeadTailProperties, EmptySeq, LenProperties
  <2>3. At("running")' = At("running") \cup {w} /\ w \notin At("running")
    BY <2>1 DEF Types
  <2>4. \A v \in At("running")' : current'[v] = IF v = w THEN tasks[1] ELSE current[v]
    BY <2>1, <2>2 DEF Types
  <2>5. \A i, j \in 1..Len(tasks') : tasks'[i] = tasks'[j] => i = j
    <3> SUFFICES ASSUME NEW i \in 1..Len(tasks'), NEW j \in 1..Len(tasks'),
                        tasks'[i] = tasks'[j]
                 PROVE  i = j
      OBVIOUS
    <3>1. i + 1 = j + 1
      BY <2>2
    <3> QED BY <2>2, <3>1
  <2>6. \A i \in 1..Len(tasks'), v \in At("running")' : tasks'[i] # current'[v]
    BY <2>2, <2>3, <2>4
  <2>7. \A v, x \in At("running")' : current'[v] = current'[x] => v = x
    BY <2>2, <2>3, <2>4
  <2>8. \A v \in At("running")' : current'[v] \in Tasks
    BY <2>2, <2>3, <2>4
  <2> QED BY <2>5, <2>6, <2>7, <2>8
<1>4. ASSUME NEW w \in Workers, Finish(w)
      PROVE  TasksDistinct'
  BY <1>4 DEF Finish, data, Types
<1>5. ASSUME NEW c \in Clients, ExecuteNotify(c)
      PROVE  TasksDistinct'
  BY <1>5 DEF ExecuteNotify, data, Types
<1>6. ASSUME NEW c \in Clients, NEW t \in Tasks, Execute(c, t)
      PROVE  TasksDistinct'
  <2>1. /\ Len(tasks) \in Nat
        /\ Len(tasks') = Len(tasks) + 1
        /\ \A i \in 1..Len(tasks) : tasks'[i] = tasks[i]
        /\ tasks'[Len(tasks) + 1] = t
    BY <1>6, AppendProperties, LenProperties DEF Execute, Types
  <2>2. /\ \A i \in 1..Len(tasks) : tasks[i] # t
        /\ \A v \in At("running") : current[v] # t
    BY <1>6 DEF Execute, Submitted, Running
  <2>3. UNCHANGED <<worker, current>>
    BY <1>6 DEF Execute
  <2> QED BY <2>1, <2>2, <2>3
<1>7. CASE UNCHANGED vars
  BY <1>7 DEF vars, data
<1> QED BY <1>1, <1>2, <1>3, <1>4, <1>5, <1>6, <1>7 DEF Next, Critical

-----------------------------------------------------------------------------
(* How the sets of workers and of notifying clients change. *)

(* A worker that wakes up competes for the mutex. *)
LEMMA BecomeReady ==
  ASSUME Types, NEW w \in Workers, worker[w] # "ready",
         worker' = [worker EXCEPT ![w] = "ready"]
  PROVE  /\ Cardinality(At("ready"))' = Cardinality(At("ready")) + 1
         /\ At("waiting")' = At("waiting") \ {w}
<1>1. At("ready")' = At("ready") \cup {w} /\ w \notin At("ready")
  BY DEF Types, At
<1>2. At("waiting")' = At("waiting") \ {w}
  BY DEF Types, At
<1> QED BY <1>1, <1>2, AtFinite, FS_AddElement

(* A worker that takes a task competes no longer. *)
LEMMA ReadyRuns ==
  ASSUME Types, NEW w \in Workers, worker[w] = "ready",
         worker' = [worker EXCEPT ![w] = "running"]
  PROVE  /\ Cardinality(At("ready"))' = Cardinality(At("ready")) - 1
         /\ At("waiting")' = At("waiting") \ {w}
<1>1. At("ready")' = At("ready") \ {w} /\ w \in At("ready")
  BY DEF Types, At
<1>2. At("waiting")' = At("waiting") \ {w}
  BY DEF Types, At
<1> QED BY <1>1, <1>2, AtFinite, FS_RemoveElement

-----------------------------------------------------------------------------
(* Every step keeps NoStrandedTask: execute brings its own notification, a *)
(* notification wakes a sleeper or there is none, and a worker that leaves *)
(* the competition for the mutex takes a task with it or saw none.         *)
LEMMA NextNoStranded ==
  Types /\ NoStrandedTask /\ [Next]_vars => NoStrandedTask'
<1> SUFFICES ASSUME Types, NoStrandedTask, [Next]_vars, At("waiting")' # {}
             PROVE  Len(tasks)' <= Cardinality(At("ready"))' + Cardinality(Notifying)'
  BY DEF NoStrandedTask
<1>f. /\ Cardinality(At("ready")) \in Nat /\ Cardinality(At("ready"))' \in Nat
      /\ Cardinality(Notifying) \in Nat /\ Cardinality(Notifying)' \in Nat
      /\ Len(tasks) \in Nat
  <2>1. Cardinality(At("ready")) \in Nat /\ Cardinality(Notifying) \in Nat
    BY AtFinite, NotifyingFinite
  <2>2. IsFiniteSet(At("ready")') /\ IsFiniteSet(Notifying')
    BY ThreadsAssumption, FS_Subset DEF At, Notifying
  <2> QED BY <2>1, <2>2, FS_CardinalityType, LenProperties DEF Types
<1>1. CASE SpawnFails \/ Constructed \/ Shutdown \/ ReleaseData \/ UNCHANGED vars
  BY <1>1, <1>f DEF SpawnFails, Constructed, Shutdown, ReleaseData, data, vars, NoStrandedTask, At, Notifying
<1>2. CASE NotifyAll
  BY <1>2 DEF NotifyAll, At
<1>3. ASSUME NEW w \in Workers, Spawn(w) \/ SpuriousWake(w) \/ Finish(w)
      PROVE  Len(tasks)' <= Cardinality(At("ready"))' + Cardinality(Notifying)'
  <2>1. /\ worker' = [worker EXCEPT ![w] = "ready"] /\ worker[w] # "ready"
        /\ UNCHANGED <<tasks, client>>
    BY <1>3 DEF Spawn, SpuriousWake, Finish, data
  <2>2. /\ Cardinality(At("ready"))' = Cardinality(At("ready")) + 1
        /\ At("waiting")' = At("waiting") \ {w}
    BY <2>1, BecomeReady
  <2>3. Notifying' = Notifying
    BY <2>1 DEF Notifying
  <2> QED BY <2>1, <2>2, <2>3, <1>f DEF NoStrandedTask
<1>4. ASSUME NEW w \in Workers, Take(w)
      PROVE  Len(tasks)' <= Cardinality(At("ready"))' + Cardinality(Notifying)'
  <2>1. Len(tasks)' = Len(tasks) - 1
    BY <1>4, HeadTailProperties DEF Take, Types
  <2>2. /\ Cardinality(At("ready"))' = Cardinality(At("ready")) - 1
        /\ At("waiting")' = At("waiting") \ {w}
    BY <1>4, ReadyRuns DEF Take
  <2>3. Notifying' = Notifying
    BY <1>4 DEF Take, Notifying
  <2> QED BY <2>1, <2>2, <2>3, <1>f DEF NoStrandedTask
<1>5. ASSUME NEW w \in Workers, Wait(w) \/ Exit(w)
      PROVE  Len(tasks)' <= Cardinality(At("ready"))' + Cardinality(Notifying)'
  <2>1. Len(tasks)' = 0
    BY <1>5 DEF Wait, Exit, data
  <2> QED BY <2>1, <1>f
<1>6. ASSUME NEW c \in Clients, ExecuteNotify(c)
      PROVE  Len(tasks)' <= Cardinality(At("ready"))' + Cardinality(Notifying)'
  <2>1. Notifying' = Notifying \ {c} /\ c \in Notifying
    BY <1>6 DEF ExecuteNotify, Notifying, Types
  <2>2. Cardinality(Notifying)' = Cardinality(Notifying) - 1
    BY <2>1, NotifyingFinite, FS_RemoveElement
  <2>3. tasks' = tasks
    BY <1>6 DEF ExecuteNotify, data
  <2>4. PICK w \in At("waiting") : worker' = [worker EXCEPT ![w] = "ready"]
    BY <1>6 DEF ExecuteNotify, At
  <2>5. w \in Workers /\ worker[w] = "waiting"
    BY <2>4 DEF At
  <2>6. Cardinality(At("ready"))' = Cardinality(At("ready")) + 1
    BY <2>4, <2>5, BecomeReady
  <2> QED BY <2>2, <2>3, <2>4, <2>6, <1>f DEF NoStrandedTask
<1>7. ASSUME NEW c \in Clients, NEW t \in Tasks, Execute(c, t)
      PROVE  Len(tasks)' <= Cardinality(At("ready"))' + Cardinality(Notifying)'
  <2>1. Notifying' = Notifying \cup {c} /\ c \notin Notifying
    BY <1>7 DEF Execute, Notifying, Types
  <2>2. Cardinality(Notifying)' = Cardinality(Notifying) + 1
    BY <2>1, NotifyingFinite, FS_AddElement
  <2>3. Len(tasks)' = Len(tasks) + 1
    BY <1>7, AppendProperties DEF Execute, Types
  <2>4. At("ready")' = At("ready") /\ At("waiting")' = At("waiting")
    BY <1>7 DEF Execute, At
  <2> QED BY <2>2, <2>3, <2>4, <1>f DEF NoStrandedTask
<1> QED BY <1>1, <1>2, <1>3, <1>4, <1>5, <1>6, <1>7 DEF Next, Lifecycle, Critical

-----------------------------------------------------------------------------
(* Every step keeps SharedDataCounted: a reference is taken where a thread *)
(* starts and given back where a thread or the object ends.                *)
LEMMA NextCounted ==
  Types /\ refs \in Nat /\ SharedDataCounted /\ [Next]_vars
    => refs' \in Nat /\ SharedDataCounted'
<1> SUFFICES ASSUME Types, refs \in Nat, SharedDataCounted, [Next]_vars
             PROVE  refs' \in Nat /\ SharedDataCounted'
  OBVIOUS
<1> DEFINE Owner == IF pool \in {"failed", "destroyed"} THEN 0 ELSE 1
<1>f. IsFiniteSet(Alive) /\ Cardinality(Alive) \in Nat /\ Cardinality(Alive') \in Nat
  <2>1. IsFiniteSet(Alive')
    BY ThreadsAssumption, FS_Subset DEF Alive
  <2> QED BY <2>1, AliveFinite, FS_CardinalityType
<1>r. refs = Cardinality(Alive) + Owner
  BY DEF SharedDataCounted, Alive
<1> SUFFICES refs' = Cardinality(Alive') + Owner'
  BY <1>f DEF SharedDataCounted, Alive
<1>1. CASE SpawnFails \/ ReleaseData
  <2>1. Alive' = Alive /\ refs' = refs - 1 /\ Owner = 1 /\ Owner' = 0
    BY <1>1 DEF SpawnFails, ReleaseData, Alive, At
  <2> QED BY <2>1, <1>r, <1>f
<1>2. CASE Constructed \/ Shutdown \/ UNCHANGED vars
  <2>1. Alive' = Alive /\ refs' = refs /\ Owner' = Owner
    BY <1>2 DEF Constructed, Shutdown, vars, Alive, At
  <2> QED BY <2>1, <1>r
<1>3. CASE NotifyAll
  <2>1. /\ pool = "notify" /\ pool' = "release" /\ refs' = refs
        /\ worker' = [w \in Workers |-> IF worker[w] = "waiting" THEN "ready" ELSE worker[w]]
    BY <1>3 DEF NotifyAll
  <2>2. Alive' = Alive
    BY <2>1 DEF Alive, At, Types
  <2> QED BY <2>1, <2>2, <1>r
<1>4. ASSUME NEW w \in Workers, Spawn(w)
      PROVE  refs' = Cardinality(Alive') + Owner'
  <2>1. /\ worker' = [worker EXCEPT ![w] = "ready"] /\ worker[w] = "none"
        /\ refs' = refs + 1 /\ Owner' = Owner
    BY <1>4 DEF Spawn
  <2>2. Alive' = Alive \cup {w} /\ w \notin Alive
    BY <2>1 DEF Types, Alive, At
  <2>3. Cardinality(Alive \cup {w}) = Cardinality(Alive) + 1
    BY <2>2, <1>f, FS_AddElement
  <2> HIDE DEF Owner
  <2>4. Owner \in Nat
    BY DEF Owner
  <2> QED BY <2>1, <2>2, <2>3, <2>4, <1>r, <1>f
<1>5. ASSUME NEW w \in Workers, Exit(w)
      PROVE  refs' = Cardinality(Alive') + Owner'
  <2>1. /\ worker' = [worker EXCEPT ![w] = "done"] /\ worker[w] = "ready"
        /\ refs' = refs - 1 /\ Owner' = Owner
    BY <1>5 DEF Exit
  <2>2. Alive' = Alive \ {w} /\ w \in Alive
    BY <2>1 DEF Types, Alive, At
  <2> QED BY <2>1, <2>2, <1>r, <1>f, FS_RemoveElement
<1>6. ASSUME NEW w \in Workers, Take(w) \/ Wait(w) \/ Finish(w) \/ SpuriousWake(w)
      PROVE  refs' = Cardinality(Alive') + Owner'
  <2>1. /\ \E s \in {"running", "waiting", "ready"} : worker' = [worker EXCEPT ![w] = s]
        /\ worker[w] \notin {"none", "done"}
        /\ refs' = refs /\ Owner' = Owner
    BY <1>6 DEF Take, Wait, Finish, SpuriousWake
  <2>2. Alive' = Alive
    BY <2>1 DEF Types, Alive, At
  <2> QED BY <2>1, <2>2, <1>r
<1>7. ASSUME NEW c \in Clients, ExecuteNotify(c)
      PROVE  refs' = Cardinality(Alive') + Owner'
  <2>1. /\ worker' = worker \/ \E w \in At("waiting") : worker' = [worker EXCEPT ![w] = "ready"]
        /\ refs' = refs /\ Owner' = Owner
    BY <1>7 DEF ExecuteNotify
  <2>2. Alive' = Alive
    BY <2>1 DEF Types, Alive, At
  <2> QED BY <2>1, <2>2, <1>r
<1>8. ASSUME NEW c \in Clients, NEW t \in Tasks, Execute(c, t)
      PROVE  refs' = Cardinality(Alive') + Owner'
  <2>1. worker' = worker /\ refs' = refs /\ Owner' = Owner
    BY <1>8 DEF Execute
  <2>2. Alive' = Alive
    BY <2>1 DEF Alive, At
  <2> QED BY <2>1, <2>2, <1>r
<1> QED BY <1>1, <1>2, <1>3, <1>4, <1>5, <1>6, <1>7, <1>8 DEF Next, Lifecycle, Critical

(* Every step keeps NoSleeperAfterShutdown: once the flag is up, a worker  *)
(* that finds the queue empty ends and does not wait.                      *)
LEMMA NextNoSleeper ==
  Types /\ FlagUp /\ NoSleeperAfterShutdown /\ [Next]_vars
    => FlagUp' /\ NoSleeperAfterShutdown'
<1> SUFFICES ASSUME Types, FlagUp, NoSleeperAfterShutdown, [Next]_vars
             PROVE  FlagUp' /\ NoSleeperAfterShutdown'
  OBVIOUS
<1> USE DEF FlagUp, NoSleeperAfterShutdown, At
<1>1. CASE Lifecycle
  BY <1>1 DEF Lifecycle, SpawnFails, Constructed, Shutdown, NotifyAll, ReleaseData, data
<1>2. ASSUME NEW w \in Workers, Spawn(w) \/ Critical(w) \/ Finish(w) \/ SpuriousWake(w)
      PROVE  FlagUp' /\ NoSleeperAfterShutdown'
  BY <1>2 DEF Spawn, Critical, Take, Wait, Exit, Finish, SpuriousWake, data, Types
<1>3. ASSUME NEW c \in Clients, ExecuteNotify(c)
      PROVE  FlagUp' /\ NoSleeperAfterShutdown'
  BY <1>3 DEF ExecuteNotify, data, Types
<1>4. ASSUME NEW c \in Clients, NEW t \in Tasks, Execute(c, t)
      PROVE  FlagUp' /\ NoSleeperAfterShutdown'
  BY <1>4 DEF Execute
<1>5. CASE UNCHANGED vars
  BY <1>5 DEF vars, data
<1> QED BY <1>1, <1>2, <1>3, <1>4, <1>5 DEF Next

-----------------------------------------------------------------------------
IInv ==
  /\ Types /\ refs \in Nat /\ TasksDistinct /\ FlagUp
  /\ NoStrandedTask /\ SharedDataCounted /\ NoSleeperAfterShutdown

(* The strengthening holds when the constructor starts. *)
LEMMA InitIInv == Init => IInv
<1> SUFFICES ASSUME Init PROVE IInv
  OBVIOUS
<1>1. Types /\ TasksDistinct
  BY InitTypes
<1>2. At("waiting") = {} /\ Alive = {}
  BY DEF Init, At, Alive
<1>3. SharedDataCounted
  <2>1. Cardinality(Alive) = 0
    BY <1>2, FS_EmptySet
  <2>2. refs = 1 /\ pool = "constructing"
    BY DEF Init
  <2> QED BY <2>1, <2>2 DEF SharedDataCounted, Alive
<1>4. FlagUp /\ NoSleeperAfterShutdown /\ refs \in Nat
  BY DEF Init, FlagUp, NoSleeperAfterShutdown
<1>5. NoStrandedTask
  BY <1>2 DEF NoStrandedTask
<1> QED BY <1>1, <1>3, <1>4, <1>5 DEF IInv

(* Every step of the pool keeps it. *)
LEMMA NextIInv == IInv /\ [Next]_vars => IInv'
  BY NextTypes, NextTasksDistinct, NextNoStranded, NextCounted, NextNoSleeper DEF IInv

(* So it always holds. *)
LEMMA Invariance == Spec => []IInv
  BY InitIInv, NextIInv, PTL DEF Spec

(* Every variable of the pool always holds a value of its type; the use    *)
(* count never drops below zero.                                           *)
THEOREM TypeCorrect == Spec => []TypeOK
<1>1. IInv => TypeOK
  BY DEF IInv, Types, TypeOK
<1> QED BY <1>1, Invariance, PTL

(* No interleaving of execute's unlock and notify_one with the workers     *)
(* leaves a task queued, a worker asleep, and nobody about to act.         *)
THEOREM NoLostWakeup == Spec => []NoStrandedTask
<1>1. IInv => NoStrandedTask
  BY DEF IInv
<1> QED BY <1>1, Invariance, PTL

(* The shared state is alive exactly as long as some thread or the pool    *)
(* object refers to it, also when the constructor fails half way.          *)
THEOREM DataOutlivesThreads == Spec => []SharedDataCounted
<1>1. IInv => SharedDataCounted
  BY DEF IInv
<1> QED BY <1>1, Invariance, PTL

(* No worker sleeps on the condition variable after the last notify_all.   *)
THEOREM ShutdownWakesAll == Spec => []NoSleeperAfterShutdown
<1>1. IInv => NoSleeperAfterShutdown
  BY DEF IInv
<1> QED BY <1>1, Invariance, PTL

-----------------------------------------------------------------------------
(* Refinement of TaskExecutor. *)

(* While a worker runs nothing, fewer tasks run than there are workers. *)
LEMMA RunningIsSmall ==
  ASSUME TasksDistinct, NEW w \in Workers, w \notin At("running")
  PROVE  Cardinality(Running) < Cardinality(Workers)
<1> DEFINE f == [v \in At("running") |-> current[v]]
<1>1. f \in Surjection(At("running"), Running)
  BY DEF Surjection, Running
<1>2. IsFiniteSet(At("running")) /\ IsFiniteSet(Running)
      /\ Cardinality(Running) <= Cardinality(At("running"))
  BY <1>1, AtFinite, FS_Surjection
<1>3. /\ IsFiniteSet(Workers)
      /\ Cardinality(Workers) \in Nat /\ Cardinality(At("running")) \in Nat
      /\ Cardinality(Running) \in Nat
  BY <1>2, AtFinite, ThreadsAssumption, FS_CardinalityType
<1>4. At("running") \subseteq Workers /\ At("running") # Workers
  BY DEF At
<1>5. /\ Cardinality(At("running")) <= Cardinality(Workers)
      /\ Cardinality(At("running")) # Cardinality(Workers)
  BY <1>3, <1>4, FS_Subset
<1> QED BY <1>2, <1>3, <1>5

(* The abstract executor counts with the same Cardinality. *)
LEMMA ExecutorCounts == \A S : Executor!Cardinality(S) = Cardinality(S)
  BY DEF Cardinality, Executor!Cardinality

(* A pool under construction is an executor without tasks. *)
LEMMA InitRefines == Init => Executor!Init
  BY DEF Init, Executor!Init, Running, At

(* Every step of the pool is a step of the executor or none. *)
LEMMA NextRefines == Types /\ TasksDistinct /\ [Next]_vars => [Executor!Next]_(Executor!vars)
<1> SUFFICES ASSUME Types, TasksDistinct, [Next]_vars
             PROVE  [Executor!Next]_(Executor!vars)
  OBVIOUS
<1> DEFINE Same == UNCHANGED <<tasks, Running, finished>>
<1>s. Same => [Executor!Next]_(Executor!vars)
  BY DEF Executor!vars
<1>1. CASE Lifecycle
  <2>1. Running' = Running
    BY <1>1 DEF Lifecycle, SpawnFails, Constructed, Shutdown, NotifyAll, ReleaseData, Running, At, Types
  <2>2. UNCHANGED <<tasks, finished>>
    BY <1>1 DEF Lifecycle, SpawnFails, Constructed, Shutdown, NotifyAll, ReleaseData, data
  <2> QED BY <2>1, <2>2, <1>s
<1>2. ASSUME NEW w \in Workers, Spawn(w) \/ Wait(w) \/ Exit(w) \/ SpuriousWake(w)
      PROVE  [Executor!Next]_(Executor!vars)
  <2>1. Running' = Running
    BY <1>2 DEF Spawn, Wait, Exit, SpuriousWake, Running, At, Types
  <2>2. UNCHANGED <<tasks, finished>>
    BY <1>2 DEF Spawn, Wait, Exit, SpuriousWake, data
  <2> QED BY <2>1, <2>2, <1>s
<1>3. ASSUME NEW w \in Workers, Take(w)
      PROVE  [Executor!Next]_(Executor!vars)
  <2>1. Running' = Running \cup {Head(tasks)}
    <3>1. At("running")' = At("running") \cup {w}
      BY <1>3 DEF Take, At, Types
    <3>2. \A v \in At("running") : v # w /\ current'[v] = current[v]
      BY <1>3 DEF Take, At, Types
    <3>3. current'[w] = Head(tasks)
      BY <1>3 DEF Take, Types
    <3> QED BY <3>1, <3>2, <3>3 DEF Running
  <2>2. Cardinality(Running) < Cardinality(Workers)
    BY <1>3, RunningIsSmall DEF Take, At
  <2>3. tasks # <<>> /\ tasks' = Tail(tasks) /\ finished' = finished
    BY <1>3 DEF Take
  <2>4. Executor!Start
    BY <2>1, <2>2, <2>3, ExecutorCounts DEF Executor!Start
  <2> QED BY <2>4 DEF Executor!Next
<1>4. ASSUME NEW w \in Workers, Finish(w)
      PROVE  [Executor!Next]_(Executor!vars)
  <2>1. w \in At("running") /\ current[w] \in Tasks /\ current[w] \in Running
    BY <1>4 DEF Finish, At, TasksDistinct, Running
  <2>2. Running' = Running \ {current[w]}
    <3>1. At("running")' = At("running") \ {w}
      BY <1>4 DEF Finish, At, Types
    <3>2. \A v \in At("running") : v # w => current'[v] = current[v] /\ current[v] # current[w]
      BY <1>4, <2>1 DEF Finish, At, Types, TasksDistinct
    <3> QED BY <3>1, <3>2 DEF Running
  <2>3. Executor!Complete(current[w])
    BY <1>4, <2>1, <2>2 DEF Finish, data, Executor!Complete
  <2> QED BY <2>1, <2>3 DEF Executor!Next
<1>5. ASSUME NEW c \in Clients, ExecuteNotify(c)
      PROVE  [Executor!Next]_(Executor!vars)
  <2>1. Running' = Running
    BY <1>5 DEF ExecuteNotify, Running, At, Types
  <2>2. UNCHANGED <<tasks, finished>>
    BY <1>5 DEF ExecuteNotify, data
  <2> QED BY <2>1, <2>2, <1>s
<1>6. ASSUME NEW c \in Clients, NEW t \in Tasks, Execute(c, t)
      PROVE  [Executor!Next]_(Executor!vars)
  <2>1. Running' = Running
    BY <1>6 DEF Execute, Running, At
  <2>2. t \notin Executor!Accepted
    BY <1>6 DEF Execute, Executor!Accepted, Submitted
  <2>3. Executor!Accept(t)
    BY <1>6, <2>1, <2>2 DEF Execute, Executor!Accept
  <2> QED BY <2>3 DEF Executor!Next
<1>7. CASE UNCHANGED vars
  BY <1>7, <1>s DEF vars, data, Running, At
<1> QED BY <1>1, <1>2, <1>3, <1>4, <1>5, <1>6, <1>7 DEF Next, Critical

(* For every number of workers and clients the pool is the executor: tasks *)
(* start in the order of their submission, each once, at most as many at a *)
(* time as there are workers, whatever the threads and wake-ups do.        *)
THEOREM Refinement == Spec => ImplementsExecutor
<1>1. IInv => Types /\ TasksDistinct
  BY DEF IInv
<1>2. IInv /\ [Next]_vars => [Executor!Next]_(Executor!vars)
  BY <1>1, NextRefines
<1> QED BY <1>2, InitRefines, Invariance, PTL DEF Spec, ImplementsExecutor, Executor!Spec
=============================================================================
