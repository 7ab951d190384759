----------------------- MODULE PooledProducerConsumer -----------------------
(***************************************************************************)
(* The program of src/Thread/producer_consumer.cpp: main hands producers   *)
(* and consumers in turn to a FixedThreadPool and waits for a key.  A      *)
(* producer or consumer takes steps only while a worker of the pool runs   *)
(* it, and a worker that runs one is busy until it returns, so producers   *)
(* and consumers that sleep on their condition variables hold on to the    *)
(* threads the others need.                                                *)
(***************************************************************************)
EXTENDS ProducerConsumer

CONSTANTS
  Workers, NoTask,
  SubmissionOrder  \* the order in which main submits the tasks

main == "main"

VARIABLES
  pool, is_shutdown, tasks, refs, worker, current, client, finished,
  exited  \* the process is gone

P == INSTANCE ThreadPool WITH Tasks <- Threads, Clients <- {main}

poolVars == <<pool, is_shutdown, tasks, refs, worker, current, client, finished>>
vars == <<shopVars, poolVars, exited>>

Init == ShopInit /\ P!Init /\ exited = FALSE

-----------------------------------------------------------------------------
PoolOnly == UNCHANGED <<shopVars, exited>>

(* main: execute2(producer), execute2(consumer), and so on. *)
Submit ==
  LET n == Cardinality(P!Submitted) IN
  /\ n < Len(SubmissionOrder)
  /\ P!Execute(main, SubmissionOrder[n + 1])
  /\ PoolOnly

(* getchar returns, main returns, and the pool's destructor starts. *)
MainReturns ==
  /\ Cardinality(P!Submitted) = Len(SubmissionOrder)
  /\ P!Shutdown
  /\ PoolOnly

(* A worker is done with a task when the function has returned. *)
TaskReturns(w) ==
  /\ worker[w] = "running" /\ pc[current[w]] = "done"
  /\ P!Finish(w)
  /\ PoolOnly

(* The end of main ends the process, whatever the detached workers do. *)
ProcessExits ==
  /\ pool = "destroyed"
  /\ exited' = TRUE
  /\ UNCHANGED <<shopVars, poolVars>>

TaskStep(t) == t \in P!Running /\ Step(t) /\ UNCHANGED <<poolVars, exited>>

PoolStep ==
  \/ P!Constructed \/ P!NotifyAll \/ P!ReleaseData \/ P!ExecuteNotify(main)
  \/ \E w \in Workers : P!Spawn(w) \/ P!Critical(w)

SpuriousWake ==
  \/ \E w \in Workers : P!SpuriousWake(w) /\ PoolOnly
  \/ \E t \in Threads : SpuriousWakeup(t) /\ UNCHANGED <<poolVars, exited>>

Progress ==
  \/ Submit
  \/ PoolStep /\ PoolOnly
  \/ \E w \in Workers : TaskReturns(w)

Next ==
  /\ ~exited
  /\ Progress \/ SpuriousWake \/ MainReturns \/ ProcessExits \/ \E t \in Threads : TaskStep(t)

Spec == Init /\ [][Next]_vars

(* The two mutexes are handed to somebody who wants them, not to everybody *)
(* in turn; that is enough as long as the wake-ups without a reason come   *)
(* to an end.  Nothing makes the user press a key.                         *)
Fairness ==
  /\ WF_vars(~exited /\ Progress)
  /\ WF_vars(~exited /\ \E t \in Threads : TaskStep(t))
  /\ <>[][~SpuriousWake]_vars

FairSpec == Spec /\ Fairness

(* With a worker for a producer and one for a consumer the program ends by *)
(* itself: every task returns and everything is sold, unless the key was   *)
(* pressed and the process is gone.                                        *)
EverythingSold == <>(exited \/ (finished = Threads /\ Len(bought) = Products))
=============================================================================
