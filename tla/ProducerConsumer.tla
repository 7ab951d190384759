-------------------------- MODULE ProducerConsumer --------------------------
(***************************************************************************)
(* The producer and consumer functions of src/Thread/producer_consumer.cpp *)
(* as threads of their own: a bounded queue of product numbers, a global   *)
(* countdown of products still to be made, one mutex and two condition     *)
(* variables.  A section that holds the mutex is one action; notify_all    *)
(* comes after the unlock and is another.                                  *)
(***************************************************************************)
EXTENDS Integers, Sequences, FiniteSets

CONSTANTS
  Producers, Consumers,
  BuffSize,   \* buff_size
  Products    \* what MaxProduct starts from

Threads == Producers \cup Consumers

ASSUME ThreadsAssumption == Producers \cap Consumers = {}
ASSUME SizesAssumption == BuffSize \in Nat \ {0} /\ Products \in Nat

VARIABLES
  Q,           \* the products in the store
  MaxProduct,  \* the number of the next product; 0 when all are made
  pc,          \* "ready" (competes for the mutex), "waiting", "notify", "done"
  bought       \* the products in the order they were bought (history)

shop == <<Q, MaxProduct, bought>>
shopVars == <<Q, MaxProduct, pc, bought>>

ShopInit ==
  /\ Q = <<>>
  /\ MaxProduct = Products
  /\ pc = [t \in Threads |-> "ready"]
  /\ bought = <<>>

Goto(t, s) == pc' = [pc EXCEPT ![t] = s]

(* t calls notify_all on the condition variable the threads of S wait on,  *)
(* and goes back to the top of its loop.                                   *)
NotifyAll(t, S) ==
  /\ pc[t] = "notify"
  /\ pc' = [u \in Threads |->
              IF u = t \/ (u \in S /\ pc[u] = "waiting") THEN "ready" ELSE pc[u]]
  /\ UNCHANGED shop

-----------------------------------------------------------------------------
ProducerWait(p) ==
  /\ pc[p] = "ready" /\ Len(Q) = BuffSize
  /\ Goto(p, "waiting")
  /\ UNCHANGED shop

ProducerQuit(p) ==
  /\ pc[p] = "ready" /\ Len(Q) # BuffSize /\ MaxProduct = 0
  /\ Goto(p, "done")
  /\ UNCHANGED shop

(* A bug: the queue is looked at once (if instead of while) before it grows. *)
ProduceUnchecked(p) ==
  /\ pc[p] = "ready" /\ MaxProduct # 0
  /\ Q' = Append(Q, MaxProduct)
  /\ MaxProduct' = MaxProduct - 1
  /\ Goto(p, "notify")
  /\ UNCHANGED bought

(* A bug: the countdown is decremented before the product gets its number. *)
ProduceOffByOne(p) ==
  /\ pc[p] = "ready" /\ Len(Q) # BuffSize /\ MaxProduct # 0
  /\ MaxProduct' = MaxProduct - 1
  /\ Q' = Append(Q, MaxProduct')
  /\ Goto(p, "notify")
  /\ UNCHANGED bought

Produce(p) ==
  /\ pc[p] = "ready" /\ Len(Q) # BuffSize /\ MaxProduct # 0
  /\ Q' = Append(Q, MaxProduct)
  /\ MaxProduct' = MaxProduct - 1
  /\ Goto(p, "notify")
  /\ UNCHANGED bought

(* A bug: the producer notifies the producers' condition variable. *)
ProducerNotifiesProducers(p) == NotifyAll(p, Producers)

ProducerNotify(p) == NotifyAll(p, Consumers)

-----------------------------------------------------------------------------
ConsumerWait(c) ==
  /\ pc[c] = "ready" /\ Q = <<>> /\ MaxProduct > 0
  /\ Goto(c, "waiting")
  /\ UNCHANGED shop

(* A bug: a consumer leaves as soon as no more products are being made. *)
ConsumerQuitEarly(c) ==
  /\ pc[c] = "ready" /\ MaxProduct = 0
  /\ Goto(c, "done")
  /\ UNCHANGED shop

ConsumerQuit(c) ==
  /\ pc[c] = "ready" /\ Q = <<>> /\ MaxProduct = 0
  /\ Goto(c, "done")
  /\ UNCHANGED shop

Consume(c) ==
  /\ pc[c] = "ready" /\ Q # <<>>
  /\ bought' = Append(bought, Head(Q))
  /\ Q' = Tail(Q)
  /\ Goto(c, "notify")
  /\ UNCHANGED MaxProduct

(* A bug: the consumer leaves out the notification. *)
ConsumerForgetsToNotify(c) ==
  /\ pc[c] = "notify"
  /\ Goto(c, "ready")
  /\ UNCHANGED shop

ConsumerNotify(c) == NotifyAll(c, Producers)

SpuriousWakeup(t) ==
  /\ pc[t] = "waiting"
  /\ Goto(t, "ready")
  /\ UNCHANGED shop

-----------------------------------------------------------------------------
ProducerStep(p) == ProducerWait(p) \/ ProducerQuit(p) \/ Produce(p) \/ ProducerNotify(p)
ConsumerStep(c) == ConsumerWait(c) \/ ConsumerQuit(c) \/ Consume(c) \/ ConsumerNotify(c)

(* What thread t does next, other than waking up for no reason. *)
Step(t) == (t \in Producers /\ ProducerStep(t)) \/ (t \in Consumers /\ ConsumerStep(t))

ShopNext == \E t \in Threads : Step(t) \/ SpuriousWakeup(t)

ShopSpec == ShopInit /\ [][ShopNext]_shopVars

-----------------------------------------------------------------------------
(* Every variable holds a value of its type. *)
ShopTypeOK ==
  /\ Q \in Seq(1..Products)
  /\ MaxProduct \in 0..Products
  /\ pc \in [Threads -> {"ready", "waiting", "notify", "done"}]
  /\ bought \in Seq(1..Products)

(* The products are sold in the order in which they were made, none twice  *)
(* and none lost, and the store never holds more than buff_size of them.   *)
SoldInOrder ==
  /\ Len(Q) <= BuffSize
  /\ Len(bought) + Len(Q) = Products - MaxProduct
  /\ \A i \in 1..Len(bought) : bought[i] = Products + 1 - i
  /\ \A i \in 1..Len(Q) : Q[i] = MaxProduct + Len(Q) + 1 - i

(* The notifications come after the unlock: a thread that sleeps although  *)
(* its condition no longer holds has somebody about to wake it.            *)
NoLostWakeup ==
  /\ (\E c \in Consumers : pc[c] = "waiting") /\ (Q # <<>> \/ MaxProduct = 0)
       => \E p \in Producers : pc[p] = "notify"
  /\ (\E p \in Producers : pc[p] = "waiting") /\ Len(Q) < BuffSize
       => \E c \in Consumers : pc[c] = "notify"

(* Nobody goes home early: a producer leaves when every product is made, a *)
(* consumer when every one of them is bought as well.                      *)
QuitWhenSoldOut ==
  /\ (\E p \in Producers : pc[p] = "done") => MaxProduct = 0
  /\ (\E c \in Consumers : pc[c] = "done") => Len(bought) = Products
=============================================================================
