----------------------- MODULE ProducerConsumerProofs -----------------------
(***************************************************************************)
(* Proofs about the producer/consumer program for every number of threads, *)
(* products and places in the store.  The invariants are first proved of   *)
(* the two functions as free threads; the program on the pool implements   *)
(* those, so they hold of it as well.                                      *)
(***************************************************************************)
EXTENDS PooledProducerConsumer, SequenceTheorems, TLAPS

(* The inductive invariant: the three properties need nothing but one      *)
(* another and the types.                                                  *)
Shop == ShopTypeOK /\ SoldInOrder /\ NoLostWakeup /\ QuitWhenSoldOut

(* It holds when the functions start.                                      *)
LEMMA InitShop == ShopInit => Shop
<1> SUFFICES ASSUME ShopInit PROVE Shop
  OBVIOUS
<1>1. <<>> \in Seq(1..Products) /\ Len(<<>>) = 0
  BY EmptySeq
<1> USE DEF ShopInit
<1>2. ShopTypeOK
  BY <1>1, SizesAssumption DEF ShopTypeOK
<1>3. SoldInOrder
  BY <1>1, SizesAssumption DEF SoldInOrder
<1>4. NoLostWakeup /\ QuitWhenSoldOut
  BY ThreadsAssumption DEF NoLostWakeup, QuitWhenSoldOut, Threads
<1> QED BY <1>2, <1>3, <1>4 DEF Shop

-----------------------------------------------------------------------------
(* What Head and Tail of a sequence that is not empty are.                 *)
LEMMA FirstAndRest ==
  ASSUME NEW S, NEW s \in Seq(S), s # <<>>
  PROVE  /\ Len(s) \in Nat \ {0} /\ Head(s) = s[1] /\ Head(s) \in S
         /\ Tail(s) \in Seq(S) /\ Len(Tail(s)) = Len(s) - 1
         /\ \A i \in 1..Len(Tail(s)) : Tail(s)[i] = s[i + 1]
  BY HeadTailProperties, EmptySeq, LenProperties

(* The store after a product has been made.                                *)
LEMMA ProduceStore ==
  ASSUME ShopTypeOK, NEW p \in Producers, Produce(p)
  PROVE  /\ Len(Q) \in Nat /\ Q' \in Seq(1..Products) /\ Len(Q') = Len(Q) + 1
         /\ \A i \in 1..Len(Q) : Q'[i] = Q[i]
         /\ Q'[Len(Q) + 1] = MaxProduct
<1>1. Q \in Seq(1..Products) /\ MaxProduct \in 1..Products
  BY SizesAssumption DEF ShopTypeOK, Produce
<1> QED BY <1>1, AppendProperties, LenProperties DEF Produce

(* The store and what was bought after a product has been sold.            *)
LEMMA ConsumeStore ==
  ASSUME ShopTypeOK, NEW c \in Consumers, Consume(c)
  PROVE  /\ Len(Q) \in Nat \ {0} /\ Len(bought) \in Nat
         /\ Q' \in Seq(1..Products) /\ Len(Q') = Len(Q) - 1
         /\ \A i \in 1..Len(Q') : Q'[i] = Q[i + 1]
         /\ bought' \in Seq(1..Products) /\ Len(bought') = Len(bought) + 1
         /\ \A i \in 1..Len(bought) : bought'[i] = bought[i]
         /\ bought'[Len(bought) + 1] = Q[1]
<1>1. Q \in Seq(1..Products) /\ Q # <<>> /\ bought \in Seq(1..Products)
  BY DEF ShopTypeOK, Consume
<1>2. /\ Len(Q) \in Nat \ {0} /\ Head(Q) = Q[1] /\ Head(Q) \in 1..Products
      /\ Tail(Q) \in Seq(1..Products) /\ Len(Tail(Q)) = Len(Q) - 1
      /\ \A i \in 1..Len(Tail(Q)) : Tail(Q)[i] = Q[i + 1]
  BY <1>1, FirstAndRest
<1> QED BY <1>1, <1>2, AppendProperties, LenProperties DEF Consume

-----------------------------------------------------------------------------
(* A step keeps the types; the countdown does not go below zero.           *)
LEMMA NextTypes == ShopTypeOK /\ [ShopNext]_shopVars => ShopTypeOK'
<1> SUFFICES ASSUME ShopTypeOK, [ShopNext]_shopVars PROVE ShopTypeOK'
  OBVIOUS
<1>1. ASSUME NEW p \in Producers, Produce(p) PROVE ShopTypeOK'
  <2>1. MaxProduct' \in 0..Products
    BY <1>1, SizesAssumption DEF ShopTypeOK, Produce
  <2> QED BY <1>1, <2>1, ProduceStore DEF ShopTypeOK, Produce, Goto
<1>2. ASSUME NEW c \in Consumers, Consume(c) PROVE ShopTypeOK'
  BY <1>2, ConsumeStore DEF ShopTypeOK, Consume, Goto
<1>3. ASSUME NEW t \in Threads,
             ProducerWait(t) \/ ProducerQuit(t) \/ ProducerNotify(t) \/ ConsumerWait(t)
               \/ ConsumerQuit(t) \/ ConsumerNotify(t) \/ SpuriousWakeup(t)
      PROVE  ShopTypeOK'
  BY <1>3 DEF ShopTypeOK, ProducerWait, ProducerQuit, ProducerNotify, ConsumerWait,
    ConsumerQuit, ConsumerNotify, SpuriousWakeup, NotifyAll, Goto, shop
<1>4. CASE UNCHANGED shopVars
  BY <1>4 DEF ShopTypeOK, shopVars
<1> QED
  BY <1>1, <1>2, <1>3, <1>4 DEF ShopNext, Step, ProducerStep, ConsumerStep

(* The number of a product is what is left of the countdown, so the store  *)
(* and what was bought before it are one descending sequence.              *)
LEMMA NextSoldInOrder == ShopTypeOK /\ SoldInOrder /\ [ShopNext]_shopVars => SoldInOrder'
<1> SUFFICES ASSUME ShopTypeOK, SoldInOrder, [ShopNext]_shopVars PROVE SoldInOrder'
  OBVIOUS
<1>0. Len(Q) \in Nat /\ Len(bought) \in Nat /\ MaxProduct \in Nat
  BY SizesAssumption, LenProperties DEF ShopTypeOK
<1>1. ASSUME NEW p \in Producers, Produce(p) PROVE SoldInOrder'
  <2>0. /\ Len(Q') = Len(Q) + 1
        /\ \A i \in 1..Len(Q) : Q'[i] = Q[i]
        /\ Q'[Len(Q) + 1] = MaxProduct
    BY <1>1, ProduceStore
  <2>1. Len(Q) # BuffSize /\ MaxProduct' = MaxProduct - 1 /\ bought' = bought
    BY <1>1 DEF Produce
  <2>2. Len(Q') <= BuffSize /\ Len(bought') + Len(Q') = Products - MaxProduct'
    BY <1>0, <1>1, <2>1, ProduceStore, SizesAssumption DEF SoldInOrder
  <2>3. ASSUME NEW i \in 1..Len(Q') PROVE Q'[i] = MaxProduct' + Len(Q') + 1 - i
    <3>1. CASE i \in 1..Len(Q)
      <4>1. Q'[i] = MaxProduct + Len(Q) + 1 - i
        BY <2>0, <3>1 DEF SoldInOrder
      <4> QED BY <1>0, <2>0, <2>1, <3>1, <4>1
    <3>2. CASE i = Len(Q) + 1
      BY <1>0, <2>0, <2>1, <3>2
    <3> QED BY <1>0, <2>0, <3>1, <3>2
  <2> QED BY <2>1, <2>2, <2>3 DEF SoldInOrder
<1>2. ASSUME NEW c \in Consumers, Consume(c) PROVE SoldInOrder'
  <2>0. /\ Len(Q) > 0 /\ Len(Q') = Len(Q) - 1 /\ Len(bought') = Len(bought) + 1
        /\ \A i \in 1..Len(Q') : Q'[i] = Q[i + 1]
        /\ \A i \in 1..Len(bought) : bought'[i] = bought[i]
        /\ bought'[Len(bought) + 1] = Q[1]
    BY <1>2, ConsumeStore
  <2>1. MaxProduct' = MaxProduct
    BY <1>2 DEF Consume
  <2>2. Len(Q') <= BuffSize /\ Len(bought') + Len(Q') = Products - MaxProduct'
    <3>1. Len(Q) <= BuffSize /\ Len(bought) + Len(Q) = Products - MaxProduct
      BY DEF SoldInOrder
    <3>2. Len(Q') = Len(Q) - 1 /\ Len(bought') = Len(bought) + 1
      BY <2>0
    <3>3. BuffSize \in Nat /\ Products \in Nat
      BY SizesAssumption
    <3> QED BY <1>0, <2>1, <3>1, <3>2, <3>3
  <2>3. ASSUME NEW i \in 1..Len(Q') PROVE Q'[i] = MaxProduct' + Len(Q') + 1 - i
    <3>1. i + 1 \in 1..Len(Q) /\ Q'[i] = Q[i + 1]
      BY <1>0, <2>0
    <3>2. Q[i + 1] = MaxProduct + Len(Q) + 1 - (i + 1)
      BY <3>1 DEF SoldInOrder
    <3> QED BY <1>0, <2>0, <2>1, <3>1, <3>2
  <2>4. ASSUME NEW i \in 1..Len(bought') PROVE bought'[i] = Products + 1 - i
    <3>1. CASE i \in 1..Len(bought)
      BY <2>0, <3>1 DEF SoldInOrder
    <3>2. CASE i = Len(bought) + 1
      <4>1. bought'[i] = Q[1] /\ 1 \in 1..Len(Q)
        BY <1>0, <2>0, <3>2
      <4>2. Q[1] = MaxProduct + Len(Q) + 1 - 1
        BY <4>1 DEF SoldInOrder
      <4>3. Len(bought) + Len(Q) = Products - MaxProduct
        BY DEF SoldInOrder
      <4> QED BY <1>0, <3>2, <4>1, <4>2, <4>3, SizesAssumption
    <3> QED BY <1>0, <2>0, <3>1, <3>2
  <2> QED BY <2>2, <2>3, <2>4 DEF SoldInOrder
<1>3. CASE UNCHANGED shop
  BY <1>3 DEF SoldInOrder, shop
<1> QED
  BY <1>1, <1>2, <1>3 DEF ShopNext, Step, ProducerStep, ConsumerStep, ProducerWait,
    ProducerQuit, ProducerNotify, ConsumerWait, ConsumerQuit, ConsumerNotify,
    SpuriousWakeup, NotifyAll, shop, shopVars

-----------------------------------------------------------------------------
(* A thread goes to sleep only while its condition holds; whoever ends the *)
(* condition is about to notify; and a notification leaves nobody asleep.  *)
LEMMA NextNoLostWakeup == ShopTypeOK /\ NoLostWakeup /\ [ShopNext]_shopVars => NoLostWakeup'
<1> SUFFICES ASSUME ShopTypeOK, NoLostWakeup, [ShopNext]_shopVars PROVE NoLostWakeup'
  OBVIOUS
<1> USE ThreadsAssumption DEF Threads
<1>0. Len(Q) \in Nat /\ pc \in [Threads -> {"ready", "waiting", "notify", "done"}]
  BY LenProperties DEF ShopTypeOK
<1>1. ASSUME NEW p \in Producers, Produce(p) PROVE NoLostWakeup'
  <2>1. pc'[p] = "notify" /\ \A u \in Threads \ {p} : pc'[u] = pc[u]
    BY <1>0, <1>1 DEF Produce, Goto
  <2>2. Len(Q') = Len(Q) + 1
    BY <1>1, ProduceStore
  <2>3. pc[p] = "ready"
    BY <1>1 DEF Produce
  <2> QED BY <1>0, <2>1, <2>2, <2>3, SizesAssumption DEF NoLostWakeup
<1>2. ASSUME NEW c \in Consumers, Consume(c) PROVE NoLostWakeup'
  <2>1. pc'[c] = "notify" /\ \A u \in Threads \ {c} : pc'[u] = pc[u]
    BY <1>0, <1>2 DEF Consume, Goto
  <2>2. Q # <<>> /\ MaxProduct' = MaxProduct
    BY <1>2 DEF Consume
  <2> QED BY <1>0, <2>1, <2>2 DEF NoLostWakeup
<1>3. ASSUME NEW p \in Producers, ProducerNotify(p) PROVE NoLostWakeup'
  <2>1. \A c \in Consumers : pc'[c] # "waiting"
    BY <1>0, <1>3 DEF ProducerNotify, NotifyAll
  <2>2. \A u \in Threads : pc[u] = "notify" /\ u # p => pc'[u] = "notify"
    BY <1>0, <1>3 DEF ProducerNotify, NotifyAll
  <2>3. \A u \in Producers : pc'[u] = "waiting" => pc[u] = "waiting"
    BY <1>0, <1>3 DEF ProducerNotify, NotifyAll
  <2>4. UNCHANGED <<Q, MaxProduct>>
    BY <1>3 DEF ProducerNotify, NotifyAll, shop
  <2> QED BY <1>0, <2>1, <2>2, <2>3, <2>4 DEF NoLostWakeup
<1>4. ASSUME NEW c \in Consumers, ConsumerNotify(c) PROVE NoLostWakeup'
  <2>1. \A p \in Producers : pc'[p] # "waiting"
    BY <1>0, <1>4 DEF ConsumerNotify, NotifyAll
  <2>2. \A u \in Threads : pc[u] = "notify" /\ u # c => pc'[u] = "notify"
    BY <1>0, <1>4 DEF ConsumerNotify, NotifyAll
  <2>3. \A u \in Consumers : pc'[u] = "waiting" => pc[u] = "waiting"
    BY <1>0, <1>4 DEF ConsumerNotify, NotifyAll
  <2>4. UNCHANGED <<Q, MaxProduct>>
    BY <1>4 DEF ConsumerNotify, NotifyAll, shop
  <2> QED BY <1>0, <2>1, <2>2, <2>3, <2>4 DEF NoLostWakeup
<1>5. ASSUME NEW p \in Producers, ProducerWait(p) PROVE NoLostWakeup'
  <2>1. Len(Q') = BuffSize /\ Len(Q') = Len(Q) /\ UNCHANGED <<Q, MaxProduct>>
    BY <1>5 DEF ProducerWait, shop
  <2>2. pc[p] = "ready" /\ \A u \in Threads \ {p} : pc'[u] = pc[u]
    BY <1>0, <1>5 DEF ProducerWait, Goto
  <2> QED BY <1>0, <2>1, <2>2, SizesAssumption DEF NoLostWakeup
<1>6. ASSUME NEW c \in Consumers, ConsumerWait(c) PROVE NoLostWakeup'
  <2>1. Q' = <<>> /\ MaxProduct' # 0 /\ UNCHANGED <<Q, MaxProduct>>
    BY <1>6, SizesAssumption DEF ConsumerWait, shop, ShopTypeOK
  <2>2. pc[c] = "ready" /\ \A u \in Threads \ {c} : pc'[u] = pc[u]
    BY <1>0, <1>6 DEF ConsumerWait, Goto
  <2> QED BY <1>0, <2>1, <2>2 DEF NoLostWakeup
<1>7. ASSUME NEW t \in Threads,
             \/ t \in Producers /\ ProducerQuit(t)
             \/ t \in Consumers /\ ConsumerQuit(t)
             \/ SpuriousWakeup(t)
      PROVE  NoLostWakeup'
  <2>1. pc[t] # "notify" /\ pc'[t] \in {"ready", "done"}
    BY <1>0, <1>7 DEF ProducerQuit, ConsumerQuit, SpuriousWakeup, Goto
  <2>2. \A u \in Threads \ {t} : pc'[u] = pc[u]
    BY <1>0, <1>7 DEF ProducerQuit, ConsumerQuit, SpuriousWakeup, Goto
  <2>3. UNCHANGED <<Q, MaxProduct>>
    BY <1>7 DEF ProducerQuit, ConsumerQuit, SpuriousWakeup, shop
  <2> QED BY <1>0, <2>1, <2>2, <2>3 DEF NoLostWakeup
<1>8. CASE UNCHANGED shopVars
  BY <1>8 DEF NoLostWakeup, shopVars
<1> QED
  BY <1>1, <1>2, <1>3, <1>4, <1>5, <1>6, <1>7, <1>8
  DEF ShopNext, Step, ProducerStep, ConsumerStep

(* The countdown does not come back from zero, and when it is there and    *)
(* the store is empty everything has been bought.                          *)
LEMMA NextQuitWhenSoldOut ==
  ShopTypeOK /\ SoldInOrder /\ QuitWhenSoldOut /\ [ShopNext]_shopVars => QuitWhenSoldOut'
<1> SUFFICES ASSUME ShopTypeOK, SoldInOrder, QuitWhenSoldOut, [ShopNext]_shopVars
             PROVE  QuitWhenSoldOut'
  OBVIOUS
<1> USE ThreadsAssumption DEF Threads
<1>0. /\ Len(Q) \in Nat /\ Len(bought) \in Nat /\ MaxProduct \in Nat
      /\ pc \in [Threads -> {"ready", "waiting", "notify", "done"}]
  BY SizesAssumption, LenProperties DEF ShopTypeOK
<1>1. ASSUME NEW p \in Producers, Produce(p) PROVE QuitWhenSoldOut'
  <2>1. MaxProduct # 0 /\ bought' = bought
    BY <1>1 DEF Produce
  <2>2. \A u \in Threads : pc'[u] = "done" => pc[u] = "done"
    BY <1>0, <1>1 DEF Produce, Goto
  <2> QED BY <1>0, <2>1, <2>2 DEF QuitWhenSoldOut
<1>2. ASSUME NEW c \in Consumers, Consume(c) PROVE QuitWhenSoldOut'
  <2>1. Len(Q) > 0 /\ MaxProduct' = MaxProduct
    BY <1>2, ConsumeStore DEF Consume
  <2>2. Len(bought) # Products
    BY <1>0, <2>1, SizesAssumption DEF SoldInOrder
  <2>3. \A u \in Threads : pc'[u] = "done" => pc[u] = "done"
    BY <1>0, <1>2 DEF Consume, Goto
  <2> QED BY <1>0, <2>1, <2>2, <2>3 DEF QuitWhenSoldOut
<1>3. ASSUME NEW p \in Producers, ProducerQuit(p) PROVE QuitWhenSoldOut'
  <2>1. MaxProduct' = 0 /\ bought' = bought
    BY <1>3 DEF ProducerQuit, shop
  <2>2. \A u \in Consumers : pc'[u] = pc[u]
    BY <1>0, <1>3 DEF ProducerQuit, Goto
  <2> QED BY <2>1, <2>2 DEF QuitWhenSoldOut
<1>4. ASSUME NEW c \in Consumers, ConsumerQuit(c) PROVE QuitWhenSoldOut'
  <2>1. Len(Q) = 0 /\ MaxProduct = 0 /\ bought' = bought /\ MaxProduct' = MaxProduct
    BY <1>4, EmptySeq DEF ConsumerQuit, shop
  <2>2. Len(bought) = Products
    BY <1>0, <2>1, SizesAssumption DEF SoldInOrder
  <2> QED BY <2>1, <2>2 DEF QuitWhenSoldOut
<1>5. ASSUME NEW t \in Threads,
             ProducerWait(t) \/ ProducerNotify(t) \/ ConsumerWait(t) \/ ConsumerNotify(t)
               \/ SpuriousWakeup(t)
      PROVE  QuitWhenSoldOut'
  <2>1. \A u \in Threads : pc'[u] = "done" => pc[u] = "done"
    BY <1>0, <1>5 DEF ProducerWait, ProducerNotify, ConsumerWait, ConsumerNotify,
      SpuriousWakeup, NotifyAll, Goto
  <2>2. UNCHANGED <<MaxProduct, bought>>
    BY <1>5 DEF ProducerWait, ProducerNotify, ConsumerWait, ConsumerNotify,
      SpuriousWakeup, NotifyAll, shop
  <2> QED BY <2>1, <2>2 DEF QuitWhenSoldOut
<1>6. CASE UNCHANGED shopVars
  BY <1>6 DEF QuitWhenSoldOut, shopVars
<1> QED
  BY <1>1, <1>2, <1>3, <1>4, <1>5, <1>6
  DEF ShopNext, Step, ProducerStep, ConsumerStep

(* The four parts together are inductive.                                  *)
LEMMA NextShop == Shop /\ [ShopNext]_shopVars => Shop'
  BY NextTypes, NextSoldInOrder, NextNoLostWakeup, NextQuitWhenSoldOut DEF Shop

-----------------------------------------------------------------------------
(* The program on the pool takes no step its functions could not take on   *)
(* threads of their own.                                                   *)
THEOREM PoolRunsShop == Spec => ShopSpec
<1>1. Init => ShopInit
  BY DEF Init
<1>2. [Next]_vars => [ShopNext]_shopVars
  <2>1. ASSUME NEW t \in Threads, TaskStep(t) PROVE ShopNext
    BY <2>1 DEF TaskStep, ShopNext
  <2>2. CASE SpuriousWake
    BY <2>2 DEF SpuriousWake, ShopNext, PoolOnly
  <2>3. CASE Progress \/ MainReturns \/ ProcessExits
    BY <2>3 DEF Progress, Submit, TaskReturns, MainReturns, ProcessExits, PoolOnly
  <2>4. CASE UNCHANGED vars
    BY <2>4 DEF vars
  <2> QED BY <2>1, <2>2, <2>3, <2>4 DEF Next
<1> QED BY <1>1, <1>2, PTL DEF Spec, ShopSpec

(* All of it holds in every state of the program.                          *)
THEOREM ShopInvariant == Spec => []Shop
<1>1. ShopSpec => []Shop
  BY InitShop, NextShop, PTL DEF ShopSpec
<1> QED BY <1>1, PoolRunsShop, PTL

(* The numbers of products stay numbers of products, for every number of   *)
(* producers, consumers, workers and places in the store.                  *)
THEOREM ShopTypesHold == Spec => []ShopTypeOK
<1>1. Shop => ShopTypeOK
  BY DEF Shop
<1> QED BY <1>1, ShopInvariant, PTL

(* Every product is sold once, in the order in which it was made.          *)
THEOREM SalesInOrder == Spec => []SoldInOrder
<1>1. Shop => SoldInOrder
  BY DEF Shop
<1> QED BY <1>1, ShopInvariant, PTL

(* Nobody sleeps through the end of his condition, although notify_all     *)
(* comes after the unlock.                                                 *)
THEOREM WakeupsArrive == Spec => []NoLostWakeup
<1>1. Shop => NoLostWakeup
  BY DEF Shop
<1> QED BY <1>1, ShopInvariant, PTL

(* Nobody goes home before everything is made, or bought.                  *)
THEOREM QuitInTime == Spec => []QuitWhenSoldOut
<1>1. Shop => QuitWhenSoldOut
  BY DEF Shop
<1> QED BY <1>1, ShopInvariant, PTL
=============================================================================
