----------------------------- MODULE StackAlloc -----------------------------
(***************************************************************************)
(* StackAlloc<T, MemoryPool<T>> of src/MemoryPool: a linked stack whose    *)
(* nodes live in the slots of a memory pool.  A node's first word holds    *)
(* its data, the second one the pointer to the node below; the pool uses   *)
(* the first word of a slot that is free for its own list.  Every public   *)
(* operation is one action; the program has one thread.                    *)
(***************************************************************************)
EXTENDS MemoryPool, Sequences

ASSUME NodeAssumption == SlotSize >= 2

VARIABLES
  head_,
  returned,  \* what the last pop returned (history)
  slots      \* every slot the pool has ever handed out (history)

vars == <<mem, pool, head_, returned, slots>>

Init ==
  /\ PoolInit
  /\ head_ = nullptr
  /\ returned \in Content
  /\ slots = {}

(* The addresses one meets from start on, following the word at offset in  *)
(* the memory m, with n + 1 of them at most.                               *)
Path(m, n, start, offset) ==
  LET at[i \in Nat] ==
        IF i = 0 THEN start
        ELSE IF at[i - 1] \in Addresses THEN m[at[i - 1] + offset] ELSE nullptr
      met == {i \in 0..n : at[i] \in Addresses}
  IN  [i \in 1..Cardinality(met) |-> at[i - 1]]

Nodes == Path(mem, Cardinality(slots), head_, 1)
FreeList == Path(mem, Cardinality(slots), freeSlots_, 0)
Chain == Path(mem, Cardinality(slots), currBlock_, 0)
InSeq(s) == {s[i] : i \in 1..Len(s)}

-----------------------------------------------------------------------------
push(v) ==
  /\ \E p \in Addresses, base \in Bases \cup {nullptr} :
       /\ allocate(p, base)
       /\ mem' = [MemoryAfter(base) EXCEPT ![p] = v, ![p + 1] = head_]
       /\ head_' = p
       /\ slots' = slots \cup {p}
  /\ UNCHANGED returned

(* A bug: the data is read after the node has been given back. *)
popLate ==
  /\ head_ # nullptr
  /\ head_' = mem[head_ + 1]
  /\ mem' = [mem EXCEPT ![head_] = freeSlots_]
  /\ returned' = mem'[head_]
  /\ freeSlots_' = head_
  /\ UNCHANGED <<blocks, currBlock_, currSlot_, lastSlot_, slots>>

pop ==
  /\ head_ # nullptr
  /\ returned' = mem[head_]
  /\ head_' = mem[head_ + 1]
  /\ mem' = [mem EXCEPT ![head_] = freeSlots_]
  /\ freeSlots_' = head_
  /\ UNCHANGED <<blocks, currBlock_, currSlot_, lastSlot_, slots>>

(* A bug: the nodes are given back without being linked to one another. *)
clearTopOnly ==
  /\ head_' = nullptr
  /\ mem' = IF head_ = nullptr THEN mem ELSE [mem EXCEPT ![head_] = freeSlots_]
  /\ freeSlots_' = IF head_ = nullptr THEN freeSlots_ ELSE head_
  /\ UNCHANGED <<blocks, currBlock_, currSlot_, lastSlot_, returned, slots>>

(* The nodes are given back from the top to the bottom. *)
clear ==
  /\ mem' = [a \in Addresses |->
       IF a \in InSeq(Nodes)
       THEN LET i == CHOOSE k \in 1..Len(Nodes) : Nodes[k] = a
            IN  IF i = 1 THEN freeSlots_ ELSE Nodes[i - 1]
       ELSE mem[a]]
  /\ freeSlots_' = IF Nodes = <<>> THEN freeSlots_ ELSE Nodes[Len(Nodes)]
  /\ head_' = nullptr
  /\ UNCHANGED <<blocks, currBlock_, currSlot_, lastSlot_, returned, slots>>

(* The stack clears itself, the pool gives the blocks of its chain back    *)
(* and the next stack starts from nothing.                                 *)
destroy ==
  /\ blocks' = blocks \ InSeq(Chain)
  /\ mem' = [a \in Addresses |->
       IF \E b \in InSeq(Chain) : a \in Words(b) THEN Junk ELSE mem[a]]
  /\ head_' = nullptr /\ currBlock_' = nullptr /\ currSlot_' = nullptr
  /\ lastSlot_' = nullptr /\ freeSlots_' = nullptr
  /\ slots' = {}
  /\ UNCHANGED returned

Next == pop \/ clear \/ destroy \/ \E v \in Content : push(v)

Spec == Init /\ [][Next]_vars

-----------------------------------------------------------------------------
(* Every slot lies in a block that operator new has returned, behind the   *)
(* link, where its type may be aligned, and no two slots overlap, padding, *)
(* remainder and the test of currSlot_ against lastSlot_ notwithstanding.  *)
SlotsFit ==
  /\ \A p \in slots :
       /\ \E b \in blocks : b < p /\ p + SlotSize <= b + BlockSize
       /\ p % Align = 0
  /\ \A p, q \in slots : p # q => p + SlotSize <= q \/ q + SlotSize <= p

(* A slot the pool has handed out is a node of the stack or is in the free *)
(* list, not in both and not twice, although the free list writes into the *)
(* nodes it is made of.                                                    *)
EverySlotInOneList ==
  /\ InSeq(Nodes) \cup InSeq(FreeList) = slots
  /\ Len(Nodes) + Len(FreeList) = Cardinality(slots)

(* The destructor finds every block on its way along the chain, once, so   *)
(* no block outlives the pool and none is given back twice.                *)
EveryBlockInChain ==
  /\ InSeq(Chain) = blocks
  /\ Len(Chain) = Cardinality(blocks)

(* The stack returns what was pushed last, over a memory that is reused. *)
Abstract == INSTANCE Stack WITH
  Values <- Content, items <- [i \in 1..Len(Nodes) |-> mem[Nodes[i]]]
ImplementsStack == Abstract!Spec
=============================================================================
