----------------------------- MODULE MemoryPool -----------------------------
(***************************************************************************)
(* The allocator MemoryPool<T> of src/MemoryPool/MemoryPool.h, at the      *)
(* level of addresses.  The unit of address is the size of a pointer.      *)
(* Blocks come from operator new; their first word links them to a chain.  *)
(* Slots are cut off the current block one after the other; a slot that is *)
(* given back is linked to the free list through its own first word.       *)
(***************************************************************************)
EXTENDS Integers, FiniteSets

CONSTANTS
  SlotSize,   \* sizeof(slot_type_)
  Align,      \* alignof(slot_type_)
  BlockSize,  \* blockSize
  Bases,      \* the addresses operator new may return
  Content     \* what the owner of a slot may store in it

nullptr == 0
Junk == -1  \* what a word holds that nobody has written

(* A slot holds a pointer, sizes are multiples of alignments; operator new *)
(* returns pieces that do not overlap.  The last bound is static_assert's. *)
ASSUME LayoutAssumption ==
  /\ Align \in Nat \ {0} /\ SlotSize \in Nat \ {0} /\ SlotSize % Align = 0 /\ Align <= SlotSize
  /\ BlockSize \in Nat /\ BlockSize >= 2 * SlotSize
ASSUME BasesAssumption ==
  /\ Bases \subseteq Nat \ {0}
  /\ \A b, c \in Bases : b # c => b + BlockSize <= c \/ c + BlockSize <= b

VARIABLES
  mem,         \* the words of memory
  blocks,      \* the blocks that operator new has returned
  currBlock_, currSlot_, lastSlot_, freeSlots_

pool == <<blocks, currBlock_, currSlot_, lastSlot_, freeSlots_>>

Words(base) == base..(base + BlockSize - 1)
Addresses == UNION {Words(b) : b \in Bases}

PoolInit ==
  /\ mem = [a \in Addresses |-> Junk]
  /\ blocks = {}
  /\ currBlock_ = nullptr /\ currSlot_ = nullptr /\ lastSlot_ = nullptr
  /\ freeSlots_ = nullptr

-----------------------------------------------------------------------------
(* The first slot of a block: behind the link, where T may be aligned. *)
FirstSlot(base) == base + 1 + ((Align - (base + 1)) % Align)

(* A bug: the size of a slot is not subtracted. *)
LastSlotAtEnd(base) == base + BlockSize

(* The last address of a block at which a slot fits. *)
LastSlot(base) == base + BlockSize - SlotSize

(* A bug: the new block is not linked to the chain. *)
MemoryAfterUnlinked(base) ==
  IF base = nullptr THEN mem
  ELSE [a \in Addresses |-> IF a = base THEN nullptr ELSE mem[a]]

(* The memory after allocate, with base the block it has requested. *)
MemoryAfter(base) ==
  IF base = nullptr THEN mem
  ELSE [mem EXCEPT ![base] = currBlock_]

AllocateFree(p) ==
  /\ freeSlots_ # nullptr /\ p = freeSlots_
  /\ freeSlots_' = mem[freeSlots_]
  /\ UNCHANGED <<blocks, currBlock_, currSlot_, lastSlot_>>

AllocateNext(p) ==
  /\ freeSlots_ = nullptr /\ currSlot_ < lastSlot_ /\ p = currSlot_
  /\ currSlot_' = currSlot_ + SlotSize
  /\ UNCHANGED <<blocks, currBlock_, lastSlot_, freeSlots_>>

AllocateBlock(p, base) ==
  /\ freeSlots_ = nullptr /\ currSlot_ >= lastSlot_
  /\ base \in Bases \ blocks /\ p = FirstSlot(base)
  /\ blocks' = blocks \cup {base}
  /\ currBlock_' = base
  /\ currSlot_' = p + SlotSize
  /\ lastSlot_' = LastSlot(base)
  /\ UNCHANGED freeSlots_

(* allocate() returns p; base is the block it requests, nullptr if none.   *)
allocate(p, base) ==
  \/ base = nullptr /\ (AllocateFree(p) \/ AllocateNext(p))
  \/ AllocateBlock(p, base)
=============================================================================
