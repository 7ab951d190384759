-------------------------- MODULE StackAllocProofs --------------------------
(***************************************************************************)
(* The stack on the memory pool is a stack, for every size and alignment   *)
(* of a slot, every size of a block and wherever the blocks lie.           *)
(***************************************************************************)
EXTENDS StackAlloc, FiniteSetTheorems, WellFoundedInduction, TLAPS

Distinct(s) == \A i, j \in 1..Len(s) : s[i] = s[j] => i = j

(* The word at offset off of a node.                                       *)
Field(m, a, off) == m[a + off]

(* s is the list that begins at start, its links at offset off.            *)
Linked(m, s, start, off) ==
  /\ s \in Seq(Addresses)
  /\ start = IF Len(s) = 0 THEN nullptr ELSE s[1]
  /\ \A i \in 1..Len(s) : Field(m, s[i], off) = IF i < Len(s) THEN s[i + 1] ELSE nullptr

Types ==
  /\ mem = [a \in Addresses |-> mem[a]]
  /\ blocks \subseteq Bases /\ IsFiniteSet(blocks)
  /\ slots \subseteq Addresses /\ IsFiniteSet(slots)
  /\ Cardinality(blocks) <= Cardinality(slots)

(* The three lists have an end, and no slot is met twice.                  *)
Lists ==
  /\ Linked(mem, Nodes, head_, 1)
  /\ Linked(mem, FreeList, freeSlots_, 0)
  /\ Linked(mem, Chain, currBlock_, 0)
  /\ Distinct(Nodes) /\ Distinct(FreeList)
  /\ InSeq(Nodes) \cap InSeq(FreeList) = {}

(* Behind currSlot_ the current block has not been cut yet.                *)
Uncut ==
  IF currBlock_ = nullptr THEN currSlot_ = nullptr /\ lastSlot_ = nullptr
  ELSE /\ currSlot_ \in Nat /\ currBlock_ < currSlot_ /\ currSlot_ % Align = 0
       /\ lastSlot_ = LastSlot(currBlock_)
       /\ \A p \in slots : p \in Words(currBlock_) => p + SlotSize <= currSlot_

IInv == Types /\ Lists /\ Uncut /\ SlotsFit /\ EverySlotInOneList /\ EveryBlockInChain

-----------------------------------------------------------------------------
(* Induction, over a set of numbers.                                       *)
LEMMA SetInduction ==
  ASSUME NEW S \in SUBSET Nat, 0 \in S, \A n \in S : n + 1 \in S
  PROVE  \A n \in Nat : n \in S
<1> DEFINE R == OpToRel(<, Nat)
           T == Nat \ S
<1>1. IsWellFoundedOn(R, Nat)
  BY NatLessThanWellFounded
<1>2. \A i, j \in Nat : i < j => <<i, j>> \in R
  BY DEF OpToRel
<1> HIDE DEF R
<1>3. ASSUME T # {} PROVE FALSE
  <2>1. T \in SUBSET Nat
    OBVIOUS
  <2> HIDE DEF T
  <2>2. PICK n \in T : \A m \in T : ~ (<<m, n>> \in R)
    BY <1>1, <1>3, <2>1, WFMin
  <2> USE DEF T
  <2>3. n # 0 /\ n \in Nat /\ n \notin S
    OBVIOUS
  <2>4. n - 1 \in Nat /\ n - 1 < n /\ (n - 1) + 1 = n
    BY <2>3
  <2>5. n - 1 \in S
    BY <1>2, <2>2, <2>3, <2>4
  <2> QED BY <2>3, <2>4, <2>5
<1> QED BY <1>3

(* A sequence is a function on its indices.                                *)
LEMMA IsSequence ==
  ASSUME NEW S, NEW n \in Nat, NEW f, f \in [1..n -> S]
  PROVE  f \in Seq(S) /\ Len(f) = n
OBVIOUS

(* The null pointer is no address.                                         *)
LEMMA NullIsNoAddress ==
  /\ nullptr \notin Addresses
  /\ Addresses \subseteq Nat
BY BasesAssumption, LayoutAssumption DEF Addresses, Words, nullptr

LEMMA FirstWord ==
  ASSUME NEW m, NEW a \in Addresses
  PROVE  Field(m, a, 0) = m[a]
<1>1. a \in Nat
  BY NullIsNoAddress
<1>2. a + 0 = a
  BY <1>1
<1> QED BY <1>2 DEF Field

(* A list that is no longer than the search is found.                      *)
LEMMA PathIsList ==
  ASSUME NEW m, NEW n \in Nat, NEW s, NEW start, NEW off \in Nat,
         Linked(m, s, start, off), Len(s) <= n + 1
  PROVE  Path(m, n, start, off) = s
<1> DEFINE N == Len(s)
           P(at) == at = [i \in Nat |->
                      IF i = 0 THEN start
                      ELSE IF at[i - 1] \in Addresses THEN m[at[i - 1] + off] ELSE nullptr]
           walk == [i \in Nat |-> IF i < N THEN s[i + 1] ELSE nullptr]
           found == CHOOSE at : P(at)
           met == {i \in 0..n : found[i] \in Addresses}
<1>1. N \in Nat /\ \A i \in 1..N : s[i] \in Addresses
  BY DEF Linked
<1>2. /\ start = IF N = 0 THEN nullptr ELSE s[1]
      /\ \A i \in 1..N : m[s[i] + off] = IF i < N THEN s[i + 1] ELSE nullptr
  BY DEF Linked, Field
<1>3. s = [i \in 1..N |-> s[i]]
  BY DEF Linked
<1>4. Path(m, n, start, off) = [i \in 1..Cardinality(met) |-> found[i - 1]]
  BY DEF Path
<1> HIDE DEF N
<1>5. P(walk)
  <2>1. ASSUME NEW i \in Nat
        PROVE  walk[i] = IF i = 0 THEN start
                         ELSE IF walk[i - 1] \in Addresses THEN m[walk[i - 1] + off] ELSE nullptr
    <3>1. CASE i = 0
      BY <1>1, <1>2, <3>1
    <3>2. CASE i > 0 /\ i <= N
      <4>1. i \in 1..N /\ i - 1 \in Nat /\ (i - 1) + 1 = i /\ i - 1 < N
        BY <1>1, <3>2
      <4>2. walk[i - 1] = s[i]
        BY <4>1
      <4>3. walk[i] = m[s[i] + off]
        BY <1>2, <4>1
      <4> QED BY <1>1, <3>2, <4>1, <4>2, <4>3
    <3>3. CASE i > N
      <4>1. i - 1 \in Nat /\ ~ (i - 1 < N) /\ ~ (i < N) /\ i # 0
        BY <1>1, <3>3
      <4> QED BY <4>1, NullIsNoAddress
    <3> QED BY <1>1, <3>1, <3>2, <3>3
  <2> QED BY <2>1
<1>6. P(found)
  BY <1>5
<1>7. \A i \in Nat : found[i] = walk[i]
  <2> DEFINE S == {i \in Nat : found[i] = walk[i]}
  <2> HIDE DEF walk, found
  <2>1. 0 \in S
    BY <1>5, <1>6
  <2>2. ASSUME NEW i \in S PROVE i + 1 \in S
    <3>1. i \in Nat /\ i + 1 \in Nat /\ i + 1 # 0 /\ (i + 1) - 1 = i /\ found[i] = walk[i]
      OBVIOUS
    <3>2. found[i + 1] = IF found[i] \in Addresses THEN m[found[i] + off] ELSE nullptr
      BY <1>6, <3>1
    <3>3. walk[i + 1] = IF walk[i] \in Addresses THEN m[walk[i] + off] ELSE nullptr
      BY <1>5, <3>1
    <3> QED BY <3>1, <3>2, <3>3
  <2> HIDE DEF S
  <2>3. \A i \in Nat : i \in S
    BY <2>1, <2>2, SetInduction, S \in SUBSET Nat DEF S
  <2> QED BY <2>3 DEF S
<1> HIDE DEF found
<1>8. met = 0..(N - 1)
  <2>1. ASSUME NEW i \in 0..n PROVE found[i] \in Addresses <=> i \in 0..(N - 1)
    <3>1. found[i] = IF i < N THEN s[i + 1] ELSE nullptr
      BY <1>7
    <3>2. i < N => i + 1 \in 1..N
      BY <1>1
    <3> QED BY <1>1, <3>1, <3>2, NullIsNoAddress
  <2>2. 0..(N - 1) \subseteq 0..n
    BY <1>1 DEF N
  <2> QED BY <2>1, <2>2
<1> HIDE DEF met
<1>9. Cardinality(met) = N
  <2>1. Cardinality(0..(N - 1)) = IF 0 > N - 1 THEN 0 ELSE (N - 1) - 0 + 1
    <3>1. 0 \in Int /\ N - 1 \in Int
      BY <1>1
    <3> QED BY ONLY <3>1, FS_Interval
  <2>2. Cardinality(met) = IF 0 > N - 1 THEN 0 ELSE (N - 1) - 0 + 1
    BY <1>8, <2>1
  <2>3. (IF 0 > N - 1 THEN 0 ELSE (N - 1) - 0 + 1) = N
    BY <1>1
  <2> QED BY <2>2, <2>3
<1>10. ASSUME NEW i \in 1..N PROVE found[i - 1] = s[i]
  <2>1. i - 1 \in Nat /\ i - 1 < N /\ (i - 1) + 1 = i
    BY <1>1
  <2> QED BY <1>7, <2>1
<1> QED BY <1>3, <1>4, <1>9, <1>10
-----------------------------------------------------------------------------
(* What the operations make of a list.                                     *)
OnTop(p, s) == [i \in 1..(Len(s) + 1) |-> IF i = 1 THEN p ELSE s[i - 1]]
Rest(s) == [i \in 1..(Len(s) - 1) |-> s[i + 1]]
TurnedOnto(s, t) ==
  [i \in 1..(Len(s) + Len(t)) |-> IF i <= Len(s) THEN s[Len(s) + 1 - i] ELSE t[i - Len(s)]]

(* A write that meets no link leaves the list alone.                       *)
LEMMA LinksKept ==
  ASSUME NEW m, NEW m2, NEW s, NEW start, NEW off, Linked(m, s, start, off),
         \A i \in 1..Len(s) : Field(m2, s[i], off) = Field(m, s[i], off)
  PROVE  Linked(m2, s, start, off)
BY DEF Linked

LEMMA EmptyList ==
  ASSUME NEW m, NEW off
  PROVE  Linked(m, <<>>, nullptr, off) /\ Distinct(<<>>) /\ InSeq(<<>>) = {} /\ Len(<<>>) = 0
BY DEF Linked, Distinct, InSeq

LEMMA LinkedOnTop ==
  ASSUME NEW m, NEW m2, NEW s, NEW start, NEW off, NEW p \in Addresses,
         Linked(m, s, start, off), Field(m2, p, off) = start,
         \A i \in 1..Len(s) : Field(m2, s[i], off) = Field(m, s[i], off)
  PROVE  /\ Linked(m2, OnTop(p, s), p, off)
         /\ Len(OnTop(p, s)) = Len(s) + 1
         /\ InSeq(OnTop(p, s)) = InSeq(s) \cup {p}
         /\ Distinct(s) /\ p \notin InSeq(s) => Distinct(OnTop(p, s))
<1> DEFINE N == Len(s)
           t == OnTop(p, s)
<1>1. N \in Nat /\ \A i \in 1..N : s[i] \in Addresses
  BY DEF Linked
<1>2. \A i \in 1..N : Field(m2, s[i], off) = IF i < N THEN s[i + 1] ELSE nullptr
  BY DEF Linked
<1>3. start = IF N = 0 THEN nullptr ELSE s[1]
  BY DEF Linked
<1>4. t = [i \in 1..(N + 1) |-> IF i = 1 THEN p ELSE s[i - 1]]
  BY DEF OnTop
<1> HIDE DEF N, t
<1>5. \A i \in 1..(N + 1) : i = 1 \/ (i - 1 \in 1..N /\ i # 1 /\ t[i] = s[i - 1])
  BY <1>1, <1>4
<1>6. t[1] = p /\ 1 \in 1..(N + 1)
  BY <1>1, <1>4
<1>7. t \in [1..(N + 1) -> Addresses]
  BY <1>1, <1>4, <1>5, <1>6
<1>8. t \in Seq(Addresses) /\ Len(t) = N + 1
  BY <1>1, <1>7, IsSequence
<1>9. \A i \in 1..N : i + 1 \in 1..(N + 1) /\ i + 1 # 1 /\ t[i + 1] = s[i]
  BY <1>1, <1>4
<1>10. Linked(m2, t, p, off)
  <2>1. ASSUME NEW i \in 1..(N + 1)
        PROVE  Field(m2, t[i], off) = IF i < N + 1 THEN t[i + 1] ELSE nullptr
    <3>1. CASE i = 1
      <4>1. Field(m2, t[i], off) = start
        BY <1>6, <3>1
      <4>2. CASE N = 0
        BY <1>3, <3>1, <4>1, <4>2
      <4>3. CASE N # 0
        <5>1. 1 \in 1..N /\ 1 < N + 1
          BY <1>1, <4>3
        <5>2. t[2] = s[1]
          BY <1>9, <5>1
        <5> QED BY <1>3, <3>1, <4>1, <4>3, <5>1, <5>2
      <4> QED BY <4>2, <4>3
    <3>2. CASE i # 1
      <4>1. i - 1 \in 1..N /\ t[i] = s[i - 1] /\ (i - 1) + 1 = i
        BY <1>5, <3>2
      <4>2. Field(m2, s[i - 1], off) = IF i - 1 < N THEN s[(i - 1) + 1] ELSE nullptr
        BY <1>2, <4>1
      <4>3. i - 1 < N <=> i < N + 1
        BY <1>1, <4>1
      <4>4. i < N + 1 => t[i + 1] = s[i]
        <5>1. i < N + 1 => i \in 1..N
          BY <1>1
        <5> QED BY <1>9, <5>1
      <4> QED BY <4>1, <4>2, <4>3, <4>4
    <3> QED BY <3>1, <3>2
  <2>2. p = IF Len(t) = 0 THEN nullptr ELSE t[1]
    BY <1>1, <1>6, <1>8
  <2> QED BY <1>8, <2>1, <2>2 DEF Linked
<1>11. InSeq(t) = InSeq(s) \cup {p}
  <2>1. InSeq(t) = {t[i] : i \in 1..(N + 1)} /\ InSeq(s) = {s[i] : i \in 1..N}
    BY <1>8 DEF InSeq, N
  <2>2. {t[i] : i \in 1..(N + 1)} \subseteq {s[i] : i \in 1..N} \cup {p}
    BY <1>5, <1>6
  <2>3. {s[i] : i \in 1..N} \cup {p} \subseteq {t[i] : i \in 1..(N + 1)}
    BY <1>6, <1>9
  <2> QED BY <2>1, <2>2, <2>3
<1>12. ASSUME Distinct(s), p \notin InSeq(s) PROVE Distinct(t)
  <2>1. \A i, j \in 1..N : s[i] = s[j] => i = j
    BY <1>12 DEF Distinct, N
  <2>2. \A i \in 1..N : s[i] # p
    BY <1>12 DEF InSeq, N
  <2>3. ASSUME NEW i \in 1..(N + 1), NEW j \in 1..(N + 1), t[i] = t[j] PROVE i = j
    <3>1. i = 1 \/ (i - 1 \in 1..N /\ t[i] = s[i - 1])
      BY <1>5
    <3>2. j = 1 \/ (j - 1 \in 1..N /\ t[j] = s[j - 1])
      BY <1>5
    <3>3. CASE i = 1 \/ j = 1
      BY <1>6, <2>2, <2>3, <3>1, <3>2, <3>3
    <3>4. CASE i # 1 /\ j # 1
      <4>1. i - 1 = j - 1
        BY <2>1, <2>3, <3>1, <3>2, <3>4
      <4> QED BY <4>1
    <3> QED BY <3>3, <3>4
  <2> QED BY <1>8, <2>3 DEF Distinct
<1> QED BY <1>8, <1>10, <1>11, <1>12 DEF N, t

LEMMA LinkedRest ==
  ASSUME NEW m, NEW m2, NEW s, NEW start, NEW off,
         Linked(m, s, start, off), start # nullptr, Distinct(s),
         \A i \in 1..Len(s) : s[i] # start => Field(m2, s[i], off) = Field(m, s[i], off)
  PROVE  /\ start \in InSeq(s) /\ start \in Addresses
         /\ Linked(m2, Rest(s), Field(m, start, off), off)
         /\ Len(Rest(s)) = Len(s) - 1
         /\ InSeq(Rest(s)) = InSeq(s) \ {start}
         /\ Distinct(Rest(s))
<1> DEFINE N == Len(s)
           t == Rest(s)
<1>1. N \in Nat /\ \A i \in 1..N : s[i] \in Addresses
  BY DEF Linked
<1>2. \A i \in 1..N : Field(m, s[i], off) = IF i < N THEN s[i + 1] ELSE nullptr
  BY DEF Linked
<1>3. N # 0 /\ start = s[1] /\ 1 \in 1..N
  BY <1>1 DEF Linked
<1>4. t = [i \in 1..(N - 1) |-> s[i + 1]] /\ N - 1 \in Nat
  BY <1>1, <1>3 DEF Rest
<1>5. \A i, j \in 1..N : s[i] = s[j] => i = j
  BY DEF Distinct
<1>6. InSeq(s) = {s[i] : i \in 1..N}
  BY DEF InSeq
<1>7. \A i \in 1..N : s[i] # start => Field(m2, s[i], off) = Field(m, s[i], off)
  OBVIOUS
<1> HIDE DEF N, t
<1>8. \A i \in 1..(N - 1) : i + 1 \in 1..N /\ i + 1 # 1 /\ t[i] = s[i + 1]
  BY <1>1, <1>4
<1>9. t \in [1..(N - 1) -> Addresses]
  BY <1>1, <1>4, <1>8
<1>10. t \in Seq(Addresses) /\ Len(t) = N - 1
  BY <1>4, <1>9, IsSequence
<1>11. Linked(m2, t, Field(m, start, off), off)
  <2>1. Field(m, start, off) = IF 1 < N THEN s[2] ELSE nullptr
    BY <1>2, <1>3
  <2>2. Field(m, start, off) = IF Len(t) = 0 THEN nullptr ELSE t[1]
    <3>1. CASE N = 1
      BY <1>10, <2>1, <3>1
    <3>2. CASE N # 1
      <4>1. 1 \in 1..(N - 1) /\ 1 < N /\ N - 1 # 0
        BY <1>1, <1>3, <3>2
      <4>2. t[1] = s[2]
        BY <1>8, <4>1
      <4> QED BY <1>10, <2>1, <4>1, <4>2
    <3> QED BY <3>1, <3>2
  <2>3. ASSUME NEW i \in 1..(N - 1)
        PROVE  Field(m2, t[i], off) = IF i < N - 1 THEN t[i + 1] ELSE nullptr
    <3>1. i + 1 \in 1..N /\ i + 1 # 1 /\ t[i] = s[i + 1]
      BY <1>8
    <3>2. s[i + 1] # start
      BY <1>3, <1>5, <3>1
    <3>3. Field(m2, s[i + 1], off) = Field(m, s[i + 1], off)
      BY <1>7, <3>1, <3>2
    <3>4. Field(m, s[i + 1], off) = IF i + 1 < N THEN s[(i + 1) + 1] ELSE nullptr
      BY <1>2, <3>1
    <3>5. i + 1 < N <=> i < N - 1
      BY <1>1
    <3>6. i < N - 1 => t[i + 1] = s[(i + 1) + 1]
      <4>1. i < N - 1 => i + 1 \in 1..(N - 1)
        BY <1>1
      <4> QED BY <1>8, <4>1
    <3> QED BY <3>1, <3>3, <3>4, <3>5, <3>6
  <2> QED BY <1>10, <2>2, <2>3 DEF Linked
<1>12. InSeq(t) = InSeq(s) \ {start}
  <2>1. InSeq(t) = {t[i] : i \in 1..(N - 1)}
    BY <1>10 DEF InSeq
  <2>2. ASSUME NEW a \in InSeq(s), a # start PROVE a \in InSeq(t)
    <3>1. PICK i \in 1..N : a = s[i]
      BY <1>6
    <3>2. i - 1 \in 1..(N - 1) /\ (i - 1) + 1 = i
      BY <1>1, <1>3, <2>2, <3>1
    <3>3. t[i - 1] = s[i]
      BY <1>8, <3>2
    <3> QED BY <2>1, <3>1, <3>2, <3>3
  <2>3. ASSUME NEW i \in 1..(N - 1) PROVE t[i] \in InSeq(s) /\ t[i] # start
    BY <1>3, <1>5, <1>6, <1>8
  <2> QED BY <2>1, <2>2, <2>3
<1>13. Distinct(t)
  <2>1. ASSUME NEW i \in 1..(N - 1), NEW j \in 1..(N - 1), t[i] = t[j] PROVE i = j
    <3>1. i + 1 = j + 1
      BY <1>5, <1>8, <2>1
    <3> QED BY <3>1
  <2> QED BY <1>10, <2>1 DEF Distinct
<1>14. start \in InSeq(s) /\ start \in Addresses
  BY <1>1, <1>3, <1>6
<1> QED BY <1>10, <1>11, <1>12, <1>13, <1>14 DEF N, t
(* The nodes of s are given back one by one in front of t.                 *)
Turns(m, m2, s, t, start, begin) ==
  /\ s \in Seq(Addresses)
  /\ \A a \in InSeq(s) : a \notin InSeq(t)
  /\ \A i \in 1..Len(s) : m2[s[i]] = IF i = 1 THEN start ELSE s[i - 1]
  /\ \A i \in 1..Len(t) : m2[t[i]] = m[t[i]]
  /\ begin = IF s = <<>> THEN start ELSE s[Len(s)]

LEMMA LinkedTurned ==
  ASSUME NEW m, NEW m2, NEW s, NEW t, NEW start, NEW begin,
         Linked(m, t, start, 0), Distinct(s), Distinct(t), Turns(m, m2, s, t, start, begin)
  PROVE  /\ Linked(m2, TurnedOnto(s, t), begin, 0)
         /\ Len(TurnedOnto(s, t)) = Len(s) + Len(t)
         /\ InSeq(TurnedOnto(s, t)) = InSeq(s) \cup InSeq(t)
         /\ Distinct(TurnedOnto(s, t))
<1> DEFINE N == Len(s)
           K == Len(t)
           u == TurnedOnto(s, t)
<1>1. /\ N \in Nat /\ \A i \in 1..N : s[i] \in Addresses
      /\ K \in Nat /\ \A i \in 1..K : t[i] \in Addresses
  BY DEF Linked, Turns
<1>2. \A i \in 1..N : m2[s[i]] = IF i = 1 THEN start ELSE s[i - 1]
  BY DEF Turns
<1>3. \A i \in 1..K : m2[t[i]] = IF i < K THEN t[i + 1] ELSE nullptr
  <2>1. ASSUME NEW i \in 1..K PROVE m2[t[i]] = IF i < K THEN t[i + 1] ELSE nullptr
    <3>1. m2[t[i]] = m[t[i]]
      BY DEF Turns
    <3>2. Field(m, t[i], 0) = m[t[i]]
      BY <1>1, FirstWord
    <3>3. Field(m, t[i], 0) = IF i < K THEN t[i + 1] ELSE nullptr
      BY DEF Linked
    <3> QED BY <3>1, <3>2, <3>3
  <2> QED BY <2>1
<1>4. start = IF K = 0 THEN nullptr ELSE t[1]
  BY DEF Linked
<1>5. u = [i \in 1..(N + K) |-> IF i <= N THEN s[N + 1 - i] ELSE t[i - N]]
  BY DEF TurnedOnto
<1>6. begin = IF N = 0 THEN start ELSE s[N]
  BY DEF Turns
<1>7. InSeq(s) = {s[i] : i \in 1..N} /\ InSeq(t) = {t[i] : i \in 1..K}
  BY DEF InSeq
<1>8. /\ \A i, j \in 1..N : s[i] = s[j] => i = j
      /\ \A i, j \in 1..K : t[i] = t[j] => i = j
  BY DEF Distinct
<1> HIDE DEF N, K, u
<1>apart. \A i \in 1..N, j \in 1..K : s[i] # t[j]
  <2>1. ASSUME NEW i \in 1..N, NEW j \in 1..K PROVE s[i] # t[j]
    <3>1. s[i] \in InSeq(s) /\ t[j] \in InSeq(t)
      BY <1>7
    <3> QED BY <3>1 DEF Turns
  <2> QED BY <2>1
<1>9. \A i \in 1..(N + K) : i <= N => N + 1 - i \in 1..N /\ u[i] = s[N + 1 - i]
  BY <1>1, <1>5
<1>10. \A i \in 1..(N + K) : ~ (i <= N) => i - N \in 1..K /\ u[i] = t[i - N]
  BY <1>1, <1>5
<1>11. u \in [1..(N + K) -> Addresses]
  BY <1>1, <1>5, <1>9, <1>10
<1>12. u \in Seq(Addresses) /\ Len(u) = N + K
  <2>1. N + K \in Nat
    BY <1>1
  <2> QED BY <1>11, <2>1, IsSequence
<1>13. Linked(m2, u, begin, 0)
  <2>1. begin = IF Len(u) = 0 THEN nullptr ELSE u[1]
    <3>1. CASE N = 0
      <4>1. K # 0 => 1 \in 1..(N + K) /\ ~ (1 <= N) /\ 1 - N = 1
        BY <1>1, <3>1
      <4> QED BY <1>1, <1>4, <1>6, <1>10, <1>12, <3>1, <4>1
    <3>2. CASE N # 0
      <4>1. 1 \in 1..(N + K) /\ 1 <= N /\ N + 1 - 1 = N /\ N + K # 0
        BY <1>1, <3>2
      <4> QED BY <1>6, <1>9, <1>12, <3>2, <4>1
    <3> QED BY <3>1, <3>2
  <2>2. ASSUME NEW i \in 1..(N + K)
        PROVE  m2[u[i]] = IF i < N + K THEN u[i + 1] ELSE nullptr
    <3>1. CASE i < N
      <4>1. N + 1 - i \in 1..N /\ u[i] = s[N + 1 - i]
        BY <1>1, <1>9, <3>1
      <4>2. i + 1 \in 1..(N + K) /\ i + 1 <= N /\ i < N + K /\ N + 1 - i # 1
        BY <1>1, <3>1
      <4>3. u[i + 1] = s[N + 1 - (i + 1)]
        BY <1>9, <4>2
      <4>4. m2[s[N + 1 - i]] = s[(N + 1 - i) - 1]
        BY <1>2, <4>1, <4>2
      <4>5. (N + 1 - i) - 1 = N + 1 - (i + 1)
        BY <1>1
      <4> QED BY <4>1, <4>2, <4>3, <4>4, <4>5
    <3>2. CASE i = N
      <4>1. N + 1 - i = 1 /\ i <= N /\ 1 \in 1..N
        BY <1>1, <3>2
      <4>2. u[i] = s[1]
        BY <1>9, <4>1
      <4>3. m2[s[1]] = start
        BY <1>2, <4>1
      <4>4. CASE K = 0
        <5>1. ~ (i < N + K)
          BY <1>1, <3>2, <4>4
        <5> QED BY <1>4, <4>2, <4>3, <4>4, <5>1
      <4>5. CASE K # 0
        <5>1. i < N + K /\ i + 1 \in 1..(N + K) /\ ~ (i + 1 <= N) /\ (i + 1) - N = 1
          BY <1>1, <3>2, <4>5
        <5>2. u[i + 1] = t[1]
          BY <1>10, <5>1
        <5> QED BY <1>4, <4>2, <4>3, <4>5, <5>1, <5>2
      <4> QED BY <4>4, <4>5
    <3>3. CASE i > N
      <4>1. i - N \in 1..K /\ u[i] = t[i - N]
        BY <1>1, <1>10, <3>3
      <4>2. m2[t[i - N]] = IF i - N < K THEN t[(i - N) + 1] ELSE nullptr
        BY <1>3, <4>1
      <4>3. i - N < K <=> i < N + K
        BY <1>1
      <4>4. i < N + K => u[i + 1] = t[(i - N) + 1]
        <5>1. i < N + K => i + 1 \in 1..(N + K) /\ ~ (i + 1 <= N) /\ (i + 1) - N = (i - N) + 1
          BY <1>1, <3>3
        <5> QED BY <1>10, <5>1
      <4> QED BY <4>1, <4>2, <4>3, <4>4
    <3> QED BY <1>1, <3>1, <3>2, <3>3
  <2>3. \A i \in 1..(N + K) : Field(m2, u[i], 0) = m2[u[i]]
    BY <1>11, FirstWord
  <2>4. \A i \in 1..(N + K) : Field(m2, u[i], 0) = IF i < N + K THEN u[i + 1] ELSE nullptr
    BY <2>2, <2>3
  <2> QED BY <1>12, <2>1, <2>4 DEF Linked
<1>14. InSeq(u) = InSeq(s) \cup InSeq(t)
  <2>1. InSeq(u) = {u[i] : i \in 1..(N + K)}
    BY <1>12 DEF InSeq
  <2>2. ASSUME NEW i \in 1..(N + K) PROVE u[i] \in InSeq(s) \cup InSeq(t)
    BY <1>7, <1>9, <1>10
  <2>3. ASSUME NEW i \in 1..N PROVE s[i] \in InSeq(u)
    <3>1. N + 1 - i \in 1..(N + K) /\ N + 1 - i <= N /\ N + 1 - (N + 1 - i) = i
      BY <1>1
    <3> QED BY <1>9, <2>1, <3>1
  <2>4. ASSUME NEW i \in 1..K PROVE t[i] \in InSeq(u)
    <3>1. N + i \in 1..(N + K) /\ ~ (N + i <= N) /\ (N + i) - N = i
      BY <1>1
    <3> QED BY <1>10, <2>1, <3>1
  <2> QED BY <1>7, <2>1, <2>2, <2>3, <2>4
<1>15. Distinct(u)
  <2>1. ASSUME NEW i \in 1..(N + K), NEW j \in 1..(N + K), u[i] = u[j] PROVE i = j
    <3>1. CASE i <= N /\ j <= N
      <4>1. N + 1 - i = N + 1 - j
        BY <1>8, <1>9, <2>1, <3>1
      <4> QED BY <1>1, <4>1
    <3>2. CASE ~ (i <= N) /\ ~ (j <= N)
      <4>1. i - N = j - N
        BY <1>8, <1>10, <2>1, <3>2
      <4> QED BY <1>1, <4>1
    <3>3. CASE i <= N /\ ~ (j <= N)
      BY <1>9, <1>10, <1>apart, <2>1, <3>3
    <3>4. CASE ~ (i <= N) /\ j <= N
      BY <1>9, <1>10, <1>apart, <2>1, <3>4
    <3> QED BY <3>1, <3>2, <3>3, <3>4
  <2> QED BY <1>12, <2>1 DEF Distinct
<1> QED BY <1>12, <1>13, <1>14, <1>15 DEF N, K, u

-----------------------------------------------------------------------------
(* The layout of a block.                                                  *)
LEMMA RoundedUp ==
  ASSUME NEW a \in Nat, NEW n \in Nat \ {0}
  PROVE  /\ (n - a) % n \in Nat /\ (n - a) % n < n
         /\ (a + ((n - a) % n)) % n = 0
<1> DEFINE r == (n - a) % n
           q == (n - a) \div n
<1>1. r \in Nat /\ r < n /\ q \in Int /\ n - a = n * q + r
  OBVIOUS
<1> HIDE DEF r, q
<1>2. a + r = n * (1 - q)
  BY <1>1
<1>3. \A k \in Int : (n * k) % n = 0
  OBVIOUS
<1> QED BY <1>1, <1>2, <1>3 DEF r

LEMMA SumAligned ==
  ASSUME NEW a \in Nat, NEW b \in Nat, NEW n \in Nat \ {0}, a % n = 0, b % n = 0
  PROVE  (a + b) % n = 0
<1>1. a = n * (a \div n) /\ b = n * (b \div n) /\ a \div n \in Int /\ b \div n \in Int
  OBVIOUS
<1>2. a + b = n * ((a \div n) + (b \div n))
  BY <1>1
<1>3. \A k \in Int : (n * k) % n = 0
  OBVIOUS
<1>4. (a \div n) + (b \div n) \in Int
  BY <1>1
<1> QED BY <1>2, <1>3, <1>4

LEMMA FirstSlotFits ==
  ASSUME NEW base \in Bases
  PROVE  /\ base \in Nat /\ base # nullptr
         /\ FirstSlot(base) \in Nat /\ base < FirstSlot(base)
         /\ FirstSlot(base) + SlotSize <= base + BlockSize
         /\ FirstSlot(base) % Align = 0
         /\ base \in Addresses /\ base \in Words(base)
<1>1. /\ base \in Nat /\ base # 0 /\ Align \in Nat \ {0} /\ SlotSize \in Nat /\ Align <= SlotSize
      /\ BlockSize \in Nat /\ BlockSize >= 2 * SlotSize /\ SlotSize >= 2
  BY BasesAssumption, LayoutAssumption, NodeAssumption
<1>2. FirstSlot(base) = (base + 1) + ((Align - (base + 1)) % Align)
  BY DEF FirstSlot
<1>3. /\ (Align - (base + 1)) % Align \in Nat /\ (Align - (base + 1)) % Align < Align
      /\ ((base + 1) + ((Align - (base + 1)) % Align)) % Align = 0
  <2>1. base + 1 \in Nat
    BY <1>1
  <2> QED BY <1>1, <2>1, RoundedUp
<1> DEFINE r == (Align - (base + 1)) % Align
<1> HIDE DEF r
<1>4. (base + 1) + r \in Nat /\ base < (base + 1) + r /\ ((base + 1) + r) + SlotSize <= base + BlockSize
  BY <1>1, <1>3 DEF r
<1>5. base \in Words(base)
  BY <1>1 DEF Words
<1> QED BY <1>1, <1>2, <1>3, <1>4, <1>5 DEF r, Addresses, nullptr

(* An address lies in one block.                                           *)
LEMMA OneBlock ==
  ASSUME NEW b \in Bases, NEW c \in Bases, NEW a, a \in Words(b), a \in Words(c)
  PROVE  b = c
BY BasesAssumption, LayoutAssumption DEF Words
-----------------------------------------------------------------------------
(* A slot that fits a block keeps away from the links of the blocks, and   *)
(* from slots it does not overlap.                                         *)
Fits(p, b) == b < p /\ p + SlotSize <= b + BlockSize
ApartFrom(p, q) == p + SlotSize <= q \/ q + SlotSize <= p

LEMMA FittingSlot ==
  ASSUME NEW b \in Bases, NEW p \in Nat, Fits(p, b)
  PROVE  /\ p \in Words(b) /\ p \in Addresses /\ p + 1 \in Addresses /\ p # nullptr
         /\ \A c \in Bases : c # p /\ c # p + 1
         /\ \A c \in Bases, q \in Nat : c # b /\ Fits(q, c) => ApartFrom(p, q)
         /\ \A q \in Nat : ApartFrom(p, q) => p # q /\ p # q + 1 /\ q # p + 1
<1>1. /\ \A c \in Bases : c \in Nat \ {0}
      /\ SlotSize \in Nat /\ BlockSize \in Nat /\ SlotSize >= 2
  BY BasesAssumption, LayoutAssumption, NodeAssumption
<1>2. b < p /\ p + SlotSize <= b + BlockSize
  BY DEF Fits
<1>3. p \in Words(b) /\ p + 1 \in Words(b) /\ p # 0
  BY <1>1, <1>2 DEF Words
<1>4. ASSUME NEW c \in Bases PROVE c # p /\ c # p + 1
  <2>1. c = b \/ c + BlockSize <= b \/ b + BlockSize <= c
    BY BasesAssumption
  <2> QED BY <1>1, <1>2, <2>1
<1>5. ASSUME NEW c \in Bases, NEW q \in Nat, c # b, Fits(q, c) PROVE ApartFrom(p, q)
  <2>1. c + BlockSize <= b \/ b + BlockSize <= c
    BY <1>5, BasesAssumption
  <2>2. c < q /\ q + SlotSize <= c + BlockSize
    BY <1>5 DEF Fits
  <2> QED BY <1>1, <1>2, <2>1, <2>2 DEF ApartFrom
<1>6. \A q \in Nat : ApartFrom(p, q) => p # q /\ p # q + 1 /\ q # p + 1
  BY <1>1 DEF ApartFrom
<1> QED BY <1>3, <1>4, <1>5, <1>6 DEF Addresses, nullptr

(* The slots in use.                                                       *)
LEMMA SlotFacts ==
  ASSUME Types, SlotsFit
  PROVE  /\ \A q \in slots : \E b \in blocks : b \in Bases /\ Fits(q, b)
         /\ \A q \in slots : /\ q \in Nat /\ q \in Addresses /\ q + 1 \in Addresses
                             /\ q # nullptr /\ q % Align = 0
                             /\ \A c \in Bases : c # q /\ c # q + 1
         /\ \A p, q \in slots : p # q => ApartFrom(p, q) /\ p # q + 1
<1>1. \A q \in slots : q \in Nat
  BY NullIsNoAddress DEF Types
<1>2. \A q \in slots : \E b \in blocks : b \in Bases /\ Fits(q, b)
  BY DEF Types, SlotsFit, Fits
<1>3. \A p, q \in slots : p # q => ApartFrom(p, q)
  BY DEF SlotsFit, ApartFrom
<1>4. ASSUME NEW q \in slots
      PROVE  /\ q \in Addresses /\ q + 1 \in Addresses /\ q # nullptr
             /\ \A c \in Bases : c # q /\ c # q + 1
             /\ \A p \in Nat : ApartFrom(q, p) => p # q + 1
  <2>1. PICK b \in blocks : b \in Bases /\ Fits(q, b)
    BY <1>2
  <2> QED BY <1>1, <2>1, FittingSlot
<1>5. ASSUME NEW p \in slots, NEW q \in slots, p # q PROVE p # q + 1
  BY <1>1, <1>3, <1>4, <1>5
<1>6. \A q \in slots : q % Align = 0
  BY DEF SlotsFit
<1> QED BY <1>1, <1>2, <1>3, <1>4, <1>5, <1>6

(* A slot that is cut off the current block is new.                        *)
LEMMA NewSlot ==
  ASSUME Types, SlotsFit, NEW b \in Bases, NEW p \in Nat, Fits(p, b),
         \A q \in slots : q \in Words(b) => q + SlotSize <= p
  PROVE  \A q \in slots : ApartFrom(p, q) /\ p # q /\ p # q + 1 /\ q # p + 1
<1>1. ASSUME NEW q \in slots PROVE ApartFrom(p, q)
  <2>1. q \in Nat
    BY SlotFacts
  <2>2. PICK c \in blocks : c \in Bases /\ Fits(q, c)
    BY SlotFacts
  <2>3. CASE c = b
    <3>1. q \in Words(b)
      BY <2>1, <2>2, <2>3, FittingSlot
    <3> QED BY <3>1 DEF ApartFrom
  <2>4. CASE c # b
    BY <2>1, <2>2, <2>4, FittingSlot
  <2> QED BY <2>3, <2>4
<1>2. \A q \in slots : q \in Nat
  BY SlotFacts
<1> QED BY <1>1, <1>2, FittingSlot

-----------------------------------------------------------------------------
(* The lists of the current state.                                         *)
LEMMA ListFacts ==
  ASSUME IInv
  PROVE  /\ Len(Nodes) \in Nat /\ Len(FreeList) \in Nat /\ Len(Chain) \in Nat
         /\ Cardinality(slots) \in Nat /\ Cardinality(blocks) \in Nat
         /\ Len(Nodes) <= Cardinality(slots) /\ Len(FreeList) <= Cardinality(slots)
         /\ Len(Chain) <= Cardinality(slots)
         /\ InSeq(Nodes) \subseteq slots /\ InSeq(FreeList) \subseteq slots
         /\ \A i \in 1..Len(Nodes) : Nodes[i] \in InSeq(Nodes)
         /\ \A i \in 1..Len(FreeList) : FreeList[i] \in InSeq(FreeList)
         /\ \A i \in 1..Len(Chain) : Chain[i] \in blocks
<1>1. Len(Nodes) \in Nat /\ Len(FreeList) \in Nat /\ Len(Chain) \in Nat
  BY DEF IInv, Lists, Linked
<1>2. Cardinality(slots) \in Nat /\ Cardinality(blocks) \in Nat
  BY FS_CardinalityType DEF IInv, Types
<1>3. /\ Len(Nodes) + Len(FreeList) = Cardinality(slots) /\ Len(Chain) = Cardinality(blocks)
      /\ Cardinality(blocks) <= Cardinality(slots)
  BY DEF IInv, Types, EverySlotInOneList, EveryBlockInChain
<1>4. InSeq(Nodes) \cup InSeq(FreeList) = slots /\ InSeq(Chain) = blocks
  BY DEF IInv, EverySlotInOneList, EveryBlockInChain
<1>5. /\ \A i \in 1..Len(Nodes) : Nodes[i] \in InSeq(Nodes)
      /\ \A i \in 1..Len(FreeList) : FreeList[i] \in InSeq(FreeList)
      /\ \A i \in 1..Len(Chain) : Chain[i] \in InSeq(Chain)
  BY DEF InSeq
<1> HIDE DEF IInv
<1> QED BY <1>1, <1>2, <1>3, <1>4, <1>5

(* The current block.                                                      *)
LEMMA CurrentBlock ==
  ASSUME IInv, currBlock_ # nullptr
  PROVE  currBlock_ \in blocks /\ currBlock_ \in Bases
<1>1. Linked(mem, Chain, currBlock_, 0)
  BY DEF IInv, Lists
<1>2. Len(Chain) \in Nat /\ Len(Chain) # 0 /\ currBlock_ = Chain[1]
  BY <1>1 DEF Linked
<1>3. currBlock_ \in blocks
  BY <1>2, ListFacts
<1> QED BY <1>3 DEF IInv, Types
-----------------------------------------------------------------------------
(* What allocate returns: the first free slot, or a new one.               *)
Given(p, base) ==
  /\ p \in Nat /\ p \in Addresses /\ p + 1 \in Addresses /\ p # nullptr /\ p % Align = 0
  /\ \A c \in Bases : c # p /\ c # p + 1
  /\ \A q \in slots : q # p => ApartFrom(p, q) /\ p # q + 1 /\ q # p + 1
  /\ p \notin InSeq(Nodes)
  /\ freeSlots_ # nullptr => p = freeSlots_ /\ p \in slots /\ base = nullptr
  /\ freeSlots_ = nullptr => p \notin slots
  /\ base # nullptr => base \in Bases \ blocks
  /\ \E b \in blocks \cup {base} : b \in Bases /\ Fits(p, b)

LEMMA AllocateGives ==
  ASSUME IInv, NEW p \in Addresses, NEW base \in Bases \cup {nullptr}, allocate(p, base)
  PROVE  Given(p, base)
<1>1. Types /\ SlotsFit /\ Uncut
  BY DEF IInv
<1>2. InSeq(Nodes) \subseteq slots
  BY ListFacts
<1>3. nullptr \notin Bases
  BY BasesAssumption DEF nullptr
<1>4. CASE AllocateFree(p) /\ base = nullptr
  <2>1. freeSlots_ # nullptr /\ p = freeSlots_
    BY <1>4 DEF AllocateFree
  <2>2. Linked(mem, FreeList, freeSlots_, 0) /\ Distinct(FreeList)
        /\ InSeq(Nodes) \cap InSeq(FreeList) = {} /\ InSeq(FreeList) \subseteq slots
    BY ListFacts DEF IInv, Lists
  <2>3. p \in InSeq(FreeList)
    BY <2>1, <2>2, LinkedRest
  <2>4. p \in slots /\ p \notin InSeq(Nodes)
    BY <2>2, <2>3
  <2>5. /\ p \in Nat /\ p \in Addresses /\ p + 1 \in Addresses /\ p # nullptr /\ p % Align = 0
        /\ \A c \in Bases : c # p /\ c # p + 1
        /\ \E b \in blocks : b \in Bases /\ Fits(p, b)
    BY <1>1, <2>4, SlotFacts
  <2>6. \A q \in slots : q # p => ApartFrom(p, q) /\ p # q + 1 /\ q # p + 1
    BY <1>1, <2>4, SlotFacts
  <2> QED BY <1>4, <2>1, <2>4, <2>5, <2>6 DEF Given
<1>5. CASE AllocateNext(p) /\ base = nullptr
  <2>1. freeSlots_ = nullptr /\ currSlot_ < lastSlot_ /\ p = currSlot_
    BY <1>5 DEF AllocateNext
  <2>2. currBlock_ # nullptr
    BY <1>1, <2>1 DEF Uncut, nullptr
  <2>3. currBlock_ \in blocks /\ currBlock_ \in Bases
    BY <2>2, CurrentBlock
  <2>4. /\ p \in Nat /\ currBlock_ < p /\ p % Align = 0 /\ lastSlot_ = LastSlot(currBlock_)
        /\ \A q \in slots : q \in Words(currBlock_) => q + SlotSize <= p
    BY <1>1, <2>1, <2>2 DEF Uncut
  <2>5. Fits(p, currBlock_)
    <3>1. currBlock_ \in Nat /\ BlockSize \in Nat /\ SlotSize \in Nat
      BY <2>3, BasesAssumption, LayoutAssumption
    <3> QED BY <2>1, <2>4, <3>1 DEF Fits, LastSlot
  <2>6. \A q \in slots : ApartFrom(p, q) /\ p # q /\ p # q + 1 /\ q # p + 1
    BY <1>1, <2>3, <2>4, <2>5, NewSlot
  <2>7. /\ p + 1 \in Addresses /\ p # nullptr
        /\ \A c \in Bases : c # p /\ c # p + 1
    BY <2>3, <2>4, <2>5, FittingSlot
  <2> QED BY <1>2, <1>5, <2>1, <2>3, <2>4, <2>5, <2>6, <2>7 DEF Given
<1>6. CASE AllocateBlock(p, base)
  <2>1. freeSlots_ = nullptr /\ base \in Bases \ blocks /\ p = FirstSlot(base)
    BY <1>6 DEF AllocateBlock
  <2>2. p \in Nat /\ Fits(p, base) /\ p % Align = 0
    BY <2>1, FirstSlotFits DEF Fits
  <2>3. \A q \in slots : ~ (q \in Words(base))
    <3>1. ASSUME NEW q \in slots, q \in Words(base) PROVE FALSE
      <4>1. PICK c \in blocks : c \in Bases /\ Fits(q, c)
        BY <1>1, SlotFacts
      <4>2. q \in Nat
        BY <1>1, SlotFacts
      <4>3. q \in Words(c)
        BY <4>1, <4>2, FittingSlot
      <4> QED BY <2>1, <3>1, <4>1, <4>3, OneBlock
    <3> QED BY <3>1
  <2>4. \A q \in slots : ApartFrom(p, q) /\ p # q /\ p # q + 1 /\ q # p + 1
    <3>1. \A q \in slots : q \in Words(base) => q + SlotSize <= p
      BY <2>3
    <3> QED BY <1>1, <2>1, <2>2, <3>1, NewSlot
  <2>5. /\ p + 1 \in Addresses /\ p # nullptr
        /\ \A c \in Bases : c # p /\ c # p + 1
    BY <2>1, <2>2, FittingSlot
  <2> QED BY <1>2, <1>3, <2>1, <2>2, <2>4, <2>5 DEF Given
<1> QED BY <1>4, <1>5, <1>6 DEF allocate

(* The words of memory after push.                                         *)
Written(m2, v, p, base) ==
  /\ m2 = [a \in Addresses |-> m2[a]]
  /\ m2[p] = v /\ m2[p + 1] = head_
  /\ base # nullptr => m2[base] = currBlock_
  /\ \A a \in Addresses : a # p /\ a # p + 1 /\ a # base => m2[a] = mem[a]

LEMMA PushWrites ==
  ASSUME IInv, NEW v, NEW p, NEW base \in Bases \cup {nullptr}, Given(p, base),
         NEW m2, m2 = [MemoryAfter(base) EXCEPT ![p] = v, ![p + 1] = head_]
  PROVE  Written(m2, v, p, base)
<1>1. mem = [a \in Addresses |-> mem[a]]
  BY DEF IInv, Types
<1>2. /\ p \in Nat /\ p \in Addresses /\ p + 1 \in Addresses
      /\ \A c \in Bases : c # p /\ c # p + 1
  BY DEF Given
<1>3. p # p + 1
  BY <1>2
<1> DEFINE m1 == MemoryAfter(base)
           w == p + 1
<1>4. /\ m1 = [a \in Addresses |-> m1[a]]
      /\ base # nullptr => m1[base] = currBlock_
      /\ \A a \in Addresses : a # base => m1[a] = mem[a]
  <2>1. CASE base = nullptr
    BY <1>1, <2>1 DEF MemoryAfter
  <2>2. CASE base # nullptr
    <3>1. base \in Addresses
      BY <2>2, FirstSlotFits
    <3> QED BY <1>1, <2>2, <3>1 DEF MemoryAfter
  <2> QED BY <2>1, <2>2
<1>5. w \in Addresses /\ p # w /\ (base # nullptr => base # p /\ base # w)
  BY <1>2, <1>3
<1>6. m2 = [m1 EXCEPT ![p] = v, ![w] = head_]
  OBVIOUS
<1> HIDE DEF m1, w
<1>7. /\ m2 = [a \in Addresses |-> m2[a]]
      /\ m2[p] = v /\ m2[w] = head_
      /\ \A a \in Addresses : a # p /\ a # w => m2[a] = m1[a]
  BY <1>2, <1>4, <1>5, <1>6
<1>8. base # nullptr => base \in Addresses
  BY FirstSlotFits
<1> QED BY <1>4, <1>5, <1>7, <1>8 DEF w, Written
(* The lists after push.                                                   *)
LEMMA PushLists ==
  ASSUME IInv, NEW v, NEW p, NEW base \in Bases \cup {nullptr}, Given(p, base),
         NEW m2, Written(m2, v, p, base)
  PROVE  /\ Linked(m2, OnTop(p, Nodes), p, 1) /\ Distinct(OnTop(p, Nodes))
         /\ Len(OnTop(p, Nodes)) = Len(Nodes) + 1
         /\ InSeq(OnTop(p, Nodes)) = InSeq(Nodes) \cup {p}
         /\ \A i \in 1..Len(Nodes) : m2[Nodes[i]] = mem[Nodes[i]]
         /\ freeSlots_ = nullptr => Linked(m2, FreeList, freeSlots_, 0)
         /\ freeSlots_ # nullptr =>
              /\ Linked(m2, Rest(FreeList), mem[freeSlots_], 0) /\ Distinct(Rest(FreeList))
              /\ Len(Rest(FreeList)) = Len(FreeList) - 1
              /\ InSeq(Rest(FreeList)) = InSeq(FreeList) \ {p}
         /\ base = nullptr => Linked(m2, Chain, currBlock_, 0)
         /\ base # nullptr =>
              /\ Linked(m2, OnTop(base, Chain), base, 0)
              /\ Len(OnTop(base, Chain)) = Len(Chain) + 1
              /\ InSeq(OnTop(base, Chain)) = InSeq(Chain) \cup {base}
<1>1. /\ m2[p] = v /\ m2[p + 1] = head_
      /\ base # nullptr => m2[base] = currBlock_
      /\ \A a \in Addresses : a # p /\ a # p + 1 /\ a # base => m2[a] = mem[a]
  BY DEF Written
<1>2. /\ p \in Nat /\ p \in Addresses /\ p + 1 \in Addresses
      /\ \A c \in Bases : c # p /\ c # p + 1
      /\ \A q \in slots : q # p => p # q + 1 /\ q # p + 1
      /\ p \notin InSeq(Nodes)
      /\ freeSlots_ # nullptr => p = freeSlots_ /\ p \in slots
      /\ freeSlots_ = nullptr => p \notin slots
      /\ base # nullptr => base \in Bases /\ base \notin blocks
  BY DEF Given
<1>3. /\ Linked(mem, Nodes, head_, 1) /\ Linked(mem, FreeList, freeSlots_, 0)
      /\ Linked(mem, Chain, currBlock_, 0) /\ Distinct(Nodes) /\ Distinct(FreeList)
  BY DEF IInv, Lists
<1>4. /\ \A i \in 1..Len(Nodes) : Nodes[i] \in InSeq(Nodes) /\ Nodes[i] \in slots
      /\ \A i \in 1..Len(FreeList) : FreeList[i] \in slots
      /\ \A i \in 1..Len(Chain) : Chain[i] \in blocks /\ Chain[i] \in Bases
  BY ListFacts DEF IInv, Types
<1>5. /\ nullptr \notin Addresses
      /\ \A q \in slots : /\ q \in Nat /\ q \in Addresses /\ q + 1 \in Addresses
                          /\ \A c \in Bases : c # q /\ c # q + 1
      /\ \A c \in Bases : c \in Nat /\ c \in Addresses /\ c # nullptr
  BY SlotFacts, NullIsNoAddress, FirstSlotFits DEF IInv
<1> HIDE DEF IInv
<1>6. \A i \in 1..Len(Nodes) :
        Field(m2, Nodes[i], 1) = Field(mem, Nodes[i], 1) /\ m2[Nodes[i]] = mem[Nodes[i]]
  <2>1. ASSUME NEW i \in 1..Len(Nodes)
        PROVE  Field(m2, Nodes[i], 1) = Field(mem, Nodes[i], 1) /\ m2[Nodes[i]] = mem[Nodes[i]]
    <3> DEFINE q == Nodes[i]
    <3>1. q \in slots /\ q # p
      BY <1>2, <1>4
    <3> HIDE DEF q
    <3>2. q \in Nat /\ q \in Addresses /\ q + 1 \in Addresses /\ q # base /\ q + 1 # base
      BY <1>2, <1>5, <3>1
    <3>3. q + 1 # p /\ q # p + 1 /\ q + 1 # p + 1
      BY <1>2, <3>1, <3>2
    <3>4. m2[q + 1] = mem[q + 1] /\ m2[q] = mem[q]
      BY <1>1, <3>1, <3>2, <3>3
    <3>5. Field(m2, q, 1) = Field(mem, q, 1)
      BY <3>4 DEF Field
    <3> QED BY <3>4, <3>5 DEF q
  <2> QED BY <2>1
<1>topLink. Field(m2, p, 1) = head_
  BY <1>1 DEF Field
<1>7. /\ Linked(m2, OnTop(p, Nodes), p, 1) /\ Distinct(OnTop(p, Nodes))
      /\ Len(OnTop(p, Nodes)) = Len(Nodes) + 1
      /\ InSeq(OnTop(p, Nodes)) = InSeq(Nodes) \cup {p}
  BY <1>2, <1>3, <1>6, <1>topLink, LinkedOnTop
<1>8. \A i \in 1..Len(FreeList) :
        FreeList[i] # p => Field(m2, FreeList[i], 0) = Field(mem, FreeList[i], 0)
  <2>1. ASSUME NEW i \in 1..Len(FreeList), FreeList[i] # p
        PROVE  Field(m2, FreeList[i], 0) = Field(mem, FreeList[i], 0)
    <3> DEFINE q == FreeList[i]
    <3>1. q \in slots /\ q # p
      BY <1>4, <2>1
    <3> HIDE DEF q
    <3>2. q \in Nat /\ q \in Addresses /\ q # base /\ q # p + 1
      BY <1>2, <1>5, <3>1
    <3>3. m2[q] = mem[q]
      BY <1>1, <3>1, <3>2
    <3>4. Field(m2, q, 0) = Field(mem, q, 0)
      BY <3>2, <3>3, FirstWord
    <3> QED BY <3>4 DEF q
  <2> QED BY <2>1
<1>9. ASSUME freeSlots_ = nullptr PROVE Linked(m2, FreeList, freeSlots_, 0)
  <2>1. \A i \in 1..Len(FreeList) : FreeList[i] # p
    BY <1>2, <1>4, <1>9
  <2>2. Linked(m2, FreeList, freeSlots_, 0)
    BY <1>3, <1>8, <2>1, LinksKept
  <2> QED BY <2>2
<1>10. ASSUME freeSlots_ # nullptr
       PROVE  /\ Linked(m2, Rest(FreeList), mem[freeSlots_], 0) /\ Distinct(Rest(FreeList))
              /\ Len(Rest(FreeList)) = Len(FreeList) - 1
              /\ InSeq(Rest(FreeList)) = InSeq(FreeList) \ {p}
  <2>1. p = freeSlots_ /\ Field(mem, freeSlots_, 0) = mem[freeSlots_]
    BY <1>2, <1>10, FirstWord
  <2>2. /\ Linked(m2, Rest(FreeList), Field(mem, freeSlots_, 0), 0) /\ Distinct(Rest(FreeList))
        /\ Len(Rest(FreeList)) = Len(FreeList) - 1
        /\ InSeq(Rest(FreeList)) = InSeq(FreeList) \ {freeSlots_}
    BY <1>3, <1>8, <1>10, <2>1, LinkedRest
  <2> QED BY <2>1, <2>2
<1>11. \A i \in 1..Len(Chain) : Field(m2, Chain[i], 0) = Field(mem, Chain[i], 0)
  <2>1. ASSUME NEW i \in 1..Len(Chain) PROVE Field(m2, Chain[i], 0) = Field(mem, Chain[i], 0)
    <3> DEFINE q == Chain[i]
    <3>1. q \in blocks /\ q \in Bases
      BY <1>4
    <3> HIDE DEF q
    <3>2. q \in Nat /\ q \in Addresses /\ q # base /\ q # p + 1 /\ q # p
      BY <1>2, <1>5, <3>1
    <3>3. m2[q] = mem[q]
      BY <1>1, <3>1, <3>2
    <3>4. Field(m2, q, 0) = Field(mem, q, 0)
      BY <3>2, <3>3, FirstWord
    <3> QED BY <3>4 DEF q
  <2> QED BY <2>1
<1>12. Linked(m2, Chain, currBlock_, 0)
  BY <1>3, <1>11, LinksKept
<1>13. ASSUME base # nullptr
       PROVE  /\ Linked(m2, OnTop(base, Chain), base, 0)
              /\ Len(OnTop(base, Chain)) = Len(Chain) + 1
              /\ InSeq(OnTop(base, Chain)) = InSeq(Chain) \cup {base}
  <2>1. base \in Addresses
    BY <1>2, <1>5, <1>13
  <2>2. Field(m2, base, 0) = currBlock_
    BY <1>1, <1>13, <2>1, FirstWord
  <2> QED BY <1>3, <1>11, <2>1, <2>2, LinkedOnTop
<1> QED BY <1>6, <1>7, <1>9, <1>10, <1>12, <1>13
(* The three lists are those the search finds in the new state.            *)
LEMMA PushStep ==
  ASSUME IInv, NEW v, push(v)
  PROVE  /\ IInv'
         /\ \E p : /\ Nodes' = OnTop(p, Nodes) /\ mem'[p] = v
                   /\ \A i \in 1..Len(Nodes) : mem'[Nodes[i]] = mem[Nodes[i]]
<1>1. PICK p \in Addresses, base \in Bases \cup {nullptr} :
        /\ allocate(p, base)
        /\ mem' = [MemoryAfter(base) EXCEPT ![p] = v, ![p + 1] = head_]
        /\ head_' = p
        /\ slots' = slots \cup {p}
  BY DEF push
<1>2. Given(p, base)
  BY <1>1, AllocateGives
<1>3. Written(mem', v, p, base)
  BY <1>1, <1>2, PushWrites
<1>4. /\ Linked(mem', OnTop(p, Nodes), p, 1) /\ Distinct(OnTop(p, Nodes))
      /\ Len(OnTop(p, Nodes)) = Len(Nodes) + 1
      /\ InSeq(OnTop(p, Nodes)) = InSeq(Nodes) \cup {p}
      /\ \A i \in 1..Len(Nodes) : mem'[Nodes[i]] = mem[Nodes[i]]
      /\ freeSlots_ = nullptr => Linked(mem', FreeList, freeSlots_, 0)
      /\ freeSlots_ # nullptr =>
           /\ Linked(mem', Rest(FreeList), mem[freeSlots_], 0) /\ Distinct(Rest(FreeList))
           /\ Len(Rest(FreeList)) = Len(FreeList) - 1
           /\ InSeq(Rest(FreeList)) = InSeq(FreeList) \ {p}
      /\ base = nullptr => Linked(mem', Chain, currBlock_, 0)
      /\ base # nullptr =>
           /\ Linked(mem', OnTop(base, Chain), base, 0)
           /\ Len(OnTop(base, Chain)) = Len(Chain) + 1
           /\ InSeq(OnTop(base, Chain)) = InSeq(Chain) \cup {base}
  BY <1>2, <1>3, PushLists
<1>5. /\ freeSlots_ # nullptr => p \in slots /\ base = nullptr
      /\ freeSlots_ = nullptr => p \notin slots
      /\ base # nullptr => base \in Bases \ blocks
      /\ p \in Nat /\ p % Align = 0 /\ p \notin InSeq(Nodes)
      /\ \A q \in slots : q # p => ApartFrom(p, q)
      /\ \E b \in blocks \cup {base} : b \in Bases /\ Fits(p, b)
  BY <1>2 DEF Given
<1>6. /\ freeSlots_ # nullptr => freeSlots_' = mem[freeSlots_]
      /\ freeSlots_ = nullptr => freeSlots_' = freeSlots_
      /\ base = nullptr => blocks' = blocks /\ currBlock_' = currBlock_
      /\ base # nullptr => blocks' = blocks \cup {base} /\ currBlock_' = base
  <2>1. nullptr \notin Bases
    BY BasesAssumption DEF nullptr
  <2> QED BY <1>1, <2>1 DEF allocate, AllocateFree, AllocateNext, AllocateBlock
<1> DEFINE N == OnTop(p, Nodes)
           F == IF freeSlots_ = nullptr THEN FreeList ELSE Rest(FreeList)
           C == IF base = nullptr THEN Chain ELSE OnTop(base, Chain)
<1>7. /\ Types /\ SlotsFit /\ Uncut
      /\ InSeq(Nodes) \cup InSeq(FreeList) = slots
      /\ InSeq(Nodes) \cap InSeq(FreeList) = {} /\ Distinct(FreeList)
      /\ Len(Nodes) + Len(FreeList) = Cardinality(slots)
      /\ InSeq(Chain) = blocks /\ Len(Chain) = Cardinality(blocks)
      /\ IsFiniteSet(blocks) /\ IsFiniteSet(slots) /\ Cardinality(blocks) <= Cardinality(slots)
      /\ slots \subseteq Addresses /\ blocks \subseteq Bases
  BY DEF IInv, Lists, Types, EverySlotInOneList, EveryBlockInChain
<1>8. /\ Len(Nodes) \in Nat /\ Len(FreeList) \in Nat
      /\ Cardinality(slots) \in Nat /\ Cardinality(blocks) \in Nat
  BY ListFacts
<1>9. /\ Linked(mem', F, freeSlots_', 0) /\ Distinct(F)
      /\ InSeq(F) = InSeq(FreeList) \ {p}
      /\ Len(F) = IF freeSlots_ = nullptr THEN Len(FreeList) ELSE Len(FreeList) - 1
  <2>1. CASE freeSlots_ = nullptr
    <3>1. p \notin InSeq(FreeList)
      BY <1>5, <1>7, <2>1
    <3>2. InSeq(FreeList) = InSeq(FreeList) \ {p}
      BY <3>1
    <3> QED BY <1>4, <1>6, <1>7, <2>1, <3>2
  <2>2. CASE freeSlots_ # nullptr
    BY <1>4, <1>6, <2>2
  <2> QED BY <2>1, <2>2
<1>10. /\ Linked(mem', C, currBlock_', 0) /\ InSeq(C) = blocks'
       /\ Len(C) = IF base = nullptr THEN Len(Chain) ELSE Len(Chain) + 1
  <2>1. CASE base = nullptr
    BY <1>4, <1>6, <1>7, <2>1
  <2>2. CASE base # nullptr
    BY <1>4, <1>6, <1>7, <2>2
  <2> QED BY <2>1, <2>2
<1> HIDE DEF N, F, C
<1>11. /\ IsFiniteSet(slots') /\ Cardinality(slots') \in Nat
       /\ Cardinality(slots') = IF freeSlots_ = nullptr THEN Cardinality(slots) + 1
                                ELSE Cardinality(slots)
       /\ freeSlots_ # nullptr => slots' = slots
  <2>1. /\ IsFiniteSet(slots \cup {p})
        /\ Cardinality(slots \cup {p}) = IF p \in slots THEN Cardinality(slots)
                                         ELSE Cardinality(slots) + 1
    BY <1>7, FS_AddElement
  <2> QED BY <1>1, <1>5, <1>8, <2>1
<1>12. /\ IsFiniteSet(blocks')
       /\ Cardinality(blocks') = IF base = nullptr THEN Cardinality(blocks)
                                 ELSE Cardinality(blocks) + 1
  <2>1. /\ IsFiniteSet(blocks \cup {base})
        /\ Cardinality(blocks \cup {base}) = IF base \in blocks THEN Cardinality(blocks)
                                             ELSE Cardinality(blocks) + 1
    BY <1>7, FS_AddElement
  <2> QED BY <1>5, <1>6, <1>7, <2>1
<1>13. /\ Len(N) + Len(F) = Cardinality(slots') /\ Len(C) = Cardinality(blocks')
       /\ Len(N) \in Nat /\ Len(F) \in Nat /\ Len(C) \in Nat
       /\ Cardinality(blocks') <= Cardinality(slots')
  <2>1. Len(N) = Len(Nodes) + 1 /\ Len(N) \in Nat
    BY <1>4, <1>8 DEF N
  <2>2. Len(F) \in Nat /\ Len(C) \in Nat
    BY <1>9, <1>10 DEF Linked
  <2>3. base # nullptr => freeSlots_ = nullptr
    BY <1>5
  <2>4. Len(N) + Len(F) = Cardinality(slots')
    <3>1. Len(F) = IF freeSlots_ = nullptr THEN Len(FreeList) ELSE Len(FreeList) - 1
      BY <1>9
    <3>2. Cardinality(slots') = IF freeSlots_ = nullptr THEN Cardinality(slots) + 1
                                ELSE Cardinality(slots)
      BY <1>11
    <3>3. Len(Nodes) + Len(FreeList) = Cardinality(slots)
      BY <1>7
    <3>4. CASE freeSlots_ = nullptr
      <4>1. Len(F) = Len(FreeList) /\ Cardinality(slots') = Cardinality(slots) + 1
        BY <3>1, <3>2, <3>4
      <4> QED BY <1>8, <2>1, <3>3, <4>1
    <3>5. CASE freeSlots_ # nullptr
      <4>1. Len(F) = Len(FreeList) - 1 /\ Cardinality(slots') = Cardinality(slots)
        BY <3>1, <3>2, <3>5
      <4> QED BY <1>8, <2>1, <3>3, <4>1
    <3> QED BY <3>4, <3>5
  <2>5. Len(C) = Cardinality(blocks')
    <3>1. Len(Chain) = Cardinality(blocks)
      BY <1>7
    <3> QED BY <1>10, <1>12, <3>1
  <2>6. Cardinality(blocks') <= Cardinality(slots')
    BY <1>7, <1>8, <1>11, <1>12, <2>3
  <2> QED BY <2>1, <2>2, <2>4, <2>5, <2>6
<1>14. Nodes' = N /\ FreeList' = F /\ Chain' = C
  <2> DEFINE m2 == mem'
             n2 == Cardinality(slots')
             f2 == freeSlots_'
             c2 == currBlock_'
  <2>1. /\ Nodes' = Path(m2, n2, p, 1) /\ FreeList' = Path(m2, n2, f2, 0)
        /\ Chain' = Path(m2, n2, c2, 0)
    BY <1>1 DEF Nodes, FreeList, Chain
  <2>2. /\ Linked(m2, N, p, 1) /\ Linked(m2, F, f2, 0) /\ Linked(m2, C, c2, 0) /\ n2 \in Nat
    BY <1>4, <1>9, <1>10, <1>11 DEF N
  <2>3. Len(N) <= n2 + 1 /\ Len(F) <= n2 + 1 /\ Len(C) <= n2 + 1
    BY <1>11, <1>12, <1>13
  <2> HIDE DEF m2, n2, f2, c2
  <2>4. Path(m2, n2, p, 1) = N
    BY <2>2, <2>3, PathIsList
  <2>5. Path(m2, n2, f2, 0) = F
    BY <2>2, <2>3, PathIsList
  <2>6. Path(m2, n2, c2, 0) = C
    BY <2>2, <2>3, PathIsList
  <2> QED BY <2>1, <2>4, <2>5, <2>6
<1>15. Types'
  <2>1. mem' = [a \in Addresses |-> mem'[a]]
    BY <1>3 DEF Written
  <2>2. blocks' \subseteq Bases
    BY <1>5, <1>6, <1>7
  <2>3. slots' \subseteq Addresses
    BY <1>1, <1>7
  <2> QED BY <1>11, <1>12, <1>13, <2>1, <2>2, <2>3 DEF Types
<1>16. InSeq(N) \cup InSeq(F) = slots' /\ InSeq(N) \cap InSeq(F) = {}
  <2>1. InSeq(N) = InSeq(Nodes) \cup {p}
    BY <1>4 DEF N
  <2> QED BY <1>1, <1>5, <1>7, <1>9, <2>1
<1>17. Lists'
  BY <1>1, <1>4, <1>9, <1>10, <1>14, <1>16 DEF Lists, N
<1>18. EverySlotInOneList' /\ EveryBlockInChain'
  BY <1>10, <1>13, <1>14, <1>16 DEF EverySlotInOneList, EveryBlockInChain
<1>19. SlotsFit'
  <2>1. ASSUME NEW q \in slots' PROVE \E b \in blocks' : Fits(q, b)
    <3>1. CASE q = p
      <4>1. blocks \cup {base} \subseteq blocks' \cup {nullptr}
        BY <1>6
      <4> QED BY <1>5, <1>6, <3>1, <4>1, FirstSlotFits
    <3>2. CASE q # p
      BY <1>1, <1>6, <1>7, <2>1, <3>2, SlotFacts
    <3> QED BY <3>1, <3>2
  <2>2. \A q \in slots' : q % Align = 0
    BY <1>1, <1>5, <1>7, SlotFacts
  <2>3. ASSUME NEW q \in slots', NEW r \in slots', q # r PROVE ApartFrom(q, r)
    <3>1. ApartFrom(q, r) <=> ApartFrom(r, q)
      BY DEF ApartFrom
    <3> QED BY <1>1, <1>5, <1>7, <2>3, <3>1, SlotFacts
  <2> QED BY <2>1, <2>2, <2>3 DEF SlotsFit, Fits, ApartFrom
<1>20. Uncut'
  <2>1. CASE AllocateFree(p)
    BY <1>1, <1>5, <1>7, <1>11, <2>1 DEF AllocateFree, Uncut
  <2>2. CASE AllocateNext(p)
    <3>1. /\ p = currSlot_ /\ currSlot_' = p + SlotSize /\ currSlot_ < lastSlot_
          /\ UNCHANGED <<blocks, currBlock_, lastSlot_>>
      BY <2>2 DEF AllocateNext
    <3>2. currBlock_ # nullptr
      BY <1>7, <3>1 DEF Uncut, nullptr
    <3>3. /\ currBlock_ < p /\ lastSlot_ = LastSlot(currBlock_)
          /\ \A q \in slots : q \in Words(currBlock_) => q + SlotSize <= p
      BY <1>7, <3>1, <3>2 DEF Uncut
    <3>4. currBlock_ \in Nat /\ SlotSize \in Nat /\ Align \in Nat \ {0} /\ SlotSize % Align = 0
      BY <3>2, CurrentBlock, BasesAssumption, LayoutAssumption
    <3>5. p + SlotSize \in Nat /\ currBlock_ < p + SlotSize
      BY <1>5, <3>3, <3>4
    <3>6. (p + SlotSize) % Align = 0
      BY <1>5, <3>4, SumAligned
    <3>7. \A q \in slots : q \in Words(currBlock_) => q + SlotSize <= p + SlotSize
      <4>1. \A q \in slots : q \in Nat
        BY <1>7, SlotFacts
      <4> QED BY <1>5, <3>3, <3>4, <4>1
    <3>8. \A q \in slots' : q \in Words(currBlock_) => q + SlotSize <= p + SlotSize
      BY <1>1, <1>5, <3>4, <3>7
    <3> QED BY <3>1, <3>2, <3>3, <3>5, <3>6, <3>8 DEF Uncut
  <2>3. CASE AllocateBlock(p, base)
    <3>1. /\ base \in Bases \ blocks /\ p = FirstSlot(base) /\ currBlock_' = base
          /\ currSlot_' = p + SlotSize /\ lastSlot_' = LastSlot(base)
      BY <2>3 DEF AllocateBlock
    <3>2. base < p /\ p \in Nat /\ p % Align = 0 /\ base \in Nat /\ base # nullptr
      BY <3>1, FirstSlotFits
    <3>3. SlotSize \in Nat /\ Align \in Nat \ {0} /\ SlotSize % Align = 0
      BY LayoutAssumption
    <3>4. (p + SlotSize) % Align = 0
      BY <3>2, <3>3, SumAligned
    <3>5. p + SlotSize \in Nat /\ base < p + SlotSize
      BY <3>2, <3>3
    <3>6. \A q \in slots : ~ (q \in Words(base))
      <4>1. ASSUME NEW q \in slots, q \in Words(base) PROVE FALSE
        <5>1. PICK c \in blocks : c \in Bases /\ Fits(q, c)
          BY <1>7, SlotFacts
        <5>2. q \in Nat
          BY <1>7, SlotFacts
        <5>3. q \in Words(c)
          BY <5>1, <5>2, FittingSlot
        <5> QED BY <3>1, <4>1, <5>1, <5>3, OneBlock
      <4> QED BY <4>1
    <3>7. \A q \in slots' : q \in Words(base) => q + SlotSize <= p + SlotSize
      BY <1>1, <3>2, <3>3, <3>6
    <3> QED BY <3>1, <3>2, <3>4, <3>5, <3>7 DEF Uncut
  <2> QED BY <1>1, <2>1, <2>2, <2>3 DEF allocate
<1>21. IInv'
  BY <1>15, <1>17, <1>18, <1>19, <1>20 DEF IInv
<1>22. mem'[p] = v
  BY <1>3 DEF Written
<1> QED BY <1>4, <1>14, <1>21, <1>22 DEF N
(* Slots change from one list to the other, and nothing else happens.      *)
LEMMA Regrouped ==
  ASSUME IInv, UNCHANGED <<slots, blocks, currBlock_, currSlot_, lastSlot_>>,
         mem' = [a \in Addresses |-> mem'[a]],
         NEW N, NEW F,
         Linked(mem', N, head_', 1), Distinct(N),
         Linked(mem', F, freeSlots_', 0), Distinct(F),
         InSeq(N) \cup InSeq(F) = slots, InSeq(N) \cap InSeq(F) = {},
         Len(N) + Len(F) = Cardinality(slots),
         \A i \in 1..Len(Chain) : mem'[Chain[i]] = mem[Chain[i]]
  PROVE  IInv' /\ Nodes' = N /\ FreeList' = F
<1>1. Linked(mem', Chain, currBlock_, 0)
  <2>1. ASSUME NEW i \in 1..Len(Chain) PROVE Field(mem', Chain[i], 0) = Field(mem, Chain[i], 0)
    <3>1. Chain[i] \in Addresses
      BY DEF IInv, Lists, Linked
    <3> QED BY <3>1, FirstWord
  <2>2. Linked(mem, Chain, currBlock_, 0)
    BY DEF IInv, Lists
  <2> QED BY <2>1, <2>2, LinksKept
<1>2. /\ Len(N) \in Nat /\ Len(F) \in Nat /\ Len(Chain) \in Nat /\ Cardinality(slots) \in Nat
      /\ Len(Chain) <= Cardinality(slots)
  BY ListFacts DEF Linked
<1>3. Len(N) <= Cardinality(slots) + 1 /\ Len(F) <= Cardinality(slots) + 1
      /\ Len(Chain) <= Cardinality(slots) + 1
  BY <1>2
<1>4. Nodes' = N /\ FreeList' = F /\ Chain' = Chain
  <2> DEFINE m2 == mem'
             n2 == Cardinality(slots)
             h2 == head_'
             f2 == freeSlots_'
  <2>1. /\ Nodes' = Path(m2, n2, h2, 1) /\ FreeList' = Path(m2, n2, f2, 0)
        /\ Chain' = Path(m2, n2, currBlock_, 0)
    BY DEF Nodes, FreeList, Chain
  <2>2. Linked(m2, N, h2, 1) /\ Linked(m2, F, f2, 0) /\ Linked(m2, Chain, currBlock_, 0)
    BY <1>1
  <2>3. n2 \in Nat /\ Len(N) <= n2 + 1 /\ Len(F) <= n2 + 1 /\ Len(Chain) <= n2 + 1
    BY <1>2, <1>3
  <2> HIDE DEF m2, n2, h2, f2
  <2>4. Path(m2, n2, h2, 1) = N
    BY <2>2, <2>3, PathIsList
  <2>5. Path(m2, n2, f2, 0) = F
    BY <2>2, <2>3, PathIsList
  <2>6. Path(m2, n2, currBlock_, 0) = Chain
    BY <2>2, <2>3, PathIsList
  <2> QED BY <2>1, <2>4, <2>5, <2>6
<1>5. Types'
  BY DEF IInv, Types
<1>6. Lists'
  BY <1>1, <1>4 DEF Lists
<1>7. EverySlotInOneList' /\ EveryBlockInChain'
  BY <1>4 DEF IInv, EverySlotInOneList, EveryBlockInChain
<1>8. SlotsFit'
  BY DEF IInv, SlotsFit
<1>9. Uncut'
  BY DEF IInv, Uncut
<1> QED BY <1>4, <1>5, <1>6, <1>7, <1>8, <1>9 DEF IInv

LEMMA PopStep ==
  ASSUME IInv, pop
  PROVE  /\ IInv'
         /\ Len(Nodes) # 0 /\ head_ = Nodes[1] /\ Nodes' = Rest(Nodes)
         /\ \A i \in 1..Len(Nodes) : i # 1 => mem'[Nodes[i]] = mem[Nodes[i]]
<1>1. /\ head_ # nullptr /\ head_' = mem[head_ + 1]
      /\ mem' = [mem EXCEPT ![head_] = freeSlots_] /\ freeSlots_' = head_
      /\ UNCHANGED <<slots, blocks, currBlock_, currSlot_, lastSlot_>>
  BY DEF pop
<1>2. /\ Linked(mem, Nodes, head_, 1) /\ Linked(mem, FreeList, freeSlots_, 0)
      /\ Distinct(Nodes) /\ Distinct(FreeList) /\ InSeq(Nodes) \cap InSeq(FreeList) = {}
      /\ InSeq(Nodes) \cup InSeq(FreeList) = slots
      /\ Len(Nodes) + Len(FreeList) = Cardinality(slots)
      /\ Types /\ SlotsFit
  BY DEF IInv, Lists, EverySlotInOneList
<1>3. Len(Nodes) \in Nat /\ Len(Nodes) # 0 /\ head_ = Nodes[1] /\ 1 \in 1..Len(Nodes)
  BY <1>1, <1>2 DEF Linked
<1>4. /\ \A i \in 1..Len(Nodes) : Nodes[i] \in InSeq(Nodes) /\ Nodes[i] \in slots
      /\ \A i \in 1..Len(FreeList) : FreeList[i] \in InSeq(FreeList) /\ FreeList[i] \in slots
      /\ \A i \in 1..Len(Chain) : Chain[i] \in Bases
      /\ Len(FreeList) \in Nat
  BY ListFacts DEF IInv, Types
<1>5. head_ \in slots /\ head_ \in InSeq(Nodes) /\ head_ \in Addresses
  BY <1>2, <1>3, <1>4, SlotFacts
<1>6. /\ mem' = [a \in Addresses |-> mem'[a]]
      /\ mem'[head_] = freeSlots_ /\ \A a \in Addresses : a # head_ => mem'[a] = mem[a]
  <2>1. mem = [a \in Addresses |-> mem[a]]
    BY <1>2 DEF Types
  <2> QED BY <1>1, <1>5, <2>1
<1>7. ASSUME NEW i \in 1..Len(Nodes), Nodes[i] # head_
      PROVE  Field(mem', Nodes[i], 1) = Field(mem, Nodes[i], 1) /\ mem'[Nodes[i]] = mem[Nodes[i]]
  <2> DEFINE q == Nodes[i]
  <2>1. q \in slots /\ q # head_
    BY <1>4, <1>7
  <2> HIDE DEF q
  <2>2. q \in Addresses /\ q + 1 \in Addresses /\ q + 1 # head_
    BY <1>2, <1>5, <2>1, SlotFacts
  <2>3. mem'[q] = mem[q] /\ mem'[q + 1] = mem[q + 1]
    BY <1>6, <2>1, <2>2
  <2>4. Field(mem', q, 1) = Field(mem, q, 1)
    BY <2>3 DEF Field
  <2> QED BY <2>3, <2>4 DEF q
<1>8. /\ Linked(mem', Rest(Nodes), head_', 1) /\ Distinct(Rest(Nodes))
      /\ Len(Rest(Nodes)) = Len(Nodes) - 1 /\ InSeq(Rest(Nodes)) = InSeq(Nodes) \ {head_}
  <2>1. Field(mem, head_, 1) = head_'
    BY <1>1 DEF Field
  <2>2. /\ Linked(mem', Rest(Nodes), Field(mem, head_, 1), 1) /\ Distinct(Rest(Nodes))
        /\ Len(Rest(Nodes)) = Len(Nodes) - 1 /\ InSeq(Rest(Nodes)) = InSeq(Nodes) \ {head_}
    BY <1>1, <1>2, <1>7, LinkedRest
  <2> QED BY <2>1, <2>2
<1>9. /\ Linked(mem', OnTop(head_, FreeList), freeSlots_', 0)
      /\ Distinct(OnTop(head_, FreeList))
      /\ Len(OnTop(head_, FreeList)) = Len(FreeList) + 1
      /\ InSeq(OnTop(head_, FreeList)) = InSeq(FreeList) \cup {head_}
  <2>1. head_ \notin InSeq(FreeList)
    BY <1>2, <1>5
  <2>2. Field(mem', head_, 0) = freeSlots_
    BY <1>5, <1>6, FirstWord
  <2>3. ASSUME NEW i \in 1..Len(FreeList)
        PROVE  Field(mem', FreeList[i], 0) = Field(mem, FreeList[i], 0)
    <3> DEFINE q == FreeList[i]
    <3>1. q \in slots /\ q # head_
      BY <1>4, <2>1
    <3> HIDE DEF q
    <3>2. q \in Addresses
      BY <1>2, <3>1, SlotFacts
    <3>3. Field(mem', q, 0) = Field(mem, q, 0)
      BY <1>6, <3>1, <3>2, FirstWord
    <3> QED BY <3>3 DEF q
  <2>4. /\ Linked(mem', OnTop(head_, FreeList), head_, 0)
        /\ Distinct(OnTop(head_, FreeList))
        /\ Len(OnTop(head_, FreeList)) = Len(FreeList) + 1
        /\ InSeq(OnTop(head_, FreeList)) = InSeq(FreeList) \cup {head_}
    BY <1>2, <1>5, <2>1, <2>2, <2>3, LinkedOnTop
  <2> QED BY <1>1, <2>4
<1>10. \A i \in 1..Len(Chain) : mem'[Chain[i]] = mem[Chain[i]]
  <2>1. ASSUME NEW i \in 1..Len(Chain) PROVE mem'[Chain[i]] = mem[Chain[i]]
    <3>1. Chain[i] \in Addresses /\ Chain[i] # head_
      BY <1>2, <1>4, <1>5, SlotFacts, FirstSlotFits
    <3> QED BY <1>6, <3>1
  <2> QED BY <2>1
<1> DEFINE N == Rest(Nodes)
           F == OnTop(head_, FreeList)
<1>11. InSeq(N) \cup InSeq(F) = slots /\ InSeq(N) \cap InSeq(F) = {}
  BY <1>2, <1>5, <1>8, <1>9
<1>12. Len(N) + Len(F) = Cardinality(slots)
  <2>1. Len(N) = Len(Nodes) - 1 /\ Len(F) = Len(FreeList) + 1
    BY <1>8, <1>9
  <2>2. Len(Nodes) + Len(FreeList) = Cardinality(slots)
    BY <1>2
  <2> HIDE DEF N, F
  <2> QED BY <1>3, <1>4, <2>1, <2>2
<1>13. /\ Linked(mem', N, head_', 1) /\ Distinct(N)
       /\ Linked(mem', F, freeSlots_', 0) /\ Distinct(F)
  BY <1>8, <1>9
<1> HIDE DEF N, F
<1>14. IInv' /\ Nodes' = N
  BY <1>1, <1>6, <1>10, <1>11, <1>12, <1>13, Regrouped
<1>15. ASSUME NEW i \in 1..Len(Nodes), i # 1 PROVE mem'[Nodes[i]] = mem[Nodes[i]]
  <2>1. Nodes[i] # head_
    BY <1>2, <1>3, <1>15 DEF Distinct
  <2> QED BY <1>7, <2>1
<1> QED BY <1>3, <1>14, <1>15 DEF N

LEMMA ClearStep ==
  ASSUME IInv, clear
  PROVE  IInv' /\ Len(Nodes') = 0
<1>1. /\ mem' = [a \in Addresses |->
           IF a \in InSeq(Nodes)
           THEN LET i == CHOOSE k \in 1..Len(Nodes) : Nodes[k] = a
                IN  IF i = 1 THEN freeSlots_ ELSE Nodes[i - 1]
           ELSE mem[a]]
      /\ freeSlots_' = IF Nodes = <<>> THEN freeSlots_ ELSE Nodes[Len(Nodes)]
      /\ head_' = nullptr
      /\ UNCHANGED <<slots, blocks, currBlock_, currSlot_, lastSlot_>>
  BY DEF clear
<1>2. /\ Linked(mem, Nodes, head_, 1) /\ Linked(mem, FreeList, freeSlots_, 0)
      /\ Distinct(Nodes) /\ Distinct(FreeList) /\ InSeq(Nodes) \cap InSeq(FreeList) = {}
      /\ InSeq(Nodes) \cup InSeq(FreeList) = slots
      /\ Len(Nodes) + Len(FreeList) = Cardinality(slots)
      /\ Types /\ SlotsFit /\ Nodes \in Seq(Addresses)
  BY DEF IInv, Lists, EverySlotInOneList, Linked
<1>3. /\ \A i \in 1..Len(Nodes) : Nodes[i] \in InSeq(Nodes)
      /\ \A i \in 1..Len(FreeList) : FreeList[i] \in InSeq(FreeList) /\ FreeList[i] \in slots
      /\ \A i \in 1..Len(Chain) : Chain[i] \in Bases
      /\ Len(FreeList) \in Nat /\ Len(Nodes) \in Nat /\ Cardinality(slots) \in Nat
  BY ListFacts DEF IInv, Types
<1>4. \A q \in slots : q \in Addresses /\ q \notin Bases
  BY <1>2, SlotFacts
<1>5. \A a \in Addresses : a \notin InSeq(Nodes) => mem'[a] = mem[a]
  BY <1>1
<1>6. ASSUME NEW i \in 1..Len(Nodes)
      PROVE  mem'[Nodes[i]] = IF i = 1 THEN freeSlots_ ELSE Nodes[i - 1]
  <2>1. Nodes[i] \in Addresses /\ Nodes[i] \in InSeq(Nodes)
    BY <1>2, <1>3
  <2> DEFINE Place(a) == CHOOSE k \in 1..Len(Nodes) : Nodes[k] = a
  <2>2. Place(Nodes[i]) = i
    BY <1>2 DEF Distinct
  <2>3. \A a \in Addresses : a \in InSeq(Nodes) =>
          mem'[a] = IF Place(a) = 1 THEN freeSlots_ ELSE Nodes[Place(a) - 1]
    BY <1>1
  <2> HIDE DEF Place
  <2> QED BY <2>1, <2>2, <2>3
<1>7. \A i \in 1..Len(FreeList) : mem'[FreeList[i]] = mem[FreeList[i]]
  <2>1. ASSUME NEW i \in 1..Len(FreeList) PROVE mem'[FreeList[i]] = mem[FreeList[i]]
    <3>1. FreeList[i] \in Addresses /\ FreeList[i] \notin InSeq(Nodes)
      BY <1>2, <1>3, <1>4
    <3> QED BY <1>5, <3>1
  <2> QED BY <2>1
<1>8. \A i \in 1..Len(Chain) : mem'[Chain[i]] = mem[Chain[i]]
  <2>1. ASSUME NEW i \in 1..Len(Chain) PROVE mem'[Chain[i]] = mem[Chain[i]]
    <3>1. Chain[i] \in Addresses /\ Chain[i] \notin InSeq(Nodes)
      BY <1>2, <1>3, <1>4, FirstSlotFits
    <3> QED BY <1>5, <3>1
  <2> QED BY <2>1
<1> DEFINE F == TurnedOnto(Nodes, FreeList)
<1>9. /\ Linked(mem', F, freeSlots_', 0) /\ Distinct(F)
      /\ Len(F) = Len(Nodes) + Len(FreeList)
      /\ InSeq(F) = InSeq(Nodes) \cup InSeq(FreeList)
  <2> DEFINE m2 == mem'
             begin == freeSlots_'
  <2>1. \A i \in 1..Len(Nodes) : m2[Nodes[i]] = IF i = 1 THEN freeSlots_ ELSE Nodes[i - 1]
    BY <1>6
  <2>2. \A i \in 1..Len(FreeList) : m2[FreeList[i]] = mem[FreeList[i]]
    BY <1>7
  <2>3. begin = IF Nodes = <<>> THEN freeSlots_ ELSE Nodes[Len(Nodes)]
    BY <1>1
  <2>4. \A a \in InSeq(Nodes) : a \notin InSeq(FreeList)
    BY <1>2
  <2> HIDE DEF m2, begin
  <2>5. Turns(mem, m2, Nodes, FreeList, freeSlots_, begin)
    BY <1>2, <2>1, <2>2, <2>3, <2>4 DEF Turns
  <2>6. /\ Linked(m2, F, begin, 0) /\ Distinct(F)
        /\ Len(F) = Len(Nodes) + Len(FreeList)
        /\ InSeq(F) = InSeq(Nodes) \cup InSeq(FreeList)
    BY <1>2, <2>5, LinkedTurned
  <2> QED BY <2>6 DEF m2, begin
<1> HIDE DEF F
<1>10. /\ Linked(mem', <<>>, head_', 1) /\ Distinct(<<>>) /\ InSeq(<<>>) = {}
       /\ Len(<<>>) = 0
  BY <1>1, EmptyList
<1>11. Len(<<>>) + Len(F) = Cardinality(slots)
  BY <1>2, <1>3, <1>9, <1>10
<1>12. InSeq(<<>>) \cup InSeq(F) = slots /\ InSeq(<<>>) \cap InSeq(F) = {}
  BY <1>2, <1>9, <1>10
<1>13. mem' = [a \in Addresses |-> mem'[a]]
  BY <1>1
<1>14. IInv' /\ Nodes' = <<>>
  BY <1>1, <1>8, <1>9, <1>10, <1>11, <1>12, <1>13, Regrouped
<1> QED BY <1>10, <1>14
-----------------------------------------------------------------------------
(* A pool without blocks.                                                  *)
LEMMA EmptyPath ==
  ASSUME NEW m, NEW n \in Nat, NEW off \in Nat
  PROVE  Path(m, n, nullptr, off) = <<>>
<1>1. Linked(m, <<>>, nullptr, off) /\ Len(<<>>) <= n + 1
  BY EmptyList
<1> QED BY <1>1, PathIsList

LEMMA InitStep ==
  ASSUME Init
  PROVE  IInv /\ Len(Nodes) = 0
<1>1. /\ mem = [a \in Addresses |-> Junk] /\ blocks = {} /\ slots = {}
      /\ currBlock_ = nullptr /\ currSlot_ = nullptr /\ lastSlot_ = nullptr
      /\ freeSlots_ = nullptr /\ head_ = nullptr
  BY DEF Init, PoolInit
<1>2. IsFiniteSet({}) /\ Cardinality({}) = 0
  BY FS_EmptySet
<1>3. Nodes = <<>> /\ FreeList = <<>> /\ Chain = <<>>
  <2>1. Cardinality(slots) \in Nat
    BY <1>1, <1>2
  <2> QED BY <1>1, <2>1, EmptyPath DEF Nodes, FreeList, Chain
<1>4. Types
  BY <1>1, <1>2 DEF Types
<1>5. Lists
  BY <1>1, <1>3, EmptyList DEF Lists
<1>6. Uncut /\ SlotsFit
  BY <1>1 DEF Uncut, SlotsFit
<1>7. EverySlotInOneList /\ EveryBlockInChain
  BY <1>1, <1>2, <1>3, EmptyList DEF EverySlotInOneList, EveryBlockInChain
<1> QED BY <1>3, <1>4, <1>5, <1>6, <1>7, EmptyList DEF IInv

LEMMA DestroyStep ==
  ASSUME IInv, destroy
  PROVE  IInv' /\ Len(Nodes') = 0
<1>1. /\ mem' = [a \in Addresses |-> mem'[a]] /\ slots' = {}
      /\ currBlock_' = nullptr /\ currSlot_' = nullptr /\ lastSlot_' = nullptr
      /\ freeSlots_' = nullptr /\ head_' = nullptr
  BY DEF destroy
<1>2. blocks' = {}
  BY DEF destroy, IInv, EveryBlockInChain
<1>3. IsFiniteSet({}) /\ Cardinality({}) = 0
  BY FS_EmptySet
<1>4. Nodes' = <<>> /\ FreeList' = <<>> /\ Chain' = <<>>
  <2> DEFINE m2 == mem'
             n2 == Cardinality(slots')
  <2>1. n2 \in Nat
    BY <1>1, <1>3
  <2>2. /\ Nodes' = Path(m2, n2, nullptr, 1) /\ FreeList' = Path(m2, n2, nullptr, 0)
        /\ Chain' = Path(m2, n2, nullptr, 0)
    BY <1>1 DEF Nodes, FreeList, Chain
  <2> HIDE DEF m2, n2
  <2> QED BY <2>1, <2>2, EmptyPath
<1>5. Types'
  BY <1>1, <1>2, <1>3 DEF Types
<1>6. Lists'
  BY <1>1, <1>4, EmptyList DEF Lists
<1>7. Uncut' /\ SlotsFit'
  BY <1>1, <1>2 DEF Uncut, SlotsFit
<1>8. EverySlotInOneList' /\ EveryBlockInChain'
  BY <1>1, <1>2, <1>3, <1>4, EmptyList DEF EverySlotInOneList, EveryBlockInChain
<1> QED BY <1>4, <1>5, <1>6, <1>7, <1>8, EmptyList DEF IInv

(* The lists end, slots fit, and nothing is lost or given out twice        *)
(* (MemoryPool.h:46-100, StackAlloc.h).                                    *)
THEOREM PoolIsOrderly == Spec => []IInv
<1>1. Init => IInv
  BY InitStep
<1>2. IInv /\ [Next]_vars => IInv'
  <2> SUFFICES ASSUME IInv, [Next]_vars PROVE IInv'
    OBVIOUS
  <2>1. ASSUME NEW v \in Content, push(v) PROVE IInv'
    BY <2>1, PushStep
  <2>2. CASE pop
    BY <2>2, PopStep
  <2>3. CASE clear
    BY <2>3, ClearStep
  <2>4. CASE destroy
    BY <2>4, DestroyStep
  <2>5. CASE UNCHANGED vars
    <3>1. UNCHANGED <<mem, blocks, currBlock_, currSlot_, lastSlot_, freeSlots_, head_, slots>>
      BY <2>5 DEF vars, pool
    <3>2. Nodes' = Nodes /\ FreeList' = FreeList /\ Chain' = Chain
      BY <3>1 DEF Nodes, FreeList, Chain
    <3> QED BY <3>1, <3>2 DEF IInv, Types, Lists, Uncut, SlotsFit, EverySlotInOneList,
                              EveryBlockInChain
  <2> QED BY <2>1, <2>2, <2>3, <2>4, <2>5 DEF Next
<1> QED BY <1>1, <1>2, PTL DEF Spec

(* Every slot lies in a block, aligned, behind the block's link, and apart *)
(* from every other slot, for every layout (MemoryPool.h:56-86).           *)
THEOREM EverySlotFits == Spec => []SlotsFit
<1>1. IInv => SlotsFit
  BY DEF IInv
<1> QED BY <1>1, PoolIsOrderly, PTL

(* A slot is in the stack or in the free list, not in both nor twice, with *)
(* both lists in the memory of the slots (MemoryPool.h:93-100).            *)
THEOREM NoSlotLost == Spec => []EverySlotInOneList
<1>1. IInv => EverySlotInOneList
  BY DEF IInv
<1> QED BY <1>1, PoolIsOrderly, PTL

(* The destructor finds every block once (MemoryPool.h:33-43).             *)
THEOREM NoBlockLost == Spec => []EveryBlockInChain
<1>1. IInv => EveryBlockInChain
  BY DEF IInv
<1> QED BY <1>1, PoolIsOrderly, PTL

-----------------------------------------------------------------------------
(* The data of the nodes, from the top of the stack.                       *)
Items == [i \in 1..Len(Nodes) |-> mem[Nodes[i]]]

LEMMA SequenceOnTop ==
  ASSUME NEW v, NEW n \in Nat, NEW f, f = [i \in 1..n |-> f[i]]
  PROVE  <<v>> \o f = [i \in 1..(n + 1) |-> IF i = 1 THEN v ELSE f[i - 1]]
<1> DEFINE S == {v} \cup {f[i] : i \in 1..n}
           g == [i \in 1..(n + 1) |-> IF i = 1 THEN v ELSE f[i - 1]]
           h == <<v>> \o f
<1>1. f \in [1..n -> S]
  OBVIOUS
<1>2. f \in Seq(S) /\ Len(f) = n
  BY <1>1, IsSequence
<1>3. <<v>> \in Seq(S) /\ Len(<<v>>) = 1 /\ <<v>>[1] = v
  OBVIOUS
<1> HIDE DEF S
<1>4. h \in Seq(S) /\ Len(h) = n + 1
  BY <1>2, <1>3
<1>5. \A i \in 1..(n + 1) : h[i] = IF i = 1 THEN v ELSE f[i - 1]
  BY <1>2, <1>3
<1> HIDE DEF h
<1>6. h = [i \in 1..(n + 1) |-> h[i]]
  BY <1>4
<1> QED BY <1>5, <1>6 DEF h

LEMMA SequenceRest ==
  ASSUME NEW n \in Nat, n # 0, NEW f, f = [i \in 1..n |-> f[i]]
  PROVE  f # <<>> /\ Head(f) = f[1] /\ Tail(f) = [i \in 1..(n - 1) |-> f[i + 1]]
<1> DEFINE S == {f[i] : i \in 1..n}
<1>1. f \in [1..n -> S]
  OBVIOUS
<1>2. f \in Seq(S) /\ Len(f) = n
  BY <1>1, IsSequence
<1> HIDE DEF S
<1> QED BY <1>2

(* Over memory that is written and reused, a stack (StackAlloc.h).         *)
THEOREM StackOnPool == Spec => ImplementsStack
<1>1. Init => Abstract!Init
  <2> SUFFICES ASSUME Init PROVE Abstract!Init
    OBVIOUS
  <2>1. Items = <<>>
    BY InitStep DEF Items
  <2> QED BY <2>1 DEF Abstract!Init, Init, Items
<1>2. IInv /\ [Next]_vars => [Abstract!Next]_(Abstract!vars)
  <2> SUFFICES ASSUME IInv, [Next]_vars PROVE [Abstract!Next]_(Abstract!vars)
    OBVIOUS
  <2>1. Len(Nodes) \in Nat
    BY ListFacts
  <2>2. ASSUME NEW v \in Content, push(v) PROVE Abstract!Push(v)
    <3>1. PICK p : /\ Nodes' = OnTop(p, Nodes) /\ mem'[p] = v
                   /\ \A i \in 1..Len(Nodes) : mem'[Nodes[i]] = mem[Nodes[i]]
      BY <2>2, PushStep
    <3> DEFINE n == Len(Nodes)
    <3>2. Nodes' = [i \in 1..(n + 1) |-> IF i = 1 THEN p ELSE Nodes[i - 1]]
      BY <3>1 DEF OnTop
    <3>3. Items' = [i \in 1..Len(Nodes') |-> mem'[Nodes'[i]]]
      BY DEF Items
    <3>4. Items = [i \in 1..n |-> mem[Nodes[i]]]
      BY DEF Items
    <3>5. \A i \in 1..n : mem'[Nodes[i]] = mem[Nodes[i]]
      BY <3>1
    <3> HIDE DEF n
    <3>6. n \in Nat /\ Len(Nodes') = n + 1
      <4>1. n \in Nat
        BY <2>1 DEF n
      <4> QED BY <3>2, <4>1
    <3>7. Items' = [i \in 1..(n + 1) |-> IF i = 1 THEN v ELSE Items[i - 1]]
      <4>1. ASSUME NEW i \in 1..(n + 1)
            PROVE  mem'[Nodes'[i]] = IF i = 1 THEN v ELSE Items[i - 1]
        <5>1. CASE i = 1
          BY <3>1, <3>2, <5>1
        <5>2. CASE i # 1
          <6>1. i - 1 \in 1..n
            BY <3>6, <5>2
          <6>2. Nodes'[i] = Nodes[i - 1]
            BY <3>2, <5>2
          <6>3. Items[i - 1] = mem[Nodes[i - 1]]
            BY <3>4, <6>1
          <6> QED BY <3>5, <5>2, <6>1, <6>2, <6>3
        <5> QED BY <5>1, <5>2
      <4> QED BY <3>3, <3>6, <4>1
    <3>8. Items' = <<v>> \o Items
      BY <3>4, <3>6, <3>7, SequenceOnTop
    <3>9. UNCHANGED returned
      BY <2>2 DEF push
    <3> QED BY <3>8, <3>9 DEF Abstract!Push, Items
  <2>3. CASE pop
    <3>1. /\ Len(Nodes) # 0 /\ head_ = Nodes[1] /\ Nodes' = Rest(Nodes)
          /\ \A i \in 1..Len(Nodes) : i # 1 => mem'[Nodes[i]] = mem[Nodes[i]]
      BY <2>3, PopStep
    <3> DEFINE n == Len(Nodes)
    <3>2. Nodes' = [i \in 1..(n - 1) |-> Nodes[i + 1]]
      BY <3>1 DEF Rest
    <3>3. Items' = [i \in 1..Len(Nodes') |-> mem'[Nodes'[i]]]
      BY DEF Items
    <3>4. Items = [i \in 1..n |-> mem[Nodes[i]]]
      BY DEF Items
    <3>5. /\ \A i \in 1..n : i # 1 => mem'[Nodes[i]] = mem[Nodes[i]]
          /\ n \in Nat /\ n # 0
      BY <2>1, <3>1
    <3> HIDE DEF n
    <3>6. n - 1 \in Nat /\ Len(Nodes') = n - 1
      <4>1. n - 1 \in Nat
        BY <3>5
      <4> QED BY <3>2, <4>1
    <3>7. Items' = [i \in 1..(n - 1) |-> Items[i + 1]]
      <4>1. ASSUME NEW i \in 1..(n - 1) PROVE mem'[Nodes'[i]] = Items[i + 1]
        <5>1. i + 1 \in 1..n /\ i + 1 # 1
          BY <3>5
        <5>2. Nodes'[i] = Nodes[i + 1] /\ Items[i + 1] = mem[Nodes[i + 1]]
          BY <3>2, <3>4, <5>1
        <5> QED BY <3>5, <5>1, <5>2
      <4> QED BY <3>3, <3>6, <4>1
    <3>8. Items # <<>> /\ Head(Items) = Items[1] /\ Tail(Items) = [i \in 1..(n - 1) |-> Items[i + 1]]
      BY <3>4, <3>5, SequenceRest
    <3>9. returned' = Items[1]
      <4>1. 1 \in 1..n
        BY <3>5
      <4> QED BY <2>3, <3>1, <3>4, <4>1 DEF pop
    <3>10. Items # <<>> /\ returned' = Head(Items) /\ Items' = Tail(Items)
      BY <3>7, <3>8, <3>9
    <3> QED BY <3>10 DEF Abstract!Next, Abstract!Pop, Items
  <2>4. ASSUME Len(Nodes') = 0, UNCHANGED returned PROVE Abstract!Next
    <3>1. Items' = <<>>
      BY <2>4 DEF Items
    <3> QED BY <2>4, <3>1 DEF Abstract!Next, Abstract!Clear, Items
  <2>5. CASE clear
    BY <2>4, <2>5, ClearStep DEF clear
  <2>6. CASE destroy
    BY <2>4, <2>6, DestroyStep DEF destroy
  <2>7. CASE UNCHANGED vars
    <3>1. UNCHANGED <<mem, head_, slots, returned>>
      BY <2>7 DEF vars
    <3> QED BY <3>1 DEF Nodes, Abstract!vars
  <2> QED BY <2>2, <2>3, <2>5, <2>6, <2>7 DEF Next, Abstract!Next
<1> QED BY <1>1, <1>2, PoolIsOrderly, PTL DEF Spec, ImplementsStack, Abstract!Spec
=============================================================================
