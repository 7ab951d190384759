------------------------ MODULE ForkSemaphoreProofs ------------------------
(***************************************************************************)
(* The handshake of ForkSemaphore, for every number of runs.               *)
(***************************************************************************)
EXTENDS ForkSemaphore, TLAPS

Unreleased == {"acquired", "initialised", "waiting", "asleep", "passed"}
BeforeSemaphore == {"initialised", "waiting", "asleep"}

Types ==
  /\ set \in Runs \cup {0}
  /\ semval \in Int
  /\ parent \in [Runs -> Unreleased \cup {"new", "refused", "released", "killed"}]
  /\ child \in [Runs -> {"none", "sleeping", "posted", "exited", "killed"}]

(* Whoever may still use the set has it, so nobody else meets its value.   *)
OwnersHaveSet ==
  \A r \in Runs : parent[r] \in Unreleased \/ child[r] = "sleeping" => set = r

(* A child exists only behind the fork.                                    *)
ForkedOnce ==
  \A r \in Runs : parent[r] \in {"new", "refused", "acquired", "initialised"} => child[r] = "none"

(* Until the parent is past it the semaphore is up only while its child    *)
(* has posted and lives.                                                   *)
ValueIsPost ==
  \A r \in Runs :
    parent[r] \in BeforeSemaphore => semval = IF child[r] = "posted" THEN 1 ELSE 0

IInv == Types /\ OwnersHaveSet /\ ForkedOnce /\ ValueIsPost /\ ParentAfterChild

LEMMA InitHolds == Init => IInv
BY DEF Init, IInv, Types, OwnersHaveSet, ForkedOnce, ValueIsPost, ParentAfterChild, Unreleased,
       BeforeSemaphore

(* A step of the parent of run r up to its fork.                           *)
LEMMA StartHolds ==
  ASSUME IInv, NEW r \in Runs,
         AcquireBinarySemaphore(r) \/ InitializeBinarySemaphore(r) \/ Fork(r)
  PROVE  IInv'
<1> USE DEF IInv, Types, Unreleased, BeforeSemaphore, Moves
<1>1. CASE AcquireBinarySemaphore(r)
  <2>1. Types'
    BY <1>1 DEF AcquireBinarySemaphore
  <2>2. OwnersHaveSet'
    <3>1. 0 \notin Runs
      BY DEF Runs
    <3>2. CASE set = 0
      BY <1>1, <3>1, <3>2 DEF AcquireBinarySemaphore, OwnersHaveSet
    <3>3. CASE set # 0
      BY <1>1, <3>3 DEF AcquireBinarySemaphore, OwnersHaveSet
    <3> QED BY <3>2, <3>3
  <2>3. ForkedOnce'
    BY <1>1 DEF AcquireBinarySemaphore, ForkedOnce
  <2>4. ValueIsPost'
    BY <1>1 DEF AcquireBinarySemaphore, ValueIsPost, OwnersHaveSet, ForkedOnce
  <2>5. ParentAfterChild'
    BY <1>1 DEF AcquireBinarySemaphore, ParentAfterChild, ValueIsPost, OwnersHaveSet, ForkedOnce
  <2> QED BY <2>1, <2>2, <2>3, <2>4, <2>5
<1>2. CASE InitializeBinarySemaphore(r)
  <2>1. Types'
    BY <1>2 DEF InitializeBinarySemaphore
  <2>2. OwnersHaveSet'
    BY <1>2 DEF InitializeBinarySemaphore, OwnersHaveSet
  <2>3. ForkedOnce'
    BY <1>2 DEF InitializeBinarySemaphore, ForkedOnce
  <2>4. ValueIsPost'
    BY <1>2 DEF InitializeBinarySemaphore, ValueIsPost, OwnersHaveSet, ForkedOnce
  <2>5. ParentAfterChild'
    BY <1>2 DEF InitializeBinarySemaphore, ParentAfterChild, ValueIsPost, OwnersHaveSet, ForkedOnce
  <2> QED BY <2>1, <2>2, <2>3, <2>4, <2>5
<1>3. CASE Fork(r)
  <2>1. Types'
    BY <1>3 DEF Fork
  <2>2. OwnersHaveSet'
    BY <1>3 DEF Fork, OwnersHaveSet
  <2>3. ForkedOnce'
    BY <1>3 DEF Fork, ForkedOnce
  <2>4. ValueIsPost'
    BY <1>3 DEF Fork, ValueIsPost, OwnersHaveSet, ForkedOnce
  <2>5. ParentAfterChild'
    BY <1>3 DEF Fork, ParentAfterChild, ValueIsPost, OwnersHaveSet, ForkedOnce
  <2> QED BY <2>1, <2>2, <2>3, <2>4, <2>5
<1> QED BY <1>1, <1>2, <1>3

(* The operations on the semaphore.                                        *)
LEMMA SemaphoreHolds ==
  ASSUME IInv, NEW r \in Runs,
         WaitBinarySemaphore(r) \/ PostBinarySemaphore(r) \/ ReleaseBinarySemaphore(r)
  PROVE  IInv'
<1> USE DEF IInv, Types, Unreleased, BeforeSemaphore, Moves
<1>1. CASE WaitBinarySemaphore(r)
  <2>1. Types'
    BY <1>1 DEF WaitBinarySemaphore
  <2>2. OwnersHaveSet'
    BY <1>1 DEF WaitBinarySemaphore, OwnersHaveSet
  <2>3. ForkedOnce'
    BY <1>1 DEF WaitBinarySemaphore, ForkedOnce
  <2>4. ValueIsPost'
    BY <1>1 DEF WaitBinarySemaphore, ValueIsPost, OwnersHaveSet, ForkedOnce
  <2>5. ParentAfterChild'
    BY <1>1 DEF WaitBinarySemaphore, ParentAfterChild, ValueIsPost, OwnersHaveSet, ForkedOnce
  <2> QED BY <2>1, <2>2, <2>3, <2>4, <2>5
<1>2. CASE PostBinarySemaphore(r)
  <2>1. Types'
    BY <1>2 DEF PostBinarySemaphore
  <2>2. OwnersHaveSet'
    BY <1>2 DEF PostBinarySemaphore, OwnersHaveSet
  <2>3. ForkedOnce'
    BY <1>2 DEF PostBinarySemaphore, ForkedOnce
  <2>4. ValueIsPost'
    BY <1>2 DEF PostBinarySemaphore, ValueIsPost, OwnersHaveSet, ForkedOnce
  <2>5. ParentAfterChild'
    BY <1>2 DEF PostBinarySemaphore, ParentAfterChild, ValueIsPost, OwnersHaveSet, ForkedOnce
  <2> QED BY <2>1, <2>2, <2>3, <2>4, <2>5
<1>3. CASE ReleaseBinarySemaphore(r)
  <2>1. Types'
    BY <1>3 DEF ReleaseBinarySemaphore
  <2>2. OwnersHaveSet'
    BY <1>3 DEF ReleaseBinarySemaphore, OwnersHaveSet, ParentAfterChild
  <2>3. ForkedOnce'
    BY <1>3 DEF ReleaseBinarySemaphore, ForkedOnce
  <2>4. ValueIsPost'
    BY <1>3 DEF ReleaseBinarySemaphore, ValueIsPost, OwnersHaveSet, ForkedOnce
  <2>5. ParentAfterChild'
    BY <1>3 DEF ReleaseBinarySemaphore, ParentAfterChild, ValueIsPost, OwnersHaveSet, ForkedOnce
  <2> QED BY <2>1, <2>2, <2>3, <2>4, <2>5
<1> QED BY <1>1, <1>2, <1>3

(* The end of a process, and what the kernel takes back.                   *)
LEMMA EndHolds ==
  ASSUME IInv, NEW r \in Runs, ChildExits(r) \/ Kill(r)
  PROVE  IInv'
<1> USE DEF IInv, Types, Unreleased, BeforeSemaphore
<1>1. CASE ChildExits(r) \/ KillChild(r)
  <2>1. Types'
    BY <1>1 DEF ChildExits, KillChild, ChildEnds
  <2>2. OwnersHaveSet'
    BY <1>1 DEF ChildExits, KillChild, ChildEnds, OwnersHaveSet
  <2>3. ForkedOnce'
    BY <1>1 DEF ChildExits, KillChild, ChildEnds, ForkedOnce
  <2>4. ValueIsPost'
    BY <1>1 DEF ChildExits, KillChild, ChildEnds, ValueIsPost, OwnersHaveSet, ForkedOnce
  <2>5. ParentAfterChild'
    BY <1>1 DEF ChildExits, KillChild, ChildEnds, ParentAfterChild, ValueIsPost, OwnersHaveSet, ForkedOnce
  <2> QED BY <2>1, <2>2, <2>3, <2>4, <2>5
<1>2. CASE KillParent(r)
  <2>1. Types'
    BY <1>2 DEF KillParent
  <2>2. OwnersHaveSet'
    BY <1>2 DEF KillParent, OwnersHaveSet
  <2>3. ForkedOnce'
    BY <1>2 DEF KillParent, ForkedOnce
  <2>4. ValueIsPost'
    BY <1>2 DEF KillParent, ValueIsPost, OwnersHaveSet, ForkedOnce
  <2>5. ParentAfterChild'
    BY <1>2 DEF KillParent, ParentAfterChild, ValueIsPost, OwnersHaveSet, ForkedOnce
  <2> QED BY <2>1, <2>2, <2>3, <2>4, <2>5
<1> QED BY <1>1, <1>2 DEF Kill

(* The parent comes past the semaphore only after its own child has        *)
(* posted, whatever earlier runs left behind (fork_sem.cpp:73).            *)
THEOREM Handshake == Spec => []ParentAfterChild
<1>1. Init => IInv
  BY InitHolds
<1>2. IInv /\ [Next]_vars => IInv'
  <2> SUFFICES ASSUME IInv, [Next]_vars PROVE IInv'
    OBVIOUS
  <2>1. ASSUME NEW r \in Runs, AcquireBinarySemaphore(r) \/ Parent(r) \/ Child(r) \/ Kill(r)
        PROVE  IInv'
    BY <2>1, StartHolds, SemaphoreHolds, EndHolds DEF Parent, Child
  <2>2. CASE UNCHANGED vars
    BY <2>2 DEF vars, IInv, Types, OwnersHaveSet, ForkedOnce, ValueIsPost, ParentAfterChild
  <2> QED BY <2>1, <2>2 DEF Next
<1>3. IInv => ParentAfterChild
  BY DEF IInv
<1> QED BY <1>1, <1>2, <1>3, PTL DEF Spec
=============================================================================
