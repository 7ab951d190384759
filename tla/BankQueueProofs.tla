-------------------------- MODULE BankQueueProofs --------------------------
(***************************************************************************)
(* The invariants of the bank simulation, for every number of windows,     *)
(* runs and customers and every source of random numbers; and the linked   *)
(* list of its queues, for every number of addresses.                      *)
(***************************************************************************)
EXTENDS BankQueue, LinkedQueue, FiniteSetTheorems, SequenceTheorems, WellFoundedInduction, TLAPS

Event == [cur_time : Nat, event_type : Windows \cup {ARRIVAL}]
EventAt(time, type) == [cur_time |-> time, event_type |-> type]
Visitor == [ticket : Nat, arrive_time : Nat, duration : Nat]

Entries(L) == {L[k] : k \in 1..Len(L)}

(* What a list of events is about. *)
Kinds(L) == {L[k].event_type : k \in 1..Len(L)}

(* orderEnqueue keeps a list in order. *)
InOrder(L) == \A i, j \in 1..Len(L) : i < j => L[i].cur_time <= L[j].cur_time

(* A list has one arrival at most, and one departure at most per window.   *)
OnePerKind(L) == \A i, j \in 1..Len(L) : L[i].event_type = L[j].event_type => i = j

(* A list of events of which none is over at time t. *)
Agenda(L, t) ==
  /\ L \in Seq(Event)
  /\ InOrder(L)
  /\ OnePerKind(L)
  /\ \A k \in 1..Len(L) : t <= L[k].cur_time

(* The events to come, the current one included, and what they are about.  *)
DueEvents == Entries(event_list) \cup {current_event}
Due == Kinds(event_list) \cup {current_event.event_type}

Types ==
  /\ current_event \in Event \cup {NoEvent}
  /\ event_list \in Seq(Event)
  /\ customer_list \in Seq(Visitor)
  /\ windows \in [Windows -> [status : {"IDLE", "SERVICE"}, customer : Visitor]]
  /\ total_customer_stay_time \in Nat /\ total_customer_wait_time \in Nat
  /\ arrived \in Nat /\ departed \in Nat

(* What is scheduled is still to come, the next arrival and the departure  *)
(* of each window once at most, the current event included.                *)
Calendar ==
  /\ current_event = NoEvent => event_list = <<>>
  /\ current_event # NoEvent => Agenda(event_list, Now)
  /\ current_event.event_type \notin Kinds(event_list)

(* A window with a departure to come is busy; before closing time no other *)
(* window is.                                                              *)
ServicesDue ==
  \A i \in Windows :
    /\ i \in Due => i \in Busy
    /\ i \in Busy /\ current_event # NoEvent /\ Now < EndTime => i \in Due

(* Nobody leaves before the service can have ended: it has begun after the *)
(* customer's arrival and lasts for the customer's duration.               *)
ServedInFull ==
  \A e \in DueEvents :
    e.event_type \in Windows =>
      windows[e.event_type].customer.arrive_time + windows[e.event_type].customer.duration
        <= e.cur_time

(* Customers have come before now, those at a window before those who wait.*)
ArrivalsInOrder ==
  /\ \A k \in 1..Len(customer_list) :
       /\ current_event # NoEvent => customer_list[k].arrive_time <= Now
       /\ \A j \in 1..k : customer_list[j].arrive_time <= customer_list[k].arrive_time
       /\ \A i \in Busy : windows[i].customer.arrive_time <= customer_list[k].arrive_time
  /\ current_event # NoEvent => \A i \in Busy : windows[i].customer.arrive_time <= Now

WaitsWithinStays == total_customer_wait_time <= total_customer_stay_time

IInv ==
  /\ Types /\ Calendar /\ ServicesDue /\ ServedInFull /\ ArrivalsInOrder /\ WaitsWithinStays
  /\ NobodyWaitsInVain /\ FirstComeFirstServed

(* A set of numbers has a least one: the natural numbers are well ordered. *)
LEMMA LeastNumber ==
  ASSUME NEW T \in SUBSET Nat, T # {}
  PROVE  \E n \in T : \A m \in T : n <= m
<1> DEFINE R == OpToRel(<, Nat)
<1>1. IsWellFoundedOn(R, Nat)
  BY NatLessThanWellFounded
<1>2. \A i, j \in Nat : i < j => <<i, j>> \in R
  BY DEF OpToRel
<1> HIDE DEF R
<1>3. PICK n \in T : \A m \in T : ~ (<<m, n>> \in R)
  BY <1>1, WFMin
<1>4. ASSUME NEW m \in T PROVE n <= m
  <2>1. ~(<<m, n>> \in R)
    BY <1>3
  <2>2. ~(m < n)
    BY <1>2, <2>1
  <2> QED BY <2>2
<1> QED BY <1>4

(* getIdleServiceWindow finds a window when there is one. *)
LEMMA IdleWindowFound == IdleWindows # {} => IdleServiceWindow \in IdleWindows
<1> SUFFICES ASSUME IdleWindows # {} PROVE IdleServiceWindow \in IdleWindows
  OBVIOUS
<1>1. IdleWindows \in SUBSET Nat
  BY SizesAssumption DEF IdleWindows, Windows
<1>2. \E i \in IdleWindows : \A j \in IdleWindows : i <= j
  BY <1>1, LeastNumber
<1> QED BY <1>2 DEF IdleServiceWindow

(* The elements of a list L that have to stay behind one of time t.        *)
NotBefore(L, t) == {i \in 1..Len(L) : ~ (L[i].cur_time < t)}

(* Where orderEnqueue puts an element e of a list L: S is what results. *)
PutAt(L, e, S, p) ==
  /\ Len(S) = Len(L) + 1
  /\ \A j \in 1..(Len(L) + 1) : S[j] = IF j < p THEN L[j] ELSE IF j = p THEN e ELSE L[j - 1]
  /\ \A j \in 1..(p - 1) : L[j].cur_time < e.cur_time
  /\ p <= Len(L) => L[p].cur_time >= e.cur_time

(* orderEnqueue at work on a list. *)
InTime(L, e) ==
  LET I == NotBefore(L, e.cur_time)
      i == IF I # {} THEN Min(I) ELSE 0
  IN  IF i = 0 THEN Append(L, e) ELSE InsertAt(L, i, e)

LEMMA InsertionPoint ==
  ASSUME NEW E, \A x \in E : x.cur_time \in Nat, NEW L \in Seq(E), NEW e \in E,
         NEW ins, ins = InTime(L, e)
  PROVE  ins \in Seq(E) /\ \E p \in 1..(Len(L) + 1) : PutAt(L, e, ins, p)
<1> DEFINE I == NotBefore(L, e.cur_time)
<1>0. Len(L) \in Nat /\ (\A i \in 1..Len(L) : L[i] \in E) /\ \A x \in E : x.cur_time \in Nat
  BY ElementOfSeq, LenProperties
<1> DEFINE m == Min(I)
<1>1. ins = LET i == IF I # {} THEN m ELSE 0
            IN IF i = 0 THEN Append(L, e) ELSE InsertAt(L, i, e)
  BY DEF InTime
<1> USE DEF NotBefore
<1>2. CASE I = {}
  <2>1. ins = Append(L, e)
    BY <1>1, <1>2
  <2>2. \A j \in 1..Len(L) : L[j].cur_time < e.cur_time
    BY <1>2
  <2>3. Append(L, e) \in Seq(E) /\ Len(Append(L, e)) = Len(L) + 1
        /\ (\A j \in 1..Len(L) : Append(L, e)[j] = L[j]) /\ Append(L, e)[Len(L) + 1] = e
    BY AppendProperties
  <2>4. Len(L) + 1 \in 1..(Len(L) + 1) /\ ~ (Len(L) + 1 <= Len(L)) /\ (Len(L) + 1) - 1 = Len(L)
    BY <1>0
  <2>5. ins \in Seq(E) /\ Len(ins) = Len(L) + 1
    BY <2>1, <2>3
  <2>6. \A j \in 1..(Len(L) + 1) : ins[j] =
          IF j < Len(L) + 1 THEN L[j] ELSE IF j = Len(L) + 1 THEN e ELSE L[j - 1]
    BY <1>0, <2>1, <2>3
  <2> QED BY <1>0, <2>2, <2>4, <2>5, <2>6 DEF PutAt
<1>3. CASE I # {}
  <2>1. m \in I /\ \A i \in I : m <= i
    <3>1. \E n \in I : \A i \in I : n <= i
      BY <1>0, <1>3, LeastNumber, I \in SUBSET Nat
    <3> HIDE DEF I
    <3> QED BY <3>1 DEF Min
  <2>2. m \in 1..Len(L) /\ L[m].cur_time >= e.cur_time
        /\ \A j \in 1..(m - 1) : L[j].cur_time < e.cur_time
    <3>0. m \in 1..Len(L)
      <4> HIDE DEF m
      <4> QED BY <2>1
    <3>1. \A j \in 1..(m - 1) : j \in 1..Len(L) /\ j \notin I
      <4> HIDE DEF m, I
      <4> QED BY <1>0, <2>1, <3>0
    <3>2. ~ (L[m].cur_time < e.cur_time)
      BY <2>1
    <3>3. \A j \in 1..(m - 1) : L[j].cur_time < e.cur_time
      BY <3>1
    <3>4. L[m].cur_time \in Nat /\ e.cur_time \in Nat
      BY <1>0, <3>0
    <3> QED BY <3>0, <3>2, <3>3, <3>4
  <2> HIDE DEF m
  <2>3. ins = InsertAt(L, m, e)
    BY <1>1, <1>3, <2>2
  <2> DEFINE a == SubSeq(L, 1, m - 1)
             b == SubSeq(L, m, Len(L))
  <2>4. ins = a \o <<e>> \o b
    BY <2>3 DEF InsertAt
  <2>5. a \in Seq(E) /\ Len(a) = m - 1 /\ \A j \in 1..(m - 1) : a[j] = L[j]
    BY <1>0, <2>2, SubSeqProperties
  <2>6. b \in Seq(E) /\ Len(b) = Len(L) - m + 1
        /\ \A j \in 1..(Len(L) - m + 1) : b[j] = L[m + j - 1]
    BY <1>0, <2>2, SubSeqProperties
  <2> HIDE DEF a, b, I
  <2>7. a \o <<e>> \in Seq(E) /\ Len(a \o <<e>>) = m
        /\ \A j \in 1..m : (a \o <<e>>)[j] = IF j < m THEN L[j] ELSE e
    <3>1. <<e>> \in Seq(E) /\ Len(<<e>>) = 1 /\ <<e>>[1] = e
      OBVIOUS
    <3> HIDE DEF a
    <3>2. /\ a \o <<e>> \in Seq(E)
          /\ Len(a \o <<e>>) = Len(a) + 1
          /\ \A j \in 1..(Len(a) + 1) :
               (a \o <<e>>)[j] = IF j <= Len(a) THEN a[j] ELSE <<e>>[j - Len(a)]
      BY <2>5, <3>1, ConcatProperties
    <3> QED BY <1>0, <2>2, <2>5, <3>1, <3>2
  <2>8. ins \in Seq(E) /\ Len(ins) = Len(L) + 1
        /\ \A j \in 1..(Len(L) + 1) : ins[j] =
             IF j <= m THEN (a \o <<e>>)[j] ELSE b[j - m]
    <3> DEFINE c == a \o <<e>>
    <3>1. c \in Seq(E) /\ Len(c) = m
      BY <2>7
    <3> HIDE DEF c
    <3>2. /\ c \o b \in Seq(E)
          /\ Len(c \o b) = Len(c) + Len(b)
          /\ \A j \in 1..(Len(c) + Len(b)) :
               (c \o b)[j] = IF j <= Len(c) THEN c[j] ELSE b[j - Len(c)]
      BY <2>6, <3>1, ConcatProperties
    <3>3. Len(c) + Len(b) = Len(L) + 1
      BY <1>0, <2>2, <2>6, <3>1
    <3>4. ins = c \o b
      BY <2>4 DEF c
    <3> QED BY <3>1, <3>2, <3>3, <3>4 DEF c
  <2>9. \A j \in 1..(Len(L) + 1) : ins[j] =
          IF j < m THEN L[j] ELSE IF j = m THEN e ELSE L[j - 1]
    <3> SUFFICES ASSUME NEW j \in 1..(Len(L) + 1)
                 PROVE  ins[j] = IF j < m THEN L[j] ELSE IF j = m THEN e ELSE L[j - 1]
      OBVIOUS
    <3>1. CASE j <= m
      <4>0. j \in 1..m
        BY <1>0, <2>2, <3>1
      <4> DEFINE c == a \o <<e>>
      <4>1. \A k \in 1..(Len(L) + 1) : ins[k] = IF k <= m THEN c[k] ELSE b[k - m]
        BY <2>8
      <4>2. \A k \in 1..m : c[k] = IF k < m THEN L[k] ELSE e
        BY <2>7
      <4> HIDE DEF c
      <4>3. ins[j] = c[j]
        BY <3>1, <4>1
      <4> QED BY <2>2, <3>1, <4>0, <4>2, <4>3
    <3>2. CASE j > m
      <4>1. j - m \in 1..(Len(L) - m + 1) /\ m + (j - m) - 1 = j - 1
        BY <1>0, <2>2, <3>2
      <4>2. ins[j] = b[j - m]
        BY <1>0, <2>2, <2>8, <3>2
      <4>3. b[j - m] = L[j - 1]
        BY <2>6, <4>1
      <4> QED BY <2>2, <3>2, <4>2, <4>3
    <3> QED BY <1>0, <2>2, <3>1, <3>2
  <2>10. m \in 1..(Len(L) + 1)
    BY <1>0, <2>2
  <2> QED BY <2>2, <2>8, <2>9, <2>10 DEF PutAt
<1> QED BY <1>2, <1>3

LEMMA KindsOfEntries ==
  ASSUME NEW L
  PROVE  Kinds(L) = {e.event_type : e \in Entries(L)}
BY DEF Kinds, Entries

(* orderEnqueue adds its event to the list and keeps the list an agenda:   *)
(* in order, with no event in the past and no second one of a kind.        *)
LEMMA ScheduleProperties ==
  ASSUME NEW L \in Seq(Event), NEW t \in Nat, NEW time \in Nat, t <= time,
         NEW type \in Windows \cup {ARRIVAL},
         Agenda(L, t), type \notin Kinds(L)
  PROVE  /\ Agenda(Schedule(L, time, type), t)
         /\ Schedule(L, time, type) # <<>>
         /\ Kinds(Schedule(L, time, type)) = Kinds(L) \cup {type}
         /\ Entries(Schedule(L, time, type)) = Entries(L) \cup {EventAt(time, type)}
<1> DEFINE e == EventAt(time, type)
           S == Schedule(L, time, type)
<1>1. e \in Event /\ e.cur_time = time /\ e.event_type = type
  BY DEF Event, EventAt
<1>2. S = InTime(L, e)
  BY DEF Schedule, EventAt, EventQueue!InsertInOrder, EventQueue!SelectInSeq, EventQueue!Min,
         EventQueue!InsertAt, InTime, NotBefore, Min, InsertAt, Earlier
<1> HIDE DEF e, S
<1>3. PICK p \in 1..(Len(L) + 1) :
        /\ S \in Seq(Event)
        /\ Len(S) = Len(L) + 1
        /\ \A j \in 1..(Len(L) + 1) :
             S[j] = IF j < p THEN L[j] ELSE IF j = p THEN e ELSE L[j - 1]
        /\ \A j \in 1..(p - 1) : L[j].cur_time < e.cur_time
        /\ p <= Len(L) => L[p].cur_time >= e.cur_time
  <2>1. \A x \in Event : x.cur_time \in Nat
    BY DEF Event
  <2>2. S \in Seq(Event) /\ \E p \in 1..(Len(L) + 1) : PutAt(L, e, S, p)
    BY <1>1, <1>2, <2>1, InsertionPoint
  <2> QED BY <2>2 DEF PutAt
<1>4. Len(L) \in Nat /\ (\A i \in 1..Len(L) : L[i] \in Event) /\ \A x \in Event : x.cur_time \in Nat
  BY ElementOfSeq, LenProperties DEF Event
<1> DEFINE from(j) == IF j < p THEN j ELSE j - 1  \* where an event of S was in L
<1>5. \A j \in 1..(Len(L) + 1) : j # p => from(j) \in 1..Len(L) /\ S[j] = L[from(j)]
  BY <1>3, <1>4
<1>6. S[p] = e
  BY <1>3
<1>7. \A i, j \in 1..(Len(L) + 1) : i < j /\ i # p /\ j # p => from(i) < from(j)
  BY <1>4
<1>8. S # <<>>
  BY <1>3, <1>4, EmptySeq
<1>9. \A k \in 1..(Len(L) + 1) : t <= S[k].cur_time
  BY <1>1, <1>5, <1>6 DEF Agenda
<1>10. InOrder(S)
  <2>1. \A i, j \in 1..Len(L) : i <= j => L[i].cur_time <= L[j].cur_time
    BY <1>4 DEF Agenda, InOrder
  <2> SUFFICES ASSUME NEW i \in 1..(Len(L) + 1), NEW j \in 1..(Len(L) + 1), i < j
               PROVE  S[i].cur_time <= S[j].cur_time
    BY <1>3 DEF InOrder
  <2>2. CASE i # p /\ j # p
    <3>1. from(i) \in 1..Len(L) /\ from(j) \in 1..Len(L) /\ from(i) <= from(j)
      BY <1>4, <1>5, <1>7, <2>2
    <3> HIDE DEF from
    <3> QED BY <1>5, <2>1, <2>2, <3>1
  <2>3. CASE i = p
    <3>1. p \in 1..Len(L) /\ j - 1 \in 1..Len(L) /\ p <= j - 1 /\ S[j] = L[j - 1]
      BY <1>3, <1>4, <2>3
    <3>2. L[p].cur_time <= L[j - 1].cur_time /\ L[p].cur_time >= e.cur_time
      BY <1>3, <2>1, <3>1
    <3>3. L[p].cur_time \in Nat /\ L[j - 1].cur_time \in Nat /\ e.cur_time \in Nat
      BY <1>1, <1>4, <3>1
    <3>4. e.cur_time <= L[j - 1].cur_time
      BY <3>2, <3>3
    <3>5. S[i] = e
      BY <1>6, <2>3
    <3> QED BY <3>1, <3>4, <3>5
  <2>4. CASE j = p
    <3>1. i \in 1..(p - 1) /\ i \in 1..Len(L) /\ S[i] = L[i]
      BY <1>3, <1>4, <2>4
    <3>2. L[i].cur_time < e.cur_time
      BY <1>3, <3>1
    <3> QED BY <1>1, <1>4, <1>6, <2>4, <3>1, <3>2
  <2> QED BY <2>2, <2>3, <2>4
<1>11. Entries(S) = Entries(L) \cup {e}
  <2>1. \A j \in 1..Len(S) : S[j] \in Entries(L) \cup {e}
    <3> HIDE DEF from
    <3> QED BY <1>3, <1>5, <1>6 DEF Entries
  <2>2. e \in Entries(S)
    BY <1>3, <1>4, <1>6 DEF Entries
  <2>3. \A k \in 1..Len(L) : \E j \in 1..Len(S) : S[j] = L[k]
    <3> TAKE k \in 1..Len(L)
    <3>1. CASE k < p
      <4>1. k \in 1..(Len(L) + 1)
        BY <1>4
      <4> QED BY <1>3, <3>1, <4>1
    <3>2. CASE k >= p
      <4>1. k + 1 \in 1..(Len(L) + 1) /\ k + 1 # p /\ ~ (k + 1 < p) /\ (k + 1) - 1 = k
        BY <1>4, <3>2
      <4> QED BY <1>3, <4>1
    <3> QED BY <1>4, <3>1, <3>2
  <2>4. Entries(L) \subseteq Entries(S)
    BY <2>3 DEF Entries
  <2> QED BY <2>1, <2>2, <2>4 DEF Entries
<1>12. Kinds(S) = Kinds(L) \cup {type}
  BY <1>1, <1>11, KindsOfEntries
<1>13. OnePerKind(S)
  <2> SUFFICES ASSUME NEW i \in 1..(Len(L) + 1), NEW j \in 1..(Len(L) + 1), i < j,
                      S[i].event_type = S[j].event_type
               PROVE  FALSE
    BY <1>3, <1>4 DEF OnePerKind
  <2>1. CASE i # p /\ j # p
    <3>1. from(i) # from(j) /\ from(i) \in 1..Len(L) /\ from(j) \in 1..Len(L)
      BY <1>4, <1>5, <1>7, <2>1
    <3> HIDE DEF from
    <3> QED BY <1>5, <2>1, <3>1 DEF Agenda, OnePerKind
  <2>2. CASE i = p
    <3> HIDE DEF from
    <3> QED BY <1>1, <1>5, <1>6, <2>2, type \in Kinds(L), j # p DEF Kinds
  <2>3. CASE j = p
    <3> HIDE DEF from
    <3> QED BY <1>1, <1>5, <1>6, <2>3, type \in Kinds(L), i # p DEF Kinds
  <2> QED BY <2>1, <2>2, <2>3
<1> QED BY <1>3, <1>8, <1>9, <1>10, <1>11, <1>12, <1>13 DEF Agenda, S, e

(* The next event of an agenda is none of those that stay in the list.     *)
LEMMA AdvanceProperties ==
  ASSUME NEW L, NEW t \in Nat, Agenda(L, t), Advance(L)
  PROVE  /\ current_event' = NoEvent => event_list' = <<>>
         /\ L = <<>> => current_event' = NoEvent
         /\ L # <<>> =>
              /\ current_event' \in Event /\ current_event' # NoEvent
              /\ t <= Now'
              /\ Agenda(event_list', Now')
              /\ Entries(L) = Entries(event_list') \cup {current_event'}
              /\ current_event'.event_type \notin Kinds(event_list')
<1>1. CASE L = <<>>
  BY <1>1 DEF Advance
<1>2. CASE L # <<>>
  <2>1. current_event' = Head(L) /\ event_list' = Tail(L)
    BY <1>2 DEF Advance
  <2>2. L \in Seq(Event)
    BY DEF Agenda
  <2>3. /\ Head(L) \in Event
        /\ Tail(L) \in Seq(Event)
        /\ Len(Tail(L)) = Len(L) - 1
        /\ \A i \in 1..Len(Tail(L)) : Tail(L)[i] = L[i + 1]
    BY <1>2, <2>2, HeadTailProperties
  <2>4. Len(L) \in Nat \ {0} /\ L[1] = Head(L)
    BY <1>2, <2>2, EmptySeq
  <2>5. \A k \in 1..(Len(L) - 1) : k + 1 \in 1..Len(L) /\ Tail(L)[k] = L[k + 1]
    BY <2>3, <2>4
  <2>6. \A k \in 1..Len(L) : k = 1 \/ (k - 1 \in 1..(Len(L) - 1) /\ L[k] = Tail(L)[k - 1])
    <3> SUFFICES ASSUME NEW k \in 1..Len(L), k # 1
                 PROVE  k - 1 \in 1..(Len(L) - 1) /\ L[k] = Tail(L)[k - 1]
      OBVIOUS
    <3>1. k - 1 \in 1..(Len(L) - 1) /\ (k - 1) + 1 = k
      BY <2>4
    <3> QED BY <2>5, <3>1
  <2>7. Head(L) # NoEvent /\ Head(L).event_type \in Windows \cup {ARRIVAL} /\ Head(L).cur_time \in Nat
    BY <2>3, SizesAssumption DEF Event, NoEvent, Windows, ARRIVAL
  <2>8. t <= Head(L).cur_time
    BY <2>4 DEF Agenda
  <2>9. InOrder(Tail(L)) /\ \A k \in 1..Len(Tail(L)) : Head(L).cur_time <= Tail(L)[k].cur_time
    BY <2>3, <2>4, <2>5 DEF Agenda, InOrder
  <2>10. OnePerKind(Tail(L))
    BY <2>3, <2>4, <2>5 DEF Agenda, OnePerKind
  <2>11. Entries(L) = Entries(Tail(L)) \cup {Head(L)}
    BY <2>3, <2>4, <2>5, <2>6 DEF Entries
  <2>12. Head(L).event_type \notin Kinds(Tail(L))
    <3> SUFFICES ASSUME NEW k \in 1..(Len(L) - 1), Tail(L)[k].event_type = Head(L).event_type
                 PROVE  FALSE
      BY <2>3 DEF Kinds
    <3>1. k + 1 \in 1..Len(L) /\ L[k + 1].event_type = L[1].event_type /\ k + 1 # 1 /\ 1 \in 1..Len(L)
      BY <2>4, <2>5
    <3> QED BY <2>4, <3>1 DEF Agenda, OnePerKind
  <2> QED BY <1>2, <2>1, <2>3, <2>7, <2>8, <2>9, <2>10, <2>11, <2>12 DEF Agenda, Now
<1> QED BY <1>1, <1>2

(* What delete and dequeue leave, in terms of the list they are called on. *)
LEMMA AdvanceCalendar ==
  ASSUME NEW L, NEW t \in Nat, Agenda(L, t), Advance(L)
  PROVE  /\ current_event' \in Event \cup {NoEvent}
         /\ event_list' \in Seq(Event)
         /\ Calendar'
         /\ current_event' # NoEvent => t <= Now' /\ Now' \in Nat
         /\ \A i \in Windows : i \in Due' => i \in Kinds(L)
         /\ \A i \in Windows : current_event' # NoEvent /\ i \in Kinds(L) => i \in Due'
         /\ DueEvents' \subseteq Entries(L) \cup {NoEvent}
<1>1. CASE L = <<>>
  <2>1. current_event' = NoEvent /\ event_list' = <<>>
    BY <1>1 DEF Advance
  <2>2. Kinds(event_list') = {} /\ Entries(event_list') = {}
    BY <2>1 DEF Kinds, Entries
  <2>3. \A i \in Windows : i # NoEvent.event_type
    BY SizesAssumption DEF Windows, NoEvent
  <2> QED BY <2>1, <2>2, <2>3 DEF Calendar, Due, DueEvents
<1>2. CASE L # <<>>
  <2>1. /\ current_event' \in Event /\ current_event' # NoEvent
        /\ t <= Now'
        /\ Agenda(event_list', Now')
        /\ Entries(L) = Entries(event_list') \cup {current_event'}
        /\ current_event'.event_type \notin Kinds(event_list')
    BY <1>2, AdvanceProperties
  <2>2. Kinds(L) = Kinds(event_list') \cup {current_event'.event_type}
    BY <2>1, KindsOfEntries
  <2> QED BY <2>1, <2>2 DEF Calendar, Due, DueEvents, Agenda, Event, Now
<1> QED BY <1>1, <1>2

(* An arrival event is none of a window, and neither is the null pointer. *)
LEMMA EventKinds ==
  /\ ARRIVAL \notin Windows /\ NoEvent.event_type \notin Windows
  /\ NoEvent \notin Event
  /\ \A e \in Event : e.cur_time \in Nat /\ (e.event_type = ARRIVAL \/ e.event_type \in Windows)
BY SizesAssumption DEF ARRIVAL, Windows, NoEvent, Event

(* Times and tickets are numbers. *)
LEMMA NumberTypes ==
  ASSUME Types
  PROVE  /\ \A i \in Windows :
              /\ windows[i] \in [status : {"IDLE", "SERVICE"}, customer : Visitor]
              /\ windows[i].customer.arrive_time \in Nat
              /\ windows[i].customer.ticket \in Nat
              /\ windows[i].customer.duration \in Nat
         /\ Len(customer_list) \in Nat
         /\ \A k \in 1..Len(customer_list) :
              /\ customer_list[k] \in Visitor
              /\ customer_list[k].arrive_time \in Nat
              /\ customer_list[k].ticket \in Nat
              /\ customer_list[k].duration \in Nat
         /\ current_event # NoEvent => Now \in Nat
         /\ IsFiniteSet(Busy)
         /\ Cardinality(Busy) \in Nat
<1>1. IsFiniteSet(Windows)
  BY SizesAssumption, FS_Interval DEF Windows
<1>2. IsFiniteSet(Busy) /\ Cardinality(Busy) \in Nat
  BY <1>1, FS_Subset, FS_CardinalityType DEF Busy
<1>3. \A i \in Windows :
        /\ windows[i] \in [status : {"IDLE", "SERVICE"}, customer : Visitor]
        /\ windows[i].customer.arrive_time \in Nat
        /\ windows[i].customer.ticket \in Nat
        /\ windows[i].customer.duration \in Nat
  BY DEF Types, Visitor
<1>4. Len(customer_list) \in Nat
  BY DEF Types
<1>5. \A k \in 1..Len(customer_list) : customer_list[k] \in Visitor
  BY ElementOfSeq DEF Types
<1>6. \A v \in Visitor : v.arrive_time \in Nat /\ v.ticket \in Nat /\ v.duration \in Nat
  BY DEF Visitor
<1>7. current_event # NoEvent => Now \in Nat
  BY EventKinds DEF Types, Now
<1> QED BY <1>2, <1>3, <1>4, <1>5, <1>6, <1>7

(* A run starts with one arrival, idle windows and an empty queue.         *)
LEMMA InitHolds == Init => IInv
<1> SUFFICES ASSUME Init PROVE IInv
  OBVIOUS
<1>1. current_event \in Event /\ current_event.event_type = ARRIVAL /\ Now \in Nat
  BY RandomAssumption DEF Init, FirstEvent, Event, Now
<1>2. Busy = {} /\ Kinds(event_list) = {} /\ IdleWindows = Windows
  BY DEF Init, Busy, IdleWindows, Kinds
<1>3. Types
  <2>1. Customer(0, 0, 0) \in Visitor
    BY DEF Customer, Visitor
  <2> QED BY <1>1, <2>1 DEF Init, Types
<1>4. Calendar
  BY <1>1, <1>2, EventKinds DEF Init, Calendar, Agenda, InOrder, OnePerKind
<1>5. ServicesDue /\ ServedInFull
  BY <1>1, <1>2, EventKinds DEF Init, ServicesDue, ServedInFull, Due, DueEvents, Entries
<1>6. ArrivalsInOrder /\ WaitsWithinStays /\ NobodyWaitsInVain
  BY <1>2 DEF Init, ArrivalsInOrder, WaitsWithinStays, NobodyWaitsInVain
<1>7. FirstComeFirstServed
  BY <1>2, FS_EmptySet DEF Init, FirstComeFirstServed
<1> QED BY <1>3, <1>4, <1>5, <1>6, <1>7 DEF IInv

(* What an arrival schedules: the next arrival, if the bank is still open. *)
LEMMA NextArrival ==
  ASSUME IInv, current_event # NoEvent, current_event.event_type = ARRIVAL,
         NEW gap \in Gaps, NEW list,
         list = IF Now + gap < EndTime THEN Schedule(event_list, Now + gap, ARRIVAL) ELSE event_list
  PROVE  /\ Agenda(list, Now)
         /\ \A i \in Windows : i \in Kinds(list) <=> i \in Kinds(event_list)
         /\ \A e \in Entries(list) : e.event_type \in Windows => e \in Entries(event_list)
<1>1. Agenda(event_list, Now) /\ event_list \in Seq(Event) /\ Now \in Nat
      /\ ARRIVAL \notin Kinds(event_list)
  BY NumberTypes DEF IInv, Types, Calendar
<1>2. Now + gap \in Nat /\ Now <= Now + gap
  BY <1>1, RandomAssumption
<1> DEFINE e == EventAt(Now + gap, ARRIVAL)
<1>3. /\ Agenda(Schedule(event_list, Now + gap, ARRIVAL), Now)
      /\ Kinds(Schedule(event_list, Now + gap, ARRIVAL)) = Kinds(event_list) \cup {ARRIVAL}
      /\ Entries(Schedule(event_list, Now + gap, ARRIVAL)) = Entries(event_list) \cup {e}
  BY <1>1, <1>2, ScheduleProperties
<1>4. e.event_type \notin Windows
  BY EventKinds DEF EventAt
<1> HIDE DEF e
<1> QED BY <1>1, <1>3, <1>4, EventKinds

(* An arrival that finds a window idle is served at once, because nobody   *)
(* waits in front of it.                                                   *)
LEMMA ArrivalServed ==
  ASSUME IInv, CustomerArrived, IdleWindows # {}
  PROVE  IInv'
<1> USE DEF IInv
<1>1. PICK gap \in Gaps, duration \in Durations :
        JoinQueue(IF Now + gap < EndTime THEN Schedule(event_list, Now + gap, ARRIVAL) ELSE event_list,
                  Append(customer_list, Customer(arrived', Now, duration)))
  BY DEF CustomerArrived
<1> DEFINE list == IF Now + gap < EndTime THEN Schedule(event_list, Now + gap, ARRIVAL) ELSE event_list
           c == Customer(arrived', Now, duration)
           w == IdleServiceWindow
           L == Schedule(list, Now + duration, w)
<1>2. /\ current_event # NoEvent /\ current_event.event_type = ARRIVAL
      /\ arrived' = arrived + 1
      /\ UNCHANGED <<total_customer_stay_time, total_customer_wait_time, runs, departed>>
  BY DEF CustomerArrived
<1>3. /\ Now \in Nat /\ arrived \in Nat /\ duration \in Nat
      /\ c \in Visitor /\ c.ticket = arrived + 1 /\ c.arrive_time = Now /\ c.duration = duration
  BY <1>2, NumberTypes, RandomAssumption DEF Types, Customer, Visitor
<1>4. customer_list = <<>>
  BY DEF NobodyWaitsInVain
<1>5. w \in Windows /\ w \notin Busy /\ w \in IdleWindows
  BY IdleWindowFound DEF IdleWindows, Busy
<1> HIDE DEF w
<1>6. Append(customer_list, c) = <<c>>
  BY <1>4
<1> HIDE DEF c, list
<1>7. /\ windows' = [windows EXCEPT ![w] = [status |-> "SERVICE", customer |-> c]]
      /\ customer_list' = <<>>
      /\ Advance(L)
  <2>1. JoinQueue(list, <<c>>)
    BY <1>1, <1>6 DEF list, c
  <2>2. Head(<<c>>) = c /\ Tail(<<c>>) = <<>>
    OBVIOUS
  <2> QED BY <2>1, <2>2, <1>3 DEF JoinQueue, Serve, w
<1>8. /\ Agenda(list, Now)
      /\ \A i \in Windows : i \in Kinds(list) <=> i \in Kinds(event_list)
      /\ \A e \in Entries(list) : e.event_type \in Windows => e \in Entries(event_list)
  BY <1>2, NextArrival DEF list
<1>9. /\ Agenda(L, Now) /\ Kinds(L) = Kinds(list) \cup {w}
      /\ Entries(L) = Entries(list) \cup {EventAt(Now + duration, w)}
  <2>1. w \notin Kinds(list)
    BY <1>5, <1>8 DEF ServicesDue, Due
  <2> QED BY <1>3, <1>5, <1>8, <2>1, ScheduleProperties DEF Agenda
<1> HIDE DEF L
<1>10. Busy' = Busy \cup {w}
  BY <1>5, <1>7 DEF Busy, IdleWindows, Types
<1>11. /\ current_event' \in Event \cup {NoEvent}
       /\ event_list' \in Seq(Event)
       /\ Calendar'
       /\ current_event' # NoEvent => Now <= Now' /\ Now' \in Nat
       /\ \A i \in Windows : i \in Due' => i \in Kinds(L)
       /\ \A i \in Windows : current_event' # NoEvent /\ i \in Kinds(L) => i \in Due'
       /\ DueEvents' \subseteq Entries(L) \cup {NoEvent}
  BY <1>3, <1>7, <1>9, AdvanceCalendar
<1>12. Types'
  BY <1>2, <1>3, <1>5, <1>7, <1>11 DEF Types
<1>13. ServicesDue'
  <2> SUFFICES ASSUME NEW i \in Windows
               PROVE  /\ i \in Due' => i \in Busy'
                      /\ i \in Busy' /\ current_event' # NoEvent /\ Now' < EndTime => i \in Due'
    BY DEF ServicesDue
  <2>1. i \in Due' => i \in Busy'
    BY <1>8, <1>9, <1>10, <1>11 DEF ServicesDue, Due
  <2>2. ASSUME i \in Busy', current_event' # NoEvent, Now' < EndTime PROVE i \in Due'
    <3>1. Now < EndTime
      BY <1>3, <1>11, <2>2, SizesAssumption
    <3>2. i = w \/ i \in Kinds(event_list)
      BY <1>2, <1>10, <2>2, <3>1, EventKinds DEF ServicesDue, Due
    <3> QED BY <1>8, <1>9, <1>11, <2>2, <3>2
  <2> QED BY <2>1, <2>2
<1>14. ArrivalsInOrder' /\ NobodyWaitsInVain' /\ WaitsWithinStays'
  <2>1. \A i \in Busy' : windows'[i].customer.arrive_time <= Now
    BY <1>2, <1>3, <1>5, <1>7, <1>10 DEF ArrivalsInOrder, Types, Busy
  <2>2. \A i \in Busy' : windows'[i].customer.arrive_time \in Nat
    BY <1>12, NumberTypes DEF Types, Visitor, Busy
  <2>3. current_event' # NoEvent => \A i \in Busy' : windows'[i].customer.arrive_time <= Now'
    BY <1>3, <1>11, <2>1, <2>2
  <2> QED BY <1>2, <1>7, <2>3 DEF ArrivalsInOrder, NobodyWaitsInVain, WaitsWithinStays
<1>15. FirstComeFirstServed'
  <2>1. Cardinality(Busy') = Cardinality(Busy) + 1
    BY <1>5, <1>10, NumberTypes, FS_AddElement
  <2>2. Len(customer_list) = 0 /\ Len(customer_list') = 0
    BY <1>4, <1>7
  <2>3. \A i \in Busy : windows'[i] = windows[i] /\ windows[i].customer.ticket \in 1..arrived
    <3>1. \A i \in Busy : windows'[i] = windows[i]
      BY <1>5, <1>7 DEF Types, Busy
    <3>2. arrived - Len(customer_list) = arrived
      BY <1>3, <2>2
    <3> QED BY <3>1, <3>2 DEF FirstComeFirstServed
  <2>4. windows'[w].customer.ticket = arrived + 1
    BY <1>3, <1>5, <1>7 DEF Types
  <2>5. \A i, j \in Busy' : windows'[i].customer.ticket = windows'[j].customer.ticket => i = j
    BY <1>3, <1>10, <2>3, <2>4 DEF FirstComeFirstServed
  <2>6. arrived' = departed' + Cardinality(Busy') + Len(customer_list')
    BY <1>2, <1>3, <2>1, <2>2, NumberTypes DEF FirstComeFirstServed, Types
  <2>7. \A i \in Busy' : windows'[i].customer.ticket \in 1..(arrived' - Len(customer_list'))
    BY <1>2, <1>3, <1>10, <2>2, <2>3, <2>4
  <2> QED BY <2>2, <2>5, <2>6, <2>7 DEF FirstComeFirstServed
<1>16. ServedInFull'
  <2> SUFFICES ASSUME NEW e \in DueEvents', e.event_type \in Windows
               PROVE  windows'[e.event_type].customer.arrive_time
                        + windows'[e.event_type].customer.duration <= e.cur_time
    BY DEF ServedInFull
  <2>1. e \in Entries(event_list) \/ e = EventAt(Now + duration, w)
    BY <1>8, <1>9, <1>11, EventKinds
  <2>2. CASE e \in Entries(event_list)
    <3>1. e \in DueEvents /\ e.event_type \in Due
      BY <2>2, KindsOfEntries DEF DueEvents, Due
    <3>2. e.event_type # w
      BY <1>5, <3>1 DEF ServicesDue
    <3>3. windows'[e.event_type] = windows[e.event_type]
      BY <1>7, <3>2 DEF Types
    <3> QED BY <3>1, <3>3 DEF ServedInFull
  <2>3. CASE e = EventAt(Now + duration, w)
    <3>1. windows'[w].customer = c
      BY <1>5, <1>7 DEF Types
    <3> QED BY <1>3, <2>3, <3>1 DEF EventAt
  <2> QED BY <2>1, <2>2, <2>3
<1> QED BY <1>11, <1>12, <1>13, <1>14, <1>15, <1>16

(* An arrival that finds every window busy waits behind the others.        *)
LEMMA ArrivalQueued ==
  ASSUME IInv, CustomerArrived, IdleWindows = {}
  PROVE  IInv'
<1> USE DEF IInv
<1>1. PICK gap \in Gaps, duration \in Durations :
        JoinQueue(IF Now + gap < EndTime THEN Schedule(event_list, Now + gap, ARRIVAL) ELSE event_list,
                  Append(customer_list, Customer(arrived', Now, duration)))
  BY DEF CustomerArrived
<1> DEFINE L == IF Now + gap < EndTime THEN Schedule(event_list, Now + gap, ARRIVAL) ELSE event_list
           c == Customer(arrived', Now, duration)
           n == Len(customer_list)
<1>2. /\ current_event # NoEvent /\ current_event.event_type = ARRIVAL
      /\ arrived' = arrived + 1
      /\ UNCHANGED <<total_customer_stay_time, total_customer_wait_time, runs, departed>>
  BY DEF CustomerArrived
<1>3. /\ Now \in Nat /\ arrived \in Nat /\ duration \in Nat
      /\ c \in Visitor /\ c.ticket = arrived + 1 /\ c.arrive_time = Now
  BY <1>2, NumberTypes, RandomAssumption DEF Types, Customer, Visitor
<1> HIDE DEF c, L
<1>4. windows' = windows /\ customer_list' = Append(customer_list, c) /\ Advance(L)
  BY <1>1 DEF JoinQueue, L, c
<1>5. /\ Agenda(L, Now)
      /\ \A i \in Windows : i \in Kinds(L) <=> i \in Kinds(event_list)
      /\ \A e \in Entries(L) : e.event_type \in Windows => e \in Entries(event_list)
  BY <1>2, NextArrival DEF L
<1>6. Busy' = Busy /\ IdleWindows' = {}
  BY <1>4 DEF Busy, IdleWindows
<1>7. /\ current_event' \in Event \cup {NoEvent}
      /\ event_list' \in Seq(Event)
      /\ Calendar'
      /\ current_event' # NoEvent => Now <= Now' /\ Now' \in Nat
      /\ \A i \in Windows : i \in Due' => i \in Kinds(L)
      /\ \A i \in Windows : current_event' # NoEvent /\ i \in Kinds(L) => i \in Due'
      /\ DueEvents' \subseteq Entries(L) \cup {NoEvent}
  BY <1>3, <1>4, <1>5, AdvanceCalendar
<1>8. /\ customer_list' \in Seq(Visitor) /\ n \in Nat /\ Len(customer_list') = n + 1
      /\ \A k \in 1..n : customer_list'[k] = customer_list[k]
      /\ customer_list'[n + 1] = c
  BY <1>3, <1>4, AppendProperties DEF Types
<1> HIDE DEF n
<1>9. Types'
  BY <1>2, <1>3, <1>4, <1>7, <1>8 DEF Types
<1>10. ServicesDue'
  <2> SUFFICES ASSUME NEW i \in Windows
               PROVE  /\ i \in Due' => i \in Busy'
                      /\ i \in Busy' /\ current_event' # NoEvent /\ Now' < EndTime => i \in Due'
    BY DEF ServicesDue
  <2>1. i \in Due' => i \in Busy'
    BY <1>5, <1>6, <1>7 DEF ServicesDue, Due
  <2>2. ASSUME i \in Busy', current_event' # NoEvent, Now' < EndTime PROVE i \in Due'
    <3>1. Now < EndTime
      BY <1>3, <1>7, <2>2, SizesAssumption
    <3>2. i \in Kinds(event_list)
      BY <1>2, <1>6, <2>2, <3>1, EventKinds DEF ServicesDue, Due
    <3> QED BY <1>5, <1>7, <2>2, <3>2
  <2> QED BY <2>1, <2>2
<1>11. ArrivalsInOrder'
  <2>1. \A i \in Busy : windows[i].customer.arrive_time <= Now /\ windows[i].customer.arrive_time \in Nat
    BY <1>2, NumberTypes DEF ArrivalsInOrder, Busy
  <2>2. \A k \in 1..n :
          /\ customer_list[k].arrive_time <= Now
          /\ customer_list[k].arrive_time \in Nat
          /\ \A j \in 1..k : customer_list[j].arrive_time <= customer_list[k].arrive_time
          /\ \A i \in Busy : windows[i].customer.arrive_time <= customer_list[k].arrive_time
    BY <1>2, NumberTypes DEF ArrivalsInOrder, n
  <2>3. current_event' # NoEvent => \A i \in Busy' : windows'[i].customer.arrive_time <= Now'
    BY <1>3, <1>4, <1>6, <1>7, <2>1
  <2> SUFFICES ASSUME NEW k \in 1..(n + 1)
               PROVE  /\ current_event' # NoEvent => customer_list'[k].arrive_time <= Now'
                      /\ \A j \in 1..k : customer_list'[j].arrive_time <= customer_list'[k].arrive_time
                      /\ \A i \in Busy' : windows'[i].customer.arrive_time <= customer_list'[k].arrive_time
    BY <1>8, <2>3 DEF ArrivalsInOrder
  <2>4. CASE k = n + 1
    BY <1>3, <1>4, <1>6, <1>7, <1>8, <2>1, <2>2, <2>4
  <2>5. CASE k \in 1..n
    <3>1. customer_list'[k] = customer_list[k] /\ \A j \in 1..k : customer_list'[j] = customer_list[j]
      BY <1>8, <2>5
    <3>2. ASSUME current_event' # NoEvent PROVE customer_list[k].arrive_time <= Now'
      BY <1>3, <1>7, <2>2, <2>5, <3>2
    <3>3. \A j \in 1..k : customer_list'[j].arrive_time <= customer_list'[k].arrive_time
      BY <2>2, <2>5, <3>1
    <3>4. \A i \in Busy' : windows'[i].customer.arrive_time <= customer_list'[k].arrive_time
      BY <1>4, <1>6, <2>2, <2>5, <3>1
    <3> QED BY <3>1, <3>2, <3>3, <3>4
  <2> QED BY <1>8, <2>4, <2>5
<1>12. NobodyWaitsInVain' /\ WaitsWithinStays'
  BY <1>2, <1>6 DEF NobodyWaitsInVain, WaitsWithinStays
<1>13. FirstComeFirstServed'
  <2>1. arrived' - Len(customer_list') = arrived - n
    BY <1>2, <1>3, <1>8
  <2>2. ASSUME NEW k \in 1..(n + 1)
        PROVE  customer_list'[k].ticket = arrived' - Len(customer_list') + k
    <3>1. CASE k = n + 1
      BY <1>3, <1>8, <2>1, <3>1
    <3>2. CASE k \in 1..n
      BY <1>8, <2>1, <3>2 DEF FirstComeFirstServed, n
    <3> QED BY <1>8, <3>1, <3>2
  <2>3. arrived' = departed' + Cardinality(Busy') + Len(customer_list')
    BY <1>2, <1>3, <1>6, <1>8, NumberTypes DEF FirstComeFirstServed, Types, n
  <2>4. \A i \in Busy' : windows'[i].customer.ticket \in 1..(arrived' - Len(customer_list'))
    BY <1>4, <1>6, <2>1 DEF FirstComeFirstServed, n
  <2> QED BY <1>4, <1>6, <1>8, <2>2, <2>3, <2>4 DEF FirstComeFirstServed
<1>14. ServedInFull'
  <2> SUFFICES ASSUME NEW e \in DueEvents', e.event_type \in Windows
               PROVE  windows'[e.event_type].customer.arrive_time
                        + windows'[e.event_type].customer.duration <= e.cur_time
    BY DEF ServedInFull
  <2>1. e \in DueEvents
    BY <1>5, <1>7, EventKinds DEF DueEvents
  <2> QED BY <1>4, <2>1 DEF ServedInFull
<1> QED BY <1>7, <1>9, <1>10, <1>11, <1>12, <1>13, <1>14

(* A departure after closing time only moves the clock. *)
LEMMA LateHolds ==
  ASSUME IInv, LateDeparture
  PROVE  IInv'
<1> USE DEF IInv
<1>1. /\ current_event # NoEvent /\ Now >= EndTime /\ Now \in Nat
      /\ Advance(event_list)
      /\ UNCHANGED <<customer_list, windows, totals, runs, arrived, departed>>
  BY NumberTypes DEF LateDeparture
<1>2. Agenda(event_list, Now)
  BY <1>1 DEF Calendar
<1>3. /\ current_event' \in Event \cup {NoEvent}
      /\ event_list' \in Seq(Event)
      /\ Calendar'
      /\ current_event' # NoEvent => Now <= Now' /\ Now' \in Nat
      /\ \A i \in Windows : i \in Due' => i \in Kinds(event_list)
      /\ DueEvents' \subseteq Entries(event_list) \cup {NoEvent}
  BY <1>1, <1>2, AdvanceCalendar
<1>4. Busy' = Busy /\ IdleWindows' = IdleWindows
  BY <1>1 DEF Busy, IdleWindows
<1>5. Types'
  BY <1>1, <1>3 DEF Types, totals
<1>6. ServicesDue'
  <2>1. current_event' # NoEvent => ~ (Now' < EndTime)
    BY <1>1, <1>3, SizesAssumption
  <2> QED BY <1>3, <1>4, <2>1 DEF ServicesDue, Due
<1>7. ArrivalsInOrder'
  <2>1. ASSUME current_event' # NoEvent, NEW t \in Nat, t <= Now PROVE t <= Now'
    BY <1>1, <1>3, <2>1
  <2> QED BY <1>1, <1>4, <2>1, NumberTypes DEF ArrivalsInOrder, Busy
<1>8. NobodyWaitsInVain' /\ WaitsWithinStays' /\ FirstComeFirstServed'
  BY <1>1, <1>4 DEF NobodyWaitsInVain, WaitsWithinStays, FirstComeFirstServed, totals
<1>9. ServedInFull'
  <2> SUFFICES ASSUME NEW e \in DueEvents', e.event_type \in Windows
               PROVE  windows'[e.event_type].customer.arrive_time
                        + windows'[e.event_type].customer.duration <= e.cur_time
    BY DEF ServedInFull
  <2>1. e \in DueEvents
    BY <1>3, EventKinds DEF DueEvents
  <2> QED BY <1>1, <2>1 DEF ServedInFull
<1> QED BY <1>3, <1>5, <1>6, <1>7, <1>8, <1>9

(* end() clears the queues and the windows, whatever they held. *)
LEMMA EndHolds ==
  ASSUME IInv, End
  PROVE  IInv'
<1> USE DEF IInv
<1>1. /\ customer_list' = <<>> /\ event_list' = <<>> /\ arrived' = 0 /\ departed' = 0
      /\ windows' = [i \in Windows |-> [windows[i] EXCEPT !.status = "IDLE"]]
      /\ UNCHANGED totals
      /\ current_event' \in FirstEvent \/ current_event' = NoEvent
  BY DEF End
<1>2. current_event' \in Event \cup {NoEvent} /\ current_event'.event_type \notin Windows
  BY <1>1, EventKinds, RandomAssumption, SizesAssumption DEF FirstEvent, Event, NoEvent, Windows
<1>3. Busy' = {} /\ Kinds(event_list') = {} /\ Entries(event_list') = {}
  <2>1. \A i \in Windows : windows'[i].status = "IDLE"
    BY <1>1 DEF Types
  <2> QED BY <1>1, <2>1 DEF Busy, IdleWindows, Kinds, Entries
<1>4. Types'
  <2>1. windows' \in [Windows -> [status : {"IDLE", "SERVICE"}, customer : Visitor]]
    BY <1>1 DEF Types
  <2> QED BY <1>1, <1>2, <2>1 DEF Types, totals
<1>5. Calendar'
  BY <1>1, <1>2, <1>3 DEF Calendar, Agenda, InOrder, OnePerKind
<1>6. ServicesDue' /\ ServedInFull'
  BY <1>2, <1>3 DEF ServicesDue, ServedInFull, Due, DueEvents
<1>7. ArrivalsInOrder' /\ NobodyWaitsInVain' /\ WaitsWithinStays'
  BY <1>1, <1>3 DEF ArrivalsInOrder, NobodyWaitsInVain, WaitsWithinStays, totals
<1>8. FirstComeFirstServed'
  BY <1>1, <1>3, FS_EmptySet DEF FirstComeFirstServed
<1> QED BY <1>4, <1>5, <1>6, <1>7, <1>8

(* The window of a departure has served a customer who came before all     *)
(* those who still wait.                                                   *)
LEMMA DepartingWindow ==
  ASSUME IInv, CustomerDeparture
  PROVE  /\ current_event # NoEvent /\ Now \in Nat /\ Now < EndTime
         /\ current_event.event_type \in Busy
         /\ current_event.event_type \notin Kinds(event_list)
         /\ Agenda(event_list, Now)
         /\ windows[current_event.event_type].customer.arrive_time \in 0..Now
         /\ total_customer_stay_time' \in Nat
         /\ total_customer_stay_time' = total_customer_stay_time
              + (Now - windows[current_event.event_type].customer.arrive_time)
         /\ \A k \in 1..Len(customer_list) :
              windows[current_event.event_type].customer.arrive_time <= customer_list[k].arrive_time
         /\ departed' = departed + 1 /\ arrived' = arrived
         /\ NextCustomer(current_event.event_type)
<1> USE DEF IInv
<1> DEFINE i == current_event.event_type
<1>1. /\ current_event # NoEvent /\ i # ARRIVAL /\ Now < EndTime
      /\ total_customer_stay_time' = total_customer_stay_time + (Now - windows[i].customer.arrive_time)
      /\ departed' = departed + 1 /\ arrived' = arrived
      /\ NextCustomer(i)
  BY DEF CustomerDeparture
<1>2. i \in Windows /\ Now \in Nat
  BY <1>1, EventKinds, NumberTypes DEF Types
<1>3. i \in Busy
  BY <1>2 DEF ServicesDue, Due
<1>4. windows[i].customer.arrive_time \in Nat /\ windows[i].customer.arrive_time <= Now
  BY <1>1, <1>2, <1>3, NumberTypes DEF ArrivalsInOrder
<1>5. \A k \in 1..Len(customer_list) : windows[i].customer.arrive_time <= customer_list[k].arrive_time
  BY <1>3 DEF ArrivalsInOrder
<1>6. total_customer_stay_time' \in Nat
  BY <1>1, <1>2, <1>4 DEF Types
<1>7. Agenda(event_list, Now) /\ i \notin Kinds(event_list)
  BY <1>1, <1>2 DEF Calendar
<1>8. windows[i].customer.arrive_time \in 0..Now
  BY <1>2, <1>4
<1> HIDE DEF i
<1> QED BY <1>1, <1>2, <1>3, <1>5, <1>6, <1>7, <1>8 DEF i

(* A window that has served its customer takes the first one who waits.    *)
LEMMA DepartureTakesNext ==
  ASSUME IInv, CustomerDeparture, customer_list # <<>>
  PROVE  IInv'
<1> USE DEF IInv
<1> DEFINE w == current_event.event_type
           c == Head(customer_list)
           n == Len(customer_list)
           L == Schedule(event_list, Now + c.duration, w)
<1>1. /\ current_event # NoEvent /\ Now \in Nat /\ Now < EndTime
      /\ w \in Busy /\ w \in Windows /\ w \notin Kinds(event_list)
      /\ Agenda(event_list, Now) /\ event_list \in Seq(Event)
      /\ windows[w].customer.arrive_time \in 0..Now
      /\ total_customer_stay_time' \in Nat
      /\ total_customer_stay_time' = total_customer_stay_time
           + (Now - windows[w].customer.arrive_time)
      /\ \A k \in 1..n : windows[w].customer.arrive_time <= customer_list[k].arrive_time
      /\ departed' = departed + 1 /\ arrived' = arrived
      /\ NextCustomer(w)
  BY DepartingWindow DEF Busy, Types
<1> HIDE DEF w
<1>2. /\ total_customer_wait_time' = total_customer_wait_time + (Now - c.arrive_time)
      /\ windows' = [windows EXCEPT ![w] = [status |-> "SERVICE", customer |-> c]]
      /\ customer_list' = Tail(customer_list)
      /\ Advance(L)
  BY <1>1 DEF NextCustomer, Serve
<1>3. n \in Nat \ {0} /\ c = customer_list[1]
  BY EmptySeq DEF Types
<1>4. /\ customer_list' \in Seq(Visitor) /\ Len(customer_list') = n - 1
      /\ \A k \in 1..(n - 1) : customer_list'[k] = customer_list[k + 1]
  BY <1>2, HeadTailProperties DEF Types
<1> HIDE DEF n, c
<1>5. \A k \in 1..n :
        /\ customer_list[k].arrive_time <= Now
        /\ customer_list[k].arrive_time \in Nat
        /\ \A j \in 1..k : customer_list[j].arrive_time <= customer_list[k].arrive_time
        /\ \A i \in Busy : windows[i].customer.arrive_time <= customer_list[k].arrive_time
  BY <1>1, NumberTypes DEF ArrivalsInOrder, n
<1>6. /\ c \in Visitor /\ c.duration \in Nat
      /\ c.arrive_time \in Nat /\ c.arrive_time <= Now
      /\ windows[w].customer.arrive_time <= c.arrive_time
      /\ c.ticket = arrived - n + 1
  BY <1>1, <1>3, <1>5, NumberTypes, 1 \in 1..n DEF FirstComeFirstServed, n
<1>7. /\ Agenda(L, Now) /\ Kinds(L) = Kinds(event_list) \cup {w}
      /\ Entries(L) = Entries(event_list) \cup {EventAt(Now + c.duration, w)}
  <2> DEFINE t == Now + c.duration
  <2>1. t \in Nat /\ Now <= t
    BY <1>1, <1>6
  <2> HIDE DEF t
  <2>2. /\ Agenda(Schedule(event_list, t, w), Now)
        /\ Kinds(Schedule(event_list, t, w)) = Kinds(event_list) \cup {w}
        /\ Entries(Schedule(event_list, t, w)) = Entries(event_list) \cup {EventAt(t, w)}
    BY <1>1, <2>1, ScheduleProperties
  <2> QED BY <2>2 DEF t
<1> HIDE DEF L
<1>8. /\ current_event' \in Event \cup {NoEvent}
      /\ event_list' \in Seq(Event)
      /\ Calendar'
      /\ current_event' # NoEvent => Now <= Now' /\ Now' \in Nat
      /\ \A i \in Windows : i \in Due' => i \in Kinds(L)
      /\ \A i \in Windows : current_event' # NoEvent /\ i \in Kinds(L) => i \in Due'
      /\ DueEvents' \subseteq Entries(L) \cup {NoEvent}
  BY <1>1, <1>2, <1>7, AdvanceCalendar
<1>9. Busy' = Busy /\ IdleWindows' = IdleWindows
  BY <1>1, <1>2 DEF Busy, IdleWindows, Types
<1>10. /\ windows'[w].customer = c
       /\ \A i \in Windows \ {w} : windows'[i] = windows[i]
  BY <1>1, <1>2 DEF Types
<1>11. Types' /\ WaitsWithinStays'
  <2> DEFINE a == windows[w].customer.arrive_time
             b == c.arrive_time
  <2>1. a \in Nat /\ b \in Nat /\ Now \in Nat /\ a <= b /\ b <= Now
    BY <1>1, <1>6
  <2>2. /\ total_customer_wait_time \in Nat /\ total_customer_stay_time \in Nat
        /\ total_customer_wait_time <= total_customer_stay_time
    BY DEF Types, WaitsWithinStays
  <2>3. /\ total_customer_wait_time' = total_customer_wait_time + (Now - b)
        /\ total_customer_stay_time' = total_customer_stay_time + (Now - a)
    BY <1>1, <1>2
  <2> HIDE DEF a, b
  <2>4. total_customer_wait_time' \in Nat
    <3>1. \A x, z, u \in Nat : u <= z => x + (z - u) \in Nat
      OBVIOUS
    <3> QED BY <2>1, <2>2, <2>3, <3>1
  <2>5. total_customer_wait_time' <= total_customer_stay_time'
    <3>1. \A x, y, z, v, u \in Nat : x <= y /\ v <= u => x + (z - u) <= y + (z - v)
      OBVIOUS
    <3> QED BY <2>1, <2>2, <2>3, <3>1
  <2>6. windows' \in [Windows -> [status : {"IDLE", "SERVICE"}, customer : Visitor]]
    BY <1>2, <1>6 DEF Types
  <2> QED BY <1>1, <1>4, <1>8, <2>4, <2>5, <2>6 DEF Types, WaitsWithinStays
<1>12. ServicesDue'
  <2> SUFFICES ASSUME NEW i \in Windows
               PROVE  /\ i \in Due' => i \in Busy'
                      /\ i \in Busy' /\ current_event' # NoEvent /\ Now' < EndTime => i \in Due'
    BY DEF ServicesDue
  <2>1. i \in Due' => i \in Busy'
    BY <1>1, <1>7, <1>8, <1>9 DEF ServicesDue, Due
  <2>2. i \in Busy' /\ current_event' # NoEvent => i \in Due'
    BY <1>1, <1>7, <1>8, <1>9 DEF ServicesDue, Due, w
  <2> QED BY <2>1, <2>2
<1>13. ArrivalsInOrder'
  <2>1. \A i \in Busy' : windows'[i].customer.arrive_time \in Nat /\ windows'[i].customer.arrive_time <= Now
    BY <1>1, <1>6, <1>9, <1>10, NumberTypes DEF ArrivalsInOrder, Busy
  <2>2. current_event' # NoEvent => \A i \in Busy' : windows'[i].customer.arrive_time <= Now'
    BY <1>1, <1>8, <2>1
  <2> SUFFICES ASSUME NEW k \in 1..(n - 1)
               PROVE  /\ current_event' # NoEvent => customer_list'[k].arrive_time <= Now'
                      /\ \A j \in 1..k : customer_list'[j].arrive_time <= customer_list'[k].arrive_time
                      /\ \A i \in Busy' : windows'[i].customer.arrive_time <= customer_list'[k].arrive_time
    BY <1>4, <2>2 DEF ArrivalsInOrder
  <2>3. k + 1 \in 1..n /\ 1 \in 1..(k + 1) /\ \A j \in 1..k : j + 1 \in 1..(k + 1) /\ j \in 1..(n - 1)
    BY <1>3
  <2>4. customer_list'[k] = customer_list[k + 1] /\ \A j \in 1..k : customer_list'[j] = customer_list[j + 1]
    BY <1>4, <2>3
  <2>5. current_event' # NoEvent => customer_list'[k].arrive_time <= Now'
    BY <1>1, <1>5, <1>8, <2>3, <2>4
  <2>6. \A j \in 1..k : customer_list'[j].arrive_time <= customer_list'[k].arrive_time
    BY <1>5, <2>3, <2>4
  <2>7. \A i \in Busy' : windows'[i].customer.arrive_time <= customer_list'[k].arrive_time
    <3>1. c.arrive_time <= customer_list[k + 1].arrive_time
      BY <1>3, <1>5, <2>3
    <3>2. \A i \in Busy : windows[i].customer.arrive_time <= customer_list[k + 1].arrive_time
      BY <1>5, <2>3
    <3> QED BY <1>9, <1>10, <2>4, <3>1, <3>2 DEF Busy
  <2> QED BY <2>5, <2>6, <2>7
<1>14. NobodyWaitsInVain'
  BY <1>9 DEF NobodyWaitsInVain
<1>15. FirstComeFirstServed'
  <2>1. arrived' - Len(customer_list') = arrived - n + 1 /\ arrived \in Nat
    BY <1>1, <1>3, <1>4 DEF Types
  <2>2. \A k \in 1..(n - 1) : customer_list'[k].ticket = arrived' - Len(customer_list') + k
    <3> TAKE k \in 1..(n - 1)
    <3>1. k + 1 \in 1..n
      BY <1>3
    <3>2. customer_list[k + 1].ticket = arrived - n + (k + 1)
      BY <3>1 DEF FirstComeFirstServed, n
    <3> QED BY <1>3, <1>4, <2>1, <3>2
  <2>3. \A i \in Busy : windows[i].customer.ticket \in 1..(arrived - n)
    BY DEF FirstComeFirstServed, n
  <2>4. \A i \in Busy' : windows'[i].customer.ticket \in 1..(arrived' - Len(customer_list'))
    <3>1. arrived - n \in Nat
      BY <1>3, NumberTypes DEF FirstComeFirstServed, Types, n
    <3> QED BY <1>3, <1>6, <1>9, <1>10, <2>1, <2>3, <3>1 DEF Busy
  <2>5. \A i, j \in Busy' : windows'[i].customer.ticket = windows'[j].customer.ticket => i = j
    <3>1. \A i \in Busy \ {w} : windows'[i].customer.ticket = windows[i].customer.ticket
      BY <1>10 DEF Busy
    <3>2. \A i \in Busy : windows[i].customer.ticket # c.ticket
      BY <1>3, <1>6, <2>1, <2>3
    <3> QED BY <1>9, <1>10, <3>1, <3>2 DEF FirstComeFirstServed
  <2>6. arrived' = departed' + Cardinality(Busy') + Len(customer_list')
    <3>1. arrived = departed + Cardinality(Busy) + n /\ Cardinality(Busy) \in Nat
      BY NumberTypes DEF FirstComeFirstServed, n
    <3>2. arrived \in Nat /\ departed \in Nat
      BY DEF Types
    <3> QED BY <1>1, <1>3, <1>4, <1>9, <3>1, <3>2
  <2> QED BY <1>4, <2>2, <2>4, <2>5, <2>6 DEF FirstComeFirstServed
<1>16. ServedInFull'
  <2> SUFFICES ASSUME NEW e \in DueEvents', e.event_type \in Windows
               PROVE  windows'[e.event_type].customer.arrive_time
                        + windows'[e.event_type].customer.duration <= e.cur_time
    BY DEF ServedInFull
  <2>1. e \in Entries(event_list) \/ e = EventAt(Now + c.duration, w)
    BY <1>7, <1>8, EventKinds
  <2>2. CASE e \in Entries(event_list)
    <3>1. e \in DueEvents /\ e.event_type # w
      BY <1>1, <2>2, KindsOfEntries DEF DueEvents
    <3>2. windows'[e.event_type] = windows[e.event_type]
      BY <1>10, <3>1
    <3> QED BY <3>1, <3>2 DEF ServedInFull
  <2>3. CASE e = EventAt(Now + c.duration, w)
    BY <1>1, <1>6, <1>10, <2>3 DEF EventAt
  <2> QED BY <2>1, <2>2, <2>3
<1> QED BY <1>8, <1>11, <1>12, <1>13, <1>14, <1>15, <1>16

(* A window rests when nobody waits.                                       *)
LEMMA DepartureRests ==
  ASSUME IInv, CustomerDeparture, customer_list = <<>>
  PROVE  IInv'
<1> USE DEF IInv
<1> DEFINE w == current_event.event_type
<1>1. /\ current_event # NoEvent /\ Now \in Nat /\ Now < EndTime
      /\ w \in Busy /\ w \in Windows /\ w \notin Kinds(event_list)
      /\ Agenda(event_list, Now)
      /\ windows[w].customer.arrive_time \in 0..Now
      /\ total_customer_stay_time' \in Nat
      /\ total_customer_stay_time' = total_customer_stay_time
           + (Now - windows[w].customer.arrive_time)
      /\ departed' = departed + 1 /\ arrived' = arrived
      /\ NextCustomer(w)
  BY DepartingWindow DEF Busy
<1>2. /\ windows' = [windows EXCEPT ![w] = [windows[w] EXCEPT !.status = "IDLE"]]
      /\ Advance(event_list)
      /\ UNCHANGED <<customer_list, total_customer_wait_time>>
  BY <1>1 DEF NextCustomer
<1>3. /\ windows'[w] = [windows[w] EXCEPT !.status = "IDLE"]
      /\ \A i \in Windows \ {w} : windows'[i] = windows[i]
      /\ windows' \in [Windows -> [status : {"IDLE", "SERVICE"}, customer : Visitor]]
  <2>1. [windows[w] EXCEPT !.status = "IDLE"] \in [status : {"IDLE", "SERVICE"}, customer : Visitor]
    BY <1>1 DEF Types
  <2> QED BY <1>1, <1>2, <2>1 DEF Types
<1>4. /\ current_event' \in Event \cup {NoEvent}
      /\ event_list' \in Seq(Event)
      /\ Calendar'
      /\ current_event' # NoEvent => Now <= Now' /\ Now' \in Nat
      /\ \A i \in Windows : i \in Due' => i \in Kinds(event_list)
      /\ \A i \in Windows : current_event' # NoEvent /\ i \in Kinds(event_list) => i \in Due'
      /\ DueEvents' \subseteq Entries(event_list) \cup {NoEvent}
  BY <1>1, <1>2, AdvanceCalendar
<1>5. Busy' = Busy \ {w}
  <2>1. windows'[w].status = "IDLE"
    BY <1>1, <1>3 DEF Types
  <2> QED BY <1>1, <1>3, <2>1 DEF Busy, IdleWindows
<1>6. Types' /\ WaitsWithinStays'
  <2>1. total_customer_stay_time <= total_customer_stay_time'
    BY <1>1 DEF Types
  <2>2. total_customer_wait_time' \in Nat /\ total_customer_wait_time' <= total_customer_stay_time'
    BY <1>1, <1>2, <2>1 DEF Types, WaitsWithinStays
  <2>3. customer_list' \in Seq(Visitor) /\ arrived' \in Nat /\ departed' \in Nat
    BY <1>1, <1>2 DEF Types
  <2> QED BY <1>1, <1>3, <1>4, <2>2, <2>3 DEF Types, WaitsWithinStays
<1>7. ServicesDue'
  BY <1>1, <1>4, <1>5 DEF ServicesDue, Due
<1>8. ArrivalsInOrder' /\ NobodyWaitsInVain'
  <2>1. \A i \in Busy' : windows'[i].customer.arrive_time \in Nat /\ windows'[i].customer.arrive_time <= Now
    BY <1>1, <1>3, <1>5, NumberTypes DEF ArrivalsInOrder, Busy
  <2>2. current_event' # NoEvent => \A i \in Busy' : windows'[i].customer.arrive_time <= Now'
    BY <1>1, <1>4, <2>1
  <2>3. Len(customer_list') = 0
    BY <1>2
  <2> QED BY <1>2, <2>2, <2>3 DEF ArrivalsInOrder, NobodyWaitsInVain
<1>9. FirstComeFirstServed'
  <2>1. Cardinality(Busy') = Cardinality(Busy) - 1
    BY <1>1, <1>5, NumberTypes, FS_RemoveElement
  <2>2. arrived = departed + Cardinality(Busy) + Len(customer_list) /\ Cardinality(Busy) \in Nat
    BY NumberTypes DEF FirstComeFirstServed
  <2>3. arrived' = departed' + Cardinality(Busy') + Len(customer_list')
    BY <1>1, <1>2, <2>1, <2>2 DEF Types
  <2>4. \A i \in Busy' : i \in Busy /\ windows'[i] = windows[i]
    BY <1>3, <1>5 DEF Busy
  <2> QED BY <1>1, <1>2, <2>3, <2>4 DEF FirstComeFirstServed
<1>10. ServedInFull'
  <2> SUFFICES ASSUME NEW e \in DueEvents', e.event_type \in Windows
               PROVE  windows'[e.event_type].customer.arrive_time
                        + windows'[e.event_type].customer.duration <= e.cur_time
    BY DEF ServedInFull
  <2>1. e \in DueEvents /\ e.event_type # w
    BY <1>1, <1>4, EventKinds, KindsOfEntries DEF DueEvents
  <2>2. windows'[e.event_type] = windows[e.event_type]
    BY <1>3, <2>1
  <2> QED BY <2>1, <2>2 DEF ServedInFull
<1> QED BY <1>4, <1>6, <1>7, <1>8, <1>9, <1>10

(* Every step of the simulation keeps the bank in order.                   *)
LEMMA NextHolds == IInv /\ [Next]_vars => IInv'
<1> SUFFICES ASSUME IInv, [Next]_vars PROVE IInv'
  OBVIOUS
<1>1. CASE CustomerArrived
  BY <1>1, ArrivalServed, ArrivalQueued
<1>2. CASE CustomerDeparture
  BY <1>2, DepartureTakesNext, DepartureRests
<1>3. CASE LateDeparture
  BY <1>3, LateHolds
<1>4. CASE End
  BY <1>4, EndHolds
<1>5. CASE UNCHANGED vars
  BY <1>5 DEF vars, totals, IInv, Types, Calendar, ServicesDue, ServedInFull, ArrivalsInOrder,
    WaitsWithinStays, NobodyWaitsInVain, FirstComeFirstServed, Agenda, InOrder, OnePerKind, Kinds,
    Entries, Due, DueEvents, Busy, IdleWindows, Now
<1> QED BY <1>1, <1>2, <1>3, <1>4, <1>5 DEF Next

(* In every state of every behaviour all parts of the invariant hold.      *)
THEOREM BankIsOrderly == Spec => []IInv
<1>1. Init => IInv
  BY InitHolds
<1>2. IInv /\ [Next]_vars => IInv'
  BY NextHolds
<1> QED BY <1>1, <1>2, PTL DEF Spec

-----------------------------------------------------------------------------
(* Nobody queues while a window is idle.                                   *)
THEOREM QueueOnlyWhenBusy == Spec => []NobodyWaitsInVain
<1>1. IInv => NobodyWaitsInVain
  BY DEF IInv
<1> QED BY <1>1, BankIsOrderly, PTL

(* First come, first served, and nobody gets lost.                         *)
THEOREM ServedInOrder == Spec => []FirstComeFirstServed
<1>1. IInv => FirstComeFirstServed
  BY DEF IInv
<1> QED BY <1>1, BankIsOrderly, PTL

(* The list of events stays in order and the clock of a run never goes     *)
(* back.                                                                   *)
THEOREM ClockIsMonotone == Spec => []EventsInOrder
<1>1. IInv => EventsInOrder
  <2> SUFFICES ASSUME IInv PROVE EventsInOrder
    OBVIOUS
  <2>1. CASE event_list = <<>>
    BY <2>1 DEF IInv, Types, WaitsWithinStays, EventsInOrder
  <2>2. CASE event_list # <<>>
    <3>1. current_event # NoEvent /\ Agenda(event_list, Now)
      BY <2>2 DEF IInv, Calendar
    <3>2. Len(event_list) \in Nat \ {0} /\ event_list[1] = Head(event_list)
      BY <2>2, <3>1, EmptySeq DEF Agenda
    <3>3. Now <= Head(event_list).cur_time
      BY <3>1, <3>2 DEF Agenda
    <3> QED BY <3>1, <3>3 DEF IInv, Types, WaitsWithinStays, EventsInOrder, Agenda, InOrder
  <2> QED BY <2>1, <2>2
<1> QED BY <1>1, BankIsOrderly, PTL

(* A window has at most one departure to come, and before closing time it  *)
(* has one exactly if it is busy.                                          *)
THEOREM NoWindowLost == Spec => []OneDeparturePerService
<1>1. IInv => OneDeparturePerService
  <2> SUFFICES ASSUME IInv, NEW i \in Windows
               PROVE  /\ Departures(i) <= 1
                      /\ Departures(i) = 1 <=> i \in Due
    BY DEF IInv, ServicesDue, OneDeparturePerService
  <2> DEFINE K == {k \in 1..Len(event_list) : event_list[k].event_type = i}
  <2>1. \A j, k \in K : j = k
    <3>1. CASE current_event = NoEvent
      BY <3>1 DEF IInv, Calendar
    <3>2. CASE current_event # NoEvent
      BY <3>2 DEF IInv, Calendar, Agenda, OnePerKind
    <3> QED BY <3>1, <3>2
  <2>2. K = {} <=> i \notin Kinds(event_list)
    BY DEF Kinds
  <2>3. current_event.event_type = i => i \notin Kinds(event_list)
    BY DEF IInv, Calendar
  <2>4. Departures(i) = Cardinality(K) + (IF current_event.event_type = i THEN 1 ELSE 0)
    BY DEF Departures
  <2> HIDE DEF K
  <2>5. K = {} => Cardinality(K) = 0
    BY FS_EmptySet
  <2>6. K # {} => Cardinality(K) = 1
    <3> SUFFICES ASSUME NEW k \in K PROVE Cardinality(K) = 1
      OBVIOUS
    <3>1. K = {k}
      BY <2>1
    <3> QED BY <3>1, FS_Singleton
  <2> QED BY <2>2, <2>3, <2>4, <2>5, <2>6 DEF Due
<1> QED BY <1>1, BankIsOrderly, PTL

-----------------------------------------------------------------------------
(* The linked list behind both queues of the simulation (LinkedQueue).     *)

(* The list behind the sentinel. *)
Chosen(s) == {s[i] : i \in 1..Len(s)}
Distinct(s) == \A i, j \in 1..Len(s) : s[i] = s[j] => i = j

(* The address at place i of the list s, the sentinel being at place 0.    *)
At(s, i) == IF i = 0 THEN front ELSE IF i \in 1..Len(s) THEN s[i] ELSE NULL

QueueTypes ==
  /\ usage \in {"events", "customers"}
  /\ next \in [Nodes \cup {front} -> Nodes \cup {NULL}]
  /\ event = [a \in Nodes |-> event[a]]
  /\ rear \in Nodes \cup {front}
  /\ heap \subseteq Nodes /\ held \in Nodes \cup {NULL} /\ firsts \in Nat
  /\ \A a \in heap : event[a] \in Events

(* The nodes that somebody will free: those of the list and the one that   *)
(* was handed out.                                                         *)
Kept(s) == Chosen(s) \cup ({held} \ {NULL})

(* The pointers make the list s; all that is allocated and not kept is the *)
(* node that each first insertion of an event left behind; rear is the end *)
(* of the list wherever that matters.                                      *)
Chain(s) ==
  /\ Distinct(s)
  /\ \A i \in 0..Len(s) : next[At(s, i)] = At(s, i + 1)
  /\ Kept(s) \subseteq heap /\ held \notin Chosen(s)
  /\ Cardinality(heap \ Kept(s)) = firsts
  /\ rear \in Chosen(s) \cup {front}
  /\ usage = "customers" \/ s = <<>> => rear = At(s, Len(s))

QueueIInv == QueueTypes /\ \E s \in Seq(Nodes) : Chain(s)

(* Induction, over a set of numbers. *)
LEMMA SetInduction ==
  ASSUME NEW S \in SUBSET Nat, 0 \in S, \A n \in S : n + 1 \in S
  PROVE  \A n \in Nat : n \in S
<1> DEFINE T == Nat \ S
<1>1. ASSUME NEW n \in T, \A m \in T : n <= m PROVE FALSE
  <2>1. n # 0 /\ n - 1 \in Nat /\ (n - 1) + 1 = n /\ ~ (n <= n - 1)
    OBVIOUS
  <2>2. n - 1 \in S
    BY <1>1, <2>1
  <2> QED BY <2>1, <2>2
<1>2. T \in SUBSET Nat
  OBVIOUS
<1> HIDE DEF T
<1>3. T = {}
  BY <1>1, <1>2, LeastNumber
<1> QED BY <1>3 DEF T

(* A list without repetition is no longer than there are addresses.        *)
LEMMA ListFits ==
  ASSUME NEW s \in Seq(Nodes), Distinct(s)
  PROVE  Cardinality(Nodes) \in Nat /\ Len(s) <= Cardinality(Nodes)
<1> DEFINE n == Len(s)
           f == [i \in 1..n |-> s[i]]
<1>1. n \in Nat /\ \A i \in 1..n : s[i] \in Nodes
  BY ElementOfSeq, LenProperties
<1> HIDE DEF n
<1>2. f \in Bijection(1..n, Chosen(s))
  BY <1>1 DEF Bijection, Injection, IsInjective, Surjection, Chosen, Distinct, n
<1>3. IsFiniteSet(1..n) /\ Cardinality(1..n) = n
  <2>1. 1 \in Int /\ n \in Int
    BY <1>1
  <2>2. IsFiniteSet(1..n) /\ Cardinality(1..n) = IF 1 > n THEN 0 ELSE n - 1 + 1
    BY <2>1, FS_Interval
  <2> QED BY <1>1, <2>2
<1>4. Cardinality(Chosen(s)) = n
  <2>1. ExistsBijection(1..n, Chosen(s))
    BY <1>2 DEF ExistsBijection
  <2> QED BY <1>3, <2>1, FS_Bijection
<1>5. Chosen(s) \subseteq Nodes
  BY <1>1 DEF Chosen, n
<1> QED BY <1>4, <1>5, NodesAssumption, FS_Subset, FS_CardinalityType DEF n

(* The places of a list are the sentinel, its nodes and then nothing. *)
LEMMA Places ==
  ASSUME NEW s \in Seq(Nodes)
  PROVE  /\ Len(s) \in Nat
         /\ At(s, 0) = front /\ At(s, Len(s) + 1) = NULL
         /\ \A i \in 1..Len(s) : At(s, i) = s[i] /\ At(s, i) \in Nodes
         /\ \A i \in 0..Len(s) : At(s, i) \in Nodes \cup {front} /\ At(s, i) # NULL
         /\ Distinct(s) => \A i, j \in 0..Len(s) : At(s, i) = At(s, j) => i = j
         /\ Chosen(s) = {At(s, i) : i \in 1..Len(s)}
         /\ Chosen(s) \subseteq Nodes
<1>1. Len(s) \in Nat /\ \A i \in 1..Len(s) : s[i] \in Nodes
  BY ElementOfSeq, LenProperties
<1>2. front # NULL
  BY DEF front, NULL
<1>3. Distinct(s) => \A i, j \in 1..Len(s) : s[i] = s[j] => i = j
  BY DEF Distinct
<1>4. At(s, 0) = front /\ At(s, Len(s) + 1) = NULL
  BY <1>1 DEF At
<1>5. \A i \in 1..Len(s) : At(s, i) = s[i]
  BY <1>1 DEF At
<1>6. \A i \in 0..Len(s) : i = 0 \/ i \in 1..Len(s)
  BY <1>1
<1>7. \A i \in 1..Len(s) : s[i] # front /\ s[i] # NULL
  BY <1>1, AddressAssumption
<1>8. \A i \in 0..Len(s) : At(s, i) \in Nodes \cup {front} /\ At(s, i) # NULL
  BY <1>1, <1>2, <1>4, <1>5, <1>6, <1>7
<1>9. Distinct(s) => \A i, j \in 0..Len(s) : At(s, i) = At(s, j) => i = j
  BY <1>3, <1>4, <1>5, <1>6, <1>7
<1>10. Chosen(s) = {At(s, i) : i \in 1..Len(s)}
  BY <1>5 DEF Chosen
<1> QED BY <1>1, <1>4, <1>5, <1>8, <1>9, <1>10 DEF Chosen

(* The walk from the sentinel meets the nodes of the list in their order.  *)
LEMMA WalkIs ==
  ASSUME NEW s \in Seq(Nodes), Distinct(s),
         \A i \in 0..Len(s) : next[At(s, i)] = At(s, i + 1)
  PROVE  Cell = [i \in 0..(Cardinality(Nodes) + 1) |-> At(s, i)]
<1> DEFINE N == Cardinality(Nodes) + 1
           W == [i \in 0..N |-> At(s, i)]
           Step(F) == F = [i \in 0..N |-> IF i = 0 THEN front
                                          ELSE IF F[i - 1] = NULL THEN NULL ELSE next[F[i - 1]]]
<1>1. Len(s) \in Nat /\ N \in Nat /\ Len(s) < N
  BY ListFits, LenProperties
<1>2. \A i \in 1..N : At(s, i) = IF At(s, i - 1) = NULL THEN NULL ELSE next[At(s, i - 1)]
  <2> SUFFICES ASSUME NEW i \in 1..N
               PROVE  At(s, i) = IF At(s, i - 1) = NULL THEN NULL ELSE next[At(s, i - 1)]
    OBVIOUS
  <2>1. CASE i - 1 <= Len(s)
    <3>1. i - 1 \in 0..Len(s) /\ (i - 1) + 1 = i
      BY <1>1, <2>1
    <3>2. At(s, i - 1) # NULL /\ next[At(s, i - 1)] = At(s, (i - 1) + 1)
      BY <3>1, Places
    <3> QED BY <3>1, <3>2
  <2>2. CASE i - 1 > Len(s)
    <3>1. At(s, i) = NULL /\ At(s, i - 1) = NULL
      BY <1>1, <2>2 DEF At
    <3> QED BY <3>1
  <2> QED BY <1>1, <2>1, <2>2
<1>3. Step(W)
  <2>1. \A i \in 0..N : W[i] = IF i = 0 THEN front
                                ELSE IF W[i - 1] = NULL THEN NULL ELSE next[W[i - 1]]
    <3> SUFFICES ASSUME NEW i \in 0..N
                 PROVE  W[i] = IF i = 0 THEN front
                                ELSE IF W[i - 1] = NULL THEN NULL ELSE next[W[i - 1]]
      OBVIOUS
    <3>1. CASE i = 0
      BY <3>1, Places
    <3>2. CASE i # 0
      <4>1. i \in 1..N /\ i - 1 \in 0..N
        BY <1>1, <3>2
      <4>2. W[i] = At(s, i) /\ W[i - 1] = At(s, i - 1)
        BY <4>1
      <4> HIDE DEF W
      <4> QED BY <1>2, <3>2, <4>1, <4>2
    <3> QED BY <3>1, <3>2
  <2> QED BY <2>1
<1>4. ASSUME NEW F, Step(F) PROVE F = W
  <2> DEFINE S == {i \in Nat : i <= N => F[i] = At(s, i)}
  <2>1. \A i \in 0..N : F[i] = IF i = 0 THEN front
                                ELSE IF F[i - 1] = NULL THEN NULL ELSE next[F[i - 1]]
    BY <1>4
  <2>2. 0 \in S
    BY <1>1, <2>1, Places
  <2>3. ASSUME NEW n \in S PROVE n + 1 \in S
    <3>1. CASE n + 1 <= N
      <4>1. n + 1 \in 1..N /\ n + 1 \in 0..N /\ n + 1 # 0 /\ (n + 1) - 1 = n /\ n <= N
        BY <1>1, <3>1
      <4>2. F[n] = At(s, n)
        BY <4>1
      <4>3. F[n + 1] = IF F[n] = NULL THEN NULL ELSE next[F[n]]
        BY <2>1, <4>1
      <4>4. At(s, n + 1) = IF At(s, n) = NULL THEN NULL ELSE next[At(s, n)]
        BY <1>2, <4>1
      <4> QED BY <4>2, <4>3, <4>4
    <3> QED BY <1>1, <3>1
  <2> HIDE DEF S
  <2>4. \A n \in Nat : n \in S
    BY <2>2, <2>3, SetInduction, S \in SUBSET Nat DEF S
  <2>5. \A i \in 0..N : F[i] = At(s, i)
    BY <1>1, <2>4 DEF S
  <2>6. F = [i \in 0..N |-> F[i]]
    BY <1>4
  <2> HIDE DEF Step, N
  <2> QED BY <2>5, <2>6
<1>5. Cell = CHOOSE F : Step(F)
  BY DEF Cell
<1> HIDE DEF Step, W
<1>6. Cell = W
  BY <1>3, <1>4, <1>5
<1> QED BY <1>6 DEF W

(* What length() and the walk yield in a state of the invariant.           *)
WalksList ==
  \A s \in Seq(Nodes) : Chain(s) =>
    /\ length = Len(s)
    /\ \A i \in 0..Len(s) : Cell[i] = At(s, i)
    /\ List = Chosen(s)

(* The walk of length() sees the list. *)
LEMMA ListWalked == WalksList
<1> SUFFICES ASSUME NEW s \in Seq(Nodes), Chain(s)
             PROVE  /\ length = Len(s)
                    /\ \A i \in 0..Len(s) : Cell[i] = At(s, i)
                    /\ List = Chosen(s)
  BY DEF WalksList
<1> DEFINE n == Len(s)
           N == Cardinality(Nodes) + 1
           W == [i \in 0..N |-> At(s, i)]
<1>1. n \in Nat /\ N \in Nat /\ n < N
  BY ListFits, Places DEF Chain
<1>2. Cell = W
  BY WalkIs DEF Chain
<1>3. \A i \in 0..N : Cell[i] = At(s, i)
  BY <1>2
<1>4. {i \in 1..N : Cell[i] # NULL} = 1..n
  <2>1. \A i \in 1..N : Cell[i] # NULL <=> i \in 1..n
    <3> SUFFICES ASSUME NEW i \in 1..N PROVE Cell[i] # NULL <=> i \in 1..n
      OBVIOUS
    <3>1. Cell[i] = At(s, i)
      BY <1>1, <1>3
    <3>2. CASE i \in 1..n
      <4>1. At(s, i) # NULL
        BY <1>1, <3>2, Places
      <4> QED BY <3>1, <3>2, <4>1
    <3>3. CASE i \notin 1..n
      <4>1. At(s, i) = NULL
        BY <1>1, <3>3 DEF At
      <4> QED BY <3>1, <3>3, <4>1
    <3> QED BY <3>2, <3>3
  <2>2. 1..n \subseteq 1..N
    BY <1>1
  <2> HIDE DEF n, N, W
  <2> QED BY <2>1, <2>2
<1>5. length = n
  <2>1. length = Cardinality(1..n)
    BY <1>4 DEF length
  <2>2. 1 \in Int /\ n \in Int
    BY <1>1
  <2> HIDE DEF n
  <2>3. Cardinality(1..n) = IF 1 > n THEN 0 ELSE n - 1 + 1
    BY <2>2, FS_Interval
  <2> QED BY <1>1, <2>1, <2>3
<1>6. \A i \in 0..n : Cell[i] = At(s, i)
  BY <1>1, <1>3
<1>7. List = Chosen(s)
  <2>1. List = {Cell[i] : i \in 1..n}
    BY <1>5 DEF List
  <2>2. \A i \in 1..n : Cell[i] = At(s, i)
    BY <1>1, <1>6
  <2>3. Chosen(s) = {At(s, i) : i \in 1..n}
    BY Places
  <2> HIDE DEF n
  <2> QED BY <2>1, <2>2, <2>3
<1> QED BY <1>5, <1>6, <1>7

(* The list with a new node behind place i. *)
Inserted(s, i, a) ==
  [j \in 1..(Len(s) + 1) |-> IF j <= i THEN s[j] ELSE IF j = i + 1 THEN a ELSE s[j - 1]]

(* What comes of it. *)
IsInserted(s, i, a, t) ==
  /\ t \in Seq(Nodes)
  /\ Len(t) = Len(s) + 1
  /\ Chosen(t) = Chosen(s) \cup {a}
  /\ \A j \in 0..(Len(s) + 2) :
       At(t, j) = IF j <= i THEN At(s, j) ELSE IF j = i + 1 THEN a ELSE At(s, j - 1)

LEMMA InsertedIs ==
  ASSUME NEW s \in Seq(Nodes), NEW i \in 0..Len(s), NEW a \in Nodes
  PROVE  /\ IsInserted(s, i, a, Inserted(s, i, a))
         /\ Distinct(s) /\ a \notin Chosen(s) => Distinct(Inserted(s, i, a))
<1> DEFINE n == Len(s)
           t == Inserted(s, i, a)
<1>1. n \in Nat /\ \A j \in 1..n : s[j] \in Nodes
  BY ElementOfSeq, LenProperties
<1>2. \A j \in 1..(n + 1) : t[j] = IF j <= i THEN s[j] ELSE IF j = i + 1 THEN a ELSE s[j - 1]
  BY DEF Inserted
<1>3. t \in Seq(Nodes) /\ Len(t) = n + 1
  <2>1. n + 1 \in Nat /\ t = [j \in 1..(n + 1) |-> t[j]]
    BY <1>1 DEF Inserted
  <2>2. ASSUME NEW j \in 1..(n + 1) PROVE t[j] \in Nodes
    <3>1. j <= i \/ j = i + 1 \/ j > i + 1
      BY <1>1
    <3>2. CASE j <= i
      <4>1. j \in 1..n
        BY <1>1, <3>2
      <4> HIDE DEF t
      <4> QED BY <1>1, <1>2, <3>2, <4>1
    <3>3. CASE j = i + 1
      <4>1. ~ (j <= i)
        BY <3>3
      <4> HIDE DEF t
      <4> QED BY <1>2, <3>3, <4>1
    <3>4. CASE j > i + 1
      <4>1. j - 1 \in 1..n /\ ~ (j <= i) /\ j # i + 1
        BY <1>1, <3>4
      <4> HIDE DEF t
      <4> QED BY <1>1, <1>2, <4>1
    <3> QED BY <3>1, <3>2, <3>3, <3>4
  <2> HIDE DEF t, n
  <2> DEFINE m == n + 1
  <2>3. m \in Nat /\ t = [j \in 1..m |-> t[j]] /\ \A j \in 1..m : t[j] \in Nodes
    BY <2>1, <2>2
  <2> HIDE DEF m
  <2>4. t \in [1..m -> Nodes]
    BY <2>3
  <2>5. t \in Seq(Nodes) /\ Len(t) = m
    BY <2>3, <2>4
  <2> QED BY <2>5 DEF m
<1> HIDE DEF t
<1>4. ASSUME NEW j \in 0..(n + 2)
      PROVE  At(t, j) = IF j <= i THEN At(s, j) ELSE IF j = i + 1 THEN a ELSE At(s, j - 1)
  <2>1. CASE j = 0
    BY <2>1 DEF At
  <2>2. CASE j = n + 2
    <3>1. At(t, j) = NULL
      BY <1>1, <1>3, <2>2 DEF At
    <3>2. At(s, j - 1) = NULL /\ ~ (j <= i) /\ j # i + 1
      BY <1>1, <2>2 DEF At
    <3> QED BY <3>1, <3>2
  <2>3. CASE j \in 1..(n + 1)
    <3>1. At(t, j) = t[j]
      BY <1>1, <1>3, <2>3 DEF At
    <3>2. CASE j <= i
      <4>1. At(s, j) = s[j]
        BY <1>1, <2>3, <3>2 DEF At
      <4> QED BY <1>2, <2>3, <3>1, <3>2, <4>1
    <3>3. CASE j > i
      <4>1. CASE j = i + 1
        BY <1>2, <2>3, <3>1, <3>3, <4>1
      <4>2. CASE j # i + 1
        <5>1. At(s, j - 1) = s[j - 1]
          BY <1>1, <2>3, <3>3, <4>2 DEF At
        <5>2. ~ (j <= i)
          BY <2>3, <3>3
        <5> QED BY <1>2, <2>3, <3>1, <4>2, <5>1, <5>2
      <4> QED BY <4>1, <4>2
    <3> QED BY <2>3, <3>2, <3>3
  <2> QED BY <1>1, <2>1, <2>2, <2>3
<1> DEFINE from(j) == IF j <= i THEN j ELSE j - 1  \* where a node of t was in s
<1>5. \A j \in 1..(n + 1) : j # i + 1 => from(j) \in 1..n /\ t[j] = s[from(j)]
  BY <1>1, <1>2
<1>6. t[i + 1] = a /\ i + 1 \in 1..(n + 1)
  BY <1>1, <1>2
<1>7. \A j, k \in 1..(n + 1) : j # i + 1 /\ k # i + 1 /\ from(j) = from(k) => j = k
  BY <1>1
<1>8. \A k \in 1..n : \E j \in 1..(n + 1) : j # i + 1 /\ from(j) = k
  <2> TAKE k \in 1..n
  <2>1. CASE k <= i
    <3>1. k \in 1..(n + 1) /\ k # i + 1 /\ from(k) = k
      BY <1>1, <2>1
    <3> HIDE DEF from
    <3> QED BY <3>1
  <2>2. CASE k > i
    <3>1. k + 1 \in 1..(n + 1) /\ k + 1 # i + 1 /\ from(k + 1) = k
      BY <1>1, <2>2
    <3> HIDE DEF from
    <3> QED BY <3>1
  <2> QED BY <2>1, <2>2
<1> HIDE DEF from
<1>9. Chosen(t) = Chosen(s) \cup {a}
  <2>1. \A j \in 1..(n + 1) : t[j] \in Chosen(s) \cup {a}
    BY <1>5, <1>6 DEF Chosen
  <2>2. \A k \in 1..n : \E j \in 1..(n + 1) : t[j] = s[k]
    BY <1>5, <1>8
  <2> QED BY <1>3, <1>6, <2>1, <2>2 DEF Chosen
<1>10. ASSUME Distinct(s), a \notin Chosen(s) PROVE Distinct(t)
  <2>1. \A j, k \in 1..n : s[j] = s[k] => j = k
    BY <1>10 DEF Distinct
  <2>2. \A k \in 1..n : s[k] # a
    BY <1>10 DEF Chosen
  <2>3. \A j, k \in 1..(n + 1) : t[j] = t[k] => j = k
    BY <1>5, <1>6, <1>7, <2>1, <2>2
  <2> QED BY <1>3, <2>3 DEF Distinct
<1>11. IsInserted(s, i, a, t)
  BY <1>3, <1>4, <1>9 DEF IsInserted
<1> QED BY <1>10, <1>11 DEF t

(* A node a that is linked in behind place i, and rear still right; b is   *)
(* another node, which is lost, or a itself if there is no other.          *)
LEMMA InsertKeepsChain ==
  ASSUME QueueTypes, NEW s \in Seq(Nodes), Chain(s), NEW i \in 0..Len(s),
         NEW a \in Nodes \ heap, NEW b \in Nodes \ heap, NEW e \in Events,
         next' = [next EXCEPT ![b] = NULL, ![a] = At(s, i + 1), ![At(s, i)] = a],
         event' = [event EXCEPT ![b] = e, ![a] = e],
         heap' = heap \cup {a, b}, usage' = usage, held' = held,
         firsts' = firsts + (IF b = a THEN 0 ELSE 1),
         \/ rear' = a /\ i = Len(s)
         \/ rear' = rear /\ usage = "events" /\ s # <<>>
  PROVE  QueueTypes' /\ Chain(Inserted(s, i, a))'
<1> DEFINE n == Len(s)
           t == Inserted(s, i, a)
<1>1. n \in Nat /\ \A j \in 0..n : At(s, j) \in Nodes \cup {front}
  BY Places
<1>2. /\ a \notin Chosen(s) /\ a # held /\ a # front /\ a # NULL
      /\ b \notin Chosen(s) /\ b # held /\ b # front /\ b # NULL
  BY AddressAssumption DEF Chain, Kept
<1>3. \A j \in 0..n : At(s, j) # a /\ At(s, j) # b
  <2>1. \A j \in 1..n : At(s, j) \in Chosen(s)
    BY Places
  <2>2. At(s, 0) = front
    BY Places
  <2>3. \A j \in 0..n : j = 0 \/ j \in 1..n
    BY <1>1
  <2> HIDE DEF n
  <2> QED BY <1>2, <2>1, <2>2, <2>3
<1>4. \A j, k \in 0..n : At(s, j) = At(s, k) => j = k
  BY Places DEF Chain
<1>5. \A j \in 0..n : next[At(s, j)] = At(s, j + 1)
  BY DEF Chain
<1>6. /\ t \in Seq(Nodes) /\ Len(t) = n + 1
      /\ Chosen(t) = Chosen(s) \cup {a} /\ Distinct(t)
      /\ \A j \in 0..(n + 2) : At(t, j) = IF j <= i THEN At(s, j)
                                         ELSE IF j = i + 1 THEN a ELSE At(s, j - 1)
  <2>1. Distinct(s) /\ a \in Nodes
    BY DEF Chain
  <2>2. IsInserted(s, i, a, t) /\ Distinct(t)
    BY <1>2, <2>1, InsertedIs
  <2> HIDE DEF t
  <2> QED BY <2>2 DEF IsInserted
<1> HIDE DEF t
<1>7. At(s, i + 1) \in Nodes \cup {NULL}
  <2>1. CASE i = n
    BY <2>1, Places
  <2>2. CASE i # n
    <3>1. i + 1 \in 1..n
      BY <1>1, <2>2
    <3> QED BY <3>1, Places
  <2> QED BY <2>1, <2>2
<1>8. QueueTypes'
  <2>1. next' \in [Nodes \cup {front} -> Nodes \cup {NULL}]
    BY <1>7 DEF QueueTypes
  <2>2. event' = [c \in Nodes |-> event'[c]]
    BY DEF QueueTypes
  <2>3. rear' \in Nodes \cup {front} /\ heap' \subseteq Nodes /\ held' \in Nodes \cup {NULL}
        /\ usage' \in {"events", "customers"} /\ firsts' \in Nat
    BY DEF QueueTypes
  <2>4. \A c \in heap' : event'[c] \in Events
    BY DEF QueueTypes
  <2> QED BY <2>1, <2>2, <2>3, <2>4 DEF QueueTypes
<1>9. /\ next'[At(s, i)] = a /\ next'[a] = At(s, i + 1)
      /\ \A j \in 0..n : j # i => next'[At(s, j)] = At(s, j + 1)
  <2> DEFINE c == At(s, i)
             d == At(s, i + 1)
  <2>1. c \in Nodes \cup {front} /\ c # a
    BY <1>1, <1>3
  <2>2. \A j \in 0..n : j # i =>
          At(s, j) # c /\ At(s, j) # a /\ At(s, j) # b /\ At(s, j) \in Nodes \cup {front}
    BY <1>1, <1>3, <1>4
  <2>3. next' = [next EXCEPT ![b] = NULL, ![a] = d, ![c] = a]
    OBVIOUS
  <2> HIDE DEF c, d
  <2>4. /\ next'[c] = a /\ next'[a] = d
        /\ \A x \in Nodes \cup {front} : x # c /\ x # a /\ x # b => next'[x] = next[x]
    BY <2>1, <2>3 DEF QueueTypes
  <2> QED BY <1>5, <2>2, <2>4 DEF c, d
<1>10. ASSUME NEW j \in 0..(n + 1) PROVE next'[At(t, j)] = At(t, j + 1)
  <2>1. CASE j < i
    <3>1. j \in 0..n /\ j # i /\ j \in 0..(n + 2) /\ j + 1 \in 0..(n + 2) /\ j <= i /\ j + 1 <= i
      BY <1>1, <2>1
    <3>2. At(t, j) = At(s, j) /\ At(t, j + 1) = At(s, j + 1)
      BY <1>6, <3>1
    <3> QED BY <1>9, <3>1, <3>2
  <2>2. CASE j = i
    <3>1. j \in 0..(n + 2) /\ j + 1 \in 0..(n + 2) /\ j <= i /\ ~ (j + 1 <= i) /\ j + 1 = i + 1
      BY <1>1, <2>2
    <3>2. At(t, j) = At(s, j) /\ At(t, j + 1) = a
      BY <1>6, <3>1
    <3> QED BY <1>9, <2>2, <3>2
  <2>3. CASE j = i + 1
    <3>1. j \in 0..(n + 2) /\ j + 1 \in 0..(n + 2) /\ ~ (j <= i) /\ ~ (j + 1 <= i)
          /\ j + 1 # i + 1 /\ (j + 1) - 1 = i + 1
      BY <1>1, <2>3
    <3>2. At(t, j) = a /\ At(t, j + 1) = At(s, i + 1)
      BY <1>6, <2>3, <3>1
    <3> QED BY <1>9, <3>2
  <2>4. CASE j > i + 1
    <3>1. j \in 0..(n + 2) /\ j + 1 \in 0..(n + 2) /\ ~ (j <= i) /\ ~ (j + 1 <= i)
          /\ j # i + 1 /\ j + 1 # i + 1 /\ (j + 1) - 1 = j /\ (j - 1) + 1 = j
          /\ j - 1 \in 0..n /\ j - 1 # i
      BY <1>1, <2>4
    <3>2. At(t, j) = At(s, j - 1) /\ At(t, j + 1) = At(s, j)
      BY <1>6, <3>1
    <3> QED BY <1>9, <3>1, <3>2
  <2> QED BY <1>1, <2>1, <2>2, <2>3, <2>4
<1>11. rear' \in Chosen(t) \cup {front}
  BY <1>6 DEF Chain
<1>12. ASSUME usage' = "customers" \/ t = <<>> PROVE rear' = At(t, Len(t))
  <2>1. t # <<>>
    BY <1>1, <1>6
  <2>2. rear' = a /\ i = n
    BY <1>12, <2>1
  <2>3. n + 1 \in 0..(n + 2) /\ ~ (n + 1 <= i) /\ n + 1 = i + 1
    BY <1>1, <2>2
  <2> QED BY <1>6, <2>2, <2>3
<1>13. Kept(t)' \subseteq heap' /\ held' \notin Chosen(t) /\ Cardinality(heap' \ Kept(t)') = firsts'
  <2> DEFINE lost == heap \ Kept(s)
  <2>1. Kept(t)' = Kept(s) \cup {a}
    BY <1>6 DEF Kept
  <2>2. Kept(s) \subseteq heap /\ held \notin Chosen(s) /\ Cardinality(lost) = firsts
    BY DEF Chain
  <2>3. IsFiniteSet(lost) /\ b \notin lost
    BY NodesAssumption, FS_Subset DEF QueueTypes
  <2>4. b = a => heap' \ Kept(t)' = lost
    BY <2>1, <2>2
  <2>5. b # a => heap' \ Kept(t)' = lost \cup {b}
    BY <1>2, <2>1, <2>2 DEF Kept
  <2> HIDE DEF lost
  <2>6. Cardinality(lost \cup {b}) = Cardinality(lost) + 1
    BY <2>3, FS_AddElement
  <2>7. Cardinality(heap' \ Kept(t)') = firsts'
    <3> DEFINE now == heap' \ Kept(t)'
    <3>1. b = a => now = lost /\ firsts' = firsts
      BY <2>4 DEF QueueTypes
    <3>2. b # a => now = lost \cup {b} /\ firsts' = firsts + 1
      BY <2>5
    <3> HIDE DEF now
    <3>3. Cardinality(now) = firsts'
      BY <2>2, <2>6, <3>1, <3>2
    <3> QED BY <3>3 DEF now
  <2> QED BY <1>2, <1>6, <2>1, <2>2, <2>7
<1>14. \A j \in 0..Len(t) : next'[At(t, j)] = At(t, j + 1)
  BY <1>6, <1>10
<1> QED BY <1>6, <1>8, <1>11, <1>12, <1>13, <1>14 DEF Chain, t

(* The three ways a queue grows.                                           *)
LEMMA EnqueueKeepsChain ==
  ASSUME QueueTypes, NEW s \in Seq(Nodes), Chain(s),
         NEW a \in Nodes, NEW b \in Nodes, NEW e \in Events,
         (b = a /\ Enqueue(a, e)) \/ OrderEnqueueEmpty(a, b, e)
  PROVE  /\ QueueTypes' /\ Chain(Inserted(s, Len(s), a))'
         /\ usage' = usage /\ a \notin heap /\ b \notin heap
         /\ event' = [event EXCEPT ![b] = e, ![a] = e]
         /\ usage = "events" => s = <<>>
<1> DEFINE n == Len(s)
<1>1. /\ a \notin heap /\ b \notin heap /\ usage' = usage /\ held' = held /\ rear' = a
      /\ next' = [next EXCEPT ![b] = NULL, ![a] = NULL, ![rear] = a]
      /\ event' = [event EXCEPT ![b] = e, ![a] = e]
      /\ heap' = heap \cup {a, b}
      /\ firsts' = firsts + (IF b = a THEN 0 ELSE 1)
  <2>1. CASE b = a /\ Enqueue(a, e)
    <3>1. next' = [next EXCEPT ![a] = NULL, ![rear] = a] /\ event' = [event EXCEPT ![a] = e]
      BY <2>1 DEF Enqueue, AppendNode
    <3>2. next' = [next EXCEPT ![b] = NULL, ![a] = NULL, ![rear] = a]
      BY <2>1, <3>1 DEF QueueTypes
    <3>3. event' = [event EXCEPT ![b] = e, ![a] = e]
      BY <2>1, <3>1 DEF QueueTypes
    <3>4. heap' = heap \cup {a, b} /\ firsts' = firsts + (IF b = a THEN 0 ELSE 1)
      BY <2>1 DEF Enqueue, AppendNode, QueueTypes
    <3> QED BY <2>1, <3>2, <3>3, <3>4 DEF Enqueue, AppendNode, Free
  <2>2. CASE OrderEnqueueEmpty(a, b, e)
    BY <2>2 DEF OrderEnqueueEmpty, Free
  <2> QED BY <2>1, <2>2
<1>2. usage = "events" => s = <<>>
  <2> SUFFICES ASSUME usage = "events" PROVE s = <<>>
    OBVIOUS
  <2>1. next[front] = NULL
    BY DEF Enqueue, OrderEnqueueEmpty
  <2>2. n \in Nat /\ At(s, 0) = front /\ next[At(s, 0)] = At(s, 0 + 1)
    BY Places DEF Chain
  <2>3. n # 0 => At(s, 1) # NULL
    BY <2>2, Places
  <2>4. n = 0
    BY <2>1, <2>2, <2>3
  <2> QED BY <2>4, EmptySeq
<1>3. rear = At(s, n)
  BY <1>2 DEF Chain, QueueTypes
<1>4. n \in 0..n /\ At(s, n + 1) = NULL
  BY Places
<1>5. next' = [next EXCEPT ![b] = NULL, ![a] = At(s, n + 1), ![At(s, n)] = a]
  BY <1>1, <1>3, <1>4
<1>6. a \in Nodes \ heap /\ b \in Nodes \ heap
  BY <1>1
<1> HIDE DEF n
<1>7. QueueTypes' /\ Chain(Inserted(s, n, a))'
  BY <1>1, <1>4, <1>5, <1>6, InsertKeepsChain DEF n
<1> QED BY <1>1, <1>2, <1>7 DEF n

(* The loop of orderEnqueue stops where the new event has to go. *)
LEMMA OrderEnqueueKeepsChain ==
  ASSUME QueueTypes, NEW s \in Seq(Nodes), Chain(s), NEW a \in Nodes, NEW e \in Events,
         OrderEnqueue(a, e)
  PROVE  \E i \in 0..Len(s) :
           /\ QueueTypes' /\ Chain(Inserted(s, i, a))'
           /\ \A j \in 1..i : event[s[j]].cur_time < e.cur_time
           /\ i < Len(s) => event[s[i + 1]].cur_time >= e.cur_time
           /\ usage' = usage /\ event' = [event EXCEPT ![a] = e] /\ a \notin heap
<1> DEFINE n == Len(s)
           L == [j \in 1..n |-> event[s[j]]]
           Place(i) == /\ \A j \in 1..i : event[Cell[j]].cur_time < e.cur_time
                       /\ i < length => event[Cell[i + 1]].cur_time >= e.cur_time
<1>1. n \in Nat /\ length = n /\ (\A i \in 0..n : Cell[i] = At(s, i))
      /\ (\A i \in 1..n : At(s, i) = s[i]) /\ (\A i \in 1..n : s[i] \in Nodes)
  BY ListWalked, Places, ElementOfSeq DEF WalksList
<1>2. \A i \in 1..n : Cell[i] = s[i]
  BY <1>1
<1>3. L \in Seq(Events) /\ Len(L) = n /\ \A j \in 1..n : L[j] = event[s[j]]
  <2>1. \A j \in 1..n : event[s[j]] \in Events
    BY DEF Chain, Kept, Chosen, QueueTypes
  <2>2. n \in Nat /\ L \in [1..n -> Events]
    BY <1>1, <2>1
  <2> HIDE DEF n
  <2> QED BY <2>2
<1>4. \E i \in 0..n : Place(i)
  <2> DEFINE S == InTime(L, e)
  <2>1. \E p \in 1..(Len(L) + 1) : PutAt(L, e, S, p)
    BY <1>3, EventsAssumption, InsertionPoint
  <2> HIDE DEF S, L
  <2>2. PICK p \in 1..(n + 1) : PutAt(L, e, S, p)
    BY <1>3, <2>1
  <2>3. p - 1 \in 0..n /\ p - 1 \in Int
    BY <1>1
  <2>4. ASSUME NEW j \in 1..(p - 1) PROVE event[Cell[j]].cur_time < e.cur_time
    <3>1. j \in 1..n
      BY <1>1, <2>3
    <3> QED BY <1>2, <1>3, <2>2, <3>1 DEF PutAt
  <2>5. ASSUME p - 1 < n PROVE event[Cell[(p - 1) + 1]].cur_time >= e.cur_time
    <3>1. p \in 1..n /\ (p - 1) + 1 = p
      BY <1>1, <2>5
    <3> QED BY <1>2, <1>3, <2>2, <3>1 DEF PutAt
  <2> QED BY <1>1, <2>3, <2>4, <2>5
<1>5. PICK i \in 0..n : Place(i) /\ InsertionCell(e) = Cell[i]
  <2> DEFINE k == CHOOSE k \in 0..length : Place(k)
  <2>1. k \in 0..n /\ Place(k)
    BY <1>1, <1>4
  <2>2. InsertionCell(e) = Cell[k]
    BY DEF InsertionCell
  <2> HIDE DEF k, Place
  <2> QED BY <2>1, <2>2
<1>7. InsertionCell(e) = At(s, i)
  BY <1>1, <1>5
<1>8. /\ next' = [next EXCEPT ![a] = next[At(s, i)], ![At(s, i)] = a]
      /\ event' = [event EXCEPT ![a] = e] /\ heap' = heap \cup {a}
      /\ usage = "events" /\ usage' = usage /\ rear' = rear /\ held' = held /\ firsts' = firsts
      /\ a \in Nodes \ heap /\ next[front] # NULL
  BY <1>7 DEF OrderEnqueue, Free
<1>9. next[At(s, i)] = At(s, i + 1)
  BY <1>5 DEF Chain
<1>10. s # <<>>
  <2>1. next[At(s, 0)] = At(s, 0 + 1) /\ At(s, 0) = front /\ At(s, n + 1) = NULL
    BY <1>1, Places DEF Chain
  <2> QED BY <1>8, <2>1
<1> HIDE DEF n
<1>11. /\ next' = [next EXCEPT ![a] = NULL, ![a] = At(s, i + 1), ![At(s, i)] = a]
       /\ event' = [event EXCEPT ![a] = e, ![a] = e]
       /\ heap' = heap \cup {a, a} /\ firsts' = firsts + (IF a = a THEN 0 ELSE 1)
  <2> DEFINE c == At(s, i)
             d == At(s, i + 1)
  <2>1. next' = [next EXCEPT ![a] = d, ![c] = a]
    BY <1>8, <1>9
  <2> HIDE DEF c, d
  <2>2. next' = [next EXCEPT ![a] = NULL, ![a] = d, ![c] = a]
    BY <2>1 DEF QueueTypes
  <2>3. event' = [event EXCEPT ![a] = e, ![a] = e]
    BY <1>8 DEF QueueTypes
  <2>4. firsts' = firsts + 0
    BY <1>8 DEF QueueTypes
  <2> QED BY <1>8, <2>2, <2>3, <2>4 DEF c, d
<1>12. i \in 0..Len(s)
  BY <1>5 DEF n
<1> HIDE DEF Place
<1>15. QueueTypes' /\ Chain(Inserted(s, i, a))'
  BY <1>8, <1>10, <1>11, <1>12, InsertKeepsChain
<1> USE DEF Place
<1>13. \A j \in 1..i : event[s[j]].cur_time < e.cur_time
  <2>1. \A j \in 1..i : j \in 1..n
    BY <1>1, <1>5
  <2> QED BY <1>2, <1>5, <2>1
<1>14. i < n => event[s[i + 1]].cur_time >= e.cur_time
  <2>1. i < n => i + 1 \in 1..n
    BY <1>1, <1>5
  <2> QED BY <1>1, <1>2, <1>5, <2>1
<1> HIDE DEF Place
<1> QED BY <1>8, <1>12, <1>13, <1>14, <1>15 DEF n

(* The node dequeue hands out leaves the list. *)
LEMMA DequeueKeepsChain ==
  ASSUME QueueTypes, NEW s \in Seq(Nodes), Chain(s), Dequeue
  PROVE  /\ s # <<>>
         /\ Tail(s) \in Seq(Nodes)
         /\ QueueTypes' /\ Chain(Tail(s))'
         /\ usage' = usage /\ event' = event
<1> DEFINE n == Len(s)
           t == Tail(s)
<1>1. /\ n \in Nat /\ (\A j \in 1..n : s[j] \in Nodes /\ At(s, j) = s[j])
      /\ At(s, 0) = front /\ At(s, n + 1) = NULL
      /\ \A j \in 0..n : At(s, j) \in Nodes \cup {front}
  BY Places, ElementOfSeq
<1>2. \A j \in 0..n : next[At(s, j)] = At(s, j + 1)
  BY DEF Chain
<1>3. /\ held = NULL /\ next[front] # NULL /\ held' = next[front]
      /\ next' = [next EXCEPT ![front] = next[next[front]]]
      /\ rear' = (IF rear = next[front] THEN front ELSE rear)
      /\ usage' = usage /\ event' = event /\ heap' = heap /\ firsts' = firsts
  BY DEF Dequeue
<1>4. n > 0
  <2>1. next[front] = At(s, 1)
    BY <1>1, <1>2
  <2>2. n = 0 => At(s, 1) = NULL
    BY <1>1
  <2> QED BY <1>1, <1>3, <2>1, <2>2
<1>5. s # <<>> /\ next[front] = s[1] /\ 1 \in 1..n
  BY <1>1, <1>2, <1>4
<1>6. next[s[1]] = At(s, 2)
  BY <1>1, <1>2, <1>5
<1>7. t \in Seq(Nodes) /\ Len(t) = n - 1 /\ \A j \in 1..(n - 1) : t[j] = s[j + 1]
  BY <1>5, HeadTailProperties
<1> HIDE DEF t
<1>8. /\ At(t, 0) = front
      /\ \A j \in 1..n : At(t, j) = At(s, j + 1)
  <2>1. \A j \in 1..n : At(t, j) = At(s, j + 1)
    <3> TAKE j \in 1..n
    <3>1. CASE j = n
      <4>1. At(t, j) = NULL
        BY <1>1, <1>7, <3>1 DEF At
      <4> QED BY <1>1, <3>1, <4>1
    <3>2. CASE j # n
      <4>1. j \in 1..(n - 1) /\ j + 1 \in 1..n
        BY <1>1, <3>2
      <4>2. At(t, j) = t[j]
        BY <1>1, <1>7, <4>1 DEF At
      <4> QED BY <1>1, <1>7, <4>1, <4>2
    <3> QED BY <3>1, <3>2
  <2> QED BY <2>1 DEF At
<1>9. \A j, k \in 1..n : s[j] = s[k] => j = k
  BY DEF Chain, Distinct
<1>10. Distinct(t)
  <2>1. \A j \in 1..(n - 1) : j + 1 \in 1..n
    BY <1>1
  <2>2. \A j, k \in 1..(n - 1) : t[j] = t[k] => j = k
    <3> TAKE j, k \in 1..(n - 1)
    <3>1. t[j] = t[k] => j + 1 = k + 1
      BY <1>7, <1>9, <2>1
    <3> QED BY <3>1
  <2> QED BY <1>7, <2>2 DEF Distinct
<1>11. Chosen(s) = Chosen(t) \cup {s[1]} /\ s[1] \notin Chosen(t)
  <2>1. \A j \in 1..(n - 1) : t[j] \in Chosen(s) /\ t[j] # s[1]
    <3> TAKE j \in 1..(n - 1)
    <3>1. j + 1 \in 1..n /\ j + 1 # 1
      BY <1>1
    <3> QED BY <1>5, <1>7, <1>9, <3>1 DEF Chosen
  <2>2. \A j \in 1..n : s[j] \in Chosen(t) \cup {s[1]}
    <3> TAKE j \in 1..n
    <3>1. CASE j = 1
      BY <3>1
    <3>2. CASE j # 1
      <4>1. j - 1 \in 1..(n - 1) /\ (j - 1) + 1 = j
        BY <1>1, <3>2
      <4>2. t[j - 1] = s[j]
        BY <1>7, <4>1
      <4> QED BY <1>7, <4>1, <4>2 DEF Chosen
    <3> QED BY <3>1, <3>2
  <2>3. Chosen(t) = {t[j] : j \in 1..(n - 1)} /\ Chosen(s) = {s[j] : j \in 1..n}
    BY <1>7 DEF Chosen
  <2> QED BY <1>5, <2>1, <2>2, <2>3
<1>12. ASSUME NEW j \in 0..(n - 1) PROVE next'[At(t, j)] = At(t, j + 1)
  <2>1. CASE j = 0
    <3>1. At(t, j) = front /\ At(t, j + 1) = At(s, 2)
      BY <1>1, <1>4, <1>8, <2>1
    <3>2. next'[front] = next[next[front]]
      BY <1>3 DEF QueueTypes
    <3> QED BY <1>5, <1>6, <3>1, <3>2
  <2>2. CASE j # 0
    <3>1. j \in 1..n /\ j + 1 \in 1..n /\ j + 1 \in 0..n
      BY <1>1, <2>2
    <3>2. At(t, j) = s[j + 1] /\ s[j + 1] \in Nodes /\ At(t, j + 1) = At(s, (j + 1) + 1)
      BY <1>1, <1>8, <3>1
    <3>3. next[At(s, j + 1)] = At(s, (j + 1) + 1) /\ At(s, j + 1) = s[j + 1]
      BY <1>1, <1>2, <3>1
    <3>4. \A x \in Nodes : next'[x] = next[x]
      BY <1>3, AddressAssumption DEF QueueTypes
    <3> QED BY <3>2, <3>3, <3>4
  <2> QED BY <2>1, <2>2
<1>13. rear' \in Chosen(t) \cup {front}
  BY <1>3, <1>5, <1>11 DEF Chain
<1>14. ASSUME usage' = "customers" \/ t = <<>> PROVE rear' = At(t, Len(t))
  <2>1. CASE n = 1
    <3>1. Chosen(t) = {}
      BY <1>7, <2>1 DEF Chosen
    <3> QED BY <1>7, <1>8, <1>13, <2>1, <3>1
  <2>2. CASE n # 1
    <3>1. n - 1 \in 1..(n - 1) /\ (n - 1) + 1 = n /\ n - 1 \in 1..n
      <4>1. n \in Nat
        BY LenProperties
      <4> HIDE DEF n
      <4> QED BY ONLY <1>4, <2>2, <4>1
    <3>2. t # <<>>
      BY <1>7, <3>1
    <3>3. rear = At(s, n)
      BY <1>3, <1>14, <3>2 DEF Chain
    <3>4. rear = s[n] /\ s[n] # s[1]
      BY <1>1, <1>5, <1>9, <2>2, <3>1, <3>3
    <3>5. At(t, Len(t)) = At(s, n)
      BY <1>7, <1>8, <3>1
    <3> QED BY <1>3, <1>5, <3>3, <3>4, <3>5
  <2> QED BY <2>1, <2>2
<1>15. Kept(t)' \subseteq heap' /\ held' \notin Chosen(t) /\ Cardinality(heap' \ Kept(t)') = firsts'
  <2>1. s[1] # NULL
    BY <1>1, <1>5, AddressAssumption
  <2>2. Kept(t)' = Kept(s)
    BY <1>3, <1>5, <1>11, <2>1 DEF Kept
  <2> QED BY <1>3, <1>5, <1>11, <2>2 DEF Chain
<1>16. QueueTypes'
  <2>1. next[next[front]] \in Nodes \cup {NULL} /\ next[front] \in Nodes
    BY <1>1, <1>5 DEF QueueTypes
  <2> QED BY <1>3, <2>1 DEF QueueTypes
<1>17. \A j \in 0..Len(t) : next'[At(t, j)] = At(t, j + 1)
  BY <1>7, <1>12
<1> QED BY <1>3, <1>5, <1>7, <1>10, <1>13, <1>14, <1>15, <1>16, <1>17 DEF Chain, t

(* A node that is not in the list is deleted. *)
LEMMA DeleteKeepsChain ==
  ASSUME QueueTypes, NEW s \in Seq(Nodes), Chain(s),
         Delete \/ UNCHANGED queueVars
  PROVE  QueueTypes' /\ Chain(s)' /\ usage' = usage /\ event' = event
<1>1. usage' = usage /\ event' = event /\ next' = next /\ rear' = rear
  BY DEF Delete, queueVars
<1>2. Kept(s)' \subseteq heap' /\ held' \notin Chosen(s) /\ Cardinality(heap' \ Kept(s)') = firsts'
  <2>1. NULL \notin Chosen(s)
    BY Places, AddressAssumption
  <2>2. CASE Delete
    <3>1. Kept(s)' = Kept(s) \ {held} /\ heap' = heap \ {held} /\ held \in Kept(s)
      BY <2>1, <2>2 DEF Delete, Chain, Kept
    <3>2. heap' \ Kept(s)' = heap \ Kept(s)
      BY <3>1
    <3> QED BY <2>1, <2>2, <3>1, <3>2 DEF Delete, Chain
  <2>3. CASE UNCHANGED queueVars
    BY <2>3 DEF queueVars, Chain, Kept
  <2> QED BY <2>2, <2>3
<1>3. Chain(s)'
  BY <1>1, <1>2 DEF Chain
<1>4. heap' \subseteq heap /\ held' \in Nodes \cup {NULL} /\ firsts' \in Nat
  BY DEF Delete, queueVars, QueueTypes
<1>5. QueueTypes'
  BY <1>1, <1>4 DEF QueueTypes
<1> QED BY <1>1, <1>3, <1>5

(* After clearQueue only the node in the caller's hands is left. *)
LEMMA ClearKeepsChain ==
  ASSUME QueueTypes, NEW s \in Seq(Nodes), Chain(s), ClearQueue
  PROVE  QueueTypes' /\ Chain(<<>>)' /\ usage' = usage
<1>1. List = Chosen(s)
  BY ListWalked DEF WalksList
<1>2. /\ next' = [next EXCEPT ![front] = NULL] /\ heap' = heap \ List /\ rear' = front
      /\ usage' = usage /\ event' = event /\ held' = held /\ firsts' = firsts
  BY DEF ClearQueue
<1>3. QueueTypes'
  BY <1>2 DEF QueueTypes
<1> DEFINE t == <<>>
<1>4. t \in Seq(Nodes) /\ Len(t) = 0 /\ Chosen(t) = {} /\ Distinct(t)
  BY DEF Chosen, Distinct
<1>5. At(t, 0) = front /\ At(t, 1) = NULL
  BY <1>4 DEF At
<1>6. next'[front] = NULL
  BY <1>2 DEF QueueTypes
<1>7. \A j \in 0..Len(t) : next'[At(t, j)] = At(t, j + 1)
  BY <1>4, <1>5, <1>6
<1>8. Kept(t)' \subseteq heap' /\ Cardinality(heap' \ Kept(t)') = firsts'
  <2>1. Kept(t)' = Kept(s) \ Chosen(s) /\ heap' = heap \ Chosen(s) /\ Chosen(s) \subseteq Kept(s)
    BY <1>1, <1>2, <1>4 DEF Chain, Kept
  <2>2. heap' \ Kept(t)' = heap \ Kept(s)
    BY <2>1
  <2> QED BY <1>2, <2>1, <2>2 DEF Chain
<1> HIDE DEF t
<1>9. Chain(t)'
  BY <1>2, <1>4, <1>5, <1>7, <1>8 DEF Chain
<1> QED BY <1>2, <1>3, <1>9 DEF t

(* The invariant is inductive. *)
LEMMA QueueStarts == QueueInit => QueueIInv
<1> SUFFICES ASSUME QueueInit PROVE QueueIInv
  OBVIOUS
<1> DEFINE t == <<>>
<1>1. t \in Seq(Nodes) /\ Len(t) = 0 /\ Chosen(t) = {} /\ Distinct(t)
  BY DEF Chosen, Distinct
<1>2. At(t, 0) = front /\ At(t, 1) = NULL
  BY <1>1 DEF At
<1>3. next[front] = NULL /\ heap = {} /\ held = NULL /\ rear = front /\ firsts = 0
  BY DEF QueueInit
<1> HIDE DEF t
<1>4. Chain(t)
  <2>1. Kept(t) \subseteq heap /\ heap \ Kept(t) = {}
    BY <1>1, <1>3 DEF Kept
  <2>2. Cardinality(heap \ Kept(t)) = firsts
    BY <1>3, <2>1, FS_EmptySet
  <2> QED BY <1>1, <1>2, <1>3, <2>1, <2>2 DEF Chain
<1>5. QueueTypes
  BY DEF QueueInit, QueueTypes
<1> QED BY <1>1, <1>4, <1>5 DEF QueueIInv

LEMMA QueueStepHolds == QueueIInv /\ [QueueNext]_queueVars => QueueIInv'
<1> SUFFICES ASSUME QueueIInv, [QueueNext]_queueVars PROVE QueueIInv'
  OBVIOUS
<1>1. QueueTypes
  BY DEF QueueIInv
<1>2. PICK s \in Seq(Nodes) : Chain(s)
  BY DEF QueueIInv
<1>3. CASE Dequeue
  BY <1>1, <1>2, <1>3, DequeueKeepsChain DEF QueueIInv
<1>4. CASE Delete \/ UNCHANGED queueVars
  BY <1>1, <1>2, <1>4, DeleteKeepsChain DEF QueueIInv
<1>5. CASE ClearQueue
  <2>1. QueueTypes' /\ Chain(<<>>)'
    BY <1>1, <1>2, <1>5, ClearKeepsChain
  <2>2. <<>> \in Seq(Nodes)
    OBVIOUS
  <2> QED BY <2>1, <2>2 DEF QueueIInv
<1>6. ASSUME NEW a \in Nodes, NEW b \in Nodes, NEW e \in Events,
             (b = a /\ Enqueue(a, e)) \/ OrderEnqueueEmpty(a, b, e)
      PROVE  QueueIInv'
  <2>1. QueueTypes' /\ Chain(Inserted(s, Len(s), a))'
    BY <1>1, <1>2, <1>6, EnqueueKeepsChain
  <2>2. Len(s) \in 0..Len(s)
    BY Places
  <2>3. Inserted(s, Len(s), a) \in Seq(Nodes)
    BY <2>2, InsertedIs DEF IsInserted
  <2> QED BY <2>1, <2>3 DEF QueueIInv
<1>7. ASSUME NEW a \in Nodes, NEW e \in Events, OrderEnqueue(a, e)
      PROVE  QueueIInv'
  <2>1. PICK i \in 0..Len(s) : QueueTypes' /\ Chain(Inserted(s, i, a))'
    BY <1>1, <1>2, <1>7, OrderEnqueueKeepsChain
  <2>2. Inserted(s, i, a) \in Seq(Nodes)
    BY InsertedIs DEF IsInserted
  <2> QED BY <2>1, <2>2 DEF QueueIInv
<1> QED BY <1>3, <1>4, <1>5, <1>6, <1>7 DEF QueueNext

(* In every state of every behaviour the pointers make a list.             *)
THEOREM QueueIsList == QueueSpec => []QueueIInv
<1> QED BY QueueStarts, QueueStepHolds, PTL DEF QueueSpec

(* rear is the sentinel or a node of the list, and the last one wherever   *)
(* enqueue writes through it.                                              *)
THEOREM RearIsRight == QueueSpec => []RearIsUsable
<1>1. QueueIInv => RearIsUsable
  <2> SUFFICES ASSUME QueueIInv PROVE RearIsUsable
    OBVIOUS
  <2>1. PICK s \in Seq(Nodes) : Chain(s)
    BY DEF QueueIInv
  <2>2. length = Len(s) /\ (\A i \in 0..Len(s) : Cell[i] = At(s, i)) /\ List = Chosen(s)
    BY <2>1, ListWalked DEF WalksList
  <2>3. Len(s) \in 0..Len(s)
    BY Places
  <2>4. Cell[length] = At(s, Len(s))
    BY <2>2, <2>3
  <2>5. List = {} => s = <<>>
    <3>1. Len(s) # 0 => s[1] \in Chosen(s)
      BY Places DEF Chosen
    <3> QED BY <2>2, <3>1, EmptySeq
  <2> QED BY <2>1, <2>2, <2>4, <2>5 DEF Chain, RearIsUsable
<1> QED BY <1>1, QueueIsList, PTL

(* What is allocated is the list, the node the caller holds and exactly    *)
(* one lost node for each event that met an empty list.                    *)
THEOREM HeapIsAccounted == QueueSpec => []HeapAccounted
<1>1. QueueIInv => HeapAccounted
  BY ListWalked DEF QueueIInv, WalksList, Chain, Kept, HeapAccounted
<1> QED BY <1>1, QueueIsList, PTL

-----------------------------------------------------------------------------
(* What the nodes of a list carry, which is the sequence the queue stands  *)
(* for.                                                                    *)
ItemsOf(s) == [i \in 1..Len(s) |-> event[s[i]]]

Carries ==
  \A s \in Seq(Nodes) : Chain(s) => [i \in 1..length |-> event[Cell[i]]] = ItemsOf(s)

LEMMA ListCarries == Carries
<1> SUFFICES ASSUME NEW s \in Seq(Nodes), Chain(s)
             PROVE  [i \in 1..length |-> event[Cell[i]]] = ItemsOf(s)
  BY DEF Carries
<1>1. length = Len(s) /\ \A i \in 0..Len(s) : Cell[i] = At(s, i)
  BY ListWalked DEF WalksList
<1>2. \A i \in 1..Len(s) : At(s, i) = s[i] /\ i \in 0..Len(s)
  BY Places
<1>3. \A i \in 1..Len(s) : Cell[i] = s[i]
  BY <1>1, <1>2
<1> QED BY <1>1, <1>3 DEF ItemsOf

LEMMA ItemsAreEvents ==
  ASSUME QueueTypes, NEW s \in Seq(Nodes), Chain(s)
  PROVE  ItemsOf(s) \in Seq(Events) /\ Len(ItemsOf(s)) = Len(s)
<1> DEFINE n == Len(s)
           L == ItemsOf(s)
<1>1. n \in Nat /\ L = [i \in 1..n |-> L[i]]
  BY LenProperties DEF ItemsOf
<1>2. \A i \in 1..n : L[i] \in Events
  BY DEF Chain, Kept, Chosen, QueueTypes, ItemsOf
<1> HIDE DEF n, L
<1>3. L \in [1..n -> Events]
  BY <1>1, <1>2
<1>4. L \in Seq(Events) /\ Len(L) = n
  BY <1>1, <1>3
<1> QED BY <1>4 DEF n, L

(* A new node behind place i is a new item there. *)
LEMMA ItemsInserted ==
  ASSUME QueueTypes, NEW s \in Seq(Nodes), Chain(s),
         NEW i \in 0..Len(s), NEW a \in Nodes \ heap, NEW b \in Nodes \ heap, NEW e \in Events,
         event' = [event EXCEPT ![b] = e, ![a] = e]
  PROVE  ItemsOf(Inserted(s, i, a))' = Inserted(ItemsOf(s), i, e)
<1> DEFINE n == Len(s)
           t == Inserted(s, i, a)
           L == ItemsOf(s)
<1>1. n \in Nat /\ \A j \in 1..n : s[j] \in Nodes /\ s[j] # a /\ event'[s[j]] = event[s[j]]
  <2>1. \A j \in 1..n : s[j] \in Nodes /\ s[j] \in heap
    BY ElementOfSeq DEF Chain, Kept, Chosen
  <2>2. \A c \in heap : event'[c] = event[c]
    BY DEF QueueTypes
  <2>3. n \in Nat
    BY LenProperties
  <2> QED BY <2>1, <2>2, <2>3
<1>2. event'[a] = e
  BY DEF QueueTypes
<1>3. Len(t) = n + 1 /\ \A j \in 1..(n + 1) :
        t[j] = IF j <= i THEN s[j] ELSE IF j = i + 1 THEN a ELSE s[j - 1]
  <2>1. Len(t) = n + 1
    BY InsertedIs DEF IsInserted
  <2> QED BY <2>1 DEF Inserted
<1>4. \A j \in 1..n : L[j] = event[s[j]]
  BY DEF ItemsOf
<1>5. ItemsOf(t)' = [j \in 1..(n + 1) |-> event'[t[j]]]
  BY <1>3 DEF ItemsOf
<1> HIDE DEF t, L
<1>6. ASSUME NEW j \in 1..(n + 1)
      PROVE  event'[t[j]] = IF j <= i THEN L[j] ELSE IF j = i + 1 THEN e ELSE L[j - 1]
  <2>1. CASE j <= i
    <3>1. j \in 1..n
      BY <1>1, <2>1
    <3>2. t[j] = s[j]
      BY <1>3, <2>1
    <3> QED BY <1>1, <1>4, <2>1, <3>1, <3>2
  <2>2. CASE j = i + 1
    <3>1. ~ (j <= i)
      BY <2>2
    <3>2. t[j] = a
      BY <1>3, <2>2, <3>1
    <3> QED BY <1>2, <2>2, <3>1, <3>2
  <2>3. CASE j > i + 1
    <3>1. j - 1 \in 1..n /\ ~ (j <= i) /\ j # i + 1
      BY <1>1, <2>3
    <3>2. t[j] = s[j - 1]
      BY <1>3, <3>1
    <3> QED BY <1>1, <1>4, <3>1, <3>2
  <2> QED BY <1>1, <2>1, <2>2, <2>3
<1> HIDE DEF n
<1>7. ItemsOf(t)' = [j \in 1..(n + 1) |-> IF j <= i THEN L[j] ELSE IF j = i + 1 THEN e ELSE L[j - 1]]
  BY <1>5, <1>6
<1>8. Len(L) = n
  BY ItemsAreEvents DEF n, L
<1>9. ItemsOf(t)' = Inserted(L, i, e)
  BY <1>7, <1>8 DEF Inserted
<1> QED BY <1>9 DEF t, L

(* Behind the last that is earlier, it is where the sequence puts it.      *)
LEMMA InsertedInOrder ==
  ASSUME NEW L \in Seq(Events), NEW e \in Events, NEW i \in 0..Len(L), NEW S,
         S = Inserted(L, i, e),
         \A j \in 1..i : L[j].cur_time < e.cur_time,
         i < Len(L) => L[i + 1].cur_time >= e.cur_time
  PROVE  S = Abstract!InsertInOrder(L, e)
<1> DEFINE n == Len(L)
           T == Abstract!InsertInOrder(L, e)
<1>1. T = InTime(L, e)
  BY DEF Abstract!InsertInOrder, Abstract!SelectInSeq, Abstract!Min, Abstract!InsertAt,
         InTime, NotBefore, Min, InsertAt, Sooner
<1> HIDE DEF T
<1>2. T \in Seq(Events) /\ \E p \in 1..(Len(L) + 1) : PutAt(L, e, T, p)
  BY <1>1, EventsAssumption, InsertionPoint
<1>3. PICK p \in 1..(n + 1) : PutAt(L, e, T, p)
  BY <1>2
<1>4. n \in Nat /\ (\A j \in 1..n : L[j] \in Events /\ L[j].cur_time \in Nat) /\ e.cur_time \in Nat
  BY EventsAssumption, ElementOfSeq, LenProperties
<1>5. p = i + 1
  <2>1. CASE p <= i
    <3>1. p \in 1..i /\ p \in 1..n /\ p <= n
      BY <1>4, <2>1
    <3>2. L[p].cur_time < e.cur_time /\ L[p].cur_time >= e.cur_time
      BY <1>3, <3>1 DEF PutAt
    <3> QED BY <1>4, <3>1, <3>2
  <2>2. CASE p > i + 1
    <3>1. i + 1 \in 1..(p - 1) /\ i + 1 \in 1..n /\ i < n
      BY <1>4, <2>2
    <3>2. L[i + 1].cur_time < e.cur_time /\ L[i + 1].cur_time >= e.cur_time
      BY <1>3, <3>1 DEF PutAt
    <3> QED BY <1>4, <3>1, <3>2
  <2> QED BY <2>1, <2>2
<1>6. T = [j \in 1..(n + 1) |-> T[j]]
  <2>1. Len(T) = n + 1
    BY <1>3 DEF PutAt
  <2> QED BY <1>2, <2>1
<1>7. \A j \in 1..(n + 1) : T[j] = IF j <= i THEN L[j] ELSE IF j = i + 1 THEN e ELSE L[j - 1]
  <2> SUFFICES ASSUME NEW j \in 1..(n + 1)
               PROVE  T[j] = IF j <= i THEN L[j] ELSE IF j = i + 1 THEN e ELSE L[j - 1]
    OBVIOUS
  <2>1. T[j] = IF j < p THEN L[j] ELSE IF j = p THEN e ELSE L[j - 1]
    BY <1>3 DEF PutAt
  <2>2. j < p <=> j <= i
    BY <1>4, <1>5
  <2> QED BY <1>5, <2>1, <2>2
<1>8. S = [j \in 1..(n + 1) |-> IF j <= i THEN L[j] ELSE IF j = i + 1 THEN e ELSE L[j - 1]]
  BY DEF Inserted
<1> HIDE DEF n
<1>9. S = T
  BY <1>6, <1>7, <1>8
<1> QED BY <1>9 DEF T

(* At the end this is Append. *)
LEMMA AppendIs ==
  ASSUME NEW L \in Seq(Events), NEW e \in Events, NEW S,
         S = Inserted(L, Len(L), e)
  PROVE  S = Append(L, e)
<1> DEFINE n == Len(L)
           T == Append(L, e)
<1>1. n \in Nat
  BY LenProperties
<1>2. /\ T \in Seq(Events) /\ Len(T) = n + 1 /\ T[n + 1] = e
      /\ \A j \in 1..n : T[j] = L[j]
  BY AppendProperties
<1> HIDE DEF T
<1>3. T = [j \in 1..(n + 1) |-> T[j]]
  BY <1>2
<1>4. \A j \in 1..(n + 1) : T[j] = IF j <= n THEN L[j] ELSE IF j = n + 1 THEN e ELSE L[j - 1]
  BY <1>1, <1>2
<1>5. S = [j \in 1..(n + 1) |-> IF j <= n THEN L[j] ELSE IF j = n + 1 THEN e ELSE L[j - 1]]
  BY DEF Inserted
<1> HIDE DEF n
<1>6. S = T
  BY <1>3, <1>4, <1>5
<1> QED BY <1>6 DEF T

(* dequeue takes the first item. *)
LEMMA TailIs ==
  ASSUME QueueTypes, NEW s \in Seq(Nodes), Chain(s), s # <<>>, event' = event,
         Tail(s) \in Seq(Nodes)
  PROVE  ItemsOf(s) # <<>> /\ ItemsOf(Tail(s))' = Tail(ItemsOf(s))
<1> DEFINE n == Len(s)
           t == Tail(s)
           L == ItemsOf(s)
           T == Tail(L)
<1>1. n \in Nat /\ n # 0 /\ Len(t) = n - 1 /\ \A j \in 1..(n - 1) : t[j] = s[j + 1]
  BY HeadTailProperties, EmptySeq, LenProperties
<1>2. L \in Seq(Events) /\ Len(L) = n /\ \A j \in 1..n : L[j] = event[s[j]]
  BY ItemsAreEvents DEF ItemsOf
<1> HIDE DEF L
<1>3. L # <<>>
  BY <1>1, <1>2
<1>4. T \in Seq(Events) /\ Len(T) = n - 1 /\ \A j \in 1..(n - 1) : T[j] = L[j + 1]
  BY <1>2, <1>3, HeadTailProperties
<1>5. ItemsOf(t)' = [j \in 1..(n - 1) |-> event[t[j]]]
  BY <1>1 DEF ItemsOf
<1> HIDE DEF t, T
<1>6. T = [j \in 1..(n - 1) |-> T[j]]
  BY <1>4
<1>7. \A j \in 1..(n - 1) : T[j] = event[t[j]]
  <2> TAKE j \in 1..(n - 1)
  <2>1. j + 1 \in 1..n
    BY <1>1
  <2> QED BY <1>1, <1>2, <1>4, <2>1
<1> HIDE DEF n
<1>8. ItemsOf(t)' = T
  BY <1>5, <1>6, <1>7
<1> QED BY <1>3, <1>8 DEF L, t, T

(* Every step of the pointers is a step of the sequence.                   *)
LEMMA QueueStepIsStep ==
  ASSUME QueueIInv, [QueueNext]_queueVars, Carries, Carries'
  PROVE  [Abstract!Next]_(Abstract!vars)
<1> DEFINE items == [i \in 1..length |-> event[Cell[i]]]
<1>1. QueueTypes
  BY DEF QueueIInv
<1>2. PICK s \in Seq(Nodes) : Chain(s)
  BY DEF QueueIInv
<1>3. items = ItemsOf(s)
  BY <1>2 DEF Carries
<1>4. \A t \in Seq(Nodes) : Chain(t)' => items' = ItemsOf(t)'
  BY DEF Carries
<1>5. ItemsOf(s) \in Seq(Events) /\ Len(ItemsOf(s)) = Len(s) /\ Len(s) \in Nat
  BY <1>1, <1>2, ItemsAreEvents, LenProperties
<1> HIDE DEF items
<1> DEFINE L == ItemsOf(s)
<1>6. CASE Dequeue
  <2>1. /\ s # <<>> /\ Tail(s) \in Seq(Nodes) /\ Chain(Tail(s))'
        /\ usage' = usage /\ event' = event
    BY <1>1, <1>2, <1>6, DequeueKeepsChain
  <2>2. L # <<>> /\ ItemsOf(Tail(s))' = Tail(L)
    BY <1>1, <1>2, <2>1, TailIs
  <2>3. items' = ItemsOf(Tail(s))'
    BY <1>4, <2>1
  <2>4. items # <<>> /\ items' = Tail(items)
    BY <1>3, <2>2, <2>3
  <2>5. Abstract!Dequeue
    BY <2>4 DEF Abstract!Dequeue, items
  <2> QED BY <2>1, <2>5 DEF Abstract!Next
<1>7. CASE Delete \/ UNCHANGED queueVars
  <2>1. Chain(s)' /\ usage' = usage /\ event' = event
    BY <1>1, <1>2, <1>7, DeleteKeepsChain
  <2>2. items' = ItemsOf(s)'
    BY <1>4, <2>1
  <2>3. ItemsOf(s)' = ItemsOf(s)
    BY <2>1 DEF ItemsOf
  <2>4. items' = items
    BY <1>3, <2>2, <2>3
  <2> QED BY <2>1, <2>4 DEF Abstract!vars, items
<1>8. CASE ClearQueue
  <2>1. Chain(<<>>)' /\ usage' = usage
    BY <1>1, <1>2, <1>8, ClearKeepsChain
  <2>2. items' = ItemsOf(<<>>)'
    <3>1. <<>> \in Seq(Nodes)
      OBVIOUS
    <3> QED BY <1>4, <2>1, <3>1
  <2>3. ItemsOf(<<>>)' = <<>>
    BY DEF ItemsOf
  <2>4. Abstract!Clear
    BY <2>2, <2>3 DEF Abstract!Clear, items
  <2> QED BY <2>1, <2>4 DEF Abstract!Next
<1>9. ASSUME NEW a \in Nodes, NEW b \in Nodes, NEW e \in Events,
             (b = a /\ Enqueue(a, e)) \/ OrderEnqueueEmpty(a, b, e)
      PROVE  Abstract!Next
  <2> DEFINE t == Inserted(s, Len(s), a)
  <2>1. /\ Chain(t)' /\ usage' = usage /\ a \notin heap /\ b \notin heap
        /\ event' = [event EXCEPT ![b] = e, ![a] = e]
        /\ usage = "events" => s = <<>>
    BY <1>1, <1>2, <1>9, EnqueueKeepsChain
  <2>2. Len(s) \in 0..Len(s) /\ a \in Nodes \ heap /\ b \in Nodes \ heap
    BY <1>5, <2>1
  <2>3. t \in Seq(Nodes)
    BY <2>2, InsertedIs DEF IsInserted
  <2>4. ItemsOf(t)' = Inserted(L, Len(s), e)
    BY <1>1, <1>2, <2>1, <2>2, ItemsInserted
  <2>5. items' = ItemsOf(t)'
    BY <1>4, <2>1, <2>3
  <2> HIDE DEF L, t
  <2>6. items' = Inserted(L, Len(L), e)
    BY <1>5, <2>4, <2>5 DEF L
  <2>7. L \in Seq(Events)
    BY <1>5 DEF L
  <2>8. CASE usage = "customers"
    <3>1. items' = Append(L, e)
      BY <2>6, <2>7, AppendIs
    <3>2. items' = Append(items, e)
      BY <1>3, <3>1 DEF L
    <3>3. ~ (usage = "events")
      BY <2>8
    <3>4. Abstract!Enqueue(e)
      BY <3>2, <3>3 DEF Abstract!Enqueue, items
    <3> QED BY <2>1, <3>4 DEF Abstract!Next
  <2>9. CASE usage = "events"
    <3>1. Len(L) = 0
      <4>1. s = <<>>
        BY <2>1, <2>9
      <4>2. Len(s) = 0
        BY <4>1
      <4> QED BY <1>5, <4>2 DEF L
    <3>2. /\ Len(L) \in 0..Len(L) /\ ~ (Len(L) < Len(L))
          /\ \A j \in 1..Len(L) : L[j].cur_time < e.cur_time
      BY <3>1
    <3>3. items' = Abstract!InsertInOrder(L, e)
      BY <2>6, <2>7, <3>2, InsertedInOrder
    <3>4. items' = Abstract!InsertInOrder(items, e)
      BY <1>3, <3>3 DEF L
    <3>5. Abstract!OrderEnqueue(e)
      BY <2>9, <3>4 DEF Abstract!OrderEnqueue, items
    <3> QED BY <2>1, <3>5 DEF Abstract!Next
  <2> QED BY <1>1, <2>8, <2>9 DEF QueueTypes
<1>10. ASSUME NEW a \in Nodes, NEW e \in Events, OrderEnqueue(a, e)
       PROVE  Abstract!Next
  <2>1. PICK i \in 0..Len(s) :
          /\ Chain(Inserted(s, i, a))'
          /\ \A j \in 1..i : event[s[j]].cur_time < e.cur_time
          /\ i < Len(s) => event[s[i + 1]].cur_time >= e.cur_time
          /\ usage' = usage /\ event' = [event EXCEPT ![a] = e] /\ a \notin heap
    BY <1>1, <1>2, <1>10, OrderEnqueueKeepsChain
  <2> DEFINE t == Inserted(s, i, a)
  <2>2. PICK b \in Nodes \ heap :
          a \in Nodes \ heap /\ event' = [event EXCEPT ![b] = e, ![a] = e]
    BY <2>1
  <2>3. t \in Seq(Nodes)
    BY InsertedIs DEF IsInserted
  <2>4. ItemsOf(t)' = Inserted(L, i, e)
    BY <1>1, <1>2, <2>2, ItemsInserted
  <2>5. items' = ItemsOf(t)'
    BY <1>4, <2>1, <2>3
  <2>6. \A j \in 1..Len(s) : L[j] = event[s[j]]
    BY DEF ItemsOf
  <2> HIDE DEF L, t
  <2>7. items' = Inserted(L, i, e)
    BY <1>5, <2>4, <2>5 DEF L
  <2>8. L \in Seq(Events) /\ Len(L) = Len(s) /\ i \in 0..Len(L)
    BY <1>5 DEF L
  <2>9. \A j \in 1..i : L[j].cur_time < e.cur_time
    <3>1. \A j \in 1..i : j \in 1..Len(s)
      BY <1>5
    <3> QED BY <2>1, <2>6, <3>1
  <2>10. i < Len(L) => L[i + 1].cur_time >= e.cur_time
    <3>1. i < Len(L) => i + 1 \in 1..Len(s)
      BY <1>5, <2>8
    <3> QED BY <2>1, <2>6, <2>8, <3>1
  <2>11. items' = Abstract!InsertInOrder(L, e)
    BY <2>7, <2>8, <2>9, <2>10, InsertedInOrder
  <2>12. items' = Abstract!InsertInOrder(items, e)
    BY <1>3, <2>11 DEF L
  <2>13. usage = "events"
    BY <1>10 DEF OrderEnqueue
  <2>14. Abstract!OrderEnqueue(e)
    BY <2>12, <2>13 DEF Abstract!OrderEnqueue, items
  <2> QED BY <2>1, <2>14 DEF Abstract!Next
<1> QED BY <1>6, <1>7, <1>8, <1>9, <1>10 DEF QueueNext

(* The pointer code is the sequence the simulation thinks of.              *)
THEOREM QueueIsSequence == QueueSpec => ImplementsSequence
<1>1. QueueInit => Abstract!Init
  <2> SUFFICES ASSUME QueueInit PROVE Abstract!Init
    OBVIOUS
  <2>1. QueueTypes
    BY QueueStarts DEF QueueIInv
  <2>2. PICK s \in Seq(Nodes) : Chain(s)
    BY QueueStarts DEF QueueIInv
  <2>3. [i \in 1..length |-> event[Cell[i]]] = ItemsOf(s)
    BY <2>2, ListCarries DEF Carries
  <2>4. s = <<>>
    <3>1. heap = {}
      BY DEF QueueInit
    <3>2. Len(s) # 0 => s[1] \in Chosen(s)
      BY LenProperties DEF Chosen
    <3>3. Len(s) = 0
      BY <2>2, <3>1, <3>2 DEF Chain, Kept
    <3> QED BY <3>3, EmptySeq
  <2>5. ItemsOf(s) = <<>>
    BY <2>4 DEF ItemsOf
  <2> QED BY <2>3, <2>5 DEF Abstract!Init
<1>2. QueueIInv /\ Carries /\ Carries' /\ [QueueNext]_queueVars => [Abstract!Next]_(Abstract!vars)
  BY QueueStepIsStep
<1> QED BY <1>1, <1>2, ListCarries, QueueIsList, PTL DEF QueueSpec, ImplementsSequence, Abstract!Spec
=============================================================================
