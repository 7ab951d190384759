----------------------------- MODULE BankQueue -----------------------------
(***************************************************************************)
(* The discrete-event simulation QueueSystem of src/BankQueueSystem: a     *)
(* clock that jumps from event to event, a queue of customers and a number *)
(* of service windows.  One pass of the loop in run() (handler, delete,    *)
(* dequeue) is one action.  The two queues are the sequences of            *)
(* OrderedQueue, which LinkedQueue shows the pointer code to implement.    *)
(***************************************************************************)
EXTENDS Integers, Sequences, FiniteSets, SequencesExt

CONSTANTS
  WindowNum,     \* window_num
  EndTime,       \* end_time
  SimulateNum,   \* how often simulate calls run
  Gaps,          \* what Random yields between two arrivals
  Durations,     \* what Random yields for a service
  MaxCustomers   \* bound: after so many arrivals of a run nobody comes

ASSUME SizesAssumption ==
  /\ WindowNum \in Nat \ {0} /\ EndTime \in Nat \ {0}
  /\ SimulateNum \in Nat /\ MaxCustomers \in Nat
ASSUME RandomAssumption == Gaps \subseteq Nat /\ Durations \subseteq Nat

ARRIVAL == -1  \* the event_type of an arrival; a departure has its window's index
NoEvent == [cur_time |-> 0, event_type |-> -2]  \* the null pointer current_event

Windows == 0..(WindowNum - 1)

VARIABLES
  current_event, event_list, customer_list,
  windows,                     \* per window its status and its customer
  total_customer_num, total_customer_stay_time, total_customer_wait_time,
  runs,                        \* how many runs have ended
  arrived,                     \* customers of this run (history)
  departed                     \* those of them whose departure was handled (history)

totals == <<total_customer_num, total_customer_stay_time, total_customer_wait_time>>
vars == <<current_event, event_list, customer_list, windows, totals, runs, arrived, departed>>

Earlier(a, b) == a.cur_time < b.cur_time
EventQueue == INSTANCE OrderedQueue WITH
  items <- event_list, ordered <- TRUE, Items <- {}, Before <- Earlier

(* A bug: an event is put behind all others, without regard to its time. *)
ScheduleLast(list, time, type) == Append(list, [cur_time |-> time, event_type |-> type])

(* orderEnqueue on the list of events. *)
Schedule(list, time, type) ==
  EventQueue!InsertInOrder(list, [cur_time |-> time, event_type |-> type])

IdleWindows == {i \in Windows : windows[i].status = "IDLE"}

(* getIdleServiceWindow: the first idle window. *)
IdleServiceWindow == CHOOSE i \in IdleWindows : \A j \in IdleWindows : i <= j

(* A new customer, with the number of its arrival in this run (history). *)
Customer(ticket, time, duration) ==
  [ticket |-> ticket, arrive_time |-> time, duration |-> duration]

(* delete current_event, then dequeue the next one. *)
Advance(list) ==
  IF list = <<>> THEN current_event' = NoEvent /\ event_list' = <<>>
                 ELSE current_event' = Head(list) /\ event_list' = Tail(list)

(* init(): the first arrival of a run; it need not be before end_time. *)
FirstEvent == {[cur_time |-> t, event_type |-> ARRIVAL] : t \in Gaps}

Init ==
  /\ current_event \in FirstEvent
  /\ event_list = <<>> /\ customer_list = <<>>
  /\ windows = [i \in Windows |-> [status |-> "IDLE", customer |-> Customer(0, 0, 0)]]
  /\ total_customer_num = 0
  /\ total_customer_stay_time = 0
  /\ total_customer_wait_time = 0
  /\ runs = 0
  /\ arrived = 0 /\ departed = 0

-----------------------------------------------------------------------------
Now == current_event.cur_time

Serve(i, customer) ==
  windows' = [windows EXCEPT ![i] = [status |-> "SERVICE", customer |-> customer]]

(* A bug: the arrival takes the window itself and leaves the queue alone. *)
JoinQueueNewestFirst(list, queue) ==
  \/ /\ IdleWindows # {}
     /\ Serve(IdleServiceWindow, Last(queue))
     /\ customer_list' = Front(queue)
     /\ Advance(Schedule(list, Now + Last(queue).duration, IdleServiceWindow))
  \/ /\ IdleWindows = {}
     /\ customer_list' = <<Last(queue)>> \o Front(queue)
     /\ Advance(list)
     /\ UNCHANGED windows

(* The queue with the new arrival goes to an idle window, if there is one. *)
JoinQueue(list, queue) ==
  \/ /\ IdleWindows # {}
     /\ Serve(IdleServiceWindow, Head(queue))
     /\ customer_list' = Tail(queue)
     /\ Advance(Schedule(list, Now + Head(queue).duration, IdleServiceWindow))
  \/ /\ IdleWindows = {}
     /\ customer_list' = queue
     /\ Advance(list)
     /\ UNCHANGED windows

CustomerArrived ==
  /\ current_event # NoEvent /\ current_event.event_type = ARRIVAL
  /\ total_customer_num' = total_customer_num + 1
  /\ arrived' = arrived + 1
  /\ \E gap \in Gaps, duration \in Durations :
       LET next == Now + gap
           list == IF next < EndTime THEN Schedule(event_list, next, ARRIVAL) ELSE event_list
       IN  /\ arrived' >= MaxCustomers => next >= EndTime
           /\ JoinQueue(list, Append(customer_list, Customer(arrived', Now, duration)))
  /\ UNCHANGED <<total_customer_stay_time, total_customer_wait_time, runs, departed>>

(* A bug: a window that has served its customer is declared idle, although *)
(* it takes the next one.                                                  *)
NextCustomerIdle(i) ==
  \/ /\ customer_list # <<>>
     /\ total_customer_wait_time' =
          total_customer_wait_time + (Now - Head(customer_list).arrive_time)
     /\ windows' = [windows EXCEPT ![i] = [status |-> "IDLE", customer |-> Head(customer_list)]]
     /\ customer_list' = Tail(customer_list)
     /\ Advance(Schedule(event_list, Now + Head(customer_list).duration, i))
  \/ /\ customer_list = <<>>
     /\ windows' = [windows EXCEPT ![i].status = "IDLE"]
     /\ Advance(event_list)
     /\ UNCHANGED <<customer_list, total_customer_wait_time>>

(* The window of the current departure takes the next customer, or rests.  *)
NextCustomer(i) ==
  \/ /\ customer_list # <<>>
     /\ total_customer_wait_time' =
          total_customer_wait_time + (Now - Head(customer_list).arrive_time)
     /\ Serve(i, Head(customer_list))
     /\ customer_list' = Tail(customer_list)
     /\ Advance(Schedule(event_list, Now + Head(customer_list).duration, i))
  \/ /\ customer_list = <<>>
     /\ windows' = [windows EXCEPT ![i].status = "IDLE"]
     /\ Advance(event_list)
     /\ UNCHANGED <<customer_list, total_customer_wait_time>>

CustomerDeparture ==
  /\ current_event # NoEvent /\ current_event.event_type # ARRIVAL /\ Now < EndTime
  /\ total_customer_stay_time' = total_customer_stay_time
       + (Now - windows[current_event.event_type].customer.arrive_time)
  /\ departed' = departed + 1
  /\ NextCustomer(current_event.event_type)
  /\ UNCHANGED <<total_customer_num, runs, arrived>>

(* After closing time a departure changes nothing, not even its window. *)
LateDeparture ==
  /\ current_event # NoEvent /\ current_event.event_type # ARRIVAL /\ Now >= EndTime
  /\ Advance(event_list)
  /\ UNCHANGED <<customer_list, windows, totals, runs, arrived, departed>>

(* A bug: end() leaves the windows as they are. *)
EndForgetsWindows ==
  /\ current_event = NoEvent /\ runs < SimulateNum
  /\ customer_list' = <<>> /\ event_list' = <<>>
  /\ runs' = runs + 1
  /\ arrived' = 0 /\ departed' = 0
  /\ IF runs' < SimulateNum THEN current_event' \in FirstEvent ELSE UNCHANGED current_event
  /\ UNCHANGED <<totals, windows>>

(* end(), and the init() of the next run. *)
End ==
  /\ current_event = NoEvent /\ runs < SimulateNum
  /\ windows' = [i \in Windows |-> [windows[i] EXCEPT !.status = "IDLE"]]
  /\ customer_list' = <<>> /\ event_list' = <<>>
  /\ runs' = runs + 1
  /\ arrived' = 0 /\ departed' = 0
  /\ IF runs' < SimulateNum THEN current_event' \in FirstEvent ELSE UNCHANGED current_event
  /\ UNCHANGED totals

Next == CustomerArrived \/ CustomerDeparture \/ LateDeparture \/ End

Spec == Init /\ [][Next]_vars

-----------------------------------------------------------------------------
Busy == Windows \ IdleWindows

(* How many departures are scheduled for window i. *)
Departures(i) ==
  Cardinality({k \in 1..Len(event_list) : event_list[k].event_type = i})
    + (IF current_event.event_type = i THEN 1 ELSE 0)

(* Nobody queues while a window is idle: the arrival handler looks for a   *)
(* window once, and a departure does not look at the other windows.        *)
NobodyWaitsInVain == customer_list # <<>> => IdleWindows = {}

(* orderEnqueue keeps the list in order, and nothing that is still to come *)
(* lies in the past: the clock of a run never goes back, and nobody waits  *)
(* or stays for a negative time.                                           *)
EventsInOrder ==
  /\ \A i, j \in 1..Len(event_list) : i < j => event_list[i].cur_time <= event_list[j].cur_time
  /\ event_list # <<>> => current_event # NoEvent /\ Now <= Head(event_list).cur_time
  /\ 0 <= total_customer_wait_time /\ total_customer_wait_time <= total_customer_stay_time

(* A window before closing time is busy exactly if its departure is still  *)
(* to come, once: no window is lost and none serves two.                   *)
OneDeparturePerService ==
  \A i \in Windows :
    /\ Departures(i) <= 1
    /\ Departures(i) = 1 => i \in Busy
    /\ i \in Busy /\ current_event # NoEvent /\ Now < EndTime => Departures(i) = 1

(* Customers are served in the order of their arrival and none of them     *)
(* gets lost between the queue, the windows and the door.                  *)
FirstComeFirstServed ==
  /\ \A k \in 1..Len(customer_list) :
       customer_list[k].ticket = arrived - Len(customer_list) + k
  /\ \A i \in Busy : windows[i].customer.ticket \in 1..(arrived - Len(customer_list))
  /\ \A i, j \in Busy :
       windows[i].customer.ticket = windows[j].customer.ticket => i = j
  /\ arrived = departed + Cardinality(Busy) + Len(customer_list)
=============================================================================
