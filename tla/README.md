# Verification of LinuxCppPractise

TLA+ models, TLC checks and TLAPS proofs of the programs in this repository. The
repository is a collection of small C++ programs, not one system: a thread pool and a
producer/consumer program on it, a threaded merge sort, a chat server and its client, a
bank simulation on a linked queue, a stack on a memory pool, several echo servers and some
examples of system calls. Every program with state that outlives one call has its own
modules here; `PROJECT.json` maps each definition to the lines it stands for.

To check a run: `tlc -workers 2 -config pool.cfg MCThreadPool`. To check the proofs:
`tlapm ThreadPoolProofs.tla`.

## 1. Inventory

| Component | Source | State | Operations |
|---|---|---|---|
| Thread pool | `Thread/threadpool.h` | `Data` behind a `shared_ptr`: mutex, condition variable, flag, task queue; detached threads | constructor, `execute`, `execute2`, thread function, destructor |
| Producer/consumer | `Thread/producer_consumer.cpp` | queue `Q` of at most `buff_size`, countdown `MaxProduct`, one mutex, two condition variables, a pool of 8 threads for 12 tasks | `producer`, `consumer`, `main` |
| Merge sort | `Thread/merge_sort.cpp` | one global array, a `Tmp` per thread, a tree of joinable threads | `MergeSort`, `main` |
| Bank simulation | `BankQueueSystem/QueueSystem.hpp`, `ServiceWindow.hpp`, `Event.hpp` | current event, list of events, queue of customers, windows, totals | `simulate`, `run`, `init`, `end`, `customerArrived`, `customerDeparture` |
| Linked queue | `BankQueueSystem/Queue.hpp` | sentinel, nodes, rear pointer | `enqueue`, `orderEnqueue`, `dequeue`, `clearQueue`, `length` |
| Chat server | `ChatRoom/Server.cpp`, `Common.hpp` | `clientsList_`, open descriptors, epoll instance (edge-triggered), socket buffers | `Start`, `SendBroadCastMessage`, `SendToAllClient`, `CloseClientFd`, `addfd` |
| Chat client | `ChatRoom/Client.cpp` | parent and child, a pipe, a socket, epoll (edge-triggered), `isClientWork_`, `pid_` | `Start`, `Close` |
| Memory pool, stack | `MemoryPool/MemoryPool.h`, `StackAlloc.h` | blocks, current and last slot, free list in the memory of free slots, nodes of the stack | `allocate`, `deallocate`, `allocateBlock`, destructor, `push`, `pop`, `clear` |
| Semaphore | `Thread/fork_sem.cpp` | a System V semaphore set with undo values, parent and child | `AcquireBinarySemaphore`, `InitializeBinarySemaphore`, `WaitBinarySemaphore`, `PostBinarySemaphore`, `ReleaseBinarySemaphore`, `main` |
| Echo servers | `WebRTC/tcpserver/tcp_server_select.cpp`, `tcp_server_epoll.cpp`, `tcp_server.cpp` | a table of descriptors; an epoll instance in each of eight processes; a process per connection | accept/recv/send loops |
| Echo client | `WebRTC/tcpserver/tcp_cline.cpp` | one socket, one line on its way | fgets/send/recv loop |
| Other servers | `WebRTC/tcpserver/tcp_server_libevent.cpp`, `WebRTC/udpserver/*` | none | a callback, one datagram |
| Course manager | `BankQueueSystem/CourseManagerSystem/*` | a vector of courses, a static counter of ids | menu commands |
| Smart pointer | `SmartPointer/SmartPointer.h` | does not compile | - |
| Examples | `IO/*`, `WebRTC/deamon`, `WebRTC/mediaserver` | none | read a file of the system and print it, loop and sleep |

How they interact:

* The producer/consumer program hands its twelve functions to the thread pool. A task that
  sleeps on its own condition variable keeps the pool's thread it runs on, so the two
  synchronisation protocols compete for threads.
* The bank simulation uses two queues: one by `orderEnqueue` only (events), one by
  `enqueue` only (customers). It deletes the node that `dequeue` unlinks.
* The stack takes its nodes from the memory pool; the pool links free slots through the
  first word of the nodes it got back.
* The three echo servers listen on the same port, so one of them runs at a time; all are met by
  the same client, through the kernel's connections, descriptors and processes.
* The parent and the child of `fork_sem.cpp` share a semaphore set that belongs to the system:
  it also connects one start of the program to the next.
* Chat server and client talk over TCP in blocks of `BUFF_SIZE` bytes, and each of them
  waits for edge-triggered events and reads once per event.

What is hard to test in this code (each item is a hazard with its line in
`PROJECT.json`):

* **Interleavings.** The gap between `unlock` and `notify` in pool, producer and consumer;
  detached threads that outlive the pool object; a tree of threads on one array without a
  lock; events that wait in a batch while earlier handlers close and reopen descriptors.
* **Edge-triggered events, one read each.** What arrives between `epoll_wait` and `recv`,
  a second message, the end behind a message.
* **Results nobody looks at.** A `send` on a non-blocking socket with full buffers, an
  `accept` without a descriptor, a call that a signal has interrupted.
* **Partial failures.** `std::thread` throws in the constructor; a send fails in the middle
  of a broadcast; a peer resets before it is accepted; SIGPIPE.
* **Crashes.** A semaphore set that outlives a killed parent; operations on it that the kernel
  takes back when a process ends.
* **Resources.** `accept` returns -1 without a free descriptor and its caller goes on; children
  nobody waits for; a connection that several processes are told about.
* **Pointers and reuse.** A rear pointer that is not maintained by one of two insertions; a
  free list in the memory it manages; descriptors that the kernel reuses.
* **Boundaries.** A block without an end that is formatted into a buffer of its own size,
  events at equal times, services beyond closing time, odd halves, the
  remainder of a block, a full store with several producers awake.

What makes each component correct:

| Component | Properties |
|---|---|
| Thread pool | every task is run once and started in order; nobody sleeps while there is work that nobody announces; the shared data live as long as a thread can touch them; after the destructor all threads end |
| Producer/consumer | products are sold in order, once; no lost wake-up; nobody quits early; everything is sold although there are fewer threads than tasks |
| Merge sort | active ranges are disjoint, what a finished thread leaves behind is sorted and a permutation; it terminates |
| Bank simulation | first come first served; no idle window with a queue; the clock is monotone; one departure per service, and none before the service can have ended |
| Linked queue | behaves like a sequence; rear is usable where it is used; every node is in the list, held by the caller, or the one a first insertion has lost |
| Chat server | list and descriptors agree; everybody in the room hears the same lines; of its peers only those who have left, do not read or write texts too long bring it down, and so do an exhausted table of descriptors and a signal; (paced) every text is heard, everybody who left is put out |
| Chat client | lines arrive in order, each once, or are refused by a `send` while the server is behind; leaving ends both processes |
| Semaphore | the parent comes past it only after its own child has posted; a parent that sleeps gets away; a set that stays was left by a kill or by a parent nobody will wake |
| Echo servers | every line comes back once, to its sender; every connection has one reader; nobody waits behind another client; only a client that leaves with an echo unread brings a server down |
| Memory pool, stack | slots lie in their blocks, aligned and apart; each is in one list; each block in the chain; last in first out |

## 2. Modules

| Module | Role |
|---|---|
| `TaskExecutor` | abstract specification of the pool: tasks are accepted, started in order, completed once |
| `ThreadPool` | the pool, refines `TaskExecutor` |
| `ThreadPoolProofs` | theorems about `ThreadPool` |
| `ProducerConsumer` | the two functions as free threads |
| `ProducerConsumerProofs` | theorems about `ProducerConsumer` |
| `PooledProducerConsumer` | composition of `ProducerConsumer` and `ThreadPool` (`main`) |
| `OrderedQueue` | abstract specification of `Queue<T>` |
| `LinkedQueue` | the pointer code, refines `OrderedQueue` |
| `BankQueue` | the simulation, uses the insertion of `OrderedQueue` for its list of events |
| `BankQueueProofs` | theorems about `BankQueue` and `LinkedQueue` |
| `ChatRoom` | abstract specification of the chat server |
| `ChatServer` | the server, its peers and the kernel between them, refines `ChatRoom` |
| `ChatClient` | parent, child, pipe and socket of the client |
| `ChatProofs` | theorems about `ChatServer` and `ChatClient` |
| `Stack` | abstract specification of the stack |
| `MemoryPool` | the allocator at the level of addresses |
| `StackAlloc` | the stack on the allocator, refines `Stack` |
| `StackAllocProofs` | theorems about `StackAlloc` and `MemoryPool` |
| `MergeSort` | the tree of threads |
| `MergeSortProofs` | theorems about `MergeSort` |
| `ForkSemaphore` | parent, child and the System V semaphore, over several starts |
| `ForkSemaphoreProofs` | theorem about `ForkSemaphore` |
| `EchoService` | abstract specification of the echo servers |
| `EchoClients` | the clients, the connections, descriptors and processes; `Echo`, common to the servers |
| `SelectServer`, `EpollServer`, `ForkServer` | one module per server |
| `EchoServers` | composition of the clients with one of the servers, refines `EchoService` |
| `EchoServersProofs` | theorems about `EchoServers` |
| `MC*` | constants for TLC |

### How state and actions correspond to the code

**ThreadPool.** A section of the code that holds `_mtx` is one action, since every access
to `Data` happens under it. The worker states are those between two releases of the mutex:
`ready` (competes for the mutex), `waiting` (in `_cond.wait`), `running` (in `current()`),
`done`. `execute` and `execute2` are `Execute` and, after the unlock, `ExecuteNotify`; the
destructor is `Shutdown` (flag under the mutex), `NotifyAll`, `ReleaseData` (its
`shared_ptr` goes). The constructor starts one detached thread per `Spawn`, and
`SpawnFails` is an exception of `std::thread`. `refs` is the use count of the
`shared_ptr<Data>`. `finished` is history. Two facts about the caller are guards: nobody
calls `execute` before the constructor has returned, and nobody is inside `execute` when
the destructor starts (for any object that would be undefined). A task is submitted once,
so that a task names a call of `execute`.

**ProducerConsumer, PooledProducerConsumer.** The actions of a function are its critical
sections and the `notify_all` behind them. In the composition a function takes a step only
while a worker of the pool runs it (`TaskStep`), and a worker is done with it when the
function has returned (`TaskReturns`); `ProcessExits` is the return of `main` while detached
workers may still run. The `sleep_for` calls and the output are left out.

**BankQueue.** One pass of the loop in `run()` - handler, `delete`, `dequeue` - is one
action. `CustomerDeparture` and `LateDeparture` are the two outcomes of the test against
`end_time`. `Gaps` and `Durations` stand for the random numbers, cut to integers as in the
code, with zero among them. `end()` and the `init()` of the next run are `End`. The division
of the totals by the number of customers after the last run is left out.

**LinkedQueue.** Pointers are addresses; a freed one may come back from the next `new`.
A queue of events grows by `orderEnqueue` only and a queue of customers by `enqueue` only,
as in the simulation: mixing both would write through a stale `rear`, and no code does it.
`heap` is what is allocated. `orderEnqueue` on an empty list allocates twice: `temp`, and the
copy that `enqueue` makes of it. `OrderEnqueueEmpty` therefore takes two addresses, and the
first stays in `heap` for ever without anybody who knows it; `firsts` counts these calls.

**ChatServer.** One handler is one action: the server has one thread, and what a peer does
during a handler it may as well do before or after it. `socket` maps descriptors to
connections, and `accept` takes the lowest free one as the kernel does. `ready` is the set
of edges epoll holds, `events` the rest of the batch. Descriptors of a batch are handled in
any order. A text is a block that may arrive in two pieces; its number stands for the piece in
which the text begins, 0 for the other one, zero bytes or the end of a text that was cut.
`limit` is the largest descriptor the process may have: with none `Free`, `accept` returns -1,
the welcome to -1 fails, and the server ends with everybody in the room (`AcceptFails`).
`WaitInterrupted` is an `epoll_wait` of -1. The peers in `Long` write texts that fill `buff` up,
or `message` together with the words `sprintf` puts before them; a broadcast of such a text
writes beyond `message`, and the process may end before the loop over the list, behind it, or
go on as if nothing had happened (`smashed`). `link` is what the kernel's end knows of a peer that has hung up: a first send to
a closed peer is answered with a reset, a send after that raises SIGPIPE. A failing `send`
makes `SendToAllClient` erase the list node it stands on; what the loop does next is
undefined, and the model lets the process either crash or go on to the next node. `Without` is
what `list::remove` leaves of the list.

**ChatClient.** The parent handles an event per action; the child adds a line to the pipe
or leaves. A `read` takes everything in the pipe, because a pipe has no records. `edges` and `batch`
are its epoll instance, `serverEnd` the server's end of the connection. Its socket does not
block: with `Window` blocks `unread` by the server the buffers are full, `send` takes nothing and
the parent goes on as if it had (`Deliver`); these lines are `refused`. A server that closes with
blocks unread aborts the connection, which the parent reads as an empty message (`ResetRead`).

**MemoryPool, StackAlloc.** The unit of address is a pointer. Memory is a function from
addresses to words; `push`, `pop` and `clear` read and write these words where the code
reads and writes them, so the order of "read data, deallocate" matters. `destroy` is both
destructors and the construction of the next stack.

**MergeSort.** A thread is known by its range. Creation, join, merge and copy back are
steps; the merge loops are the recursive function `LeftIndex`, which picks the left element
exactly when the code does (`<`, so of two equal numbers the right one goes first).

**ForkSemaphore.** A call on the semaphore is one action of the kernel. A parent that is
`waiting` is on its way to `semop`, one that is `asleep` is in it, and the difference matters:
the post completes the operation of a sleeper at once, but a post nobody has slept for is taken
back when the child ends (`SEM_UNDO`), so a late parent sleeps for ever. `set` names the run
whose set has the key. A kill ends a process at any point, gives back what it did to the
semaphore, and leaves the set.

**EchoClients and the servers.** The kernel is in `EchoClients`: `link` is what the server's end
of a connection knows. A client that closes with an echo unread sends a reset, otherwise the end
of the stream; an echo to a client that has closed is answered with a reset, which is a new event
although `recv` goes on to report the end of the stream; a `send` after `recv` has reported a
reset raises SIGPIPE. `select` is level-triggered: `Ready` is computed from the connections each
time. A connection in an epoll instance is edge-triggered: `edge` is what it has not returned
yet. The listening socket is level-triggered in both. The loop of the select server serves the
slots in order and `accept` takes the lowest free slot; with no descriptor left it puts -1 there,
which is the same as leaving it free. The fork server's `Fork` copies the parent's descriptors, a
child that meets the end of its connection becomes one more parent (`role` "accept"), a child of
a failed `accept` receives from -1 for ever (`role` "spin"), and a process that has died keeps
its number, because nobody waits for it. A line is known by its number, and a client has one on
its way, as the loop of `tcp_cline.cpp` has it; `Close` is also what the kernel does for a client
that is killed.

## 3. Runs

| Run | Question | Instance | Result |
|---|---|---|---|
| `pool` | Is every task run once and in order, and do all workers end? | 3 workers, 2 clients, 3 tasks, constructor failure, destructor at any time, spurious wake-ups | 3 state properties, refinement, 2 liveness properties hold |
| `pooled_shop` | Do 4 tasks on 3 threads sell everything? | 2 producers, 2 consumers, store of 2, 4 products | holds |
| `bank` | Is the simulation first come, first served, with a monotone clock? | 2 windows, 3 minutes, 2 runs, at most 4 customers a run | holds |
| `linked_queue` | Does the pointer code behave like a sequence? | 5 addresses, 3 events with 2 times | holds |
| `chat_server` | Do list and descriptors agree, does everybody hear the same, and what brings the server down? | 3 connections, 1 to 3 descriptors, 2 talkers with 1 text that may not fit, 1 peer that reads slowly, with a buffer for 2 messages, or aborts, 2 hang-ups, a signal | holds |
| `chat_paced` | Is every text heard and everybody who left put out? | 3 connections, 2 texts each, peers that wait for the server | holds |
| `chat_client` | Do lines arrive in order, which are lost, and do both processes end? | 3 lines, 2 messages, buffers for 1 block | holds |
| `client_exit` | Does `exit` leave the room, as the client tells its user? | 1 line | violated: the line and the end of the pipe are one edge |
| `stack` | Is the stack on the pool a stack? | 3 blocks with 2 slots and a rest of one word each | holds |
| `merge_sort` | Do the threads keep apart, and sort? | up to 4 lines, 3 values | holds |
| `echo_servers` | Does each server answer everybody, once, admit everybody while it can, and let go of who has left? | each of the 3 servers; 3 connections (2 for epoll), 1 line each, 2 descriptors a process, 4 processes | refinement, 1 state property and 3 liveness properties hold |
| `fork_sem` | Does the parent wait for its child, get away, and take the set along? | 3 starts at any time, kills at any point, a fork that fails | holds |

### Bounds and why they are enough

* `pool`: with three workers one can sleep, one can run and one can compete for the mutex;
  two clients can both be between unlock and notify; with three tasks the queue holds two
  while one runs. The proofs cover every size.
* `pooled_shop`: three threads for four tasks make a task wait in the pool while others
  sleep; a store of two with four products is full and empty several times.
* `bank`: a gap of zero makes simultaneous arrivals, a duration of zero a departure at the
  arrival's time, a gap of three ends the day, a service of two at minute two ends after
  closing; four customers for two windows leave a queue of two; the second run starts from
  what the first leaves behind.
* `linked_queue`: five addresses allow three nodes in the list while one is held by the
  caller and one is lost; a list that has been emptied twice still has room for two nodes. With
  two events at one time the tie rule is visible.
* `chat_server`: three connections are the least with an author, a listener and a newcomer;
  with two hang-ups a descriptor is closed and reused within one batch. With one or two descriptors `accept` fails while others
  are in the room, with three it never does. Every text may be too long and may as well go
  through, so that one run has both. The peers with texts
  and the slow one are symmetric within their group; the run has no liveness property.
* `chat_paced`: the pace keeps the run small, so both talkers may send twice. There are descriptors for all, texts
  fit and no signal comes: otherwise the server may simply end.
* `chat_client`: three lines can be split over reads in every way, also two before the first
  read and one behind it. With buffers for one block the second is refused unless the server has
  read the first.
* `stack`: three blocks of two slots hold six nodes; the chain has a first, a middle and a
  last block. Words and alignment are in units of a pointer; the base addresses have the
  alignment `operator new` guarantees.
* `merge_sort`: four lines give two levels of concurrent threads, three lines an odd half,
  no line at all the range `<<0, -1>>`.

* `echo_servers`: three connections for processes with two descriptors let `accept` fail in the
  select and the fork server; four processes allow a child that spins, a child that accepts and a
  fork that fails. Two epoll processes compete for two connections; with a third connection the
  liveness properties take too long, so an epoll process that runs out of descriptors is not in
  the run. One line per client is enough for an echo, an echo that meets a closed client and one
  that is left unread.
* `fork_sem`: three starts are a run that leaves its set behind, one that is refused and one that
  comes back after the set is gone. The proof covers every number.

`CHECK_DEADLOCK FALSE` is set where the system really may stop: a destroyed pool, a program
that has exited, the end of the last simulation, a sorted file, a server that is gone or has
no visitors, a client that is gone, a parent asleep on a semaphore nobody will post. Queue and stack never stop, and their runs check that.

### Fairness and why the code justifies it

* `ThreadPool`: `std::mutex` hands the lock to *some* thread that wants it, so the fairness
  is weak fairness of "some worker's critical section", not of each worker. A running task
  ends, a thread that is outside the mutex runs on (`ExecuteNotify`, `NotifyAll`,
  `ReleaseData`). Nobody is obliged to submit, construct or destroy.
* `PooledProducerConsumer`: weak fairness of "some step of the pool" and of "some step of a
  task", plus the assumption that spurious wake-ups come to an end: with unfair locks one
  thread could otherwise wake up and go to sleep for ever.
* `ChatServer`: the server runs on while it has something to do (`WF(ServerStep)`), and
  peers read. Peers are never obliged to connect, talk or leave.
* `ChatClient`: the parent runs on (`WF(ParentStep)`). Neither the user nor the server is
  obliged to do anything.
* `EchoServers`: each process of a server is scheduled (weak fairness per process, not per
  connection: the order in which a process serves its clients is the code's). A client that can
  read an echo reads it, and one whose server is gone notices. Nobody has to connect, to type or
  to leave.
* `ForkSemaphore`: parent and child run on, as processes do. Nobody has to start the program or
  to kill one.
* `MergeSort`: every thread that can take a step takes it; there is nothing to wait for but
  the joins.

### What the violation says

`Client.cpp:77` promises the user that `exit` leaves the room. The parent reads once per edge;
when a line and the end of the pipe arrive before it looks, it reads the line and waits for
ever. `ExitAloneEnds` shows that an `exit` with nothing before it is noticed.

Two more comments disagree with the code in a way that is visible without a run.
`threadpool.h:46` says that the destructor blocks until all threads it created have run to their
end; it sets the flag, notifies and returns, and the tasks are still run (`EveryTaskRuns`,
`ShutdownDrains`), but later, or never if `main` ends first. `Queue.hpp:42` states the rule that
whoever allocates frees; `orderEnqueue` on an empty list passes the node it has allocated to
`enqueue`, which copies it, and the first one is lost. `HeapAccounted` shows that the queue loses
exactly one node for each such insertion and no other. That is about the queue alone: the
simulation itself loses the `new Customer` of `QueueSystem.hpp:162` whenever a window is idle,
since the pointer to it is overwritten at line 170 (`BankQueue` has no heap).

Some properties are weaker than one would wish, because the code is. `WaiterReleased` speaks of a
parent that is asleep when its child posts: one that comes later is not woken. `Attended` allows a
connection of the fork server without a reader when `fork` has failed, `Admitted` a connection
that waits for ever once no accepting process has a descriptor, and `Released` leaves out the
fork server, whose parent never closes a connection. `ImplementsEcho` lets the select server fail
after a client left with an echo unread. An epoll process keeps the descriptor of a connection
that was reset.

`OnlyTheseBringDown` names its causes and excludes none that the code has: besides peers that
have gone or do not read, a connection without a descriptor for it, a broadcast of a text that
may not fit, and a wait that is interrupted. `TextsInOrder` allows a line to be refused, but only
once a full window of blocks has gone before it. `SharedDataCounted` says that the data of a pool
whose constructor has failed live as long as its workers; that these workers then wait for ever,
because no destructor raises the flag, violates no property. `ParentAfterChild` rests on a
`semop` that does not fail: `fork_sem.cpp:73` ignores its result, and after a stop and a
continuation `EINTR` would let a parent pass without a post.

The pace of `chat_paced` is not a luxury: without the pace `TextsAreHeard` and
`GoneArePutOut` do not hold, because of one `recv` and one `accept` per edge. The pace
excludes by construction what `Server.cpp:103` and `164` do with a second connection or text
in one edge; these interleavings are in `chat_server`, where only safety is checked. No document of
the repository promises otherwise, so this is a precondition of the properties and not a
finding.

## 4. Proofs

`ThreadPoolProofs`, for every finite set of workers and clients and every set of tasks
(`ThreadsAssumption`, `NoTaskAssumption`):

| Theorem | Statement |
|---|---|
| `TypeCorrect` | `Spec => []TypeOK`, which no run checks; the use count is never negative |
| `NoLostWakeup` | `Spec => []NoStrandedTask` |
| `DataOutlivesThreads` | `Spec => []SharedDataCounted` |
| `ShutdownWakesAll` | `Spec => []NoSleeperAfterShutdown` |
| `Refinement` | `Spec => ImplementsExecutor` |

The inductive invariant `IInv` adds three parts to the properties. `Types` is the type
invariant without the sign of `refs`: that the count is not negative follows from
`SharedDataCounted`, not from the step that decrements it. `FlagUp` says that the flag is up
from the destructor's critical section on, which `NoSleeperAfterShutdown` needs: between
`notify_all` and the end nobody can go to sleep. `TasksDistinct` says that no task is queued
or run twice; the refinement needs it, since the abstract executor keeps the running tasks
in a set, and a worker that takes a task must make that set grow by one. The argument for
`NoStrandedTask` counts: a push adds a task and a notifying client; a notification trades
the client for a worker that is ready, or finds nobody asleep; a worker that takes a task is
one ready worker and one task less; and a worker goes to sleep only while there is no task.
The cardinalities are those of the library's theorems on finite sets.

`ProducerConsumerProofs`, for every number of producers, consumers, workers, products and
places (`ThreadsAssumption`, `SizesAssumption`):

| Theorem | Statement |
|---|---|
| `PoolRunsShop` | `Spec => ShopSpec`: the program on the pool implements the free threads |
| `ShopTypesHold` | `Spec => []ShopTypeOK` |
| `SalesInOrder` | `Spec => []SoldInOrder` |
| `WakeupsArrive` | `Spec => []NoLostWakeup` |
| `QuitInTime` | `Spec => []QuitWhenSoldOut` |

`Shop`, the conjunction of the four invariants, is inductive for `ShopNext`; `SoldInOrder`
ties the store, the countdown and what was bought to one descending sequence, from which
`QuitWhenSoldOut` follows when the store is empty and the countdown at zero. The step from
free threads to the pool is a refinement with the identity as its mapping: every step of the
composition is a step of one function or leaves the shop alone.

`ForkSemaphoreProofs`, for every number of starts (`RunsAssumption`):

| Theorem | Statement |
|---|---|
| `Handshake` | `Spec => []ParentAfterChild` |

`ParentAfterChild` is not inductive: it says nothing about where a value of the semaphore comes
from. `OwnersHaveSet` says that a run whose parent has acquired a set and not released it, or
whose child has still to post, owns the set, so that no other run touches its value;
`ForkedOnce` that there is no child before the fork; `ValueIsPost` that until the parent is past
the semaphore its value is 1 exactly while the child has posted and lives. Initialisation makes
`ValueIsPost` true whatever the previous owner left behind, a post and an undo keep it true, and
a parent that takes the 1 therefore took its own child's.

`BankQueueProofs` holds two groups of theorems. The first is about the simulation, for every
number of windows, runs and customers and every source of random numbers (`SizesAssumption`,
`RandomAssumption`):

| Theorem | Statement |
|---|---|
| `BankIsOrderly` | `Spec => []IInv` |
| `QueueOnlyWhenBusy` | `Spec => []NobodyWaitsInVain` |
| `ServedInOrder` | `Spec => []FirstComeFirstServed` |
| `ClockIsMonotone` | `Spec => []EventsInOrder` |
| `NoWindowLost` | `Spec => []OneDeparturePerService` |

Of the parts of `IInv`, `Calendar` says that the list of events is in order, none of them is over,
and there is one next arrival and one departure of each window at most, with the current event
counted in; `ServedInFull` that no departure comes before the arrival of the customer it serves
plus the duration of the service (it begins later for those who have waited); `ServicesDue` that a window is busy if its departure is to come,
and before closing time only then; `ArrivalsInOrder` that customers have come before now, those
at a window before those in the queue; `WaitsWithinStays` compares the totals. `NobodyWaitsInVain`
needs `ServicesDue`: a window that becomes idle must be the one whose departure is handled, or
the next customer would go to another. The lemma behind all of them is `InsertionPoint`, which
says where `orderEnqueue` puts an event of a list in order.

The second group is about the linked list of both queues, for every finite set of addresses and
every choice of `new` among the free ones (`NodesAssumption`, `EventsAssumption`,
`AddressAssumption`):

| Theorem | Statement |
|---|---|
| `QueueIsList` | `QueueSpec => []QueueIInv` |
| `RearIsRight` | `QueueSpec => []RearIsUsable` |
| `HeapIsAccounted` | `QueueSpec => []HeapAccounted` |
| `QueueIsSequence` | `QueueSpec => ImplementsSequence` |

`QueueIInv` says that there is a sequence of distinct addresses which the pointers follow from
the sentinel to NULL, that held node and rear fit it, and that `heap` is the list, the held node
and as many other addresses as there were insertions into an empty list. The step lemmas name the next
sequence: a node inserted behind place `i`, a tail, the same, nothing. Because the addresses are
distinct the sequence is no longer than there are addresses (`ListFits`), so the walk of
`length()` sees all of it (`WalkIs`); and what the nodes carry is then the abstract sequence.

`MergeSortProofs`, for every finite set of lengths and every set of integers
(`InputAssumption`):

| Theorem | Statement |
|---|---|
| `SortIsOrderly` | `Spec => []IInv` |
| `NoSharedElements` | `Spec => []RangesDisjoint` |
| `ReturnedSlicesSorted` | `Spec => []ReturnedIsSorted` |

`RangesDisjoint` follows from the shape of the tree of threads: two started slices lie apart or
one lies in a half of the other (`Laminar`), and a half is not touched before its thread is
created and has nobody active in it once that thread is joined (`Phases`). On top of it,
`ReturnedSorted`, `TmpMerged`, `Untouched` and `Whole` say for each thread what its slice and its
`Tmp` hold at each of its steps. The merge loops are a recursive function; that it yields a
sorted permutation is proved by induction on the position.

`StackAllocProofs`, for every size and alignment of a slot, every size of a block that holds at
least two slots, and wherever the blocks lie, as long as they do not overlap
(`LayoutAssumption`, `BasesAssumption`, `NodeAssumption`: a node has at least two words):

| Theorem | Statement |
|---|---|
| `PoolIsOrderly` | `Spec => []IInv` |
| `EverySlotFits` | `Spec => []SlotsFit` |
| `NoSlotLost` | `Spec => []EverySlotInOneList` |
| `NoBlockLost` | `Spec => []EveryBlockInChain` |
| `StackOnPool` | `Spec => ImplementsStack` |

The three lists live in memory that the program writes to, so `Lists` says that each of them
ends, at which addresses its links are, and that nodes and free slots share no slot; `Uncut`
that no slot reaches into the part of the current block that has not been cut. A write to a node
changes no other list because slots are aligned, apart and not the head of a block.

`EchoServersProofs`, for every number of clients, lines, processes and descriptors, and for each
of the three servers (`EchoSizes`, `EchoConns`, `EchoCallers`, `WorkersAssumption`, and
`TableAssumption`: the select server's table has more slots than a process has descriptors):

| Theorem | Statement |
|---|---|
| `ServersAreOrderly` | `Spec => []IInv` |
| `EveryClientAttended` | `Spec => []Attended` |
| `ServersEcho` | `Spec => ImplementsEcho` |

`OneLine` and `Queued` are about the clients, whatever server they meet: a line is on its way in
one direction at most, and a connection waits or belongs to somebody. `Table`, `Registered` and
`Forked` are the servers' own parts, for the program that runs: the table holds the open
descriptors once each and below `max_pos`; what an epoll process can read is announced or about
to be; a child was there for a connection if there was one to be had.

`ChatProofs`, for any number of people, descriptors and texts, any capacity of a buffer and both
paces (`SizesAssumption`, `PeersAssumption`, `ConnsAssumption`), and for every window of the
client's connection (`BoundsAssumption`):

| Theorem | Statement |
|---|---|
| `RoomIsOrderly` | `Spec => []IInv` |
| `ListMatchesTable` | `Spec => []RosterMatchesSockets` |
| `PresenceIsHarmless` | `Spec => OnlyTheseBringDown` |
| `ServerIsRoom` | `Spec => ImplementsRoom` |
| `LinesArriveInOrder` | `ClientSpec => []TextsInOrder` |

`RosterMatchesSockets` is made inductive by saying more: the list has each descriptor once
(`Agree`), and connections wait once and are not in the room (`Waiting`), so that a newcomer's
descriptor is not in the list yet. A broadcast walks the list
and closes on the way; `SendOutcome` says that it reaches everybody or the process ends with some
of them told, which are the two actions of the room. The texts of a peer arrive in order
(`Texts`), so what the room says next is later than what it said. The client's invariant says
that the blocks that have arrived, laid end to end, ascend, that with the refused ones they are the lines read so far, and that the
pipe holds the ones that follow, as long as the connection stands; and that nothing was refused
unless a full window of blocks had arrived.

### How induction over data is done

`MergeSort`, `StackAlloc`, `LinkedQueue`, `ChatServer` and the `FlattenSeq` of the client contain
functions that are recursive over data. What such a function computes is proved in two steps, both
by the fact that the natural numbers are well ordered (`SetInduction`, `LeastNumber`, stated for a
*set* of numbers): that a function with the recursive equation exists, and that every function
with that equation has the values claimed.

### What is only model-checked

Everything about liveness: `EveryTaskRuns`, `ShutdownDrains`, `EverythingSold`, `Printed`,
`TextsAreHeard`, `GoneArePutOut`, `ExitAloneEnds`, `Answered`, `Admitted`, `Released`,
`WaiterReleased`, `SetIsRemoved`. The prover handles neither fairness nor `ENABLED`. Every
invariant, every action property and every refinement that a run checks has a theorem.

A theorem is about the model. Where the model is bounded by a guard (customers, texts, starts),
the theorem holds for every bound; numbers are unbounded, so what happens at the
end of the range of `int` is covered neither by the runs nor by the proofs.

## 5. Not modelled, and why

* Course manager: a sequential program around one vector, whose menu prints it, counts it and
  removes its last element. Two slips in it (a course made from a name never gets its number,
  `Course.h:19`; the first course counts as not found, `CourseManager.cpp:38`) are single
  expressions that one test each would show.
* Libevent echo server and smart pointer: they do not compile, so there is no program.
* UDP pair: one datagram each way without timeout or retry.
* I/O examples, media server, daemon: no state.
* Echo servers: lines that arrive in pieces or several at a time (the client sends one and
  waits), `max_fd`, and the branch of the select server for a full table: the table has 1024
  slots, and with the usual limit of 1024 descriptors `accept` fails before it is full.
* Within modelled components: errors of `socket`, `bind`, `listen`, `epoll_create` at the start
  (the program ends), errors of `accept` other than a lack of descriptors for the process (they
  have the same effect in the chat server), a `semop` that a signal interrupts, sends that
  transfer a part of a block, the `new Customer` that the simulation itself loses, static
  destruction of the shop's mutex and store at the end of `main` while detached workers still
  run, the overflow of the kernel's backlog, a failing `pthread_create` (the code joins an
  uninitialised id), `pop` and `top` of an empty stack, copies of a stack or pool, a
  default-constructed or moved pool. The ones that are hazards are listed as such.

## 6. Plan

Done, in this order: pool and its abstract specification, its proofs, the composition with
producers and consumers and the proofs about them, the queue and the bank simulation, the
chat server and its room, the chat client, memory pool and stack, merge sort, the semaphore and
its proof, the echo servers and their service; then the proofs about the bank, the merge sort,
the echo servers, the memory pool, the chat server and client, and the linked list.

To extend the model: epoll processes that run out of descriptors (a third connection in the run
`echo_servers`), partial sends in the chat server.
