# A TLA+ model of the cube server core

This directory holds a formal model of the server in `src/`: TLA+ modules for
its components, TLC configurations that check them on small instances, and
TLAPS proofs of the properties that matter most. Source paths below are
relative to the repository root.

## 1. Inventory

The repository's own code is about 780 lines of C++ in `src/`; `lib/` is
vendored (asio, catch2, FlatBuffers, moodycamel's concurrent queue) and the
tests in `tests/` are commented out in full. Of the vendored code only the part
of the concurrent queue that the server runs is modelled: the whole server rests
on it. The code is an early stage of a
game server: the parts exist, few of them are wired together. `main` builds a
session manager and a handler manager, starts the latter and returns.

| Component | State | Operations | What is hard about it |
|---|---|---|---|
| `PacketExecuteQueue` (`src/core/dispatcher`) | lock-free queue, `_isRunning`, mutex, condition variable, one worker thread, processor function | `SetProcessor`, `Enqueue`, `TryDequeue`, `HasPending`, `Start`, `Stop`; worker: `Run`, `ProcessPackets` | producers, owner and worker interleave; `Enqueue` notifies without the mutex; `Stop` must wake, drain and join; exceptions of the processor; restart |
| `ConcurrentQueue` (`src/core/common/queue_adapter.hpp`, `lib/concurrentqueue-1_0_4`) | alias of `moodycamel::ConcurrentQueue`: a stream of blocks per enqueuing thread, a list and a hash of the streams | `enqueue`, `try_dequeue`, `size_approx` | lock-free: counters, blocks and index entries are read at different times and reused; order only per producer; `enqueue` may fail for lack of memory and nobody looks |
| `SessionBase`, sending (`src/core/session`) | `_sendQueue`, `_isWriting`, socket | `Send`, `WriteAsync`, completion handler | many senders race for one write chain on the socket |
| `SessionBase`, receiving | `_recvBuffer` (unused) | `Start`, `ReadAsync`, `OnReceived` | stubs: nothing changes state |
| `RingBuffer` (`src/core/buffer`) | array, two positions, `_isFull` | `Write`, `Read`, `Peek`, `AdvanceRead`, `AdvanceWrite`, `ReadableBytes`, `WritableBytes`, `WriterPtr`, `ReadPtr` | full and empty differ by a flag only; wrap-around, partial calls, zero lengths |
| `SessionManager` (`src/core/session`) | map from identifier to session, mutex | `Add`, `Remove`, `FindBySessionId`, `FuncToAll` | callback under a non-recursive mutex; identifiers that collide |
| `HandlerManager`, `HandlerFactory`, `EchoHandler` (`src/game`) | handler map, execute queue, session manager | constructor, `Start`, `Stop`, `ProcessPacket`, destructor | the worker uses the members until the destructor's `Stop` has joined it |
| `TcpAcceptor` (`src/core/network`) | `_isRunning`, acceptor, session factory | `Start`, `Stop`, `DoAccept`, accept handler | `Stop` against a completion already queued; an error, or a session factory that throws, ends the chain |
| `PacketDispatcher` (`src/core/dispatcher`) | handler map | `Register`, `Dispatch` | nothing instantiates it |
| `ServiceRegistry`, `main` | map from type to service | `Registry`, `Get`, `RegisterService` | order of destruction |
| `PacketItem`, `PacketHeader` (`src/protocol`) | plain data | none | the payload pointer is not owned |

How they interact: a network thread is meant to hand `PacketItem`s to
`PacketExecuteQueue::Enqueue`; the queue's worker calls the processor that
`HandlerManager` set, which looks the session up in `SessionManager`, finds the
handler and calls it; the handler is meant to answer through `SessionBase::Send`;
`TcpAcceptor` makes sessions out of accepted sockets. At this commit nothing
calls `Enqueue`, the echo handler's `Send` is commented out, `Disconnect` is
declared and not defined, and the header `isession.hpp` that the overview lists
is missing, so the program does not link as it stands. The components are
modelled as they are written.

What makes each part correct:

* the queue: every packet of a producer is executed once, in order, or is gone
  for a known reason; `Stop` returns, leaves nothing of what it found, and
  nothing runs after it; an enqueued packet is executed while the queue runs;
* the session: one writer at a time, a flag that is released, packets that are
  written;
* the ring buffer: it is a first-in first-out queue of bytes;
* the acceptor: it listens while it runs and nothing fails, and stops making sessions once it is
  stopped;
* the session manager: its calls take effect one at a time, a walk over the map
  sees the map of one moment, and a call returns;
* the handler manager: the worker uses nothing that is destroyed, a packet goes
  to a session with its identifier, and the program ends with nothing forgotten;
* the lock-free queue: each thread has a stream of its own, a stream is first-in
  first-out and leaks no block, and a consumer that is told there is nothing was
  told the truth.

## 2. Modules

| Module | Models | Used by |
|---|---|---|
| `ConcurrentQueue` | the lock-free queue as the server uses it, as operators | `PacketExecuteQueue`, `SessionBase`, `PacketService` |
| `PacketService` | abstract: what an execute queue promises, without threads | refined by `PacketExecuteQueue`; part of `HandlerManager` |
| `PacketExecuteQueue` | `packet_execute_queue.{hpp,cpp}` | `MCPacketExecuteQueue`, `PacketExecuteQueue_proof` |
| `SessionBase` | the sending side of `session_base.{hpp,cpp}` | `MCSessionBase`, `SessionBase_proof` |
| `ByteQueue` | abstract: a bounded queue of bytes, whole calls as steps | refined by `RingBuffer` |
| `RingBuffer` | `ring_buffer.hpp` | `MCRingBuffer`, `RingBuffer_proof` |
| `TcpAcceptor` | `tcp_acceptor.{hpp,cpp}` | `MCConnections`, `Connections_proof` |
| `SessionDirectory` | abstract: a directory of sessions, each call one step | refined by `SessionManager`; part of `HandlerManager` |
| `SessionManager` | `session_manager.{hpp,cpp}` | `MCConnections`, `Connections_proof` |
| `HandlerManager` | `handler_manager.{hpp,cpp}`, `service_registry.hpp`, `main.cpp`, the handlers; composed with `PacketService` and `SessionDirectory` | `MCHandlerManager`, `HandlerManager_proof` |
| `Stream` | abstract: one thread's stream of the lock-free queue | refined by `ImplicitProducer` |
| `ImplicitProducer` | that stream: blocks, block index, counters (`concurrentqueue.h`) | `MCImplicitProducer`, `ImplicitProducer_proof` |
| `ImplicitProducerHash` | how a thread finds its stream | `MCImplicitProducerHash`, `MCHashFills`, `ImplicitProducerHash_proof` |
| `TryDequeue` | `try_dequeue` and `size_approx` over all streams | `MCTryDequeue`, `TryDequeue_proof` |

The modules form two chains of refinement that meet in `HandlerManager`: the
threads of `PacketExecuteQueue` implement `PacketService` and those of
`SessionManager` implement `SessionDirectory`; `HandlerManager` is built on the
two abstract specifications, so that its state space has no mutex and no
condition variable in it.

Definitions named `X_Something` after an action `X` are mutants: the action
with one plausible mistake. Each property of a passing run has one that breaks
it (`PROJECT.json`, "mutants"), which shows that the property says something
about the code.

### ConcurrentQueue

The repository uses moodycamel's queue without tokens, so each enqueuing thread
owns one implicit stream; a stream is first-in first-out and nothing is promised
between streams. The model is a function from threads to sequences.
`try_dequeue` may serve any non-empty stream, and every call is one step. Where
there are several consumers, `try_dequeue` may also fail while there are packets,
because a rival that came too late has not yet taken back its claim: that is the
action `DequeueMisses` of `PacketExecuteQueue`.

What justifies this is modelled from the library: `ImplicitProducerHash` (a
thread has its own stream), `ImplicitProducer` (a stream is first-in first-out,
published by one store and given away by one update) and `TryDequeue` (a consumer
that overlaps no other is told that there is nothing only if at one moment there
was nothing). What remains an assumption is sequentially consistent memory: the
library's relaxed loads are taken to give the latest value.

### PacketExecuteQueue

State: the members (`isRunning`, `mutex`, `queue`, `hasProcessor`), where each
thread is (`workerPc`, `ownerPc`, `producerPc`), the local `item` of
`ProcessPackets` (`current`), and history (`sent`, `executed`, `gone`, `due`).
A step is what a thread does between two points at which another thread can see
it: a lock or unlock, a call of the lock-free queue, a notify, falling asleep in
`wait`, the call of the processor.

* `Start` sets the flag and creates the worker; `StopCall`, `StopLock`,
  `StopStore`, `StopNotify`, `StopJoin` are `Stop` (and the destructor);
* `EnqueuePush` or `EnqueueFails`, then `EnqueueNotify`, are `Enqueue`;
  `TryDequeueElsewhere` is the public `TryDequeue` called by somebody else;
* `RunLock`, `WaitCheck`, `WaitSleep`, `WaitRelock`, `RunReturn`, `RunUnlock`
  are `Run`, with `_cv.wait` taken apart: it tests the predicate with the lock
  held, then releases the lock and sleeps in one step;
* `ProcessPacketsLoop`, `DequeueItem`, `DequeueNothing`, `DequeueMisses`,
  `ProcessorReturns`, `ProcessorThrows`, `CatchException`, `NoProcessor` are
  `ProcessPackets`.

Faults of the environment: spurious wakeups, an `enqueue` without memory, another
caller of `TryDequeue` (all counted by `MaxFaults`), a processor that throws. The owner calls `SetProcessor` and `Start` only while
there is no worker, as `HandlerManager` does; a second `Start` would end the
process in `std::thread::operator=`.

`PacketService` says what callers may rely on: lines of packets, at most one in
execution and only between a start and the end of a stop, and no end of a stop
before what was waiting at its request is dealt with. The refinement maps its
phase to the flag and the existence of the worker, its lines to `queue` and the
packet in execution to `current`.

### SessionBase

State: `sendQueue`, `isWriting`, the place of each sender and of the thread
that runs completion handlers (`pc`), the packets of the `async_write`s under
way (`inFlight`), and history (`sent`, `lostRaces`, `wire`). `SendEnqueue`,
`SendEnqueueFails`, `SendWins` and `SendLoses` are `Send`; `WriteAsyncDequeues`,
`WriteAsyncResets` and `WriteAsyncWrites` are `WriteAsync`; `WriteCompletes` is
the completion handler. The condition on `try_dequeue` is modelled as it is
written: success ends `WriteAsync`, failure goes on to `async_write` of an empty
vector. asio completes a write of no bytes without a system call, so it cannot
fail (`WriteSucceeds`); the error branch therefore ends after `OnError`, which
prints, and the undefined `Disconnect` is never reached.

### RingBuffer

State: the members, and of the call in progress its arguments, its counter,
`pos` and what it has stored through `dest`; `result` is what the last call
returned. `Write`, `Read` and `Peek` are loops of one step per iteration, so
that the refinement to `ByteQueue`, whose calls are one step, has something to
show. `StoreThroughWriterPtr` is a caller that stores in place before
`AdvanceWrite`. Advances stay within what is readable or writable, which the
class leaves to its caller. `Strict` says whether the caller also keeps away
from the two calls the class answers wrongly: an advance by zero, and a `Peek`
of more than there is while the buffer is neither full nor empty.

### TcpAcceptor

State: `isRunning`, whether the acceptor is open, whether there is a session
factory, how many accepts are under way (`pending`), completed with a socket
(`accepted`) or with an error (`refused`) and waiting for their handler, and where
the owner's thread and the `io_context`'s thread are (`acceptorPc`; the names that
`SessionManager` has too carry the prefix, as one module proves about both). `Start`, `StopStore`,
`StopClose` are the owner's; `DoAcceptCheck` and `DoAcceptBegins` are `DoAccept` on
either thread; `HandlerFails` and `HandlerAccepts` are the handler, up to its call
of `DoAccept`. A session factory that throws (`FactoryThrows`) leaves the handler
before that call and takes the thread out of `io_context::run`, as asio does with
exceptions of handlers; somebody may call it again (`RunAgain`). `ConnectionArrives` and `AcceptFails` are the operating system.
asio's `close` aborts the accepts under way and leaves alone what has completed;
`async_accept` on a closed acceptor completes with an error. A read of the plain
`_isRunning` that races with a write gives the old or the new value, which the
interleaving of `DoAcceptCheck` and `StopStore` has. `close` and `async_accept` on
two threads at once are taken in one order or the other; asio asks its user to
keep them apart.

### SessionManager

State: `mutex`, the map `sessions`, and of each thread the call it is in, where
it is in it, and the progress of its `FuncToAll` (`left`, `seen`). `Lock` is the
`lock_guard`; `Add`, `Remove`, `FindBySessionId` are the rest of those calls.
`FuncToAll` takes one step per session (`FuncCalled`, `FuncReturns`), in any order
of the unordered map, with the mutex held. A callback may throw (`FuncThrows`) or
call the manager again (`FuncCallsBack`): locking a `std::mutex` that one's own
thread holds is undefined, so the thread blocks for ever or gets an exception
(`RelockThrows`). `Add` replaces and `Remove` erases whatever is under the
identifier. `SessionDirectory` has the same calls as single steps; `FuncToAll`
is the step at which it returns.

### HandlerManager

The life of the program. `main` makes and registers both services
(`RegisterService`), starts the worker, serves, and returns, which destroys the
registry: its unordered map drops the two services in either order
(`RegistryDropsSessionManager`, `RegistryDropsHandlerManager`), and the last
pointer to the handler manager runs its destructor: `HandlerManagerStops`,
`HandlerManagerJoins`, then the members in reverse order of declaration
(`MembersDestroyed`, `QueueDestroyed`). The worker takes packets (`WorkerTakes`) and
runs `ProcessPacket`: `ProcessPacketFinds` the session, `ProcessPacketLooksUp` the
handler, `ProcessPacketHandles`, `ProcessPacketReturns`. The network, which the
repository does not have yet, makes and registers sessions, removes and drops
them and submits packets while `main` serves. `owners` says who holds a
`shared_ptr` to a session, `holders` who holds a service, `members` which members
of the handler manager exist.

### ImplicitProducer

One stream of the lock-free queue: one producer, several consumers. State: the
counters `tailIndex`, `headIndex`, `dequeueOptimisticCount`, `dequeueOvercommit`
(all of `Width` bits, so they wrap), the block indexes with their entries, the
elements of the blocks and how many of them are dequeued, the free blocks, and
where each thread is, with what it has loaded. `enqueue` gets a block and an index
entry, constructs the element and publishes it; it may find no memory for the
entry, a larger index or the block, or the constructor may throw. `dequeue` loads,
counts itself in, checks again, claims, finds the block through the index, reads,
and gives an emptied block back. A step is one access of shared memory. The free
list is a set.

### ImplicitProducerHash

The chain of hash tables, each at least twice as large as the one before, the count of
entries, the flag that says that somebody is allocating a table, the streams made
and those whose threads have ended. A call of `get_or_add_implicit_producer`
begins its search (`Searches`) and finds its key in the main table or an older one (`FindsInMain`, `FindsInOlder`, then
`TriesNext` and `Moves` to the main table), or finds nothing and counts itself in,
takes part in the resizing or waits for it, gets a stream (`Recycles`, `Creates`,
`CreateFails`) and enters it (`InsertsInReusable`, `InsertsInEmpty`). `Exits`,
`Leaves` and `Retires` are the listener that runs when a thread ends. A search of
a table ends at the thread's key or at an empty slot. In a table with neither,
the loop of lines 3412 to 3448 goes round for ever, and so does that of lines 3552
to 3559: the thread stays where it is (`Ends`), as it does in the loops that look
for a slot to take.

### TryDequeue

The walk of `try_dequeue` over the list of streams: `Scores` looks at streams
until three are non-empty, `DequeuesBest` tries the longest, `DequeuesOther` and
`Passes` the rest; `Sums` is `size_approx`. Of a stream only its size is kept, and
it may refuse while another consumer is in a call, as `ImplicitProducer` does.
The history `alone` and `sawEmpty` say whether another consumer's call overlapped
and whether the queue was empty at some moment of the call.

## 3. Runs

| Run | Instance | Result |
|---|---|---|
| `queue` | a producer of 2 packets and one of 1, 2 starts, 2 faults, fair; 160152 states | all hold |
| `queue_lost_wakeup` | 1 producer, 1 packet, fair, no faults | `EnqueuedIsExecuted` violated |
| `ring_fifo` | 2 byte values, capacity 3, lengths 0..4, strict caller; about 111000 states | all hold |
| `ring_long_peek` | capacity 2, lengths 0..2, any caller | `PeekPreviewsRead` violated |
| `session` | 3 senders of 3 packets, 2 failed `enqueue`s, fair; 231500 states | all hold |
| `session_never_writes` | 1 sender, 1 packet, fair, no faults | `SentIsWritten` violated |
| `connections` | acceptor: 3 starts, 3 connections, 1 error, 1 factory that throws, fair; session manager: 2 threads of 3 calls, 3 sessions of which 2 share an identifier, fair; 371430 states | all hold |
| `handler` | the same sessions with a packet each, one of them no echo request, fair; 301465 states | all hold |
| `stream` | 2 consumers, 3 blocks of 2 elements, 2 block indexes, indices of 3 bits, 1 consumer that gives up; 1657573 states | all hold |
| `hash` | 2 identifiers, all searches colliding, tables of 2, 4 and 8 slots, 3 streams, 3 threads that end, fair; 137933 states | all hold |
| `hash_fills` | one schedule of 65 threads, tables of 32 and 64 slots | `SlotFree` violated |
| `walk` | 2 consumers, 4 streams of at most 2 elements; 3307495 states | all hold |

What they show:

* **`queue`**: packets of one producer are executed in order and never
  twice (`PacketsInOrder`), none is lost or invented (`PacketsAccounted`), the
  worker never sleeps with the flag down unless `Stop` is about to notify
  (`StopWakeupNotLost`), a returned `Stop` left nothing of what it found
  (`StopDrains`), nothing happens between a `Stop` and the next `Start`
  (`QuietAfterStop`), and all of it implements `PacketService`. `Stop` returns
  (`StopReturns`), and a packet stranded by a lost notification is dealt with as
  soon as another `Enqueue` finds the worker asleep (`NextEnqueueRecovers`). The
  producers have a bounded number of packets: because the worker drains before
  it returns, `Stop` would wait for ever against producers that never pause.
* **`queue_lost_wakeup`**: a packet enqueued on a running queue need not be
  executed. The worker evaluates the predicate (no packet, running), the producer
  pushes and notifies, the worker sleeps. Taking the mutex between the push and
  the notify would close the gap, as `Stop` does.
* **`ring_fifo`**: with the strict caller the ring buffer is a byte queue.
* **`ring_long_peek`**: one of the two calls excluded by `Strict`: a long `Peek`
  delivers bytes from behind the write position. The other is an advance by
  zero: `AdvanceWrite(0)` on an empty buffer fills it, which no run records.
* **`session`**: the compare-and-exchange keeps the socket to one writer
  (`OneWriter`). What it protects is broken: each `Send` takes one packet out of
  the queue and drops it, or loses the race and leaves one there for good
  (`BacklogConserved`), and nothing gets to `async_write` (`NeverWrites`) unless
  an `enqueue` failed, in which case empty packets do. The flag comes down again,
  also out of the loop of empty writes, as soon as there is a packet to dequeue
  (`FlagReleased`).
* **`session_never_writes`**: the consequence for the caller of `Send`.
* **`connections`**, the acceptor: a running acceptor stops listening only when an
  accept fails by itself or a session factory throws, after which only another
  `Start` arms it: each `Start` begins a chain of accepts and each failure ends one
  (`DeafOnlyAfterFailures`). After `Stop` the accepts that had completed still make
  sessions, and no others do (`LateSessionsBounded`); the chain of accepts ends, and
  a later `Start`, on the acceptor that stays closed, does not bring it back
  (`StopEndsAccepts`), unless after an exception nobody runs the `io_context` any
  more (`NobodyRuns`).
* **`connections`**, the session manager: calls of any threads take effect one at a
  time and a `FuncToAll` sees the map of one moment (`ImplementsDirectory`), also
  when its callback throws; every call returns unless a callback has called the
  manager and blocks on its own mutex, in which case everybody does
  (`CallsReturn`). One run has both components since they share no state: either
  the one or the other takes steps (`MCConnections`), because an interleaving of the
  two has nothing that a behaviour of each has not.
* **`handler`**: while the worker is in `ProcessPacket` everything it uses exists,
  in either order of destruction (`UsesLiveServices`); the session it works on is
  kept alive by its own pointer (`HandledSessionAlive`) and has the identifier of
  the packet (`HandledByRightSession`), though not necessarily the session that
  sent it; what was queued is handled before the end (`ServedBeforeExit`), and the
  end comes (`MainEnds`).
* **`stream`**: the library's stream implements `Stream`; the lookup through the
  block index, with values read at different times, finds the right block
  (`LookupFindsBlock`, the asserts of the code); failures of memory leak no block
  (`NoBlockLeaks`); when no consumer is in a call, the optimistic counters tell
  the truth (`QuietStreamServes`).
* **`hash`**: a thread finds its own stream after any number of new tables
  (`FindsOwnStream`), and no two threads share one (`StreamNotShared`), though
  identifiers and slots are reused; the search and the wait for a larger table
  end (`GetReturns`) unless memory fails again and again or a table has no empty
  slot left (`TableFills`). With two identifiers no table fills, so this run is
  about the wait; what fills a table is the question of the next run.
* **`hash_fills`**: as long as no thread ends, every table keeps an empty slot: that
  is the theorem `HashSlotRemains` below. With threads that end the one count is not
  enough. A thread that was late takes the
  slot its predecessor left in the old table and counts itself out; a newcomer
  takes the slot the predecessor left in the main table and counts itself out as
  well; the late thread then moves to the main table, where it uses a slot that
  nobody counted. Repeated, this lets all 64 slots of the main table be in use while
  the count is below 48, at which threads would wait for a larger table. A search
  for a new key then has nothing to end it, against the comment on line 3412 ("at
  least one slot is free in the hash table") and that on line 3419 ("guaranteed to
  be room"). The schedule needs threads that stay inside one call while many
  others start and end, so it is as good as unheard of; TLC follows this one
  behaviour of the model rather than search for it (`MCHashFills`), since an
  instance in which a table can fill has too many states.
* **`walk`**: for a consumer that overlaps no other, "nothing" means that there
  was a moment with nothing (`NothingMeansEmpty`), and what it has seen it gets
  (`SeenIsServed`). With rivals neither holds, hence `DequeueMisses`.

Bounds. Two producers (three senders) are enough for every race in which two
threads of a kind meet a third, two packets for order within a stream, two
starts for what a restart finds (three for the acceptor: two chains at once and
a restart). The faults of the queue share one bound, `MaxFaults`, so that any two
of them meet at any point. A capacity of 3 with lengths up to 4 has calls
that wrap, fill, empty and exceed the buffer from every pair of positions. Three
calls per thread (`MaxCalls`) let a session be added, replaced and removed during
another thread's walk. Indices of three bits wrap during the run of a stream with
blocks of two elements; three blocks are one more than two consumers can pin, and
the third index entry forces a second index (`MaxIndexes`). `MaxOvercommit` bounds
the counter of consumers that came too late, which otherwise grows without end.
In the hash `MaxTables`, `MaxProducers` are what memory suffices for, beyond which
allocation fails, and `MaxExits` lets an identifier be reused. The 32 slots of
`hash_fills` are the library's default. Four streams are
one more than the first loop of `try_dequeue` counts. The proofs below remove the
bounds for the safety properties of the server's own components, the hash and the walk.

Deadlock is checked for the queue, the ring buffer, the hash and the walk. It is not for the one schedule of `hash_fills`, which comes to its end; nor for the session and the stream, whose threads may be done; for the
run of acceptor and session manager, where a callback that calls back blocks its
thread; and for the handler manager, which ends with the program.

Fairness. `Worker`, the steps of a `Stop` that has begun and the notify of an
`Enqueue` that has begun are weakly fair: each runs on an operating-system
thread that is scheduled as long as it can run, and the processor is assumed to
return (the echo handler has no loop). Nobody is obliged to call `Start`, `Stop`,
`Enqueue` or `Send`; no wakeup, failure or foreign dequeue is fair. A thread
waiting for the mutex needs no strong fairness here: the owner takes it once per
`Stop`, and the worker gives it up to sleep or to process. For the session, a
`Send` that has begun and the `io_context`'s thread are weakly fair. So they are
for the acceptor, where connections, errors and exceptions are not. The `io_context`
runs its handlers for as long as a thread is in `io_context::run`, which no code in
the repository calls yet; that somebody calls it again after an exception is not
assumed, `StopEndsAccepts` names the case.

In the session manager a thread in a call is weakly fair (`Proceeds`), the
callback returning or throwing included; it is not obliged to make a call, and a
thread that waits for its own mutex is not obliged to get an exception. Weak
fairness is enough for the mutex because the threads make finitely many calls.
In the handler manager `Main` and `ProcessPacket` are weakly fair, and so is
`Drains`: the worker of a queue that was told to stop works it off, which is what
`StopReturns` shows of `PacketExecuteQueue`. Before a stop no packet need be taken,
since its notification may be lost; the network and the return of `main` are not
fair. In the hash a call that has begun is weakly fair (`GetGoesOn`), and
`GetReturns` leaves out memory that keeps failing, a condition outside the code,
and the full table of `hash_fills`.

## 4. Proofs

All for any set of producers, senders, consumers or threads, any bounds, any
capacity and bytes, any hash function, any width of the indices. The assumptions are the named `ASSUME`s of
the modules: bounds are naturals, a capacity is at least one, and the model values
for "nothing" are not packets, calls, streams or threads. The
inductive invariants of `TryDequeue`, of the hash and of the stream were checked by
TLC on small instances before they were proved: those of their runs, for the hash
also with three identifiers, and `EmptySlotRemains` with four on tables of 4 and 8
slots (488645 states up to symmetry); that of the stream with the unwrapped numbers as
history variables, since TLC cannot search for them.

`PacketExecuteQueue_proof`:

* `TypeCorrect`, `StopWakeup`. `StopWakeupNotLost` is not inductive: it needs who
  holds the mutex where (`LockInv`), that the flag is down only between `Stop`'s
  store and the next `Start` (`LifecycleInv`), and, for the types, that the worker
  has a packet exactly while it processes it (`HandInv`). Together: `ControlInv`.
* `StopDrainsQueue` adds `DrainInv`: a packet that was due is never out of sight
  of queue, hand and history, and none is left when the worker has returned.
* `QuietQueue`: from `LifecycleInv`, no worker exists in that phase.
* `QueueImplementsService`: each action is an action of the service or a stutter,
  under the invariants above; `StopJoin` needs `DrainInv` to be a `Halt`.
* `OrderKept`, `AllAccounted`: the line of a producer (executed, in hand, queued)
  is an increasing sequence that holds, with what is gone, exactly `1..sent`;
  each action appends to it, moves the border in it, or takes one out of it.

`RingBuffer_proof`:

* `RingTypeCorrect`, `RingFlag`: inductive with the types.
* `RingImplementsByteQueue`, for a strict caller. The contents are read as
  a run of bytes from the read position around the array; lemmas say
  how storing, skipping and advancing change such a run (arithmetic modulo the
  capacity). `LoopInv` says how far the loop in progress has come. While
  `Write` runs, its bytes are not yet visible; while `Read` runs, what it took
  still is; so only the return of a call is a step of `ByteQueue`.

`SessionBase_proof`:

* `SessionTypeCorrect`, `SessionOneWriter`. The strengthening is `EmptyWrites`:
  only empty packets get to `async_write`, so a completion always goes on to
  `WriteAsync` with the flag raised.
* `SessionBacklog`: the backlog is counted as the cardinality of the set of places
  in the send queues (`Queued`), which grows or shrinks by one place a step, as
  the set of threads on their way to `try_dequeue` does. `CountInv` adds that both
  sets are finite, which holds for any set of senders.
* `SessionNeverWrites` is inductive with `CountInv`: as long as nothing failed, the
  equation of `BacklogConserved` says that a thread about to dequeue has a packet
  to dequeue (`DequeueFindsPacket`), so `async_write` is never reached.

`Connections_proof`, of the acceptor:

* `AcceptorTypeCorrect`, `AcceptorListens`, `AcceptorLateSessions`. The second needs
  `ChainInv`: until `Stop` has come each `Start` has its chain, so that the starts
  are the accepts under way, the sockets waiting for their handler, the threads on
  their way to `async_accept` and the chains that a failed accept or a throwing
  factory has ended. The last needs
  `ClosedInv`: nothing is under way on a closed acceptor, and the late sessions
  together with the sockets still waiting are no more than those waiting at the
  close.

and of the session manager:

* `TypeCorrect`, `MutualExclusion`, `Refinement`. The inductive invariant is `IInv`:
  the types, `LockInv` (a thread is past its lock exactly while it holds the
  mutex), `CallInv` (what it was called for) and `WalkInv` (what a `FuncToAll` has
  passed on is what the map holds, but for what it has yet to come to). Mutual
  exclusion keeps the map still during a walk, which makes `WalkInv` inductive and
  the return of `FuncToAll` a `Walk` of the directory.

`HandlerManager_proof`:

* `TypeCorrect`, `LiveServices`, `SessionAlive`, `RightSession`, `Served`. The
  inductive invariant ties the parts together: `LifeInv` (which services and
  members exist where `main` is), `WorkInv` (the worker is in `ProcessPacket`
  exactly while the queue has a packet in hand, and only before the join),
  `DirectoryInv` (the directory holds live sessions under their own identifiers),
  `FoundInv` and `PacketInv` (what the worker has found fits the packet in hand),
  `AccountInv` (each packet sent is executed, in hand, waiting or gone) and
  `ServedInv` (an executed echo request of a session that was never displaced was
  handled). `Served` follows because the join waits for an empty queue.

`TryDequeue_proof`:

* `WalkNothingMeansEmpty`, `WalkSeenIsServed`. The inductive invariant is `WalkInv`.
  Its heart is `LoneInv`: while a call overlaps no other consumer's, streams only
  grow, so the stream it took for the best keeps what it had; and as long as the
  walk has met no element there is one in a stream it has yet to come to
  (`SomeAhead`), unless the queue was empty at a moment of the call. A stream
  added behind the walk's back does no harm, since it is empty when it is added
  (`UnmadeEmpty`) and what is put into it later leaves the moment noted.

`ImplicitProducerHash_proof`:

* `HashTypeCorrect`, `HashFindsOwnStream`, `HashStreamNotShared`. The inductive
  invariant is `HashInv`. `EntryInv` says that no thread is in a table twice, that
  every entry can be reached from the first slot of its thread without passing an
  empty one, and that it holds the thread's stream; it survives because no slot
  becomes empty again (`TablesKept`), so a search gets as far as it got before
  (`ClearKept`). `ThreadInv` says which tables have a thread, by where it is in a
  call, and that the slot it tries next is one its own search would come to, also
  after it has gone round the table (`WalkGoesOn`). `StreamInv` keeps each stream in
  one hand. `CountInv` says that the count covers at least the threads that have
  counted themselves in, so that none of them takes it below zero.
* `HashSlotRemains`: as long as no thread has ended every table keeps an empty slot,
  so that every search ends (`EmptySlotRemains`). The count alone does not say so:
  threads hold old tables, move to a new one without being counted, and take back
  their count when memory fails, so that what a thread counted on its way in may be
  more than the count is now. `RoomInv` adds to `HashInv` that the threads which are
  counted can be given numbers (`Seated`): each one of its own, within the count, no
  higher than what the thread counted (`newCount`), and below three quarters of each
  table that it is in or about to be entered in (`Fits`). A thread that counts itself
  in gets the new highest number (`CountsSeats`); where one takes its count back,
  the thread with the highest number gets the one it leaves, which is lower
  (`FailureSeats`); one that passes the test against three quarters of its table
  passes it with its number (`OtherSeats`); one that moves finds a table that is no
  smaller (`OlderSeats`, `GrowInv`), for which whoever resizes must know the main
  table (`ResizeInv`). A full table would seat as many threads as it has slots on
  fewer numbers (`SeatsLeft`). `hash_fills` shows that the condition is needed.
* The lemmas underneath: a set of naturals has a least element, from which `Min`,
  `Max` and every induction of the module follow (`LeastNumber`); a search finds a
  thread in a table exactly if it is there (`SearchFinds`) and in the newest table
  that has it (`ChainSearch`); the doubling of `NewCapacity` gets past the count, as
  `pow2[n] > n` (`PowerOfTwo`, `PowerIsLarge`).

`ImplicitProducer_proof`:

* `StreamInvHolds`, and from it `TypeOKHolds`, `LookupFindsBlockHolds`,
  `NoBlockLeaksHolds` and `QuietStreamServesHolds`. The indices wrap around, and
  nothing about them is inductive as remainders. `StreamInv` therefore says that
  there are numbers which never wrap and of which the program's variables are the
  remainders, and what holds of those. Two layers of it are preserved one after
  the other.
* `CountersInv` has the numbers `T` and `H` of `tailIndex` and `headIndex`, `O` of
  `dequeueOptimisticCount` and `m[c]` of what the consumer `c` computed before it
  looks at the tail again. `O` is what was claimed, plus the overcommit, plus the
  consumers in between. However far the tail moves, the claims made and those that
  the consumers in between will make do not pass it; so a claim is always of a
  published element. The layer keeps the distances below half the period, where
  comparing remainders is comparing numbers (`circular_less_than`).
* `BlocksInv` numbers the blocks: `num[e]` is the number whose key the index entry
  `e` holds, `idx[c]` the index that `c` has claimed, and `a[g]` says at which slot
  the numbers of the ring `g` begin. `NumbersInv`: the numbers in the entries lie in
  a window no longer than the current ring, each in its own slot. `RingsInv`: every
  older ring is part of the current one modulo its own capacity, which is why a
  consumer may look up its block in a ring that has been replaced, with a tail and
  a key that are out of date. `HolderInv` says what a consumer has found, step by
  step of the lookup; `ListedInv` counts the elements read of each listed block;
  `OwnersInv` gives each block to exactly one of the free list, an entry, the
  producer or the consumer that gives it back.
* The rotation in `new_block_index` is the hardest step (`GrowBlocks`): the old ring
  is copied oldest entry first, so that the numbers in it keep their order and the
  slots that are new continue them.
* `StreamImplementsLine`: the refinement of `Stream`. The line is the run of numbers
  from `H` to `T` (`LineIs`), and what a consumer has in hand is the index it has
  claimed, which for one about to read is what the block it found holds there
  (`HandIs`, from `HolderInv`). Publishing appends to the run, claiming takes its
  head, reading delivers; all the work on blocks and indexes is a stutter.

The assumption of that module, `ProducerAssumption`, is what the code's constants
give it: block size and capacities are powers of two, so that they divide the range
of `index_t`; blocks are at most half that range; and no more consumers are between
counting themselves in and out, or have ever been too late, than half that range.
The last is the bound `MaxOvercommit`, the one thing that the code leaves to the
width of `size_t`.

Only model-checked: the liveness properties (`StopReturns`,
`NextEnqueueRecovers`, `FlagReleased`, `StopEndsAccepts`, `CallsReturn`, `MainEnds`,
`GetReturns`), which are outside TLAPS's reach. Every invariant, action property
and refinement that a passing run checks is proved, and `EmptySlotRemains`.

## 5. Not modelled

`PROJECT.json` lists every component with its status. The receiving side of
`SessionBase` has no state changes, `PacketDispatcher` is instantiated nowhere.
FlatBuffers, packet contents, logging and the planned phases of
`doc/development-overview.md` are left out. `PacketItem`'s unowned payload, a
second `Start` of a running queue and an advance by zero are listed as hazards
without a property, each with the reason.

Of the concurrent queue the free list of blocks, tokens and explicit producers,
the bulk operations, move, swap and destruction are not modelled, nor are memory
orders weaker than sequential consistency. asio, catch2 and FlatBuffers are
vendored and modelled only where the code uses them (external definitions).

## 6. Plan

1. Done: every component of the server that changes state, the composition of
   handler manager, execute queue and session manager, and the part of the
   lock-free queue that the server runs.
2. Done: proofs of every safety property that the runs check, and of the four
   refinements.
3. When the repository gets code that fills a `PacketItem`: the receiving side,
   with the receive buffer's life against the queue's.
