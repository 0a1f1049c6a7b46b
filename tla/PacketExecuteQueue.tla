-------------------------- MODULE PacketExecuteQueue --------------------------
(***************************************************************************)
(* core::PacketExecuteQueue: threads hand packets to Enqueue, one worker   *)
(* thread (Run, ProcessPackets) hands them to the processor, and the owner *)
(* (HandlerManager) calls SetProcessor, Start and Stop.                    *)
(*                                                                         *)
(* A step is what a thread does between two points where another thread    *)
(* can observe it: a lock or unlock of _mutex, a call of the lock-free     *)
(* queue, a notify, falling asleep in _cv.wait, the processor's call.      *)
(* Packets are numbered per producer: <<p, n>> is the n-th packet that     *)
(* producer p passes to Enqueue.                                           *)
(***************************************************************************)
EXTENDS ConcurrentQueue, Integers, Functions

CONSTANTS
    Producers,         \* threads that call Enqueue
    MaxPackets,        \* the largest number of a packet
    Quota,             \* bound: packets each producer passes to Enqueue
    MaxStarts,         \* bound: calls of Start
    MaxFaults,         \* bound: spurious returns of the condition variable,
                       \* enqueue calls that find no memory and TryDequeue
                       \* calls of other threads, together
    NoItem             \* no packet in the worker's hands

ASSUME QueueAssumption ==
    /\ MaxPackets \in Nat
    /\ Quota \in [Producers -> 0..MaxPackets]
    /\ MaxStarts \in Nat
    /\ MaxFaults \in Nat
    /\ NoItem \notin Producers \X (1..MaxPackets)

VARIABLES
    isRunning,      \* _isRunning
    mutex,          \* _mutex: the thread that holds it
    queue,          \* _queue
    hasProcessor,   \* _processor is not empty
    workerPc,       \* where the worker thread is in Run and ProcessPackets
    current,        \* the local item of ProcessPackets
    ownerPc,        \* where the owner is in Stop
    producerPc,     \* where each producer is in Enqueue
    starts, faults, \* what the bounds count
    sent,           \* history: packets each producer has passed to Enqueue
    executed,       \* history: packets of each producer given to the processor
    gone,           \* history: packets that left without reaching the processor
    due             \* history: packets the last Stop of a running queue found

memberVars == <<isRunning, mutex, queue, hasProcessor>>
boundVars == <<starts, faults>>
historyVars == <<sent, executed, gone, due>>
vars == <<memberVars, workerPc, current, ownerPc, producerPc, boundVars,
          historyVars>>

Packets == 1..MaxPackets
Items == Producers \X Packets
Free == "free"
WorkerPcs == {"none", "lock", "check", "wait", "asleep", "woken", "decide",
              "pending", "dequeue", "process", "catch", "done"}
OwnerPcs == {"idle", "stopLock", "stopStore", "stopNotify", "stopJoin"}

(* The packets that are in the queue or in the worker's hands. *)
Unfinished ==
    {x \in Items : x = current \/ x[2] \in Range(queue[x[1]])}

(* PacketExecuteQueue::HasPending *)
HasPending == NonEmpty(queue)

(* _cv.notify_one and _cv.notify_all: only the worker ever waits on _cv, so *)
(* both wake it if it is asleep and are lost otherwise.                     *)
Notify == workerPc' = IF workerPc = "asleep" THEN "woken" ELSE workerPc

-----------------------------------------------------------------------------

(* The constructor. *)
Init ==
    /\ isRunning = FALSE
    /\ mutex = Free
    /\ queue = EmptyQueue(Producers)
    /\ hasProcessor = FALSE
    /\ workerPc = "none"
    /\ current = NoItem
    /\ ownerPc = "idle"
    /\ producerPc = [p \in Producers |-> "idle"]
    /\ starts = 0 /\ faults = 0
    /\ sent = [p \in Producers |-> 0]
    /\ executed = [p \in Producers |-> <<>>]
    /\ gone = [p \in Producers |-> {}]
    /\ due = {}

-----------------------------------------------------------------------------
(* The owner.  It calls SetProcessor and Start only while no worker thread *)
(* exists, as HandlerManager does; Stop it may call at any time.           *)

SetProcessor ==
    /\ ownerPc = "idle" /\ workerPc = "none"
    /\ ~hasProcessor
    /\ hasProcessor' = TRUE
    /\ UNCHANGED <<isRunning, mutex, queue, workerPc, current, ownerPc,
                   producerPc, boundVars, historyVars>>

(* Mutant: Start empties the queue it finds. *)
Start_Clears ==
    /\ ownerPc = "idle" /\ workerPc = "none"
    /\ starts < MaxStarts
    /\ starts' = starts + 1
    /\ isRunning' = TRUE
    /\ queue' = EmptyQueue(Producers)
    /\ workerPc' = "lock"
    /\ UNCHANGED <<mutex, hasProcessor, current, ownerPc, producerPc,
                   faults, historyVars>>

Start ==
    /\ ownerPc = "idle" /\ workerPc = "none"
    /\ starts < MaxStarts
    /\ starts' = starts + 1
    /\ isRunning' = TRUE
    /\ workerPc' = "lock"
    /\ UNCHANGED <<mutex, queue, hasProcessor, current, ownerPc, producerPc,
                   faults, historyVars>>

(* Stop is called, by the owner or by a destructor. *)
StopCall ==
    /\ ownerPc = "idle"
    /\ ownerPc' = "stopLock"
    /\ UNCHANGED <<memberVars, workerPc, current, producerPc, boundVars,
                   historyVars>>

(* Mutant: Stop clears _isRunning without the mutex. *)
StopLock_Skipped ==
    /\ ownerPc = "stopLock"
    /\ isRunning' = FALSE
    /\ ownerPc' = "stopNotify"
    /\ due' = IF workerPc = "none" THEN due ELSE Unfinished
    /\ UNCHANGED <<mutex, queue, hasProcessor, workerPc, current, producerPc,
                   boundVars, sent, executed, gone>>

(* std::lock_guard lock(_mutex) *)
StopLock ==
    /\ ownerPc = "stopLock"
    /\ mutex = Free
    /\ mutex' = "owner"
    /\ ownerPc' = "stopStore"
    /\ UNCHANGED <<isRunning, queue, hasProcessor, workerPc, current,
                   producerPc, boundVars, historyVars>>

(* Mutant: Stop throws the pending packets away. *)
StopStore_Discards ==
    /\ ownerPc = "stopStore"
    /\ isRunning' = FALSE
    /\ mutex' = Free
    /\ ownerPc' = "stopNotify"
    /\ queue' = EmptyQueue(Producers)
    /\ due' = {}
    /\ UNCHANGED <<hasProcessor, workerPc, current, producerPc, boundVars, sent,
                   executed, gone>>

(* _isRunning = false, and the lock_guard's scope ends. *)
StopStore ==
    /\ ownerPc = "stopStore"
    /\ isRunning' = FALSE
    /\ mutex' = Free
    /\ ownerPc' = "stopNotify"
    /\ due' = IF workerPc = "none" THEN due ELSE Unfinished
    /\ UNCHANGED <<queue, hasProcessor, workerPc, current, producerPc,
                   boundVars, sent, executed, gone>>

(* Mutant: the notify_all is missing. *)
StopNotify_Missing ==
    /\ ownerPc = "stopNotify"
    /\ ownerPc' = "stopJoin"
    /\ UNCHANGED <<memberVars, workerPc, current, producerPc, boundVars,
                   historyVars>>

(* _cv.notify_all() *)
StopNotify ==
    /\ ownerPc = "stopNotify"
    /\ Notify
    /\ ownerPc' = "stopJoin"
    /\ UNCHANGED <<memberVars, current, producerPc, boundVars, historyVars>>

(* Mutant: Stop does not wait for the worker. *)
StopJoin_Detached ==
    /\ ownerPc = "stopJoin"
    /\ ownerPc' = "idle"
    /\ UNCHANGED <<memberVars, workerPc, current, producerPc, boundVars,
                   historyVars>>

(* if (_thread.joinable()) _thread.join() *)
StopJoin ==
    /\ ownerPc = "stopJoin"
    /\ workerPc \in {"none", "done"}
    /\ workerPc' = "none"
    /\ ownerPc' = "idle"
    /\ UNCHANGED <<memberVars, current, producerPc, boundVars, historyVars>>

-----------------------------------------------------------------------------
(* The producers: Enqueue pushes, then notifies, without the mutex. *)

EnqueuePush(p) ==
    /\ producerPc[p] = "idle"
    /\ sent[p] < Quota[p]
    /\ sent' = [sent EXCEPT ![p] = @ + 1]
    /\ queue' = enqueue(queue, p, sent[p] + 1)
    /\ producerPc' = [producerPc EXCEPT ![p] = "notify"]
    /\ UNCHANGED <<isRunning, mutex, hasProcessor, workerPc, current, ownerPc,
                   boundVars, executed, gone, due>>

(* _queue.enqueue finds no memory; Enqueue ignores the false it returns. *)
EnqueueFails(p) ==
    /\ producerPc[p] = "idle"
    /\ sent[p] < Quota[p]
    /\ faults < MaxFaults
    /\ faults' = faults + 1
    /\ sent' = [sent EXCEPT ![p] = @ + 1]
    /\ gone' = [gone EXCEPT ![p] = @ \cup {sent[p] + 1}]
    /\ producerPc' = [producerPc EXCEPT ![p] = "notify"]
    /\ UNCHANGED <<memberVars, workerPc, current, ownerPc, starts,
                   executed, due>>

(* Mutant: Enqueue does not notify. *)
EnqueueNotify_Missing(p) ==
    /\ producerPc[p] = "notify"
    /\ producerPc' = [producerPc EXCEPT ![p] = "idle"]
    /\ UNCHANGED <<memberVars, workerPc, current, ownerPc, boundVars,
                   historyVars>>

EnqueueNotify(p) ==
    /\ producerPc[p] = "notify"
    /\ Notify
    /\ producerPc' = [producerPc EXCEPT ![p] = "idle"]
    /\ UNCHANGED <<memberVars, current, ownerPc, boundVars, historyVars>>

(* Another thread calls the public TryDequeue and gets a packet of p. *)
TryDequeueElsewhere(p) ==
    /\ faults < MaxFaults
    /\ p \in Servable(queue)
    /\ faults' = faults + 1
    /\ queue' = dequeue(queue, p)
    /\ gone' = [gone EXCEPT ![p] = @ \cup {Head(queue[p])}]
    /\ UNCHANGED <<isRunning, mutex, hasProcessor, workerPc, current, ownerPc,
                   producerPc, starts, sent, executed, due>>

-----------------------------------------------------------------------------
(* The worker: Run. *)

(* A step of the worker from one place to another that only moves it. *)
WorkerMoves(from, to) ==
    /\ workerPc = from
    /\ workerPc' = to
    /\ UNCHANGED <<isRunning, queue, hasProcessor, current, ownerPc,
                   producerPc, boundVars, historyVars>>

(* std::unique_lock lock(_mutex) *)
RunLock ==
    /\ mutex = Free
    /\ mutex' = "worker"
    /\ WorkerMoves("lock", "check")

(* The predicate of _cv.wait. *)
WaitCheck ==
    /\ IF ~isRunning \/ HasPending
       THEN WorkerMoves("check", "decide")
       ELSE WorkerMoves("check", "wait")
    /\ UNCHANGED mutex

(* _cv.wait releases the mutex and falls asleep in one step. *)
WaitSleep ==
    /\ mutex' = Free
    /\ WorkerMoves("wait", "asleep")

(* _cv.wait takes the mutex again after a notification. *)
WaitRelock ==
    /\ mutex = Free
    /\ mutex' = "worker"
    /\ WorkerMoves("woken", "check")

SpuriousWakeup ==
    /\ workerPc = "asleep"
    /\ faults < MaxFaults
    /\ faults' = faults + 1
    /\ workerPc' = "woken"
    /\ UNCHANGED <<memberVars, current, ownerPc, producerPc, starts,
                   historyVars>>

(* Mutant: if (!_isRunning) return, with packets still pending. *)
RunReturn_Undrained ==
    /\ ~isRunning
    /\ mutex' = Free
    /\ WorkerMoves("decide", "done")

(* if (!_isRunning && !HasPending()) return; the unique_lock goes with it. *)
RunReturn ==
    /\ ~isRunning /\ ~HasPending
    /\ mutex' = Free
    /\ WorkerMoves("decide", "done")

(* lock.unlock() *)
RunUnlock ==
    /\ isRunning \/ HasPending
    /\ mutex' = Free
    /\ WorkerMoves("decide", "pending")

-----------------------------------------------------------------------------
(* The worker: ProcessPackets, outside the mutex. *)

(* while (HasPending()) *)
ProcessPacketsLoop ==
    /\ IF HasPending
       THEN WorkerMoves("pending", "dequeue")
       ELSE WorkerMoves("pending", "lock")
    /\ UNCHANGED mutex

(* Mutant: TryDequeue takes its argument by value, item stays as it was. *)
DequeueItem_ByValue(p) ==
    /\ workerPc = "dequeue"
    /\ p \in Servable(queue)
    /\ current' = <<p, 0>>
    /\ queue' = dequeue(queue, p)
    /\ workerPc' = "process"
    /\ UNCHANGED <<isRunning, mutex, hasProcessor, ownerPc, producerPc,
                   boundVars, historyVars>>

(* TryDequeue(item) succeeds with a packet of p. *)
DequeueItem(p) ==
    /\ workerPc = "dequeue"
    /\ p \in Servable(queue)
    /\ current' = <<p, Head(queue[p])>>
    /\ queue' = dequeue(queue, p)
    /\ workerPc' = "process"
    /\ UNCHANGED <<isRunning, mutex, hasProcessor, ownerPc, producerPc,
                   boundVars, historyVars>>

(* TryDequeue(item) fails: another thread emptied the queue in between. *)
DequeueNothing ==
    /\ ~HasPending
    /\ WorkerMoves("dequeue", "pending")
    /\ UNCHANGED mutex

(* TryDequeue(item) fails although there are packets: another thread's     *)
(* TryDequeue came too late for an earlier one and has not yet taken back  *)
(* its claim.                                                              *)
DequeueMisses ==
    /\ workerPc = "dequeue"
    /\ faults < MaxFaults
    /\ faults' = faults + 1
    /\ workerPc' = "pending"
    /\ UNCHANGED <<memberVars, current, ownerPc, producerPc, starts,
                   historyVars>>

(* The processor ran on the current packet; where it returned to. *)
ProcessorRan(to) ==
    /\ workerPc = "process"
    /\ hasProcessor
    /\ executed' = [executed EXCEPT ![current[1]] = Append(@, current[2])]
    /\ current' = NoItem
    /\ workerPc' = to
    /\ UNCHANGED <<memberVars, ownerPc, producerPc, boundVars, sent, gone, due>>

ProcessorReturns == ProcessorRan("pending")

(* Mutant: a packet whose processor throws is enqueued again. *)
ProcessorThrows_Retries ==
    /\ workerPc = "process"
    /\ hasProcessor
    /\ queue' = enqueue(queue, current[1], current[2])
    /\ current' = NoItem
    /\ workerPc' = "catch"
    /\ UNCHANGED <<isRunning, mutex, hasProcessor, ownerPc, producerPc,
                   boundVars, historyVars>>

ProcessorThrows == ProcessorRan("catch")

(* Both catch clauses swallow the exception: the worker goes on. *)
CatchException ==
    /\ WorkerMoves("catch", "pending")
    /\ UNCHANGED mutex

(* if (_processor) is false: the packet is dropped. *)
NoProcessor ==
    /\ workerPc = "process"
    /\ ~hasProcessor
    /\ gone' = [gone EXCEPT ![current[1]] = @ \cup {current[2]}]
    /\ current' = NoItem
    /\ workerPc' = "pending"
    /\ UNCHANGED <<memberVars, ownerPc, producerPc, boundVars, sent, executed,
                   due>>

-----------------------------------------------------------------------------

StopSteps == StopLock \/ StopStore \/ StopNotify \/ StopJoin

Owner == SetProcessor \/ Start \/ StopCall \/ StopSteps

Producer(p) ==
    EnqueuePush(p) \/ EnqueueFails(p) \/ EnqueueNotify(p)

(* What the worker thread does by itself, wakeups excluded. *)
Worker ==
    \/ RunLock \/ WaitCheck \/ WaitSleep \/ WaitRelock \/ RunReturn \/ RunUnlock
    \/ ProcessPacketsLoop \/ DequeueNothing \/ DequeueMisses
    \/ \E p \in Producers : DequeueItem(p)
    \/ ProcessorReturns \/ ProcessorThrows \/ CatchException \/ NoProcessor

Next ==
    \/ Owner
    \/ \E p \in Producers : Producer(p) \/ TryDequeueElsewhere(p)
    \/ Worker
    \/ SpuriousWakeup

Spec == Init /\ [][Next]_vars

(* The scheduler runs every thread that can run; the processor returns.  A *)
(* thread need not call Start, Stop or Enqueue, but finishes what it began. *)
Fairness ==
    /\ WF_vars(Worker)
    /\ WF_vars(StopSteps)
    /\ \A p \in Producers : WF_vars(EnqueueNotify(p))

FairSpec == Spec /\ Fairness

-----------------------------------------------------------------------------

(* Every variable of the queue, its threads and the history has its type. *)
TypeOK ==
    /\ isRunning \in BOOLEAN
    /\ mutex \in {Free, "owner", "worker"}
    /\ queue \in [Producers -> Seq(Packets)]
    /\ hasProcessor \in BOOLEAN
    /\ workerPc \in WorkerPcs
    /\ current \in Items \cup {NoItem}
    /\ ownerPc \in OwnerPcs
    /\ producerPc \in [Producers -> {"idle", "notify"}]
    /\ starts \in 0..MaxStarts
    /\ faults \in 0..MaxFaults
    /\ sent \in [Producers -> 0..MaxPackets]
    /\ executed \in [Producers -> Seq(Packets)]
    /\ gone \in [Producers -> SUBSET Packets]
    /\ due \in SUBSET Items

(* The packets of p in the order they were passed to Enqueue: executed, in *)
(* the worker's hands, queued.                                             *)
InHand(p) ==
    IF current # NoItem /\ current[1] = p THEN <<current[2]>> ELSE <<>>
Line(p) == executed[p] \o InHand(p) \o queue[p]

Increasing(s) == \A i, j \in DOMAIN s : i < j => s[i] < s[j]

Finished ==
    {x \in Items : x[2] \in Range(executed[x[1]]) \cup gone[x[1]]}

(* One producer's packets reach the processor in the order of its Enqueue  *)
(* calls and none twice, whatever the worker, the other producers, a       *)
(* restart or an exception of the processor do in between.                 *)
PacketsInOrder == \A p \in Producers : Increasing(Line(p))

(* No packet is lost or invented between Enqueue and the processor: what   *)
(* was passed to Enqueue is queued, in the worker's hands, executed, or    *)
(* gone for a reason Enqueue, TryDequeue or an unset _processor gives.     *)
PacketsAccounted ==
    \A p \in Producers :
        /\ Range(Line(p)) \cup gone[p] = 1..sent[p]
        /\ Range(Line(p)) \cap gone[p] = {}

(* Stop's wakeup cannot be lost: because Stop stores _isRunning under the  *)
(* mutex, a worker that sleeps after the store still has the notify_all    *)
(* ahead of it.                                                            *)
StopWakeupNotLost ==
    workerPc = "asleep" /\ ~isRunning => ownerPc = "stopNotify"

(* What makes the above inductive: who holds the mutex where, ... *)
LockInv ==
    /\ mutex = "worker" <=> workerPc \in {"check", "wait", "decide"}
    /\ mutex = "owner" <=> ownerPc = "stopStore"

(* ... _isRunning is cleared between Stop's store and the next Start, and  *)
(* the worker is only seen to have returned in between, ...                *)
LifecycleInv ==
    /\ isRunning => workerPc \notin {"none", "done"}
    /\ isRunning => ownerPc \notin {"stopNotify", "stopJoin"}
    /\ ~isRunning /\ ownerPc \in {"idle", "stopLock", "stopStore"}
            => workerPc = "none"
    /\ workerPc = "wait" => isRunning

(* ... and the worker has a packet exactly while it processes it. *)
HandInv == current # NoItem <=> workerPc = "process"

ControlInv == LockInv /\ LifecycleInv /\ HandInv /\ StopWakeupNotLost

(* Stop drains: when it has returned, every packet that was in the queue   *)
(* when it cleared _isRunning has been dealt with.                         *)
StopDrains == ownerPc = "idle" => due \subseteq Finished

(* What makes it inductive: a due packet is never out of sight, and while  *)
(* the queue runs or has no live worker none is left.                      *)
DrainInv ==
    /\ due \subseteq Unfinished \cup Finished
    /\ isRunning \/ workerPc \in {"none", "done"} => due \subseteq Finished

(* Between the return of Stop and the next Start no packet is taken or     *)
(* executed: the worker is joined, not merely told to stop.                *)
QuietAfterStop ==
    [][ownerPc = "idle" /\ ~isRunning => UNCHANGED <<current, executed>>]_vars

(* The queue as its callers see it: whether there is a worker, and whether *)
(* it was told to stop.                                                    *)
Phase ==
    IF workerPc = "none" THEN "stopped"
    ELSE IF isRunning THEN "running" ELSE "stopping"

Service == INSTANCE PacketService
    WITH phase <- Phase, pending <- queue, busy <- current

(* The queue with its mutex, its condition variable and its worker thread  *)
(* implements the service of PacketService: every step of a thread is a    *)
(* step of the service or is invisible to its callers.                     *)
ImplementsService == Service!Spec

(* Stop returns, although the worker may be asleep, in the middle of a     *)
(* batch or catching an exception when it is called.  The worker drains    *)
(* before it returns, so this rests on the producers stopping at some time *)
(* (Quota): against an endless stream Stop would wait for ever.            *)
StopReturns == ownerPc = "stopLock" ~> ownerPc = "idle"

(* The damage of a lost notification is bounded: an Enqueue that finds the *)
(* worker asleep gets every packet that was stranded in the queue dealt    *)
(* with, not only its own.                                                 *)
NextEnqueueRecovers ==
    \A p \in Producers, x \in Items :
        (workerPc = "asleep" /\ producerPc[p] = "notify" /\ x \in Unfinished)
            ~> x \in Finished

(* A packet enqueued while the queue runs is executed, or the queue is     *)
(* stopped.                                                                *)
EnqueuedIsExecuted ==
    \A x \in Items :
        (isRunning /\ x \in Unfinished) ~> (~isRunning \/ x \in Finished)

=============================================================================
