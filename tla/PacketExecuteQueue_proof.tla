------------------------ MODULE PacketExecuteQueue_proof ------------------------
(***************************************************************************)
(* TLAPS proofs about PacketExecuteQueue, for any set of producers and any *)
(* bounds.                                                                 *)
(***************************************************************************)
EXTENDS PacketExecuteQueue, SequenceTheorems, TLAPS

-----------------------------------------------------------------------------
(* What joining a line at its end and leaving it at its head does to the   *)
(* elements of the line.                                                   *)

(* Appending adds exactly the new element at the end. *)
LEMMA AppendElements ==
    ASSUME NEW S, NEW s \in Seq(S), NEW x \in S
    PROVE  /\ Append(s, x) \in Seq(S)
           /\ Range(Append(s, x)) = Range(s) \cup {x}
<1>1. /\ Append(s, x) \in Seq(S)
      /\ Len(Append(s, x)) = Len(s) + 1
      /\ \A i \in 1..Len(s) : Append(s, x)[i] = s[i]
      /\ Append(s, x)[Len(s) + 1] = x
  OBVIOUS
<1>2. /\ DOMAIN s = 1..Len(s)
      /\ DOMAIN Append(s, x) = 1..(Len(s) + 1)
      /\ Len(s) \in Nat
  BY <1>1
<1>3. QED
  BY <1>1, <1>2 DEF Range

(* The elements of a non-empty sequence are its head and those of its tail. *)
LEMMA TailElements ==
    ASSUME NEW S, NEW s \in Seq(S), s # <<>>
    PROVE  /\ Head(s) \in S
           /\ Tail(s) \in Seq(S)
           /\ Range(s) = {Head(s)} \cup Range(Tail(s))
<1>1. /\ Len(s) \in Nat \ {0}
      /\ DOMAIN s = 1..Len(s)
      /\ Head(s) = s[1]
      /\ Tail(s) \in Seq(S)
      /\ Len(Tail(s)) = Len(s) - 1
      /\ DOMAIN Tail(s) = 1..(Len(s) - 1)
      /\ \A i \in 1..(Len(s) - 1) : Tail(s)[i] = s[i + 1]
  OBVIOUS
<1>2. ASSUME NEW i \in DOMAIN s
      PROVE  s[i] = Head(s) \/ s[i] \in Range(Tail(s))
  <2>1. CASE i = 1 BY <1>1, <2>1
  <2>2. CASE i # 1
    <3>1. i - 1 \in DOMAIN Tail(s) /\ s[i] = Tail(s)[i - 1] BY <1>1, <1>2, <2>2
    <3>2. QED BY <3>1 DEF Range
  <2>3. QED BY <2>1, <2>2
<1>3. ASSUME NEW i \in DOMAIN Tail(s)
      PROVE  Tail(s)[i] \in Range(s)
  <2>1. i + 1 \in DOMAIN s /\ Tail(s)[i] = s[i + 1] BY <1>1, <1>3
  <2>2. QED BY <2>1 DEF Range
<1>4. Head(s) \in S /\ Head(s) \in Range(s) BY <1>1 DEF Range
<1>5. QED BY <1>1, <1>2, <1>3, <1>4 DEF Range

-----------------------------------------------------------------------------
(* Type correctness. *)

LEMMA QueueTypes ==
    ASSUME TypeOK, NEW p \in Producers
    PROVE  /\ queue[p] \in Seq(Packets)
           /\ executed[p] \in Seq(Packets)
           /\ gone[p] \subseteq Packets
           /\ sent[p] \in 0..MaxPackets
           /\ sent[p] < Quota[p] => sent[p] < MaxPackets
           /\ sent[p] < Quota[p] => sent[p] + 1 \in Packets
BY QueueAssumption DEF TypeOK, Packets

LEMMA InitType == Init => TypeOK
<1> SUFFICES ASSUME Init PROVE TypeOK
  OBVIOUS
<1>1. queue \in [Producers -> Seq(Packets)]
  BY DEF Init, EmptyQueue
<1>2. executed \in [Producers -> Seq(Packets)]
  BY DEF Init
<1>3. gone \in [Producers -> SUBSET Packets]
  BY DEF Init
<1>4. /\ starts \in 0..MaxStarts
      /\ faults \in 0..MaxFaults
      /\ sent \in [Producers -> 0..MaxPackets]
  BY QueueAssumption DEF Init
<1>5. QED
  BY <1>1, <1>2, <1>3, <1>4 DEF Init, TypeOK, Free, WorkerPcs, OwnerPcs

LEMMA NextType == TypeOK /\ HandInv /\ [Next]_vars => TypeOK'
<1> SUFFICES ASSUME TypeOK, HandInv, [Next]_vars PROVE TypeOK'
  OBVIOUS
<1> USE QueueAssumption DEF TypeOK, memberVars, boundVars, historyVars
<1>1. CASE Owner
  <2>1. CASE SetProcessor BY <2>1 DEF SetProcessor
  <2>2. CASE Start BY <2>2 DEF Start, WorkerPcs
  <2>3. CASE StopCall BY <2>3 DEF StopCall, OwnerPcs
  <2>4. CASE StopLock BY <2>4 DEF StopLock, OwnerPcs
  <2>5. CASE StopStore BY <2>5 DEF StopStore, OwnerPcs, Unfinished, Free
  <2>6. CASE StopNotify BY <2>6 DEF StopNotify, Notify, OwnerPcs, WorkerPcs
  <2>7. CASE StopJoin BY <2>7 DEF StopJoin, OwnerPcs, WorkerPcs
  <2>8. QED
    BY <1>1, <2>1, <2>2, <2>3, <2>4, <2>5, <2>6, <2>7 DEF Owner, StopSteps
<1>2. ASSUME NEW p \in Producers, EnqueuePush(p) PROVE TypeOK'
  <2>1. Append(queue[p], sent[p] + 1) \in Seq(Packets)
    BY <1>2, QueueTypes, AppendElements DEF EnqueuePush
  <2>2. queue' \in [Producers -> Seq(Packets)]
    BY <1>2, <2>1 DEF EnqueuePush, enqueue
  <2>3. QED BY <1>2, <2>2 DEF EnqueuePush
<1>3. ASSUME NEW p \in Producers, EnqueueFails(p) PROVE TypeOK'
  <2>1. gone' \in [Producers -> SUBSET Packets]
    BY <1>3, QueueTypes DEF EnqueueFails
  <2>2. QED BY <1>3, <2>1 DEF EnqueueFails
<1>4. ASSUME NEW p \in Producers, EnqueueNotify(p) PROVE TypeOK'
  BY <1>4 DEF EnqueueNotify, Notify, WorkerPcs
<1>5. ASSUME NEW p \in Producers, p \in Servable(queue)
      PROVE  /\ Head(queue[p]) \in Packets
             /\ dequeue(queue, p) \in [Producers -> Seq(Packets)]
  <2>1. queue[p] # <<>> BY <1>5 DEF Servable
  <2>2. Head(queue[p]) \in Packets /\ Tail(queue[p]) \in Seq(Packets)
    BY <2>1, QueueTypes, TailElements
  <2>3. QED BY <2>2 DEF dequeue
<1>6. ASSUME NEW p \in Producers, TryDequeueElsewhere(p) PROVE TypeOK'
  <2>1. Head(queue[p]) \in Packets /\ queue' \in [Producers -> Seq(Packets)]
    BY <1>5, <1>6 DEF TryDequeueElsewhere
  <2>2. gone' \in [Producers -> SUBSET Packets]
    BY <1>6, <2>1, QueueTypes DEF TryDequeueElsewhere
  <2>3. QED BY <1>6, <2>1, <2>2 DEF TryDequeueElsewhere
<1>7. CASE \/ RunLock \/ WaitCheck \/ WaitSleep \/ WaitRelock \/ RunReturn
           \/ RunUnlock \/ ProcessPacketsLoop \/ DequeueNothing \/ DequeueMisses
           \/ CatchException \/ SpuriousWakeup
  BY <1>7 DEF RunLock, WaitCheck, WaitSleep, WaitRelock, RunReturn, RunUnlock,
     ProcessPacketsLoop, DequeueNothing, DequeueMisses, CatchException, SpuriousWakeup,
     WorkerMoves, WorkerPcs, Free
<1>8. ASSUME NEW p \in Producers, DequeueItem(p) PROVE TypeOK'
  <2>1. Head(queue[p]) \in Packets /\ queue' \in [Producers -> Seq(Packets)]
    BY <1>5, <1>8 DEF DequeueItem
  <2>2. current' \in Items BY <1>8, <2>1 DEF DequeueItem, Items
  <2>3. QED BY <1>8, <2>1, <2>2 DEF DequeueItem, WorkerPcs
<1>9. ASSUME \/ \E to \in {"pending", "catch"} : ProcessorRan(to)
             \/ NoProcessor
      PROVE  TypeOK'
  <2>1. current \in Items
    BY <1>9 DEF ProcessorRan, NoProcessor, HandInv
  <2>2. PICK p \in Producers, n \in Packets : current = <<p, n>>
    BY <2>1 DEF Items
  <2>3. CASE \E to \in {"pending", "catch"} : ProcessorRan(to)
    <3>1. Append(executed[p], n) \in Seq(Packets)
      BY QueueTypes, AppendElements
    <3>2. executed' \in [Producers -> Seq(Packets)]
      BY <2>2, <2>3, <3>1 DEF ProcessorRan
    <3>3. QED BY <2>3, <3>2 DEF ProcessorRan, WorkerPcs
  <2>4. CASE NoProcessor
    <3>1. gone' \in [Producers -> SUBSET Packets]
      BY <2>2, <2>4, QueueTypes DEF NoProcessor
    <3>2. QED BY <2>4, <3>1 DEF NoProcessor, WorkerPcs
  <2>5. QED BY <1>9, <2>3, <2>4
<1>10. CASE UNCHANGED vars BY <1>10 DEF vars
<1>11. QED
  BY <1>1, <1>2, <1>3, <1>4, <1>6, <1>7, <1>8, <1>9, <1>10
  DEF Next, Producer, Worker, ProcessorReturns, ProcessorThrows

-----------------------------------------------------------------------------
(* Control: the mutex, the life of the worker thread, the wakeup of Stop. *)

LEMMA InitControl == Init => ControlInv
BY DEF Init, ControlInv, LockInv, LifecycleInv, HandInv, StopWakeupNotLost, Free

LEMMA NextControl == TypeOK /\ ControlInv /\ [Next]_vars => ControlInv'
<1> SUFFICES ASSUME TypeOK, ControlInv, [Next]_vars PROVE ControlInv'
  OBVIOUS
<1> USE DEF ControlInv, LockInv, LifecycleInv, HandInv, StopWakeupNotLost,
            memberVars, boundVars, historyVars, Free
<1>1. CASE Owner
  <2>1. CASE SetProcessor BY <2>1 DEF SetProcessor
  <2>2. CASE Start BY <2>2 DEF Start
  <2>3. CASE StopCall BY <2>3 DEF StopCall
  <2>4. CASE StopLock BY <2>4 DEF StopLock
  <2>5. CASE StopStore BY <2>5 DEF StopStore
  <2>6. CASE StopNotify BY <2>6 DEF StopNotify, Notify
  <2>7. CASE StopJoin BY <2>7 DEF StopJoin
  <2>8. QED
    BY <1>1, <2>1, <2>2, <2>3, <2>4, <2>5, <2>6, <2>7 DEF Owner, StopSteps
<1>2. ASSUME NEW p \in Producers, Producer(p) \/ TryDequeueElsewhere(p)
      PROVE  ControlInv'
  BY <1>2 DEF Producer, EnqueuePush, EnqueueFails, EnqueueNotify,
              TryDequeueElsewhere, Notify
<1>3. CASE RunLock BY <1>3 DEF RunLock, WorkerMoves
<1>4. CASE WaitCheck BY <1>4 DEF WaitCheck, WorkerMoves
<1>5. CASE WaitSleep BY <1>5 DEF WaitSleep, WorkerMoves
<1>6. CASE WaitRelock BY <1>6 DEF WaitRelock, WorkerMoves
<1>7. CASE RunReturn BY <1>7 DEF RunReturn, WorkerMoves
<1>8. CASE RunUnlock BY <1>8 DEF RunUnlock, WorkerMoves
<1>9. CASE ProcessPacketsLoop \/ DequeueNothing \/ DequeueMisses \/ CatchException
  BY <1>9 DEF ProcessPacketsLoop, DequeueNothing, DequeueMisses, CatchException, WorkerMoves
<1>10. ASSUME NEW p \in Producers, DequeueItem(p) PROVE ControlInv'
  <2>1. Head(queue[p]) \in Packets
    BY <1>10, QueueTypes, TailElements DEF DequeueItem, Servable
  <2>2. current' # NoItem
    BY <1>10, <2>1, QueueAssumption DEF DequeueItem, Packets
  <2>3. QED BY <1>10, <2>2 DEF DequeueItem
<1>11. CASE ProcessorReturns \/ ProcessorThrows \/ NoProcessor
  BY <1>11 DEF ProcessorReturns, ProcessorThrows, ProcessorRan, NoProcessor
<1>12. CASE SpuriousWakeup BY <1>12 DEF SpuriousWakeup
<1>13. CASE UNCHANGED vars BY <1>13 DEF vars
<1>14. QED
  BY <1>1, <1>2, <1>3, <1>4, <1>5, <1>6, <1>7, <1>8, <1>9, <1>10, <1>11, <1>12,
     <1>13
  DEF Next, Worker

(* The state of the queue is always well formed: in particular the worker  *)
(* only ever holds a packet that a producer enqueued.                      *)
THEOREM TypeCorrect == Spec => []TypeOK
<1>1. TypeOK /\ ControlInv /\ [Next]_vars => (TypeOK /\ ControlInv)'
  BY NextType, NextControl DEF ControlInv
<1>2. QED BY InitType, InitControl, <1>1, PTL DEF Spec

(* The notify_all of Stop reaches a worker that is asleep, because Stop    *)
(* clears _isRunning under the mutex.                                      *)
THEOREM StopWakeup == Spec => []StopWakeupNotLost
<1>1. TypeOK /\ ControlInv /\ [Next]_vars => (TypeOK /\ ControlInv)'
  BY NextType, NextControl DEF ControlInv
<1>2. ControlInv => StopWakeupNotLost
  BY DEF ControlInv
<1>3. QED BY InitType, InitControl, <1>1, <1>2, PTL DEF Spec

-----------------------------------------------------------------------------
(* Draining: no step loses sight of a packet. *)

(* A dequeue takes exactly the head of one stream. *)
LEMMA DequeueElements ==
    ASSUME TypeOK, NEW p \in Servable(queue), p \in Producers
    PROVE  /\ Head(queue[p]) \in Packets
           /\ \A r \in Producers : r # p => dequeue(queue, p)[r] = queue[r]
           /\ Range(queue[p]) = {Head(queue[p])} \cup Range(dequeue(queue, p)[p])
<1>1. queue[p] \in Seq(Packets) /\ queue[p] # <<>> BY QueueTypes DEF Servable
<1>2. /\ dequeue(queue, p)[p] = Tail(queue[p])
      /\ \A r \in Producers : r # p => dequeue(queue, p)[r] = queue[r]
  BY DEF dequeue, TypeOK
<1>3. QED BY <1>1, <1>2, TailElements

LEMMA Remembers ==
    ASSUME TypeOK, HandInv, [Next]_vars
    PROVE  /\ Finished \subseteq Finished'
           /\ Unfinished \subseteq Unfinished' \cup Finished'
<1> DEFINE Goal == /\ Finished \subseteq Finished'
                   /\ Unfinished \subseteq Unfinished' \cup Finished'
<1>1. ASSUME UNCHANGED <<queue, current, executed, gone>> PROVE Goal
  BY <1>1 DEF Unfinished, Finished
<1>2. CASE Owner
  BY <1>1, <1>2 DEF Owner, StopSteps, SetProcessor, Start, StopCall, StopLock,
     StopStore, StopNotify, StopJoin, memberVars, historyVars
<1>3. ASSUME NEW p \in Producers, EnqueuePush(p) PROVE Goal
  <2>1. /\ queue[p] \in Seq(Packets) /\ sent[p] + 1 \in Packets
    BY <1>3, QueueTypes DEF EnqueuePush
  <2>2. Range(queue[p]) \subseteq Range(Append(queue[p], sent[p] + 1))
    BY <2>1, AppendElements
  <2>3. \A r \in Producers : Range(queue[r]) \subseteq Range(queue'[r])
    <3>1. queue'[p] = Append(queue[p], sent[p] + 1)
      BY <1>3 DEF EnqueuePush, enqueue, TypeOK
    <3>2. \A r \in Producers : r # p => queue'[r] = queue[r]
      BY <1>3 DEF EnqueuePush, enqueue, TypeOK
    <3>3. QED BY <2>2, <3>1, <3>2
  <2>4. current' = current /\ executed' = executed /\ gone' = gone
    BY <1>3 DEF EnqueuePush
  <2>5. QED BY <2>3, <2>4 DEF Unfinished, Finished, Items
<1>4. ASSUME NEW p \in Producers, EnqueueFails(p) PROVE Goal
  <2>1. /\ queue' = queue /\ current' = current /\ executed' = executed
        /\ \A r \in Producers : gone[r] \subseteq gone'[r]
    BY <1>4 DEF EnqueueFails, memberVars, TypeOK
  <2>2. QED BY <2>1 DEF Unfinished, Finished, Items
<1>5. ASSUME NEW p \in Producers, EnqueueNotify(p) PROVE Goal
  BY <1>1, <1>5 DEF EnqueueNotify, memberVars, historyVars
<1>6. ASSUME NEW p \in Producers, TryDequeueElsewhere(p) PROVE Goal
  <2>1. /\ p \in Servable(queue) /\ queue' = dequeue(queue, p)
        /\ current' = current /\ executed' = executed
        /\ gone' = [gone EXCEPT ![p] = @ \cup {Head(queue[p])}]
    BY <1>6 DEF TryDequeueElsewhere
  <2>2. /\ gone'[p] = gone[p] \cup {Head(queue[p])}
        /\ \A r \in Producers : r # p => gone'[r] = gone[r]
    BY <2>1 DEF TypeOK
  <2>3. Finished \subseteq Finished'
    BY <2>1, <2>2 DEF Finished, Items
  <2>4. ASSUME NEW x \in Unfinished PROVE x \in Unfinished' \cup Finished'
    <3>1. PICK r \in Producers, n \in Packets : x = <<r, n>>
      BY DEF Unfinished, Items
    <3>2. x \in Items /\ x[1] = r /\ x[2] = n BY <3>1 DEF Items
    <3>3. CASE x = current BY <2>1, <3>2, <3>3 DEF Unfinished
    <3>4. CASE n \in Range(queue[r])
      <4>1. n \in Range(queue'[r]) \/ n \in gone'[r]
        BY <2>1, <2>2, <3>4, DequeueElements
      <4>2. QED BY <3>2, <4>1 DEF Unfinished, Finished
    <3>5. QED BY <3>2, <3>3, <3>4 DEF Unfinished
  <2>5. QED BY <2>3, <2>4
<1>7. CASE \/ RunLock \/ WaitCheck \/ WaitSleep \/ WaitRelock \/ RunReturn
           \/ RunUnlock \/ ProcessPacketsLoop \/ DequeueNothing \/ DequeueMisses
           \/ CatchException \/ SpuriousWakeup
  BY <1>1, <1>7 DEF RunLock, WaitCheck, WaitSleep, WaitRelock, RunReturn,
     RunUnlock, ProcessPacketsLoop, DequeueNothing, DequeueMisses, CatchException,
     SpuriousWakeup, WorkerMoves, memberVars, historyVars
<1>8. ASSUME NEW p \in Producers, DequeueItem(p) PROVE Goal
  <2>1. /\ p \in Servable(queue) /\ queue' = dequeue(queue, p)
        /\ current = NoItem /\ current' = <<p, Head(queue[p])>>
        /\ executed' = executed /\ gone' = gone
    BY <1>8 DEF DequeueItem, historyVars, HandInv
  <2>2. Finished \subseteq Finished' BY <2>1 DEF Finished
  <2>3. ASSUME NEW x \in Unfinished PROVE x \in Unfinished'
    <3>1. PICK r \in Producers, n \in Packets : x = <<r, n>>
      BY DEF Unfinished, Items
    <3>2. x \in Items /\ x[1] = r /\ x[2] = n BY <3>1 DEF Items
    <3>3. x # current BY <2>1, <3>2, QueueAssumption DEF Items, Packets
    <3>4. n \in Range(queue[r]) BY <3>2, <3>3 DEF Unfinished
    <3>5. n \in Range(queue'[r]) \/ x = current'
      BY <2>1, <3>1, <3>4, DequeueElements
    <3>6. QED BY <3>2, <3>5 DEF Unfinished
  <2>4. QED BY <2>2, <2>3
<1>9. ASSUME \/ \E to \in {"pending", "catch"} : ProcessorRan(to)
             \/ NoProcessor
      PROVE  Goal
  <2>1. current \in Items /\ queue' = queue /\ current' = NoItem
    BY <1>9 DEF ProcessorRan, NoProcessor, HandInv, memberVars, TypeOK
  <2>2. PICK p \in Producers, n \in Packets : current = <<p, n>>
    BY <2>1 DEF Items
  <2>3. /\ \A r \in Producers : Range(executed[r]) \subseteq Range(executed'[r])
        /\ \A r \in Producers : gone[r] \subseteq gone'[r]
        /\ n \in Range(executed'[p]) \cup gone'[p]
    <3>1. CASE \E to \in {"pending", "catch"} : ProcessorRan(to)
      <4>1. Range(Append(executed[p], n)) = Range(executed[p]) \cup {n}
        BY QueueTypes, AppendElements
      <4>2. /\ executed'[p] = Append(executed[p], n)
            /\ \A r \in Producers : r # p => executed'[r] = executed[r]
            /\ gone' = gone
        BY <2>2, <3>1 DEF ProcessorRan, TypeOK
      <4>3. QED BY <4>1, <4>2
    <3>2. CASE NoProcessor
      BY <2>2, <3>2 DEF NoProcessor, TypeOK
    <3>3. QED BY <1>9, <3>1, <3>2
  <2>4. Finished \subseteq Finished' BY <2>3 DEF Finished, Items
  <2>5. ASSUME NEW x \in Unfinished PROVE x \in Unfinished' \cup Finished'
    <3>1. CASE x = current
      BY <2>1, <2>2, <2>3, <3>1 DEF Finished
    <3>2. CASE x # current BY <2>1, <3>2 DEF Unfinished
    <3>3. QED BY <3>1, <3>2
  <2>6. QED BY <2>4, <2>5
<1>10. CASE UNCHANGED vars
  BY <1>1, <1>10 DEF vars, memberVars, historyVars
<1>11. QED
  BY <1>2, <1>3, <1>4, <1>5, <1>6, <1>7, <1>8, <1>9, <1>10
  DEF Next, Producer, Worker, ProcessorReturns, ProcessorThrows

(* Everything a step needs to know about the state it starts from. *)
QueueInv == TypeOK /\ ControlInv /\ DrainInv

LEMMA InitDrain == Init => DrainInv
BY DEF Init, DrainInv

LEMMA NextDrain == QueueInv /\ [Next]_vars => DrainInv'
<1> SUFFICES ASSUME TypeOK, ControlInv, DrainInv, [Next]_vars PROVE DrainInv'
  BY DEF QueueInv
<1>1. /\ Finished \subseteq Finished'
      /\ Unfinished \subseteq Unfinished' \cup Finished'
  BY Remembers DEF ControlInv
<1> DEFINE Settled == isRunning \/ workerPc \in {"none", "done"}
<1>2. /\ due \subseteq Unfinished \cup Finished
      /\ Settled => due \subseteq Finished
  BY DEF DrainInv
<1>3. ASSUME due' = due, Settled' => Settled PROVE DrainInv'
  BY <1>1, <1>2, <1>3 DEF DrainInv
<1> USE DEF memberVars, boundVars, historyVars
<1>4. CASE Owner
  <2>1. CASE SetProcessor \/ StopCall \/ StopLock
    BY <1>3, <2>1 DEF SetProcessor, StopCall, StopLock
  <2>2. CASE Start BY <1>3, <2>2 DEF Start
  <2>3. CASE StopStore
    <3>1. CASE workerPc = "none" BY <1>3, <2>3, <3>1 DEF StopStore
    <3>2. CASE workerPc # "none"
      <4>1. ~Settled'
        BY <2>3, <3>2 DEF StopStore, ControlInv, LifecycleInv
      <4>2. due' = Unfinished /\ Unfinished' = Unfinished
        BY <2>3, <3>2 DEF StopStore, Unfinished
      <4>3. QED BY <4>1, <4>2 DEF DrainInv
    <3>3. QED BY <3>1, <3>2
  <2>4. CASE StopNotify BY <1>3, <2>4 DEF StopNotify, Notify
  <2>5. CASE StopJoin BY <1>3, <2>5 DEF StopJoin
  <2>6. QED BY <1>4, <2>1, <2>2, <2>3, <2>4, <2>5 DEF Owner, StopSteps
<1>5. ASSUME NEW p \in Producers, Producer(p) \/ TryDequeueElsewhere(p)
      PROVE  DrainInv'
  BY <1>3, <1>5 DEF Producer, EnqueuePush, EnqueueFails, EnqueueNotify,
     TryDequeueElsewhere, Notify
<1>6. CASE \/ RunLock \/ WaitCheck \/ WaitSleep \/ WaitRelock \/ RunUnlock
           \/ ProcessPacketsLoop \/ DequeueNothing \/ DequeueMisses \/ CatchException
           \/ SpuriousWakeup
  BY <1>3, <1>6 DEF RunLock, WaitCheck, WaitSleep, WaitRelock, RunUnlock,
     ProcessPacketsLoop, DequeueNothing, DequeueMisses, CatchException, SpuriousWakeup,
     WorkerMoves
<1>7. CASE RunReturn
  <2>1. current = NoItem BY <1>7 DEF RunReturn, WorkerMoves, ControlInv, HandInv
  <2>2. \A p \in Producers : queue[p] = <<>>
    BY <1>7 DEF RunReturn, HasPending, NonEmpty, Servable, TypeOK
  <2>3. Unfinished = {}
    <3>1. Range(<<>>) = {} BY DEF Range
    <3>2. \A x \in Items : x # current /\ x[1] \in Producers
      BY <2>1, QueueAssumption DEF Items, Packets
    <3>3. QED BY <2>2, <3>1, <3>2 DEF Unfinished
  <2>4. due' = due BY <1>7 DEF RunReturn, WorkerMoves
  <2>5. QED BY <1>1, <1>2, <2>3, <2>4 DEF DrainInv
<1>8. ASSUME NEW p \in Producers, DequeueItem(p) PROVE DrainInv'
  BY <1>3, <1>8 DEF DequeueItem
<1>9. CASE ProcessorReturns \/ ProcessorThrows \/ NoProcessor
  BY <1>3, <1>9 DEF ProcessorReturns, ProcessorThrows, ProcessorRan, NoProcessor
<1>10. CASE UNCHANGED vars BY <1>3, <1>10 DEF vars
<1>11. QED
  BY <1>4, <1>5, <1>6, <1>7, <1>8, <1>9, <1>10 DEF Next, Worker

LEMMA QueueInvariant == Spec => []QueueInv
<1>1. Init => QueueInv
  BY InitType, InitControl, InitDrain DEF QueueInv
<1>2. QueueInv /\ [Next]_vars => QueueInv'
  BY NextType, NextControl, NextDrain DEF QueueInv, ControlInv
<1>3. QED BY <1>1, <1>2, PTL DEF Spec

(* Stop returns only after the worker has dealt with every packet that was *)
(* in the queue, or in its hands, when Stop cleared _isRunning.            *)
THEOREM StopDrainsQueue == Spec => []StopDrains
<1>1. QueueInv => StopDrains
  <2> SUFFICES ASSUME QueueInv, ownerPc = "idle" PROVE due \subseteq Finished
    BY DEF StopDrains
  <2>1. isRunning \/ workerPc = "none"
    BY DEF QueueInv, ControlInv, LifecycleInv, TypeOK
  <2>2. QED BY <2>1 DEF QueueInv, DrainInv
<1>2. QED BY <1>1, QueueInvariant, PTL

(* Once Stop has returned nothing reaches the processor until Start. *)
THEOREM QuietQueue == Spec => QuietAfterStop
<1>1. QueueInv /\ [Next]_vars
        => (ownerPc = "idle" /\ ~isRunning => UNCHANGED <<current, executed>>)
  <2> SUFFICES ASSUME QueueInv, [Next]_vars, ownerPc = "idle", ~isRunning
               PROVE  current' = current /\ executed' = executed
    OBVIOUS
  <2>1. workerPc = "none"
    BY DEF QueueInv, ControlInv, LifecycleInv, TypeOK
  <2> USE DEF memberVars, historyVars
  <2>2. CASE Owner
    BY <2>2 DEF Owner, StopSteps, SetProcessor, Start, StopCall, StopLock,
       StopStore, StopNotify, StopJoin
  <2>3. ASSUME NEW p \in Producers, Producer(p) \/ TryDequeueElsewhere(p)
        PROVE  current' = current /\ executed' = executed
    BY <2>3 DEF Producer, EnqueuePush, EnqueueFails, EnqueueNotify,
       TryDequeueElsewhere
  <2>4. CASE Worker \/ SpuriousWakeup
    BY <2>1, <2>4 DEF Worker, RunLock, WaitCheck, WaitSleep, WaitRelock,
       RunReturn, RunUnlock, ProcessPacketsLoop, DequeueNothing, DequeueMisses, DequeueItem,
       ProcessorReturns, ProcessorThrows, ProcessorRan, CatchException,
       NoProcessor, SpuriousWakeup, WorkerMoves
  <2>5. CASE UNCHANGED vars BY <2>5 DEF vars
  <2>6. QED BY <2>2, <2>3, <2>4, <2>5 DEF Next
<1>2. QED BY <1>1, QueueInvariant, PTL DEF Spec, QuietAfterStop

-----------------------------------------------------------------------------
(* The queue implements the service its callers see. *)

LEMMA ServiceSets ==
    Service!Unfinished = Unfinished /\ Service!Finished = Finished
BY DEF Service!Unfinished, Service!Finished, Unfinished, Finished,
       Service!Items, Items, Packets, Service!Range, Range

LEMMA StepImplements ==
    ASSUME QueueInv, [Next]_vars
    PROVE  [Service!Next]_(Service!vars)
<1> DEFINE Hidden == UNCHANGED <<Phase, queue, current, historyVars>>
<1>1. TypeOK /\ ControlInv /\ DrainInv BY DEF QueueInv
<1>2. ASSUME Hidden PROVE [Service!Next]_(Service!vars)
  BY <1>2 DEF Service!vars, historyVars
<1> USE DEF memberVars, boundVars, historyVars
<1>3. CASE Owner
  <2>1. CASE SetProcessor \/ StopCall \/ StopLock
    BY <1>2, <2>1 DEF SetProcessor, StopCall, StopLock, Phase
  <2>2. CASE Start
    <3>1. Service!Begin BY <2>2 DEF Start, Service!Begin, Phase
    <3>2. QED BY <3>1 DEF Service!Next
  <2>3. CASE StopStore
    <3>1. CASE workerPc = "none" BY <1>2, <2>3, <3>1 DEF StopStore, Phase
    <3>2. CASE workerPc # "none"
      <4>1. isRunning
        BY <1>1, <2>3, <3>2 DEF StopStore, ControlInv, LifecycleInv
      <4>2. Service!RequestStop
        BY <2>3, <3>2, <4>1, ServiceSets
        DEF StopStore, Service!RequestStop, Phase
      <4>3. QED BY <4>2 DEF Service!Next
    <3>3. QED BY <3>1, <3>2
  <2>4. CASE StopNotify BY <1>2, <2>4 DEF StopNotify, Notify, Phase
  <2>5. CASE StopJoin
    <3>1. CASE workerPc = "none" BY <1>2, <2>5, <3>1 DEF StopJoin, Phase
    <3>2. CASE workerPc = "done"
      <4>1. ~isRunning /\ current = NoItem /\ due \subseteq Finished
        BY <1>1, <3>2 DEF ControlInv, LifecycleInv, HandInv, DrainInv
      <4>2. Service!Halt
        BY <2>5, <3>2, <4>1, ServiceSets DEF StopJoin, Service!Halt, Phase
      <4>3. QED BY <4>2 DEF Service!Next
    <3>3. QED BY <2>5, <3>1, <3>2 DEF StopJoin
  <2>6. QED BY <1>3, <2>1, <2>2, <2>3, <2>4, <2>5 DEF Owner, StopSteps
<1>4. ASSUME NEW p \in Producers, EnqueuePush(p)
      PROVE  [Service!Next]_(Service!vars)
  <2>1. Service!Submit(p)
    BY <1>1, <1>4, QueueTypes
    DEF EnqueuePush, Service!Submit, Phase, enqueue, Service!enqueue
  <2>2. QED BY <2>1 DEF Service!Next
<1>5. ASSUME NEW p \in Producers, EnqueueFails(p)
      PROVE  [Service!Next]_(Service!vars)
  <2>1. Service!Refuse(p)
    BY <1>1, <1>5, QueueTypes DEF EnqueueFails, Service!Refuse, Phase
  <2>2. QED BY <2>1 DEF Service!Next
<1>6. ASSUME NEW p \in Producers, EnqueueNotify(p)
      PROVE  [Service!Next]_(Service!vars)
  BY <1>2, <1>6 DEF EnqueueNotify, Notify, Phase
<1>7. ASSUME NEW p \in Producers, TryDequeueElsewhere(p)
      PROVE  [Service!Next]_(Service!vars)
  <2>1. Service!HandOver(p)
    BY <1>7 DEF TryDequeueElsewhere, Service!HandOver, Phase, dequeue,
       Service!dequeue, Servable, Service!Servable
  <2>2. QED BY <2>1 DEF Service!Next
<1>8. CASE \/ RunLock \/ WaitCheck \/ WaitSleep \/ WaitRelock \/ RunReturn
           \/ RunUnlock \/ ProcessPacketsLoop \/ DequeueNothing \/ DequeueMisses
           \/ CatchException \/ SpuriousWakeup
  BY <1>2, <1>8 DEF RunLock, WaitCheck, WaitSleep, WaitRelock, RunReturn,
     RunUnlock, ProcessPacketsLoop, DequeueNothing, DequeueMisses, CatchException,
     SpuriousWakeup, WorkerMoves, Phase
<1>9. ASSUME NEW p \in Producers, DequeueItem(p)
      PROVE  [Service!Next]_(Service!vars)
  <2>1. current = NoItem BY <1>1, <1>9 DEF DequeueItem, ControlInv, HandInv
  <2>2. Service!Take(p)
    BY <1>9, <2>1 DEF DequeueItem, Service!Take, Phase, dequeue,
       Service!dequeue, Servable, Service!Servable
  <2>3. QED BY <2>2 DEF Service!Next
<1>10. CASE ProcessorReturns \/ ProcessorThrows
  <2>1. current # NoItem
    BY <1>1, <1>10
    DEF ProcessorReturns, ProcessorThrows, ProcessorRan, ControlInv, HandInv
  <2>2. Service!Execute
    BY <1>10, <2>1
    DEF ProcessorReturns, ProcessorThrows, ProcessorRan, Service!Execute, Phase
  <2>3. QED BY <2>2 DEF Service!Next
<1>11. CASE NoProcessor
  <2>1. current # NoItem BY <1>1, <1>11 DEF NoProcessor, ControlInv, HandInv
  <2>2. Service!Discard BY <1>11, <2>1 DEF NoProcessor, Service!Discard, Phase
  <2>3. QED BY <2>2 DEF Service!Next
<1>12. CASE UNCHANGED vars BY <1>2, <1>12 DEF vars, Phase
<1>13. QED
  BY <1>3, <1>4, <1>5, <1>6, <1>7, <1>8, <1>9, <1>10, <1>11, <1>12
  DEF Next, Producer, Worker

(* Seen from outside, the queue with its threads, mutex and condition      *)
(* variable is the packet service: one packet at a time, in line, and no   *)
(* stop before what was waiting is done.                                   *)
THEOREM QueueImplementsService == Spec => ImplementsService
<1>1. Init => Service!Init
  BY DEF Init, Service!Init, Phase, EmptyQueue, Service!EmptyQueue
<1>2. QueueInv /\ [Next]_vars => [Service!Next]_(Service!vars)
  BY StepImplements
<1>3. QED
  BY <1>1, <1>2, QueueInvariant, PTL DEF Spec, ImplementsService, Service!Spec

-----------------------------------------------------------------------------
(* Order and accounting: what happens to a line of packets. *)

(* A packet with a higher number than all before it joins at the end. *)
LEMMA JoinLine ==
    ASSUME NEW S \in SUBSET Int, NEW s \in Seq(S), NEW x \in S, Increasing(s),
           \A y \in Range(s) : y < x
    PROVE  /\ Increasing(Append(s, x))
           /\ Range(Append(s, x)) = Range(s) \cup {x}
<1>1. /\ Append(s, x) \in Seq(S) /\ Len(Append(s, x)) = Len(s) + 1
      /\ \A i \in 1..Len(s) : Append(s, x)[i] = s[i]
      /\ Append(s, x)[Len(s) + 1] = x
      /\ Len(s) \in Nat /\ DOMAIN s = 1..Len(s)
      /\ DOMAIN Append(s, x) = 1..(Len(s) + 1)
  BY AppendProperties, LenProperties
<1>2. ASSUME NEW i \in DOMAIN Append(s, x), NEW j \in DOMAIN Append(s, x), i < j
      PROVE  Append(s, x)[i] < Append(s, x)[j]
  <2>1. i \in 1..Len(s) /\ Append(s, x)[i] = s[i] BY <1>1, <1>2
  <2>2. CASE j = Len(s) + 1
    <3>1. s[i] \in Range(s) BY <1>1, <2>1 DEF Range
    <3>2. QED BY <1>1, <2>1, <2>2, <3>1
  <2>3. CASE j # Len(s) + 1
    <3>1. j \in 1..Len(s) /\ Append(s, x)[j] = s[j] BY <1>1, <2>3
    <3>2. QED BY <1>1, <1>2, <2>1, <3>1 DEF Increasing
  <2>4. QED BY <2>2, <2>3
<1>3. QED BY <1>2, AppendElements DEF Increasing

(* A packet that leaves the line leaves the order of the others alone. *)
LEMMA LeaveLine ==
    ASSUME NEW S \in SUBSET Int, NEW a \in Seq(S), NEW b \in Seq(S), NEW x \in S,
           Increasing((a \o <<x>>) \o b)
    PROVE  /\ Increasing(a \o b)
           /\ Range(a \o b) = Range((a \o <<x>>) \o b) \ {x}
           /\ x \in Range((a \o <<x>>) \o b)
<1> DEFINE c == a \o <<x>>
           s == c \o b
           t == a \o b
           k == Len(a) + 1
<1>1. <<x>> \in Seq(S) /\ Len(<<x>>) = 1 /\ <<x>>[1] = x OBVIOUS
<1>2. /\ c \in Seq(S) /\ Len(c) = k /\ Len(a) \in Nat /\ Len(b) \in Nat
      /\ \A i \in 1..k : c[i] = IF i <= Len(a) THEN a[i] ELSE x
  <2>1. /\ c \in Seq(S) /\ Len(c) = Len(a) + Len(<<x>>)
        /\ \A i \in 1..(Len(a) + Len(<<x>>)) :
              c[i] = IF i <= Len(a) THEN a[i] ELSE <<x>>[i - Len(a)]
    BY <1>1, ConcatProperties
  <2>2. Len(a) \in Nat /\ Len(b) \in Nat BY LenProperties
  <2> HIDE DEF c
  <2>3. ASSUME NEW i \in 1..k PROVE c[i] = IF i <= Len(a) THEN a[i] ELSE x
    <3>1. CASE i <= Len(a) BY <1>1, <2>1, <2>2, <3>1
    <3>2. CASE ~(i <= Len(a))
      <4>1. i - Len(a) = 1 BY <2>2, <3>2
      <4>2. QED BY <1>1, <2>1, <2>2, <3>2, <4>1
    <3>3. QED BY <3>1, <3>2
  <2>4. QED BY <1>1, <2>1, <2>2, <2>3
<1> HIDE DEF c
<1>3. /\ s \in Seq(S) /\ Len(s) = k + Len(b) /\ DOMAIN s = 1..(k + Len(b))
      /\ \A i \in 1..(k + Len(b)) : s[i] = IF i <= k THEN c[i] ELSE b[i - k]
  <2>1. s \in Seq(S) /\ Len(s) = Len(c) + Len(b)
    BY <1>2, ConcatProperties
  <2>2. QED BY <1>2, <2>1, ConcatProperties, LenProperties
<1>4. /\ t \in Seq(S) /\ Len(t) = Len(a) + Len(b)
      /\ DOMAIN t = 1..(Len(a) + Len(b))
      /\ \A i \in 1..(Len(a) + Len(b)) :
            t[i] = IF i <= Len(a) THEN a[i] ELSE b[i - Len(a)]
  BY ConcatProperties, LenProperties
<1> HIDE DEF s, t
<1>5. s[k] = x /\ k \in DOMAIN s
  BY <1>2, <1>3
<1>6. ASSUME NEW i \in 1..Len(a)
      PROVE  s[i] = t[i] /\ i \in DOMAIN s /\ i \in DOMAIN t
  <2>1. /\ i \in 1..k /\ i <= Len(a) /\ i <= k
        /\ i \in 1..(k + Len(b)) /\ i \in 1..(Len(a) + Len(b))
    BY <1>2
  <2>2. s[i] = a[i] BY <1>2, <1>3, <2>1
  <2>3. t[i] = a[i] BY <1>4, <2>1
  <2>4. QED BY <1>3, <1>4, <2>1, <2>2, <2>3
<1>7. ASSUME NEW i \in k..(Len(a) + Len(b))
      PROVE  s[i + 1] = t[i] /\ i + 1 \in DOMAIN s /\ i \in DOMAIN t
  <2>1. (i + 1) - k = i - Len(a) BY <1>2
  <2>2. s[i + 1] = b[(i + 1) - k] BY <1>2, <1>3
  <2>3. t[i] = b[i - Len(a)] BY <1>2, <1>4
  <2>4. QED BY <1>2, <1>3, <1>4, <2>1, <2>2, <2>3
<1> DEFINE up(i) == IF i <= Len(a) THEN i ELSE i + 1
<1>8. ASSUME NEW i \in DOMAIN t
      PROVE  up(i) \in DOMAIN s /\ t[i] = s[up(i)] /\ up(i) # k
  BY <1>2, <1>4, <1>6, <1>7
<1>9. Increasing(s) BY DEF s, c
<1>10. ASSUME NEW i \in DOMAIN t, NEW j \in DOMAIN t, i < j PROVE t[i] < t[j]
  <2>1. up(i) < up(j) BY <1>2, <1>4, <1>10
  <2>2. s[up(i)] < s[up(j)]
    BY <1>8, <1>9, <2>1 DEF Increasing
  <2>3. QED BY <1>8, <2>2
<1>11. ASSUME NEW i \in DOMAIN s, i # k
       PROVE  s[i] \in Range(t) /\ s[i] # x
  <2>1. s[i] # x
    <3>1. \A j \in DOMAIN s : s[j] \in Int BY <1>3, ElementOfSeq
    <3>2. i < k \/ k < i BY <1>2, <1>3, <1>11
    <3>3. s[i] < s[k] \/ s[k] < s[i] BY <1>5, <1>9, <3>2 DEF Increasing
    <3>4. QED BY <1>5, <3>1, <3>3
  <2>2. CASE i < k
    <3>1. i \in 1..Len(a) BY <1>2, <1>3, <2>2
    <3>2. QED BY <1>6, <2>1, <3>1 DEF Range
  <2>3. CASE i > k
    <3>1. i - 1 \in k..(Len(a) + Len(b)) /\ (i - 1) + 1 = i BY <1>2, <1>3, <2>3
    <3>2. s[i] = t[i - 1] /\ i - 1 \in DOMAIN t BY <1>7, <3>1
    <3>3. QED BY <2>1, <3>2 DEF Range
  <2>4. QED BY <1>2, <1>3, <1>11, <2>2, <2>3
<1>12. Range(t) = Range(s) \ {x}
  <2>1. ASSUME NEW y \in Range(t) PROVE y \in Range(s) /\ y # x
    <3>1. PICK i \in DOMAIN t : y = t[i] BY DEF Range
    <3>2. PICK j \in DOMAIN s : y = s[j] /\ j # k BY <1>8, <3>1
    <3>3. QED BY <1>11, <3>2 DEF Range
  <2>2. ASSUME NEW y \in Range(s), y # x PROVE y \in Range(t)
    <3>1. PICK i \in DOMAIN s : y = s[i] BY DEF Range
    <3>2. QED BY <1>5, <1>11, <2>2, <3>1
  <2>3. QED BY <2>1, <2>2
<1>13. QED BY <1>5, <1>10, <1>12 DEF Increasing, Range, s, t, c

(* The state of one producer's packets. *)
LineOK(p) ==
    /\ Increasing(Line(p))
    /\ Range(Line(p)) \cup gone[p] = 1..sent[p]
    /\ Range(Line(p)) \cap gone[p] = {}

LEMMA LineOKs ==
    PacketsInOrder /\ PacketsAccounted <=> \A p \in Producers : LineOK(p)
BY DEF PacketsInOrder, PacketsAccounted, LineOK

LEMMA PacketsJoin ==
    \A a, b, c \in Seq(Packets) : (a \o b) \o c = a \o (b \o c)
BY ConcatAssociative

LEMMA LineTypes ==
    ASSUME TypeOK, NEW p \in Producers
    PROVE  /\ executed[p] \in Seq(Packets) /\ InHand(p) \in Seq(Packets)
           /\ queue[p] \in Seq(Packets) /\ Line(p) \in Seq(Packets)
           /\ executed[p] \o InHand(p) \in Seq(Packets)
<1>1. executed[p] \in Seq(Packets) /\ queue[p] \in Seq(Packets) BY QueueTypes
<1>2. InHand(p) \in Seq(Packets)
  <2>1. CASE current # NoItem /\ current[1] = p
    <3>1. current[2] \in Packets BY <2>1 DEF TypeOK, Items
    <3>2. QED BY <2>1, <3>1 DEF InHand
  <2>2. CASE ~(current # NoItem /\ current[1] = p) BY <2>2 DEF InHand
  <2>3. QED BY <2>1, <2>2
<1>3. QED BY <1>1, <1>2, ConcatProperties DEF Line

LEMMA NextOrder ==
    ASSUME TypeOK, ControlInv, \A p \in Producers : LineOK(p), [Next]_vars
    PROVE  \A p \in Producers : LineOK(p)'
<1> USE DEF memberVars, boundVars, historyVars
<1>1. ASSUME NEW r \in Producers, Line(r)' = Line(r), gone'[r] = gone[r],
             sent'[r] = sent[r]
      PROVE  LineOK(r)'
  BY <1>1 DEF LineOK
<1>2. ASSUME NEW r \in Producers, executed'[r] = executed[r],
             queue'[r] = queue[r], InHand(r)' = InHand(r)
      PROVE  Line(r)' = Line(r)
  BY <1>2 DEF Line
<1>3. ASSUME UNCHANGED <<queue, current, sent, executed, gone>>
      PROVE  \A p \in Producers : LineOK(p)'
  BY <1>1, <1>2, <1>3 DEF InHand
<1>4. Packets \in SUBSET Int BY QueueAssumption DEF Packets
(* A packet x that was in the line of p is gone. *)
<1>5. ASSUME NEW p \in Producers, NEW a \in Seq(Packets), NEW b \in Seq(Packets),
             NEW x \in Packets, Line(p) = (a \o <<x>>) \o b, Line(p)' = a \o b,
             gone'[p] = gone[p] \cup {x}, sent'[p] = sent[p]
      PROVE  LineOK(p)'
  <2>1. LineOK(p) OBVIOUS
  <2>2. /\ Increasing(a \o b)
        /\ Range(a \o b) = Range(Line(p)) \ {x} /\ x \in Range(Line(p))
    BY <1>4, <1>5, <2>1, LeaveLine DEF LineOK
  <2>3. Increasing(Line(p)') BY <1>5, <2>2
  <2>4. QED BY <1>5, <2>1, <2>2, <2>3 DEF LineOK, Increasing
<1>6. CASE Owner
  BY <1>3, <1>6 DEF Owner, StopSteps, SetProcessor, Start, StopCall, StopLock,
     StopStore, StopNotify, StopJoin
<1>7. ASSUME NEW p \in Producers, EnqueuePush(p), NEW r \in Producers
      PROVE  LineOK(r)'
  <2> DEFINE x == sent[p] + 1
             c == executed[p] \o InHand(p)
  <2>1. /\ queue' = [queue EXCEPT ![p] = Append(@, x)]
        /\ executed' = executed /\ gone' = gone /\ current' = current
        /\ sent' = [sent EXCEPT ![p] = x]
        /\ \A q \in Producers : InHand(q)' = InHand(q)
    BY <1>7 DEF EnqueuePush, enqueue, InHand
  <2>2. CASE r # p
    <3>1. queue'[r] = queue[r] /\ sent'[r] = sent[r] BY <2>1, <2>2 DEF TypeOK
    <3>2. QED BY <1>1, <1>2, <2>1, <3>1
  <2>3. CASE r = p
    <3>1. x \in Packets /\ sent[p] \in Nat
      BY <1>7, QueueTypes, QueueAssumption DEF EnqueuePush
    <3>2. /\ queue'[p] = Append(queue[p], x) /\ sent'[p] = x
      BY <2>1 DEF TypeOK
    <3>3. Line(p)' = Append(Line(p), x)
      <4>1. Line(p)' = c \o Append(queue[p], x) BY <2>1, <3>2 DEF Line
      <4>2. Append(queue[p], x) = queue[p] \o <<x>>
        BY <3>1, LineTypes, AppendIsConcat
      <4>3. c \in Seq(Packets) /\ queue[p] \in Seq(Packets) /\ <<x>> \in Seq(Packets)
        BY <3>1, LineTypes
      <4>4. (c \o queue[p]) \o <<x>> = c \o (queue[p] \o <<x>>)
        BY <4>3, PacketsJoin
      <4>5. Append(Line(p), x) = Line(p) \o <<x>>
        BY <3>1, LineTypes, AppendIsConcat
      <4>6. Line(p) = c \o queue[p] BY DEF Line
      <4>7. QED BY <4>1, <4>2, <4>4, <4>5, <4>6
    <3>4. LineOK(p) OBVIOUS
    <3>5. \A y \in Range(Line(p)) : y < x
      BY <3>1, <3>4 DEF LineOK
    <3>6. /\ Increasing(Append(Line(p), x))
          /\ Range(Append(Line(p), x)) = Range(Line(p)) \cup {x}
      BY <1>4, <3>1, <3>4, <3>5, LineTypes, JoinLine DEF LineOK
    <3>7. 1..x = 1..sent[p] \cup {x} /\ x \notin 1..sent[p] BY <3>1
    <3>8. Range(Line(p)') \cup gone'[p] = 1..sent'[p]
      BY <2>1, <3>2, <3>3, <3>4, <3>6, <3>7 DEF LineOK
    <3>9. Range(Line(p)') \cap gone'[p] = {}
      BY <2>1, <3>3, <3>4, <3>6, <3>7 DEF LineOK
    <3>10. Increasing(Line(p)') BY <3>3, <3>6
    <3>11. QED BY <2>3, <3>8, <3>9, <3>10 DEF LineOK, Increasing
  <2>4. QED BY <2>2, <2>3
<1>8. ASSUME NEW p \in Producers, EnqueueFails(p), NEW r \in Producers
      PROVE  LineOK(r)'
  <2>1. /\ Line(r)' = Line(r)
        /\ gone' = [gone EXCEPT ![p] = @ \cup {sent[p] + 1}]
        /\ sent' = [sent EXCEPT ![p] = @ + 1]
    BY <1>2, <1>8 DEF EnqueueFails, InHand
  <2>2. CASE r # p BY <1>1, <2>1, <2>2 DEF TypeOK
  <2>3. CASE r = p
    <3>1. gone'[p] = gone[p] \cup {sent[p] + 1} /\ sent'[p] = sent[p] + 1
      BY <2>1 DEF TypeOK
    <3>2. sent[p] \in Nat BY QueueTypes, QueueAssumption
    <3>3. 1..(sent[p] + 1) = 1..sent[p] \cup {sent[p] + 1}
          /\ sent[p] + 1 \notin 1..sent[p]
      BY <3>2
    <3>4. LineOK(p) OBVIOUS
    <3>5. QED BY <2>1, <2>3, <3>1, <3>3, <3>4 DEF LineOK, Increasing
  <2>4. QED BY <2>2, <2>3
<1>9. ASSUME NEW p \in Producers, EnqueueNotify(p)
      PROVE  \A q \in Producers : LineOK(q)'
  BY <1>3, <1>9 DEF EnqueueNotify
<1>10. ASSUME NEW p \in Producers, p \in Servable(queue)
       PROVE  /\ queue[p] = <<Head(queue[p])>> \o Tail(queue[p])
              /\ Head(queue[p]) \in Packets /\ Tail(queue[p]) \in Seq(Packets)
              /\ <<Head(queue[p])>> \in Seq(Packets)
              /\ dequeue(queue, p)[p] = Tail(queue[p])
              /\ \A r \in Producers : r # p => dequeue(queue, p)[r] = queue[r]
  <2>1. queue[p] \in Seq(Packets) /\ queue[p] # <<>>
    BY <1>10, QueueTypes DEF Servable
  <2>2. Head(queue[p]) \in Packets /\ Tail(queue[p]) \in Seq(Packets)
    BY <2>1, HeadTailProperties
  <2>3. ASSUME NEW s \in Seq(Packets), s # <<>> PROVE s = <<Head(s)>> \o Tail(s)
    <3>1. /\ Len(s) \in Nat /\ 1 \in 1..Len(s) /\ Len(s) \in 1..Len(s)
          /\ Head(s) = s[1] /\ 1 + 1 = 2
      BY <2>3
    <3>2. SubSeq(s, 1, Len(s)) = <<s[1]>> \o SubSeq(s, 1 + 1, Len(s))
      BY <3>1, SubSeqRecursiveFirst
    <3>3. SubSeq(s, 1, Len(s)) = s BY SubSeqFull
    <3>4. Tail(s) = SubSeq(s, 2, Len(s)) BY <2>3, TailIsSubSeq
    <3>5. QED BY <3>1, <3>2, <3>3, <3>4
  <2>4. ASSUME NEW y \in Packets PROVE <<y>> \in Seq(Packets)
    OBVIOUS
  <2>5. /\ dequeue(queue, p)[p] = Tail(queue[p])
        /\ \A r \in Producers : r # p => dequeue(queue, p)[r] = queue[r]
    BY DEF dequeue, TypeOK
  <2>6. queue[p] = <<Head(queue[p])>> \o Tail(queue[p]) BY <2>1, <2>3, Zenon
  <2>7. <<Head(queue[p])>> \in Seq(Packets) BY <2>2, <2>4, Zenon
  <2>8. QED BY <2>2, <2>5, <2>6, <2>7, Zenon
<1>11. ASSUME NEW p \in Producers, TryDequeueElsewhere(p), NEW r \in Producers
       PROVE  LineOK(r)'
  <2> DEFINE x == Head(queue[p])
             c == executed[p] \o InHand(p)
  <2>1. /\ p \in Servable(queue) /\ queue' = dequeue(queue, p)
        /\ executed' = executed /\ current' = current /\ sent' = sent
        /\ gone' = [gone EXCEPT ![p] = @ \cup {x}]
        /\ \A q \in Producers : InHand(q)' = InHand(q)
    BY <1>11 DEF TryDequeueElsewhere, InHand
  <2>2. CASE r # p
    <3>1. queue'[r] = queue[r] BY <1>10, <2>1, <2>2
    <3>2. gone'[r] = gone[r] BY <2>1, <2>2 DEF TypeOK
    <3>3. QED BY <1>1, <1>2, <2>1, <3>1, <3>2
  <2>3. CASE r = p
    <3>1. /\ x \in Packets /\ Tail(queue[p]) \in Seq(Packets)
          /\ <<x>> \in Seq(Packets) /\ c \in Seq(Packets)
          /\ queue[p] = <<x>> \o Tail(queue[p]) /\ queue'[p] = Tail(queue[p])
      BY <1>10, <2>1, LineTypes, Zenon
    <3>2. (c \o <<x>>) \o Tail(queue[p]) = c \o (<<x>> \o Tail(queue[p]))
      BY <3>1, PacketsJoin
    <3>3. Line(p) = (c \o <<x>>) \o Tail(queue[p]) BY <3>1, <3>2 DEF Line
    <3>4. Line(p)' = c \o Tail(queue[p]) BY <2>1, <3>1 DEF Line
    <3>5. gone'[p] = gone[p] \cup {x} /\ sent'[p] = sent[p] BY <2>1 DEF TypeOK
    <3>6. LineOK(p)' BY <1>5, <3>1, <3>3, <3>4, <3>5
    <3>7. QED BY <2>3, <3>6
  <2>4. QED BY <2>2, <2>3
<1>12. CASE \/ RunLock \/ WaitCheck \/ WaitSleep \/ WaitRelock \/ RunReturn
            \/ RunUnlock \/ ProcessPacketsLoop \/ DequeueNothing \/ DequeueMisses
            \/ CatchException \/ SpuriousWakeup
  BY <1>3, <1>12 DEF RunLock, WaitCheck, WaitSleep, WaitRelock, RunReturn,
     RunUnlock, ProcessPacketsLoop, DequeueNothing, DequeueMisses, CatchException,
     SpuriousWakeup, WorkerMoves
<1>13. ASSUME NEW p \in Producers, DequeueItem(p), NEW r \in Producers
       PROVE  LineOK(r)'
  <2> DEFINE x == Head(queue[p])
             e == executed[p]
             q == Tail(queue[p])
  <2>1. /\ p \in Servable(queue) /\ queue' = dequeue(queue, p)
        /\ executed' = executed /\ gone' = gone /\ sent' = sent
        /\ current = NoItem /\ current' = <<p, x>>
    BY <1>13 DEF DequeueItem, ControlInv, HandInv
  <2>2. /\ x \in Packets /\ q \in Seq(Packets) /\ <<x>> \in Seq(Packets)
        /\ e \in Seq(Packets) /\ queue[p] = <<x>> \o q /\ queue'[p] = q
        /\ \A s \in Producers : s # p => queue'[s] = queue[s]
    BY <1>10, <2>1, LineTypes, Zenon
  <2>3. current' # NoItem BY <2>1, <2>2, QueueAssumption DEF Packets
  <2>4. CASE r # p
    <3>1. InHand(r)' = InHand(r) BY <2>1, <2>4 DEF InHand
    <3>2. QED BY <1>1, <1>2, <2>1, <2>2, <2>4, <3>1
  <2>5. CASE r = p
    <3>1. InHand(p) = <<>> /\ InHand(p)' = <<x>> BY <2>1, <2>3 DEF InHand
    <3>2. Line(p) = e \o (<<x>> \o q)
      BY <2>2, <3>1, ConcatEmptySeq DEF Line
    <3>3. Line(p)' = (e \o <<x>>) \o q BY <2>1, <2>2, <3>1 DEF Line
    <3>4. (e \o <<x>>) \o q = e \o (<<x>> \o q)
      BY <2>2, PacketsJoin
    <3>5. Line(p)' = Line(p) BY <3>2, <3>3, <3>4
    <3>6. QED BY <1>1, <2>1, <2>5, <3>5
  <2>6. QED BY <2>4, <2>5
<1>14. ASSUME \/ \E to \in {"pending", "catch"} : ProcessorRan(to)
              \/ NoProcessor,
              NEW r \in Producers
       PROVE  LineOK(r)'
  <2>1. /\ current \in Items /\ current # NoItem /\ queue' = queue
        /\ current' = NoItem /\ sent' = sent
    BY <1>14, QueueAssumption DEF ProcessorRan, NoProcessor, ControlInv, HandInv,
       TypeOK
  <2>2. PICK p \in Producers, n \in Packets : current = <<p, n>>
    BY <2>1 DEF Items
  <2>3. /\ InHand(p) = <<n>> /\ InHand(p)' = <<>>
        /\ r # p => InHand(r)' = InHand(r)
    BY <2>1, <2>2 DEF InHand
  <2>4. /\ executed[p] \in Seq(Packets) /\ queue[p] \in Seq(Packets)
        /\ <<n>> \in Seq(Packets)
    BY LineTypes
  <2>5. Line(p) = (executed[p] \o <<n>>) \o queue[p] BY <2>3 DEF Line
  <2>6. CASE \E to \in {"pending", "catch"} : ProcessorRan(to)
    <3>1. /\ executed'[p] = Append(executed[p], n) /\ gone' = gone
          /\ \A s \in Producers : s # p => executed'[s] = executed[s]
      BY <2>2, <2>6 DEF ProcessorRan, TypeOK
    <3>2. CASE r # p BY <1>1, <1>2, <2>1, <2>3, <3>1, <3>2
    <3>3. CASE r = p
      <4>1. /\ Append(executed[p], n) = executed[p] \o <<n>>
            /\ Append(executed[p], n) \in Seq(Packets)
        BY <2>4, AppendIsConcat, AppendProperties
      <4>2. Line(p)' = (Append(executed[p], n) \o <<>>) \o queue[p]
        BY <2>1, <2>3, <3>1 DEF Line
      <4>3. Line(p)' = Line(p) BY <2>5, <4>1, <4>2, ConcatEmptySeq
      <4>4. QED BY <1>1, <2>1, <3>1, <3>3, <4>3
    <3>4. QED BY <3>2, <3>3
  <2>7. CASE NoProcessor
    <3>1. /\ executed' = executed /\ gone'[p] = gone[p] \cup {n}
          /\ \A s \in Producers : s # p => gone'[s] = gone[s]
      BY <2>2, <2>7 DEF NoProcessor, TypeOK
    <3>2. CASE r # p BY <1>1, <1>2, <2>1, <2>3, <3>1, <3>2
    <3>3. CASE r = p
      <4>1. Line(p)' = (executed[p] \o <<>>) \o queue[p]
        BY <2>1, <2>3, <3>1 DEF Line
      <4>2. Line(p)' = executed[p] \o queue[p] BY <2>4, <4>1, ConcatEmptySeq
      <4>3. LineOK(p)' BY <1>5, <2>1, <2>4, <2>5, <3>1, <4>2
      <4>4. QED BY <3>3, <4>3
    <3>4. QED BY <3>2, <3>3
  <2>8. QED BY <1>14, <2>6, <2>7
<1>15. CASE UNCHANGED vars BY <1>3, <1>15 DEF vars
<1>16. QED
  BY <1>6, <1>7, <1>8, <1>9, <1>11, <1>12, <1>13, <1>14, <1>15
  DEF Next, Producer, Worker, ProcessorReturns, ProcessorThrows

LEMMA OrderInvariant == Spec => [](PacketsInOrder /\ PacketsAccounted)
<1> DEFINE Inv == QueueInv /\ PacketsInOrder /\ PacketsAccounted
<1>1. Init => PacketsInOrder /\ PacketsAccounted
  <2> SUFFICES ASSUME Init, NEW p \in Producers PROVE LineOK(p)
    BY LineOKs
  <2>1. Line(p) = <<>> BY DEF Init, Line, InHand, EmptyQueue
  <2>2. gone[p] = {} /\ sent[p] = 0 BY DEF Init
  <2>3. DOMAIN <<>> = {} /\ Range(<<>>) = {} BY DEF Range
  <2>4. QED BY <2>1, <2>2, <2>3 DEF LineOK, Increasing
<1>2. Inv /\ [Next]_vars => (PacketsInOrder /\ PacketsAccounted)'
  <2> SUFFICES ASSUME QueueInv, PacketsInOrder, PacketsAccounted, [Next]_vars
               PROVE  PacketsInOrder' /\ PacketsAccounted'
    OBVIOUS
  <2>1. \A p \in Producers : LineOK(p)' BY LineOKs, NextOrder DEF QueueInv
  <2>2. QED BY <2>1 DEF LineOK, PacketsInOrder, PacketsAccounted
<1>3. QED BY <1>1, <1>2, QueueInvariant, PTL DEF Spec

(* One producer's packets are executed in the order it enqueued them, none *)
(* twice, for any number of producers, packets, restarts and exceptions.   *)
THEOREM OrderKept == Spec => []PacketsInOrder
<1>1. QED BY OrderInvariant, PTL

(* No packet is lost or invented on its way to the processor. *)
THEOREM AllAccounted == Spec => []PacketsAccounted
<1>1. QED BY OrderInvariant, PTL
=============================================================================
