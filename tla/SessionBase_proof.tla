--------------------------- MODULE SessionBase_proof ---------------------------
(***************************************************************************)
(* TLAPS proofs about SessionBase, for any set of senders and any bounds.  *)
(***************************************************************************)
EXTENDS SessionBase, SequenceTheorems, FiniteSetTheorems, TLAPS

(* The inductive invariant. *)
SessionInv == TypeOK /\ OneWriter /\ EmptyWrites

(* The sequence of one element. *)
LEMMA SingletonSeq ==
    ASSUME NEW x
    PROVE  /\ \A S : x \in S => <<x>> \in Seq(S)
           /\ Len(<<x>>) = 1
           /\ <<x>> # <<>>
<1>1. Len(<<x>>) = 1 OBVIOUS
<1>2. <<x>> # <<>> BY <1>1
<1>3. ASSUME NEW S, x \in S PROVE <<x>> \in Seq(S) BY <1>3
<1>4. QED BY <1>1, <1>2, <1>3

(* The inductive invariant holds of a new session. *)
LEMMA InitSession == Init => SessionInv
<1> SUFFICES ASSUME Init PROVE SessionInv
  OBVIOUS
<1>1. TypeOK
  <2>1. sendQueue \in [Senders -> Seq(Packets)]
    <3>1. <<>> \in Seq(Packets) BY EmptySeq
    <3>2. QED BY <3>1 DEF Init, EmptyQueue
  <2>2. inFlight \in Seq(Items \cup {EmptyPacket}) BY EmptySeq DEF Init
  <2>3. allocFailures \in 0..MaxAllocFailures /\ sent \in [Senders -> 0..MaxPackets]
    BY SessionAssumption DEF Init
  <2>4. pc \in [Threads -> {"idle", "exchange"} \cup Writing] BY DEF Init
  <2>5. lostRaces \in Nat /\ isWriting \in BOOLEAN BY DEF Init
  <2>6. wire \subseteq Items \cup {EmptyPacket} BY DEF Init
  <2>7. QED BY <2>1, <2>2, <2>3, <2>4, <2>5, <2>6 DEF TypeOK
<1>2. OneWriter BY DEF Init, OneWriter, Writing, Threads
<1>3. EmptyWrites BY DEF Init, EmptyWrites
<1>4. QED BY <1>1, <1>2, <1>3 DEF SessionInv

(* Every step of Send, WriteAsync and the completion handler keeps it. *)
LEMMA NextSession == SessionInv /\ [Next]_vars => SessionInv'
<1> SUFFICES ASSUME TypeOK, OneWriter, EmptyWrites, [Next]_vars
             PROVE  SessionInv'
  BY DEF SessionInv
<1> DEFINE Pcs == {"idle", "exchange"} \cup Writing
<1>1. ASSUME NEW t \in Threads, NEW from \in Pcs, NEW to \in Pcs, Goes(t, from, to)
      PROVE  /\ pc' \in [Threads -> Pcs]
             /\ pc[t] = from /\ pc'[t] = to
             /\ \A u \in Threads : u # t => pc'[u] = pc[u]
  BY <1>1 DEF Goes, TypeOK
<1>2. ASSUME NEW s \in Senders, SendEnqueue(s) PROVE SessionInv'
  <2>1. s \in Threads /\ "idle" \in Pcs /\ "exchange" \in Pcs BY DEF Threads
  <2>2. /\ pc' \in [Threads -> Pcs] /\ pc[s] = "idle" /\ pc'[s] = "exchange"
        /\ \A u \in Threads : u # s => pc'[u] = pc[u]
    BY <1>1, <1>2, <2>1 DEF SendEnqueue
  <2>3. sent[s] + 1 \in Packets /\ sent' \in [Senders -> 0..MaxPackets]
    BY <1>2, SessionAssumption DEF SendEnqueue, TypeOK, Packets
  <2>4. sendQueue' \in [Senders -> Seq(Packets)]
    <3>1. Append(sendQueue[s], sent[s] + 1) \in Seq(Packets)
      BY <2>3, AppendProperties DEF TypeOK
    <3>2. QED BY <1>2, <3>1 DEF SendEnqueue, enqueue, TypeOK
  <2>5. TypeOK' BY <1>2, <2>2, <2>3, <2>4 DEF SendEnqueue, TypeOK
  <2>6. OneWriter' BY <1>2, <2>2 DEF SendEnqueue, OneWriter, Writing
  <2>7. QED BY <1>2, <2>5, <2>6 DEF SendEnqueue, SessionInv, EmptyWrites
<1>3. ASSUME NEW s \in Senders, SendEnqueueFails(s) PROVE SessionInv'
  <2>1. s \in Threads /\ "idle" \in Pcs /\ "exchange" \in Pcs BY DEF Threads
  <2>2. /\ pc' \in [Threads -> Pcs] /\ pc[s] = "idle" /\ pc'[s] = "exchange"
        /\ \A u \in Threads : u # s => pc'[u] = pc[u]
    BY <1>1, <1>3, <2>1 DEF SendEnqueueFails
  <2>3. /\ sent' \in [Senders -> 0..MaxPackets]
        /\ allocFailures' \in 0..MaxAllocFailures
    BY <1>3, SessionAssumption DEF SendEnqueueFails, TypeOK
  <2>4. TypeOK' BY <1>3, <2>2, <2>3 DEF SendEnqueueFails, TypeOK
  <2>5. OneWriter' BY <1>3, <2>2 DEF SendEnqueueFails, OneWriter, Writing
  <2>6. QED BY <1>3, <2>4, <2>5 DEF SendEnqueueFails, SessionInv, EmptyWrites
<1>4. ASSUME NEW s \in Senders, SendWins(s) PROVE SessionInv'
  <2>1. s \in Threads /\ "exchange" \in Pcs /\ "dequeue" \in Pcs
    BY DEF Threads, Writing
  <2>2. /\ pc' \in [Threads -> Pcs] /\ pc[s] = "exchange" /\ pc'[s] = "dequeue"
        /\ \A u \in Threads : u # s => pc'[u] = pc[u]
    BY <1>1, <1>4, <2>1 DEF SendWins
  <2>3. TypeOK' BY <1>4, <2>2 DEF SendWins, TypeOK
  <2>4. inFlight = <<>> /\ \A u \in Threads : pc[u] \notin Writing
    BY <1>4 DEF SendWins, OneWriter
  <2>5. OneWriter'
    BY <1>4, <2>1, <2>2, <2>4 DEF SendWins, OneWriter, Writing
  <2>6. QED BY <1>4, <2>3, <2>5 DEF SendWins, SessionInv, EmptyWrites
<1>5. ASSUME NEW s \in Senders, SendLoses(s) PROVE SessionInv'
  <2>1. s \in Threads /\ "exchange" \in Pcs /\ "idle" \in Pcs
    BY DEF Threads
  <2>2. /\ pc' \in [Threads -> Pcs] /\ pc[s] = "exchange" /\ pc'[s] = "idle"
        /\ \A u \in Threads : u # s => pc'[u] = pc[u]
    BY <1>1, <1>5, <2>1 DEF SendLoses
  <2>3. TypeOK' BY <1>5, <2>2 DEF SendLoses, TypeOK
  <2>4. OneWriter' BY <1>5, <2>2 DEF SendLoses, OneWriter, Writing
  <2>5. QED BY <1>5, <2>3, <2>4 DEF SendLoses, SessionInv, EmptyWrites
<1>6. ASSUME NEW t \in Threads, NEW s \in Senders, WriteAsyncDequeues(t, s)
      PROVE  SessionInv'
  <2>1. "dequeue" \in Pcs /\ "reset" \in Pcs BY DEF Writing
  <2>2. /\ pc' \in [Threads -> Pcs] /\ pc[t] = "dequeue" /\ pc'[t] = "reset"
        /\ \A u \in Threads : u # t => pc'[u] = pc[u]
    BY <1>1, <1>6, <2>1 DEF WriteAsyncDequeues
  <2>3. sendQueue' \in [Senders -> Seq(Packets)]
    <3>1. Tail(sendQueue[s]) \in Seq(Packets)
      BY <1>6, HeadTailProperties DEF WriteAsyncDequeues, Servable, TypeOK
    <3>2. QED BY <1>6, <3>1 DEF WriteAsyncDequeues, dequeue, TypeOK
  <2>4. TypeOK' BY <1>6, <2>2, <2>3 DEF WriteAsyncDequeues, TypeOK
  <2>5. OneWriter' BY <1>6, <2>2 DEF WriteAsyncDequeues, OneWriter, Writing
  <2>6. QED BY <1>6, <2>4, <2>5 DEF WriteAsyncDequeues, SessionInv, EmptyWrites
<1>7. ASSUME NEW t \in Threads, WriteAsyncResets(t) PROVE SessionInv'
  <2>1. "reset" \in Pcs /\ "idle" \in Pcs BY DEF Writing
  <2>2. /\ pc' \in [Threads -> Pcs] /\ pc[t] = "reset" /\ pc'[t] = "idle"
        /\ \A u \in Threads : u # t => pc'[u] = pc[u]
    BY <1>1, <1>7, <2>1 DEF WriteAsyncResets
  <2>3. TypeOK' BY <1>7, <2>2 DEF WriteAsyncResets, TypeOK
  <2>4. inFlight = <<>> /\ \A u \in Threads : pc'[u] \notin Writing
    BY <2>2 DEF OneWriter, Writing
  <2>5. OneWriter' BY <1>7, <2>4 DEF WriteAsyncResets, OneWriter
  <2>6. QED BY <1>7, <2>3, <2>5 DEF WriteAsyncResets, SessionInv, EmptyWrites
<1>8. ASSUME NEW t \in Threads, WriteAsyncWrites(t) PROVE SessionInv'
  <2>1. "dequeue" \in Pcs /\ "idle" \in Pcs BY DEF Writing
  <2>2. /\ pc' \in [Threads -> Pcs] /\ pc[t] = "dequeue" /\ pc'[t] = "idle"
        /\ \A u \in Threads : u # t => pc'[u] = pc[u]
    BY <1>1, <1>8, <2>1 DEF WriteAsyncWrites
  <2>3. /\ inFlight = <<>> /\ isWriting
        /\ \A u \in Threads : pc'[u] \notin Writing
    BY <2>2 DEF OneWriter, Writing
  <2>4. inFlight' = <<EmptyPacket>> BY <1>8, <2>3 DEF WriteAsyncWrites
  <2>5. /\ <<EmptyPacket>> \in Seq({EmptyPacket}) /\ Len(<<EmptyPacket>>) = 1
        /\ <<EmptyPacket>> \in Seq(Items \cup {EmptyPacket})
        /\ <<EmptyPacket>> # <<>>
    <3>1. EmptyPacket \in {EmptyPacket} /\ EmptyPacket \in Items \cup {EmptyPacket}
      OBVIOUS
    <3>2. QED BY <3>1, SingletonSeq, Zenon
  <2>6. TypeOK' BY <1>8, <2>2, <2>4, <2>5 DEF WriteAsyncWrites, TypeOK
  <2>7. OneWriter' BY <1>8, <2>3, <2>4, <2>5 DEF WriteAsyncWrites, OneWriter
  <2>8. QED BY <2>4, <2>5, <2>6, <2>7 DEF SessionInv, EmptyWrites
<1>9. CASE WriteCompletes
  <2>1. Head(inFlight) = EmptyPacket /\ Len(inFlight) = 1
    <3>1. /\ Head(inFlight) \in {EmptyPacket} /\ Len(inFlight) \in Nat \ {0}
      BY <1>9, HeadTailProperties, EmptySeq DEF WriteCompletes, EmptyWrites
    <3>2. Len(inFlight) <= 1 BY Zenon DEF OneWriter
    <3>3. Len(inFlight) = 1 BY <3>1, <3>2
    <3>4. QED BY <3>1, <3>3, Zenon
  <2>2. /\ Goes(Io, "idle", "dequeue") /\ wire' = wire \cup {EmptyPacket}
    BY <1>9, <2>1 DEF WriteCompletes, WriteSucceeds
  <2>3. Io \in Threads /\ "dequeue" \in Pcs /\ "idle" \in Pcs
    BY DEF Threads, Writing
  <2>4. /\ pc' \in [Threads -> Pcs] /\ pc[Io] = "idle" /\ pc'[Io] = "dequeue"
        /\ \A u \in Threads : u # Io => pc'[u] = pc[u]
    BY <1>1, <2>2, <2>3
  <2>5. inFlight' = <<>>
    <3>1. /\ Tail(inFlight) \in Seq({EmptyPacket})
          /\ Len(Tail(inFlight)) = Len(inFlight) - 1
      BY <1>9, HeadTailProperties DEF WriteCompletes, EmptyWrites
    <3>2. QED BY <1>9, <2>1, <3>1 DEF WriteCompletes
  <2>6. /\ \A u \in Threads : pc[u] \notin Writing
        /\ isWriting
    BY <1>9 DEF WriteCompletes, OneWriter
  <2>7. TypeOK' BY <1>9, <2>2, <2>4, <2>5 DEF WriteCompletes, TypeOK
  <2>8. OneWriter'
    BY <1>9, <2>3, <2>4, <2>5, <2>6 DEF WriteCompletes, OneWriter, Writing
  <2>9. QED BY <2>5, <2>7, <2>8 DEF SessionInv, EmptyWrites
<1>10. CASE UNCHANGED vars
  BY <1>10 DEF vars, SessionInv, TypeOK, OneWriter, EmptyWrites
<1>11. QED
  BY <1>2, <1>3, <1>4, <1>5, <1>6, <1>7, <1>8, <1>9, <1>10
  DEF Next, Send, WriteAsync

-----------------------------------------------------------------------------
(* The count of the packets *)

(* What makes BacklogConserved inductive: both sets are finite, whatever   *)
(* Senders is, as they were empty at first and grow by one element a step. *)
CountInv ==
    /\ IsFiniteSet(Queued)
    /\ IsFiniteSet(Dequeuers)
    /\ BacklogConserved

(* enqueue takes one more place. *)
LEMMA EnqueueTakesPlace ==
    ASSUME TypeOK, IsFiniteSet(Queued), NEW s \in Senders, NEW n \in Packets,
           sendQueue' = enqueue(sendQueue, s, n)
    PROVE  /\ IsFiniteSet(Queued')
           /\ Cardinality(Queued') = Cardinality(Queued) + 1
<1> DEFINE place == <<s, Len(sendQueue[s]) + 1>>
<1>1. /\ \A r \in Senders : Len(sendQueue[r]) \in Nat
      /\ Len(sendQueue'[s]) = Len(sendQueue[s]) + 1
      /\ \A r \in Senders : r # s => sendQueue'[r] = sendQueue[r]
  <2>1. /\ sendQueue \in [Senders -> Seq(Packets)]
        /\ sendQueue'[s] = Append(sendQueue[s], n)
        /\ \A r \in Senders : r # s => sendQueue'[r] = sendQueue[r]
    BY DEF TypeOK, enqueue
  <2>2. Len(Append(sendQueue[s], n)) = Len(sendQueue[s]) + 1
    BY <2>1, AppendProperties
  <2>3. QED BY <2>1, <2>2, LenProperties
<1>2. place \notin Queued BY <1>1 DEF Queued
<1>3. Queued' = Queued \cup {place}
  <2>1. \A r \in Senders : {r} \X (1..Len(sendQueue'[r])) =
            ({r} \X (1..Len(sendQueue[r]))) \cup (IF r = s THEN {place} ELSE {})
    BY <1>1
  <2>2. QED BY <2>1 DEF Queued
<1>4. QED BY <1>2, <1>3, FS_AddElement

(* try_dequeue frees one. *)
LEMMA DequeueFreesPlace ==
    ASSUME TypeOK, IsFiniteSet(Queued), NEW s \in Servable(sendQueue),
           sendQueue' = dequeue(sendQueue, s)
    PROVE  /\ IsFiniteSet(Queued')
           /\ Cardinality(Queued') = Cardinality(Queued) - 1
<1> DEFINE place == <<s, Len(sendQueue[s])>>
<1>1. /\ s \in Senders /\ Len(sendQueue[s]) \in Nat \ {0}
      /\ \A r \in Senders : Len(sendQueue[r]) \in Nat
      /\ Len(sendQueue'[s]) = Len(sendQueue[s]) - 1
      /\ \A r \in Senders : r # s => sendQueue'[r] = sendQueue[r]
  <2>1. /\ sendQueue \in [Senders -> Seq(Packets)]
        /\ s \in Senders /\ sendQueue[s] # <<>>
        /\ sendQueue'[s] = Tail(sendQueue[s])
        /\ \A r \in Senders : r # s => sendQueue'[r] = sendQueue[r]
    BY DEF TypeOK, dequeue, Servable
  <2>2. /\ Len(sendQueue[s]) \in Nat \ {0}
        /\ Len(Tail(sendQueue[s])) = Len(sendQueue[s]) - 1
    BY <2>1, HeadTailProperties, LenProperties, EmptySeq
  <2>3. QED BY <2>1, <2>2, LenProperties
<1>2. place \in Queued BY <1>1 DEF Queued
<1>3. Queued' = Queued \ {place}
  <2>1. \A r \in Senders : {r} \X (1..Len(sendQueue'[r])) =
            ({r} \X (1..Len(sendQueue[r]))) \ (IF r = s THEN {place} ELSE {})
    BY <1>1
  <2>2. \A r \in Senders : r # s => place \notin {r} \X (1..Len(sendQueue[r]))
    OBVIOUS
  <2>3. QED BY <2>1, <2>2 DEF Queued
<1>4. QED BY <1>2, <1>3, FS_RemoveElement

(* A thread that goes on from one place in the code to another joins the   *)
(* threads on their way to try_dequeue, leaves them, or does neither.      *)
Coming(at) == IF at \in {"exchange", "dequeue"} THEN 1 ELSE 0

LEMMA ThreadGoesOn ==
    ASSUME TypeOK, IsFiniteSet(Dequeuers),
           NEW t \in Threads, NEW from, NEW to, Goes(t, from, to)
    PROVE  /\ IsFiniteSet(Dequeuers')
           /\ Cardinality(Dequeuers') =
                  Cardinality(Dequeuers) + Coming(to) - Coming(from)
<1> DEFINE D == {"exchange", "dequeue"}
<1>1. /\ pc[t] = from /\ pc'[t] = to
      /\ \A u \in Threads : u # t => pc'[u] = pc[u]
  BY DEF Goes, TypeOK
<1>2. Cardinality(Dequeuers) \in Nat BY FS_CardinalityType
<1>3. CASE from \in D /\ to \in D
  <2>1. Dequeuers' = Dequeuers BY <1>1, <1>3 DEF Dequeuers
  <2>2. QED BY <1>2, <1>3, <2>1 DEF Coming
<1>4. CASE from \in D /\ to \notin D
  <2>1. t \in Dequeuers /\ Dequeuers' = Dequeuers \ {t}
    BY <1>1, <1>4 DEF Dequeuers
  <2>2. QED BY <1>2, <1>4, <2>1, FS_RemoveElement DEF Coming
<1>5. CASE from \notin D /\ to \in D
  <2>1. t \notin Dequeuers /\ Dequeuers' = Dequeuers \cup {t}
    BY <1>1, <1>5 DEF Dequeuers
  <2>2. QED BY <1>2, <1>5, <2>1, FS_AddElement DEF Coming
<1>6. CASE from \notin D /\ to \notin D
  <2>1. Dequeuers' = Dequeuers BY <1>1, <1>6 DEF Dequeuers
  <2>2. QED BY <1>2, <1>6, <2>1 DEF Coming
<1>7. QED BY <1>3, <1>4, <1>5, <1>6

(* A new session has no packets and no thread in Send. *)
LEMMA InitCount == Init => CountInv
<1> SUFFICES ASSUME Init PROVE CountInv
  OBVIOUS
<1>1. Dequeuers = {} BY DEF Init, Dequeuers
<1>2. Queued = {}
  <2>1. \A s \in Senders : 1..Len(sendQueue[s]) = {} BY DEF Init, EmptyQueue
  <2>2. QED BY <2>1 DEF Queued
<1>3. Len(inFlight) = 0 /\ allocFailures = 0 /\ lostRaces = 0 BY DEF Init
<1>4. QED BY <1>1, <1>2, <1>3, FS_EmptySet DEF CountInv, BacklogConserved

(* Every step keeps the count: an enqueue adds a packet and a thread on    *)
(* its way to dequeue it, a lost race turns that thread into a packet left *)
(* behind, and a try_dequeue that fails turns it into a write under way.   *)
LEMMA NextCount == SessionInv /\ CountInv /\ [Next]_vars => CountInv'
<1> SUFFICES ASSUME TypeOK, OneWriter, EmptyWrites, CountInv, [Next]_vars
             PROVE  CountInv'
  BY DEF SessionInv
<1>1. /\ IsFiniteSet(Queued) /\ IsFiniteSet(Dequeuers)
      /\ Cardinality(Queued) \in Nat /\ Cardinality(Dequeuers) \in Nat
      /\ Cardinality(Queued) + allocFailures =
             lostRaces + Len(inFlight) + Cardinality(Dequeuers)
      /\ allocFailures \in Nat /\ lostRaces \in Nat /\ Len(inFlight) \in Nat
  <2>1. allocFailures \in Nat /\ lostRaces \in Nat /\ Len(inFlight) \in Nat
    BY SessionAssumption, LenProperties DEF TypeOK
  <2>2. QED BY <2>1, FS_CardinalityType DEF CountInv, BacklogConserved
<1>2. Senders \subseteq Threads /\ Io \in Threads BY DEF Threads
<1>3. sendQueue' = sendQueue => Queued' = Queued BY DEF Queued
<1>4. ASSUME NEW s \in Senders, SendEnqueue(s) PROVE CountInv'
  <2>1. sent[s] + 1 \in Packets
    BY <1>4, SessionAssumption DEF SendEnqueue, TypeOK, Packets
  <2>2. /\ IsFiniteSet(Queued') /\ Cardinality(Queued') = Cardinality(Queued) + 1
    BY <1>1, <1>4, <2>1, EnqueueTakesPlace DEF SendEnqueue
  <2>3. /\ IsFiniteSet(Dequeuers')
        /\ Cardinality(Dequeuers') = Cardinality(Dequeuers) + 1
    BY <1>1, <1>2, <1>4, ThreadGoesOn DEF SendEnqueue, Coming
  <2>4. QED
    BY <1>1, <1>4, <2>2, <2>3 DEF SendEnqueue, CountInv, BacklogConserved
<1>5. ASSUME NEW s \in Senders, SendEnqueueFails(s) PROVE CountInv'
  <2>1. /\ IsFiniteSet(Dequeuers')
        /\ Cardinality(Dequeuers') = Cardinality(Dequeuers) + 1
    BY <1>1, <1>2, <1>5, ThreadGoesOn DEF SendEnqueueFails, Coming
  <2>2. QED
    BY <1>1, <1>3, <1>5, <2>1 DEF SendEnqueueFails, CountInv, BacklogConserved
<1>6. ASSUME NEW s \in Senders, SendWins(s) PROVE CountInv'
  <2>1. /\ IsFiniteSet(Dequeuers')
        /\ Cardinality(Dequeuers') = Cardinality(Dequeuers)
    BY <1>1, <1>2, <1>6, ThreadGoesOn DEF SendWins, Coming
  <2>2. QED BY <1>1, <1>3, <1>6, <2>1 DEF SendWins, CountInv, BacklogConserved
<1>7. ASSUME NEW s \in Senders, SendLoses(s) PROVE CountInv'
  <2>1. /\ IsFiniteSet(Dequeuers')
        /\ Cardinality(Dequeuers') = Cardinality(Dequeuers) - 1
    BY <1>1, <1>2, <1>7, ThreadGoesOn DEF SendLoses, Coming
  <2>2. QED BY <1>1, <1>3, <1>7, <2>1 DEF SendLoses, CountInv, BacklogConserved
<1>8. ASSUME NEW t \in Threads, NEW s \in Senders, WriteAsyncDequeues(t, s)
      PROVE  CountInv'
  <2>1. /\ IsFiniteSet(Queued') /\ Cardinality(Queued') = Cardinality(Queued) - 1
    BY <1>1, <1>8, DequeueFreesPlace DEF WriteAsyncDequeues
  <2>2. /\ IsFiniteSet(Dequeuers')
        /\ Cardinality(Dequeuers') = Cardinality(Dequeuers) - 1
    BY <1>1, <1>8, ThreadGoesOn DEF WriteAsyncDequeues, Coming
  <2>3. QED
    BY <1>1, <1>8, <2>1, <2>2 DEF WriteAsyncDequeues, CountInv, BacklogConserved
<1>9. ASSUME NEW t \in Threads, WriteAsyncResets(t) PROVE CountInv'
  <2>1. /\ IsFiniteSet(Dequeuers')
        /\ Cardinality(Dequeuers') = Cardinality(Dequeuers)
    BY <1>1, <1>9, ThreadGoesOn DEF WriteAsyncResets, Coming
  <2>2. QED
    BY <1>1, <1>3, <1>9, <2>1 DEF WriteAsyncResets, CountInv, BacklogConserved
<1>10. ASSUME NEW t \in Threads, WriteAsyncWrites(t) PROVE CountInv'
  <2>1. /\ IsFiniteSet(Dequeuers')
        /\ Cardinality(Dequeuers') = Cardinality(Dequeuers) - 1
    BY <1>1, <1>10, ThreadGoesOn DEF WriteAsyncWrites, Coming
  <2>2. Len(inFlight') = Len(inFlight) + 1
    BY <1>10, AppendProperties DEF WriteAsyncWrites, TypeOK
  <2>3. QED
    BY <1>1, <1>3, <1>10, <2>1, <2>2 DEF WriteAsyncWrites, CountInv, BacklogConserved
<1>11. CASE WriteCompletes
  <2>1. Goes(Io, "idle", "dequeue")
    <3>1. Head(inFlight) = EmptyPacket
      BY <1>11, HeadTailProperties DEF WriteCompletes, EmptyWrites
    <3>2. QED BY <1>11, <3>1 DEF WriteCompletes, WriteSucceeds
  <2>2. /\ IsFiniteSet(Dequeuers')
        /\ Cardinality(Dequeuers') = Cardinality(Dequeuers) + 1
    BY <1>1, <1>2, <2>1, ThreadGoesOn DEF Coming
  <2>3. Len(inFlight') = Len(inFlight) - 1
    BY <1>11, HeadTailProperties DEF WriteCompletes, TypeOK
  <2>4. QED
    BY <1>1, <1>3, <1>11, <2>2, <2>3 DEF WriteCompletes, CountInv, BacklogConserved
<1>12. CASE UNCHANGED vars
  BY <1>12 DEF vars, CountInv, BacklogConserved, Queued, Dequeuers
<1>13. QED
  BY <1>4, <1>5, <1>6, <1>7, <1>8, <1>9, <1>10, <1>11, <1>12
  DEF Next, Send, WriteAsync

(* While enqueue finds memory, a thread that comes to try_dequeue finds a  *)
(* packet: there are as many in the queue as there are such threads.       *)
LEMMA DequeueFindsPacket ==
    ASSUME TypeOK, CountInv, allocFailures = 0,
           NEW t \in Threads, pc[t] = "dequeue"
    PROVE  NonEmpty(sendQueue)
<1>1. /\ Cardinality(Queued) \in Nat /\ Cardinality(Dequeuers) \in Nat
      /\ Cardinality(Queued) = lostRaces + Len(inFlight) + Cardinality(Dequeuers)
      /\ lostRaces \in Nat /\ Len(inFlight) \in Nat
  <2>1. /\ IsFiniteSet(Queued) /\ IsFiniteSet(Dequeuers)
        /\ Cardinality(Queued) + 0 =
               lostRaces + Len(inFlight) + Cardinality(Dequeuers)
    BY DEF CountInv, BacklogConserved
  <2>2. lostRaces \in Nat /\ Len(inFlight) \in Nat BY LenProperties DEF TypeOK
  <2>3. QED BY <2>1, <2>2, FS_CardinalityType
<1>2. Cardinality(Dequeuers) # 0
  <2>1. t \in Dequeuers BY DEF Dequeuers
  <2>2. QED BY <2>1, FS_EmptySet DEF CountInv
<1>3. Queued # {} BY <1>1, <1>2, FS_EmptySet, SMTT(30)
<1>4. PICK s \in Senders : 1..Len(sendQueue[s]) # {} BY <1>3 DEF Queued
<1>5. sendQueue[s] # <<>> /\ s \in DOMAIN sendQueue BY <1>4 DEF TypeOK
<1>6. QED BY <1>5 DEF NonEmpty, Servable

(* So no step gets to async_write before an enqueue has failed. *)
LEMMA NextNeverWrites ==
    SessionInv /\ CountInv /\ NeverWrites /\ [Next]_vars => NeverWrites'
<1> SUFFICES ASSUME TypeOK, CountInv, NeverWrites, [Next]_vars, allocFailures' = 0
             PROVE  inFlight' = <<>> /\ wire' = {}
  BY DEF SessionInv, NeverWrites
<1>1. allocFailures = 0
  <2>1. allocFailures \in Nat BY SessionAssumption DEF TypeOK
  <2>2. allocFailures' = allocFailures \/ allocFailures' = allocFailures + 1
    BY DEF Next, Send, WriteAsync, vars, SendEnqueue, SendEnqueueFails, SendWins,
           SendLoses, WriteAsyncDequeues, WriteAsyncResets, WriteAsyncWrites,
           WriteCompletes
  <2>3. QED BY <2>1, <2>2
<1>2. inFlight = <<>> /\ wire = {} BY <1>1 DEF NeverWrites
<1>3. ~WriteCompletes BY <1>2 DEF WriteCompletes
<1>4. ASSUME NEW t \in Threads PROVE ~WriteAsyncWrites(t)
  BY <1>1, <1>4, DequeueFindsPacket DEF WriteAsyncWrites, Goes
<1>5. UNCHANGED <<inFlight, wire>>
  BY <1>3, <1>4
  DEF Next, Send, WriteAsync, vars, SendEnqueue, SendEnqueueFails, SendWins,
      SendLoses, WriteAsyncDequeues, WriteAsyncResets
<1>6. QED BY <1>2, <1>5

-----------------------------------------------------------------------------
(* The members, the threads and the history of a session keep their types. *)
THEOREM SessionTypeCorrect == Spec => []TypeOK
<1>1. SessionInv => TypeOK BY DEF SessionInv
<1>2. QED BY InitSession, NextSession, <1>1, PTL DEF Spec

(* However many threads call Send, the socket has one writer at a time,    *)
(* and _isWriting says whether it has one.                                 *)
THEOREM SessionOneWriter == Spec => []OneWriter
<1>1. SessionInv => OneWriter BY DEF SessionInv
<1>2. QED BY InitSession, NextSession, <1>1, PTL DEF Spec

(* The backlog is exactly the lost races and the Sends under way, less the *)
(* packets without memory, for any number of senders and packets: what a   *)
(* lost race leaves in the queue is never worked off.                      *)
THEOREM SessionBacklog == Spec => []BacklogConserved
<1>1. Init => SessionInv /\ CountInv BY InitSession, InitCount
<1>2. SessionInv /\ CountInv /\ [Next]_vars => (SessionInv /\ CountInv)'
  BY NextSession, NextCount
<1>3. CountInv => BacklogConserved BY DEF CountInv
<1>4. QED BY <1>1, <1>2, <1>3, PTL DEF Spec

(* As long as enqueue finds memory nothing is ever passed to async_write,  *)
(* however many threads call Send and however they interleave.             *)
THEOREM SessionNeverWrites == Spec => []NeverWrites
<1>1. Init => SessionInv /\ CountInv /\ NeverWrites
  BY InitSession, InitCount DEF Init, NeverWrites
<1>2. SessionInv /\ CountInv /\ NeverWrites /\ [Next]_vars
          => (SessionInv /\ CountInv /\ NeverWrites)'
  BY NextSession, NextCount, NextNeverWrites
<1>3. QED BY <1>1, <1>2, PTL DEF Spec
=============================================================================
