------------------------------ MODULE SessionBase ------------------------------
(***************************************************************************)
(* core::SessionBase, the sending side: any thread calls Send, which       *)
(* queues the packet and, if it can raise _isWriting, runs WriteAsync; the *)
(* completion handler of async_write runs WriteAsync again on the thread   *)
(* of the io_context.                                                      *)
(*                                                                         *)
(* WriteAsync is modelled as it is written: a try_dequeue that succeeds    *)
(* ends it, one that fails goes on to async_write.  A step is what a       *)
(* thread does up to its next access of _sendQueue or _isWriting.  Packets *)
(* are numbered per sender: <<s, n>> is the n-th packet s passes to Send.  *)
(***************************************************************************)
EXTENDS ConcurrentQueue, Integers, FiniteSets

CONSTANTS
    Senders,           \* threads that call Send
    Io,                \* the thread that runs the completion handlers
    MaxPackets,        \* bound: packets each sender passes to Send
    MaxAllocFailures,  \* bound: enqueue calls that find no memory
    EmptyPacket        \* a default-constructed std::vector<uint8_t>

ASSUME SessionAssumption ==
    /\ Io \notin Senders
    /\ MaxPackets \in Nat
    /\ MaxAllocFailures \in Nat
    /\ EmptyPacket \notin Senders \X (1..MaxPackets)

VARIABLES
    sendQueue,      \* _sendQueue
    isWriting,      \* _isWriting
    pc,             \* where each thread is in Send or WriteAsync
    inFlight,       \* the packets of the async_writes that are under way
    allocFailures,  \* what its bound counts
    sent,           \* history: packets each sender has passed to Send
    lostRaces,      \* history: Sends that found _isWriting raised
    wire            \* history: the packets async_write has written

vars == <<sendQueue, isWriting, pc, inFlight, allocFailures, sent, lostRaces,
          wire>>

Threads == Senders \cup {Io}
Packets == 1..MaxPackets
Items == Senders \X Packets
Writing == {"dequeue", "reset"}

Goes(t, from, to) == pc[t] = from /\ pc' = [pc EXCEPT ![t] = to]

-----------------------------------------------------------------------------

(* The constructor. *)
Init ==
    /\ sendQueue = EmptyQueue(Senders)
    /\ isWriting = FALSE
    /\ pc = [t \in Threads |-> "idle"]
    /\ inFlight = <<>>
    /\ allocFailures = 0
    /\ sent = [s \in Senders |-> 0]
    /\ lostRaces = 0
    /\ wire = {}

-----------------------------------------------------------------------------
(* Send *)

(* Mutant: the packet of the previous Send is queued, through a reused     *)
(* buffer.                                                                 *)
SendEnqueue_Stale(s) ==
    /\ Goes(s, "idle", "exchange")
    /\ sent[s] < MaxPackets
    /\ sent' = [sent EXCEPT ![s] = @ + 1]
    /\ sendQueue' = enqueue(sendQueue, s, sent[s])
    /\ UNCHANGED <<isWriting, inFlight, allocFailures, lostRaces, wire>>

(* _sendQueue.enqueue(data).  If the copy of data throws, so does Send,    *)
(* and nothing has changed.                                                *)
SendEnqueue(s) ==
    /\ Goes(s, "idle", "exchange")
    /\ sent[s] < MaxPackets
    /\ sent' = [sent EXCEPT ![s] = @ + 1]
    /\ sendQueue' = enqueue(sendQueue, s, sent[s] + 1)
    /\ UNCHANGED <<isWriting, inFlight, allocFailures, lostRaces, wire>>

(* The same, without memory for the packet; the result is ignored. *)
SendEnqueueFails(s) ==
    /\ Goes(s, "idle", "exchange")
    /\ sent[s] < MaxPackets
    /\ allocFailures < MaxAllocFailures
    /\ allocFailures' = allocFailures + 1
    /\ sent' = [sent EXCEPT ![s] = @ + 1]
    /\ UNCHANGED <<sendQueue, isWriting, inFlight, lostRaces, wire>>

(* Mutant: _isWriting is tested without being set. *)
SendWins_NotSet(s) ==
    /\ ~isWriting
    /\ Goes(s, "exchange", "dequeue")
    /\ UNCHANGED <<sendQueue, isWriting, inFlight, allocFailures, sent,
                   lostRaces, wire>>

(* compare_exchange_strong(expected, true) succeeds: on to WriteAsync. *)
SendWins(s) ==
    /\ ~isWriting
    /\ Goes(s, "exchange", "dequeue")
    /\ isWriting' = TRUE
    /\ UNCHANGED <<sendQueue, inFlight, allocFailures, sent, lostRaces, wire>>

(* It fails: Send returns and leaves the packet to whoever is writing. *)
SendLoses(s) ==
    /\ isWriting
    /\ Goes(s, "exchange", "idle")
    /\ lostRaces' = lostRaces + 1
    /\ UNCHANGED <<sendQueue, isWriting, inFlight, allocFailures, sent, wire>>

-----------------------------------------------------------------------------
(* WriteAsync *)

(* Mutant: the packet is looked at and not taken. *)
WriteAsyncDequeues_Peeks(t, s) ==
    /\ Goes(t, "dequeue", "reset")
    /\ s \in Servable(sendQueue)
    /\ UNCHANGED <<sendQueue, isWriting, inFlight, allocFailures, sent,
                   lostRaces, wire>>

(* Mutant: while in place of if, so that WriteAsync drains the queue and   *)
(* goes on to write.                                                       *)
WriteAsyncDequeues_Drains(t, s) ==
    /\ Goes(t, "dequeue", "dequeue")
    /\ s \in Servable(sendQueue)
    /\ sendQueue' = dequeue(sendQueue, s)
    /\ UNCHANGED <<isWriting, inFlight, allocFailures, sent, lostRaces, wire>>

(* try_dequeue(packet) succeeds with a packet of s. *)
WriteAsyncDequeues(t, s) ==
    /\ Goes(t, "dequeue", "reset")
    /\ s \in Servable(sendQueue)
    /\ sendQueue' = dequeue(sendQueue, s)
    /\ UNCHANGED <<isWriting, inFlight, allocFailures, sent, lostRaces, wire>>

(* Mutant: WriteAsync returns with _isWriting still raised. *)
WriteAsyncResets_Missing(t) ==
    /\ Goes(t, "reset", "idle")
    /\ UNCHANGED <<sendQueue, isWriting, inFlight, allocFailures, sent,
                   lostRaces, wire>>

(* _isWriting = false; return: the packet goes out of scope. *)
WriteAsyncResets(t) ==
    /\ Goes(t, "reset", "idle")
    /\ isWriting' = FALSE
    /\ UNCHANGED <<sendQueue, inFlight, allocFailures, sent, lostRaces, wire>>

(* try_dequeue fails: async_write of the vector it left empty. *)
WriteAsyncWrites(t) ==
    /\ ~NonEmpty(sendQueue)
    /\ Goes(t, "dequeue", "idle")
    /\ inFlight' = Append(inFlight, EmptyPacket)
    /\ UNCHANGED <<sendQueue, isWriting, allocFailures, sent, lostRaces, wire>>

(* asio completes a write of no bytes without touching the socket, so it   *)
(* cannot fail; any other may.                                             *)
WriteSucceeds(packet) == IF packet = EmptyPacket THEN {TRUE} ELSE BOOLEAN

(* The completion handler: an error ends it, otherwise WriteAsync again. *)
WriteCompletes ==
    /\ inFlight # <<>>
    /\ \E ok \in WriteSucceeds(Head(inFlight)) :
           /\ Goes(Io, "idle", IF ok THEN "dequeue" ELSE "idle")
           /\ wire' = IF ok THEN wire \cup {Head(inFlight)} ELSE wire
    /\ inFlight' = Tail(inFlight)
    /\ UNCHANGED <<sendQueue, isWriting, allocFailures, sent, lostRaces>>

-----------------------------------------------------------------------------

Send(s) ==
    SendEnqueue(s) \/ SendEnqueueFails(s) \/ SendWins(s) \/ SendLoses(s)

WriteAsync(t) ==
    \/ \E s \in Senders : WriteAsyncDequeues(t, s)
    \/ WriteAsyncResets(t)
    \/ WriteAsyncWrites(t)

Next ==
    \/ \E s \in Senders : Send(s)
    \/ \E t \in Threads : WriteAsync(t)
    \/ WriteCompletes

Spec == Init /\ [][Next]_vars

(* A thread need not call Send, but finishes the call; the io_context runs. *)
Fairness ==
    /\ \A s \in Senders : WF_vars(SendWins(s) \/ SendLoses(s) \/ WriteAsync(s))
    /\ WF_vars(WriteAsync(Io))
    /\ WF_vars(WriteCompletes)

FairSpec == Spec /\ Fairness

-----------------------------------------------------------------------------

(* Every member, thread and history variable has its type. *)
TypeOK ==
    /\ sendQueue \in [Senders -> Seq(Packets)]
    /\ isWriting \in BOOLEAN
    /\ pc \in [Threads -> {"idle", "exchange"} \cup Writing]
    /\ inFlight \in Seq(Items \cup {EmptyPacket})
    /\ allocFailures \in 0..MaxAllocFailures
    /\ sent \in [Senders -> 0..MaxPackets]
    /\ lostRaces \in Nat
    /\ wire \subseteq Items \cup {EmptyPacket}

(* The socket has one writer at a time, as async_write demands: _isWriting *)
(* is raised exactly while one thread is in WriteAsync or one async_write  *)
(* is under way, and never two of them.                                    *)
OneWriter ==
    /\ \A t, u \in Threads : pc[t] \in Writing /\ pc[u] \in Writing => t = u
    /\ Len(inFlight) <= 1
    /\ inFlight # <<>> => \A t \in Threads : pc[t] \notin Writing
    /\ isWriting <=> inFlight # <<>> \/ \E t \in Threads : pc[t] \in Writing

(* What makes it inductive: only empty vectors get to async_write, whose   *)
(* completion therefore always runs WriteAsync again (and of whose buffer, *)
(* gone when WriteAsync returns, no byte is read).                         *)
EmptyWrites == inFlight \in Seq({EmptyPacket})

(* The places in the queue that hold a packet. *)
Queued == UNION {{s} \X (1..Len(sendQueue[s])) : s \in Senders}

(* The threads on their way to a try_dequeue. *)
Dequeuers == {t \in Threads : pc[t] \in {"exchange", "dequeue"}}

(* Every Send takes one packet out of the queue or, when it finds          *)
(* _isWriting raised, leaves one in it for good: the backlog is the number *)
(* of lost races and of Sends on their way to WriteAsync, less the packets *)
(* enqueue had no memory for, and no later Send works it off.              *)
BacklogConserved ==
    Cardinality(Queued) + allocFailures =
        lostRaces + Len(inFlight) + Cardinality(Dequeuers)

(* As long as enqueue finds memory WriteAsync never gets to async_write:   *)
(* whoever raises _isWriting finds a packet to dequeue, and dequeuing one  *)
(* ends WriteAsync.                                                        *)
NeverWrites == allocFailures = 0 => inFlight = <<>> /\ wire = {}

(* _isWriting does not stay raised: after a failed enqueue the session     *)
(* writes empty packets in a loop, but only until there is one to dequeue. *)
FlagReleased ==
    (isWriting /\ (allocFailures = 0 \/ NonEmpty(sendQueue))) ~> ~isWriting

(* A packet passed to Send is written to the socket. *)
SentIsWritten ==
    \A s \in Senders, n \in Packets : sent[s] >= n ~> <<s, n>> \in wire
=============================================================================
