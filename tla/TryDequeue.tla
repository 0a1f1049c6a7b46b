----------------------------- MODULE TryDequeue -----------------------------
(***************************************************************************)
(* try_dequeue and size_approx of moodycamel::ConcurrentQueue: walks over  *)
(* the list of streams, while producers add elements and streams and other *)
(* consumers take elements away.  The list grows at its head and nothing   *)
(* leaves it, so the streams are 1 .. made in the order of their creation, *)
(* and a walk goes down from made to 1.  What a stream promises is in      *)
(* module Stream; of its elements only their number counts here.           *)
(*                                                                         *)
(* A step is one look at a stream, or one call of its dequeue.             *)
(***************************************************************************)
EXTENDS Naturals

CONSTANTS
    Consumers,
    MaxStreams,    \* bound on the streams
    MaxSize        \* bound on the elements of a stream

ASSUME TryDequeueAssumption == MaxStreams \in Nat /\ MaxSize \in Nat

VARIABLES
    made,            \* producerListTail
    size,            \* the elements of each stream
    pc,
    ptr,             \* the stream a walk has come to, 0 for nullptr
    nonEmptyCount,
    best, bestSize,  \* the longest stream seen, 0 for none
    total,           \* size_approx's local size
    answer,          \* what the last call returned
    alone,           \* history: did no other call overlap this one?
    sawEmpty         \* history: was the queue empty at a moment of the call?

queueVars == <<made, size>>
locals == <<ptr, nonEmptyCount, best, bestSize, total>>
history == <<alone, sawEmpty>>
vars == <<queueVars, pc, locals, answer, history>>

Streams == 1 .. MaxStreams
Empty == \A s \in Streams : size[s] = 0

Init ==
    /\ made = 0
    /\ size = [s \in Streams |-> 0]
    /\ pc = [c \in Consumers |-> "idle"]
    /\ ptr = [c \in Consumers |-> 0]
    /\ nonEmptyCount = [c \in Consumers |-> 0]
    /\ best = [c \in Consumers |-> 0]
    /\ bestSize = [c \in Consumers |-> 0]
    /\ total = [c \in Consumers |-> 0]
    /\ answer = [c \in Consumers |-> "none"]
    /\ alone = [c \in Consumers |-> TRUE]
    /\ sawEmpty = [c \in Consumers |-> FALSE]

Goes(c, to) == pc' = [pc EXCEPT ![c] = to]

(* c takes an element of s; for the calls under way the queue may now have *)
(* been empty.                                                             *)
Took(s) ==
    /\ size' = [size EXCEPT ![s] = @ - 1]
    /\ sawEmpty' = [c \in Consumers |->
                       sawEmpty[c] \/ \A r \in Streams : size'[r] = 0]

-----------------------------------------------------------------------------
(* Producers *)

(* add_producer: the new stream is the head of the list. *)
AddProducer ==
    /\ made < MaxStreams
    /\ made' = made + 1
    /\ UNCHANGED <<size, pc, locals, answer, history>>

(* enqueue by the thread of stream s *)
Put(s) ==
    /\ s <= made /\ size[s] < MaxSize
    /\ size' = [size EXCEPT ![s] = @ + 1]
    /\ UNCHANGED <<made, pc, locals, answer, history>>

-----------------------------------------------------------------------------
(* Consumers *)

(* A call begins at the head of the list.  Calls under way are not alone. *)
Begins(c, at) ==
    /\ pc[c] = "idle"
    /\ Goes(c, at)
    /\ ptr' = [ptr EXCEPT ![c] = made]
    /\ answer' = [answer EXCEPT ![c] = "none"]
    /\ alone' = [d \in Consumers |->
                    IF d = c THEN \A e \in Consumers : pc[e] = "idle"
                             ELSE alone[d] /\ pc[d] = "idle"]
    /\ sawEmpty' = [sawEmpty EXCEPT ![c] = Empty]
    /\ UNCHANGED <<queueVars, nonEmptyCount, best, bestSize, total>>

TryDequeueCall(c) == Begins(c, "score")
SizeApproxCall(c) == Begins(c, "sum")

(* The call of c returns r; its locals are dead. *)
Returns(c, r) ==
    /\ Goes(c, "idle")
    /\ answer' = [answer EXCEPT ![c] = r]
    /\ ptr' = [ptr EXCEPT ![c] = 0]
    /\ nonEmptyCount' = [nonEmptyCount EXCEPT ![c] = 0]
    /\ best' = [best EXCEPT ![c] = 0]
    /\ bestSize' = [bestSize EXCEPT ![c] = 0]
    /\ total' = [total EXCEPT ![c] = 0]

(* Mutant: the stream looked at last is the best one. *)
Scores_Latest(c) ==
    LET s == ptr[c]
    IN  /\ pc[c] = "score" /\ s # 0 /\ nonEmptyCount[c] < 3
        /\ ptr' = [ptr EXCEPT ![c] = s - 1]
        /\ nonEmptyCount' = [nonEmptyCount EXCEPT
               ![c] = IF size[s] > 0 THEN @ + 1 ELSE @]
        /\ best' = [best EXCEPT ![c] = s]
        /\ bestSize' = [bestSize EXCEPT ![c] = size[s]]
        /\ UNCHANGED <<queueVars, pc, total, answer, history>>

(* The first loop of try_dequeue: the longest of three non-empty streams. *)
Scores(c) ==
    LET s == ptr[c]
    IN  /\ pc[c] = "score" /\ s # 0 /\ nonEmptyCount[c] < 3
        /\ ptr' = [ptr EXCEPT ![c] = s - 1]
        /\ nonEmptyCount' = [nonEmptyCount EXCEPT
               ![c] = IF size[s] > 0 THEN @ + 1 ELSE @]
        /\ best' = [best EXCEPT ![c] = IF size[s] > bestSize[c] THEN s ELSE @]
        /\ bestSize' = [bestSize EXCEPT
                            ![c] = IF size[s] > @ THEN size[s] ELSE @]
        /\ UNCHANGED <<queueVars, pc, total, answer, history>>

ScoresEnd(c) ==
    /\ pc[c] = "score" /\ (ptr[c] = 0 \/ nonEmptyCount[c] = 3)
    /\ nonEmptyCount[c] > 0
    /\ Goes(c, "best")
    /\ UNCHANGED <<queueVars, locals, answer, history>>

SeesNothing(c) ==
    /\ pc[c] = "score" /\ ptr[c] = 0 /\ nonEmptyCount[c] = 0
    /\ Returns(c, "false")
    /\ UNCHANGED <<queueVars, history>>

(* A stream refuses when it is empty, or when another consumer has not yet *)
(* taken back a claim it made too late.                                    *)
Refuses(s, c) ==
    \/ size[s] = 0
    \/ \E d \in Consumers \ {c} : \/ pc[d] = "best" /\ best[d] = s
                                  \/ pc[d] = "rest" /\ ptr[d] = s

DequeuesBest(c) ==
    /\ pc[c] = "best" /\ size[best[c]] > 0
    /\ Took(best[c])
    /\ Returns(c, "true")
    /\ UNCHANGED <<made, alone>>

(* The best stream refuses: all others are tried, from the list's head. *)
BestRefuses(c) ==
    /\ pc[c] = "best" /\ Refuses(best[c], c)
    /\ ptr' = [ptr EXCEPT ![c] = made]
    /\ Goes(c, "rest")
    /\ UNCHANGED <<queueVars, nonEmptyCount, best, bestSize, total, answer, history>>

DequeuesOther(c) ==
    /\ pc[c] = "rest" /\ ptr[c] \notin {0, best[c]}
    /\ size[ptr[c]] > 0
    /\ Took(ptr[c])
    /\ Returns(c, "true")
    /\ UNCHANGED <<made, alone>>

Passes(c) ==
    /\ pc[c] = "rest" /\ ptr[c] # 0
    /\ ptr[c] = best[c] \/ Refuses(ptr[c], c)
    /\ ptr' = [ptr EXCEPT ![c] = @ - 1]
    /\ UNCHANGED <<queueVars, pc, nonEmptyCount, best, bestSize, total, answer,
                   history>>

AllRefuse(c) ==
    /\ pc[c] = "rest" /\ ptr[c] = 0
    /\ Returns(c, "false")
    /\ UNCHANGED <<queueVars, history>>

(* Mutant: the last stream of the list is left out. *)
Sums_ButLast(c) ==
    /\ pc[c] = "sum" /\ ptr[c] # 0
    /\ total' = [total EXCEPT ![c] = IF ptr[c] = 1 THEN @ ELSE @ + size[ptr[c]]]
    /\ ptr' = [ptr EXCEPT ![c] = @ - 1]
    /\ UNCHANGED <<queueVars, pc, nonEmptyCount, best, bestSize, answer, history>>

(* The loop of size_approx *)
Sums(c) ==
    /\ pc[c] = "sum" /\ ptr[c] # 0
    /\ total' = [total EXCEPT ![c] = @ + size[ptr[c]]]
    /\ ptr' = [ptr EXCEPT ![c] = @ - 1]
    /\ UNCHANGED <<queueVars, pc, nonEmptyCount, best, bestSize, answer, history>>

SumReturns(c) ==
    /\ pc[c] = "sum" /\ ptr[c] = 0
    /\ Returns(c, IF total[c] > 0 THEN "some" ELSE "zero")
    /\ UNCHANGED <<queueVars, history>>

-----------------------------------------------------------------------------
Consumer(c) ==
    \/ TryDequeueCall(c) \/ SizeApproxCall(c)
    \/ Scores(c) \/ ScoresEnd(c) \/ SeesNothing(c)
    \/ DequeuesBest(c) \/ BestRefuses(c)
    \/ DequeuesOther(c) \/ Passes(c) \/ AllRefuse(c)
    \/ Sums(c) \/ SumReturns(c)

Next ==
    \/ AddProducer
    \/ \E s \in Streams : Put(s)
    \/ \E c \in Consumers : Consumer(c)

Spec == Init /\ [][Next]_vars

-----------------------------------------------------------------------------

(* A consumer whose call overlapped no other consumer's is told that there *)
(* is nothing to dequeue, or nothing pending, only if the queue was empty  *)
(* at one moment of the call, though the streams were looked at one after  *)
(* the other and producers went on all the while.                          *)
NothingMeansEmpty ==
    \A c \in Consumers :
        alone[c] /\ answer[c] \in {"false", "zero"} => sawEmpty[c]

(* A lone consumer that has seen an element is served by the stream it     *)
(* chose, and never comes to try the others: so the worker of the execute  *)
(* queue, once it has seen a packet pending, gets one.                     *)
SeenIsServed ==
    \A c \in Consumers :
        /\ alone[c] /\ pc[c] = "best" => ~Refuses(best[c], c)
        /\ alone[c] => pc[c] # "rest"
=============================================================================
