--------------------------- MODULE ConcurrentQueue ---------------------------
(***************************************************************************)
(* The lock-free queue behind core::ConcurrentQueue (queue_adapter.hpp),   *)
(* moodycamel::ConcurrentQueue, as this repository calls it: without       *)
(* tokens, so that every thread that enqueues owns one implicit producer   *)
(* stream (module ImplicitProducerHash).  A stream is first-in first-out   *)
(* (ImplicitProducer implements Stream); nothing is promised between       *)
(* streams.  A queue is therefore a function from threads to sequences.    *)
(* Each call is one atomic step: a stream publishes an element with one    *)
(* store of tailIndex and gives it away with one update of headIndex, and  *)
(* a walk over the streams that finds nothing had a moment at which there  *)
(* was nothing (TryDequeue).                                               *)
(***************************************************************************)
EXTENDS Naturals, Sequences

(* A queue in which no thread of Threads has enqueued yet. *)
EmptyQueue(Threads) == [t \in Threads |-> <<>>]

(* enqueue(item) by thread t: the item ends up at the tail of t's stream. *)
enqueue(q, t, item) == [q EXCEPT ![t] = Append(@, item)]

(* The streams try_dequeue can serve.  It takes the longest of the first   *)
(* three non-empty streams of the producer list and tries every other one  *)
(* before it gives up, so it may serve any non-empty stream.  With one     *)
(* consumer it fails only when there is none; with several it may also     *)
(* fail while another one is taking back a claim it made too late, which   *)
(* the modules that have several consumers model as a step of their own.   *)
Servable(q) == {t \in DOMAIN q : q[t] # <<>>}

(* try_dequeue(item) served by the stream of t: the queue it leaves. *)
dequeue(q, t) == [q EXCEPT ![t] = Tail(@)]

(* size_approx() > 0, which sums tailIndex - headIndex over the streams. *)
NonEmpty(q) == Servable(q) # {}
=============================================================================
