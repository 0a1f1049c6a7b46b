-------------------------------- MODULE Stream --------------------------------
(***************************************************************************)
(* What one producer's stream of the lock-free queue promises: a line into *)
(* which the producer puts numbered elements and from whose head consumers *)
(* take them, each element in one consumer's hands, unchanged, until it is *)
(* delivered.  ImplicitProducer implements this specification; the         *)
(* operators of ConcurrentQueue are its steps for a queue of many streams. *)
(***************************************************************************)
EXTENDS Naturals, Sequences

CONSTANTS Consumers, Period, None

VARIABLES line, taken, count

vars == <<line, taken, count>>

Init ==
    /\ line = <<>>
    /\ taken = [c \in Consumers |-> None]
    /\ count = 0

Put ==
    /\ line' = Append(line, count)
    /\ count' = (count + 1) % Period
    /\ UNCHANGED taken

Take(c) ==
    /\ line # <<>> /\ taken[c] = None
    /\ taken' = [taken EXCEPT ![c] = Head(line)]
    /\ line' = Tail(line)
    /\ UNCHANGED count

Deliver(c) ==
    /\ taken[c] # None
    /\ taken' = [taken EXCEPT ![c] = None]
    /\ UNCHANGED <<line, count>>

Next == Put \/ \E c \in Consumers : Take(c) \/ Deliver(c)

Spec == Init /\ [][Next]_vars
=============================================================================
