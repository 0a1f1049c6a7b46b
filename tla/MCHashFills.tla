----------------------------- MODULE MCHashFills -----------------------------
(***************************************************************************)
(* One behaviour of ImplicitProducerHash, of far too many threads for all  *)
(* of them to be checked: the main table runs out of empty slots while the *)
(* count of its entries stays below the three quarters at which threads    *)
(* have to wait for a larger one.                                          *)
(*                                                                         *)
(* Threads 1 to 5 are entered in the first table, of C slots.  Threads 6   *)
(* to 23 have passed its tests when thread 24 replaces it: they are late.  *)
(* Thread n - 5 moves to the second table and ends, late thread n takes    *)
(* its slot of the first table, which counts n out, and a new thread with  *)
(* the identifier n - 5 takes its slot of the second, which counts it out  *)
(* as well: two slots in use have one count.  At its next call n moves to  *)
(* the second table without being counted in.  Then new threads fill the   *)
(* slots that are left, the last of them while thread 65 has begun to      *)
(* allocate a third table.                                                 *)
(***************************************************************************)
EXTENDS ImplicitProducerHash, SequencesExt

VARIABLE at   \* the position in the schedule

C == INITIAL_IMPLICIT_PRODUCER_HASH_SIZE

First == 1 .. 5
Late == 6 .. 23
Fillers == 25 .. 64
AllThreads == 1 .. 65

(* A late thread and the one whose slot it takes begin at the same slot of *)
(* the first table, and so as to collide little in the second.             *)
ChainHash(n) == 6 * ((n - 1) % 5) + C * (((n - 1) \div 5) % 2)
ChainSlot(n) == ChainHash(n) + (n - 1) \div 10
FreeSlots == (0 .. 2 * C - 1) \ ({ChainSlot(n) : n \in First \cup Late} \cup {C - 2})

(* Each filler begins at a slot of the second table that is left. *)
SpreadHash ==
    [n \in AllThreads |->
         IF n \in First \cup Late THEN ChainHash(n)
         ELSE IF n \in Fillers
              THEN CHOOSE i \in FreeSlots : Cardinality(FreeSlots \cap (0 .. i)) = n - 24
         ELSE C - 2]

-----------------------------------------------------------------------------
(* The schedule: what which thread does, and how far it gets. *)

Call(n, to) == [thread |-> n, does |-> "call", to |-> to]
Exit(n) == [thread |-> n, does |-> "exit", to |-> "idle"]
Each(a, b, to) == [i \in 1 .. b - a + 1 |-> Call(a + i - 1, to)]

(* Late thread n takes the slot of thread n - 5. *)
Succeeds(n) ==
    <<Call(n - 5, "idle"), Exit(n - 5), Call(n, "idle"), Call(n - 5, "idle")>>

Schedule ==
    Each(1, 5, "idle")
    \o Each(6, 23, "room") \o <<Call(24, "resize")>>
    \o Each(6, 23, "insert") \o <<Call(24, "idle")>>
    \o FlattenSeq([i \in 1 .. 18 |-> Succeeds(5 + i)])
    \o Each(19, 23, "idle")
    \o Each(25, 49, "idle") \o <<Call(65, "resize")>>
    \o Each(50, 64, "idle")

FillInit == Init /\ at = 1

FillNext ==
    /\ at <= Len(Schedule)
    /\ LET now == Schedule[at]
           n == now.thread
       IN  /\ \/ now.does = "call" /\ GetBegins(n)
              \/ now.does = "call" /\ GetGoesOn(n)
              \/ now.does = "exit" /\ Exits(n)
              \/ now.does = "exit" /\ ExitGoesOn(n)
           /\ ~(ResizeFails(n) \/ CreateFails(n))
           /\ Creates(n) => inactive = {}
           /\ at' = IF pc'[n] = now.to THEN at + 1 ELSE at

FillSpec == FillInit /\ [][FillNext]_<<vars, at>>
=============================================================================
