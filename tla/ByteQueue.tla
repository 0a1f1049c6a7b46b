------------------------------ MODULE ByteQueue ------------------------------
(***************************************************************************)
(* What a byte buffer of fixed capacity promises its caller: a first-in    *)
(* first-out queue of bytes with whole calls as steps and no positions, no *)
(* wrap-around and no flag.  RingBuffer implements it for a caller that    *)
(* keeps to the calls RingBuffer answers correctly.                        *)
(***************************************************************************)
EXTENDS Integers, Sequences

CONSTANTS Capacity, Idle

VARIABLES
    contents,   \* the bytes that were written and not yet read
    call,       \* the call in progress, or Idle
    result      \* the return value of the last call and the bytes it delivered

vars == <<contents, call, result>>

AtMost(a, b) == IF a <= b THEN a ELSE b
First(n) == SubSeq(contents, 1, n)
AllBut(n) == SubSeq(contents, n + 1, Len(contents))
Room == Capacity - Len(contents)

Init ==
    /\ contents = <<>>
    /\ call = Idle
    /\ result = [count |-> 0, bytes |-> <<>>]

Invoke ==
    /\ call = Idle
    /\ call' # Idle
    /\ UNCHANGED <<contents, result>>

(* As much of the source as there is room for gets in line. *)
WriteReturns ==
    /\ call # Idle
    /\ call.op = "Write"
    /\ LET n == AtMost(Len(call.src), Room)
       IN  /\ contents' = contents \o SubSeq(call.src, 1, n)
           /\ result' = [count |-> n, bytes |-> <<>>]
    /\ call' = Idle

(* The oldest bytes, as many as asked for or as there are, leave the line. *)
ReadReturns ==
    /\ call # Idle
    /\ call.op = "Read"
    /\ LET n == AtMost(call.length, Len(contents))
       IN  /\ result' = [count |-> n, bytes |-> First(n)]
           /\ contents' = AllBut(n)
    /\ call' = Idle

(* The same bytes are delivered and stay in line. *)
PeekReturns ==
    /\ call # Idle
    /\ call.op = "Peek"
    /\ LET n == AtMost(call.length, Len(contents))
       IN  result' = [count |-> n, bytes |-> First(n)]
    /\ UNCHANGED contents
    /\ call' = Idle

(* The caller drops bytes it has looked at in place. *)
Skip(n) ==
    /\ call = Idle
    /\ n <= Len(contents)
    /\ contents' = AllBut(n)
    /\ UNCHANGED <<call, result>>

(* The caller commits bytes it has stored in place. *)
Commit(n) ==
    /\ call = Idle
    /\ n <= Room
    /\ Len(contents') = Len(contents) + n
    /\ SubSeq(contents', 1, Len(contents)) = contents
    /\ UNCHANGED <<call, result>>

Next ==
    \/ Invoke \/ WriteReturns \/ ReadReturns \/ PeekReturns
    \/ \E n \in 0..Capacity : Skip(n) \/ Commit(n)

Spec == Init /\ [][Next]_vars
=============================================================================
