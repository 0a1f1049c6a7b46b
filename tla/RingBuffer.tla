------------------------------ MODULE RingBuffer ------------------------------
(***************************************************************************)
(* core::RingBuffer: a byte queue in a circular array, with a read         *)
(* position, a write position and a flag that tells full from empty when   *)
(* the two are equal.  The class has no lock: one caller makes one call at *)
(* a time.  Write, Read and Peek are loops; one step is one iteration.     *)
(*                                                                         *)
(* Strict says whether the caller keeps away from the two calls that the   *)
(* class does not answer as a queue would: an advance by zero, and a Peek  *)
(* of more bytes than there are.                                           *)
(***************************************************************************)
EXTENDS Integers, Sequences

CONSTANTS
    Bytes,       \* the values a byte can have
    Fresh,       \* the byte std::vector fills the buffer with
    Capacity,    \* _capacity
    MaxLength,   \* bound: the length argument of a call
    Strict,      \* the caller avoids the calls with surprising answers
    Idle         \* no call in progress

VARIABLES
    buffer,      \* _buffer
    readPos,     \* _readPos
    writePos,    \* _writePos
    isFull,      \* _isFull
    call,        \* the call in progress with its arguments, or Idle
    count,       \* the local written, read or peek of that call
    pos,         \* the local pos of Peek
    dest,        \* the bytes that Read or Peek has stored through dest
    result       \* what the last of Write, Read and Peek returned

memberVars == <<buffer, readPos, writePos, isFull>>
localVars == <<call, count, pos, dest>>
vars == <<memberVars, localVars, result>>

Positions == 0..(Capacity - 1)
Lengths == 0..MaxLength
Sources == UNION {[1..n -> Bytes] : n \in Lengths}
Calls ==
    [op : {"Write"}, src : Sources]
        \cup [op : {"Read", "Peek"}, length : Lengths]

ASSUME RingAssumption ==
    /\ Fresh \in Bytes
    /\ Capacity \in Nat \ {0}
    /\ MaxLength \in Nat
    /\ Strict \in BOOLEAN
    /\ Idle \notin Calls

(* The position n bytes after p, all around the array. *)
After(p, n) == (p + n) % Capacity

ReadableBytes ==
    IF isFull THEN Capacity
    ELSE IF writePos >= readPos THEN writePos - readPos
    ELSE Capacity - readPos + writePos

WritableBytes == Capacity - ReadableBytes

-----------------------------------------------------------------------------

(* The constructor. *)
Init ==
    /\ buffer = [i \in Positions |-> Fresh]
    /\ readPos = 0
    /\ writePos = 0
    /\ isFull = FALSE
    /\ call = Idle
    /\ count = 0
    /\ pos = 0
    /\ dest = <<>>
    /\ result = [count |-> 0, bytes |-> <<>>]

(* A call begins, with its locals set. *)
Begin(c) ==
    /\ call = Idle
    /\ call' = c
    /\ count' = 0
    /\ pos' = readPos
    /\ dest' = <<>>
    /\ UNCHANGED <<memberVars, result>>

(* The call in progress is of op. *)
In(op) == call # Idle /\ call.op = op

(* The call returns count. *)
Return ==
    /\ call' = Idle
    /\ result' = [count |-> count, bytes |-> dest]
    /\ count' = 0 /\ pos' = 0 /\ dest' = <<>>
    /\ UNCHANGED memberVars

-----------------------------------------------------------------------------

WriteCall(src) == Begin([op |-> "Write", src |-> src])

(* written < length && WritableBytes() > 0 *)
WriteGoesOn == count < Len(call.src) /\ WritableBytes > 0

(* Mutant: the flag is not set when the write position catches up. *)
WriteByte_NoFlag ==
    /\ In("Write") /\ WriteGoesOn
    /\ buffer' = [buffer EXCEPT ![writePos] = call.src[count + 1]]
    /\ writePos' = After(writePos, 1)
    /\ count' = count + 1
    /\ UNCHANGED <<readPos, isFull, call, pos, dest, result>>

(* Mutant: the write position runs past the end of the array. *)
WriteByte_NoWrap ==
    /\ In("Write") /\ WriteGoesOn
    /\ buffer' = [buffer EXCEPT ![writePos] = call.src[count + 1]]
    /\ writePos' = writePos + 1
    /\ count' = count + 1
    /\ isFull' = (isFull \/ writePos' = readPos)
    /\ UNCHANGED <<readPos, call, pos, dest, result>>

WriteByte ==
    /\ In("Write") /\ WriteGoesOn
    /\ buffer' = [buffer EXCEPT ![writePos] = call.src[count + 1]]
    /\ writePos' = After(writePos, 1)
    /\ count' = count + 1
    /\ isFull' = (isFull \/ writePos' = readPos)
    /\ UNCHANGED <<readPos, call, pos, dest, result>>

WriteReturn == In("Write") /\ ~WriteGoesOn /\ Return

-----------------------------------------------------------------------------

ReadCall(length) == Begin([op |-> "Read", length |-> length])

(* read < length && ReadableBytes() > 0 *)
ReadGoesOn == count < call.length /\ ReadableBytes > 0

ReadByte ==
    /\ In("Read") /\ ReadGoesOn
    /\ dest' = Append(dest, buffer[readPos])
    /\ readPos' = After(readPos, 1)
    /\ count' = count + 1
    /\ isFull' = FALSE
    /\ UNCHANGED <<buffer, writePos, call, pos, result>>

ReadReturn == In("Read") /\ ~ReadGoesOn /\ Return

-----------------------------------------------------------------------------

(* Peek stops at the write position only while the buffer is full. *)
PeekAnswers(length) ==
    length <= ReadableBytes \/ isFull \/ ReadableBytes = 0

PeekCall(length) ==
    /\ Strict => PeekAnswers(length)
    /\ Begin([op |-> "Peek", length |-> length])

(* The loop's condition, and its break: if (pos == _writePos && _isFull). *)
PeekGoesOn ==
    /\ count < call.length /\ ReadableBytes > 0
    /\ ~(count > 0 /\ pos = writePos /\ isFull)

PeekByte ==
    /\ In("Peek") /\ PeekGoesOn
    /\ dest' = Append(dest, buffer[pos])
    /\ pos' = After(pos, 1)
    /\ count' = count + 1
    /\ UNCHANGED <<memberVars, call, result>>

PeekReturn == In("Peek") /\ ~PeekGoesOn /\ Return

-----------------------------------------------------------------------------
(* The calls for a caller that works in place, between WriterPtr or        *)
(* ReadPtr and an advance within what is writable or readable.             *)

(* *(WriterPtr() + i) = b, inside the array. *)
StoreThroughWriterPtr(i, b) ==
    /\ call = Idle
    /\ i < WritableBytes
    /\ writePos + i < Capacity
    /\ buffer' = [buffer EXCEPT ![writePos + i] = b]
    /\ UNCHANGED <<readPos, writePos, isFull, localVars, result>>

AdvanceRead(length) ==
    /\ call = Idle
    /\ length <= ReadableBytes
    /\ Strict => length > 0
    /\ readPos' = After(readPos, length)
    /\ isFull' = FALSE
    /\ UNCHANGED <<buffer, writePos, localVars, result>>

AdvanceWrite(length) ==
    /\ call = Idle
    /\ length <= WritableBytes
    /\ Strict => length > 0
    /\ writePos' = After(writePos, length)
    /\ isFull' = (isFull \/ writePos' = readPos)
    /\ UNCHANGED <<buffer, readPos, localVars, result>>

-----------------------------------------------------------------------------

Next ==
    \/ \E src \in Sources : WriteCall(src)
    \/ \E length \in Lengths :
           \/ ReadCall(length) \/ PeekCall(length)
           \/ AdvanceRead(length) \/ AdvanceWrite(length)
    \/ WriteByte \/ WriteReturn
    \/ ReadByte \/ ReadReturn
    \/ PeekByte \/ PeekReturn
    \/ \E i \in Positions, b \in Bytes : StoreThroughWriterPtr(i, b)

Spec == Init /\ [][Next]_vars

-----------------------------------------------------------------------------

(* Every member and local has its type; the positions stay in the array. *)
TypeOK ==
    /\ buffer \in [Positions -> Bytes]
    /\ readPos \in Positions
    /\ writePos \in Positions
    /\ isFull \in BOOLEAN
    /\ call \in Calls \cup {Idle}
    /\ count \in Nat
    /\ pos \in Positions
    /\ dest \in Seq(Bytes)
    /\ result \in [count : Nat, bytes : Seq(Bytes)]

(* The flag is what tells a full buffer from an empty one: it is set only  *)
(* while the two positions are equal, whatever wrapped around before.      *)
FlagMeansFull == isFull => readPos = writePos

(* The bytes between the read position and the write position. *)
Contents ==
    [i \in 1..ReadableBytes |-> buffer[After(readPos, i - 1)]]

(* What the loops keep true, which the refinement rests on: how far the    *)
(* call in progress has come, and that it did so in order.                 *)
LoopInv ==
    /\ In("Write") =>
           /\ count <= Len(call.src) /\ count <= ReadableBytes /\ dest = <<>>
           /\ \A i \in 1..count :
                  Contents[ReadableBytes - count + i] = call.src[i]
    /\ In("Read") => count = Len(dest) /\ count <= call.length
    /\ In("Peek") =>
           /\ count = Len(dest) /\ count <= call.length
           /\ Strict => /\ PeekAnswers(call.length)
                        /\ pos = After(readPos, count)
                        /\ count <= ReadableBytes
                        /\ dest = SubSeq(Contents, 1, count)

(* The queue the caller sees: while Write runs, what it has stored is not  *)
(* in line yet; while Read runs, what it has taken is still in line.       *)
Visible ==
    IF In("Write") THEN SubSeq(Contents, 1, ReadableBytes - count)
    ELSE IF In("Read") THEN dest \o Contents
    ELSE Contents

Queue == INSTANCE ByteQueue WITH contents <- Visible

(* The circular array implements the byte queue: Write, Read, Peek and the *)
(* advances move whole runs of bytes in and out in order, across the end   *)
(* of the array, at the full and at the empty buffer.                      *)
ImplementsByteQueue == Queue!Spec

(* Peek delivers a preview of the bytes that a Read would deliver. *)
PeekPreviewsRead ==
    [][PeekReturn => /\ result'.count <= ReadableBytes
                     /\ result'.bytes = SubSeq(Contents, 1, result'.count)]_vars
=============================================================================
