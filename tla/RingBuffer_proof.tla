--------------------------- MODULE RingBuffer_proof ---------------------------
(***************************************************************************)
(* TLAPS proofs about RingBuffer, for any capacity, any bytes and any      *)
(* lengths.                                                                *)
(***************************************************************************)
EXTENDS RingBuffer, SequenceTheorems, TLAPS

-----------------------------------------------------------------------------
(* Positions. *)

(* Up to one turn, the modulo of After is one comparison. *)
LEMMA AfterValue ==
    ASSUME NEW p \in Positions, NEW n \in 0..Capacity
    PROVE  /\ After(p, n) \in Positions
           /\ After(p, n) = IF p + n < Capacity THEN p + n ELSE p + n - Capacity
<1>1. Capacity \in Nat /\ Capacity > 0 BY RingAssumption
<1>2. ASSUME NEW x \in 0..(Capacity - 1) PROVE x % Capacity = x
  BY <1>1
<1>3. ASSUME NEW x \in 0..(Capacity - 1)
      PROVE  (x + Capacity) % Capacity = x
  BY <1>1
<1>4. CASE p + n < Capacity
  <2>1. p + n \in 0..(Capacity - 1) BY <1>1, <1>4 DEF Positions
  <2>2. QED BY <1>2, <1>4, <2>1 DEF After, Positions
<1>5. CASE ~(p + n < Capacity)
  <2>1. p + n - Capacity \in 0..(Capacity - 1) BY <1>1, <1>5 DEF Positions
  <2>2. p + n = (p + n - Capacity) + Capacity BY <1>1 DEF Positions
  <2>3. QED BY <1>3, <1>5, <2>1, <2>2 DEF After, Positions
<1>6. QED BY <1>4, <1>5

(* Up to one turn, different offsets lead to different positions. *)
LEMMA AfterInjective ==
    ASSUME NEW p \in Positions, NEW m \in 0..(Capacity - 1),
           NEW n \in 0..(Capacity - 1), After(p, m) = After(p, n)
    PROVE  m = n
<1>1. Capacity \in Nat /\ Capacity > 0 BY RingAssumption
<1>2. m \in 0..Capacity /\ n \in 0..Capacity BY <1>1
<1>3. /\ After(p, m) = IF p + m < Capacity THEN p + m ELSE p + m - Capacity
      /\ After(p, n) = IF p + n < Capacity THEN p + n ELSE p + n - Capacity
  BY <1>2, AfterValue
<1>4. (IF p + m < Capacity THEN p + m ELSE p + m - Capacity)
          = IF p + n < Capacity THEN p + n ELSE p + n - Capacity
  BY <1>3
<1>5. p \in 0..(Capacity - 1) BY DEF Positions
<1>6. QED BY <1>1, <1>4, <1>5

(* Two moves are one. *)
LEMMA AfterAfter ==
    ASSUME NEW p \in Positions, NEW m \in 0..Capacity, NEW n \in 0..Capacity,
           m + n \in 0..Capacity
    PROVE  After(After(p, m), n) = After(p, m + n)
<1>1. Capacity \in Nat /\ Capacity > 0 BY RingAssumption
<1>2. After(p, m) \in Positions BY AfterValue
<1>3. After(p, m) = IF p + m < Capacity THEN p + m ELSE p + m - Capacity
  BY AfterValue
<1>4. After(After(p, m), n) = IF After(p, m) + n < Capacity
                              THEN After(p, m) + n
                              ELSE After(p, m) + n - Capacity
  BY <1>2, AfterValue
<1>5. After(p, m + n) = IF p + (m + n) < Capacity THEN p + (m + n)
                        ELSE p + (m + n) - Capacity
  BY AfterValue
<1>6. QED BY <1>1, <1>2, <1>3, <1>4, <1>5 DEF Positions

(* ReadableBytes as an operator of the two positions and the flag. *)
Distance(r, w, f) ==
    IF f THEN Capacity ELSE IF w >= r THEN w - r ELSE Capacity - r + w

LEMMA ReadableDistance ==
    /\ ReadableBytes = Distance(readPos, writePos, isFull)
    /\ ReadableBytes' = Distance(readPos', writePos', isFull')
BY DEF ReadableBytes, Distance

(* The distance leads from the read to the write position; only a full     *)
(* buffer is a whole turn apart.                                           *)
LEMMA DistanceValue ==
    ASSUME NEW r \in Positions, NEW w \in Positions, NEW f \in BOOLEAN,
           f => r = w
    PROVE  /\ Distance(r, w, f) \in 0..Capacity
           /\ Distance(r, w, f) = Capacity <=> f
           /\ w = After(r, Distance(r, w, f))
<1>1. Capacity \in Nat /\ Capacity > 0 BY RingAssumption
<1>2. /\ Distance(r, w, f) \in 0..Capacity
      /\ Distance(r, w, f) = Capacity <=> f
  BY <1>1 DEF Distance, Positions
<1>3. After(r, Distance(r, w, f)) =
          IF r + Distance(r, w, f) < Capacity THEN r + Distance(r, w, f)
          ELSE r + Distance(r, w, f) - Capacity
  BY <1>2, AfterValue
<1>4. QED BY <1>1, <1>2, <1>3 DEF Distance, Positions

(* It is the only one that does. *)
LEMMA DistanceIs ==
    ASSUME NEW r \in Positions, NEW m \in 0..Capacity, NEW f \in BOOLEAN,
           f <=> m = Capacity
    PROVE  /\ Distance(r, After(r, m), f) = m
           /\ f => r = After(r, m)
<1>1. Capacity \in Nat /\ Capacity > 0 BY RingAssumption
<1>2. After(r, m) = IF r + m < Capacity THEN r + m ELSE r + m - Capacity
  BY AfterValue
<1>3. QED BY <1>1, <1>2 DEF Distance, Positions

-----------------------------------------------------------------------------
(* The bytes between two positions. *)

Filled(b, r, n) == [i \in 1..n |-> b[After(r, i - 1)]]

LEMMA ContentsFilled ==
    /\ Contents = Filled(buffer, readPos, ReadableBytes)
    /\ Contents' = Filled(buffer', readPos', ReadableBytes')
BY DEF Contents, Filled

LEMMA FilledType ==
    ASSUME NEW b \in [Positions -> Bytes], NEW r \in Positions,
           NEW n \in 0..Capacity
    PROVE  /\ Filled(b, r, n) \in Seq(Bytes)
           /\ Len(Filled(b, r, n)) = n
           /\ DOMAIN Filled(b, r, n) = 1..n
           /\ \A i \in 1..n : Filled(b, r, n)[i] = b[After(r, i - 1)]
<1>1. Capacity \in Nat /\ Capacity > 0 BY RingAssumption
<1>2. ASSUME NEW i \in 1..n PROVE b[After(r, i - 1)] \in Bytes
  <2>1. i - 1 \in 0..Capacity BY <1>1
  <2>2. QED BY <2>1, AfterValue
<1>3. Filled(b, r, n) \in [1..n -> Bytes] BY <1>2 DEF Filled
<1>4. Filled(b, r, n) \in Seq(Bytes) /\ Len(Filled(b, r, n)) = n BY <1>1, <1>3
<1>5. QED BY <1>4 DEF Filled

(* A byte stored at the write position is appended. *)
LEMMA FilledAppend ==
    ASSUME NEW b \in [Positions -> Bytes], NEW r \in Positions,
           NEW n \in 0..(Capacity - 1), NEW x \in Bytes
    PROVE  Filled([b EXCEPT ![After(r, n)] = x], r, n + 1)
               = Append(Filled(b, r, n), x)
<1> DEFINE c == [b EXCEPT ![After(r, n)] = x]
<1>1. Capacity \in Nat /\ Capacity > 0 /\ n \in 0..Capacity /\ n + 1 \in 0..Capacity
  BY RingAssumption
<1>2. c \in [Positions -> Bytes] OBVIOUS
<1>3. After(r, n) \in Positions BY <1>1, AfterValue
<1>4. ASSUME NEW i \in 1..n
      PROVE  c[After(r, i - 1)] = b[After(r, i - 1)]
  <2>1. i - 1 \in 0..(Capacity - 1) /\ i - 1 # n BY <1>1
  <2>2. After(r, i - 1) # After(r, n) BY <2>1, AfterInjective
  <2>3. After(r, i - 1) \in Positions BY <1>1, <2>1, AfterValue
  <2>4. QED BY <2>2, <2>3
<1>5. c[After(r, n)] = x BY <1>3
<1>6. /\ Filled(c, r, n + 1) \in Seq(Bytes)
      /\ Len(Filled(c, r, n + 1)) = n + 1
      /\ \A i \in 1..(n + 1) : Filled(c, r, n + 1)[i] = c[After(r, i - 1)]
  BY <1>1, <1>2, FilledType
<1>7. /\ Filled(b, r, n) \in Seq(Bytes)
      /\ Len(Filled(b, r, n)) = n
      /\ \A i \in 1..n : Filled(b, r, n)[i] = b[After(r, i - 1)]
  BY <1>1, FilledType
<1> HIDE DEF c
<1>8. /\ Append(Filled(b, r, n), x) \in Seq(Bytes)
      /\ Len(Append(Filled(b, r, n), x)) = n + 1
      /\ \A i \in 1..n : Append(Filled(b, r, n), x)[i] = b[After(r, i - 1)]
      /\ Append(Filled(b, r, n), x)[n + 1] = x
  BY <1>1, <1>7
<1>9. ASSUME NEW i \in 1..(n + 1)
      PROVE  Filled(c, r, n + 1)[i] = Append(Filled(b, r, n), x)[i]
  <2>1. CASE i = n + 1
    <3>1. i - 1 = n BY <1>1, <2>1
    <3>2. QED BY <1>5, <1>6, <1>8, <2>1, <3>1
  <2>2. CASE i # n + 1
    <3>1. i \in 1..n BY <1>1, <2>2
    <3>2. QED BY <1>4, <1>6, <1>8, <3>1
  <2>3. QED BY <2>1, <2>2
<1>10. Filled(c, r, n + 1) = Append(Filled(b, r, n), x)
  BY <1>1, <1>6, <1>8, <1>9
<1>11. QED BY <1>10 DEF c

(* Moving the read position drops the oldest bytes. *)
LEMMA FilledSkip ==
    ASSUME NEW b \in [Positions -> Bytes], NEW r \in Positions,
           NEW n \in 0..Capacity, NEW m \in 0..n
    PROVE  Filled(b, After(r, m), n - m) = SubSeq(Filled(b, r, n), m + 1, n)
<1>1. /\ Capacity \in Nat /\ Capacity > 0
      /\ m \in 0..Capacity /\ n - m \in 0..Capacity
  BY RingAssumption
<1>2. After(r, m) \in Positions BY <1>1, AfterValue
<1>3. /\ Filled(b, After(r, m), n - m) \in Seq(Bytes)
      /\ Len(Filled(b, After(r, m), n - m)) = n - m
      /\ \A i \in 1..(n - m) :
            Filled(b, After(r, m), n - m)[i] = b[After(After(r, m), i - 1)]
  BY <1>1, <1>2, FilledType
<1>4. /\ Filled(b, r, n) \in Seq(Bytes)
      /\ Len(Filled(b, r, n)) = n
      /\ \A i \in 1..n : Filled(b, r, n)[i] = b[After(r, i - 1)]
  BY FilledType
<1>5. /\ SubSeq(Filled(b, r, n), m + 1, n) \in Seq(Bytes)
      /\ Len(SubSeq(Filled(b, r, n), m + 1, n)) = n - m
      /\ \A i \in 1..(n - m) :
            SubSeq(Filled(b, r, n), m + 1, n)[i] = Filled(b, r, n)[m + i]
  BY <1>1, <1>4, SMTT(30)
<1>6. ASSUME NEW i \in 1..(n - m)
      PROVE  Filled(b, After(r, m), n - m)[i]
                 = SubSeq(Filled(b, r, n), m + 1, n)[i]
  <2>1. /\ i - 1 \in 0..Capacity /\ m + (i - 1) \in 0..Capacity
        /\ m + i \in 1..n /\ m + i - 1 = m + (i - 1)
    BY <1>1
  <2>2. After(After(r, m), i - 1) = After(r, m + (i - 1))
    BY <1>1, <2>1, AfterAfter
  <2>3. Filled(b, After(r, m), n - m)[i] = b[After(r, m + (i - 1))]
    BY <1>3, <2>2
  <2>4. Filled(b, r, n)[m + i] = b[After(r, m + (i - 1))]
    BY <1>4, <2>1
  <2>5. QED BY <1>5, <2>3, <2>4
<1> DEFINE s == Filled(b, After(r, m), n - m)
           t == SubSeq(Filled(b, r, n), m + 1, n)
<1>7. /\ s \in Seq(Bytes) /\ t \in Seq(Bytes) /\ Len(s) = Len(t)
      /\ \A i \in 1..Len(s) : s[i] = t[i]
  BY <1>3, <1>5, <1>6
<1>8. s = t
  <2> HIDE DEF s, t
  <2>1. QED BY <1>7
<1>9. QED BY <1>8

(* The bytes up to an earlier position are the oldest ones. *)
LEMMA FilledPrefix ==
    ASSUME NEW b \in [Positions -> Bytes], NEW r \in Positions,
           NEW n \in 0..Capacity, NEW m \in 0..n
    PROVE  Filled(b, r, m) = SubSeq(Filled(b, r, n), 1, m)
<1>1. Capacity \in Nat /\ m \in 0..Capacity
  BY RingAssumption
<1>2. /\ Filled(b, r, n) \in Seq(Bytes)
      /\ Len(Filled(b, r, n)) = n
      /\ \A i \in 1..n : Filled(b, r, n)[i] = b[After(r, i - 1)]
  BY FilledType
<1>3. /\ Filled(b, r, m) \in Seq(Bytes)
      /\ Len(Filled(b, r, m)) = m
      /\ \A i \in 1..m : Filled(b, r, m)[i] = b[After(r, i - 1)]
  BY <1>1, FilledType
<1>4. /\ SubSeq(Filled(b, r, n), 1, m) \in Seq(Bytes)
      /\ Len(SubSeq(Filled(b, r, n), 1, m)) = m
      /\ \A i \in 1..m :
            SubSeq(Filled(b, r, n), 1, m)[i] = Filled(b, r, n)[i]
  BY <1>1, <1>2
<1> DEFINE s == Filled(b, r, m)
           t == SubSeq(Filled(b, r, n), 1, m)
<1>5. /\ s \in Seq(Bytes) /\ t \in Seq(Bytes) /\ Len(s) = Len(t)
      /\ \A i \in 1..Len(s) : s[i] = t[i]
  BY <1>1, <1>2, <1>3, <1>4
<1>6. s = t
  <2> HIDE DEF s, t
  <2>1. QED BY <1>5
<1>7. QED BY <1>6

(* A byte stored at or after the write position changes none of them. *)
LEMMA FilledStore ==
    ASSUME NEW b \in [Positions -> Bytes], NEW r \in Positions,
           NEW n \in 0..Capacity, NEW k \in n..(Capacity - 1), NEW x \in Bytes
    PROVE  Filled([b EXCEPT ![After(r, k)] = x], r, n) = Filled(b, r, n)
<1>1. Capacity \in Nat /\ k \in 0..(Capacity - 1)
  BY RingAssumption
<1>2. ASSUME NEW i \in 1..n
      PROVE  [b EXCEPT ![After(r, k)] = x][After(r, i - 1)] = b[After(r, i - 1)]
  <2>1. i - 1 \in 0..(Capacity - 1) /\ i - 1 # k /\ i - 1 \in 0..Capacity
    BY <1>1
  <2>2. After(r, i - 1) # After(r, k) BY <1>1, <2>1, AfterInjective
  <2>3. After(r, i - 1) \in Positions BY <2>1, AfterValue
  <2>4. QED BY <2>2, <2>3
<1>3. QED BY <1>2 DEF Filled

-----------------------------------------------------------------------------
(* What the steps do to the bytes. *)

LEMMA StateFacts ==
    ASSUME TypeOK, FlagMeansFull
    PROVE  /\ ReadableBytes \in 0..Capacity
           /\ ReadableBytes = Capacity <=> isFull
           /\ writePos = After(readPos, ReadableBytes)
           /\ Contents \in Seq(Bytes)
           /\ Len(Contents) = ReadableBytes
           /\ DOMAIN Contents = 1..ReadableBytes
           /\ \A i \in 1..ReadableBytes :
                 Contents[i] = buffer[After(readPos, i - 1)]
<1>1. /\ ReadableBytes \in 0..Capacity
      /\ ReadableBytes = Capacity <=> isFull
      /\ writePos = After(readPos, ReadableBytes)
  BY ReadableDistance, DistanceValue DEF TypeOK, FlagMeansFull
<1>2. QED BY <1>1, ContentsFilled, FilledType DEF TypeOK

LEMMA CallTypes ==
    ASSUME TypeOK
    PROVE  /\ In("Write") => call.src \in Seq(Bytes)
           /\ In("Read") \/ In("Peek") => call.length \in Nat
<1>1. ASSUME In("Write") PROVE call.src \in Seq(Bytes)
  <2>1. call.src \in Sources BY <1>1 DEF TypeOK, In, Calls
  <2>2. PICK n \in Lengths : call.src \in [1..n -> Bytes] BY <2>1 DEF Sources
  <2>3. QED BY <2>2, RingAssumption DEF Lengths
<1>2. ASSUME In("Read") \/ In("Peek") PROVE call.length \in Nat
  BY <1>2, RingAssumption DEF TypeOK, In, Calls, Lengths
<1>3. QED BY <1>1, <1>2

LEMMA WriteByteEffect ==
    ASSUME TypeOK, FlagMeansFull, WriteByte
    PROVE  /\ TypeOK' /\ FlagMeansFull'
           /\ call.src[count + 1] \in Bytes
           /\ ReadableBytes < Capacity
           /\ ReadableBytes' = ReadableBytes + 1
           /\ Contents' = Append(Contents, call.src[count + 1])
<1> DEFINE R == ReadableBytes
           x == call.src[count + 1]
<1>1. Capacity \in Nat /\ Capacity > 0 BY RingAssumption
<1>2. /\ R \in 0..(Capacity - 1) /\ ~isFull /\ R + 1 \in 0..Capacity
      /\ writePos = After(readPos, R)
  BY <1>1, StateFacts DEF WriteByte, WriteGoesOn, WritableBytes
<1>3. x \in Bytes
  <2>1. call.src \in Seq(Bytes) BY CallTypes DEF WriteByte
  <2>2. count + 1 \in 1..Len(call.src)
    BY <2>1 DEF WriteByte, WriteGoesOn, TypeOK
  <2>3. QED BY <2>1, <2>2
<1>4. writePos' = After(readPos, R + 1)
  <2>1. R \in 0..Capacity /\ 1 \in 0..Capacity BY <1>1, <1>2
  <2>2. After(After(readPos, R), 1) = After(readPos, R + 1)
    BY <1>2, <2>1, AfterAfter DEF TypeOK
  <2>3. QED BY <1>2, <2>2 DEF WriteByte
<1>5. isFull' <=> R + 1 = Capacity
  <2>1. readPos = After(readPos, 0) BY <1>1, AfterValue DEF TypeOK, Positions
  <2>2. CASE R + 1 = Capacity
    <3>1. After(readPos, R + 1) = readPos
      BY <1>1, <2>2, AfterValue DEF TypeOK, Positions
    <3>2. QED BY <1>4, <2>2, <3>1 DEF WriteByte
  <2>3. CASE R + 1 # Capacity
    <3>1. R + 1 \in 0..(Capacity - 1) /\ 0 \in 0..(Capacity - 1) /\ R + 1 # 0
      BY <1>1, <1>2, <2>3
    <3>2. After(readPos, R + 1) # After(readPos, 0)
      BY <3>1, AfterInjective DEF TypeOK
    <3>3. QED BY <1>2, <1>4, <2>1, <2>3, <3>2 DEF WriteByte
  <2>4. QED BY <2>2, <2>3
<1>6. TypeOK'
  <2>1. writePos' \in Positions BY <1>2, <1>4, AfterValue DEF TypeOK
  <2>2. buffer' \in [Positions -> Bytes] BY <1>3 DEF WriteByte, TypeOK
  <2>3. QED BY <2>1, <2>2 DEF WriteByte, TypeOK
<1>7. isFull' \in BOOLEAN /\ readPos \in Positions /\ readPos' = readPos
  BY DEF WriteByte, TypeOK
<1>8. ReadableBytes' = R + 1 /\ FlagMeansFull'
  BY <1>2, <1>4, <1>5, <1>7, ReadableDistance, DistanceIs DEF FlagMeansFull
<1>9. Contents' = Append(Contents, x)
  <2>1. Contents' = Filled([buffer EXCEPT ![After(readPos, R)] = x], readPos, R + 1)
    BY <1>2, <1>7, <1>8, ContentsFilled DEF WriteByte
  <2>2. QED BY <1>2, <1>3, <2>1, ContentsFilled, FilledAppend DEF TypeOK
<1>10. QED BY <1>1, <1>2, <1>3, <1>6, <1>8, <1>9

(* Moving the read position by m, with the flag cleared. *)
LEMMA MoveReadEffect ==
    ASSUME TypeOK, FlagMeansFull, NEW m \in 0..ReadableBytes,
           m > 0 \/ ~isFull,
           readPos' = After(readPos, m), isFull' = FALSE,
           buffer' = buffer, writePos' = writePos
    PROVE  /\ readPos' \in Positions
           /\ ReadableBytes' = ReadableBytes - m
           /\ Contents' = SubSeq(Contents, m + 1, ReadableBytes)
<1> DEFINE R == ReadableBytes
<1>1. Capacity \in Nat /\ Capacity > 0 BY RingAssumption
<1>2. /\ R \in 0..Capacity /\ m \in 0..Capacity /\ R - m \in 0..Capacity
      /\ R - m # Capacity /\ m + (R - m) = R
      /\ writePos = After(readPos, R)
  BY <1>1, StateFacts
<1>3. readPos' \in Positions BY <1>2, AfterValue DEF TypeOK
<1>4. writePos' = After(readPos', R - m)
  BY <1>2, AfterAfter DEF TypeOK
<1>5. ReadableBytes' = R - m
  BY <1>2, <1>3, <1>4, ReadableDistance, DistanceIs, ZenonT(60)
<1>6. Contents' = Filled(buffer, After(readPos, m), R - m)
  BY <1>5, ContentsFilled
<1>7. QED BY <1>2, <1>3, <1>5, <1>6, ContentsFilled, FilledSkip DEF TypeOK

(* Moving the write position by m commits what lies there. *)
LEMMA AdvanceWriteEffect ==
    ASSUME TypeOK, FlagMeansFull, NEW m \in Nat, AdvanceWrite(m)
    PROVE  /\ writePos' \in Positions
           /\ FlagMeansFull'
           /\ m > 0 => /\ ReadableBytes' = ReadableBytes + m
                       /\ Contents' \in Seq(Bytes)
                       /\ Len(Contents') = ReadableBytes + m
                       /\ SubSeq(Contents', 1, ReadableBytes) = Contents
<1> DEFINE R == ReadableBytes
<1>1. Capacity \in Nat /\ Capacity > 0 BY RingAssumption
<1>2. /\ R \in 0..Capacity /\ m \in 0..Capacity /\ R + m \in 0..Capacity
      /\ writePos = After(readPos, R) /\ (R = Capacity <=> isFull)
  BY <1>1, StateFacts DEF AdvanceWrite, WritableBytes
<1>3. writePos' = After(readPos, R + m)
  BY <1>2, AfterAfter DEF TypeOK, AdvanceWrite
<1>4. writePos' \in Positions BY <1>2, <1>3, AfterValue DEF TypeOK
<1>5. FlagMeansFull'
  <2>1. CASE isFull
    <3>1. m = 0 BY <1>1, <1>2, <2>1
    <3>2. writePos' = writePos BY <1>1, <1>2, <1>3, <3>1
    <3>3. QED BY <2>1, <3>2 DEF FlagMeansFull, AdvanceWrite
  <2>2. CASE ~isFull BY <2>2 DEF FlagMeansFull, AdvanceWrite
  <2>3. QED BY <2>1, <2>2
<1>6. ASSUME m > 0
      PROVE  /\ ReadableBytes' = R + m
             /\ Contents' \in Seq(Bytes)
             /\ Len(Contents') = R + m
             /\ SubSeq(Contents', 1, R) = Contents
  <2>1. ~isFull BY <1>1, <1>2, <1>6
  <2>2. isFull' <=> R + m = Capacity
    <3>1. readPos = After(readPos, 0) BY <1>1, AfterValue DEF TypeOK, Positions
    <3>2. CASE R + m = Capacity
      <4>1. After(readPos, R + m) = readPos
        BY <1>1, <3>2, AfterValue DEF TypeOK, Positions
      <4>2. QED BY <1>3, <3>2, <4>1 DEF AdvanceWrite
    <3>3. CASE R + m # Capacity
      <4>1. R + m \in 0..(Capacity - 1) /\ 0 \in 0..(Capacity - 1) /\ R + m # 0
        BY <1>1, <1>2, <1>6, <3>3
      <4>2. After(readPos, R + m) # After(readPos, 0)
        BY <4>1, AfterInjective DEF TypeOK
      <4>3. QED BY <1>3, <2>1, <3>1, <3>3, <4>2 DEF AdvanceWrite
    <3>4. QED BY <3>2, <3>3
  <2>3. /\ isFull' \in BOOLEAN /\ readPos \in Positions /\ readPos' = readPos
        /\ buffer' = buffer
    BY DEF AdvanceWrite, TypeOK
  <2>4. ReadableBytes' = R + m
    BY <1>2, <1>3, <2>2, <2>3, ReadableDistance, DistanceIs
  <2>5. Contents' = Filled(buffer, readPos, R + m)
    BY <2>3, <2>4, ContentsFilled
  <2>6. R \in 0..(R + m) BY <1>1, <1>2
  <2>7. Contents' \in Seq(Bytes) /\ Len(Contents') = R + m
    BY <1>2, <2>5, FilledType DEF TypeOK
  <2>8. Filled(buffer, readPos, R)
            = SubSeq(Filled(buffer, readPos, R + m), 1, R)
    BY <1>2, <2>6, FilledPrefix DEF TypeOK
  <2>9. SubSeq(Contents', 1, R) = Contents
    BY <2>5, <2>8, ContentsFilled
  <2>10. QED BY <2>4, <2>7, <2>9
<1>7. QED BY <1>4, <1>5, <1>6

(* What is stored through WriterPtr is not readable yet. *)
LEMMA StoreEffect ==
    ASSUME TypeOK, FlagMeansFull, NEW i \in Positions, NEW b \in Bytes,
           StoreThroughWriterPtr(i, b)
    PROVE  /\ buffer' \in [Positions -> Bytes]
           /\ ReadableBytes' = ReadableBytes
           /\ Contents' = Contents
<1> DEFINE R == ReadableBytes
<1>1. Capacity \in Nat /\ Capacity > 0 BY RingAssumption
<1>2. /\ R \in 0..Capacity /\ writePos = After(readPos, R)
      /\ i \in Nat /\ i \in 0..Capacity
      /\ R + i \in R..(Capacity - 1) /\ R + i \in 0..Capacity
  BY <1>1, StateFacts DEF StoreThroughWriterPtr, WritableBytes, Positions
<1>3. writePos + i = After(readPos, R + i)
  <2>1. After(writePos, i) = writePos + i
    BY <1>1, <1>2, AfterValue DEF StoreThroughWriterPtr, TypeOK
  <2>2. QED BY <1>2, <2>1, AfterAfter DEF TypeOK
<1>4. ReadableBytes' = R
  BY DEF StoreThroughWriterPtr, ReadableBytes
<1>5. Contents' = Filled([buffer EXCEPT ![After(readPos, R + i)] = b], readPos, R)
  BY <1>3, <1>4, ContentsFilled DEF StoreThroughWriterPtr
<1>6. Contents' = Contents
  BY <1>2, <1>5, ContentsFilled, FilledStore, ZenonT(60) DEF TypeOK
<1>7. QED BY <1>4, <1>6 DEF StoreThroughWriterPtr, TypeOK

-----------------------------------------------------------------------------
(* The type invariant and the meaning of the flag. *)

LEMMA InitRing == Init => TypeOK /\ FlagMeansFull
<1> SUFFICES ASSUME Init PROVE TypeOK /\ FlagMeansFull
  OBVIOUS
<1>1. Capacity \in Nat /\ Capacity > 0 /\ Fresh \in Bytes BY RingAssumption
<1>2. buffer \in [Positions -> Bytes] BY <1>1 DEF Init
<1>3. 0 \in Positions BY <1>1 DEF Positions
<1>4. result \in [count : Nat, bytes : Seq(Bytes)] BY DEF Init
<1>5. QED BY <1>2, <1>3, <1>4 DEF Init, TypeOK, FlagMeansFull

LEMMA NextRing ==
    TypeOK /\ FlagMeansFull /\ [Next]_vars => TypeOK' /\ FlagMeansFull'
<1> SUFFICES ASSUME TypeOK, FlagMeansFull, [Next]_vars
             PROVE  TypeOK' /\ FlagMeansFull'
  OBVIOUS
<1>1. Capacity \in Nat /\ Capacity > 0 /\ 0 \in Positions
  BY RingAssumption DEF Positions
<1>2. ASSUME NEW c \in Calls, Begin(c) PROVE TypeOK' /\ FlagMeansFull'
  BY <1>2 DEF Begin, TypeOK, FlagMeansFull, memberVars
<1>3. ASSUME NEW src \in Sources, WriteCall(src) PROVE TypeOK' /\ FlagMeansFull'
  <2>1. [op |-> "Write", src |-> src] \in Calls BY DEF Calls
  <2>2. QED BY <1>2, <1>3, <2>1 DEF WriteCall
<1>4. ASSUME NEW length \in Lengths, ReadCall(length) \/ PeekCall(length)
      PROVE  TypeOK' /\ FlagMeansFull'
  <2>1. /\ [op |-> "Read", length |-> length] \in Calls
        /\ [op |-> "Peek", length |-> length] \in Calls
    BY DEF Calls
  <2>2. QED BY <1>2, <1>4, <2>1 DEF ReadCall, PeekCall
<1>5. CASE WriteByte BY <1>5, WriteByteEffect
<1>6. CASE ReadByte
  <2>1. /\ ReadableBytes \in 0..Capacity /\ 1 \in 0..ReadableBytes
        /\ 1 \in 0..Capacity
    BY <1>1, <1>6, StateFacts DEF ReadByte, ReadGoesOn
  <2>2. readPos' \in Positions
    BY <1>6, <2>1, AfterValue DEF ReadByte, TypeOK
  <2>3. dest' \in Seq(Bytes)
    <3>1. buffer[readPos] \in Bytes BY DEF TypeOK
    <3>2. QED BY <1>6, <3>1 DEF ReadByte, TypeOK
  <2>4. count' \in Nat BY <1>6 DEF ReadByte, TypeOK
  <2>5. QED BY <1>6, <2>2, <2>3, <2>4 DEF ReadByte, TypeOK, FlagMeansFull
<1>7. CASE PeekByte
  <2>1. pos' \in Positions
    <3>1. 1 \in 0..Capacity BY <1>1
    <3>2. QED BY <1>7, <3>1, AfterValue DEF PeekByte, TypeOK
  <2>2. dest' \in Seq(Bytes) BY <1>7 DEF PeekByte, TypeOK
  <2>3. QED BY <1>7, <2>1, <2>2 DEF PeekByte, TypeOK, FlagMeansFull, memberVars
<1>8. CASE WriteReturn \/ ReadReturn \/ PeekReturn
  BY <1>1, <1>8 DEF WriteReturn, ReadReturn, PeekReturn, Return, TypeOK,
     FlagMeansFull, memberVars
<1>9. ASSUME NEW length \in Lengths, AdvanceRead(length)
      PROVE  TypeOK' /\ FlagMeansFull'
  <2>1. length \in 0..Capacity
    BY <1>1, <1>9, StateFacts, RingAssumption DEF AdvanceRead, Lengths
  <2>2. readPos' \in Positions BY <1>9, <2>1, AfterValue DEF AdvanceRead, TypeOK
  <2>3. QED BY <1>9, <2>2 DEF AdvanceRead, TypeOK, FlagMeansFull, localVars
<1>10. ASSUME NEW length \in Lengths, AdvanceWrite(length)
       PROVE  TypeOK' /\ FlagMeansFull'
  <2>1. length \in Nat BY RingAssumption DEF Lengths
  <2>2. writePos' \in Positions /\ FlagMeansFull'
    BY <1>10, <2>1, AdvanceWriteEffect
  <2>3. QED BY <1>10, <2>2 DEF AdvanceWrite, TypeOK, localVars
<1>11. ASSUME NEW i \in Positions, NEW b \in Bytes, StoreThroughWriterPtr(i, b)
       PROVE  TypeOK' /\ FlagMeansFull'
  <2>1. buffer' \in [Positions -> Bytes] BY <1>11, StoreEffect
  <2>2. QED
    BY <1>11, <2>1 DEF StoreThroughWriterPtr, TypeOK, FlagMeansFull, localVars
<1>12. CASE UNCHANGED vars
  BY <1>12 DEF vars, memberVars, localVars, TypeOK, FlagMeansFull
<1>13. QED
  BY <1>3, <1>4, <1>5, <1>6, <1>7, <1>8, <1>9, <1>10, <1>11, <1>12 DEF Next

(* The positions never leave the array, whatever the caller does within    *)
(* the bounds of what is readable and writable.                            *)
THEOREM RingTypeCorrect == Spec => []TypeOK
<1>1. QED BY InitRing, NextRing, PTL DEF Spec

(* A set _isFull always means a full buffer, even for a caller that        *)
(* advances by zero.                                                       *)
THEOREM RingFlag == Spec => []FlagMeansFull
<1>1. QED BY InitRing, NextRing, PTL DEF Spec

-----------------------------------------------------------------------------
(* The loops. *)

(* Peek does not read on beyond the readable bytes. *)
LEMMA PeekStaysInside ==
    ASSUME TypeOK, FlagMeansFull, LoopInv, Strict, In("Peek"), PeekGoesOn
    PROVE  count < ReadableBytes
<1>1. Capacity \in Nat /\ Capacity > 0 BY RingAssumption
<1>2. /\ ReadableBytes \in 0..Capacity /\ (ReadableBytes = Capacity <=> isFull)
      /\ writePos = After(readPos, ReadableBytes)
  BY StateFacts
<1>3. /\ count \in Nat /\ count <= ReadableBytes /\ PeekAnswers(call.length)
      /\ pos = After(readPos, count) /\ call.length \in Nat
  BY CallTypes DEF LoopInv, TypeOK
<1>4. CASE isFull
  <2>1. ASSUME count = ReadableBytes PROVE FALSE
    BY <1>1, <1>2, <1>3, <1>4, <2>1 DEF PeekGoesOn
  <2>2. QED BY <1>2, <1>3, <2>1
<1>5. CASE ~isFull
  BY <1>2, <1>3, <1>5 DEF PeekGoesOn, PeekAnswers
<1>6. QED BY <1>4, <1>5

LEMMA NextLoop ==
    TypeOK /\ FlagMeansFull /\ LoopInv /\ [Next]_vars => LoopInv'
<1> SUFFICES ASSUME TypeOK, FlagMeansFull, LoopInv, [Next]_vars
             PROVE  LoopInv'
  OBVIOUS
<1> DEFINE R == ReadableBytes
<1>1. /\ Capacity \in Nat /\ Capacity > 0 /\ Idle \notin Calls
      /\ R \in 0..Capacity /\ Contents \in Seq(Bytes) /\ Len(Contents) = R
      /\ \A i \in 1..R : Contents[i] = buffer[After(readPos, i - 1)]
  BY RingAssumption, StateFacts
<1>2. ASSUME call' = Idle PROVE LoopInv'
  BY <1>2 DEF LoopInv, In
<1>3. ASSUME NEW c, Begin(c)
      PROVE  /\ ReadableBytes' = R /\ Contents' = Contents
             /\ count' = 0 /\ dest' = <<>> /\ pos' = readPos /\ call' = c
  BY <1>3 DEF Begin, memberVars, ReadableBytes, Contents
<1>4. ASSUME NEW src \in Sources, WriteCall(src) PROVE LoopInv'
  <2>1. src \in Seq(Bytes)
    <3>1. PICK n \in Lengths : src \in [1..n -> Bytes] BY DEF Sources
    <3>2. QED BY <3>1, RingAssumption DEF Lengths
  <2>2. call' = [op |-> "Write", src |-> src] /\ count' = 0 /\ dest' = <<>>
        /\ ReadableBytes' = R
    BY <1>3, <1>4 DEF WriteCall
  <2>3. /\ In("Write")' /\ ~In("Read")' /\ ~In("Peek")'
        \/ call' = Idle
    BY <2>2 DEF In
  <2>4. Len(src) \in Nat BY <2>1
  <2>5. QED BY <1>1, <1>2, <2>2, <2>3, <2>4 DEF LoopInv
<1>5. ASSUME NEW length \in Lengths, ReadCall(length) PROVE LoopInv'
  <2>1. /\ call' = [op |-> "Read", length |-> length]
        /\ count' = 0 /\ dest' = <<>> /\ length \in Nat
    BY <1>3, <1>5, RingAssumption DEF ReadCall, Lengths
  <2>2. QED BY <2>1 DEF LoopInv, In
<1>6. ASSUME NEW length \in Lengths, PeekCall(length) PROVE LoopInv'
  <2>1. /\ call' = [op |-> "Peek", length |-> length]
        /\ count' = 0 /\ dest' = <<>> /\ pos' = readPos /\ length \in Nat
        /\ ReadableBytes' = R /\ Contents' = Contents
    BY <1>3, <1>6, RingAssumption DEF PeekCall, Lengths
  <2>2. Strict => PeekAnswers(length)'
    BY <1>6, <2>1 DEF PeekCall, Begin, memberVars, PeekAnswers
  <2>3. readPos' = readPos /\ pos' = After(readPos, 0)
    <3>1. 0 \in 0..Capacity BY <1>1
    <3>2. After(readPos, 0) = readPos
      BY <1>1, <3>1, AfterValue DEF TypeOK, Positions
    <3>3. QED BY <1>6, <2>1, <3>2 DEF PeekCall, Begin, memberVars
  <2>4. SubSeq(Contents, 1, 0) = <<>> BY <1>1
  <2>5. ~In("Write")' /\ ~In("Read")' /\ call'.length = length
    BY <2>1 DEF In
  <2>6. QED BY <1>1, <2>1, <2>2, <2>3, <2>4, <2>5 DEF LoopInv, PeekAnswers
<1>7. CASE WriteByte
  <2> DEFINE x == call.src[count + 1]
  <2>1. /\ ReadableBytes' = R + 1 /\ Contents' = Append(Contents, x) /\ x \in Bytes
        /\ In("Write") /\ call' = call /\ count' = count + 1 /\ dest' = dest
        /\ count < Len(call.src) /\ count \in Nat
    BY <1>7, WriteByteEffect DEF WriteByte, WriteGoesOn, TypeOK
  <2>2. /\ count <= R /\ dest = <<>>
        /\ \A i \in 1..count : Contents[R - count + i] = call.src[i]
    BY <2>1 DEF LoopInv
  <2>3. call.src \in Seq(Bytes) BY <2>1, CallTypes
  <2>4. ASSUME NEW i \in 1..(count + 1)
        PROVE  Append(Contents, x)[(R + 1) - (count + 1) + i] = call.src[i]
    <3>1. CASE i = count + 1
      <4>1. (R + 1) - (count + 1) + i = R + 1 BY <1>1, <2>1, <3>1
      <4>2. ASSUME NEW y \in Bytes PROVE Append(Contents, y)[R + 1] = y
        BY <1>1
      <4>3. Append(Contents, x)[R + 1] = x BY <2>1, <4>2
      <4>4. QED BY <3>1, <4>1, <4>3
    <3>2. CASE i # count + 1
      <4>1. /\ i \in 1..count /\ (R + 1) - (count + 1) + i = R - count + i
            /\ R - count + i \in 1..R
        BY <1>1, <2>1, <2>2, <3>2
      <4>2. Append(Contents, x)[R - count + i] = Contents[R - count + i]
        BY <1>1, <2>1, <4>1
      <4>3. QED BY <2>2, <4>1, <4>2
    <3>3. QED BY <3>1, <3>2
  <2>5. ~In("Read")' /\ ~In("Peek")' BY <2>1 DEF In
  <2>6. count' <= Len(call'.src) /\ count' <= ReadableBytes'
    <3>1. Len(call.src) \in Nat BY <2>3
    <3>2. QED BY <1>1, <2>1, <2>2, <3>1
  <2>7. \A i \in 1..count' :
            Contents'[ReadableBytes' - count' + i] = call'.src[i]
    BY <2>1, <2>4
  <2>8. QED BY <2>1, <2>2, <2>5, <2>6, <2>7 DEF LoopInv
<1>8. CASE ReadByte
  <2>1. /\ In("Read") /\ call' = call /\ count' = count + 1
        /\ count < call.length /\ count = Len(dest) /\ dest \in Seq(Bytes)
        /\ dest' = Append(dest, buffer[readPos]) /\ buffer[readPos] \in Bytes
        /\ call.length \in Nat
    BY <1>8, CallTypes DEF ReadByte, ReadGoesOn, LoopInv, TypeOK
  <2>2. Len(dest') = count + 1 BY <2>1
  <2>3. QED BY <2>1, <2>2 DEF LoopInv, In
<1>9. CASE PeekByte
  <2>1. /\ In("Peek") /\ call' = call /\ count' = count + 1 /\ PeekGoesOn
        /\ count < call.length /\ count = Len(dest) /\ dest \in Seq(Bytes)
        /\ dest' = Append(dest, buffer[pos]) /\ buffer[pos] \in Bytes
        /\ pos' = After(pos, 1) /\ call.length \in Nat /\ count \in Nat
    BY <1>9, CallTypes DEF PeekByte, PeekGoesOn, LoopInv, TypeOK
  <2>2. /\ ReadableBytes' = R /\ Contents' = Contents /\ readPos' = readPos
        /\ isFull' = isFull
    BY <1>9 DEF PeekByte, memberVars, ReadableBytes, Contents
  <2>3. Len(dest') = count + 1 BY <2>1
  <2>4. ASSUME Strict
        PROVE  /\ PeekAnswers(call.length) /\ count + 1 <= R
               /\ pos' = After(readPos, count + 1)
               /\ dest' = SubSeq(Contents, 1, count + 1)
    <3>1. count < R BY <2>1, <2>4, PeekStaysInside
    <3>2. /\ PeekAnswers(call.length) /\ pos = After(readPos, count)
          /\ dest = SubSeq(Contents, 1, count)
      BY <2>1, <2>4 DEF LoopInv
    <3>3. count \in 0..Capacity /\ 1 \in 0..Capacity /\ count + 1 \in 0..Capacity
          /\ count + 1 \in 1..R
      BY <1>1, <2>1, <3>1
    <3>4. pos' = After(readPos, count + 1)
      BY <2>1, <3>2, <3>3, AfterAfter DEF TypeOK
    <3>5. buffer[pos] = Contents[count + 1]
      <4>1. (count + 1) - 1 = count BY <2>1
      <4>2. QED BY <1>1, <3>2, <3>3, <4>1
    <3>6. Append(SubSeq(Contents, 1, count), Contents[count + 1])
              = SubSeq(Contents, 1, count + 1)
      BY <1>1, <2>1, <3>3
    <3>7. QED BY <1>1, <2>1, <3>1, <3>2, <3>4, <3>5, <3>6
  <2>5. ~In("Write")' /\ ~In("Read")' BY <2>1 DEF In
  <2>6. Strict => PeekAnswers(call.length)'
    BY <2>1, <2>2, <2>4 DEF PeekAnswers
  <2>7. QED BY <2>1, <2>2, <2>3, <2>4, <2>5, <2>6 DEF LoopInv, PeekAnswers
<1>10. CASE WriteReturn \/ ReadReturn \/ PeekReturn
  BY <1>2, <1>10 DEF WriteReturn, ReadReturn, PeekReturn, Return
<1>11. ASSUME NEW length \in Lengths, AdvanceRead(length) \/ AdvanceWrite(length)
       PROVE  LoopInv'
  BY <1>2, <1>11 DEF AdvanceRead, AdvanceWrite, localVars
<1>12. ASSUME NEW i \in Positions, NEW b \in Bytes, StoreThroughWriterPtr(i, b)
       PROVE  LoopInv'
  BY <1>2, <1>12 DEF StoreThroughWriterPtr, localVars
<1>13. CASE UNCHANGED vars
  BY <1>13 DEF vars, memberVars, localVars, LoopInv, In, Contents, ReadableBytes,
     PeekAnswers
<1>14. QED
  BY <1>4, <1>5, <1>6, <1>7, <1>8, <1>9, <1>10, <1>11, <1>12, <1>13 DEF Next

-----------------------------------------------------------------------------
(* Sequences, split and joined. *)

LEMMA SubSeqFacts ==
    ASSUME NEW S, NEW s \in Seq(S), NEW m \in 0..Len(s)
    PROVE  /\ SubSeq(s, 1, m) \in Seq(S)
           /\ Len(SubSeq(s, 1, m)) = m
           /\ \A i \in 1..m : SubSeq(s, 1, m)[i] = s[i]
           /\ SubSeq(s, m + 1, Len(s)) \in Seq(S)
           /\ Len(SubSeq(s, m + 1, Len(s))) = Len(s) - m
           /\ \A i \in 1..(Len(s) - m) : SubSeq(s, m + 1, Len(s))[i] = s[m + i]
OBVIOUS

(* A sequence is its first m elements and then the others. *)
LEMMA SplitAt ==
    ASSUME NEW S, NEW s \in Seq(S), NEW m \in 0..Len(s), NEW t \in Seq(S),
           Len(t) = Len(s) - m, \A i \in 1..Len(t) : t[i] = s[m + i]
    PROVE  s = SubSeq(s, 1, m) \o t
<1> DEFINE u == SubSeq(s, 1, m)
<1>1. /\ u \in Seq(S) /\ Len(u) = m /\ \A i \in 1..m : u[i] = s[i]
      /\ Len(s) \in Nat /\ m \in Nat
  BY SubSeqFacts
<1> HIDE DEF u
<1>2. /\ u \o t \in Seq(S) /\ Len(u \o t) = Len(u) + Len(t)
      /\ \A i \in 1..(Len(u) + Len(t)) :
            (u \o t)[i] = IF i <= Len(u) THEN u[i] ELSE t[i - Len(u)]
  BY <1>1, ConcatProperties
<1>3. Len(u \o t) = Len(s) BY <1>1, <1>2
<1>4. ASSUME NEW i \in 1..Len(s) PROVE s[i] = (u \o t)[i]
  <2>1. (u \o t)[i] = IF i <= m THEN u[i] ELSE t[i - m] BY <1>1, <1>2, <1>3
  <2>2. CASE i <= m BY <1>1, <2>1, <2>2
  <2>3. CASE i > m
    <3>1. i - m \in 1..Len(t) /\ m + (i - m) = i BY <1>1, <2>3
    <3>2. t[i - m] = s[m + (i - m)] BY <3>1
    <3>3. QED BY <1>1, <2>1, <2>3, <3>1, <3>2
  <2>4. QED BY <1>1, <2>2, <2>3
<1>5. s = u \o t BY <1>2, <1>3, <1>4, SeqEqual
<1>6. QED BY <1>5 DEF u

(* Joined sequences come apart where they were joined. *)
LEMMA JoinParts ==
    ASSUME NEW S, NEW s \in Seq(S), NEW t \in Seq(S)
    PROVE  /\ s \o t \in Seq(S)
           /\ Len(s \o t) = Len(s) + Len(t)
           /\ SubSeq(s \o t, 1, Len(s)) = s
           /\ SubSeq(s \o t, Len(s) + 1, Len(s \o t)) = t
<1> DEFINE u == s \o t
<1>1. /\ u \in Seq(S) /\ Len(u) = Len(s) + Len(t) /\ Len(s) \in 0..Len(u)
      /\ \A i \in 1..Len(s) : u[i] = s[i]
      /\ \A i \in 1..Len(t) : u[Len(s) + i] = t[i]
      /\ Len(s) \in Nat /\ Len(t) \in Nat
  OBVIOUS
<1> HIDE DEF u
<1> DEFINE a == SubSeq(u, 1, Len(s))
           b == SubSeq(u, Len(s) + 1, Len(u))
<1>2. /\ a \in Seq(S) /\ Len(a) = Len(s) /\ \A i \in 1..Len(s) : a[i] = s[i]
      /\ b \in Seq(S) /\ Len(b) = Len(t) /\ \A i \in 1..Len(t) : b[i] = t[i]
  BY <1>1, SubSeqFacts
<1> HIDE DEF a, b
<1>3. a = s
  <2>1. Len(a) = Len(s) /\ \A i \in 1..Len(a) : a[i] = s[i] BY <1>2
  <2>2. QED BY <1>2, <2>1, SeqEqual
<1>4. b = t
  <2>1. Len(b) = Len(t) /\ \A i \in 1..Len(b) : b[i] = t[i] BY <1>2
  <2>2. QED BY <1>2, <2>1, SeqEqual
<1>5. QED BY <1>1, <1>3, <1>4 DEF u, a, b

(* Taking the head of one sequence to the end of another changes nothing   *)
(* in their concatenation.                                                 *)
LEMMA MoveHead ==
    ASSUME NEW S, NEW d \in Seq(S), NEW s \in Seq(S), Len(s) > 0
    PROVE  Append(d, s[1]) \o SubSeq(s, 2, Len(s)) = d \o s
<1> DEFINE x == s[1]
           t == SubSeq(s, 2, Len(s))
<1>1. /\ Len(s) \in Nat /\ 1 \in 1..Len(s) /\ Len(s) \in 1..Len(s)
      /\ 1 \in 0..Len(s) /\ 1 + 1 = 2 /\ x \in S
  OBVIOUS
<1>2. t \in Seq(S)
  <2>1. SubSeq(s, 1 + 1, Len(s)) \in Seq(S) BY ONLY <1>1, SubSeqFacts, s \in Seq(S)
  <2>2. QED BY <1>1, <2>1
<1>3. s = <<x>> \o t
  <2>1. SubSeq(s, 1, Len(s)) = <<s[1]>> \o SubSeq(s, 1 + 1, Len(s))
    BY <1>1, SubSeqRecursiveFirst
  <2>2. QED BY <1>1, <2>1, SubSeqFull
<1> HIDE DEF x, t
<1>4. Append(d, x) = d \o <<x>> BY <1>1, AppendIsConcat
<1>5. <<x>> \in Seq(S) BY <1>1
<1>6. (d \o <<x>>) \o t = d \o (<<x>> \o t)
  BY <1>2, <1>5, ConcatAssociative
<1>7. Append(d, x) \o t = d \o s BY <1>3, <1>4, <1>6
<1>8. QED BY <1>7 DEF x, t

-----------------------------------------------------------------------------
(* The circular array implements the byte queue. *)

LEMMA VisibleCases ==
    /\ In("Write") => Visible = SubSeq(Contents, 1, ReadableBytes - count)
    /\ In("Read") => Visible = dest \o Contents
    /\ In("Peek") \/ call = Idle => Visible = Contents
    /\ In("Write")' => Visible' = SubSeq(Contents', 1, ReadableBytes' - count')
    /\ In("Read")' => Visible' = dest' \o Contents'
    /\ In("Peek")' \/ call' = Idle => Visible' = Contents'
BY DEF Visible, In

LEMMA InitRefines == Init => Queue!Init
<1> SUFFICES ASSUME Init PROVE Queue!Init
  OBVIOUS
<1>1. ReadableBytes = 0 BY DEF Init, ReadableBytes
<1>2. Visible = Contents BY DEF Init, Visible, In
<1>3. TypeOK /\ FlagMeansFull BY InitRing
<1>4. Contents \in Seq(Bytes) /\ Len(Contents) = 0 BY <1>1, <1>3, StateFacts
<1>5. Contents = <<>> BY <1>4
<1>6. QED BY <1>2, <1>5 DEF Init, Queue!Init

LEMMA StepRefines ==
    ASSUME Strict, TypeOK, FlagMeansFull, LoopInv, [Next]_vars
    PROVE  [Queue!Next]_(Queue!vars)
<1> DEFINE R == ReadableBytes
           Stutters == call' = call /\ result' = result /\ Visible' = Visible
<1>1. /\ Capacity \in Nat /\ Capacity > 0 /\ Idle \notin Calls
      /\ R \in 0..Capacity /\ Contents \in Seq(Bytes) /\ Len(Contents) = R
      /\ count \in Nat /\ dest \in Seq(Bytes)
      /\ writePos = After(readPos, R) /\ (R = Capacity <=> isFull)
  BY RingAssumption, StateFacts DEF TypeOK
<1>2. ASSUME Stutters PROVE [Queue!Next]_(Queue!vars)
  BY <1>2 DEF Queue!vars
<1>3. ASSUME NEW c \in Calls, Begin(c) PROVE Queue!Invoke
  <2>1. /\ call = Idle /\ call' = c /\ c # Idle /\ result' = result
        /\ count' = 0 /\ dest' = <<>>
        /\ ReadableBytes' = R /\ Contents' = Contents
    BY <1>1, <1>3 DEF Begin, memberVars, ReadableBytes, Contents
  <2>2. Visible = Contents BY <2>1, VisibleCases
  <2>3. In("Write")' \/ In("Read")' \/ In("Peek")' BY <2>1 DEF In, Calls
  <2>4. Visible' = Contents
    <3>1. CASE In("Write")'
      <4>1. R - 0 = R BY <1>1
      <4>2. QED BY <1>1, <2>1, <3>1, <4>1, VisibleCases, SubSeqFull
    <3>2. CASE In("Read")' BY <1>1, <2>1, <3>2, VisibleCases, ConcatEmptySeq
    <3>3. CASE In("Peek")' BY <2>1, <3>3, VisibleCases
    <3>4. QED BY <2>3, <3>1, <3>2, <3>3
  <2>5. QED BY <2>1, <2>2, <2>4 DEF Queue!Invoke
<1>4. ASSUME NEW src \in Sources, WriteCall(src) PROVE Queue!Invoke
  <2>1. [op |-> "Write", src |-> src] \in Calls BY DEF Calls
  <2>2. QED BY <1>3, <1>4, <2>1 DEF WriteCall
<1>5. ASSUME NEW length \in Lengths, ReadCall(length) \/ PeekCall(length)
      PROVE  Queue!Invoke
  <2>1. /\ [op |-> "Read", length |-> length] \in Calls
        /\ [op |-> "Peek", length |-> length] \in Calls
    BY DEF Calls
  <2>2. QED BY <1>3, <1>5, <2>1 DEF ReadCall, PeekCall
<1>6. CASE WriteByte
  <2> DEFINE x == call.src[count + 1]
  <2>1. /\ ReadableBytes' = R + 1 /\ Contents' = Append(Contents, x) /\ x \in Bytes
        /\ In("Write") /\ In("Write")' /\ call' = call /\ result' = result
        /\ count' = count + 1 /\ count <= R
    BY <1>6, WriteByteEffect DEF WriteByte, In, LoopInv
  <2>2. (R + 1) - (count + 1) = R - count /\ R - count \in 0..R
    BY <1>1, <2>1
  <2>3. ASSUME NEW y \in Bytes
        PROVE  SubSeq(Append(Contents, y), 1, R - count)
                   = SubSeq(Contents, 1, R - count)
    <3> DEFINE m == R - count
               s == Append(Contents, y)
               a == SubSeq(s, 1, m)
               b == SubSeq(Contents, 1, m)
    <3>1. s \in Seq(Bytes) /\ Len(s) = R + 1 /\ \A i \in 1..R : s[i] = Contents[i]
      BY <1>1, AppendProperties
    <3>2. m \in 0..R /\ m \in 0..(R + 1) BY <1>1, <2>2
    <3> HIDE DEF m, s
    <3>3. a \in Seq(Bytes) /\ Len(a) = m /\ \A i \in 1..m : a[i] = s[i]
      BY <3>1, <3>2, SubSeqFacts
    <3>4. b \in Seq(Bytes) /\ Len(b) = m /\ \A i \in 1..m : b[i] = Contents[i]
      BY <1>1, <3>2, SubSeqFacts
    <3> HIDE DEF a, b
    <3>5. Len(a) = Len(b) /\ \A i \in 1..Len(a) : a[i] = b[i]
      BY <1>1, <3>1, <3>2, <3>3, <3>4
    <3>6. a = b BY <3>3, <3>4, <3>5, SeqEqual
    <3>7. QED BY <3>6 DEF a, b, s, m
  <2>4. Visible' = Visible BY <2>1, <2>2, <2>3, VisibleCases
  <2>5. QED BY <1>2, <2>1, <2>4
<1>7. CASE WriteReturn
  <2> DEFINE V == SubSeq(Contents, 1, R - count)
             t == SubSeq(call.src, 1, count)
  <2>1. /\ In("Write") /\ call # Idle /\ call.op = "Write" /\ call' = Idle
        /\ result' = [count |-> count, bytes |-> <<>>]
        /\ ReadableBytes' = R /\ Contents' = Contents
        /\ ~(count < Len(call.src) /\ Capacity - R > 0)
        /\ count <= Len(call.src) /\ count <= R
        /\ \A i \in 1..count : Contents[R - count + i] = call.src[i]
    BY <1>7 DEF WriteReturn, Return, In, LoopInv, memberVars, ReadableBytes,
       Contents, WriteGoesOn, WritableBytes
  <2>2. Visible = V /\ Visible' = Contents BY <2>1, VisibleCases
  <2>3. call.src \in Seq(Bytes) /\ Len(call.src) \in Nat BY <2>1, CallTypes
  <2>4. R - count \in 0..R /\ Len(V) = R - count
    <3>1. R - count \in 0..Len(Contents) BY <1>1, <2>1
    <3>2. QED BY <1>1, <3>1, SubSeqFacts
  <2>5. Queue!AtMost(Len(call.src), Capacity - (R - count)) = count
    BY <1>1, <2>1, <2>3 DEF Queue!AtMost
  <2>6. Contents = V \o t
    <3>1. count \in 0..Len(call.src) BY <1>1, <2>1, <2>3
    <3>2. t \in Seq(Bytes) /\ Len(t) = count /\ \A i \in 1..count : t[i] = call.src[i]
      BY <2>3, <3>1, SubSeqFacts
    <3> HIDE DEF t
    <3>3. /\ Len(t) = Len(Contents) - (R - count)
          /\ \A i \in 1..Len(t) : t[i] = Contents[R - count + i]
      <4>1. Len(Contents) - (R - count) = count BY <1>1
      <4>2. ASSUME NEW i \in 1..count PROVE t[i] = Contents[R - count + i]
        <5>1. t[i] = call.src[i] BY <3>2
        <5>2. Contents[R - count + i] = call.src[i] BY <2>1
        <5>3. QED BY <5>1, <5>2
      <4>3. QED BY <3>2, <4>1, <4>2
    <3>4. R - count \in 0..Len(Contents) BY <1>1, <2>4
    <3>5. QED BY <1>1, <3>2, <3>3, <3>4, SplitAt
  <2>7. Queue!Room = Capacity - (R - count) BY <2>2, <2>4 DEF Queue!Room
  <2>8. Queue!WriteReturns
    BY <2>1, <2>2, <2>5, <2>6, <2>7 DEF Queue!WriteReturns
  <2>9. QED BY <2>8 DEF Queue!Next
<1>8. CASE ReadByte
  <2>1. /\ In("Read") /\ In("Read")' /\ call' = call /\ result' = result
        /\ dest' = Append(dest, buffer[readPos]) /\ R > 0
    BY <1>8 DEF ReadByte, ReadGoesOn, In
  <2>2. /\ 1 \in 0..R /\ 1 \in 1..R /\ readPos' = After(readPos, 1)
        /\ isFull' = FALSE /\ buffer' = buffer /\ writePos' = writePos
    BY <1>1, <1>8, <2>1 DEF ReadByte
  <2>3. Contents' = SubSeq(Contents, 2, R)
    <3>1. 1 + 1 = 2 /\ (1 > 0 \/ ~isFull) OBVIOUS
    <3>2. Contents' = SubSeq(Contents, 1 + 1, ReadableBytes)
      BY <2>2, <3>1, MoveReadEffect
    <3>3. QED BY <3>1, <3>2
  <2>4. buffer[readPos] = Contents[1]
    <3>1. Contents[1] = buffer[After(readPos, 1 - 1)] BY <2>2, StateFacts
    <3>2. 1 - 1 = 0 /\ 0 \in 0..Capacity /\ readPos \in Positions
      BY <1>1 DEF TypeOK
    <3>3. After(readPos, 0) = readPos
      BY <1>1, <3>2, AfterValue DEF Positions
    <3>4. QED BY <3>1, <3>2, <3>3
  <2>5. Visible' = Visible
    BY <1>1, <2>1, <2>3, <2>4, VisibleCases, MoveHead
  <2>6. QED BY <1>2, <2>1, <2>5
<1>9. CASE ReadReturn
  <2> DEFINE V == dest \o Contents
  <2>1. /\ In("Read") /\ call # Idle /\ call.op = "Read" /\ call' = Idle
        /\ result' = [count |-> count, bytes |-> dest]
        /\ Contents' = Contents
        /\ ~(count < call.length /\ R > 0)
        /\ count <= call.length /\ count = Len(dest)
    BY <1>9 DEF ReadReturn, Return, In, LoopInv, memberVars, ReadableBytes,
       Contents, ReadGoesOn
  <2>2. Visible = V /\ Visible' = Contents BY <2>1, VisibleCases
  <2>3. call.length \in Nat BY <2>1, CallTypes
  <2>4. /\ Len(V) = count + R
        /\ SubSeq(V, 1, count) = dest
        /\ SubSeq(V, count + 1, Len(V)) = Contents
    <3>1. /\ Len(V) = Len(dest) + Len(Contents)
          /\ SubSeq(V, 1, Len(dest)) = dest
          /\ SubSeq(V, Len(dest) + 1, Len(V)) = Contents
      <4>1. ASSUME NEW s \in Seq(Bytes), NEW t \in Seq(Bytes)
            PROVE  /\ Len(s \o t) = Len(s) + Len(t)
                   /\ SubSeq(s \o t, 1, Len(s)) = s
                   /\ SubSeq(s \o t, Len(s) + 1, Len(s \o t)) = t
        BY JoinParts
      <4>2. dest \in Seq(Bytes) /\ Contents \in Seq(Bytes) BY <1>1
      <4>3. QED BY <4>1, <4>2, Zenon
    <3>2. Len(Contents) = R /\ Len(dest) = count BY <1>1, <2>1
    <3> HIDE DEF V, R
    <3>3. QED BY <3>1, <3>2
  <2>5. Queue!AtMost(call.length, count + R) = count
    BY <1>1, <2>1, <2>3 DEF Queue!AtMost
  <2> HIDE DEF V
  <2>6. Queue!ReadReturns
    BY <2>1, <2>2, <2>4, <2>5
    DEF Queue!ReadReturns, Queue!First, Queue!AllBut
  <2>7. QED BY <2>6 DEF Queue!Next
<1>10. CASE PeekByte
  <2>1. /\ In("Peek") /\ In("Peek")' /\ call' = call /\ result' = result
        /\ Contents' = Contents
    BY <1>10 DEF PeekByte, In, memberVars, Contents, ReadableBytes
  <2>2. QED BY <1>2, <2>1, VisibleCases
<1>11. CASE PeekReturn
  <2>1. /\ In("Peek") /\ call # Idle /\ call.op = "Peek" /\ call' = Idle
        /\ result' = [count |-> count, bytes |-> dest]
        /\ Contents' = Contents /\ ~PeekGoesOn
        /\ count <= call.length /\ count <= R
        /\ pos = After(readPos, count) /\ dest = SubSeq(Contents, 1, count)
    BY <1>11 DEF PeekReturn, Return, In, LoopInv, memberVars, ReadableBytes,
       Contents
  <2>2. Visible = Contents /\ Visible' = Contents BY <2>1, VisibleCases
  <2>3. call.length \in Nat BY <2>1, CallTypes
  <2>4. Queue!AtMost(call.length, R) = count
    <3>1. CASE count > 0 /\ pos = writePos /\ isFull
      <4>1. readPos = writePos /\ R = Capacity
        BY <1>1, <3>1 DEF FlagMeansFull
      <4>2. ASSUME count < Capacity PROVE FALSE
        <5>1. /\ count \in 0..(Capacity - 1) /\ 0 \in 0..(Capacity - 1)
              /\ 0 \in 0..Capacity /\ readPos \in Positions /\ count # 0
          BY <1>1, <3>1, <4>2 DEF TypeOK
        <5>2. After(readPos, 0) = readPos
          BY <1>1, <5>1, AfterValue DEF Positions
        <5>3. After(readPos, count) # After(readPos, 0)
          BY <5>1, AfterInjective
        <5>4. QED BY <2>1, <3>1, <4>1, <5>2, <5>3
      <4>3. count = R BY <1>1, <2>1, <4>1, <4>2
      <4>4. QED BY <1>1, <2>1, <2>3, <4>3 DEF Queue!AtMost
    <3>2. CASE ~(count > 0 /\ pos = writePos /\ isFull)
      BY <1>1, <2>1, <2>3, <3>2 DEF Queue!AtMost, PeekGoesOn
    <3>3. QED BY <3>1, <3>2
  <2>5. Queue!PeekReturns
    BY <1>1, <2>1, <2>2, <2>4 DEF Queue!PeekReturns, Queue!First
  <2>6. QED BY <2>5 DEF Queue!Next
<1>12. ASSUME NEW length \in Lengths, AdvanceRead(length)
       PROVE  [Queue!Next]_(Queue!vars)
  <2>1. /\ length \in 0..R /\ length > 0 /\ length \in 0..Capacity
        /\ call = Idle /\ call' = Idle /\ result' = result
        /\ readPos' = After(readPos, length) /\ isFull' = FALSE
        /\ buffer' = buffer /\ writePos' = writePos
    BY <1>1, <1>12, RingAssumption DEF AdvanceRead, localVars, Lengths
  <2>2. Contents' = SubSeq(Contents, length + 1, R)
    BY <2>1, MoveReadEffect
  <2>3. Visible = Contents /\ Visible' = Contents' BY <2>1, VisibleCases
  <2>4. Queue!Skip(length)
    <3>1. length <= Len(Visible) BY <1>1, <2>1, <2>3
    <3>2. Visible' = SubSeq(Visible, length + 1, Len(Visible))
      BY <1>1, <2>2, <2>3
    <3>3. QED BY <2>1, <3>1, <3>2 DEF Queue!Skip, Queue!AllBut
  <2>5. QED BY <2>1, <2>4 DEF Queue!Next
<1>13. ASSUME NEW length \in Lengths, AdvanceWrite(length)
       PROVE  [Queue!Next]_(Queue!vars)
  <2>1. /\ length \in Nat /\ length > 0 /\ length \in 0..Capacity
        /\ length <= Capacity - R
        /\ call = Idle /\ call' = Idle /\ result' = result
    BY <1>1, <1>13, RingAssumption
    DEF AdvanceWrite, WritableBytes, localVars, Lengths
  <2>2. /\ Len(Contents') = R + length
        /\ SubSeq(Contents', 1, R) = Contents
    BY <1>13, <2>1, AdvanceWriteEffect
  <2>3. Visible = Contents /\ Visible' = Contents' BY <2>1, VisibleCases
  <2>4. Queue!Commit(length)
    BY <1>1, <2>1, <2>2, <2>3 DEF Queue!Commit, Queue!Room
  <2>5. QED BY <2>1, <2>4 DEF Queue!Next
<1>14. ASSUME NEW i \in Positions, NEW b \in Bytes, StoreThroughWriterPtr(i, b)
       PROVE  [Queue!Next]_(Queue!vars)
  <2>1. /\ Contents' = Contents /\ call = Idle /\ call' = call
        /\ result' = result
    BY <1>14, StoreEffect DEF StoreThroughWriterPtr, localVars
  <2>2. QED BY <1>2, <2>1, VisibleCases
<1>15. CASE UNCHANGED vars
  <2>1. call' = call /\ result' = result /\ Visible' = Visible
    BY <1>15 DEF vars, memberVars, localVars, Visible, In, Contents,
       ReadableBytes
  <2>2. QED BY <1>2, <2>1
<1>16. QED
  BY <1>4, <1>5, <1>6, <1>7, <1>8, <1>9, <1>10, <1>11, <1>12, <1>13, <1>14,
     <1>15
  DEF Next, Queue!Next

(* For a caller that advances by at least one byte and peeks at no more    *)
(* than there is, the ring buffer of any capacity is a byte queue: every   *)
(* Write, Read, Peek and advance does what it promises as one whole.       *)
THEOREM RingImplementsByteQueue == Strict => (Spec => ImplementsByteQueue)
<1> SUFFICES ASSUME Strict PROVE Spec => ImplementsByteQueue
  OBVIOUS
<1> DEFINE Inv == TypeOK /\ FlagMeansFull /\ LoopInv
<1>1. Init => Inv
  <2>1. Init => LoopInv BY DEF Init, LoopInv, In
  <2>2. QED BY <2>1, InitRing
<1>2. Inv /\ [Next]_vars => Inv'
  BY NextRing, NextLoop
<1>3. Inv /\ [Next]_vars => [Queue!Next]_(Queue!vars)
  BY StepRefines
<1>4. QED
  <2> HIDE DEF Inv
  <2>1. Spec => []Inv BY <1>1, <1>2, PTL DEF Spec
  <2>2. QED
    BY <1>3, <2>1, InitRefines, PTL DEF Spec, ImplementsByteQueue, Queue!Spec
=============================================================================
