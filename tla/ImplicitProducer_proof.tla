------------------------ MODULE ImplicitProducer_proof ------------------------
(***************************************************************************)
(* TLAPS proofs about ImplicitProducer, for any width of the indices, size *)
(* of the blocks and of the block index, and any number of consumers.      *)
(***************************************************************************)
EXTENDS ImplicitProducer, FiniteSetTheorems, FunctionTheorems, NaturalsInduction,
        WellFoundedInduction, TLAPS

-----------------------------------------------------------------------------
(* Types, as far as they need nothing else *)

Slots(g) == 0 .. Capacity(g) - 1
Ids == Blocks \cup {Null}
ProducerPcs ==
    {"idle", "insert", "tail", "requisition", "value", "rewind", "unlist", "publish"}
Producer == [pc : ProducerPcs, entry : Entries, block : Ids]
Locals ==
    [pc : Pcs, count : Indices, index : Indices, header : 0 .. MaxIndexes,
     tail : Nat, entry : Entries, block : Ids]

(* A ring of the block index: its slots hold entries, one is its tail. *)
IsRing(r, g) == r \in [tail : Slots(g), entry : [Slots(g) -> Entries]]
Rings == UNION {[tail : Slots(g), entry : [Slots(g) -> Entries]] : g \in 1 .. MaxIndexes}

(* What a consumer at the lookup has loaded is in range. *)
LookupTyped(me, n) ==
    /\ me.pc \in {"tail", "entry"} => me.header \in 1 .. n
    /\ me.pc = "entry" => me.tail \in Slots(me.header)

Typed ==
    /\ tailBlock \in Ids /\ producer \in Producer
    /\ Current \in 1 .. MaxIndexes /\ blockIndex \in Seq(Rings)
    /\ \A g \in 1 .. Current : IsRing(blockIndex[g], g)
    /\ key \in [Entries -> Indices] /\ value \in [Entries -> Ids]
    /\ elements \in [Blocks -> [0..(BLOCK_SIZE - 1) -> Indices \cup {Null}]]
    /\ elementsCompletelyDequeued \in [Blocks -> Nat]
    /\ freeBlocks \subseteq Ids
    /\ consumer \in [Consumers -> Locals]
    /\ \A c \in Consumers : LookupTyped(consumer[c], Current)

-----------------------------------------------------------------------------
(* The counters, as remainders of the numbers they would be if they did    *)
(* not wrap: T and H of tailIndex and headIndex, O of                      *)
(* dequeueOptimisticCount, m[c] of what c has computed before it rechecks. *)

(* Those who have counted themselves in and neither claimed nor given up. *)
Counted == {c \in Consumers : consumer[c].pc \in {"recheck", "late", "claim"}}

(* Those who will claim once n elements are published. *)
Ahead(m, n) ==
    {c \in Consumers : \/ consumer[c].pc = "claim"
                       \/ consumer[c].pc = "recheck" /\ m[c] < n}

(* The end of the block that is being filled. *)
Reach(T) ==
    IF T % BLOCK_SIZE # 0 THEN T - (T % BLOCK_SIZE) + BLOCK_SIZE
    ELSE IF producer.pc = "idle" THEN T ELSE T + BLOCK_SIZE

LocalCount(T, m, c) ==
    /\ consumer[c].pc \in {"look", "count"} => consumer[c].count \in 0 .. dequeueOvercommit
    /\ consumer[c].pc = "recheck" =>
           /\ consumer[c].count = m[c] % Period
           /\ m[c] < T + Cardinality(Consumers) + MaxOvercommit

Counts(T, H, O, m) ==
    /\ O \in Nat /\ m \in [Consumers -> Int]
    /\ dequeueOptimisticCount = O % Period
    /\ O = dequeueOvercommit + H + Cardinality(Counted)
    /\ \A n \in Nat : n >= T => H + Cardinality(Ahead(m, n)) <= n
    /\ \A c \in Consumers : LocalCount(T, m, c)

CountersInv(T, H) ==
    /\ T \in Nat /\ H \in Nat
    /\ tailIndex = T % Period /\ headIndex = H % Period
    /\ dequeueOvercommit \in 0 .. MaxOvercommit
    /\ producer.pc # "idle" => T % BLOCK_SIZE = 0
    /\ Reach(T) - H < Half
    /\ \E O, m : Counts(T, H, O, m)

-----------------------------------------------------------------------------
(* The block index and the blocks.  The elements k * BLOCK_SIZE and on are *)
(* in block number k.  num[e] is the number whose key the entry e holds,   *)
(* idx[c] the index that c has claimed, before they wrap; and in the slot  *)
(* s of ring g are, however often they are reused, only entries of numbers *)
(* that are s + a[g] modulo the capacity of the ring.                      *)

(* The number of the last block with an element in it. *)
Last(T) == (T - 1) \div BLOCK_SIZE
Number(i) == i \div BLOCK_SIZE
Slot(a, g, k) == (k - a[g]) % Capacity(g)
EntryAt(a, g, k) == blockIndex[g].entry[Slot(a, g, k)]
Place(a, k) == EntryAt(a, Current, k)

Listing == {"requisition", "value", "rewind", "publish"}
Preparing == Listing \cup {"tail", "unlist"}
TailNumber(T) == Last(T) + (IF producer.pc \in Listing THEN 1 ELSE 0)

Holding == {"header", "tail", "entry", "read"}
Holds(c) == consumer[c].pc \in Holding

(* The elements of block k that have been read. *)
Members(k) == (k * BLOCK_SIZE) .. (k * BLOCK_SIZE + BLOCK_SIZE - 1)
ReadIn(H, idx, k) ==
    {i \in Members(k) : i < H /\ \A c \in Consumers : Holds(c) => idx[c] # i}

KeysInv(num) ==
    /\ num \in [Entries -> Int]
    /\ \A e \in Entries :
           \/ num[e] = -1 /\ key[e] = INVALID_BLOCK_BASE /\ value[e] = Null
           \/ num[e] \in Nat /\ key[e] = (num[e] * BLOCK_SIZE) % Period

(* Every ring is part of the current one, modulo its capacity. *)
RingsInv(a) ==
    /\ a \in [1 .. MaxIndexes -> Int]
    /\ \A s \in Slots(Current) :
           /\ blockIndex[Current].entry[s] < Capacity(Current)
           /\ \A t \in Slots(Current) :
                  blockIndex[Current].entry[s] = blockIndex[Current].entry[t] => s = t
    /\ \A g \in 1 .. Current : \A s \in Slots(g) : \E t \in Slots(Current) :
           /\ blockIndex[Current].entry[t] = blockIndex[g].entry[s]
           /\ (t + a[Current]) % Capacity(g) = (s + a[g]) % Capacity(g)

(* The numbers whose keys the entries hold are in the right slots and, as  *)
(* there are slots for so many, among the last ones.                       *)
NumbersInv(T, num, a) ==
    /\ \A e \in Entries : num[e] # -1 =>
           /\ Place(a, num[e]) = e
           /\ Last(T) - Capacity(Current) < num[e] /\ num[e] <= Last(T) + 1
    /\ blockIndex[Current].tail = Slot(a, Current, TailNumber(T))
    /\ T > 0 => num[Place(a, Last(T))] # -1
    /\ \A g \in 1 .. Current : g < Current =>
           num[blockIndex[g].entry[blockIndex[g].tail]] # -1

ProducerInv(T, num, a) ==
    /\ producer.pc \in Preparing =>
           /\ producer.entry = Place(a, Last(T) + 1)
           /\ num[producer.entry] = Last(T) + 1
    /\ producer.pc \in Preparing \ {"publish"} => value[producer.entry] = Null
    /\ producer.pc \in {"idle", "insert", "tail", "requisition"} => producer.block = Null
    /\ producer.pc = "value" =>
           producer.block # Null /\ elementsCompletelyDequeued[producer.block] = 0
    /\ producer.pc = "publish" => value[producer.entry] = tailBlock /\ tailBlock # Null
    /\ T % BLOCK_SIZE # 0 =>
           tailBlock # Null /\ \E e \in Entries : num[e] = Number(T) /\ value[e] = tailBlock

(* How much has been read of the blocks that are listed. *)
ListedInv(T, H, num, idx) ==
    \A e \in Entries : value[e] # Null =>
        /\ num[e] = Last(T) + 1 => producer.pc = "publish"
        /\ elementsCompletelyDequeued[value[e]] = Cardinality(ReadIn(H, idx, num[e]))

Listed(num, k, e) == num[e] = k /\ value[e] # Null
Stored(num, i) ==
    \E e \in Entries : /\ Listed(num, Number(i), e)
                       /\ elements[value[e]][i % BLOCK_SIZE] = i % Period

ElementsInv(T, H, num) == \A i \in Nat : H <= i /\ i < T => Stored(num, i)

HolderInv(H, num, a, idx, c) ==
    LET me == consumer[c]
    IN  /\ Holds(c) =>
               /\ idx[c] \in Nat /\ idx[c] < H /\ me.index = idx[c] % Period
               /\ Stored(num, idx[c])
        /\ me.pc \in {"tail", "entry"} =>
               Listed(num, Number(idx[c]), EntryAt(a, me.header, Number(idx[c])))
        /\ me.pc = "entry" => num[blockIndex[me.header].entry[me.tail]] # -1
        /\ me.pc = "read" =>
               Listed(num, Number(idx[c]), me.entry) /\ value[me.entry] = me.block
        /\ me.pc = "unlist" =>
               /\ me.block # Null /\ value[me.entry] = me.block
               /\ elementsCompletelyDequeued[me.block] = BLOCK_SIZE
        /\ me.pc = "free" =>
               /\ me.block \in Blocks \ freeBlocks
               /\ \A e \in Entries : value[e] # me.block

RivalsInv(idx) ==
    \A c, d \in Consumers : c # d =>
        /\ Holds(c) /\ Holds(d) => idx[c] # idx[d]
        /\ consumer[c].pc = "unlist" /\ consumer[d].pc = "unlist" =>
               consumer[c].entry # consumer[d].entry
        /\ consumer[c].pc = "free" /\ consumer[d].pc = "free" =>
               consumer[c].block # consumer[d].block

(* Whose a block is: the list's, an entry's, the producer's or that of a   *)
(* consumer that gives it back.                                            *)
ProducerOwns(b) == producer.pc \in {"value", "rewind", "unlist"} /\ producer.block = b

OwnersInv ==
    /\ freeBlocks \subseteq Blocks
    /\ \A b \in Blocks : elementsCompletelyDequeued[b] <= BLOCK_SIZE
    /\ \A e \in Entries : value[e] \notin freeBlocks
    /\ \A e, f \in Entries : value[e] = value[f] /\ value[e] # Null => e = f
    /\ \A b \in Blocks : ProducerOwns(b) =>
           /\ b \notin freeBlocks
           /\ \A e \in Entries : value[e] # b
           /\ \A c \in Consumers : consumer[c].pc = "free" => consumer[c].block # b
    /\ \A b \in Blocks :
           \/ b \in freeBlocks \/ ProducerOwns(b)
           \/ \E e \in Entries : value[e] = b
           \/ \E c \in Consumers : consumer[c].pc = "free" /\ consumer[c].block = b
    /\ \A e \in Entries :
           value[e] # Null /\ elementsCompletelyDequeued[value[e]] = BLOCK_SIZE =>
               \E c \in Consumers : consumer[c].pc = "unlist" /\ consumer[c].entry = e

BlocksInv(T, H, num, a, idx) ==
    /\ idx \in [Consumers -> Nat]
    /\ KeysInv(num) /\ RingsInv(a) /\ NumbersInv(T, num, a) /\ ProducerInv(T, num, a)
    /\ ListedInv(T, H, num, idx) /\ ElementsInv(T, H, num)
    /\ \A c \in Consumers : HolderInv(H, num, a, idx, c)
    /\ RivalsInv(idx) /\ OwnersInv

(* The inductive invariant. *)
StreamInv ==
    /\ Typed
    /\ \E T, H : CountersInv(T, H) /\ \E num, a, idx : BlocksInv(T, H, num, a, idx)

-----------------------------------------------------------------------------
(* Numbers *)

(* Induction: a set of natural numbers has a least element. *)
LEMMA LeastNumber ==
    ASSUME NEW T, T \subseteq Nat, T # {}
    PROVE  \E m \in T : \A n \in T : m <= n
<1>1. PICK m \in T : \A n \in T : ~(<<n, m>> \in OpToRel(<, Nat))
  BY WFMin, NatLessThanWellFounded, Zenon
<1>2. ASSUME NEW n \in T PROVE m <= n
  <2>1. n \in Nat /\ m \in Nat OBVIOUS
  <2>2. ~(n < m) BY <1>1, <2>1 DEF OpToRel
  <2>3. QED BY <2>1, <2>2
<1>3. QED BY <1>2

(* Division with remainder. *)
LEMMA DivMod ==
    ASSUME NEW a \in Int, NEW n \in Nat \ {0}
    PROVE  a % n \in 0 .. n - 1 /\ a \div n \in Int /\ a = n * (a \div n) + (a % n)
OBVIOUS

LEMMA ModIs ==
    ASSUME NEW a \in Int, NEW n \in Nat \ {0}, NEW q \in Int, NEW r \in 0 .. n - 1,
           a = n * q + r
    PROVE  a % n = r /\ a \div n = q
OBVIOUS

LEMMA ModShift ==
    ASSUME NEW a \in Int, NEW n \in Nat \ {0}, NEW k \in Int
    PROVE  (a + n * k) % n = a % n
<1> DEFINE q == a \div n
           r == a % n
<1>1. q \in Int /\ r \in 0 .. n - 1 /\ a = n * q + r BY DivMod
<1> HIDE DEF q, r
<1>2. a + n * k \in Int /\ q + k \in Int /\ a + n * k = n * (q + k) + r BY <1>1
<1>3. (a + n * k) % n = r BY <1>1, <1>2, ModIs
<1>4. QED BY <1>3 DEF r

(* Remainders may be taken early or late. *)
LEMMA ModPlus ==
    ASSUME NEW a \in Int, NEW b \in Int, NEW n \in Nat \ {0}
    PROVE  ((a % n) + b) % n = (a + b) % n
<1> DEFINE q == a \div n
           r == a % n
<1>1. q \in Int /\ r \in 0 .. n - 1 /\ a = n * q + r BY DivMod
<1> HIDE DEF q, r
<1>2. r + b \in Int /\ a + b = (r + b) + n * q BY <1>1
<1>3. ((r + b) + n * q) % n = (r + b) % n BY <1>1, <1>2, ModShift
<1>4. QED BY <1>2, <1>3 DEF r

LEMMA ModMinus ==
    ASSUME NEW a \in Int, NEW b \in Int, NEW n \in Nat \ {0}
    PROVE  (a - (b % n)) % n = (a - b) % n
<1> DEFINE q == b \div n
           r == b % n
<1>1. q \in Int /\ r \in 0 .. n - 1 /\ b = n * q + r BY DivMod
<1> HIDE DEF q, r
<1>2. a - b \in Int /\ a - r = (a - b) + n * q BY <1>1
<1>3. ((a - b) + n * q) % n = (a - b) % n BY <1>1, <1>2, ModShift
<1>4. QED BY <1>2, <1>3 DEF r

LEMMA ModDifference ==
    ASSUME NEW a \in Int, NEW b \in Int, NEW n \in Nat \ {0}
    PROVE  ((a % n) - (b % n)) % n = (a - b) % n
<1>1. a % n \in Int BY DivMod
<1>2. ((a % n) - (b % n)) % n = ((a % n) - b) % n BY <1>1, ModMinus
<1>3. -b \in Int /\ (a % n) - b = (a % n) + (-b) /\ a - b = a + (-b) BY <1>1
<1>4. ((a % n) + (-b)) % n = (a + (-b)) % n BY <1>3, ModPlus
<1>5. QED BY <1>2, <1>3, <1>4

(* Numbers that agree modulo n agree modulo what divides n. *)
LEMMA ModOfMod ==
    ASSUME NEW a \in Int, NEW n \in Nat \ {0}, NEW d \in Nat \ {0}, n % d = 0
    PROVE  (a % n) % d = a % d
<1> DEFINE q == a \div n
           r == a % n
           m == n \div d
<1>1. q \in Int /\ r \in 0 .. n - 1 /\ a = n * q + r BY DivMod
<1>2. m \in Int /\ n = d * m BY DivMod
<1> HIDE DEF q, r, m
<1>3. n * q = d * (m * q) /\ m * q \in Int
  <2>1. n * q = (d * m) * q BY <1>2
  <2>2. (d * m) * q = d * (m * q) BY <1>1, <1>2
  <2>3. QED BY <1>1, <1>2, <2>1, <2>2
<1>4. a = r + d * (m * q) /\ r \in Int BY <1>1, <1>3
<1>5. (r + d * (m * q)) % d = r % d BY <1>3, <1>4, ModShift
<1>6. QED BY <1>4, <1>5 DEF r

(* Small numbers are their own remainders. *)
LEMMA ModSmall ==
    ASSUME NEW n \in Nat \ {0}, NEW a \in 0 .. n - 1
    PROVE  a % n = a
<1>1. a \in Int /\ a = n * 0 + a OBVIOUS
<1>2. QED BY <1>1, ModIs

(* The first n + 1 powers of two, as a function. *)
Powers(n, g) == /\ g \in [0 .. n -> Nat]
                /\ \A i \in 0 .. n : g[i] = IF i = 0 THEN 1 ELSE 2 * g[i - 1]

(* There are such functions, by induction on n, and they agree. *)
LEMMA PowersExist ==
    ASSUME NEW n \in Nat PROVE \E g : Powers(n, g)
<1> DEFINE T == {m \in Nat : ~\E g : Powers(m, g)}
<1> SUFFICES ASSUME T # {} PROVE FALSE
  OBVIOUS
<1>1. PICK m \in T : \A k \in T : m <= k
  <2> T \subseteq Nat OBVIOUS
  <2> HIDE DEF T
  <2> QED BY LeastNumber
<1>2. m # 0
  <2> DEFINE g == [i \in 0 .. 0 |-> 1]
  <2>1. g \in [0 .. 0 -> Nat] /\ \A i \in 0 .. 0 : i = 0 /\ g[i] = 1 OBVIOUS
  <2>2. Powers(0, g) BY <2>1 DEF Powers
  <2>3. QED BY <1>1, <2>2
<1>3. m \in Nat /\ m - 1 \in Nat /\ m - 1 \notin T BY <1>1, <1>2
<1>4. PICK g : Powers(m - 1, g) BY <1>3
<1> DEFINE h == [i \in 0 .. m |-> IF i = m THEN 2 * g[m - 1] ELSE g[i]]
<1>5. \A i \in 0 .. m - 1 : g[i] \in Nat /\ h[i] = g[i] BY <1>3, <1>4 DEF Powers
<1>6. h[m] = 2 * h[m - 1] /\ h[m] \in Nat
  <2>1. m - 1 \in 0 .. m - 1 /\ m \in 0 .. m BY <1>3
  <2>2. g[m - 1] \in Nat /\ h[m - 1] = g[m - 1] BY <1>5, <2>1
  <2>3. h[m] = 2 * g[m - 1] BY <2>1
  <2>4. QED BY <2>2, <2>3
<1>7. h \in [0 .. m -> Nat] BY <1>3, <1>5, <1>6
<1>8. ASSUME NEW i \in 0 .. m
      PROVE  h[i] = IF i = 0 THEN 1 ELSE 2 * h[i - 1]
  <2>1. CASE i = m BY <1>2, <1>6, <2>1
  <2>2. CASE i # m
    <3>1. i \in 0 .. m - 1 /\ (i # 0 => i - 1 \in 0 .. m - 1) BY <1>3, <2>2
    <3>2. g[i] = IF i = 0 THEN 1 ELSE 2 * g[i - 1] BY <1>4, <3>1 DEF Powers
    <3>3. QED BY <1>5, <3>1, <3>2
  <2>3. QED BY <2>1, <2>2
<1>9. Powers(m, h) BY <1>7, <1>8 DEF Powers
<1>10. QED BY <1>9

LEMMA PowersAgree ==
    ASSUME NEW n \in Nat, NEW g, NEW h, Powers(n, g), Powers(n + 1, h)
    PROVE  g[n] = h[n]
<1> DEFINE T == {i \in 0 .. n : g[i] # h[i]}
<1> SUFFICES ASSUME T # {} PROVE FALSE
  OBVIOUS
<1>1. PICK m \in T : \A k \in T : m <= k
  <2> T \subseteq Nat OBVIOUS
  <2> HIDE DEF T
  <2> QED BY LeastNumber
<1>2. m \in 0 .. n /\ m \in 0 .. n + 1 /\ g[m] # h[m] BY <1>1
<1>3. m # 0 BY <1>2 DEF Powers
<1>4. m - 1 \in 0 .. n /\ m - 1 \notin T BY <1>1, <1>2, <1>3
<1>5. g[m - 1] = h[m - 1] BY <1>4
<1>6. QED BY <1>2, <1>3, <1>5 DEF Powers

(* pow2 is what its recursive definition says. *)
LEMMA PowerOfTwo ==
    \A k \in Nat : pow2[k] = IF k = 0 THEN 1 ELSE 2 * pow2[k - 1]
<1> DEFINE f(n) == CHOOSE g : Powers(n, g)
           G == [k \in Nat |-> f(k)[k]]
<1>1. \A n \in Nat : Powers(n, f(n)) BY PowersExist
<1> HIDE DEF f
<1>2. ASSUME NEW k \in Nat PROVE G[k] = IF k = 0 THEN 1 ELSE 2 * G[k - 1]
  <2>1. CASE k = 0 BY <1>1, <2>1 DEF Powers
  <2>2. CASE k # 0
    <3>1. k - 1 \in Nat /\ k = (k - 1) + 1 BY <2>2
    <3>2. Powers(k - 1, f(k - 1)) /\ Powers((k - 1) + 1, f(k)) BY <1>1, <3>1
    <3>3. f(k - 1)[k - 1] = f(k)[k - 1] BY <3>1, <3>2, PowersAgree
    <3>4. f(k)[k] = 2 * f(k)[k - 1] BY <1>1, <2>2 DEF Powers
    <3>5. QED BY <2>2, <3>1, <3>3, <3>4
  <2>3. QED BY <2>1, <2>2
<1>3. G = [k \in Nat |-> IF k = 0 THEN 1 ELSE 2 * G[k - 1]]
  <2> DEFINE H == [k \in Nat |-> IF k = 0 THEN 1 ELSE 2 * G[k - 1]]
  <2>1. \A k \in Nat : G[k] = H[k] BY <1>2
  <2>2. QED BY <2>1
<1> HIDE DEF G
<1>4. \E g : g = [k \in Nat |-> IF k = 0 THEN 1 ELSE 2 * g[k - 1]] BY <1>3
<1>5. pow2 = [k \in Nat |-> IF k = 0 THEN 1 ELSE 2 * pow2[k - 1]]
  BY <1>4 DEF pow2
<1>6. QED BY <1>5

LEMMA PowerIsLarge ==
    ASSUME NEW n \in Nat PROVE pow2[n] \in Nat /\ pow2[n] > n
<1> DEFINE T == {m \in Nat : ~(pow2[m] \in Nat /\ pow2[m] > m)}
<1> SUFFICES ASSUME T # {} PROVE FALSE
  OBVIOUS
<1>1. PICK m \in T : \A k \in T : m <= k
  <2> T \subseteq Nat OBVIOUS
  <2> HIDE DEF T
  <2> QED BY LeastNumber
<1>2. m # 0 BY <1>1, PowerOfTwo
<1>3. m - 1 \in Nat /\ m - 1 \notin T BY <1>1, <1>2
<1>4. pow2[m] = 2 * pow2[m - 1] BY <1>1, <1>2, PowerOfTwo
<1>5. QED BY <1>1, <1>3, <1>4

-----------------------------------------------------------------------------
(* The constants *)

LEMMA Sizes ==
    /\ Half \in Nat \ {0} /\ Period \in Nat \ {0} /\ Period = 2 * Half
    /\ BLOCK_SIZE \in 2 .. Half /\ BLOCK_SIZE \in Nat \ {0}
<1>1. Width \in Nat \ {0} /\ Width - 1 \in Nat BY ProducerAssumption
<1>2. pow2[Width] = 2 * pow2[Width - 1] BY <1>1, PowerOfTwo
<1>3. pow2[Width - 1] \in Nat /\ pow2[Width - 1] > Width - 1 BY <1>1, PowerIsLarge
<1>4. Half \in Nat \ {0} /\ Period = 2 * Half BY <1>1, <1>2, <1>3 DEF Half, Period
<1>5. QED BY <1>4, ProducerAssumption

LEMMA CapacityFacts ==
    ASSUME NEW g \in Nat \ {0}
    PROVE  /\ Capacity(g) \in Nat \ {0} /\ Capacity(g) > 1
           /\ Capacity(g + 1) = 2 * Capacity(g)
<1>1. g - 1 \in Nat /\ g \in Nat /\ (g + 1) - 1 = g BY SMT
<1>2. pow2[g] = 2 * pow2[g - 1] BY <1>1, PowerOfTwo
<1>3. pow2[g - 1] \in Nat /\ pow2[g - 1] > 0 BY <1>1, PowerIsLarge
<1> DEFINE I == IMPLICIT_INITIAL_INDEX_SIZE
           p == pow2[g - 1]
<1>4. I \in Nat /\ I > 1 BY ProducerAssumption
<1>5. Capacity(g) = I * p /\ Capacity(g + 1) = I * (2 * p) BY <1>1, <1>2 DEF Capacity
<1>6. p \in Nat /\ p >= 1 BY <1>3
<1> HIDE DEF I, p
<1>7. I * p \in Nat /\ I * p >= I /\ I * (2 * p) = 2 * (I * p) BY <1>4, <1>6
<1>8. QED BY <1>4, <1>5, <1>7

(* Every capacity divides the later ones. *)
LEMMA CapacityDivides ==
    ASSUME NEW g \in Nat \ {0}, NEW h \in Nat \ {0}, g <= h
    PROVE  /\ \E q \in Nat \ {0} : Capacity(h) = Capacity(g) * q
           /\ Capacity(h) % Capacity(g) = 0
           /\ Capacity(g) <= Capacity(h)
<1> DEFINE Ok(j) == \E q \in Nat \ {0} : Capacity(g + j) = Capacity(g) * q
           T == {j \in Nat : ~Ok(j)}
<1>0. Capacity(g) \in Nat \ {0} BY CapacityFacts
<1>1. T = {}
  <2> SUFFICES ASSUME T # {} PROVE FALSE OBVIOUS
  <2>1. PICK j \in T : \A k \in T : j <= k
    <3> T \subseteq Nat OBVIOUS
    <3> HIDE DEF T
    <3> QED BY LeastNumber
  <2>2. j # 0
    <3>1. Ok(0) BY <1>0
    <3>2. QED BY <2>1, <3>1
  <2>3. j - 1 \in Nat /\ j - 1 \notin T BY <2>1, <2>2
  <2>4. PICK q \in Nat \ {0} : Capacity(g + (j - 1)) = Capacity(g) * q BY <2>3
  <2>5. g + (j - 1) \in Nat \ {0} /\ (g + (j - 1)) + 1 = g + j BY <2>1, <2>3
  <2>6. Capacity(g + j) = 2 * Capacity(g + (j - 1)) BY <2>5, CapacityFacts
  <2>7. 2 * q \in Nat \ {0} /\ 2 * (Capacity(g) * q) = Capacity(g) * (2 * q) BY <1>0
  <2>8. Ok(j) BY <2>4, <2>6, <2>7
  <2>9. QED BY <2>1, <2>8
<1>2. h - g \in Nat /\ g + (h - g) = h OBVIOUS
<1>3. Ok(h - g) BY <1>1, <1>2
<1>4. PICK q \in Nat \ {0} : Capacity(h) = Capacity(g) * q BY <1>2, <1>3
<1>5. Capacity(h) \in Int /\ Capacity(h) = Capacity(g) * q + 0 /\ 0 \in 0 .. Capacity(g) - 1
  BY <1>0, <1>4
<1>6. Capacity(h) % Capacity(g) = 0 BY <1>0, <1>5, ModIs
<1>7. Capacity(g) * q >= Capacity(g) BY <1>0
<1>8. QED BY <1>4, <1>6, <1>7

(* And all of them, in elements, divide the range of the indices. *)
LEMMA PeriodDivides ==
    ASSUME NEW g \in 1 .. MaxIndexes
    PROVE  \E Q \in Int : Period = BLOCK_SIZE * (Capacity(g) * Q)
<1>1. MaxIndexes \in Nat \ {0} /\ g \in Nat \ {0} /\ g <= MaxIndexes BY ProducerAssumption
<1> DEFINE M == Capacity(MaxIndexes)
           C == Capacity(g)
<1>2. M \in Nat \ {0} /\ C \in Nat \ {0} BY <1>1, CapacityFacts
<1>3. PICK q \in Nat \ {0} : M = C * q BY <1>1, CapacityDivides
<1>4. BLOCK_SIZE \in Nat \ {0} /\ Period \in Int BY Sizes
<1>5. Period % (BLOCK_SIZE * M) = 0 BY ProducerAssumption
<1> HIDE DEF M, C
<1>6. BLOCK_SIZE * M \in Nat \ {0} BY <1>2, <1>4
<1> DEFINE r == Period \div (BLOCK_SIZE * M)
<1>7. r \in Int /\ Period = (BLOCK_SIZE * M) * r + 0 BY <1>4, <1>5, <1>6, DivMod
<1> HIDE DEF r
<1>8. (BLOCK_SIZE * M) * r = BLOCK_SIZE * (C * (q * r))
  <2>1. (BLOCK_SIZE * M) * r = BLOCK_SIZE * (M * r) BY <1>2, <1>4, <1>7
  <2>2. M * r = (C * q) * r BY <1>3
  <2>3. (C * q) * r = C * (q * r) BY <1>2, <1>7
  <2>4. QED BY <2>1, <2>2, <2>3
<1>9. q * r \in Int BY <1>7
<1>10. Period = BLOCK_SIZE * (C * (q * r)) BY <1>4, <1>7, <1>8, <1>9, <1>2
<1>11. QED BY <1>9, <1>10 DEF C

LEMMA BlocksDividePeriod == Period % BLOCK_SIZE = 0
<1>1. 1 \in 1 .. MaxIndexes BY ProducerAssumption
<1>2. PICK Q \in Int : Period = BLOCK_SIZE * (Capacity(1) * Q) BY <1>1, PeriodDivides
<1>3. Capacity(1) * Q \in Int BY CapacityFacts
<1>4. Period \in Int /\ BLOCK_SIZE \in Nat \ {0} /\ 0 \in 0 .. BLOCK_SIZE - 1 BY Sizes
<1>5. Period = BLOCK_SIZE * (Capacity(1) * Q) + 0 BY <1>2, <1>4
<1>6. QED BY <1>3, <1>4, <1>5, ModIs

(* circular_less_than compares indices that are not too far apart. *)
LEMMA Circular ==
    ASSUME NEW x \in Int, NEW y \in Int
    PROVE  /\ x < y /\ y - x < Half => circular_less_than(x % Period, y % Period)
           /\ y <= x /\ x - y <= Half => ~circular_less_than(x % Period, y % Period)
           /\ Half <= y - x /\ y - x < Period => ~circular_less_than(x % Period, y % Period)
<1>0. Half \in Nat \ {0} /\ Period \in Nat \ {0} /\ Period = 2 * Half BY Sizes
<1>1. Minus(x % Period, y % Period) = (x - y) % Period BY <1>0, ModDifference DEF Minus
<1>2. ASSUME x < y, y - x < Half PROVE (x - y) % Period > Half
  <2>1. x - y \in Int /\ x - y = Period * (-1) + (Period - (y - x))
        /\ Period - (y - x) \in 0 .. Period - 1
    BY <1>0, <1>2
  <2>2. (x - y) % Period = Period - (y - x) BY <1>0, <2>1, ModIs
  <2>3. QED BY <1>0, <1>2, <2>2
<1>3. ASSUME y <= x, x - y <= Half PROVE ~((x - y) % Period > Half)
  <2>1. x - y \in 0 .. Period - 1 BY <1>0, <1>3
  <2>2. (x - y) % Period = x - y BY <1>0, <2>1, ModSmall
  <2>3. QED BY <1>0, <1>3, <2>2
<1>4. ASSUME Half <= y - x, y - x < Period PROVE ~((x - y) % Period > Half)
  <2>1. x - y \in Int /\ x - y = Period * (-1) + (Period - (y - x))
        /\ Period - (y - x) \in 0 .. Period - 1
    BY <1>0, <1>4
  <2>2. (x - y) % Period = Period - (y - x) BY <1>0, <2>1, ModIs
  <2>3. QED BY <1>0, <1>4, <2>2
<1>5. QED BY <1>1, <1>2, <1>3, <1>4 DEF circular_less_than

(* Where an index is in its block does not change when it wraps. *)
LEMMA Wrapped ==
    ASSUME NEW i \in Nat
    PROVE  /\ i % Period \in Indices /\ (i % Period) % BLOCK_SIZE = i % BLOCK_SIZE
           /\ Plus(i % Period, 1) = (i + 1) % Period
           /\ i % BLOCK_SIZE \in 0 .. BLOCK_SIZE - 1
           /\ Number(i) \in Nat /\ i = BLOCK_SIZE * Number(i) + (i % BLOCK_SIZE)
<1>1. Period \in Nat \ {0} /\ BLOCK_SIZE \in Nat \ {0} /\ i \in Int BY Sizes
<1>2. (i % Period) % BLOCK_SIZE = i % BLOCK_SIZE BY <1>1, BlocksDividePeriod, ModOfMod
<1>3. i % Period \in Indices BY <1>1, DivMod DEF Indices
<1>4. Plus(i % Period, 1) = (i + 1) % Period
  <2>1. 1 \in Int OBVIOUS
  <2>2. ((i % Period) + 1) % Period = (i + 1) % Period BY <1>1, <2>1, ModPlus
  <2>3. QED BY <2>2 DEF Plus
<1>5. i % BLOCK_SIZE \in 0 .. BLOCK_SIZE - 1 /\ Number(i) \in Int
      /\ i = BLOCK_SIZE * Number(i) + (i % BLOCK_SIZE)
  BY <1>1, DivMod DEF Number
<1>6. Number(i) >= 0
  <2> DEFINE k == Number(i)
             r == i % BLOCK_SIZE
  <2> HIDE DEF k, r
  <2>1. i >= 0 /\ k \in Int /\ r \in 0 .. BLOCK_SIZE - 1 /\ i = BLOCK_SIZE * k + r
    BY <1>5 DEF k, r
  <2>2. k >= 0 BY <1>1, <2>1
  <2>3. QED BY <2>2 DEF k
<1>7. QED BY <1>2, <1>3, <1>4, <1>5, <1>6

(* The lookup: from a slot t whose entry has the key of number n to the    *)
(* slot of the number that is wanted.                                      *)
LEMMA LookupSlot ==
    ASSUME NEW g \in 1 .. MaxIndexes, NEW x \in Int, NEW i \in Nat, NEW n \in Nat,
           NEW t, (n - x) % Capacity(g) = t
    PROVE  (t + (Signed(Minus(Base(i % Period), (n * BLOCK_SIZE) % Period))
                    \div BLOCK_SIZE)) % Capacity(g)
               = (Number(i) - x) % Capacity(g)
<1> DEFINE B == BLOCK_SIZE
           P == Period
           C == Capacity(g)
           r == i % B
           k == Number(i)
           D == Minus(Base(i % P), (n * B) % P)
<1>1. P \in Nat \ {0} /\ B \in Nat \ {0} BY Sizes
<1>2. C \in Nat \ {0} BY CapacityFacts
<1>3. PICK Q \in Int : P = B * (C * Q) BY PeriodDivides
<1>4. r \in 0 .. B - 1 /\ k \in Nat /\ i = B * k + r /\ (i % P) % B = r /\ i % P \in Int
  <2>1. r \in 0 .. B - 1 /\ k \in Nat /\ i = B * k + r /\ (i % P) % B = r BY Wrapped
  <2>2. i % P \in Int BY <1>1, DivMod
  <2>3. QED BY <2>1, <2>2
<1>5. D = (((i % P) - r) - ((n * B) % P)) % P BY <1>4 DEF Minus, Base
<1> HIDE DEF r, k, D, B, P, C
<1>6. n * B \in Int /\ (i % P) - r \in Int /\ -r - n * B \in Int /\ i \in Int
  BY <1>1, <1>4
<1>7. D = ((i % P) - r - n * B) % P BY <1>1, <1>5, <1>6, ModMinus, ZenonT(60)
<1>8. D = (i + (-r - n * B)) % P
  <2>1. (i % P) - r - n * B = (i % P) + (-r - n * B) BY <1>4, <1>6
  <2>2. ((i % P) + (-r - n * B)) % P = (i + (-r - n * B)) % P BY <1>1, <1>6, ModPlus
  <2>3. QED BY <1>7, <2>1, <2>2
<1>9. i + (-r - n * B) = B * (k - n) /\ B * (k - n) \in Int BY <1>1, <1>4, <1>6
<1> DEFINE z == (B * (k - n)) \div P
<1>10. z \in Int /\ D \in 0 .. P - 1 /\ B * (k - n) = P * z + D BY <1>1, <1>8, <1>9, DivMod
<1> HIDE DEF z
<1>11. \E y \in Int : Signed(D) = B * (k - n) - P * y
  <2>1. CASE D >= Half
    <3>1. Signed(D) = D - P BY <2>1 DEF Signed, P
    <3>2. D - P = B * (k - n) - P * (z + 1) /\ z + 1 \in Int BY <1>1, <1>9, <1>10
    <3>3. QED BY <3>1, <3>2
  <2>2. CASE ~(D >= Half)
    <3>1. Signed(D) = D BY <2>2 DEF Signed
    <3>2. D = B * (k - n) - P * z BY <1>1, <1>9, <1>10
    <3>3. QED BY <1>10, <3>1, <3>2
  <2>3. QED BY <2>1, <2>2
<1>12. PICK y \in Int : Signed(D) = B * (k - n) - P * y BY <1>11
<1> DEFINE off == (k - n) + C * (-(Q * y))
<1>13. -(Q * y) \in Int /\ off \in Int BY <1>2, <1>4
<1>14. Signed(D) = B * off + 0 /\ Signed(D) \in Int
  <2>1. P * y = B * (C * (Q * y))
    <3>1. P * y = (B * (C * Q)) * y BY <1>3
    <3>2. (B * (C * Q)) * y = B * ((C * Q) * y) BY <1>1, <1>2
    <3>3. (C * Q) * y = C * (Q * y) BY <1>2
    <3>4. QED BY <3>1, <3>2, <3>3
  <2> DEFINE w == Q * y
  <2>2. w \in Int OBVIOUS
  <2>3. P * y = B * (C * w) BY <2>1
  <2> HIDE DEF w
  <2>4. C * (-w) = -(C * w) /\ C * w \in Int BY <1>2, <2>2
  <2> DEFINE u == C * w
  <2> HIDE DEF u
  <2>5. u \in Int /\ P * y = B * u /\ C * (-w) = -u BY <2>3, <2>4 DEF u
  <2>6. B * (k - n) - B * u = B * ((k - n) + (-u)) BY <1>1, <1>4, <2>5
  <2>7. off = (k - n) + (-u) BY <2>5 DEF w
  <2>8. Signed(D) = B * off BY <1>12, <2>5, <2>6, <2>7
  <2>9. B * off \in Int BY <1>1, <1>13
  <2>10. QED BY <2>8, <2>9
<1>15. Signed(D) \div B = off
  <2>1. 0 \in 0 .. B - 1 BY <1>1
  <2> HIDE DEF off
  <2>2. QED BY <1>1, <1>13, <1>14, <2>1, ModIs
<1>16. (t + off) % C = (k - x) % C
  <2>1. n - x \in Int /\ k - x \in Int BY <1>4
  <2>2. (n - x) % C = t BY DEF C
  <2>3. (((n - x) % C) + off) % C = ((n - x) + off) % C
    <3> HIDE DEF off
    <3> QED BY <1>2, <1>13, <2>1, ModPlus, ZenonT(60)
  <2>4. (n - x) + off = (k - x) + C * (-(Q * y)) BY <1>2, <1>4, <1>13
  <2>5. ((k - x) + C * (-(Q * y))) % C = (k - x) % C BY <1>2, <1>13, <2>1, ModShift
  <2>6. QED BY <2>2, <2>3, <2>4, <2>5
<1>17. QED BY <1>15, <1>16 DEF D, B, P, C, k

-----------------------------------------------------------------------------
(* The steps, as they change the locals of a consumer *)

LEMMA TypedFacts ==
    ASSUME Typed
    PROVE  /\ Current \in 1 .. MaxIndexes /\ Current \in Nat \ {0}
           /\ Current + 1 \in Nat \ {0}
           /\ 0 \in Entries /\ Null \in Ids /\ IdleConsumer \in Locals /\ IdleProducer \in Producer
           /\ MaxIndexes \in Nat \ {0}
<1>1. MaxIndexes \in Nat \ {0} BY ProducerAssumption
<1>2. Capacity(MaxIndexes) \in Nat \ {0} BY <1>1, CapacityFacts
<1>3. 0 \in Entries BY <1>2 DEF Entries
<1>4. Null \in Ids BY DEF Ids
<1>5. 0 \in Indices BY Sizes DEF Indices
<1>6. IdleConsumer \in Locals BY <1>1, <1>3, <1>4, <1>5 DEF Locals, IdleConsumer, Pcs
<1>7. IdleProducer \in Producer BY <1>3, <1>4 DEF Producer, IdleProducer, ProducerPcs
<1>8. Current \in 1 .. MaxIndexes BY DEF Typed
<1>9. QED BY <1>1, <1>3, <1>4, <1>6, <1>7, <1>8

(* The locals of a consumer whose pc changes. *)
LEMMA MovedLocals ==
    ASSUME NEW r \in Locals, NEW p \in Pcs
    PROVE  /\ [r EXCEPT !.pc = p] \in Locals
           /\ [r EXCEPT !.pc = p].pc = p /\ [r EXCEPT !.pc = p].count = r.count
           /\ [r EXCEPT !.pc = p].index = r.index /\ [r EXCEPT !.pc = p].header = r.header
           /\ [r EXCEPT !.pc = p].tail = r.tail /\ [r EXCEPT !.pc = p].entry = r.entry
           /\ [r EXCEPT !.pc = p].block = r.block
BY DEF Locals

(* A step of consumer c gives it the locals r and leaves the others alone. *)
Turns(c, r) ==
    /\ r \in Locals /\ LookupTyped(r, Current)
    /\ consumer' \in [Consumers -> Locals]
    /\ consumer'[c] = r
    /\ \A d \in Consumers : d # c => consumer'[d] = consumer[d]

LEMMA TurnsTo ==
    ASSUME Typed, NEW c \in Consumers, NEW r \in Locals, LookupTyped(r, Current),
           Becomes(c, r)
    PROVE  Turns(c, r)
<1>1. consumer \in [Consumers -> Locals] BY DEF Typed
<1>2. consumer' = [consumer EXCEPT ![c] = r] BY DEF Becomes
<1>3. QED BY <1>1, <1>2 DEF Turns

Early == {"idle", "overcommit", "look", "count", "recheck", "late", "claim"}

(* The steps up to the claim. *)
LEMMA CountingSteps ==
    ASSUME Typed, NEW c \in Consumers,
           {tailIndex, dequeueOptimisticCount, dequeueOvercommit} \subseteq Indices
    PROVE  /\ DequeueLoadsTail(c) =>
                  \E r \in Locals : Turns(c, r) /\ r.pc = "overcommit"
           /\ DequeueLoadsOvercommit(c) =>
                  \E r \in Locals : Turns(c, r) /\ r.pc = "look" /\ r.count = dequeueOvercommit
           /\ DequeueSees(c) =>
                  \E r \in Locals : Turns(c, r) /\ r.pc = "count" /\ r.count = consumer[c].count
           /\ DequeueSeesNone(c) => Turns(c, IdleConsumer)
           /\ DequeueCounts(c) =>
                  \E r \in Locals : /\ Turns(c, r) /\ r.pc = "recheck"
                                    /\ r.count = Minus(dequeueOptimisticCount, consumer[c].count)
           /\ DequeueRechecks(c) => \E r \in Locals : Turns(c, r) /\ r.pc = "claim"
           /\ DequeueIsLate(c) => \E r \in Locals : Turns(c, r) /\ r.pc = "late"
           /\ DequeueGivesUp(c) => Turns(c, IdleConsumer)
<1>0. consumer[c] \in Locals BY DEF Typed
<1>1. IdleConsumer \in Locals /\ MaxIndexes \in Nat \ {0} BY TypedFacts
<1>2. \A r \in Locals : r.pc \in Early => LookupTyped(r, Current) BY DEF LookupTyped, Early
<1>3. Indices \subseteq Nat BY Sizes DEF Indices
<1> DEFINE me == consumer[c]
<1>4. ASSUME DequeueLoadsTail(c)
      PROVE  \E r \in Locals : Turns(c, r) /\ r.pc = "overcommit"
  <2> DEFINE r == [IdleConsumer EXCEPT !.pc = "overcommit", !.tail = tailIndex]
  <2>1. tailIndex \in Nat BY <1>3
  <2>2. r \in Locals /\ r.pc = "overcommit" BY <1>1, <2>1 DEF Locals, Pcs
  <2>3. Becomes(c, r) BY <1>4 DEF DequeueLoadsTail
  <2> HIDE DEF r
  <2>4. QED BY <1>2, <2>2, <2>3, TurnsTo DEF Early
<1>5. ASSUME DequeueLoadsOvercommit(c)
      PROVE  \E r \in Locals : Turns(c, r) /\ r.pc = "look" /\ r.count = dequeueOvercommit
  <2> DEFINE r == [consumer[c] EXCEPT !.pc = "look", !.count = dequeueOvercommit]
  <2>1. dequeueOvercommit \in Indices OBVIOUS
  <2>2. r \in Locals /\ r.pc = "look" /\ r.count = dequeueOvercommit
    BY <1>0, <2>1 DEF Locals, Pcs
  <2>3. Becomes(c, r) BY <1>5 DEF DequeueLoadsOvercommit
  <2> HIDE DEF r
  <2>4. QED BY <1>2, <2>2, <2>3, TurnsTo DEF Early
<1>6. ASSUME DequeueSees(c)
      PROVE  \E r \in Locals : Turns(c, r) /\ r.pc = "count" /\ r.count = consumer[c].count
  <2> DEFINE r == [consumer[c] EXCEPT !.pc = "count", !.tail = 0]
  <2>2. r \in Locals /\ r.pc = "count" /\ r.count = consumer[c].count
    BY <1>0 DEF Locals, Pcs
  <2>3. Becomes(c, r) BY <1>6 DEF DequeueSees
  <2> HIDE DEF r
  <2>4. QED BY <1>2, <2>2, <2>3, TurnsTo DEF Early
<1>7. IdleConsumer.pc = "idle" BY DEF IdleConsumer
<1>8. ASSUME DequeueSeesNone(c) \/ DequeueGivesUp(c) PROVE Turns(c, IdleConsumer)
  <2>1. Becomes(c, IdleConsumer) BY <1>8 DEF DequeueSeesNone, DequeueGivesUp
  <2>2. QED BY <1>1, <1>2, <1>7, <2>1, TurnsTo DEF Early
<1>9. ASSUME DequeueCounts(c)
      PROVE  \E r \in Locals : /\ Turns(c, r) /\ r.pc = "recheck"
                               /\ r.count = Minus(dequeueOptimisticCount, consumer[c].count)
  <2> DEFINE x == Minus(dequeueOptimisticCount, consumer[c].count)
             r == [consumer[c] EXCEPT !.pc = "recheck", !.count = x]
  <2>1. x \in Indices
    <3>0. dequeueOptimisticCount \in Indices /\ consumer[c].count \in Indices
      BY <1>0 DEF Locals
    <3>1. dequeueOptimisticCount \in Int /\ consumer[c].count \in Int BY <3>0, Sizes DEF Indices
    <3>2. dequeueOptimisticCount - consumer[c].count \in Int BY <3>1
    <3>3. QED BY <3>2, Sizes, DivMod DEF Minus, Indices
  <2> HIDE DEF x
  <2>2. r \in Locals /\ r.pc = "recheck" /\ r.count = x BY <1>0, <2>1 DEF Locals, Pcs
  <2>3. Becomes(c, r) BY <1>9 DEF DequeueCounts, x
  <2> HIDE DEF r
  <2>4. QED BY <1>2, <2>2, <2>3, TurnsTo DEF Early, x
<1>10. ASSUME NEW p \in {"claim", "late"}, Moves(c, p)
       PROVE  \E r \in Locals : Turns(c, r) /\ r.pc = p
  <2> DEFINE r == [consumer[c] EXCEPT !.pc = p]
  <2>0. p \in Pcs BY DEF Pcs
  <2>1. r \in Locals /\ r.pc = p BY <1>0, <2>0, MovedLocals
  <2>2. Becomes(c, r) BY <1>10 DEF Moves
  <2> HIDE DEF r
  <2>3. QED BY <1>2, <2>1, <2>2, TurnsTo DEF Early
<1>11. QED
  BY <1>4, <1>5, <1>6, <1>8, <1>9, <1>10, Zenon DEF DequeueRechecks, DequeueIsLate

LEMMA EntryForType ==
    ASSUME Typed, NEW c \in Consumers, consumer[c].pc = "entry"
    PROVE  EntryFor(c) \in Entries
<1> DEFINE me == consumer[c]
           h == me.header
           k == key[blockIndex[h].entry[me.tail]]
           d == Minus(Base(me.index), k)
           off == Signed(d) \div BLOCK_SIZE
<1>1. me \in Locals /\ h \in 1 .. Current /\ me.tail \in Slots(h) BY DEF Typed, LookupTyped
<1>2. IsRing(blockIndex[h], h) BY <1>1 DEF Typed
<1>3. blockIndex[h].entry \in [Slots(h) -> Entries] BY <1>2 DEF IsRing
<1>4. k \in Indices
  <2>1. blockIndex[h].entry[me.tail] \in Entries BY <1>1, <1>3
  <2>2. QED BY <2>1 DEF Typed
<1>5. me.index \in Indices BY <1>1 DEF Locals
<1>6. h \in Nat \ {0} BY <1>1, TypedFacts
<1>7. Capacity(h) \in Nat \ {0} BY <1>6, CapacityFacts
<1>8. Period \in Nat \ {0} /\ BLOCK_SIZE \in Nat \ {0} BY Sizes
<1>9. d \in Int
  <2>1. k \in Int /\ me.index \in Int BY <1>4, <1>5, <1>8 DEF Indices
  <2> HIDE DEF k
  <2>2. me.index % BLOCK_SIZE \in Int BY <1>8, <2>1, DivMod
  <2>3. Base(me.index) - k \in Int BY <2>1, <2>2 DEF Base
  <2>4. QED BY <1>8, <2>3, DivMod DEF Minus
<1>10. off \in Int
  <2> HIDE DEF d
  <2>1. Signed(d) \in Int BY <1>8, <1>9 DEF Signed
  <2>2. QED BY <1>8, <2>1, DivMod
<1>11. me.tail \in Int BY <1>1, <1>7 DEF Slots
<1> DEFINE s == (me.tail + off) % Capacity(h)
<1>12. s \in Slots(h)
  <2> HIDE DEF off
  <2>1. me.tail + off \in Int BY <1>10, <1>11
  <2>2. QED BY <1>7, <2>1, DivMod DEF Slots
<1>13. EntryFor(c) = blockIndex[h].entry[s] BY DEF EntryFor
<1> HIDE DEF s
<1>14. QED BY <1>3, <1>12, <1>13

(* The steps from the claim on. *)
LEMMA DeliveringSteps ==
    ASSUME Typed, NEW c \in Consumers, headIndex \in Indices
    PROVE  /\ DequeueClaims(c) =>
                  \E r \in Locals : Turns(c, r) /\ r.pc = "header" /\ r.index = headIndex
           /\ LookupHeader(c) =>
                  \E r \in Locals : /\ Turns(c, r) /\ r.pc = "tail"
                                    /\ r.index = consumer[c].index /\ r.header = Current
           /\ LookupTail(c) =>
                  \E r \in Locals : /\ Turns(c, r) /\ r.pc = "entry"
                                    /\ r.index = consumer[c].index
                                    /\ r.header = consumer[c].header
                                    /\ r.tail = blockIndex[consumer[c].header].tail
           /\ LookupEntry(c) =>
                  \E r \in Locals : /\ Turns(c, r) /\ r.pc = "read"
                                    /\ r.index = consumer[c].index
                                    /\ r.entry = EntryFor(c) /\ r.block = value[EntryFor(c)]
           /\ DequeueReads(c) =>
                  IF elementsCompletelyDequeued[consumer[c].block] = BLOCK_SIZE - 1
                  THEN \E r \in Locals : /\ Turns(c, r) /\ r.pc = "unlist"
                                         /\ r.entry = consumer[c].entry
                                         /\ r.block = consumer[c].block
                  ELSE Turns(c, IdleConsumer)
           /\ UnlistBlock(c) =>
                  \E r \in Locals : Turns(c, r) /\ r.pc = "free" /\ r.block = consumer[c].block
           /\ FreeBlock(c) => Turns(c, IdleConsumer)
<1>0. consumer[c] \in Locals BY DEF Typed
<1>1. /\ IdleConsumer \in Locals /\ MaxIndexes \in Nat \ {0}
      /\ Current \in 1 .. MaxIndexes
  BY TypedFacts
<1>2. \A r \in Locals : r.pc \notin {"tail", "entry"} => LookupTyped(r, Current)
  BY DEF LookupTyped
<1>3. IdleConsumer.pc = "idle" BY DEF IdleConsumer
<1>4. ASSUME DequeueClaims(c)
      PROVE  \E r \in Locals : Turns(c, r) /\ r.pc = "header" /\ r.index = headIndex
  <2> DEFINE r == [consumer[c] EXCEPT !.pc = "header", !.index = headIndex, !.count = 0]
  <2>1. 0 \in Indices BY Sizes DEF Indices
  <2>2. r \in Locals /\ r.pc = "header" /\ r.index = headIndex BY <1>0, <2>1 DEF Locals, Pcs
  <2>3. Becomes(c, r) BY <1>4 DEF DequeueClaims
  <2> HIDE DEF r
  <2>4. LookupTyped(r, Current) BY <1>2, <2>2
  <2>5. QED BY <2>2, <2>3, <2>4, TurnsTo
<1>5. ASSUME LookupHeader(c)
      PROVE  \E r \in Locals : /\ Turns(c, r) /\ r.pc = "tail"
                               /\ r.index = consumer[c].index /\ r.header = Current
  <2> DEFINE r == [consumer[c] EXCEPT !.pc = "tail", !.header = Current]
  <2>1. Current \in 0 .. MaxIndexes /\ Current \in 1 .. Current BY <1>1
  <2>2. r \in Locals /\ r.pc = "tail" /\ r.index = consumer[c].index /\ r.header = Current
    BY <1>0, <2>1 DEF Locals, Pcs
  <2>3. Becomes(c, r) BY <1>5 DEF LookupHeader
  <2> HIDE DEF r
  <2>4. LookupTyped(r, Current) BY <2>1, <2>2 DEF LookupTyped
  <2>5. QED BY <2>2, <2>3, <2>4, TurnsTo
<1>6. ASSUME LookupTail(c)
      PROVE  \E r \in Locals : /\ Turns(c, r) /\ r.pc = "entry"
                               /\ r.index = consumer[c].index
                               /\ r.header = consumer[c].header
                               /\ r.tail = blockIndex[consumer[c].header].tail
  <2> DEFINE t == blockIndex[consumer[c].header].tail
             r == [consumer[c] EXCEPT !.pc = "entry", !.tail = t]
  <2>1. consumer[c].pc = "tail" /\ Becomes(c, r) BY <1>6 DEF LookupTail, In
  <2>2. consumer[c].header \in 1 .. Current BY <2>1 DEF Typed, LookupTyped
  <2>3. t \in Slots(consumer[c].header) BY <2>2 DEF Typed, IsRing
  <2>4. consumer[c].header \in Nat \ {0} BY <1>1, <2>2
  <2>5. t \in Nat BY <2>3, <2>4, CapacityFacts DEF Slots
  <2> HIDE DEF t
  <2>6. /\ r \in Locals /\ r.pc = "entry" /\ r.index = consumer[c].index
        /\ r.header = consumer[c].header /\ r.tail = t
    BY <1>0, <2>5 DEF Locals, Pcs
  <2> HIDE DEF r
  <2>7. LookupTyped(r, Current) BY <2>2, <2>3, <2>6 DEF LookupTyped
  <2>8. QED BY <2>1, <2>6, <2>7, TurnsTo DEF t
<1>7. ASSUME LookupEntry(c)
      PROVE  \E r \in Locals : /\ Turns(c, r) /\ r.pc = "read"
                               /\ r.index = consumer[c].index
                               /\ r.entry = EntryFor(c) /\ r.block = value[EntryFor(c)]
  <2> DEFINE e == EntryFor(c)
             r == [consumer[c] EXCEPT !.pc = "read", !.header = 0, !.tail = 0,
                                      !.entry = e, !.block = value[e]]
  <2>1. consumer[c].pc = "entry" /\ Becomes(c, r) BY <1>7 DEF LookupEntry, In
  <2>2. e \in Entries BY <2>1, EntryForType
  <2>3. value[e] \in Ids /\ 0 \in 0 .. MaxIndexes BY <1>1, <2>2 DEF Typed
  <2> HIDE DEF e
  <2>4. /\ r \in Locals /\ r.pc = "read" /\ r.index = consumer[c].index
        /\ r.entry = e /\ r.block = value[e]
    BY <1>0, <2>2, <2>3 DEF Locals, Pcs
  <2> HIDE DEF r
  <2>5. LookupTyped(r, Current) BY <1>2, <2>4
  <2>6. QED BY <2>1, <2>4, <2>5, TurnsTo DEF e
<1>8. ASSUME DequeueReads(c)
      PROVE  IF elementsCompletelyDequeued[consumer[c].block] = BLOCK_SIZE - 1
             THEN \E r \in Locals : /\ Turns(c, r) /\ r.pc = "unlist"
                                    /\ r.entry = consumer[c].entry
                                    /\ r.block = consumer[c].block
             ELSE Turns(c, IdleConsumer)
  <2>1. CASE elementsCompletelyDequeued[consumer[c].block] = BLOCK_SIZE - 1
    <3> DEFINE r == [IdleConsumer EXCEPT !.pc = "unlist", !.block = consumer[c].block,
                                         !.entry = consumer[c].entry]
    <3>1. consumer[c].block \in Ids /\ consumer[c].entry \in Entries BY <1>0 DEF Locals
    <3>2. /\ r \in Locals /\ r.pc = "unlist" /\ r.entry = consumer[c].entry
          /\ r.block = consumer[c].block
      BY <1>1, <3>1 DEF Locals, Pcs
    <3>3. Becomes(c, r) BY <1>8, <2>1 DEF DequeueReads
    <3> HIDE DEF r
    <3>4. LookupTyped(r, Current) BY <1>2, <3>2
    <3>5. Turns(c, r) BY <3>2, <3>3, <3>4, TurnsTo
    <3>6. QED BY <2>1, <3>2, <3>5
  <2>2. CASE elementsCompletelyDequeued[consumer[c].block] # BLOCK_SIZE - 1
    <3>1. Becomes(c, IdleConsumer) BY <1>8, <2>2 DEF DequeueReads
    <3>2. QED BY <1>1, <1>2, <1>3, <2>2, <3>1, TurnsTo
  <2>3. QED BY <2>1, <2>2
<1>9. ASSUME UnlistBlock(c)
      PROVE  \E r \in Locals : Turns(c, r) /\ r.pc = "free" /\ r.block = consumer[c].block
  <2> DEFINE r == [consumer[c] EXCEPT !.pc = "free"]
  <2>0. "free" \in Pcs BY DEF Pcs
  <2>1. r \in Locals /\ r.pc = "free" /\ r.block = consumer[c].block
    BY <1>0, <2>0, MovedLocals
  <2>2. Becomes(c, r) BY <1>9 DEF UnlistBlock, Moves
  <2> HIDE DEF r
  <2>3. LookupTyped(r, Current) BY <1>2, <2>1
  <2>4. QED BY <2>1, <2>2, <2>3, TurnsTo
<1>10. ASSUME FreeBlock(c) PROVE Turns(c, IdleConsumer)
  <2>1. Becomes(c, IdleConsumer) BY <1>10 DEF FreeBlock
  <2>2. QED BY <1>1, <1>2, <1>3, <2>1, TurnsTo
<1>11. QED BY <1>4, <1>5, <1>6, <1>7, <1>8, <1>9, <1>10, Zenon

-----------------------------------------------------------------------------
(* The steps, as they change the producer and the block index *)

LEMMA RingFacts ==
    ASSUME Typed, NEW g \in 1 .. Current
    PROVE  /\ g \in 1 .. MaxIndexes /\ g \in Nat \ {0}
           /\ Capacity(g) \in Nat \ {0} /\ Capacity(g) > 1
           /\ blockIndex[g].tail \in Slots(g) /\ blockIndex[g].entry \in [Slots(g) -> Entries]
           /\ \A k \in Int : k % Capacity(g) \in Slots(g)
           /\ \A s \in Slots(g) : blockIndex[g].entry[s] \in Entries /\ s \in Nat
<1>1. g \in Nat \ {0} /\ g \in 1 .. MaxIndexes BY TypedFacts
<1>2. Capacity(g) \in Nat \ {0} /\ Capacity(g) > 1 BY <1>1, CapacityFacts
<1>3. IsRing(blockIndex[g], g) BY DEF Typed
<1>4. blockIndex[g].tail \in Slots(g) /\ blockIndex[g].entry \in [Slots(g) -> Entries]
  BY <1>3 DEF IsRing
<1>5. \A k \in Int : k % Capacity(g) \in Slots(g) BY <1>2, DivMod DEF Slots
<1>6. \A s \in Slots(g) : s \in Nat BY <1>2 DEF Slots
<1>7. QED BY <1>1, <1>2, <1>4, <1>5, <1>6

LEMMA NewEntryType ==
    ASSUME Typed
    PROVE  NewTail \in Slots(Current) /\ NewEntry \in Entries
<1>1. Current \in 1 .. Current BY TypedFacts
<1>2. blockIndex[Current].tail \in Nat BY <1>1, RingFacts
<1>3. blockIndex[Current].tail + 1 \in Int BY <1>2
<1>4. NewTail \in Slots(Current) BY <1>1, <1>3, RingFacts DEF NewTail
<1>5. QED BY <1>1, <1>4, RingFacts DEF NewEntry

LEMMA GoesTo ==
    ASSUME Typed, NEW p \in ProducerPcs, Goes(p)
    PROVE  /\ producer' \in Producer /\ producer'.pc = p
           /\ producer'.entry = producer.entry /\ producer'.block = producer.block
BY DEF Typed, Producer, Goes

(* The tail of the current ring moves. *)
LEMMA TailMoves ==
    ASSUME Typed, NEW t \in Slots(Current), blockIndex' = [blockIndex EXCEPT ![Current].tail = t]
    PROVE  /\ Current' = Current /\ blockIndex' \in Seq(Rings)
           /\ blockIndex'[Current].tail = t
           /\ \A g \in 1 .. Current :
                  /\ IsRing(blockIndex'[g], g)
                  /\ blockIndex'[g].entry = blockIndex[g].entry
                  /\ g < Current => blockIndex'[g] = blockIndex[g]
<1>1. blockIndex \in Seq(Rings) /\ Current \in 1 .. Len(blockIndex) /\ Current \in Nat
  BY TypedFacts DEF Typed, Current
<1>2. \A g \in 1 .. Current : IsRing(blockIndex[g], g) BY DEF Typed
<1> DEFINE r == [blockIndex[Current] EXCEPT !.tail = t]
<1>3. IsRing(r, Current) /\ r.tail = t /\ r.entry = blockIndex[Current].entry
  <2>1. IsRing(blockIndex[Current], Current) BY <1>1, <1>2
  <2> DEFINE b == blockIndex[Current]
  <2>2. b \in [tail : Slots(Current), entry : [Slots(Current) -> Entries]]
    BY <2>1 DEF IsRing
  <2> HIDE DEF b
  <2>3. /\ [b EXCEPT !.tail = t] \in [tail : Slots(Current), entry : [Slots(Current) -> Entries]]
        /\ [b EXCEPT !.tail = t].tail = t /\ [b EXCEPT !.tail = t].entry = b.entry
    BY <2>2
  <2>4. QED BY <2>3 DEF IsRing, b
<1>4. Current \in 1 .. MaxIndexes BY TypedFacts
<1>5. r \in Rings BY <1>3, <1>4 DEF Rings, IsRing
<1>6. blockIndex' = [blockIndex EXCEPT ![Current] = r] OBVIOUS
<1> HIDE DEF r
<1>7. blockIndex' \in Seq(Rings) /\ Len(blockIndex') = Len(blockIndex)
  BY <1>1, <1>5, <1>6
<1>8. \A g \in 1 .. Current : blockIndex'[g] = IF g = Current THEN r ELSE blockIndex[g]
  BY <1>1, <1>6
<1>9. Current' = Current BY <1>7 DEF Current
<1>10. QED BY <1>1, <1>2, <1>3, <1>7, <1>8, <1>9

(* A ring of twice the capacity begins with the entries of the current     *)
(* one, the oldest first.                                                  *)
LEMMA RingAdded ==
    ASSUME Typed, NewBlockIndex
    PROVE  /\ Current' = Current + 1 /\ Current + 1 \in 1 .. MaxIndexes
           /\ blockIndex' \in Seq(Rings)
           /\ \A g \in 1 .. Current : blockIndex'[g] = blockIndex[g]
           /\ IsRing(blockIndex'[Current + 1], Current + 1)
           /\ blockIndex'[Current + 1].tail = Capacity(Current) - 1
           /\ \A i \in Slots(Current + 1) :
                  blockIndex'[Current + 1].entry[i] =
                      IF i < Capacity(Current)
                      THEN blockIndex[Current].entry[(NewTail + i) % Capacity(Current)] ELSE i
           /\ Slots(Current) \subseteq Slots(Current + 1)
           /\ Capacity(Current + 1) = 2 * Capacity(Current)
<1> DEFINE C == Capacity(Current)
           N == Current + 1
<1>1. Current \in 1 .. Current /\ MaxIndexes \in Nat \ {0} /\ Current \in Nat \ {0}
  BY TypedFacts
<1>2. N \in 1 .. MaxIndexes /\ N \in Nat \ {0} BY <1>1 DEF NewBlockIndex
<1>3. C \in Nat \ {0} /\ Capacity(N) = 2 * C BY <1>1, CapacityFacts
<1>4. blockIndex \in Seq(Rings) /\ Len(blockIndex) = Current BY DEF Typed, Current
<1> DEFINE E == [i \in 0 .. Capacity(N) - 1 |->
                     IF i < C THEN blockIndex[Current].entry[(NewTail + i) % C] ELSE i]
           r == [tail |-> C - 1, entry |-> E]
<1>5. blockIndex' = Append(blockIndex, r) BY DEF NewBlockIndex
<1>6. \A i \in Slots(N) : i \in Entries
  <2>1. Capacity(N) <= Capacity(MaxIndexes) BY <1>1, <1>2, CapacityDivides
  <2>2. Capacity(MaxIndexes) \in Nat BY <1>1, CapacityFacts
  <2> HIDE DEF C, N
  <2>3. Capacity(N) \in Nat BY <1>3
  <2>4. QED BY <2>1, <2>2, <2>3 DEF Slots, Entries
<1>7. E \in [Slots(N) -> Entries]
  <2>1. ASSUME NEW i \in Slots(N), i < C
        PROVE  blockIndex[Current].entry[(NewTail + i) % C] \in Entries
    <3>1. NewTail \in Nat BY <1>1, NewEntryType, RingFacts
    <3>2. i \in Int BY <1>3 DEF Slots
    <3>3. NewTail + i \in Int BY <3>1, <3>2
    <3>4. (NewTail + i) % C \in Slots(Current) BY <1>1, <3>3, RingFacts
    <3>5. QED BY <1>1, <3>4, RingFacts
  <2>2. QED BY <1>6, <2>1 DEF Slots
<1>8. C - 1 \in Slots(N) /\ Slots(Current) \subseteq Slots(N) BY <1>3 DEF Slots
<1>9. IsRing(r, N) BY <1>7, <1>8 DEF IsRing
<1>10. r \in Rings BY <1>2, <1>9 DEF Rings, IsRing
<1>11. r.tail = C - 1 /\ \A i \in Slots(N) :
           r.entry[i] = IF i < C THEN blockIndex[Current].entry[(NewTail + i) % C] ELSE i
  BY DEF Slots
<1> HIDE DEF r
<1>12. /\ blockIndex' \in Seq(Rings) /\ Len(blockIndex') = Current + 1
       /\ blockIndex'[Current + 1] = r
       /\ \A g \in 1 .. Current : blockIndex'[g] = blockIndex[g]
  BY <1>1, <1>4, <1>5, <1>10
<1>13. Current' = Current + 1 BY <1>12 DEF Current
<1>14. QED BY <1>2, <1>3, <1>8, <1>9, <1>11, <1>12, <1>13

-----------------------------------------------------------------------------
(* Types *)

CountersTyped ==
    {tailIndex, headIndex, dequeueOptimisticCount, dequeueOvercommit} \subseteq Indices

(* Typed, by what the steps change. *)
RingsTyped ==
    /\ Current \in 1 .. MaxIndexes /\ blockIndex \in Seq(Rings)
    /\ \A g \in 1 .. Current : IsRing(blockIndex[g], g)
ListTyped == key \in [Entries -> Indices] /\ value \in [Entries -> Ids]
MemoryTyped ==
    /\ tailBlock \in Ids
    /\ elements \in [Blocks -> [0..(BLOCK_SIZE - 1) -> Indices \cup {Null}]]
    /\ elementsCompletelyDequeued \in [Blocks -> Nat]
    /\ freeBlocks \subseteq Ids
ConsumersTyped ==
    /\ consumer \in [Consumers -> Locals]
    /\ \A c \in Consumers : LookupTyped(consumer[c], Current)

LEMMA TypedParts ==
    Typed <=> producer \in Producer /\ RingsTyped /\ ListTyped /\ MemoryTyped /\ ConsumersTyped
BY DEF Typed, RingsTyped, ListTyped, MemoryTyped, ConsumersTyped

LEMMA TypedNext ==
    producer' \in Producer /\ RingsTyped' /\ ListTyped' /\ MemoryTyped' /\ ConsumersTyped'
        => Typed'
BY DEF Typed, RingsTyped, ListTyped, MemoryTyped, ConsumersTyped

LEMMA InitTyped == Init => Typed
<1> SUFFICES ASSUME Init PROVE Typed
  OBVIOUS
<1>1. MaxIndexes \in Nat \ {0} /\ 1 \in Nat \ {0} /\ 1 \in 1 .. MaxIndexes BY ProducerAssumption
<1>2. Capacity(1) \in Nat \ {0} BY <1>1, CapacityFacts
<1>3. Capacity(1) <= Capacity(MaxIndexes) /\ Capacity(MaxIndexes) \in Nat \ {0}
  BY <1>1, CapacityDivides, CapacityFacts
<1>4. Null \in Ids /\ 0 \in Entries BY <1>3 DEF Ids, Entries
<1>5. 0 \in Indices /\ INVALID_BLOCK_BASE \in Indices BY Sizes DEF Indices, INVALID_BLOCK_BASE
<1>6. producer \in Producer
  BY <1>4 DEF Init, IdleProducer, Producer, ProducerPcs
<1>7. RingsTyped
  <2> DEFINE r == [tail |-> Capacity(1) - 1, entry |-> [i \in 0..(Capacity(1) - 1) |-> i]]
  <2>1. blockIndex = <<r>> BY DEF Init
  <2>2. \A i \in 0..(Capacity(1) - 1) : i \in Entries BY <1>2, <1>3 DEF Entries
  <2>3. Capacity(1) - 1 \in Slots(1) BY <1>2 DEF Slots
  <2>4. r.tail \in Slots(1) /\ r.entry \in [Slots(1) -> Entries] BY <2>2, <2>3 DEF Slots
  <2>5. r \in [tail : Slots(1), entry : [Slots(1) -> Entries]] BY <2>2, <2>3 DEF Slots
  <2>6. r \in Rings BY <1>1, <2>5 DEF Rings
  <2> HIDE DEF r
  <2>7. blockIndex \in Seq(Rings) /\ Len(blockIndex) = 1 /\ blockIndex[1] = r BY <2>1, <2>6
  <2>8. IsRing(r, 1) BY <2>5 DEF IsRing
  <2>9. QED BY <1>1, <2>7, <2>8 DEF RingsTyped, Current
<1>8. ListTyped BY <1>4, <1>5 DEF Init, ListTyped
<1>9. MemoryTyped BY <1>4 DEF Init, MemoryTyped, Ids
<1>10. ConsumersTyped
  <2>1. IdleConsumer \in Locals
    BY <1>1, <1>4, <1>5 DEF IdleConsumer, Locals, Pcs
  <2>2. LookupTyped(IdleConsumer, Current) BY DEF IdleConsumer, LookupTyped
  <2>3. QED BY <2>1, <2>2 DEF Init, ConsumersTyped
<1>11. QED BY <1>6, <1>7, <1>8, <1>9, <1>10, TypedParts

LEMMA SameTypes ==
    /\ RingsTyped /\ blockIndex' = blockIndex => RingsTyped'
    /\ ListTyped /\ key' = key /\ value' = value => ListTyped'
    /\ MemoryTyped /\ UNCHANGED blocks => MemoryTyped'
    /\ ConsumersTyped /\ consumer' = consumer /\ blockIndex' = blockIndex => ConsumersTyped'
<1>1. RingsTyped /\ blockIndex' = blockIndex => RingsTyped' BY DEF RingsTyped, Current
<1>2. ListTyped /\ key' = key /\ value' = value => ListTyped' BY DEF ListTyped
<1>3. MemoryTyped /\ UNCHANGED blocks => MemoryTyped' BY DEF MemoryTyped, blocks
<1>4. ConsumersTyped /\ consumer' = consumer /\ blockIndex' = blockIndex => ConsumersTyped'
  BY DEF ConsumersTyped, Current
<1>5. QED BY <1>1, <1>2, <1>3, <1>4

LEMMA TurnsTyped ==
    ASSUME Typed, NEW c \in Consumers, NEW r, Turns(c, r), blockIndex' = blockIndex
    PROVE  ConsumersTyped'
<1>1. ConsumersTyped BY TypedParts
<1>2. Current' = Current BY DEF Current
<1>3. ASSUME NEW d \in Consumers PROVE LookupTyped(consumer'[d], Current)
  <2>1. CASE d = c BY <2>1 DEF Turns
  <2>2. CASE d # c BY <1>1, <2>2 DEF Turns, ConsumersTyped
  <2>3. QED BY <2>1, <2>2
<1>4. consumer' \in [Consumers -> Locals] BY DEF Turns
<1>5. QED BY <1>2, <1>3, <1>4 DEF ConsumersTyped

(* The steps of a consumer. *)
LEMMA DequeueTyped ==
    ASSUME Typed, CountersTyped, NEW c \in Consumers, dequeue(c)
    PROVE  Typed'
<1>0. /\ producer \in Producer /\ RingsTyped /\ ListTyped /\ MemoryTyped /\ ConsumersTyped
      /\ headIndex \in Indices
      /\ {tailIndex, dequeueOptimisticCount, dequeueOvercommit} \subseteq Indices
  BY TypedParts DEF CountersTyped
<1>1. producer' = producer /\ blockIndex' = blockIndex /\ key' = key
  BY DEF dequeue, DequeueLoadsTail, DequeueLoadsOvercommit, DequeueSees, DequeueSeesNone,
     DequeueCounts, DequeueRechecks, DequeueIsLate, DequeueGivesUp, DequeueClaims,
     LookupHeader, LookupTail, LookupEntry, DequeueReads, UnlistBlock, FreeBlock, index
<1>2. \E r : Turns(c, r)
  BY <1>0, CountingSteps, DeliveringSteps, ZenonT(60) DEF dequeue
<1>3. ConsumersTyped' /\ RingsTyped' BY <1>0, <1>1, <1>2, TurnsTyped, SameTypes
<1>4. consumer[c] \in Locals BY <1>0 DEF ConsumersTyped
<1>5. consumer[c].block \in Ids /\ consumer[c].entry \in Entries BY <1>4 DEF Locals
<1>6. CASE DequeueReads(c)
  <2>1. ListTyped' BY <1>0, <1>6, SameTypes DEF DequeueReads, index
  <2>2. elements' \in [Blocks -> [0..(BLOCK_SIZE - 1) -> Indices \cup {Null}]]
    BY <1>0, <1>6 DEF DequeueReads, MemoryTyped
  <2>3. elementsCompletelyDequeued' \in [Blocks -> Nat]
    <3> DEFINE b == consumer[c].block
               f == elementsCompletelyDequeued
    <3>1. f' = [f EXCEPT ![b] = f[b] + 1] BY <1>6, Zenon DEF DequeueReads
    <3>2. f \in [Blocks -> Nat] BY <1>0 DEF MemoryTyped
    <3>3. b \in Blocks => f[b] + 1 \in Nat BY <3>2
    <3> HIDE DEF b
    <3>4. QED BY <3>1, <3>2, <3>3
  <2>4. MemoryTyped' BY <1>0, <1>6, <2>2, <2>3 DEF DequeueReads, MemoryTyped
  <2>5. QED BY <1>0, <1>1, <1>3, <2>1, <2>4, TypedNext
<1>7. CASE UnlistBlock(c)
  <2>1. value' \in [Entries -> Ids] BY <1>0, <1>7 DEF UnlistBlock, ListTyped, Ids
  <2>2. ListTyped' BY <1>0, <1>1, <2>1 DEF ListTyped
  <2>3. MemoryTyped' BY <1>0, <1>7, SameTypes DEF UnlistBlock
  <2>4. QED BY <1>0, <1>1, <1>3, <2>2, <2>3, TypedNext
<1>8. CASE FreeBlock(c)
  <2>1. ListTyped' BY <1>0, <1>8, SameTypes DEF FreeBlock, index
  <2>2. MemoryTyped' BY <1>0, <1>5, <1>8 DEF FreeBlock, MemoryTyped
  <2>3. QED BY <1>0, <1>1, <1>3, <2>1, <2>2, TypedNext
<1>9. CASE /\ UNCHANGED <<index, blocks>>
  <2>1. ListTyped' /\ MemoryTyped' BY <1>0, <1>9, SameTypes DEF index
  <2>2. QED BY <1>0, <1>1, <1>3, <2>1, TypedNext
<1>10. UNCHANGED <<index, blocks>> \/ DequeueReads(c) \/ UnlistBlock(c) \/ FreeBlock(c)
  BY DEF dequeue, DequeueLoadsTail, DequeueLoadsOvercommit, DequeueSees, DequeueSeesNone,
     DequeueCounts, DequeueRechecks, DequeueIsLate, DequeueGivesUp, DequeueClaims,
     LookupHeader, LookupTail, LookupEntry
<1>11. QED BY <1>6, <1>7, <1>8, <1>9, <1>10

(* The steps of the producer. *)
LEMMA EnqueueTyped ==
    ASSUME Typed, CountersTyped, enqueue
    PROVE  Typed'
<1>0. /\ producer \in Producer /\ RingsTyped /\ ListTyped /\ MemoryTyped /\ ConsumersTyped
      /\ tailIndex \in Indices
  BY TypedParts DEF CountersTyped
<1> USE DEF index, blocks
<1>1. CASE EnqueueInBlock \/ EnqueueInNewBlock
  <2>1. Publish BY <1>1 DEF EnqueueInBlock, EnqueueInNewBlock
  <2>2. producer' \in Producer BY <2>1, TypedFacts DEF Publish
  <2>3. elements' \in [Blocks -> [0..(BLOCK_SIZE - 1) -> Indices \cup {Null}]]
    BY <1>0, <2>1 DEF Publish, MemoryTyped
  <2>4. MemoryTyped' BY <1>0, <2>1, <2>3 DEF Publish, MemoryTyped
  <2>5. ListTyped' /\ RingsTyped' /\ ConsumersTyped' BY <1>0, <2>1, SameTypes DEF Publish
  <2>6. QED BY <2>2, <2>4, <2>5, TypedNext
<1>2. CASE EnqueueNewBlock \/ EnqueueFails
  <2>1. Goes("insert") \/ Goes("rewind") BY <1>2 DEF EnqueueNewBlock, EnqueueFails
  <2>2. producer' \in Producer BY <2>1, GoesTo DEF ProducerPcs
  <2>3. ListTyped' /\ RingsTyped' /\ ConsumersTyped' /\ MemoryTyped'
    BY <1>0, <1>2, SameTypes DEF EnqueueNewBlock, EnqueueFails
  <2>4. QED BY <2>2, <2>3, TypedNext
<1>3. CASE InsertKey
  <2>1. NewEntry \in Entries BY NewEntryType
  <2> DEFINE e == NewEntry
  <2> HIDE DEF e
  <2>2. producer' = [producer EXCEPT !.pc = "tail", !.entry = e] /\ e \in Entries
    BY <1>3, <2>1 DEF InsertKey, e
  <2>3. producer' \in Producer BY <1>0, <2>2 DEF Producer, ProducerPcs
  <2>4. key' \in [Entries -> Indices] BY <1>0, <1>3 DEF InsertKey, ListTyped
  <2>5. ListTyped' BY <1>0, <1>3, <2>4 DEF InsertKey, ListTyped
  <2>6. RingsTyped' /\ ConsumersTyped' /\ MemoryTyped' BY <1>0, <1>3, SameTypes DEF InsertKey
  <2>7. QED BY <2>3, <2>5, <2>6, TypedNext
<1>4. ASSUME NEW t \in Slots(Current), blockIndex' = [blockIndex EXCEPT ![Current].tail = t],
             UNCHANGED <<key, value, blocks, consumer>>
      PROVE  RingsTyped' /\ ListTyped' /\ MemoryTyped' /\ ConsumersTyped'
  <2>1. /\ Current' = Current /\ blockIndex' \in Seq(Rings)
        /\ \A g \in 1 .. Current : IsRing(blockIndex'[g], g)
    BY <1>4, TailMoves
  <2>2. RingsTyped' BY <1>0, <2>1 DEF RingsTyped
  <2>3. ConsumersTyped' BY <1>0, <1>4, <2>1 DEF ConsumersTyped
  <2>4. QED BY <1>0, <1>4, <2>2, <2>3, SameTypes
<1>5. CASE InsertTail \/ RewindTail
  <2>1. Goes("requisition") \/ Goes("unlist") BY <1>5 DEF InsertTail, RewindTail
  <2>2. producer' \in Producer BY <2>1, GoesTo DEF ProducerPcs
  <2>3. Current \in 1 .. Current BY TypedFacts
  <2>4. blockIndex[Current].tail \in Nat BY <2>3, RingFacts
  <2>5. blockIndex[Current].tail - 1 \in Int BY <2>4
  <2>6. (blockIndex[Current].tail - 1) % Capacity(Current) \in Slots(Current)
    BY <2>3, <2>5, RingFacts
  <2>7. RingsTyped' /\ ListTyped' /\ MemoryTyped' /\ ConsumersTyped'
    BY <1>4, <1>5, <2>6, NewEntryType DEF InsertTail, RewindTail
  <2>8. QED BY <2>2, <2>7, TypedNext
<1>6. CASE NewBlockIndex
  <2>1. /\ Current' = Current + 1 /\ Current + 1 \in 1 .. MaxIndexes
        /\ blockIndex' \in Seq(Rings)
        /\ \A g \in 1 .. Current : blockIndex'[g] = blockIndex[g]
        /\ IsRing(blockIndex'[Current + 1], Current + 1)
    BY <1>6, RingAdded
  <2>2. Current \in Nat BY TypedFacts
  <2>3. RingsTyped' BY <1>0, <2>1, <2>2 DEF RingsTyped
  <2>4. ConsumersTyped'
    <3>1. consumer' = consumer BY <1>6 DEF NewBlockIndex
    <3>2. QED BY <1>0, <2>1, <2>2, <3>1 DEF ConsumersTyped, LookupTyped
  <2>5. ListTyped' /\ MemoryTyped' /\ producer' \in Producer
    BY <1>0, <1>6, SameTypes DEF NewBlockIndex
  <2>6. QED BY <2>3, <2>4, <2>5, TypedNext
<1>7. CASE NewBlockIndexFails
  <2>1. producer' \in Producer BY <1>7, TypedFacts DEF NewBlockIndexFails
  <2>2. ListTyped' /\ RingsTyped' /\ ConsumersTyped' /\ MemoryTyped'
    BY <1>0, <1>7, SameTypes DEF NewBlockIndexFails
  <2>3. QED BY <2>1, <2>2, TypedNext
<1>8. ASSUME NEW b \in Blocks, RequisitionBlock(b) PROVE Typed'
  <2>1. producer' = [producer EXCEPT !.pc = "value", !.block = b] /\ b \in Ids
    BY <1>8 DEF RequisitionBlock, Ids
  <2>2. producer' \in Producer BY <1>0, <2>1 DEF Producer, ProducerPcs
  <2>3. MemoryTyped' BY <1>0, <1>8 DEF RequisitionBlock, MemoryTyped
  <2>4. ListTyped' /\ RingsTyped' /\ ConsumersTyped'
    BY <1>0, <1>8, SameTypes DEF RequisitionBlock
  <2>5. QED BY <2>2, <2>3, <2>4, TypedNext
<1>9. producer.block \in Ids BY <1>0 DEF Producer
<1>10. CASE ClearEntry
  <2>1. producer' \in Producer BY <1>10, TypedFacts DEF ClearEntry
  <2>2. ListTyped' BY <1>0, <1>10 DEF ClearEntry, ListTyped, Ids
  <2>3. MemoryTyped' BY <1>0, <1>9, <1>10 DEF ClearEntry, MemoryTyped
  <2>4. RingsTyped' /\ ConsumersTyped' BY <1>0, <1>10, SameTypes DEF ClearEntry
  <2>5. QED BY <2>1, <2>2, <2>3, <2>4, TypedNext
<1>11. CASE ListBlock
  <2>1. producer' \in Producer BY <1>11, GoesTo DEF ListBlock, ProducerPcs
  <2>2. ListTyped' BY <1>0, <1>9, <1>11 DEF ListBlock, ListTyped
  <2>3. MemoryTyped' BY <1>0, <1>9, <1>11 DEF ListBlock, MemoryTyped
  <2>4. RingsTyped' /\ ConsumersTyped' BY <1>0, <1>11, SameTypes DEF ListBlock
  <2>5. QED BY <2>1, <2>2, <2>3, <2>4, TypedNext
<1>12. QED
  BY <1>1, <1>2, <1>3, <1>5, <1>6, <1>7, <1>8, <1>10, <1>11, Zenon DEF enqueue

-----------------------------------------------------------------------------
(* The counters *)

(* Two finite sets that differ at most in c. *)
LEMMA OneMore ==
    ASSUME NEW A, NEW D, NEW c, IsFiniteSet(A), \A d : d # c => (d \in A <=> d \in D)
    PROVE  /\ IsFiniteSet(D) /\ Cardinality(A) \in Nat /\ Cardinality(D) \in Nat
           /\ (c \in A <=> c \in D) => D = A
           /\ c \notin A /\ c \in D => Cardinality(D) = Cardinality(A) + 1
           /\ c \in A /\ c \notin D => Cardinality(D) = Cardinality(A) - 1
<1>1. CASE c \in A <=> c \in D
  <2>1. D = A BY <1>1
  <2>2. QED BY <1>1, <2>1, FS_CardinalityType
<1>2. CASE c \notin A /\ c \in D
  <2>1. D = A \cup {c} BY <1>2
  <2>2. QED BY <1>2, <2>1, FS_AddElement, FS_CardinalityType
<1>3. CASE c \in A /\ c \notin D
  <2>1. D = A \ {c} BY <1>3
  <2>2. QED BY <1>3, <2>1, FS_RemoveElement, FS_CardinalityType
<1>4. QED BY <1>1, <1>2, <1>3

LEMMA CountFacts ==
    ASSUME NEW m, NEW n
    PROVE  /\ IsFiniteSet(Consumers) /\ Cardinality(Consumers) \in Nat /\ MaxOvercommit \in Nat
           /\ Cardinality(Consumers) + MaxOvercommit <= Half
           /\ IsFiniteSet(Counted) /\ Cardinality(Counted) \in Nat
           /\ IsFiniteSet(Ahead(m, n)) /\ Cardinality(Ahead(m, n)) \in Nat
           /\ Cardinality(Ahead(m, n)) <= Cardinality(Counted)
           /\ \A c \in Consumers : c \notin Counted =>
                  Cardinality(Counted) < Cardinality(Consumers)
<1>1. /\ IsFiniteSet(Consumers) /\ Cardinality(Consumers) + MaxOvercommit <= Half
      /\ MaxOvercommit \in Nat
  BY ProducerAssumption
<1>2. Counted \subseteq Consumers /\ Ahead(m, n) \subseteq Counted BY DEF Counted, Ahead
<1>3. IsFiniteSet(Counted) /\ Cardinality(Counted) <= Cardinality(Consumers)
  BY <1>1, <1>2, FS_Subset
<1>4. IsFiniteSet(Ahead(m, n)) /\ Cardinality(Ahead(m, n)) <= Cardinality(Counted)
  BY <1>2, <1>3, FS_Subset
<1>5. /\ Cardinality(Consumers) \in Nat /\ Cardinality(Counted) \in Nat
      /\ Cardinality(Ahead(m, n)) \in Nat
  BY <1>1, <1>3, <1>4, FS_CardinalityType
<1>6. ASSUME NEW c \in Consumers, c \notin Counted
      PROVE  Cardinality(Counted) < Cardinality(Consumers)
  <2>1. Counted # Consumers BY <1>6
  <2>2. Cardinality(Counted) # Cardinality(Consumers) BY <1>1, <1>2, <2>1, FS_Subset
  <2>3. QED BY <1>3, <1>5, <2>2
<1>7. QED BY <1>1, <1>3, <1>4, <1>5, <1>6

(* What the invariant says of the counters themselves. *)
LEMMA CountersFacts ==
    ASSUME NEW T, NEW H, CountersInv(T, H)
    PROVE  /\ T \in Nat /\ H \in Nat /\ H <= T /\ T - H < Half
           /\ CountersTyped
           /\ \A c \in Consumers : consumer[c].pc = "claim" => H < T
<1>1. /\ T \in Nat /\ H \in Nat /\ tailIndex = T % Period /\ headIndex = H % Period
      /\ dequeueOvercommit \in 0 .. MaxOvercommit /\ Reach(T) - H < Half
  BY DEF CountersInv
<1>2. PICK O, m : Counts(T, H, O, m) BY DEF CountersInv
<1>3. H + Cardinality(Ahead(m, T)) <= T BY <1>1, <1>2 DEF Counts
<1>4. Cardinality(Ahead(m, T)) \in Nat /\ IsFiniteSet(Ahead(m, T)) BY CountFacts
<1>5. H <= T BY <1>1, <1>3, <1>4
<1>6. T - H < Half
  <2>1. T % BLOCK_SIZE \in 0 .. BLOCK_SIZE - 1 /\ BLOCK_SIZE \in Nat BY <1>1, Wrapped, Sizes
  <2>2. Reach(T) \in Int /\ Reach(T) >= T BY <1>1, <2>1 DEF Reach
  <2>3. QED BY <1>1, <2>2, Sizes
<1>7. CountersTyped
  <2>1. O \in Nat /\ dequeueOptimisticCount = O % Period BY <1>2 DEF Counts
  <2>2. /\ T % Period \in Indices /\ H % Period \in Indices /\ O % Period \in Indices
    BY <1>1, <2>1, Wrapped
  <2>3. MaxOvercommit < Period
    <3>1. Cardinality(Consumers) + MaxOvercommit <= Half /\ Cardinality(Consumers) \in Nat
          /\ MaxOvercommit \in Nat
      BY CountFacts
    <3>2. QED BY <3>1, Sizes
  <2>4. dequeueOvercommit \in Indices BY <1>1, <2>3, Sizes, CountFacts DEF Indices
  <2>5. QED BY <1>1, <2>1, <2>2, <2>4 DEF CountersTyped
<1>8. ASSUME NEW c \in Consumers, consumer[c].pc = "claim" PROVE H < T
  <2>1. c \in Ahead(m, T) BY <1>8 DEF Ahead
  <2>2. Cardinality(Ahead(m, T)) # 0 BY <1>4, <2>1, FS_EmptySet
  <2>3. QED BY <1>1, <1>3, <1>4, <2>2
<1>9. QED BY <1>1, <1>5, <1>6, <1>7, <1>8

(* How the step of one consumer changes who counts. *)
LEMMA CountedBy ==
    ASSUME NEW c \in Consumers, NEW r, Turns(c, r)
    PROVE  /\ \A d : d # c => (d \in Counted <=> d \in Counted')
           /\ c \in Counted' <=> r.pc \in {"recheck", "late", "claim"}
           /\ \A m, n : /\ \A d : d # c => (d \in Ahead(m, n) <=> d \in (Ahead(m, n))')
                        /\ c \in (Ahead(m, n))' <=> \/ r.pc = "claim"
                                                    \/ r.pc = "recheck" /\ m[c] < n
BY Zenon DEF Counted, Ahead, Turns

(* A step that leaves the counters alone, outside what is counted. *)
LEMMA QuietTurn ==
    ASSUME NEW T, NEW H, CountersInv(T, H), NEW c \in Consumers, NEW r, Turns(c, r),
           UNCHANGED <<counters, producer>>,
           consumer[c].pc \notin {"recheck", "late", "claim"},
           r.pc \notin {"recheck", "late", "claim"},
           r.pc \in {"look", "count"} => r.count \in 0 .. dequeueOvercommit
    PROVE  CountersInv(T, H)'
<1>0. /\ tailIndex' = tailIndex /\ headIndex' = headIndex /\ producer' = producer
      /\ dequeueOptimisticCount' = dequeueOptimisticCount
      /\ dequeueOvercommit' = dequeueOvercommit
  BY DEF counters
<1>1. PICK O, m : Counts(T, H, O, m) BY DEF CountersInv
<1>2. Counted' = Counted
  <2>1. \A d : d \in Counted <=> d \in Counted'
    BY CountedBy DEF Counted
  <2>2. QED BY <2>1
<1>3. ASSUME NEW n PROVE (Ahead(m, n))' = Ahead(m, n)
  <2>1. \A d : d \in Ahead(m, n) <=> d \in (Ahead(m, n))'
    <3>1. c \notin Ahead(m, n) /\ c \notin (Ahead(m, n))' BY CountedBy DEF Ahead
    <3>2. \A d : d # c => (d \in Ahead(m, n) <=> d \in (Ahead(m, n))') BY CountedBy
    <3>3. QED BY <3>1, <3>2
  <2>2. QED BY <2>1
<1>4. ASSUME NEW d \in Consumers PROVE LocalCount(T, m, d)'
  <2>1. CASE d = c BY <1>0, <2>1 DEF LocalCount, Turns
  <2>2. CASE d # c
    <3>1. consumer'[d] = consumer[d] BY <2>2 DEF Turns
    <3>2. LocalCount(T, m, d) BY <1>1 DEF Counts
    <3>3. QED BY <1>0, <3>1, <3>2 DEF LocalCount
  <2>3. QED BY <2>1, <2>2
<1>5. Counts(T, H, O, m)'
  <2>1. \A n \in Nat : n >= T => H + Cardinality((Ahead(m, n))') <= n
    BY <1>1, <1>3 DEF Counts
  <2>2. QED BY <1>0, <1>1, <1>2, <1>4, <2>1 DEF Counts
<1>6. (Reach(T))' = Reach(T) BY <1>0 DEF Reach
<1>7. QED BY <1>0, <1>5, <1>6 DEF CountersInv

(* A consumer counts itself in. *)
LEMMA CountsInKeeps ==
    ASSUME NEW T, NEW H, CountersInv(T, H), Typed, NEW c \in Consumers, DequeueCounts(c)
    PROVE  CountersInv(T, H)'
<1> DEFINE V == dequeueOvercommit
           v == consumer[c].count
<1>0. /\ tailIndex' = tailIndex /\ headIndex' = headIndex /\ producer' = producer
      /\ dequeueOptimisticCount' = Plus(dequeueOptimisticCount, 1) /\ V' = V
      /\ consumer[c].pc = "count"
  BY DEF DequeueCounts, In
<1>1. PICK O, m : Counts(T, H, O, m) BY DEF CountersInv
<1>2. T \in Nat /\ H \in Nat /\ H <= T /\ CountersTyped BY CountersFacts
<1>3. PICK r \in Locals : /\ Turns(c, r) /\ r.pc = "recheck"
                          /\ r.count = Minus(dequeueOptimisticCount, v)
  <2>1. {tailIndex, dequeueOptimisticCount, dequeueOvercommit} \subseteq Indices
    BY <1>2 DEF CountersTyped
  <2>2. QED BY <2>1, CountingSteps
<1>4. /\ O \in Nat /\ m \in [Consumers -> Int] /\ O = V + H + Cardinality(Counted)
      /\ dequeueOptimisticCount = O % Period /\ V \in 0 .. MaxOvercommit /\ v \in 0 .. V
  <2>1. LocalCount(T, m, c) BY <1>1 DEF Counts
  <2>2. v \in 0 .. V BY <1>0, <2>1 DEF LocalCount
  <2>3. QED BY <1>1, <2>2 DEF Counts, CountersInv
<1>5. c \notin Counted /\ \A n : c \notin Ahead(m, n) BY <1>0 DEF Counted, Ahead
<1>6. PICK N : /\ N \in [Consumers -> Int] /\ N[c] = O - v
               /\ \A d \in Consumers : d # c => N[d] = m[d]
  <2>1. /\ [m EXCEPT ![c] = O - v] \in [Consumers -> Int]
        /\ [m EXCEPT ![c] = O - v][c] = O - v
        /\ \A d \in Consumers : d # c => [m EXCEPT ![c] = O - v][d] = m[d]
    BY <1>4
  <2>2. QED BY <2>1
<1>7. MaxOvercommit \in Nat /\ Cardinality(Consumers) \in Nat /\ Cardinality(Counted) \in Nat
      /\ Cardinality(Counted) < Cardinality(Consumers)
  BY <1>5, CountFacts
<1>8. O - v < T + Cardinality(Consumers) + MaxOvercommit BY <1>2, <1>4, <1>7
<1>9. Cardinality(Counted') = Cardinality(Counted) + 1
  <2>1. \A d : d # c => (d \in Counted <=> d \in Counted') BY <1>3, CountedBy
  <2>2. c \in Counted' BY <1>3, CountedBy
  <2>3. IsFiniteSet(Counted) BY CountFacts
  <2>4. QED BY <1>5, <2>1, <2>2, <2>3, OneMore
<1>10. ASSUME NEW n \in Nat, n >= T PROVE H + Cardinality((Ahead(N, n))') <= n
  <2> DEFINE A == Ahead(m, n)
             D == (Ahead(N, n))'
  <2>1. \A d : d # c => (d \in A <=> d \in D)
    <3>1. \A d : d # c => (d \in Ahead(N, n) <=> d \in (Ahead(N, n))') BY <1>3, CountedBy
    <3>2. \A d : d # c => (d \in Ahead(N, n) <=> d \in Ahead(m, n)) BY <1>6 DEF Ahead
    <3>3. QED BY <3>1, <3>2
  <2>2. c \in D <=> O - v < n BY <1>3, <1>6, CountedBy
  <2>3. IsFiniteSet(A) /\ Cardinality(A) \in Nat /\ Cardinality(A) <= Cardinality(Counted)
    BY CountFacts
  <2>4. c \notin A BY <1>5
  <2>5. H + Cardinality(A) <= n BY <1>1, <1>10 DEF Counts
  <2> HIDE DEF A, D
  <2>6. CASE O - v < n
    <3>1. Cardinality(D) = Cardinality(A) + 1 BY <2>1, <2>2, <2>3, <2>4, <2>6, OneMore
    <3>2. QED BY <1>2, <1>4, <1>7, <2>3, <2>6, <3>1 DEF D
  <2>7. CASE ~(O - v < n)
    <3>1. D = A BY <2>1, <2>2, <2>3, <2>4, <2>7, OneMore
    <3>2. QED BY <2>5, <3>1 DEF D
  <2>8. QED BY <2>6, <2>7
<1>11. ASSUME NEW d \in Consumers PROVE LocalCount(T, N, d)'
  <2>1. CASE d = c
    <3>1. consumer'[c] = r BY <1>3 DEF Turns
    <3>2. Minus(O % Period, v) = (O - v) % Period
      <4>1. O \in Int /\ -v \in Int /\ Period \in Nat \ {0} BY <1>4, Sizes
      <4>2. ((O % Period) + (-v)) % Period = (O + (-v)) % Period BY <4>1, ModPlus
      <4>3. (O % Period) + (-v) = (O % Period) - v /\ O + (-v) = O - v BY <4>1, <1>4, DivMod
      <4>4. QED BY <4>2, <4>3 DEF Minus
    <3>3. r.count = N[c] % Period BY <1>3, <1>4, <1>6, <3>2
    <3>4. N[c] < T + Cardinality(Consumers) + MaxOvercommit BY <1>6, <1>8
    <3>5. QED BY <1>3, <2>1, <3>1, <3>3, <3>4 DEF LocalCount
  <2>2. CASE d # c
    <3>1. consumer'[d] = consumer[d] /\ N[d] = m[d] BY <1>3, <1>6, <2>2 DEF Turns
    <3>2. LocalCount(T, m, d) BY <1>1 DEF Counts
    <3>3. QED BY <1>0, <3>1, <3>2 DEF LocalCount
  <2>3. QED BY <2>1, <2>2
<1>12. Counts(T, H, O + 1, N)'
  <2>1. dequeueOptimisticCount' = (O + 1) % Period BY <1>0, <1>4, Wrapped
  <2>2. O + 1 \in Nat /\ O + 1 = V' + H + Cardinality(Counted')
    BY <1>0, <1>2, <1>4, <1>7, <1>9
  <2>3. QED BY <1>6, <1>10, <1>11, <2>1, <2>2 DEF Counts
<1>13. (Reach(T))' = Reach(T) BY <1>0 DEF Reach
<1>14. QED BY <1>0, <1>12, <1>13 DEF CountersInv

(* The recheck: only who is ahead of the tail goes on to claim. *)
LEMMA RechecksKeep ==
    ASSUME NEW T, NEW H, CountersInv(T, H), Typed, NEW c \in Consumers,
           DequeueRechecks(c) \/ DequeueIsLate(c)
    PROVE  CountersInv(T, H)'
<1>0. /\ UNCHANGED <<tailIndex, headIndex, producer, dequeueOptimisticCount, dequeueOvercommit>>
      /\ consumer[c].pc = "recheck"
  BY DEF DequeueRechecks, DequeueIsLate, In, counters
<1>1. PICK O, m : Counts(T, H, O, m) BY DEF CountersInv
<1>2. T \in Nat /\ H \in Nat /\ H <= T /\ CountersTyped BY CountersFacts
<1>3. PICK r \in Locals : /\ Turns(c, r) /\ r.pc \in {"claim", "late"}
                          /\ DequeueRechecks(c) <=> r.pc = "claim"
  <2>1. {tailIndex, dequeueOptimisticCount, dequeueOvercommit} \subseteq Indices
    BY <1>2 DEF CountersTyped
  <2>2. ~(DequeueRechecks(c) /\ DequeueIsLate(c)) BY DEF DequeueRechecks, DequeueIsLate
  <2>3. DequeueRechecks(c) => \E r \in Locals : Turns(c, r) /\ r.pc = "claim"
    BY <2>1, CountingSteps
  <2>4. DequeueIsLate(c) => \E r \in Locals : Turns(c, r) /\ r.pc = "late"
    BY <2>1, CountingSteps
  <2>5. QED BY <2>2, <2>3, <2>4
<1>4. /\ m \in [Consumers -> Int] /\ consumer[c].count = m[c] % Period
      /\ m[c] < T + Cardinality(Consumers) + MaxOvercommit
  <2>1. LocalCount(T, m, c) BY <1>1 DEF Counts
  <2>2. QED BY <1>0, <1>1, <2>1 DEF LocalCount, Counts
<1>5. DequeueRechecks(c) => m[c] < T
  <2> SUFFICES ASSUME DequeueRechecks(c), m[c] >= T PROVE FALSE
    BY <1>2, <1>4
  <2>1. circular_less_than(m[c] % Period, T % Period)
    BY <1>4 DEF DequeueRechecks, CountersInv
  <2>2. m[c] - T <= Half /\ m[c] \in Int /\ T \in Int BY <1>2, <1>4, CountFacts, Sizes
  <2>3. QED BY <2>1, <2>2, Circular
<1>6. Counted' = Counted
  <2>1. c \in Counted /\ c \in Counted'
    BY <1>0, <1>3, CountedBy DEF Counted
  <2>2. \A d : d # c => (d \in Counted <=> d \in Counted') BY <1>3, CountedBy
  <2>3. QED BY <2>1, <2>2
<1>7. ASSUME NEW n \in Nat, n >= T PROVE H + Cardinality((Ahead(m, n))') <= n
  <2> DEFINE A == Ahead(m, n)
             D == (Ahead(m, n))'
  <2>1. \A d : d # c => (d \in A <=> d \in D) BY <1>3, CountedBy
  <2>2. c \in D => c \in A
    <3>1. c \in D <=> r.pc = "claim" BY <1>3, CountedBy
    <3>2. m[c] < n => c \in A BY <1>0 DEF Ahead
    <3>3. QED BY <1>2, <1>3, <1>4, <1>5, <1>7, <3>1, <3>2
  <2>3. IsFiniteSet(A) /\ Cardinality(A) \in Nat BY CountFacts
  <2>4. H + Cardinality(A) <= n BY <1>1, <1>7 DEF Counts
  <2> HIDE DEF A, D
  <2>5. Cardinality(D) \in Nat /\ Cardinality(D) <= Cardinality(A)
    BY <2>1, <2>2, <2>3, OneMore
  <2>6. QED BY <1>2, <2>3, <2>4, <2>5 DEF D
<1>8. ASSUME NEW d \in Consumers PROVE LocalCount(T, m, d)'
  <2>1. CASE d = c BY <1>3, <2>1 DEF LocalCount, Turns
  <2>2. CASE d # c
    <3>1. consumer'[d] = consumer[d] BY <1>3, <2>2 DEF Turns
    <3>2. LocalCount(T, m, d) BY <1>1 DEF Counts
    <3>3. QED BY <1>0, <3>1, <3>2 DEF LocalCount
  <2>3. QED BY <2>1, <2>2
<1>9. Counts(T, H, O, m)' BY <1>0, <1>1, <1>6, <1>7, <1>8 DEF Counts
<1>10. (Reach(T))' = Reach(T) BY <1>0 DEF Reach
<1>11. QED BY <1>0, <1>9, <1>10 DEF CountersInv

(* A late consumer counts itself out, ... *)
LEMMA GivesUpKeeps ==
    ASSUME NEW T, NEW H, CountersInv(T, H), Typed, NEW c \in Consumers, DequeueGivesUp(c)
    PROVE  CountersInv(T, H)'
<1>0. /\ UNCHANGED <<tailIndex, headIndex, producer, dequeueOptimisticCount>>
      /\ consumer[c].pc = "late" /\ dequeueOvercommit < MaxOvercommit
      /\ dequeueOvercommit' = Plus(dequeueOvercommit, 1)
  BY DEF DequeueGivesUp, In
<1>1. PICK O, m : Counts(T, H, O, m) BY DEF CountersInv
<1>2. T \in Nat /\ H \in Nat /\ H <= T /\ CountersTyped BY CountersFacts
<1>3. Turns(c, IdleConsumer) /\ IdleConsumer.pc = "idle"
  <2>1. {tailIndex, dequeueOptimisticCount, dequeueOvercommit} \subseteq Indices
    BY <1>2 DEF CountersTyped
  <2>2. QED BY <2>1, CountingSteps DEF IdleConsumer
<1>4. /\ dequeueOvercommit \in 0 .. MaxOvercommit /\ MaxOvercommit \in Nat
      /\ O = dequeueOvercommit + H + Cardinality(Counted) /\ O \in Nat
  BY <1>1, CountFacts DEF Counts, CountersInv
<1>5. dequeueOvercommit' = dequeueOvercommit + 1 /\ dequeueOvercommit' \in 0 .. MaxOvercommit
  <2>1. MaxOvercommit < Period
    <3>1. Cardinality(Consumers) + MaxOvercommit <= Half /\ Cardinality(Consumers) \in Nat
          /\ MaxOvercommit \in Nat
      BY CountFacts
    <3>2. QED BY <3>1, Sizes
  <2>2. dequeueOvercommit + 1 \in 0 .. Period - 1 /\ Period \in Nat \ {0}
    BY <1>0, <1>4, <2>1, Sizes
  <2>3. (dequeueOvercommit + 1) % Period = dequeueOvercommit + 1 BY <2>2, ModSmall
  <2>4. QED BY <1>0, <1>4, <2>3 DEF Plus
<1>6. Cardinality(Counted') = Cardinality(Counted) - 1 /\ Cardinality(Counted) \in Nat
  <2>1. c \in Counted /\ c \notin Counted'
    BY <1>0, <1>3, CountedBy DEF Counted
  <2>2. \A d : d # c => (d \in Counted <=> d \in Counted') BY <1>3, CountedBy
  <2>3. IsFiniteSet(Counted) /\ Cardinality(Counted) \in Nat BY CountFacts
  <2>4. QED BY <2>1, <2>2, <2>3, OneMore
<1>7. ASSUME NEW n PROVE (Ahead(m, n))' = Ahead(m, n)
  <2>1. c \notin Ahead(m, n) /\ c \notin (Ahead(m, n))'
    BY <1>0, <1>3, CountedBy DEF Ahead
  <2>2. \A d : d # c => (d \in Ahead(m, n) <=> d \in (Ahead(m, n))') BY <1>3, CountedBy
  <2>3. QED BY <2>1, <2>2
<1>8. ASSUME NEW d \in Consumers PROVE LocalCount(T, m, d)'
  <2>1. CASE d = c BY <1>3, <2>1 DEF LocalCount, Turns
  <2>2. CASE d # c
    <3>1. consumer'[d] = consumer[d] BY <1>3, <2>2 DEF Turns
    <3>2. LocalCount(T, m, d) BY <1>1 DEF Counts
    <3>3. 0 .. dequeueOvercommit \subseteq 0 .. dequeueOvercommit' BY <1>4, <1>5
    <3>4. QED BY <1>0, <3>1, <3>2, <3>3 DEF LocalCount
  <2>3. QED BY <2>1, <2>2
<1>9. Counts(T, H, O, m)'
  <2>1. O = dequeueOvercommit' + H + Cardinality(Counted') BY <1>2, <1>4, <1>5, <1>6
  <2>2. \A n \in Nat : n >= T => H + Cardinality((Ahead(m, n))') <= n
    BY <1>1, <1>7 DEF Counts
  <2>3. QED BY <1>0, <1>1, <1>8, <2>1, <2>2 DEF Counts
<1>10. (Reach(T))' = Reach(T) BY <1>0 DEF Reach
<1>11. QED BY <1>0, <1>5, <1>9, <1>10 DEF CountersInv

(* ... and one that is not claims. *)
LEMMA ClaimsKeep ==
    ASSUME NEW T, NEW H, CountersInv(T, H), Typed, NEW c \in Consumers, DequeueClaims(c)
    PROVE  CountersInv(T, H + 1)'
<1>0. /\ UNCHANGED <<tailIndex, dequeueOvercommit, producer, dequeueOptimisticCount>>
      /\ consumer[c].pc = "claim" /\ headIndex' = Plus(headIndex, 1)
  BY DEF DequeueClaims, In
<1>1. PICK O, m : Counts(T, H, O, m) BY DEF CountersInv
<1>2. T \in Nat /\ H \in Nat /\ H <= T /\ CountersTyped BY CountersFacts
<1>3. PICK r \in Locals : Turns(c, r) /\ r.pc = "header"
  <2>1. headIndex \in Indices BY <1>2 DEF CountersTyped
  <2>2. QED BY <2>1, DeliveringSteps
<1>4. headIndex' = (H + 1) % Period BY <1>0, <1>2, Wrapped DEF CountersInv
<1>5. /\ O = dequeueOvercommit + H + Cardinality(Counted) /\ O \in Nat
      /\ dequeueOvercommit \in 0 .. MaxOvercommit /\ MaxOvercommit \in Nat
  BY <1>1, CountFacts DEF Counts, CountersInv
<1>6. Cardinality(Counted') = Cardinality(Counted) - 1 /\ Cardinality(Counted) \in Nat
  <2>1. c \in Counted /\ c \notin Counted'
    BY <1>0, <1>3, CountedBy DEF Counted
  <2>2. \A d : d # c => (d \in Counted <=> d \in Counted') BY <1>3, CountedBy
  <2>3. IsFiniteSet(Counted) /\ Cardinality(Counted) \in Nat BY CountFacts
  <2>4. QED BY <2>1, <2>2, <2>3, OneMore
<1>7. ASSUME NEW n \in Nat, n >= T PROVE (H + 1) + Cardinality((Ahead(m, n))') <= n
  <2> DEFINE A == Ahead(m, n)
             D == (Ahead(m, n))'
  <2>1. c \in A /\ c \notin D BY <1>0, <1>3, CountedBy DEF Ahead
  <2>2. \A d : d # c => (d \in A <=> d \in D) BY <1>3, CountedBy
  <2>3. IsFiniteSet(A) /\ Cardinality(A) \in Nat BY CountFacts
  <2>4. H + Cardinality(A) <= n BY <1>1, <1>7 DEF Counts
  <2> HIDE DEF A, D
  <2>5. Cardinality(D) = Cardinality(A) - 1 BY <2>1, <2>2, <2>3, OneMore
  <2>6. QED BY <1>2, <2>3, <2>4, <2>5 DEF D
<1>8. ASSUME NEW d \in Consumers PROVE LocalCount(T, m, d)'
  <2>1. CASE d = c BY <1>3, <2>1 DEF LocalCount, Turns
  <2>2. CASE d # c
    <3>1. consumer'[d] = consumer[d] BY <1>3, <2>2 DEF Turns
    <3>2. LocalCount(T, m, d) BY <1>1 DEF Counts
    <3>3. QED BY <1>0, <3>1, <3>2 DEF LocalCount
  <2>3. QED BY <2>1, <2>2
<1>9. Counts(T, H + 1, O, m)'
  <2>1. O = dequeueOvercommit' + (H + 1) + Cardinality(Counted') BY <1>0, <1>2, <1>5, <1>6
  <2>2. QED BY <1>0, <1>1, <1>7, <1>8, <2>1 DEF Counts
<1>10. (Reach(T))' = Reach(T) /\ Reach(T) \in Int /\ Reach(T) - (H + 1) < Half
  <2>1. T % BLOCK_SIZE \in Int /\ BLOCK_SIZE \in Int BY <1>2, Wrapped, Sizes
  <2>2. (Reach(T))' = Reach(T) /\ Reach(T) \in Int BY <1>0, <1>2, <2>1 DEF Reach
  <2>3. Reach(T) - H < Half BY DEF CountersInv
  <2>4. QED BY <1>2, <2>2, <2>3, Sizes
<1>11. H + 1 \in Nat BY <1>2
<1>12. QED BY <1>0, <1>4, <1>9, <1>10, <1>11 DEF CountersInv

(* A step of the producer leaves the counts of the consumers alone. *)
LEMMA ProducerCounts ==
    ASSUME NEW T \in Nat, NEW S \in Nat, NEW H, NEW O, NEW m, Counts(T, H, O, m), T <= S,
           UNCHANGED <<dequeueOptimisticCount, dequeueOvercommit, consumer>>
    PROVE  Counts(S, H, O, m)'
<1>1. Counted' = Counted /\ \A n : (Ahead(m, n))' = Ahead(m, n) BY DEF Counted, Ahead
<1>2. \A n \in Nat : n >= S => H + Cardinality((Ahead(m, n))') <= n BY <1>1 DEF Counts
<1>3. ASSUME NEW d \in Consumers PROVE LocalCount(S, m, d)'
  <2>1. LocalCount(T, m, d) /\ m[d] \in Int BY DEF Counts
  <2>2. Cardinality(Consumers) \in Nat /\ MaxOvercommit \in Nat BY CountFacts
  <2>3. \A x \in Int : x < T + Cardinality(Consumers) + MaxOvercommit =>
            x < S + Cardinality(Consumers) + MaxOvercommit
    BY <2>2
  <2>4. QED BY <2>1, <2>3 DEF LocalCount
<1>4. QED BY <1>1, <1>2, <1>3 DEF Counts

(* An element is published. *)
LEMMA PublishKeeps ==
    ASSUME NEW T, NEW H, CountersInv(T, H), Publish,
           (producer.pc = "idle" /\ T % BLOCK_SIZE # 0) \/ producer.pc = "publish"
    PROVE  CountersInv(T + 1, H)'
<1>0. /\ UNCHANGED <<headIndex, dequeueOvercommit, dequeueOptimisticCount, consumer>>
      /\ tailIndex' = Plus(tailIndex, 1) /\ producer' = IdleProducer
  BY DEF Publish
<1>1. PICK O, m : Counts(T, H, O, m) BY DEF CountersInv
<1>2. /\ T \in Nat /\ H \in Nat /\ T + 1 \in Nat /\ T <= T + 1 /\ Half \in Nat
      /\ tailIndex = T % Period /\ Reach(T) - H < Half
      /\ producer.pc # "idle" => T % BLOCK_SIZE = 0
  BY Sizes DEF CountersInv
<1>3. Counts(T + 1, H, O, m)' BY <1>0, <1>1, <1>2, ProducerCounts
<1>4. tailIndex' = (T + 1) % Period BY <1>0, <1>2, Wrapped
<1>5. producer'.pc = "idle" BY <1>0 DEF IdleProducer
<1> DEFINE B == BLOCK_SIZE
           k == T \div B
           r == T % B
<1>6. /\ B \in Nat \ {0} /\ B > 1 /\ k \in Int /\ r \in 0 .. B - 1 /\ T = B * k + r
  <2>1. B \in Nat \ {0} /\ B > 1 /\ T \in Int BY <1>2, Sizes
  <2>2. QED BY <2>1, DivMod
<1>7. Reach(T) = T - r + B
  <2>1. CASE r # 0 BY <2>1 DEF Reach
  <2>2. CASE r = 0
    <3>1. producer.pc # "idle" BY <2>2
    <3>2. Reach(T) = T + B BY <2>2, <3>1 DEF Reach
    <3>3. QED BY <1>2, <1>6, <2>2, <3>2
  <2>3. QED BY <2>1, <2>2
<1> HIDE DEF B, k, r
<1>8. (T + 1) % B = IF r = B - 1 THEN 0 ELSE r + 1
  <2>1. CASE r = B - 1
    <3>1. T + 1 = B * (k + 1) + 0 /\ T + 1 \in Int /\ k + 1 \in Int /\ 0 \in 0 .. B - 1
      BY <1>2, <1>6, <2>1
    <3>2. (T + 1) % B = 0 BY <1>6, <3>1, ModIs
    <3>3. QED BY <2>1, <3>2
  <2>2. CASE r # B - 1
    <3>1. T + 1 = B * k + (r + 1) /\ T + 1 \in Int /\ r + 1 \in 0 .. B - 1
      BY <1>2, <1>6, <2>2
    <3>2. (T + 1) % B = r + 1 BY <1>6, <3>1, ModIs
    <3>3. QED BY <2>2, <3>2
  <2>3. QED BY <2>1, <2>2
<1>9. (Reach(T + 1))' = T - r + B
  <2>1. (Reach(T + 1))' = IF (T + 1) % B # 0 THEN (T + 1) - ((T + 1) % B) + B ELSE T + 1
    BY <1>5 DEF Reach, B
  <2>2. QED BY <1>2, <1>6, <1>8, <2>1
<1>10. (Reach(T + 1))' - H < Half BY <1>2, <1>7, <1>9
<1>11. QED BY <1>0, <1>2, <1>3, <1>4, <1>5, <1>10 DEF CountersInv

(* The other steps of the producer; it begins a block if there is room. *)
LEMMA ProducerKeeps ==
    ASSUME NEW T, NEW H, CountersInv(T, H), UNCHANGED <<counters, consumer>>,
           producer.pc # "idle" \/ EnqueueNewBlock, Typed
    PROVE  CountersInv(T, H)'
<1>0. UNCHANGED <<headIndex, tailIndex, dequeueOvercommit, dequeueOptimisticCount, consumer>>
  BY DEF counters
<1>1. PICK O, m : Counts(T, H, O, m) BY DEF CountersInv
<1>2. /\ T \in Nat /\ H \in Nat /\ H <= T /\ T - H < Half /\ T <= T /\ Half \in Nat
      /\ BLOCK_SIZE \in 2 .. Half /\ BLOCK_SIZE \in Nat
      /\ tailIndex = T % Period /\ headIndex = H % Period /\ Reach(T) - H < Half
  BY Sizes, CountersFacts DEF CountersInv
<1>3. Counts(T, H, O, m)' BY <1>0, <1>1, <1>2, ProducerCounts
<1>4. CASE EnqueueNewBlock
  <2>1. /\ producer'.pc = "insert" /\ producer.pc = "idle" /\ tailIndex % BLOCK_SIZE = 0
        /\ circular_less_than(headIndex, Plus(tailIndex, BLOCK_SIZE))
    BY <1>4, GoesTo DEF EnqueueNewBlock, At, ProducerPcs
  <2>2. T % BLOCK_SIZE = 0 BY <1>2, <2>1, Wrapped
  <2>3. Plus(tailIndex, BLOCK_SIZE) = (T + BLOCK_SIZE) % Period
    <3>1. T \in Int /\ BLOCK_SIZE \in Int /\ Period \in Nat \ {0} BY <1>2, Sizes
    <3>2. QED BY <1>2, <3>1, ModPlus DEF Plus
  <2>4. circular_less_than(H % Period, (T + BLOCK_SIZE) % Period) BY <1>2, <2>1, <2>3
  <2>5. (T + BLOCK_SIZE) - H < Half
    <3> SUFFICES ASSUME (T + BLOCK_SIZE) - H >= Half PROVE FALSE
      BY <1>2
    <3>1. (T + BLOCK_SIZE) - H < Period BY <1>2, Sizes
    <3>2. H \in Int /\ T + BLOCK_SIZE \in Int BY <1>2
    <3>3. QED BY <2>4, <3>1, <3>2, Circular
  <2>6. (Reach(T))' = T + BLOCK_SIZE BY <2>1, <2>2 DEF Reach
  <2>7. QED BY <1>0, <1>2, <1>3, <2>2, <2>5, <2>6 DEF CountersInv
<1>5. CASE producer.pc # "idle"
  <2>1. T % BLOCK_SIZE = 0 BY <1>5 DEF CountersInv
  <2>2. Reach(T) = T + BLOCK_SIZE BY <1>5, <2>1 DEF Reach
  <2>3. (Reach(T))' \in {T, T + BLOCK_SIZE} BY <2>1 DEF Reach
  <2>4. (Reach(T))' - H < Half BY <1>2, <2>2, <2>3
  <2>5. QED BY <1>0, <1>2, <1>3, <2>1, <2>4 DEF CountersInv
<1>6. QED BY <1>4, <1>5

LEMMA InitCounters == Init => CountersInv(0, 0)
<1> SUFFICES ASSUME Init PROVE CountersInv(0, 0)
  OBVIOUS
<1> USE DEF Init
<1>1. /\ Period \in Nat \ {0} /\ 0 \in 0 .. Period - 1 /\ Half \in Nat \ {0}
      /\ BLOCK_SIZE \in Nat \ {0} /\ 0 \in 0 .. BLOCK_SIZE - 1 /\ MaxOvercommit \in Nat
      /\ Cardinality(Consumers) \in Nat
  <2>1. MaxOvercommit \in Nat /\ Cardinality(Consumers) \in Nat
    BY ProducerAssumption, FS_CardinalityType
  <2>2. QED BY <2>1, Sizes
<1>2. 0 % Period = 0 /\ 0 % BLOCK_SIZE = 0 BY <1>1, ModSmall
<1>3. PICK m : m = [c \in Consumers |-> 0] OBVIOUS
<1>4. \A c \in Consumers : consumer[c].pc = "idle" BY DEF IdleConsumer
<1>5. Counted = {} /\ \A n : Ahead(m, n) = {} BY <1>4 DEF Counted, Ahead
<1>6. Cardinality({}) = 0 BY FS_EmptySet
<1>7. Counts(0, 0, 0, m)
  <2>1. m \in [Consumers -> Int] BY <1>3
  <2>2. \A n \in Nat : n >= 0 => 0 + Cardinality(Ahead(m, n)) <= n
    <3> SUFFICES ASSUME NEW n \in Nat PROVE 0 + Cardinality(Ahead(m, n)) <= n
      OBVIOUS
    <3>1. Ahead(m, n) = {} BY <1>5
    <3>2. QED BY <1>6, <3>1
  <2>3. \A c \in Consumers : LocalCount(0, m, c) BY <1>4 DEF LocalCount
  <2>4. dequeueOptimisticCount = 0 % Period BY <1>2
  <2>5. 0 = dequeueOvercommit + 0 + Cardinality(Counted) BY <1>5, <1>6
  <2>6. QED BY <2>1, <2>2, <2>3, <2>4, <2>5 DEF Counts
<1>8. producer.pc = "idle" BY DEF IdleProducer
<1>9. Reach(0) = 0 BY <1>2, <1>8 DEF Reach
<1>10. QED BY <1>1, <1>2, <1>7, <1>8, <1>9 DEF CountersInv

(* All other steps of a consumer. *)
LEMMA DequeueCounters ==
    ASSUME NEW T, NEW H, CountersInv(T, H), Typed, NEW c \in Consumers, dequeue(c),
           ~DequeueClaims(c)
    PROVE  CountersInv(T, H)'
<1>0. CountersTyped BY CountersFacts
<1>1. /\ {tailIndex, dequeueOptimisticCount, dequeueOvercommit} \subseteq Indices
      /\ headIndex \in Indices
  BY <1>0 DEF CountersTyped
<1>2. dequeueOvercommit \in 0 .. MaxOvercommit /\ MaxOvercommit \in Nat
  BY CountFacts DEF CountersInv
<1>3. PICK O, m : Counts(T, H, O, m) BY DEF CountersInv
<1>4. LocalCount(T, m, c) BY <1>3 DEF Counts
<1> USE DEF In
<1>5. CASE DequeueLoadsTail(c)
  <2>1. PICK r \in Locals : Turns(c, r) /\ r.pc = "overcommit" BY <1>1, <1>5, CountingSteps
  <2>2. consumer[c].pc = "idle" /\ UNCHANGED <<counters, producer>>
    BY <1>5 DEF DequeueLoadsTail
  <2>3. QED BY <2>1, <2>2, QuietTurn
<1>6. CASE DequeueLoadsOvercommit(c)
  <2>1. PICK r \in Locals : Turns(c, r) /\ r.pc = "look" /\ r.count = dequeueOvercommit
    BY <1>1, <1>6, CountingSteps
  <2>2. consumer[c].pc = "overcommit" /\ UNCHANGED <<counters, producer>>
    BY <1>6 DEF DequeueLoadsOvercommit
  <2>3. r.count \in 0 .. dequeueOvercommit BY <1>2, <2>1
  <2>4. QED BY <2>1, <2>2, <2>3, QuietTurn
<1>7. CASE DequeueSees(c)
  <2>1. PICK r \in Locals : Turns(c, r) /\ r.pc = "count" /\ r.count = consumer[c].count
    BY <1>1, <1>7, CountingSteps
  <2>2. consumer[c].pc = "look" /\ UNCHANGED <<counters, producer>>
    BY <1>7 DEF DequeueSees
  <2>3. r.count \in 0 .. dequeueOvercommit BY <1>4, <2>1, <2>2 DEF LocalCount
  <2>4. QED BY <2>1, <2>2, <2>3, QuietTurn
<1>8. IdleConsumer.pc = "idle" BY DEF IdleConsumer
<1>9. CASE DequeueSeesNone(c)
  <2>1. Turns(c, IdleConsumer) BY <1>1, <1>9, CountingSteps
  <2>2. consumer[c].pc = "look" /\ UNCHANGED <<counters, producer>>
    BY <1>9 DEF DequeueSeesNone
  <2>3. QED BY <1>8, <2>1, <2>2, QuietTurn
<1>10. ASSUME NEW r, Turns(c, r), r.pc \notin {"look", "count", "recheck", "late", "claim"},
              consumer[c].pc \in {"header", "tail", "entry", "read", "unlist", "free"},
              UNCHANGED <<counters, producer>>
       PROVE  CountersInv(T, H)'
  BY <1>10, QuietTurn
<1>11. CASE LookupHeader(c)
  <2>1. PICK r \in Locals : Turns(c, r) /\ r.pc = "tail" BY <1>1, <1>11, DeliveringSteps
  <2>2. QED BY <1>10, <1>11, <2>1 DEF LookupHeader
<1>12. CASE LookupTail(c)
  <2>1. PICK r \in Locals : Turns(c, r) /\ r.pc = "entry" BY <1>1, <1>12, DeliveringSteps
  <2>2. QED BY <1>10, <1>12, <2>1 DEF LookupTail
<1>13. CASE LookupEntry(c)
  <2>1. PICK r \in Locals : Turns(c, r) /\ r.pc = "read" BY <1>1, <1>13, DeliveringSteps
  <2>2. QED BY <1>10, <1>13, <2>1 DEF LookupEntry
<1>14. CASE DequeueReads(c)
  <2>1. \E r : Turns(c, r) /\ r.pc \in {"idle", "unlist"}
    <3>1. IF elementsCompletelyDequeued[consumer[c].block] = BLOCK_SIZE - 1
          THEN \E r \in Locals : Turns(c, r) /\ r.pc = "unlist"
          ELSE Turns(c, IdleConsumer)
      BY <1>1, <1>14, DeliveringSteps
    <3>2. QED BY <1>8, <3>1
  <2>2. PICK r : Turns(c, r) /\ r.pc \in {"idle", "unlist"} BY <2>1
  <2>3. consumer[c].pc = "read" /\ UNCHANGED <<counters, producer>>
    BY <1>14 DEF DequeueReads
  <2>4. QED BY <1>10, <2>2, <2>3
<1>15. CASE UnlistBlock(c)
  <2>1. PICK r \in Locals : Turns(c, r) /\ r.pc = "free" BY <1>1, <1>15, DeliveringSteps
  <2>2. QED BY <1>10, <1>15, <2>1 DEF UnlistBlock
<1>16. CASE FreeBlock(c)
  <2>1. Turns(c, IdleConsumer) BY <1>1, <1>16, DeliveringSteps
  <2>2. QED BY <1>8, <1>10, <1>16, <2>1 DEF FreeBlock
<1>17. QED
  BY <1>5, <1>6, <1>7, <1>9, <1>11, <1>12, <1>13, <1>14, <1>15, <1>16,
     CountsInKeeps, RechecksKeep, GivesUpKeeps, Zenon DEF dequeue

(* The steps of the producer. *)
LEMMA EnqueueCounters ==
    ASSUME NEW T, NEW H, CountersInv(T, H), Typed, enqueue
    PROVE  IF EnqueueInBlock \/ EnqueueInNewBlock
           THEN CountersInv(T + 1, H)' ELSE CountersInv(T, H)'
<1>1. CASE EnqueueInBlock \/ EnqueueInNewBlock
  <2>1. Publish BY <1>1 DEF EnqueueInBlock, EnqueueInNewBlock
  <2>2. (producer.pc = "idle" /\ T % BLOCK_SIZE # 0) \/ producer.pc = "publish"
    <3>1. T \in Nat /\ tailIndex = T % Period BY DEF CountersInv
    <3>2. (T % Period) % BLOCK_SIZE = T % BLOCK_SIZE BY <3>1, Wrapped
    <3>3. QED BY <1>1, <3>1, <3>2 DEF EnqueueInBlock, EnqueueInNewBlock, At
  <2>3. QED BY <1>1, <2>1, <2>2, PublishKeeps
<1>2. CASE ~(EnqueueInBlock \/ EnqueueInNewBlock)
  <2>1. UNCHANGED <<counters, consumer>>
    BY <1>2 DEF enqueue, EnqueueNewBlock, InsertKey, InsertTail, NewBlockIndex,
       NewBlockIndexFails, RequisitionBlock, EnqueueFails, RewindTail, ClearEntry, ListBlock
  <2>2. CASE EnqueueNewBlock BY <1>2, <2>1, <2>2, ProducerKeeps
  <2>3. CASE ~EnqueueNewBlock
    <3>1. producer.pc # "idle"
      BY <1>2, <2>3 DEF enqueue, InsertKey, InsertTail, NewBlockIndex, NewBlockIndexFails,
         RequisitionBlock, EnqueueFails, RewindTail, ClearEntry, ListBlock, At
    <3>2. QED BY <1>2, <2>1, <2>3, <3>1, ProducerKeeps
  <2>4. QED BY <1>2, <2>2, <2>3
<1>3. QED BY <1>1, <1>2

CountersSome == \E T, H : CountersInv(T, H)

LEMMA CountersStutter ==
    ASSUME Typed, NEW T, NEW H, CountersInv(T, H), UNCHANGED vars
    PROVE  CountersInv(T, H)'
<1>1. /\ tailIndex' = tailIndex /\ headIndex' = headIndex
      /\ dequeueOvercommit' = dequeueOvercommit
      /\ dequeueOptimisticCount' = dequeueOptimisticCount
      /\ producer' = producer /\ consumer' = consumer
  BY DEF vars, counters
<1>2. PICK O, m : Counts(T, H, O, m) BY DEF CountersInv
<1>3. T \in Nat BY DEF CountersInv
<1>4. T <= T BY <1>3
<1>5. Counts(T, H, O, m)' BY <1>1, <1>2, <1>3, <1>4, ProducerCounts
<1>6. (Reach(T))' = Reach(T) BY <1>1 DEF Reach
<1>7. QED BY <1>1, <1>5, <1>6 DEF CountersInv

LEMMA CountersStep ==
    ASSUME Typed, CountersSome, [Next]_vars
    PROVE  Typed' /\ CountersSome'
<1>1. PICK T, H : CountersInv(T, H) BY DEF CountersSome
<1>2. CountersTyped BY <1>1, CountersFacts
<1>3. CASE enqueue
  <2>1. Typed' BY <1>2, <1>3, EnqueueTyped
  <2>2. CountersInv(T + 1, H)' \/ CountersInv(T, H)' BY <1>1, <1>3, EnqueueCounters
  <2>3. QED BY <2>1, <2>2 DEF CountersSome
<1>4. ASSUME NEW c \in Consumers, dequeue(c) PROVE Typed' /\ CountersSome'
  <2>1. Typed' BY <1>2, <1>4, DequeueTyped
  <2>2. CountersInv(T, H + 1)' \/ CountersInv(T, H)'
    BY <1>1, <1>4, DequeueCounters, ClaimsKeep
  <2>3. QED BY <2>1, <2>2 DEF CountersSome
<1>5. CASE UNCHANGED vars
  <2>1. Typed'
    BY <1>5 DEF Typed, vars, counters, index, blocks, Current
  <2>2. CountersInv(T, H)' BY <1>1, <1>5, CountersStutter
  <2>3. QED BY <2>1, <2>2 DEF CountersSome
<1>6. QED BY <1>3, <1>4, <1>5 DEF Next

LEMMA SizeIs ==
    ASSUME NEW T, NEW H, CountersInv(T, H)
    PROVE  Size = T - H
<1>1. T \in Nat /\ H \in Nat /\ H <= T /\ T - H < Half BY CountersFacts
<1>2. Period \in Nat \ {0} /\ Period = 2 * Half /\ Half \in Nat BY Sizes
<1>3. tailIndex = T % Period /\ headIndex = H % Period BY DEF CountersInv
<1>4. H \in Int /\ T \in Int BY <1>1
<1>5. Size = (T - H) % Period BY <1>2, <1>3, <1>4, ModDifference DEF Size, Minus
<1>6. T - H \in 0 .. Period - 1 BY <1>1, <1>2
<1>7. QED BY <1>2, <1>5, <1>6, ModSmall

(* When no consumer is in a call, the counters of the stream say whether   *)
(* there is an element: however many consumers came too late before, what  *)
(* they had counted too much has been made up for.  Nobody is counted, so  *)
(* the two counts differ by headIndex, which is less than half the range   *)
(* behind tailIndex.                                                       *)
THEOREM QuietStreamServesHolds == Spec => []QuietStreamServes
<1>1. Init => Typed /\ CountersSome BY InitTyped, InitCounters DEF CountersSome
<1>2. Typed /\ CountersSome /\ [Next]_vars => (Typed /\ CountersSome)' BY CountersStep
<1>3. CountersSome => QuietStreamServes
  <2> SUFFICES ASSUME CountersSome, \A c \in Consumers : consumer[c].pc = "idle"
               PROVE  circular_less_than(Minus(dequeueOptimisticCount, dequeueOvercommit),
                                         tailIndex)
                          <=> Size > 0
    BY DEF QuietStreamServes
  <2>1. PICK T, H : CountersInv(T, H) BY DEF CountersSome
  <2>2. PICK O, m : Counts(T, H, O, m) BY <2>1 DEF CountersInv
  <2>3. T \in Nat /\ H \in Nat /\ H <= T /\ T - H < Half BY <2>1, CountersFacts
  <2>4. Period \in Nat \ {0} /\ Period = 2 * Half /\ Half \in Nat BY Sizes
  <2> DEFINE V == dequeueOvercommit
  <2>5. /\ tailIndex = T % Period /\ headIndex = H % Period /\ V \in Int
        /\ dequeueOptimisticCount = O % Period /\ O = V + H + Cardinality(Counted) /\ O \in Int
    BY <2>1, <2>2, ProducerAssumption DEF CountersInv, Counts
  <2>6. Counted = {} BY DEF Counted
  <2>7. O - V = H BY <2>3, <2>5, <2>6, FS_EmptySet
  <2>8. Minus(O % Period, V) = H % Period
    <3>1. -V \in Int /\ O % Period \in Int BY <2>4, <2>5, DivMod
    <3>2. ((O % Period) + (-V)) % Period = (O + (-V)) % Period BY <2>4, <2>5, <3>1, ModPlus
    <3>3. (O % Period) + (-V) = (O % Period) - V /\ O + (-V) = H BY <2>5, <2>7, <3>1
    <3>4. QED BY <3>2, <3>3 DEF Minus
  <2>9. Size = T - H BY <2>1, SizeIs
  <2>10. circular_less_than(H % Period, T % Period) <=> H < T
    <3>1. H \in Int /\ T \in Int BY <2>3
    <3>2. H < T => circular_less_than(H % Period, T % Period) BY <2>3, <3>1, Circular
    <3>3. H = T => ~circular_less_than(H % Period, T % Period) BY <2>3, <2>4, <3>1, Circular
    <3>4. QED BY <2>3, <3>2, <3>3
  <2>11. QED BY <2>3, <2>5, <2>8, <2>9, <2>10
<1>4. QED BY <1>1, <1>2, <1>3, PTL DEF Spec

-----------------------------------------------------------------------------
(* Block numbers and slots *)

(* Numbers that agree modulo n and are less than n apart are the same. *)
LEMMA ModNear ==
    ASSUME NEW x \in Int, NEW y \in Int, NEW n \in Nat \ {0}, x % n = y % n,
           x - y < n, y - x < n
    PROVE  x = y
<1> DEFINE p == x \div n
           q == y \div n
           r == x % n
<1>1. p \in Int /\ q \in Int /\ r \in 0 .. n - 1 /\ x = n * p + r /\ y = n * q + r
  <2>1. p \in Int /\ r \in 0 .. n - 1 /\ x = n * p + r BY DivMod
  <2>2. q \in Int /\ y = n * q + (y % n) BY DivMod
  <2>3. QED BY <2>1, <2>2
<1> HIDE DEF p, q, r
<1>2. x - y = n * (p - q) BY <1>1
<1>3. p - q < 1
  <2> SUFFICES ASSUME p - q >= 1 PROVE FALSE BY <1>1
  <2>1. n * (p - q) >= n BY <1>1
  <2>2. QED BY <1>2, <2>1
<1>4. q - p < 1
  <2> SUFFICES ASSUME q - p >= 1 PROVE FALSE BY <1>1
  <2>1. n * (q - p) >= n BY <1>1
  <2>2. y - x = n * (q - p) BY <1>1
  <2>3. QED BY <2>1, <2>2
<1>5. QED BY <1>1, <1>3, <1>4

(* An offset may be added to both sides. *)
LEMMA ModAdd ==
    ASSUME NEW x \in Int, NEW y \in Int, NEW a \in Int, NEW n \in Nat \ {0},
           x % n = y % n
    PROVE  (x + a) % n = (y + a) % n
<1>1. ((x % n) + a) % n = (x + a) % n BY ModPlus
<1>2. ((y % n) + a) % n = (y + a) % n BY ModPlus
<1>3. QED BY <1>1, <1>2

LEMMA ModCancel ==
    ASSUME NEW n \in Nat \ {0}, NEW b \in Int, NEW s \in 0 .. n - 1, NEW t \in 0 .. n - 1,
           (b + s) % n = (b + t) % n
    PROVE  s = t
<1> DEFINE u == b + s
           v == b + t
           z == -b
<1>1. u \in Int /\ v \in Int /\ z \in Int /\ u % n = v % n OBVIOUS
<1>2. u + z = s /\ v + z = t OBVIOUS
<1> HIDE DEF u, v, z
<1>3. (u + z) % n = (v + z) % n BY <1>1, ModAdd, ZenonT(60)
<1>4. s % n = t % n BY <1>2, <1>3
<1>5. s % n = s /\ t % n = t BY ModSmall
<1>6. QED BY <1>4, <1>5

LEMMA NumberIs ==
    ASSUME NEW i \in Int, NEW k \in Int, k * BLOCK_SIZE <= i, i < (k + 1) * BLOCK_SIZE
    PROVE  Number(i) = k
<1>1. BLOCK_SIZE \in Nat \ {0} BY Sizes
<1>2. (k + 1) * BLOCK_SIZE = k * BLOCK_SIZE + BLOCK_SIZE /\ k * BLOCK_SIZE \in Int BY <1>1
<1>3. i - k * BLOCK_SIZE \in 0 .. BLOCK_SIZE - 1 BY <1>1, <1>2
<1>4. i = BLOCK_SIZE * k + (i - k * BLOCK_SIZE) BY <1>1, <1>2
<1>5. QED BY <1>1, <1>3, <1>4, ModIs DEF Number

(* The last block and the tail. *)
LEMMA LastFacts ==
    ASSUME NEW T \in Nat
    PROVE  /\ Last(T) \in Int /\ Last(T) >= -1 /\ Last(T) + 1 \in Nat
           /\ T > 0 => Last(T) \in Nat
           /\ T % BLOCK_SIZE = 0 =>
                  /\ T = (Last(T) + 1) * BLOCK_SIZE
                  /\ Last(T + 1) = Last(T) + 1 /\ Number(T) = Last(T) + 1
           /\ T % BLOCK_SIZE # 0 => T > 0 /\ Last(T + 1) = Last(T) /\ Number(T) = Last(T)
           /\ \A i \in Nat : i < T => Number(i) <= Last(T)
<1> DEFINE B == BLOCK_SIZE
           L == Last(T)
           s == (T - 1) % B
           k == T \div B
           r == T % B
<1>0. B \in Nat \ {0} BY Sizes
<1>1. L \in Int /\ s \in 0 .. B - 1 /\ T - 1 = B * L + s
  <2>1. T - 1 \in Int OBVIOUS
  <2>2. QED BY <1>0, <2>1, DivMod DEF Last
<1>2. k \in Int /\ r \in 0 .. B - 1 /\ T = B * k + r
  <2>1. T \in Int OBVIOUS
  <2>2. QED BY <1>0, <2>1, DivMod
<1>3. Last(T + 1) = k /\ Number(T) = k BY DEF Last, Number
<1> HIDE DEF B, s, k, r
<1>4. L >= -1 /\ (T > 0 => L >= 0)
  <2> HIDE DEF L
  <2>1. B * L >= -B BY <1>0, <1>1
  <2>2. L >= -1 BY <1>0, <1>1, <2>1
  <2>3. T > 0 => L >= 0 BY <1>0, <1>1
  <2>4. QED BY <2>2, <2>3
<1>5. r = 0 => k = L + 1
  <2> SUFFICES ASSUME r = 0 PROVE k = L + 1
    OBVIOUS
  <2>1. T - 1 = B * (k - 1) + (B - 1) /\ T - 1 \in Int /\ k - 1 \in Int /\ B - 1 \in 0 .. B - 1
    BY <1>0, <1>2
  <2>2. (T - 1) \div B = k - 1 BY <1>0, <2>1, ModIs
  <2>3. QED BY <1>1, <1>2, <2>2 DEF Last, B
<1>6. r # 0 => k = L /\ T > 0
  <2> SUFFICES ASSUME r # 0 PROVE k = L /\ T > 0
    OBVIOUS
  <2>1. T - 1 = B * k + (r - 1) /\ T - 1 \in Int /\ r - 1 \in 0 .. B - 1
    BY <1>0, <1>2
  <2>2. (T - 1) \div B = k BY <1>0, <1>2, <2>1, ModIs
  <2>3. T > 0
    <3>1. T = 0 => 0 % B = 0 BY <1>0, ModSmall
    <3>2. QED BY <3>1 DEF r
  <2>4. QED BY <2>2, <2>3 DEF Last, B
<1>7. ASSUME NEW i \in Nat, i < T PROVE Number(i) <= L
  <2> DEFINE j == Number(i)
             u == i % B
  <2>1. j \in Nat /\ i = B * j + u /\ u \in 0 .. B - 1 BY Wrapped DEF B
  <2> HIDE DEF j, u, L
  <2> SUFFICES ASSUME j >= L + 1 PROVE FALSE
    BY <1>1, <2>1 DEF j
  <2>2. B * j >= B * L + B BY <1>0, <1>1, <2>1
  <2>3. QED BY <1>0, <1>1, <1>7, <2>1, <2>2
<1>8. r = 0 => T = (L + 1) * B BY <1>0, <1>1, <1>2, <1>5
<1>9. QED BY <1>1, <1>3, <1>4, <1>5, <1>6, <1>7, <1>8 DEF B, r

(* The keys are the bases of the indices, and none of them is invalid. *)
LEMMA KeyFacts ==
    /\ \A i \in Nat : Base(i % Period) = (Number(i) * BLOCK_SIZE) % Period
    /\ \A n \in Nat : (n * BLOCK_SIZE) % Period \in Indices
                      /\ (n * BLOCK_SIZE) % Period # INVALID_BLOCK_BASE
<1> DEFINE B == BLOCK_SIZE
           P == Period
<1>0. B \in Nat \ {0} /\ B > 1 /\ P \in Nat \ {0} BY Sizes
<1>1. ASSUME NEW i \in Nat PROVE Base(i % P) = (Number(i) * B) % P
  <2> DEFINE k == Number(i)
             r == i % B
             q == i \div P
             x == i % P
             y == x \div B
  <2>1. k \in Nat /\ r \in 0 .. B - 1 /\ i = B * k + r /\ x % B = r BY Wrapped
  <2>2. q \in Int /\ x \in 0 .. P - 1 /\ i = P * q + x
    <3>1. i \in Int OBVIOUS
    <3>2. QED BY <1>0, <3>1, DivMod
  <2>3. y \in Int /\ x = B * y + r
    <3>1. x \in Int BY <2>2
    <3> HIDE DEF x
    <3>2. QED BY <1>0, <2>1, <3>1, DivMod
  <2>4. Base(x) = x - r BY <2>1 DEF Base
  <2> HIDE DEF k, r, q, x, y, B, P
  <2>5. y >= 0
    <3>1. B * y > -B BY <1>0, <2>1, <2>2, <2>3
    <3>2. QED BY <1>0, <2>3, <3>1
  <2>6. x - r \in 0 .. P - 1
    <3>1. B * y >= 0 /\ B * y \in Int BY <1>0, <2>3, <2>5
    <3>2. x \in Int /\ r \in Int /\ r >= 0 /\ x <= P - 1 BY <1>0, <2>1, <2>2
    <3>3. x - r = B * y BY <2>3, <3>1, <3>2
    <3>4. QED BY <1>0, <3>1, <3>2, <3>3
  <2>7. k * B = P * q + (x - r) /\ k * B \in Int BY <1>0, <2>1, <2>2
  <2>8. (k * B) % P = x - r BY <1>0, <2>2, <2>6, <2>7, ModIs
  <2>9. QED BY <2>4, <2>8 DEF k, x
<1>2. ASSUME NEW n \in Nat PROVE (n * B) % P \in Indices /\ (n * B) % P # 1
  <2>1. n * B \in Nat BY <1>0
  <2>2. (n * B) % P \in Indices /\ ((n * B) % P) % B = (n * B) % B BY <2>1, Wrapped
  <2>3. (n * B) % B = 0
    <3>1. n * B = B * n + 0 /\ 0 \in 0 .. B - 1 /\ n \in Int /\ n * B \in Int BY <1>0
    <3>2. QED BY <1>0, <3>1, ModIs
  <2>4. 1 % B = 1 BY <1>0, ModSmall
  <2>5. QED BY <2>2, <2>3, <2>4
<1>3. QED BY <1>1, <1>2 DEF INVALID_BLOCK_BASE

LEMMA MemberFacts ==
    ASSUME NEW k \in Int
    PROVE  /\ IsFiniteSet(Members(k)) /\ Cardinality(Members(k)) = BLOCK_SIZE
           /\ \A i \in Members(k) : i \in Int /\ Number(i) = k
<1>1. BLOCK_SIZE \in Nat \ {0} BY Sizes
<1> DEFINE x == k * BLOCK_SIZE
<1>2. x \in Int /\ x + BLOCK_SIZE - 1 \in Int /\ (k + 1) * BLOCK_SIZE = x + BLOCK_SIZE BY <1>1
<1>3. Members(k) = x .. x + BLOCK_SIZE - 1 BY DEF Members
<1>4. IsFiniteSet(Members(k)) /\ Cardinality(Members(k)) = BLOCK_SIZE
  <2> HIDE DEF x
  <2>1. /\ IsFiniteSet(x .. (x + BLOCK_SIZE - 1))
        /\ Cardinality(x .. (x + BLOCK_SIZE - 1)) =
               IF x > x + BLOCK_SIZE - 1 THEN 0 ELSE (x + BLOCK_SIZE - 1) - x + 1
    BY <1>2, FS_Interval
  <2>2. QED BY <1>1, <1>2, <1>3, <2>1
<1>5. ASSUME NEW i \in Members(k) PROVE i \in Int /\ Number(i) = k
  <2>1. i \in Int /\ x <= i /\ i < x + BLOCK_SIZE BY <1>1, <1>2, <1>3
  <2>2. k * BLOCK_SIZE <= i /\ i < (k + 1) * BLOCK_SIZE BY <1>2, <2>1
  <2>3. QED BY <2>1, <2>2, NumberIs
<1>6. QED BY <1>4, <1>5

LEMMA MemberOf ==
    ASSUME NEW i \in Nat PROVE i \in Members(Number(i)) /\ Number(i) \in Nat
<1> DEFINE k == Number(i)
           r == i % BLOCK_SIZE
<1>1. k \in Nat /\ i = BLOCK_SIZE * k + r /\ r \in 0 .. BLOCK_SIZE - 1 BY Wrapped
<1>2. BLOCK_SIZE \in Nat BY Sizes
<1> HIDE DEF k, r
<1>3. BLOCK_SIZE * k = k * BLOCK_SIZE /\ k * BLOCK_SIZE \in Nat BY <1>1, <1>2
<1>4. i \in (k * BLOCK_SIZE) .. (k * BLOCK_SIZE + BLOCK_SIZE - 1) BY <1>1, <1>2, <1>3
<1>5. QED BY <1>1, <1>4 DEF k, Members

(* How many elements of a block have been read. *)
LEMMA ReadFacts ==
    ASSUME NEW H, NEW idx, NEW k \in Int
    PROVE  /\ IsFiniteSet(ReadIn(H, idx, k)) /\ Cardinality(ReadIn(H, idx, k)) \in 0 .. BLOCK_SIZE
           /\ \A i \in Members(k) : i \notin ReadIn(H, idx, k) =>
                  Cardinality(ReadIn(H, idx, k)) < BLOCK_SIZE
           /\ ReadIn(H, idx, k) \subseteq Members(k)
<1> DEFINE R == ReadIn(H, idx, k)
           M == Members(k)
<1>1. R \subseteq M BY DEF ReadIn
<1>2. IsFiniteSet(M) /\ Cardinality(M) = BLOCK_SIZE BY MemberFacts
<1> HIDE DEF R, M
<1>3. /\ IsFiniteSet(R) /\ Cardinality(R) <= Cardinality(M)
      /\ Cardinality(M) = Cardinality(R) => M = R
  BY <1>1, <1>2, FS_Subset
<1>4. Cardinality(R) \in Nat /\ BLOCK_SIZE \in Nat BY <1>3, FS_CardinalityType, Sizes
<1>5. ASSUME NEW i \in M, i \notin R PROVE Cardinality(R) < BLOCK_SIZE
  <2>1. M # R BY <1>5
  <2>2. QED BY <1>2, <1>3, <1>4, <2>1
<1>6. QED BY <1>1, <1>2, <1>3, <1>4, <1>5 DEF R, M

(* Where numbers are in a ring. *)
LEMMA SlotFacts ==
    ASSUME Typed, NEW a \in [1 .. MaxIndexes -> Int], NEW g \in 1 .. Current, NEW k \in Int
    PROVE  /\ Slot(a, g, k) \in Slots(g) /\ Slot(a, g, k) \in Nat /\ EntryAt(a, g, k) \in Entries
           /\ a[g] \in Int /\ (Slot(a, g, k) + a[g]) % Capacity(g) = k % Capacity(g)
<1>1. g \in 1 .. MaxIndexes /\ Capacity(g) \in Nat \ {0} BY RingFacts
<1>2. a[g] \in Int /\ k - a[g] \in Int BY <1>1
<1>3. Slot(a, g, k) \in Slots(g) BY <1>2, RingFacts DEF Slot
<1>4. Slot(a, g, k) \in Nat /\ EntryAt(a, g, k) \in Entries BY <1>3, RingFacts DEF EntryAt
<1>5. (((k - a[g]) % Capacity(g)) + a[g]) % Capacity(g) = ((k - a[g]) + a[g]) % Capacity(g)
  BY <1>1, <1>2, ModPlus
<1>6. (k - a[g]) + a[g] = k BY <1>2
<1>7. QED BY <1>2, <1>3, <1>4, <1>5, <1>6 DEF Slot

(* No two numbers that are close have the same place, ... *)
LEMMA PlaceNear ==
    ASSUME Typed, NEW a, RingsInv(a), NEW k \in Int, NEW j \in Int, Place(a, k) = Place(a, j),
           k - j < Capacity(Current), j - k < Capacity(Current)
    PROVE  k = j
<1>1. Current \in 1 .. Current /\ a \in [1 .. MaxIndexes -> Int] BY TypedFacts DEF RingsInv
<1>2. /\ Slot(a, Current, k) \in Slots(Current) /\ Slot(a, Current, j) \in Slots(Current)
      /\ (Slot(a, Current, k) + a[Current]) % Capacity(Current) = k % Capacity(Current)
      /\ (Slot(a, Current, j) + a[Current]) % Capacity(Current) = j % Capacity(Current)
  BY <1>1, SlotFacts
<1>3. Slot(a, Current, k) = Slot(a, Current, j) BY <1>2 DEF Place, EntryAt, RingsInv
<1>4. Capacity(Current) \in Nat \ {0} BY <1>1, RingFacts
<1>5. k % Capacity(Current) = j % Capacity(Current) BY <1>2, <1>3
<1>6. QED BY <1>4, <1>5, ModNear

(* ... and an entry that an older ring has is in the slot for its number   *)
(* there too.                                                              *)
LEMMA SlotFound ==
    ASSUME Typed, NEW a, RingsInv(a), NEW g \in 1 .. Current, NEW s \in Slots(g), NEW n \in Int,
           Place(a, n) = blockIndex[g].entry[s]
    PROVE  Slot(a, g, n) = s
<1> DEFINE C == Capacity(Current)
           D == Capacity(g)
           x == a[Current]
           y == a[g]
<1>1. Current \in 1 .. Current /\ a \in [1 .. MaxIndexes -> Int] BY TypedFacts DEF RingsInv
<1>2. C \in Nat \ {0} /\ D \in Nat \ {0} /\ s \in Nat BY <1>1, RingFacts
<1>3. x \in Int /\ y \in Int BY <1>1, SlotFacts
<1>4. PICK t \in Slots(Current) : /\ blockIndex[Current].entry[t] = blockIndex[g].entry[s]
                                  /\ (t + x) % D = (s + y) % D
  BY DEF RingsInv
<1>5. Slot(a, Current, n) \in Slots(Current) /\ (Slot(a, Current, n) + x) % C = n % C
  BY <1>1, SlotFacts
<1>6. t = Slot(a, Current, n) BY <1>4, <1>5 DEF Place, EntryAt, RingsInv
<1>7. C % D = 0 BY <1>1, RingFacts, CapacityDivides
<1> HIDE DEF C, D, x, y
<1>8. t \in Int /\ t + x \in Int
  <2>1. t \in Nat BY <1>1, RingFacts
  <2>2. QED BY <1>3, <2>1
<1>9. (t + x) % D = n % D
  <2>1. ((t + x) % C) % D = (t + x) % D BY <1>2, <1>7, <1>8, ModOfMod
  <2>2. (n % C) % D = n % D BY <1>2, <1>7, ModOfMod
  <2>3. QED BY <1>5, <1>6, <2>1, <2>2
<1>10. n \in Int /\ s + y \in Int /\ -y \in Int /\ (s + y) + (-y) = s /\ n + (-y) = n - y
  <2>1. s \in Int BY <1>2
  <2>2. QED BY <1>3, <2>1
<1>11. (n + (-y)) % D = ((s + y) + (-y)) % D
  <2> DEFINE w == s + y
             z == -y
  <2>1. n \in Int /\ w \in Int /\ z \in Int /\ n % D = w % D BY <1>4, <1>9, <1>10
  <2> HIDE DEF w, z
  <2>2. (n + z) % D = (w + z) % D BY <1>2, <2>1, ModAdd
  <2>3. QED BY <2>2 DEF w, z
<1>12. (n - y) % D = s % D BY <1>10, <1>11
<1>13. s % D = s
  <2>1. s \in 0 .. D - 1 BY DEF Slots, D
  <2>2. QED BY <1>2, <2>1, ModSmall
<1>14. QED BY <1>12, <1>13 DEF Slot, D, y

(* What is known of an entry with a number, and of one with a block. *)
LEMMA ListFacts ==
    ASSUME Typed, NEW T, NEW num, NEW a, KeysInv(num), NumbersInv(T, num, a)
    PROVE  /\ num \in [Entries -> Int]
           /\ \A e \in Entries : value[e] # Null => num[e] # -1 /\ value[e] \in Blocks
           /\ \A e \in Entries : num[e] # -1 =>
                  num[e] \in Nat /\ key[e] = (num[e] * BLOCK_SIZE) % Period /\ Place(a, num[e]) = e
           /\ \A e, f \in Entries : num[e] = num[f] /\ num[e] # -1 => e = f
           /\ \A e \in Entries, k \in Nat : Listed(num, k, e) => Place(a, k) = e
<1>1. \A e \in Entries : value[e] # Null => num[e] # -1 BY DEF KeysInv
<1>2. \A e \in Entries : value[e] # Null => value[e] \in Blocks BY DEF Typed, Ids
<1>3. \A e \in Entries : num[e] # -1 =>
          num[e] \in Nat /\ key[e] = (num[e] * BLOCK_SIZE) % Period
  BY DEF KeysInv
<1>4. \A e \in Entries : num[e] # -1 => Place(a, num[e]) = e BY DEF NumbersInv
<1>5. QED BY <1>1, <1>2, <1>3, <1>4 DEF Listed, KeysInv

-----------------------------------------------------------------------------
(* What does not change *)

LEMMA SameKeys ==
    ASSUME NEW num, KeysInv(num), key' = key, value' = value
    PROVE  KeysInv(num)'
BY DEF KeysInv

LEMMA SameRings ==
    ASSUME NEW a, RingsInv(a), blockIndex' = blockIndex
    PROVE  RingsInv(a)'
<1>1. Current' = Current BY DEF Current
<1>2. QED BY <1>1 DEF RingsInv, Slots, Capacity

LEMMA SameNumbers ==
    ASSUME NEW T, NEW num, NEW a, NumbersInv(T, num, a), blockIndex' = blockIndex,
           (TailNumber(T))' = TailNumber(T)
    PROVE  NumbersInv(T, num, a)'
<1>1. Current' = Current BY DEF Current
<1>2. QED BY <1>1 DEF NumbersInv, Place, EntryAt, Slot

LEMMA SameProducer ==
    ASSUME NEW T, NEW num, NEW a, ProducerInv(T, num, a),
           UNCHANGED <<blockIndex, value, tailBlock, producer, elementsCompletelyDequeued>>
    PROVE  ProducerInv(T, num, a)'
<1>1. Current' = Current BY DEF Current
<1>2. (Place(a, Last(T) + 1))' = Place(a, Last(T) + 1) BY <1>1 DEF Place, EntryAt, Slot
<1>3. QED BY <1>2 DEF ProducerInv

LEMMA SameStored ==
    ASSUME NEW num, NEW i, Stored(num, i), value' = value, elements' = elements
    PROVE  Stored(num, i)'
BY DEF Stored, Listed

(* A step of a consumer that only moves it, or lets it claim an element. *)
LEMMA TurnKeeps ==
    ASSUME Typed, NEW T, NEW H \in Nat, NEW num, NEW a, NEW idx, BlocksInv(T, H, num, a, idx),
           NEW c \in Consumers, NEW r, Turns(c, r), UNCHANGED <<index, blocks, producer>>,
           consumer[c].pc \notin {"unlist", "free"}, r.pc \notin {"unlist", "free"},
           NEW G \in Nat, H <= G, NEW J \in [Consumers -> Nat],
           \A d \in Consumers : d # c => J[d] = idx[d],
           \A k \in Int : (ReadIn(G, J, k))' = ReadIn(H, idx, k),
           HolderInv(G, num, a, J, c)',
           r.pc \in Holding => \A d \in Consumers : d # c /\ Holds(d) => J[c] # idx[d]
    PROVE  BlocksInv(T, G, num, a, J)'
<1>0. /\ blockIndex' = blockIndex /\ key' = key /\ value' = value /\ tailBlock' = tailBlock
      /\ elements' = elements /\ elementsCompletelyDequeued' = elementsCompletelyDequeued
      /\ freeBlocks' = freeBlocks /\ producer' = producer
  BY DEF index, blocks
<1>1. /\ KeysInv(num) /\ RingsInv(a) /\ NumbersInv(T, num, a) /\ ProducerInv(T, num, a)
      /\ ListedInv(T, H, num, idx) /\ ElementsInv(T, H, num)
      /\ \A d \in Consumers : HolderInv(H, num, a, idx, d)
      /\ RivalsInv(idx) /\ OwnersInv /\ idx \in [Consumers -> Nat]
  BY DEF BlocksInv
<1>2. (TailNumber(T))' = TailNumber(T) BY <1>0 DEF TailNumber
<1>3. KeysInv(num)' /\ RingsInv(a)' /\ NumbersInv(T, num, a)' /\ ProducerInv(T, num, a)'
  BY <1>0, <1>1, <1>2, SameKeys, SameRings, SameNumbers, SameProducer
<1>4. ListedInv(T, G, num, J)'
  <2>1. num \in [Entries -> Int] BY <1>1 DEF KeysInv
  <2>2. QED BY <1>0, <1>1, <2>1 DEF ListedInv
<1>5. ElementsInv(T, G, num)'
  <2> SUFFICES ASSUME NEW i \in Nat, G <= i, i < T PROVE Stored(num, i)'
    BY DEF ElementsInv
  <2>1. H <= i OBVIOUS
  <2>2. Stored(num, i) BY <1>1, <2>1 DEF ElementsInv
  <2>3. QED BY <1>0, <2>2, SameStored
<1>6. \A d \in Consumers : d # c => consumer'[d] = consumer[d] BY DEF Turns
<1>7. consumer'[c] = r BY Zenon DEF Turns
<1>8. ASSUME NEW d \in Consumers, d # c PROVE HolderInv(G, num, a, J, d)'
  <2>1. consumer'[d] = consumer[d] /\ J[d] = idx[d] BY <1>6, <1>8
  <2>2. HolderInv(H, num, a, idx, d) BY <1>1
  <2>3. Stored(num, idx[d]) => Stored(num, idx[d])' BY <1>0, SameStored
  <2>4. Holds(d)' <=> Holds(d) BY <2>1 DEF Holds
  <2>5. Holds(d) => idx[d] \in Nat /\ idx[d] < G
    BY <2>2 DEF HolderInv
  <2>6. /\ Holds(d) => consumer[d].index = idx[d] % Period /\ Stored(num, idx[d])
        /\ consumer[d].pc \in {"tail", "entry"} =>
               Listed(num, Number(idx[d]), EntryAt(a, consumer[d].header, Number(idx[d])))
        /\ consumer[d].pc = "entry" =>
               num[blockIndex[consumer[d].header].entry[consumer[d].tail]] # -1
        /\ consumer[d].pc = "read" =>
               /\ Listed(num, Number(idx[d]), consumer[d].entry)
               /\ value[consumer[d].entry] = consumer[d].block
        /\ consumer[d].pc = "unlist" =>
               /\ consumer[d].block # Null /\ value[consumer[d].entry] = consumer[d].block
               /\ elementsCompletelyDequeued[consumer[d].block] = BLOCK_SIZE
        /\ consumer[d].pc = "free" =>
               /\ consumer[d].block \in Blocks \ freeBlocks
               /\ \A e \in Entries : value[e] # consumer[d].block
    BY <2>2 DEF HolderInv
  <2>7. QED BY <1>0, <2>1, <2>3, <2>4, <2>5, <2>6, ZenonT(60)
     DEF HolderInv, Listed, EntryAt, Slot
<1>9. RivalsInv(J)'
  <2> SUFFICES ASSUME NEW d \in Consumers, NEW f \in Consumers, d # f
               PROVE  /\ Holds(d)' /\ Holds(f)' => J[d] # J[f]
                      /\ consumer'[d].pc = "unlist" /\ consumer'[f].pc = "unlist" =>
                             consumer'[d].entry # consumer'[f].entry
                      /\ consumer'[d].pc = "free" /\ consumer'[f].pc = "free" =>
                             consumer'[d].block # consumer'[f].block
    BY DEF RivalsInv
  <2>1. Holds(c)' => r.pc \in Holding BY <1>7 DEF Holds
  <2>2. \A x \in Consumers : x # c => (Holds(x)' <=> Holds(x)) BY <1>6 DEF Holds
  <2>3. Holds(d)' /\ Holds(f)' => J[d] # J[f]
    <3>1. CASE d = c BY <2>1, <2>2, <3>1
    <3>2. CASE f = c BY <2>1, <2>2, <3>2
    <3>3. CASE d # c /\ f # c BY <1>1, <2>2, <3>3 DEF RivalsInv
    <3>4. QED BY <3>1, <3>2, <3>3
  <2>4. QED BY <1>1, <1>6, <1>7, <2>3 DEF RivalsInv
<1>10. OwnersInv'
  <2>1. \A d \in Consumers : /\ consumer'[d].pc = "free" => consumer'[d] = consumer[d]
                             /\ consumer[d].pc \in {"free", "unlist"} => consumer'[d] = consumer[d]
    BY <1>6, <1>7
  <2>2. QED BY <1>0, <1>1, <2>1 DEF OwnersInv, ProducerOwns
<1>11. \A d \in Consumers : HolderInv(G, num, a, J, d)' BY <1>8
<1>12. QED BY <1>3, <1>4, <1>5, <1>9, <1>10, <1>11 DEF BlocksInv

-----------------------------------------------------------------------------
(* The blocks: a consumer up to the read *)

LEMMA SameReads ==
    ASSUME NEW c \in Consumers, NEW r, Turns(c, r), Holds(c) <=> r.pc \in Holding,
           NEW H, NEW idx, NEW k
    PROVE  (ReadIn(H, idx, k))' = ReadIn(H, idx, k)
<1>1. \A d \in Consumers : Holds(d)' <=> Holds(d) BY DEF Turns, Holds
<1>2. QED BY <1>1 DEF ReadIn

(* A consumer that is not at an element. *)
LEMMA EarlyKeeps ==
    ASSUME Typed, NEW T, NEW H \in Nat, NEW num, NEW a, NEW idx, BlocksInv(T, H, num, a, idx),
           NEW c \in Consumers, NEW r, Turns(c, r), UNCHANGED <<index, blocks, producer>>,
           consumer[c].pc \in Early, r.pc \in Early
    PROVE  BlocksInv(T, H, num, a, idx)'
<1>1. idx \in [Consumers -> Nat] /\ H <= H BY DEF BlocksInv
<1>2. ~Holds(c) /\ r.pc \notin Holding BY DEF Holds, Holding, Early
<1>3. \A k \in Int : (ReadIn(H, idx, k))' = ReadIn(H, idx, k) BY <1>2, SameReads
<1>4. HolderInv(H, num, a, idx, c)'
  <2>1. consumer'[c].pc \in Early BY DEF Turns
  <2>2. QED BY <2>1 DEF HolderInv, Holds, Holding, Early
<1>5. consumer[c].pc \notin {"unlist", "free"} /\ r.pc \notin {"unlist", "free"} BY DEF Early
<1>6. QED BY <1>1, <1>2, <1>3, <1>4, <1>5, TurnKeeps

(* A claim: there is an element at the head, and it is stored. *)
LEMMA ClaimBlocks ==
    ASSUME Typed, NEW T \in Nat, NEW H \in Nat, H < T, headIndex = H % Period,
           NEW num, NEW a, NEW idx, BlocksInv(T, H, num, a, idx),
           NEW c \in Consumers, DequeueClaims(c)
    PROVE  \E J : BlocksInv(T, H + 1, num, a, J)'
<1>0. /\ UNCHANGED <<index, blocks, producer>> /\ consumer[c].pc = "claim"
      /\ value' = value /\ elements' = elements
  BY DEF DequeueClaims, In, index, blocks
<1>1. headIndex \in Indices BY Wrapped
<1>2. PICK r \in Locals : Turns(c, r) /\ r.pc = "header" /\ r.index = headIndex
  BY <1>1, DeliveringSteps
<1>3. idx \in [Consumers -> Nat] /\ H + 1 \in Nat /\ H <= H + 1 BY DEF BlocksInv
<1>4. PICK J \in [Consumers -> Nat] : J[c] = H /\ \A d \in Consumers : d # c => J[d] = idx[d]
  <2>1. /\ [idx EXCEPT ![c] = H] \in [Consumers -> Nat] /\ [idx EXCEPT ![c] = H][c] = H
        /\ \A d \in Consumers : d # c => [idx EXCEPT ![c] = H][d] = idx[d]
    BY <1>3
  <2>2. QED BY <2>1
<1>5. \A d \in Consumers : Holds(d) => idx[d] < H
  BY DEF BlocksInv, HolderInv
<1>6. Holds(c)' /\ ~Holds(c) /\ \A d \in Consumers : d # c => (Holds(d)' <=> Holds(d))
  BY <1>0, <1>2 DEF Turns, Holds, Holding
<1>7. ASSUME NEW k \in Int PROVE (ReadIn(H + 1, J, k))' = ReadIn(H, idx, k)
  <2>1. ASSUME NEW i \in Members(k)
        PROVE  i < H + 1 /\ (\A d \in Consumers : Holds(d)' => J[d] # i)
                   <=> i < H /\ (\A d \in Consumers : Holds(d) => idx[d] # i)
    <3>1. i \in Int BY MemberFacts
    <3>2. CASE i < H BY <1>4, <1>6, <3>1, <3>2
    <3>3. CASE i = H BY <1>4, <1>6, <3>3
    <3>4. CASE i > H BY <3>1, <3>4
    <3>5. QED BY <3>1, <3>2, <3>3, <3>4
  <2>2. QED BY <2>1 DEF ReadIn
<1>8. HolderInv(H + 1, num, a, J, c)'
  <2>1. consumer'[c] = r BY <1>2 DEF Turns
  <2>2. Stored(num, H) BY DEF BlocksInv, ElementsInv
  <2>3. Stored(num, H)' BY <1>0, <2>2, SameStored
  <2>4. J[c] \in Nat /\ J[c] < H + 1 /\ r.index = J[c] % Period BY <1>2, <1>4
  <2>5. QED BY <1>2, <1>4, <2>1, <2>3, <2>4 DEF HolderInv, Holds, Holding
<1>9. \A d \in Consumers : d # c /\ Holds(d) => J[c] # idx[d] BY <1>3, <1>4, <1>5
<1>10. BlocksInv(T, H + 1, num, a, J)'
  <2>1. \A k \in Int : (ReadIn(H + 1, J, k))' = ReadIn(H, idx, k) BY <1>7
  <2>2. consumer[c].pc \notin {"unlist", "free"} /\ r.pc \notin {"unlist", "free"}
    BY <1>0, <1>2
  <2>3. \A d \in Consumers : d # c => J[d] = idx[d] BY <1>4
  <2>4. r.pc \in Holding => \A d \in Consumers : d # c /\ Holds(d) => J[c] # idx[d] BY <1>9
  <2> HIDE <1>4, <1>7, <1>9
  <2>5. QED BY <1>0, <1>2, <1>3, <1>8, <2>1, <2>2, <2>3, <2>4, TurnKeeps
<1>11. QED BY <1>10

(* The lookup: what c holds stays what it is, only what it has loaded      *)
(* changes.                                                                *)
LEMMA LookupKeeps ==
    ASSUME Typed, NEW T, NEW H \in Nat, NEW num, NEW a, NEW idx, BlocksInv(T, H, num, a, idx),
           NEW c \in Consumers, NEW r, Turns(c, r), UNCHANGED <<index, blocks, producer>>,
           consumer[c].pc \in Holding, r.pc \in Holding, r.index = consumer[c].index,
           r.pc \in {"tail", "entry"} =>
               Listed(num, Number(idx[c]), EntryAt(a, r.header, Number(idx[c]))),
           r.pc = "entry" => num[blockIndex[r.header].entry[r.tail]] # -1,
           r.pc = "read" => Listed(num, Number(idx[c]), r.entry) /\ value[r.entry] = r.block
    PROVE  BlocksInv(T, H, num, a, idx)'
<1>1. idx \in [Consumers -> Nat] /\ H <= H BY DEF BlocksInv
<1>2. Holds(c) BY DEF Holds
<1>3. \A k \in Int : (ReadIn(H, idx, k))' = ReadIn(H, idx, k) BY <1>2, SameReads, SMTT(30)
<1>4. HolderInv(H, num, a, idx, c)'
  <2>1. consumer'[c] = r BY DEF Turns
  <2>2. value' = value /\ elements' = elements /\ blockIndex' = blockIndex
    BY DEF index, blocks
  <2>3. idx[c] \in Nat /\ idx[c] < H /\ r.index = idx[c] % Period /\ Stored(num, idx[c])
    BY <1>2 DEF BlocksInv, HolderInv
  <2>4. Stored(num, idx[c])' BY <2>2, <2>3, SameStored
  <2>5. r.pc \notin {"unlist", "free"} BY DEF Holding
  <2>6. QED BY <2>1, <2>2, <2>3, <2>4, <2>5 DEF HolderInv, Listed, EntryAt, Slot
<1>5. consumer[c].pc \notin {"unlist", "free"} /\ r.pc \notin {"unlist", "free"} BY DEF Holding
<1>6. \A d \in Consumers : d # c /\ Holds(d) => idx[c] # idx[d]
  BY <1>2 DEF BlocksInv, RivalsInv
<1>7. QED BY <1>1, <1>2, <1>3, <1>4, <1>5, <1>6, TurnKeeps

LEMMA HeaderBlocks ==
    ASSUME Typed, NEW T, NEW H \in Nat, NEW num, NEW a, NEW idx, BlocksInv(T, H, num, a, idx),
           headIndex \in Indices, NEW c \in Consumers, LookupHeader(c)
    PROVE  BlocksInv(T, H, num, a, idx)'
<1>0. UNCHANGED <<index, blocks, producer>> /\ consumer[c].pc = "header"
  BY DEF LookupHeader, In
<1>1. PICK r \in Locals : /\ Turns(c, r) /\ r.pc = "tail"
                          /\ r.index = consumer[c].index /\ r.header = Current
  BY DeliveringSteps
<1>2. Holds(c) /\ KeysInv(num) /\ NumbersInv(T, num, a)
  BY <1>0 DEF BlocksInv, Holds, Holding
<1>3. idx[c] \in Nat /\ Stored(num, idx[c]) BY <1>2 DEF BlocksInv, HolderInv
<1>4. PICK e \in Entries : Listed(num, Number(idx[c]), e) BY <1>3 DEF Stored
<1>5. Number(idx[c]) \in Nat BY <1>3, MemberOf
<1>6. Place(a, Number(idx[c])) = e BY <1>2, <1>4, <1>5, ListFacts
<1>7. Listed(num, Number(idx[c]), EntryAt(a, r.header, Number(idx[c])))
  BY <1>1, <1>4, <1>6 DEF Place
<1>8. consumer[c].pc \in Holding /\ r.pc \in Holding BY <1>0, <1>1 DEF Holding
<1>9. r.pc # "entry" /\ r.pc # "read" BY <1>1
<1>10. QED BY <1>0, <1>1, <1>7, <1>8, <1>9, LookupKeeps

LEMMA TailBlocks ==
    ASSUME Typed, NEW T \in Nat, NEW H \in Nat, H <= T,
           NEW num, NEW a, NEW idx, BlocksInv(T, H, num, a, idx),
           headIndex \in Indices, NEW c \in Consumers, LookupTail(c)
    PROVE  BlocksInv(T, H, num, a, idx)'
<1>0. UNCHANGED <<index, blocks, producer>> /\ consumer[c].pc = "tail"
  BY DEF LookupTail, In
<1>1. PICK r \in Locals : /\ Turns(c, r) /\ r.pc = "entry"
                          /\ r.index = consumer[c].index /\ r.header = consumer[c].header
                          /\ r.tail = blockIndex[consumer[c].header].tail
  BY DeliveringSteps
<1>2. Holds(c) BY <1>0 DEF Holds, Holding
<1>3. /\ idx[c] \in Nat /\ idx[c] < H
      /\ Listed(num, Number(idx[c]), EntryAt(a, consumer[c].header, Number(idx[c])))
  BY <1>0, <1>2 DEF BlocksInv, HolderInv
<1> DEFINE h == consumer[c].header
<1>4. h \in 1 .. Current BY <1>0 DEF Typed, LookupTyped
<1>5. num[blockIndex[h].entry[blockIndex[h].tail]] # -1
  <2>1. NumbersInv(T, num, a) /\ ProducerInv(T, num, a) BY DEF BlocksInv
  <2>2. Current \in Nat BY TypedFacts
  <2>3. CASE h < Current BY <1>4, <2>1, <2>3 DEF NumbersInv
  <2>4. CASE h = Current
    <3>1. blockIndex[h].entry[blockIndex[h].tail] = Place(a, TailNumber(T))
      BY <2>1, <2>4 DEF NumbersInv, Place, EntryAt
    <3>2. CASE producer.pc \in Listing
      <4>1. TailNumber(T) = Last(T) + 1 BY <3>2 DEF TailNumber
      <4>2. producer.entry = Place(a, Last(T) + 1) /\ num[producer.entry] = Last(T) + 1
        BY <2>1, <3>2 DEF ProducerInv, Preparing
      <4>3. Last(T) + 1 \in Nat BY LastFacts
      <4>4. QED BY <3>1, <4>1, <4>2, <4>3
    <3>3. CASE producer.pc \notin Listing
      <4>1. Last(T) \in Int BY LastFacts
      <4>2. TailNumber(T) = Last(T) BY <3>3, <4>1 DEF TailNumber
      <4>3. T > 0 BY <1>3
      <4>4. QED BY <2>1, <3>1, <4>2, <4>3 DEF NumbersInv
    <3>4. QED BY <3>2, <3>3
  <2>5. QED BY <1>4, <2>2, <2>3, <2>4
<1>6. consumer[c].pc \in Holding /\ r.pc \in Holding BY <1>0, <1>1 DEF Holding
<1>7. r.pc # "read" BY <1>1
<1>8. QED BY <1>0, <1>1, <1>3, <1>5, <1>6, <1>7, LookupKeeps

(* The entry that is found is the one for the number of the block. *)
LEMMA EntryFound ==
    ASSUME Typed, NEW T, NEW H \in Nat, NEW num, NEW a, NEW idx, BlocksInv(T, H, num, a, idx),
           NEW c \in Consumers, consumer[c].pc = "entry"
    PROVE  EntryFor(c) = EntryAt(a, consumer[c].header, Number(idx[c]))
<1> DEFINE me == consumer[c]
           h == me.header
           f == blockIndex[h].entry[me.tail]
           n == num[f]
<1>1. h \in 1 .. Current /\ me.tail \in Slots(h) BY DEF Typed, LookupTyped
<1>2. idx[c] \in Nat /\ me.index = idx[c] % Period /\ n # -1
  BY DEF BlocksInv, HolderInv, Holds, Holding
<1>3. KeysInv(num) /\ RingsInv(a) /\ NumbersInv(T, num, a) BY DEF BlocksInv
<1>4. f \in Entries /\ h \in 1 .. MaxIndexes BY <1>1, RingFacts
<1>5. n \in Nat /\ key[f] = (n * BLOCK_SIZE) % Period /\ Place(a, n) = f
  BY <1>2, <1>3, <1>4, ListFacts, SMTT(30)
<1>6. Slot(a, h, n) = me.tail BY <1>1, <1>3, <1>5, SlotFound
<1>7. a[h] \in Int BY <1>3, <1>4 DEF RingsInv
<1> DEFINE off == Signed(Minus(Base(me.index), key[f])) \div BLOCK_SIZE
<1>8. (me.tail + off) % Capacity(h) = Slot(a, h, Number(idx[c]))
  <2> DEFINE x == a[h]
             i == idx[c]
             t == me.tail
  <2>1. (n - x) % Capacity(h) = t BY <1>6 DEF Slot
  <2>2. x \in Int /\ i \in Nat /\ n \in Nat
    <3>1. x \in Int BY <1>7, Zenon
    <3>2. i \in Nat BY <1>2, Zenon
    <3>3. n \in Nat BY <1>5, Zenon
    <3>4. QED BY <3>1, <3>2, <3>3
  <2>3. off = Signed(Minus(Base(i % Period), (n * BLOCK_SIZE) % Period)) \div BLOCK_SIZE
    BY <1>2, <1>5
  <2> HIDE DEF x, i, t, n, h, off
  <2>4. (t + (Signed(Minus(Base(i % Period), (n * BLOCK_SIZE) % Period)) \div BLOCK_SIZE))
            % Capacity(h) = (Number(i) - x) % Capacity(h)
    BY <1>4, <2>1, <2>2, LookupSlot
  <2>5. QED BY <2>3, <2>4 DEF Slot, x, i, t
<1>9. EntryFor(c) = blockIndex[h].entry[(me.tail + off) % Capacity(h)] BY DEF EntryFor
<1> HIDE DEF off
<1>10. QED BY <1>8, <1>9 DEF EntryAt

LEMMA EntryBlocks ==
    ASSUME Typed, NEW T, NEW H \in Nat, NEW num, NEW a, NEW idx, BlocksInv(T, H, num, a, idx),
           headIndex \in Indices, NEW c \in Consumers, LookupEntry(c)
    PROVE  BlocksInv(T, H, num, a, idx)'
<1>0. UNCHANGED <<index, blocks, producer>> /\ consumer[c].pc = "entry"
  BY DEF LookupEntry, In
<1>1. PICK r \in Locals : /\ Turns(c, r) /\ r.pc = "read" /\ r.index = consumer[c].index
                          /\ r.entry = EntryFor(c) /\ r.block = value[EntryFor(c)]
  BY DeliveringSteps
<1>2. EntryFor(c) = EntryAt(a, consumer[c].header, Number(idx[c])) BY <1>0, EntryFound
<1>3. Listed(num, Number(idx[c]), EntryAt(a, consumer[c].header, Number(idx[c])))
  BY <1>0 DEF BlocksInv, HolderInv
<1>4. Listed(num, Number(idx[c]), r.entry) /\ value[r.entry] = r.block BY <1>1, <1>2, <1>3
<1>5. consumer[c].pc \in Holding /\ r.pc \in Holding BY <1>0, <1>1 DEF Holding
<1>6. r.pc \notin {"tail", "entry"} BY <1>1
<1>7. QED BY <1>0, <1>1, <1>4, <1>5, <1>6, LookupKeeps

-----------------------------------------------------------------------------
(* The blocks: a consumer from the read on *)

(* What a consumer that does not move needs of a step: that the entry and  *)
(* the element it is after stay, and the block it gives back stays its own.*)
LEMMA HolderKeeps ==
    ASSUME Typed, NEW H, NEW num, NEW a, NEW idx, KeysInv(num), RingsInv(a),
           NEW d \in Consumers, HolderInv(H, num, a, idx, d), consumer'[d] = consumer[d],
           NEW N, NEW A,
           Holds(d) => Stored(N, idx[d])',
           Holds(d) => \A e \in Entries : Listed(num, Number(idx[d]), e) =>
                                              N[e] = num[e] /\ value'[e] = value[e],
           \A e \in Entries : num[e] # -1 => N[e] # -1,
           \A g \in 1 .. Current : blockIndex'[g].entry = blockIndex[g].entry /\ A[g] = a[g],
           consumer[d].pc = "unlist" =>
               /\ value'[consumer[d].entry] = value[consumer[d].entry]
               /\ elementsCompletelyDequeued'[consumer[d].block]
                      = elementsCompletelyDequeued[consumer[d].block],
           consumer[d].pc = "free" =>
               /\ consumer[d].block \notin freeBlocks'
               /\ \A e \in Entries : value'[e] # consumer[d].block
    PROVE  HolderInv(H, N, A, idx, d)'
<1> DEFINE me == consumer[d]
<1>0. me \in Locals BY DEF Typed
<1>1. Holds(d)' <=> Holds(d) BY DEF Holds
<1>2. Holds(d) => /\ idx[d] \in Nat /\ idx[d] < H /\ me.index = idx[d] % Period
                  /\ Stored(N, idx[d])'
  BY DEF HolderInv
<1>3. ASSUME me.pc \in {"tail", "entry"}
      PROVE  /\ (EntryAt(A, me.header, Number(idx[d])))' = EntryAt(a, me.header, Number(idx[d]))
             /\ (Listed(N, Number(idx[d]), EntryAt(A, me.header, Number(idx[d]))))'
  <2>1. me.header \in 1 .. Current BY <1>3 DEF Typed, LookupTyped
  <2>2. Holds(d) BY <1>3 DEF Holds, Holding
  <2>3. Number(idx[d]) \in Int /\ a \in [1 .. MaxIndexes -> Int]
    BY <1>2, <2>2, MemberOf DEF RingsInv
  <2>4. EntryAt(a, me.header, Number(idx[d])) \in Entries BY <2>1, <2>3, SlotFacts
  <2>5. (EntryAt(A, me.header, Number(idx[d])))' = EntryAt(a, me.header, Number(idx[d]))
    BY <2>1 DEF EntryAt, Slot
  <2>6. Listed(num, Number(idx[d]), EntryAt(a, me.header, Number(idx[d])))
    BY <1>3 DEF HolderInv
  <2>7. QED BY <2>2, <2>4, <2>5, <2>6 DEF Listed
<1>4. ASSUME me.pc = "entry"
      PROVE  N[blockIndex'[me.header].entry[me.tail]] # -1
  <2>1. me.header \in 1 .. Current /\ me.tail \in Slots(me.header)
    BY <1>4 DEF Typed, LookupTyped
  <2>2. blockIndex[me.header].entry[me.tail] \in Entries BY <2>1, RingFacts
  <2>3. num[blockIndex[me.header].entry[me.tail]] # -1 BY <1>4 DEF HolderInv
  <2>4. QED BY <2>1, <2>2, <2>3
<1>5. ASSUME me.pc = "read"
      PROVE  (Listed(N, Number(idx[d]), me.entry))' /\ value'[me.entry] = me.block
  <2>1. Holds(d) /\ me.entry \in Entries BY <1>0, <1>5 DEF Holds, Holding, Locals
  <2>2. Listed(num, Number(idx[d]), me.entry) /\ value[me.entry] = me.block
    BY <1>5 DEF HolderInv
  <2>3. QED BY <2>1, <2>2 DEF Listed
<1>6. me.pc = "unlist" =>
          /\ me.block # Null /\ value'[me.entry] = me.block
          /\ elementsCompletelyDequeued'[me.block] = BLOCK_SIZE
  BY DEF HolderInv
<1>7. me.pc = "free" =>
          me.block \in Blocks \ freeBlocks' /\ \A e \in Entries : value'[e] # me.block
  BY DEF HolderInv
<1>8. /\ me.pc \in {"tail", "entry"} =>
             (Listed(N, Number(idx[d]), EntryAt(A, me.header, Number(idx[d]))))'
      /\ me.pc = "entry" => N[blockIndex'[me.header].entry[me.tail]] # -1
      /\ me.pc = "read" => (Listed(N, Number(idx[d]), me.entry))' /\ value'[me.entry] = me.block
  BY <1>3, <1>4, <1>5
<1>9. consumer'[d] = consumer[d] OBVIOUS
<1>10. QED BY <1>1, <1>2, <1>6, <1>7, <1>8, <1>9 DEF HolderInv

(* The element that is read counts as read in its block. *)
LEMMA ReadCounts ==
    ASSUME NEW c \in Consumers, NEW r, Turns(c, r), r.pc \notin Holding, Holds(c),
           NEW H \in Nat, NEW idx \in [Consumers -> Nat], idx[c] < H, RivalsInv(idx)
    PROVE  /\ idx[c] \notin ReadIn(H, idx, Number(idx[c]))
           /\ Cardinality((ReadIn(H, idx, Number(idx[c])))')
                  = Cardinality(ReadIn(H, idx, Number(idx[c]))) + 1
           /\ \A k \in Int : k # Number(idx[c]) => (ReadIn(H, idx, k))' = ReadIn(H, idx, k)
<1> DEFINE i == idx[c]
<1>0. i \in Nat OBVIOUS
<1>1. i \in Members(Number(i)) /\ Number(i) \in Int BY <1>0, MemberOf
<1>2. ~Holds(c)' /\ \A d \in Consumers : d # c => (Holds(d)' <=> Holds(d))
  BY DEF Turns, Holds
<1>3. \A d \in Consumers : d # c /\ Holds(d) => idx[d] # i BY DEF RivalsInv
<1>4. i \notin ReadIn(H, idx, Number(i)) BY DEF ReadIn
<1>5. ASSUME NEW k
      PROVE  (ReadIn(H, idx, k))' = ReadIn(H, idx, k) \cup (IF i \in Members(k) THEN {i} ELSE {})
  <2>1. ASSUME NEW j \in Members(k)
        PROVE  j < H /\ (\A d \in Consumers : Holds(d)' => idx[d] # j)
                   <=> (j < H /\ (\A d \in Consumers : Holds(d) => idx[d] # j)) \/ j = i
    <3>1. CASE j = i BY <1>2, <1>3, <3>1
    <3>2. CASE j # i BY <1>2, <3>2
    <3>3. QED BY <3>1, <3>2
  <2>2. QED BY <2>1 DEF ReadIn
<1>6. Cardinality((ReadIn(H, idx, Number(i)))') = Cardinality(ReadIn(H, idx, Number(i))) + 1
  <2>1. (ReadIn(H, idx, Number(i)))' = ReadIn(H, idx, Number(i)) \cup {i} BY <1>1, <1>5
  <2>2. IsFiniteSet(ReadIn(H, idx, Number(i))) BY <1>1, ReadFacts
  <2>3. QED BY <1>4, <2>1, <2>2, FS_AddElement
<1>7. ASSUME NEW k \in Int, k # Number(i) PROVE (ReadIn(H, idx, k))' = ReadIn(H, idx, k)
  <2>1. i \notin Members(k) BY <1>7, MemberFacts
  <2>2. QED BY <1>5, <2>1
<1>8. QED BY <1>4, <1>6, <1>7

(* Different elements of a block are at different places in it. *)
LEMMA PlacesDiffer ==
    ASSUME NEW i \in Nat, NEW j \in Nat, i # j, Number(i) = Number(j)
    PROVE  i % BLOCK_SIZE # j % BLOCK_SIZE
<1> DEFINE k == Number(i)
           r == i % BLOCK_SIZE
           s == j % BLOCK_SIZE
<1>1. i = BLOCK_SIZE * k + r /\ k \in Nat BY Wrapped
<1>2. j = BLOCK_SIZE * k + s BY Wrapped
<1>3. BLOCK_SIZE \in Nat BY Sizes
<1> HIDE DEF k, r, s
<1>4. r # s BY <1>1, <1>2, <1>3
<1>5. QED BY <1>4 DEF r, s

(* Who reads an element has its block, and the block is not yet empty. *)
LEMMA ReaderFacts ==
    ASSUME Typed, NEW T, NEW H \in Nat, NEW num, NEW a, NEW idx, BlocksInv(T, H, num, a, idx),
           NEW c \in Consumers, consumer[c].pc = "read"
    PROVE  /\ Holds(c) /\ idx[c] \in Nat /\ idx[c] < H
           /\ consumer[c].index % BLOCK_SIZE = idx[c] % BLOCK_SIZE
           /\ consumer[c].index = idx[c] % Period
           /\ idx[c] % BLOCK_SIZE \in 0 .. BLOCK_SIZE - 1
           /\ consumer[c].entry \in Entries /\ num[consumer[c].entry] = Number(idx[c])
           /\ num[consumer[c].entry] \in Nat
           /\ value[consumer[c].entry] = consumer[c].block /\ consumer[c].block \in Blocks
           /\ elementsCompletelyDequeued[consumer[c].block]
                  = Cardinality(ReadIn(H, idx, Number(idx[c])))
           /\ elementsCompletelyDequeued[consumer[c].block] \in 0 .. BLOCK_SIZE - 1
<1>1. Holds(c) BY DEF Holds, Holding
<1>2. /\ idx[c] \in Nat /\ idx[c] < H /\ consumer[c].index = idx[c] % Period
      /\ Listed(num, Number(idx[c]), consumer[c].entry)
      /\ value[consumer[c].entry] = consumer[c].block
  BY <1>1 DEF BlocksInv, HolderInv
<1>3. consumer[c].entry \in Entries BY DEF Typed, Locals
<1>4. KeysInv(num) /\ NumbersInv(T, num, a) BY DEF BlocksInv
<1>5. num[consumer[c].entry] = Number(idx[c]) /\ value[consumer[c].entry] # Null
  BY <1>2 DEF Listed
<1>6. num[consumer[c].entry] \in Nat /\ consumer[c].block \in Blocks
  BY <1>2, <1>3, <1>4, <1>5, ListFacts
<1>7. elementsCompletelyDequeued[consumer[c].block]
          = Cardinality(ReadIn(H, idx, Number(idx[c])))
  BY <1>2, <1>3, <1>5 DEF BlocksInv, ListedInv
<1>8. Cardinality(ReadIn(H, idx, Number(idx[c]))) \in 0 .. BLOCK_SIZE - 1
  <2>1. idx[c] \in Members(Number(idx[c])) /\ Number(idx[c]) \in Int BY <1>2, MemberOf
  <2>2. idx[c] \notin ReadIn(H, idx, Number(idx[c])) BY <1>1 DEF ReadIn
  <2>3. /\ Cardinality(ReadIn(H, idx, Number(idx[c]))) < BLOCK_SIZE
        /\ Cardinality(ReadIn(H, idx, Number(idx[c]))) \in 0 .. BLOCK_SIZE
    BY <2>1, <2>2, ReadFacts
  <2>4. QED BY <2>3, Sizes
<1>9. consumer[c].index % BLOCK_SIZE = idx[c] % BLOCK_SIZE
      /\ idx[c] % BLOCK_SIZE \in 0 .. BLOCK_SIZE - 1
  BY <1>2, Wrapped
<1>10. QED BY <1>1, <1>2, <1>3, <1>5, <1>6, <1>7, <1>8, <1>9

LEMMA ReadBlocks ==
    ASSUME Typed, NEW T \in Nat, NEW H \in Nat, NEW num, NEW a, NEW idx,
           BlocksInv(T, H, num, a, idx), headIndex \in Indices,
           NEW c \in Consumers, DequeueReads(c)
    PROVE  BlocksInv(T, H, num, a, idx)'
<1>0. /\ consumer[c].pc = "read" /\ blockIndex' = blockIndex /\ key' = key /\ value' = value
      /\ tailBlock' = tailBlock /\ freeBlocks' = freeBlocks /\ producer' = producer
  BY DEF DequeueReads, In, index
<1>1. PICK i, e, b, p : i = idx[c] /\ e = consumer[c].entry /\ b = consumer[c].block
                        /\ p = idx[c] % BLOCK_SIZE
  OBVIOUS
<1>2. /\ Holds(c) /\ i \in Nat /\ i < H /\ consumer[c].index % BLOCK_SIZE = p
      /\ p \in 0 .. BLOCK_SIZE - 1
      /\ e \in Entries /\ num[e] = Number(i) /\ num[e] \in Nat /\ value[e] = b /\ b \in Blocks
      /\ elementsCompletelyDequeued[b] = Cardinality(ReadIn(H, idx, Number(i)))
      /\ elementsCompletelyDequeued[b] \in 0 .. BLOCK_SIZE - 1
  <2>1. /\ Holds(c) /\ idx[c] \in Nat /\ idx[c] < H
        /\ consumer[c].index % BLOCK_SIZE = idx[c] % BLOCK_SIZE
        /\ idx[c] % BLOCK_SIZE \in 0 .. BLOCK_SIZE - 1
        /\ consumer[c].entry \in Entries /\ num[consumer[c].entry] = Number(idx[c])
        /\ num[consumer[c].entry] \in Nat
        /\ value[consumer[c].entry] = consumer[c].block /\ consumer[c].block \in Blocks
        /\ elementsCompletelyDequeued[consumer[c].block]
               = Cardinality(ReadIn(H, idx, Number(idx[c])))
        /\ elementsCompletelyDequeued[consumer[c].block] \in 0 .. BLOCK_SIZE - 1
    BY <1>0, ReaderFacts
  <2>2. QED BY <1>1, <2>1
<1>3. /\ KeysInv(num) /\ RingsInv(a) /\ NumbersInv(T, num, a) /\ ProducerInv(T, num, a)
      /\ ListedInv(T, H, num, idx) /\ ElementsInv(T, H, num)
      /\ \A d \in Consumers : HolderInv(H, num, a, idx, d)
      /\ RivalsInv(idx) /\ OwnersInv /\ idx \in [Consumers -> Nat]
  BY DEF BlocksInv
<1>4. /\ elements' = [elements EXCEPT ![b][p] = Null]
      /\ elementsCompletelyDequeued'
             = [elementsCompletelyDequeued EXCEPT ![b] = elementsCompletelyDequeued[b] + 1]
  BY <1>1, <1>2 DEF DequeueReads
<1>5. /\ elementsCompletelyDequeued'[b] = elementsCompletelyDequeued[b] + 1
      /\ \A x \in Blocks : x # b =>
             elementsCompletelyDequeued'[x] = elementsCompletelyDequeued[x]
  BY <1>2, <1>4 DEF Typed
<1>6. \E r : /\ Turns(c, r)
             /\ \/ /\ elementsCompletelyDequeued'[b] = BLOCK_SIZE
                   /\ r.pc = "unlist" /\ r.entry = e /\ r.block = b
                \/ elementsCompletelyDequeued'[b] < BLOCK_SIZE /\ r.pc = "idle"
  <2>1. IF elementsCompletelyDequeued[b] = BLOCK_SIZE - 1
        THEN \E r \in Locals : Turns(c, r) /\ r.pc = "unlist" /\ r.entry = e /\ r.block = b
        ELSE Turns(c, IdleConsumer)
    <3>1. IF elementsCompletelyDequeued[consumer[c].block] = BLOCK_SIZE - 1
          THEN \E r \in Locals : /\ Turns(c, r) /\ r.pc = "unlist"
                                 /\ r.entry = consumer[c].entry /\ r.block = consumer[c].block
          ELSE Turns(c, IdleConsumer)
      BY DeliveringSteps
    <3>2. QED BY <1>1, <3>1
  <2>2. IdleConsumer.pc = "idle" BY DEF IdleConsumer
  <2>3. BLOCK_SIZE \in Nat BY Sizes
  <2>4. CASE elementsCompletelyDequeued[b] = BLOCK_SIZE - 1
    <3>1. elementsCompletelyDequeued'[b] = BLOCK_SIZE BY <1>5, <2>3, <2>4
    <3>2. QED BY <2>1, <2>4, <3>1
  <2>5. CASE elementsCompletelyDequeued[b] # BLOCK_SIZE - 1
    <3>1. elementsCompletelyDequeued'[b] < BLOCK_SIZE BY <1>2, <1>5, <2>3, <2>5
    <3>2. QED BY <2>1, <2>2, <2>5, <3>1
  <2>6. QED BY <2>4, <2>5
<1>7. PICK r : /\ Turns(c, r)
               /\ \/ /\ elementsCompletelyDequeued'[b] = BLOCK_SIZE
                     /\ r.pc = "unlist" /\ r.entry = e /\ r.block = b
                  \/ elementsCompletelyDequeued'[b] < BLOCK_SIZE /\ r.pc = "idle"
  BY <1>6
<1>8. r.pc \notin Holding BY <1>7 DEF Holding
<1>9. /\ Cardinality((ReadIn(H, idx, Number(i)))') = Cardinality(ReadIn(H, idx, Number(i))) + 1
      /\ \A k \in Int : k # Number(i) => (ReadIn(H, idx, k))' = ReadIn(H, idx, k)
  BY <1>1, <1>2, <1>3, <1>7, <1>8, ReadCounts
<1>10. consumer'[c] = r /\ \A d \in Consumers : d # c => consumer'[d] = consumer[d]
  BY <1>7 DEF Turns
<1>11. ASSUME NEW f \in Entries, value[f] = b PROVE f = e
  <2>1. value[f] # Null BY <1>2, <1>11, ProducerAssumption
  <2>2. QED BY <1>2, <1>3, <1>11, <2>1 DEF OwnersInv
<1>12. ASSUME NEW j \in Nat, j # i, Stored(num, j) PROVE Stored(num, j)'
  <2>1. PICK f \in Entries : /\ Listed(num, Number(j), f)
                             /\ elements[value[f]][j % BLOCK_SIZE] = j % Period
    BY <1>12 DEF Stored
  <2>2. value[f] \in Blocks BY <1>3, <2>1, ListFacts DEF Listed
  <2>3. elements'[value[f]][j % BLOCK_SIZE] = elements[value[f]][j % BLOCK_SIZE]
    <3>1. CASE value[f] = b
      <4>1. Number(j) = Number(i) BY <1>2, <1>11, <2>1, <3>1 DEF Listed
      <4>2. j % BLOCK_SIZE # p BY <1>1, <1>2, <1>12, <4>1, PlacesDiffer
      <4>3. QED BY <1>4, <2>2, <3>1, <4>2 DEF Typed
    <3>2. CASE value[f] # b BY <1>4, <2>2, <3>2 DEF Typed
    <3>3. QED BY <3>1, <3>2
  <2>4. QED BY <1>0, <2>1, <2>3 DEF Stored, Listed
<1>13. KeysInv(num)' /\ RingsInv(a)' /\ NumbersInv(T, num, a)'
  <2>1. (TailNumber(T))' = TailNumber(T) BY <1>0 DEF TailNumber
  <2>2. QED BY <1>0, <1>3, <2>1, SameKeys, SameRings, SameNumbers
<1>14. ProducerInv(T, num, a)'
  <2>1. Current' = Current BY <1>0 DEF Current
  <2>2. (Place(a, Last(T) + 1))' = Place(a, Last(T) + 1)
    BY <1>0, <2>1 DEF Place, EntryAt, Slot
  <2>3. producer.pc = "value" => elementsCompletelyDequeued'[producer.block] = 0
    <3> SUFFICES ASSUME producer.pc = "value"
                 PROVE  elementsCompletelyDequeued'[producer.block] = 0
      OBVIOUS
    <3>1. producer.block \in Ids /\ producer.block # Null
      BY <1>3 DEF Typed, Producer, ProducerInv
    <3>2. producer.block \in Blocks /\ ProducerOwns(producer.block)
      BY <3>1 DEF Ids, ProducerOwns
    <3>3. producer.block # b BY <1>2, <1>3, <3>2 DEF OwnersInv
    <3>4. QED BY <1>3, <1>5, <3>2, <3>3 DEF ProducerInv
  <2>4. QED BY <1>0, <1>3, <2>2, <2>3 DEF ProducerInv
<1>15. ListedInv(T, H, num, idx)'
  <2> SUFFICES ASSUME NEW f \in Entries, value[f] # Null
               PROVE  /\ num[f] = Last(T) + 1 => producer.pc = "publish"
                      /\ elementsCompletelyDequeued'[value[f]]
                             = Cardinality((ReadIn(H, idx, num[f]))')
    BY <1>0 DEF ListedInv
  <2>1. /\ num[f] = Last(T) + 1 => producer.pc = "publish"
        /\ elementsCompletelyDequeued[value[f]] = Cardinality(ReadIn(H, idx, num[f]))
    BY <1>3 DEF ListedInv
  <2>2. CASE f = e BY <1>2, <1>5, <1>9, <2>1, <2>2
  <2>3. CASE f # e
    <3>1. value[f] # b /\ value[f] \in Blocks BY <1>3, <1>11, <2>3, ListFacts
    <3>2. num[f] \in Nat /\ num[f] # num[e] BY <1>2, <1>3, <2>3, ListFacts
    <3>3. (ReadIn(H, idx, num[f]))' = ReadIn(H, idx, num[f]) BY <1>2, <1>9, <3>2
    <3>4. QED BY <1>5, <2>1, <3>1, <3>3
  <2>4. QED BY <2>2, <2>3
<1>16. ElementsInv(T, H, num)'
  <2> SUFFICES ASSUME NEW j \in Nat, H <= j, j < T PROVE Stored(num, j)'
    BY DEF ElementsInv
  <2>1. Stored(num, j) BY <1>3 DEF ElementsInv
  <2>2. j # i BY <1>2
  <2>3. QED BY <1>12, <2>1, <2>2
<1>17. ASSUME NEW d \in Consumers PROVE HolderInv(H, num, a, idx, d)'
  <2>1. CASE d = c
    <3>1. r.pc \in {"unlist", "idle"} BY <1>7
    <3>2. b # Null BY <1>2, ProducerAssumption
    <3>3. r.pc = "unlist" => /\ r.block = b /\ r.entry = e
                             /\ elementsCompletelyDequeued'[b] = BLOCK_SIZE
      BY <1>7
    <3>4. QED BY <1>0, <1>2, <1>8, <1>10, <2>1, <3>1, <3>2, <3>3 DEF HolderInv, Holds
  <2>2. CASE d # c
    <3>1. consumer'[d] = consumer[d] BY <1>10, <2>2
    <3>2. HolderInv(H, num, a, idx, d) BY <1>3
    <3>3. Holds(d) => Stored(num, idx[d])'
      <4> SUFFICES ASSUME Holds(d) PROVE Stored(num, idx[d])'
        OBVIOUS
      <4>1. idx[d] # i BY <1>1, <1>2, <1>3, <2>2 DEF RivalsInv
      <4>2. idx[d] \in Nat /\ Stored(num, idx[d]) BY <3>2 DEF HolderInv
      <4>3. QED BY <1>12, <4>1, <4>2
    <3>4. consumer[d].pc = "unlist" =>
              /\ value'[consumer[d].entry] = value[consumer[d].entry]
              /\ elementsCompletelyDequeued'[consumer[d].block]
                     = elementsCompletelyDequeued[consumer[d].block]
      <4> SUFFICES ASSUME consumer[d].pc = "unlist"
                   PROVE  elementsCompletelyDequeued'[consumer[d].block]
                              = elementsCompletelyDequeued[consumer[d].block]
        BY <1>0
      <4>1. consumer[d].block # Null /\ elementsCompletelyDequeued[consumer[d].block] = BLOCK_SIZE
        BY <3>2 DEF HolderInv
      <4>2. consumer[d].block \in Blocks BY <4>1 DEF Typed, Locals, Ids
      <4>3. consumer[d].block # b BY <1>2, <4>1, Sizes
      <4>4. QED BY <1>5, <4>2, <4>3
    <3>5. consumer[d].pc = "free" =>
              /\ consumer[d].block \notin freeBlocks'
              /\ \A f \in Entries : value'[f] # consumer[d].block
      BY <1>0, <3>2 DEF HolderInv
    <3>6. /\ \A g \in 1 .. Current : blockIndex'[g].entry = blockIndex[g].entry /\ a[g] = a[g]
          /\ \A f \in Entries : num[f] # -1 => num[f] # -1
          /\ Holds(d) => \A f \in Entries : Listed(num, Number(idx[d]), f) =>
                                                num[f] = num[f] /\ value'[f] = value[f]
      BY <1>0
    <3>7. QED BY <1>3, <3>1, <3>2, <3>3, <3>4, <3>5, <3>6, HolderKeeps
  <2>3. QED BY <2>1, <2>2
<1>18. RivalsInv(idx)'
  <2> SUFFICES ASSUME NEW d \in Consumers, NEW f \in Consumers, d # f
               PROVE  /\ Holds(d)' /\ Holds(f)' => idx[d] # idx[f]
                      /\ consumer'[d].pc = "unlist" /\ consumer'[f].pc = "unlist" =>
                             consumer'[d].entry # consumer'[f].entry
                      /\ consumer'[d].pc = "free" /\ consumer'[f].pc = "free" =>
                             consumer'[d].block # consumer'[f].block
    BY DEF RivalsInv
  <2>1. \A x \in Consumers : x # c /\ consumer[x].pc = "unlist" => consumer[x].entry # e
    <3> SUFFICES ASSUME NEW x \in Consumers, x # c, consumer[x].pc = "unlist",
                        consumer[x].entry = e
                 PROVE  FALSE
      OBVIOUS
    <3>1. HolderInv(H, num, a, idx, x) BY <1>3
    <3>2. elementsCompletelyDequeued[b] = BLOCK_SIZE BY <1>2, <3>1 DEF HolderInv
    <3>3. QED BY <1>2, <3>2, Sizes
  <2>2. \A x \in Consumers : Holds(x)' => Holds(x) /\ x # c BY <1>8, <1>10 DEF Holds
  <2>3. Holds(d)' /\ Holds(f)' => idx[d] # idx[f] BY <1>3, <2>2 DEF RivalsInv
  <2>4. consumer'[c].pc # "free" /\ (consumer'[c].pc = "unlist" => consumer'[c].entry = e)
    BY <1>7, <1>10
  <2>5. CASE d = c BY <1>10, <2>1, <2>3, <2>4, <2>5
  <2>6. CASE f = c BY <1>10, <2>1, <2>3, <2>4, <2>6
  <2>7. CASE d # c /\ f # c BY <1>3, <1>10, <2>3, <2>7 DEF RivalsInv
  <2>8. QED BY <2>5, <2>6, <2>7
<1>19. OwnersInv'
  <2>1. \A d \in Consumers : /\ consumer'[d].pc = "free" <=> consumer[d].pc = "free"
                             /\ consumer[d].pc = "free" => consumer'[d] = consumer[d]
                             /\ consumer[d].pc = "unlist" => consumer'[d] = consumer[d]
    BY <1>0, <1>7, <1>10
  <2>2. \A x \in Blocks : elementsCompletelyDequeued'[x] <= BLOCK_SIZE
    <3>1. elementsCompletelyDequeued'[b] <= BLOCK_SIZE BY <1>2, <1>5, Sizes
    <3>2. QED BY <1>3, <1>5, <3>1 DEF OwnersInv
  <2>3. ASSUME NEW f \in Entries, value[f] # Null,
               elementsCompletelyDequeued'[value[f]] = BLOCK_SIZE
        PROVE  \E d \in Consumers : consumer'[d].pc = "unlist" /\ consumer'[d].entry = f
    <3>1. CASE f = e
      <4>1. BLOCK_SIZE \in Nat BY Sizes
      <4>2. r.pc = "unlist" /\ r.entry = e BY <1>2, <1>7, <2>3, <3>1, <4>1
      <4>3. QED BY <1>10, <3>1, <4>2
    <3>2. CASE f # e
      <4>1. value[f] # b /\ value[f] \in Blocks BY <1>3, <1>11, <2>3, <3>2, ListFacts
      <4>2. elementsCompletelyDequeued[value[f]] = BLOCK_SIZE BY <1>5, <2>3, <4>1
      <4>3. PICK d \in Consumers : consumer[d].pc = "unlist" /\ consumer[d].entry = f
        BY <1>3, <2>3, <4>2 DEF OwnersInv
      <4>4. QED BY <2>1, <4>3
    <3>3. QED BY <3>1, <3>2
  <2>4. QED BY <1>0, <1>3, <2>1, <2>2, <2>3 DEF OwnersInv, ProducerOwns
<1>20. QED BY <1>3, <1>13, <1>14, <1>15, <1>16, <1>17, <1>18, <1>19 DEF BlocksInv

(* Who takes a block out of the list does so when all of it has been read. *)
LEMMA EmptyFacts ==
    ASSUME Typed, NEW T \in Nat, NEW H \in Nat, H <= T, NEW num, NEW a, NEW idx,
           BlocksInv(T, H, num, a, idx), NEW c \in Consumers, consumer[c].pc = "unlist"
    PROVE  /\ consumer[c].entry \in Entries /\ consumer[c].block \in Blocks
           /\ value[consumer[c].entry] = consumer[c].block /\ consumer[c].block # Null
           /\ \A i \in Nat : Number(i) = num[consumer[c].entry] =>
                  i < H /\ \A d \in Consumers : Holds(d) => idx[d] # i
           /\ Number(T) # num[consumer[c].entry]
<1> DEFINE e == consumer[c].entry
           b == consumer[c].block
<1>1. value[e] = b /\ b # Null /\ elementsCompletelyDequeued[b] = BLOCK_SIZE
  BY DEF BlocksInv, HolderInv
<1>2. e \in Entries /\ b \in Blocks BY <1>1 DEF Typed, Locals, Ids
<1>3. KeysInv(num) /\ NumbersInv(T, num, a) BY DEF BlocksInv
<1>4. num[e] \in Nat BY <1>1, <1>2, <1>3, ListFacts
<1>5. Cardinality(ReadIn(H, idx, num[e])) = BLOCK_SIZE
  BY <1>1, <1>2 DEF BlocksInv, ListedInv
<1>6. ASSUME NEW i \in Nat, Number(i) = num[e]
      PROVE  i < H /\ \A d \in Consumers : Holds(d) => idx[d] # i
  <2>1. i \in Members(num[e]) BY <1>6, MemberOf
  <2>2. num[e] \in Int BY <1>4
  <2>3. i \in ReadIn(H, idx, num[e])
    <3>1. i \notin ReadIn(H, idx, num[e]) => Cardinality(ReadIn(H, idx, num[e])) < BLOCK_SIZE
      BY <2>1, <2>2, ReadFacts
    <3>2. QED BY <1>5, <3>1, Sizes
  <2>4. QED BY <2>3 DEF ReadIn
<1>7. Number(T) # num[e]
  <2> SUFFICES ASSUME Number(T) = num[e] PROVE FALSE
    OBVIOUS
  <2>1. T < H BY <1>6
  <2>2. QED BY <2>1
<1>8. QED BY <1>1, <1>2, <1>6, <1>7

LEMMA UnlistBlocks ==
    ASSUME Typed, NEW T \in Nat, NEW H \in Nat, H <= T, NEW num, NEW a, NEW idx,
           producer.pc # "idle" => T % BLOCK_SIZE = 0,
           BlocksInv(T, H, num, a, idx), headIndex \in Indices,
           NEW c \in Consumers, UnlistBlock(c)
    PROVE  BlocksInv(T, H, num, a, idx)'
<1>0. /\ consumer[c].pc = "unlist" /\ blockIndex' = blockIndex /\ key' = key
      /\ tailBlock' = tailBlock /\ elements' = elements
      /\ elementsCompletelyDequeued' = elementsCompletelyDequeued
      /\ freeBlocks' = freeBlocks /\ producer' = producer
      /\ value' = [value EXCEPT ![consumer[c].entry] = Null]
  BY DEF UnlistBlock, In, blocks
<1>1. PICK e, b : e = consumer[c].entry /\ b = consumer[c].block
  OBVIOUS
<1>2. /\ e \in Entries /\ b \in Blocks /\ value[e] = b /\ b # Null
      /\ \A i \in Nat : Number(i) = num[e] =>
             i < H /\ \A d \in Consumers : Holds(d) => idx[d] # i
      /\ Number(T) # num[e]
  <2>1. /\ consumer[c].entry \in Entries /\ consumer[c].block \in Blocks
        /\ value[consumer[c].entry] = consumer[c].block /\ consumer[c].block # Null
        /\ \A i \in Nat : Number(i) = num[consumer[c].entry] =>
               i < H /\ \A d \in Consumers : Holds(d) => idx[d] # i
        /\ Number(T) # num[consumer[c].entry]
    BY <1>0, EmptyFacts
  <2>2. QED BY <1>1, <2>1
<1>3. /\ KeysInv(num) /\ RingsInv(a) /\ NumbersInv(T, num, a) /\ ProducerInv(T, num, a)
      /\ ListedInv(T, H, num, idx) /\ ElementsInv(T, H, num)
      /\ \A d \in Consumers : HolderInv(H, num, a, idx, d)
      /\ RivalsInv(idx) /\ OwnersInv /\ idx \in [Consumers -> Nat]
  BY DEF BlocksInv
<1>4. value'[e] = Null /\ \A f \in Entries : f # e => value'[f] = value[f]
  BY <1>0, <1>1, <1>2 DEF Typed
<1>5. PICK r \in Locals : Turns(c, r) /\ r.pc = "free" /\ r.block = b
  <2>1. \E r \in Locals : Turns(c, r) /\ r.pc = "free" /\ r.block = consumer[c].block
    BY DeliveringSteps
  <2>2. QED BY <1>1, <2>1
<1>6. consumer'[c] = r /\ \A d \in Consumers : d # c => consumer'[d] = consumer[d]
  BY <1>5 DEF Turns
<1>7. \A k : (ReadIn(H, idx, k))' = ReadIn(H, idx, k)
  <2>1. ~Holds(c) /\ r.pc \notin Holding BY <1>0, <1>5 DEF Holds, Holding
  <2>2. QED BY <1>5, <2>1, SameReads
<1>8. \A f \in Entries : value[f] = b => f = e BY <1>2, <1>3 DEF OwnersInv
<1>9. ASSUME NEW i \in Nat, Stored(num, i), Number(i) # num[e] PROVE Stored(num, i)'
  <2>1. PICK f \in Entries : /\ Listed(num, Number(i), f)
                             /\ elements[value[f]][i % BLOCK_SIZE] = i % Period
    BY <1>9 DEF Stored
  <2>2. value'[f] = value[f] BY <1>4, <1>9, <2>1 DEF Listed
  <2>3. QED BY <1>0, <2>1, <2>2 DEF Stored, Listed
<1>10. KeysInv(num)'
  <2>1. \A f \in Entries : value'[f] = Null \/ value'[f] = value[f] BY <1>4
  <2>2. QED BY <1>0, <1>3, <2>1 DEF KeysInv
<1>11. RingsInv(a)' /\ NumbersInv(T, num, a)'
  <2>1. (TailNumber(T))' = TailNumber(T) BY <1>0 DEF TailNumber
  <2>2. QED BY <1>0, <1>3, <2>1, SameRings, SameNumbers
<1>12. ProducerInv(T, num, a)'
  <2>1. Current' = Current BY <1>0 DEF Current
  <2>2. (Place(a, Last(T) + 1))' = Place(a, Last(T) + 1)
    BY <1>0, <2>1 DEF Place, EntryAt, Slot
  <2>3. producer.entry \in Entries BY DEF Typed, Producer
  <2>4. producer.pc \in Preparing \ {"publish"} => value'[producer.entry] = Null
    BY <1>3, <1>4, <2>3 DEF ProducerInv
  <2>5. producer.pc = "publish" => value'[producer.entry] = value[producer.entry]
    <3> SUFFICES ASSUME producer.pc = "publish"
                 PROVE  producer.entry # e
      BY <1>4, <2>3
    <3>1. num[producer.entry] = Last(T) + 1
      BY <1>3 DEF ProducerInv, Preparing, Listing
    <3>2. Number(T) = Last(T) + 1 BY LastFacts
    <3>3. QED BY <1>2, <3>1, <3>2
  <2>6. \A f \in Entries : num[f] = Number(T) => value'[f] = value[f] BY <1>2, <1>4
  <2>7. QED BY <1>0, <1>3, <2>2, <2>4, <2>5, <2>6 DEF ProducerInv
<1>13. ListedInv(T, H, num, idx)'
  <2> SUFFICES ASSUME NEW f \in Entries, value'[f] # Null
               PROVE  /\ num[f] = Last(T) + 1 => producer.pc = "publish"
                      /\ elementsCompletelyDequeued[value'[f]]
                             = Cardinality((ReadIn(H, idx, num[f]))')
    BY <1>0 DEF ListedInv
  <2>1. value'[f] = value[f] BY <1>4
  <2>2. QED BY <1>3, <1>7, <2>1 DEF ListedInv
<1>14. ElementsInv(T, H, num)'
  <2> SUFFICES ASSUME NEW i \in Nat, H <= i, i < T PROVE Stored(num, i)'
    BY DEF ElementsInv
  <2>1. Stored(num, i) BY <1>3 DEF ElementsInv
  <2>2. Number(i) # num[e]
    <3> SUFFICES ASSUME Number(i) = num[e] PROVE FALSE
      OBVIOUS
    <3>1. i < H BY <1>2
    <3>2. QED BY <3>1
  <2>3. QED BY <1>9, <2>1, <2>2
<1>15. ASSUME NEW d \in Consumers PROVE HolderInv(H, num, a, idx, d)'
  <2>1. CASE d = c
    <3>1. b \in Blocks \ freeBlocks BY <1>2, <1>3 DEF OwnersInv
    <3>2. \A f \in Entries : value'[f] # b BY <1>2, <1>4, <1>8
    <3>3. ~Holds(c)' BY <1>5, <1>6 DEF Holds, Holding
    <3>4. QED BY <1>0, <1>5, <1>6, <2>1, <3>1, <3>2, <3>3 DEF HolderInv
  <2>2. CASE d # c
    <3>1. consumer'[d] = consumer[d] BY <1>6, <2>2
    <3>2. HolderInv(H, num, a, idx, d) BY <1>3
    <3>3. Holds(d) => Number(idx[d]) # num[e]
      <4> SUFFICES ASSUME Holds(d), Number(idx[d]) = num[e] PROVE FALSE
        OBVIOUS
      <4>1. idx[d] \in Nat BY <1>3
      <4>2. idx[d] # idx[d] BY <1>2, <4>1
      <4>3. QED BY <4>2
    <3>4. Holds(d) => Stored(num, idx[d])'
      <4>1. Holds(d) => idx[d] \in Nat /\ Stored(num, idx[d]) BY <3>2 DEF HolderInv
      <4>2. QED BY <1>9, <3>3, <4>1
    <3>5. consumer[d].pc = "unlist" =>
              /\ value'[consumer[d].entry] = value[consumer[d].entry]
              /\ elementsCompletelyDequeued'[consumer[d].block]
                     = elementsCompletelyDequeued[consumer[d].block]
      <4>1. consumer[d].entry \in Entries BY DEF Typed, Locals
      <4>2. consumer[d].pc = "unlist" => consumer[d].entry # e
        BY <1>0, <1>1, <1>3, <2>2 DEF RivalsInv
      <4>3. QED BY <1>0, <1>4, <4>1, <4>2
    <3>6. consumer[d].pc = "free" =>
              /\ consumer[d].block \notin freeBlocks'
              /\ \A f \in Entries : value'[f] # consumer[d].block
      <4> SUFFICES ASSUME consumer[d].pc = "free"
                   PROVE  /\ consumer[d].block \notin freeBlocks
                          /\ \A f \in Entries : value'[f] # consumer[d].block
        BY <1>0
      <4>1. consumer[d].block \in Blocks \ freeBlocks
            /\ \A f \in Entries : value[f] # consumer[d].block
        BY <3>2 DEF HolderInv
      <4>2. consumer[d].block # Null BY <4>1, ProducerAssumption
      <4>3. QED BY <1>4, <4>1, <4>2
    <3>7. /\ \A g \in 1 .. Current : blockIndex'[g].entry = blockIndex[g].entry /\ a[g] = a[g]
          /\ \A f \in Entries : num[f] # -1 => num[f] # -1
          /\ Holds(d) => \A f \in Entries : Listed(num, Number(idx[d]), f) =>
                                                num[f] = num[f] /\ value'[f] = value[f]
      BY <1>0, <1>4, <3>3 DEF Listed
    <3>8. QED BY <1>3, <3>1, <3>2, <3>4, <3>5, <3>6, <3>7, HolderKeeps
  <2>3. QED BY <2>1, <2>2
<1>16. RivalsInv(idx)'
  <2> SUFFICES ASSUME NEW d \in Consumers, NEW f \in Consumers, d # f
               PROVE  /\ Holds(d)' /\ Holds(f)' => idx[d] # idx[f]
                      /\ consumer'[d].pc = "unlist" /\ consumer'[f].pc = "unlist" =>
                             consumer'[d].entry # consumer'[f].entry
                      /\ consumer'[d].pc = "free" /\ consumer'[f].pc = "free" =>
                             consumer'[d].block # consumer'[f].block
    BY DEF RivalsInv
  <2>1. \A x \in Consumers : consumer[x].pc = "free" => consumer[x].block # b
    <3> SUFFICES ASSUME NEW x \in Consumers, consumer[x].pc = "free", consumer[x].block = b
                 PROVE  FALSE
      OBVIOUS
    <3>1. HolderInv(H, num, a, idx, x) BY <1>3
    <3>2. value[e] # b BY <1>2, <3>1 DEF HolderInv
    <3>3. QED BY <1>2, <3>2
  <2>2. \A x \in Consumers : Holds(x)' => Holds(x) BY <1>5, <1>6 DEF Holds, Holding
  <2>3. Holds(d)' /\ Holds(f)' => idx[d] # idx[f] BY <1>3, <2>2 DEF RivalsInv
  <2>4. consumer'[c].pc = "free" /\ consumer'[c].block = b BY <1>5, <1>6
  <2>5. CASE d = c BY <1>6, <2>1, <2>3, <2>4, <2>5
  <2>6. CASE f = c BY <1>6, <2>1, <2>3, <2>4, <2>6
  <2>7. CASE d # c /\ f # c BY <1>3, <1>6, <2>3, <2>7 DEF RivalsInv
  <2>8. QED BY <2>5, <2>6, <2>7
<1>17. OwnersInv'
  <2>1. consumer'[c].pc = "free" /\ consumer'[c].block = b BY <1>5, <1>6
  <2>2. freeBlocks' \subseteq Blocks /\ \A x \in Blocks : elementsCompletelyDequeued'[x] <= BLOCK_SIZE
    BY <1>0, <1>3 DEF OwnersInv
  <2>3. \A f \in Entries : value'[f] \notin freeBlocks'
    <3>1. Null \notin freeBlocks BY <1>3, ProducerAssumption DEF OwnersInv
    <3>2. QED BY <1>0, <1>3, <1>4, <3>1 DEF OwnersInv
  <2>4. \A f, g \in Entries : value'[f] = value'[g] /\ value'[f] # Null => f = g
    BY <1>3, <1>4 DEF OwnersInv
  <2>5. ASSUME NEW x \in Blocks, ProducerOwns(x)'
        PROVE  /\ x \notin freeBlocks' /\ \A f \in Entries : value'[f] # x
               /\ \A d \in Consumers : consumer'[d].pc = "free" => consumer'[d].block # x
    <3>1. ProducerOwns(x) BY <1>0, <2>5 DEF ProducerOwns
    <3>2. /\ x \notin freeBlocks /\ \A f \in Entries : value[f] # x
          /\ \A d \in Consumers : consumer[d].pc = "free" => consumer[d].block # x
      BY <1>3, <3>1 DEF OwnersInv
    <3>3. x # b /\ x # Null BY <1>2, <3>2, ProducerAssumption
    <3>4. QED BY <1>0, <1>4, <1>6, <2>1, <3>2, <3>3
  <2>6. ASSUME NEW x \in Blocks
        PROVE  \/ x \in freeBlocks' \/ ProducerOwns(x)'
               \/ \E f \in Entries : value'[f] = x
               \/ \E d \in Consumers : consumer'[d].pc = "free" /\ consumer'[d].block = x
    <3>1. CASE x = b BY <2>1, <3>1
    <3>2. CASE x # b
      <4>1. \/ x \in freeBlocks \/ ProducerOwns(x)
            \/ \E f \in Entries : value[f] = x
            \/ \E d \in Consumers : consumer[d].pc = "free" /\ consumer[d].block = x
        BY <1>3 DEF OwnersInv
      <4>2. ASSUME NEW f \in Entries, value[f] = x PROVE value'[f] = x
        BY <1>2, <1>4, <3>2, <4>2
      <4>3. ASSUME NEW d \in Consumers, consumer[d].pc = "free" PROVE consumer'[d] = consumer[d]
        BY <1>0, <1>6, <4>3
      <4>4. ProducerOwns(x)' <=> ProducerOwns(x) BY <1>0 DEF ProducerOwns
      <4>5. QED BY <1>0, <4>1, <4>2, <4>3, <4>4
    <3>3. QED BY <3>1, <3>2
  <2>7. ASSUME NEW f \in Entries, value'[f] # Null,
               elementsCompletelyDequeued'[value'[f]] = BLOCK_SIZE
        PROVE  \E d \in Consumers : consumer'[d].pc = "unlist" /\ consumer'[d].entry = f
    <3>1. f # e /\ value'[f] = value[f] BY <1>4, <2>7
    <3>2. PICK d \in Consumers : consumer[d].pc = "unlist" /\ consumer[d].entry = f
      BY <1>0, <1>3, <2>7, <3>1 DEF OwnersInv
    <3>3. d # c BY <1>1, <3>1, <3>2
    <3>4. QED BY <1>6, <3>2, <3>3
  <2>8. QED BY <2>2, <2>3, <2>4, <2>5, <2>6, <2>7 DEF OwnersInv
<1>18. QED BY <1>3, <1>10, <1>11, <1>12, <1>13, <1>14, <1>15, <1>16, <1>17 DEF BlocksInv

LEMMA FreeBlocks ==
    ASSUME Typed, NEW T \in Nat, NEW H \in Nat, NEW num, NEW a, NEW idx,
           BlocksInv(T, H, num, a, idx), headIndex \in Indices,
           NEW c \in Consumers, FreeBlock(c)
    PROVE  BlocksInv(T, H, num, a, idx)'
<1>0. /\ consumer[c].pc = "free" /\ blockIndex' = blockIndex /\ key' = key /\ value' = value
      /\ tailBlock' = tailBlock /\ elements' = elements
      /\ elementsCompletelyDequeued' = elementsCompletelyDequeued /\ producer' = producer
      /\ freeBlocks' = freeBlocks \cup {consumer[c].block}
  BY DEF FreeBlock, In, index
<1>1. PICK b : b = consumer[c].block
  OBVIOUS
<1>2. /\ KeysInv(num) /\ RingsInv(a) /\ NumbersInv(T, num, a) /\ ProducerInv(T, num, a)
      /\ ListedInv(T, H, num, idx) /\ ElementsInv(T, H, num)
      /\ \A d \in Consumers : HolderInv(H, num, a, idx, d)
      /\ RivalsInv(idx) /\ OwnersInv /\ idx \in [Consumers -> Nat]
  BY DEF BlocksInv
<1>3. /\ b \in Blocks \ freeBlocks /\ \A e \in Entries : value[e] # b
      /\ freeBlocks' = freeBlocks \cup {b}
  BY <1>0, <1>1, <1>2 DEF HolderInv
<1>4. Turns(c, IdleConsumer) /\ IdleConsumer.pc = "idle"
  BY DeliveringSteps DEF IdleConsumer
<1>5. consumer'[c].pc = "idle" /\ \A d \in Consumers : d # c => consumer'[d] = consumer[d]
  BY <1>4 DEF Turns
<1>6. \A k : (ReadIn(H, idx, k))' = ReadIn(H, idx, k)
  <2>1. ~Holds(c) /\ IdleConsumer.pc \notin Holding BY <1>0, <1>4 DEF Holds, Holding
  <2>2. QED BY <1>4, <2>1, SameReads
<1>7. KeysInv(num)' /\ RingsInv(a)' /\ NumbersInv(T, num, a)' /\ ProducerInv(T, num, a)'
  <2>1. (TailNumber(T))' = TailNumber(T) BY <1>0 DEF TailNumber
  <2>2. QED BY <1>0, <1>2, <2>1, SameKeys, SameRings, SameNumbers, SameProducer
<1>8. ListedInv(T, H, num, idx)' BY <1>0, <1>2, <1>6 DEF ListedInv
<1>9. ElementsInv(T, H, num)' BY <1>0, <1>2, SameStored DEF ElementsInv
<1>10. \A d \in Consumers : d # c /\ consumer[d].pc = "free" => consumer[d].block # b
  BY <1>0, <1>1, <1>2 DEF RivalsInv
<1>11. ASSUME NEW d \in Consumers PROVE HolderInv(H, num, a, idx, d)'
  <2>1. CASE d = c BY <1>5, <2>1 DEF HolderInv, Holds, Holding
  <2>2. CASE d # c
    <3>1. consumer'[d] = consumer[d] /\ HolderInv(H, num, a, idx, d) BY <1>2, <1>5, <2>2
    <3>2. Holds(d) => Stored(num, idx[d])'
      <4>1. Holds(d) => Stored(num, idx[d]) BY <3>1 DEF HolderInv
      <4>2. QED BY <1>0, <4>1, SameStored
    <3>3. consumer[d].pc = "free" =>
              /\ consumer[d].block \notin freeBlocks'
              /\ \A f \in Entries : value'[f] # consumer[d].block
      BY <1>0, <1>3, <1>10, <2>2, <3>1 DEF HolderInv
    <3>4. /\ \A g \in 1 .. Current : blockIndex'[g].entry = blockIndex[g].entry /\ a[g] = a[g]
          /\ \A f \in Entries : num[f] # -1 => num[f] # -1
          /\ Holds(d) => \A f \in Entries : Listed(num, Number(idx[d]), f) =>
                                                num[f] = num[f] /\ value'[f] = value[f]
          /\ consumer[d].pc = "unlist" =>
                 /\ value'[consumer[d].entry] = value[consumer[d].entry]
                 /\ elementsCompletelyDequeued'[consumer[d].block]
                        = elementsCompletelyDequeued[consumer[d].block]
      BY <1>0
    <3>5. QED BY <1>2, <3>1, <3>2, <3>3, <3>4, HolderKeeps
  <2>3. QED BY <2>1, <2>2
<1>12. RivalsInv(idx)'
  <2>1. \A x \in Consumers : Holds(x)' => Holds(x) /\ x # c BY <1>5 DEF Holds, Holding
  <2>2. QED BY <1>2, <1>5, <2>1 DEF RivalsInv
<1>13. OwnersInv'
  <2>1. freeBlocks' \subseteq Blocks /\ \A x \in Blocks : elementsCompletelyDequeued'[x] <= BLOCK_SIZE
    BY <1>0, <1>2, <1>3 DEF OwnersInv
  <2>2. \A f \in Entries : value'[f] \notin freeBlocks' BY <1>0, <1>2, <1>3 DEF OwnersInv
  <2>3. \A f, g \in Entries : value'[f] = value'[g] /\ value'[f] # Null => f = g
    BY <1>0, <1>2 DEF OwnersInv
  <2>4. ASSUME NEW x \in Blocks, ProducerOwns(x)'
        PROVE  /\ x \notin freeBlocks' /\ \A f \in Entries : value'[f] # x
               /\ \A d \in Consumers : consumer'[d].pc = "free" => consumer'[d].block # x
    <3>1. ProducerOwns(x) BY <1>0, <2>4 DEF ProducerOwns
    <3>2. /\ x \notin freeBlocks /\ \A f \in Entries : value[f] # x
          /\ \A d \in Consumers : consumer[d].pc = "free" => consumer[d].block # x
      BY <1>2, <3>1 DEF OwnersInv
    <3>3. x # b BY <1>0, <1>1, <3>2
    <3>4. QED BY <1>0, <1>3, <1>5, <3>2, <3>3
  <2>5. ASSUME NEW x \in Blocks
        PROVE  \/ x \in freeBlocks' \/ ProducerOwns(x)'
               \/ \E f \in Entries : value'[f] = x
               \/ \E d \in Consumers : consumer'[d].pc = "free" /\ consumer'[d].block = x
    <3>1. CASE x = b BY <1>3, <3>1
    <3>2. CASE x # b
      <4>1. \/ x \in freeBlocks \/ ProducerOwns(x)
            \/ \E f \in Entries : value[f] = x
            \/ \E d \in Consumers : consumer[d].pc = "free" /\ consumer[d].block = x
        BY <1>2 DEF OwnersInv
      <4>2. ASSUME NEW d \in Consumers, consumer[d].pc = "free", consumer[d].block = x
            PROVE  consumer'[d] = consumer[d]
        BY <1>1, <1>5, <3>2, <4>2
      <4>3. ProducerOwns(x)' <=> ProducerOwns(x) BY <1>0 DEF ProducerOwns
      <4>4. QED BY <1>0, <1>3, <4>1, <4>2, <4>3
    <3>3. QED BY <3>1, <3>2
  <2>6. ASSUME NEW f \in Entries, value'[f] # Null,
               elementsCompletelyDequeued'[value'[f]] = BLOCK_SIZE
        PROVE  \E d \in Consumers : consumer'[d].pc = "unlist" /\ consumer'[d].entry = f
    <3>1. PICK d \in Consumers : consumer[d].pc = "unlist" /\ consumer[d].entry = f
      BY <1>0, <1>2, <2>6 DEF OwnersInv
    <3>2. d # c BY <1>0, <3>1
    <3>3. QED BY <1>5, <3>1, <3>2
  <2>7. QED BY <2>1, <2>2, <2>3, <2>4, <2>5, <2>6 DEF OwnersInv
<1>14. QED BY <1>2, <1>7, <1>8, <1>9, <1>11, <1>12, <1>13 DEF BlocksInv

-----------------------------------------------------------------------------
(* The blocks: the producer *)

(* What a step of the producer has to keep for the consumers. *)
LEMMA StepKeeps ==
    ASSUME Typed, NEW T, NEW S, NEW H, NEW num, NEW a, NEW idx, BlocksInv(T, H, num, a, idx),
           NEW N, NEW A, consumer' = consumer,
           KeysInv(N)', RingsInv(A)', NumbersInv(S, N, A)', ProducerInv(S, N, A)',
           ListedInv(S, H, N, idx)', ElementsInv(S, H, N)', OwnersInv',
           \A d \in Consumers : Holds(d) => Stored(N, idx[d])',
           \A e \in Entries : value[e] # Null => N[e] = num[e] /\ value'[e] = value[e],
           \A e \in Entries : num[e] # -1 => N[e] # -1,
           \A g \in 1 .. Current : blockIndex'[g].entry = blockIndex[g].entry /\ A[g] = a[g],
           \A d \in Consumers : consumer[d].pc = "unlist" =>
               elementsCompletelyDequeued'[consumer[d].block]
                   = elementsCompletelyDequeued[consumer[d].block],
           \A d \in Consumers : consumer[d].pc = "free" =>
               /\ consumer[d].block \notin freeBlocks'
               /\ \A e \in Entries : value'[e] # consumer[d].block
    PROVE  BlocksInv(S, H, N, A, idx)'
<1>1. /\ KeysInv(num) /\ RingsInv(a) /\ RivalsInv(idx) /\ idx \in [Consumers -> Nat]
      /\ \A d \in Consumers : HolderInv(H, num, a, idx, d)
  BY DEF BlocksInv
<1>2. ASSUME NEW d \in Consumers PROVE HolderInv(H, N, A, idx, d)'
  <2>1. HolderInv(H, num, a, idx, d) /\ consumer'[d] = consumer[d] BY <1>1
  <2>2. consumer[d].pc = "unlist" =>
            /\ value'[consumer[d].entry] = value[consumer[d].entry]
            /\ elementsCompletelyDequeued'[consumer[d].block]
                   = elementsCompletelyDequeued[consumer[d].block]
    <3>1. consumer[d].entry \in Entries BY DEF Typed, Locals
    <3>2. consumer[d].pc = "unlist" => value[consumer[d].entry] # Null BY <2>1 DEF HolderInv
    <3>3. QED BY <3>1, <3>2
  <2>3. Holds(d) => \A e \in Entries : Listed(num, Number(idx[d]), e) =>
                                           N[e] = num[e] /\ value'[e] = value[e]
    BY DEF Listed
  <2>4. QED BY <1>1, <2>1, <2>2, <2>3, HolderKeeps
<1>3. RivalsInv(idx)' BY <1>1 DEF RivalsInv, Holds
<1>4. QED BY <1>1, <1>2, <1>3 DEF BlocksInv

(* A step of the producer that changes neither the list nor the blocks. *)
LEMMA MovesKeep ==
    ASSUME Typed, NEW T, NEW H, NEW num, NEW a, NEW idx, BlocksInv(T, H, num, a, idx),
           UNCHANGED <<key, value, blocks, consumer>>, Current' = Current,
           \A g \in 1 .. Current : /\ blockIndex'[g].entry = blockIndex[g].entry
                                   /\ g < Current => blockIndex'[g] = blockIndex[g],
           blockIndex'[Current].tail = Slot(a, Current, (TailNumber(T))'),
           producer.pc = "publish" => producer'.pc = "publish", ProducerInv(T, num, a)',
           \A b \in Blocks : ProducerOwns(b)' <=> ProducerOwns(b)
    PROVE  BlocksInv(T, H, num, a, idx)'
<1>0. /\ key' = key /\ value' = value /\ elements' = elements /\ consumer' = consumer
      /\ elementsCompletelyDequeued' = elementsCompletelyDequeued /\ freeBlocks' = freeBlocks
  BY DEF blocks
<1>1. /\ KeysInv(num) /\ RingsInv(a) /\ NumbersInv(T, num, a)
      /\ ListedInv(T, H, num, idx) /\ ElementsInv(T, H, num) /\ OwnersInv
      /\ \A d \in Consumers : HolderInv(H, num, a, idx, d)
  BY DEF BlocksInv
<1>2. Current \in 1 .. Current /\ Current \in Nat BY TypedFacts
<1>3. KeysInv(num)' BY <1>0, <1>1, SameKeys
<1>4. RingsInv(a)'
  <2>1. a \in [1 .. MaxIndexes -> Int]
        /\ \A s \in Slots(Current) :
               /\ blockIndex[Current].entry[s] < Capacity(Current)
               /\ \A t \in Slots(Current) :
                      blockIndex[Current].entry[s] = blockIndex[Current].entry[t] => s = t
    BY <1>1 DEF RingsInv
  <2>2. ASSUME NEW g \in 1 .. Current, NEW s \in Slots(g)
        PROVE  \E t \in Slots(Current) :
                   /\ blockIndex'[Current].entry[t] = blockIndex'[g].entry[s]
                   /\ (t + a[Current]) % Capacity(g) = (s + a[g]) % Capacity(g)
    <3>1. \E t \in Slots(Current) :
              /\ blockIndex[Current].entry[t] = blockIndex[g].entry[s]
              /\ (t + a[Current]) % Capacity(g) = (s + a[g]) % Capacity(g)
      BY <1>1 DEF RingsInv
    <3>2. QED BY <1>2, <3>1
  <2>3. blockIndex'[Current].entry = blockIndex[Current].entry BY <1>2
  <2>4. QED BY <2>1, <2>2, <2>3 DEF RingsInv, Slots, Capacity
<1>5. NumbersInv(T, num, a)'
  <2>1. \A k : (Place(a, k))' = Place(a, k) BY <1>2 DEF Place, EntryAt, Slot
  <2>2. blockIndex'[Current'].tail = (Slot(a, Current, TailNumber(T)))' BY DEF Slot
  <2>3. \A g \in 1 .. Current : g < Current =>
            num[blockIndex'[g].entry[blockIndex'[g].tail]] # -1
    BY <1>1 DEF NumbersInv
  <2>4. QED BY <1>1, <2>1, <2>2, <2>3 DEF NumbersInv
<1>6. ListedInv(T, H, num, idx)'
  <2>1. \A k : (ReadIn(H, idx, k))' = ReadIn(H, idx, k) BY <1>0 DEF ReadIn, Holds
  <2>2. QED BY <1>0, <1>1, <2>1 DEF ListedInv
<1>7. ElementsInv(T, H, num)' BY <1>0, <1>1, SameStored DEF ElementsInv
<1>8. OwnersInv' BY <1>0, <1>1 DEF OwnersInv
<1>9. \A d \in Consumers : Holds(d) => Stored(num, idx[d])'
  <2>1. \A d \in Consumers : Holds(d) => Stored(num, idx[d]) BY <1>1 DEF HolderInv
  <2>2. QED BY <1>0, <2>1, SameStored
<1>10. \A d \in Consumers : consumer[d].pc = "free" =>
           /\ consumer[d].block \notin freeBlocks'
           /\ \A e \in Entries : value'[e] # consumer[d].block
  BY <1>0, <1>1 DEF HolderInv
<1>11. QED BY <1>0, <1>3, <1>4, <1>5, <1>6, <1>7, <1>8, <1>9, <1>10, StepKeeps

(* The slots next to one another. *)
LEMMA SlotNext ==
    ASSUME Typed, NEW a \in [1 .. MaxIndexes -> Int], NEW g \in 1 .. Current, NEW k \in Int
    PROVE  /\ (Slot(a, g, k) + 1) % Capacity(g) = Slot(a, g, k + 1)
           /\ (Slot(a, g, k + 1) - 1) % Capacity(g) = Slot(a, g, k)
<1>1. Capacity(g) \in Nat \ {0} /\ g \in 1 .. MaxIndexes BY RingFacts
<1> DEFINE C == Capacity(g)
           x == k - a[g]
           y == (k + 1) - a[g]
<1>2. x \in Int /\ y \in Int /\ y = x + 1 /\ x = y + (-1) BY <1>1
<1> HIDE DEF C, x, y
<1>3. (x % C) \in Int /\ (y % C) \in Int
  <2>1. C \in Nat \ {0} BY <1>1 DEF C
  <2>2. x % C \in Int BY <1>2, <2>1, DivMod
  <2>3. y % C \in Int BY <1>2, <2>1, DivMod
  <2>4. QED BY <2>2, <2>3
<1>4. ((x % C) + 1) % C = (x + 1) % C BY <1>1, <1>2, ModPlus DEF C
<1>5. ((y % C) + (-1)) % C = (y + (-1)) % C
  <2>1. -1 \in Int OBVIOUS
  <2>2. QED BY <1>1, <1>2, <2>1, ModPlus DEF C
<1>6. ((y % C) - 1) % C = x % C
  <2>1. (y % C) + (-1) = (y % C) - 1 BY <1>3
  <2>2. QED BY <1>2, <1>5, <2>1
<1>7. ((x % C) + 1) % C = y % C BY <1>2, <1>4
<1>8. QED BY <1>6, <1>7 DEF Slot, C, x, y

(* Before the entry is inserted: the next slot is that of the next number. *)
LEMMA NewEntryFacts ==
    ASSUME Typed, NEW T \in Nat, NEW num, NEW a, RingsInv(a), NumbersInv(T, num, a),
           producer.pc \notin Listing
    PROVE  /\ NewTail = Slot(a, Current, Last(T) + 1) /\ NewEntry = Place(a, Last(T) + 1)
           /\ TailNumber(T) = Last(T)
<1>1. Current \in 1 .. Current /\ a \in [1 .. MaxIndexes -> Int] BY TypedFacts DEF RingsInv
<1>2. Last(T) \in Int BY LastFacts
<1>3. TailNumber(T) = Last(T) BY <1>2 DEF TailNumber
<1>4. blockIndex[Current].tail = Slot(a, Current, Last(T)) BY <1>3 DEF NumbersInv
<1>5. NewTail = Slot(a, Current, Last(T) + 1) BY <1>1, <1>2, <1>4, SlotNext DEF NewTail
<1>6. QED BY <1>3, <1>5 DEF NewEntry, Place, EntryAt

(* The steps that only move the producer, or the tail of the index. *)
LEMMA ProducerMoves ==
    ASSUME Typed, NEW T \in Nat, NEW H, NEW num, NEW a, NEW idx, BlocksInv(T, H, num, a, idx),
           EnqueueNewBlock \/ NewBlockIndexFails \/ InsertTail \/ EnqueueFails \/ RewindTail
    PROVE  BlocksInv(T, H, num, a, idx)'
<1>1. ProducerInv(T, num, a) /\ NumbersInv(T, num, a) /\ RingsInv(a) BY DEF BlocksInv
<1>2. /\ UNCHANGED <<key, value, blocks, consumer>>
      /\ value' = value /\ tailBlock' = tailBlock
      /\ elementsCompletelyDequeued' = elementsCompletelyDequeued
  BY DEF EnqueueNewBlock, NewBlockIndexFails, InsertTail, EnqueueFails, RewindTail, index, blocks
<1>3. /\ Last(T) \in Int /\ Last(T) + 1 \in Int
      /\ Current \in 1 .. Current /\ a \in [1 .. MaxIndexes -> Int] /\ Current \in Nat
  <2>1. Last(T) \in Int BY LastFacts
  <2>2. Current \in 1 .. Current /\ Current \in Nat BY TypedFacts
  <2>3. a \in [1 .. MaxIndexes -> Int] BY <1>1 DEF RingsInv
  <2>4. QED BY <2>1, <2>2, <2>3
<1>4. IdleProducer.pc = "idle" /\ IdleProducer.block = Null BY DEF IdleProducer
<1>5. Null \notin Blocks BY ProducerAssumption
<1>6. ASSUME EnqueueNewBlock \/ NewBlockIndexFails \/ EnqueueFails
      PROVE  blockIndex' = blockIndex
  BY <1>6 DEF EnqueueNewBlock, NewBlockIndexFails, EnqueueFails, index
<1>7. /\ EnqueueNewBlock => producer.pc = "idle" /\ Goes("insert")
      /\ NewBlockIndexFails => producer.pc = "insert" /\ producer' = IdleProducer
      /\ InsertTail => producer.pc = "tail" /\ Goes("requisition")
      /\ EnqueueFails => producer.pc \in {"requisition", "value"} /\ Goes("rewind")
      /\ RewindTail => producer.pc = "rewind" /\ Goes("unlist")
  BY DEF EnqueueNewBlock, NewBlockIndexFails, InsertTail, EnqueueFails, RewindTail, At
<1>8. ASSUME NEW p \in ProducerPcs, Goes(p)
      PROVE  /\ producer'.pc = p /\ producer'.entry = producer.entry
             /\ producer'.block = producer.block
  BY <1>8, GoesTo
<1>9. \/ /\ producer.pc = "idle" /\ producer'.pc = "insert" /\ producer'.block = producer.block
         /\ blockIndex' = blockIndex
      \/ /\ producer.pc = "insert" /\ producer'.pc = "idle" /\ producer'.block = Null
         /\ blockIndex' = blockIndex
      \/ /\ InsertTail /\ producer.pc = "tail" /\ producer'.pc = "requisition"
         /\ producer'.entry = producer.entry /\ producer'.block = producer.block
      \/ /\ producer.pc \in {"requisition", "value"} /\ producer'.pc = "rewind"
         /\ producer'.entry = producer.entry /\ producer'.block = producer.block
         /\ blockIndex' = blockIndex
      \/ /\ RewindTail /\ producer.pc = "rewind" /\ producer'.pc = "unlist"
         /\ producer'.entry = producer.entry /\ producer'.block = producer.block
  <2>1. {"insert", "requisition", "rewind", "unlist"} \subseteq ProducerPcs BY DEF ProducerPcs
  <2>2. CASE EnqueueNewBlock BY <1>6, <1>7, <1>8, <2>1, <2>2
  <2>3. CASE NewBlockIndexFails BY <1>4, <1>6, <1>7, <2>3
  <2>4. CASE InsertTail BY <1>7, <1>8, <2>1, <2>4
  <2>5. CASE EnqueueFails BY <1>6, <1>7, <1>8, <2>1, <2>5
  <2>6. CASE RewindTail BY <1>7, <1>8, <2>1, <2>6
  <2>7. QED BY <2>2, <2>3, <2>4, <2>5, <2>6
<1>10. /\ Current' = Current
       /\ \A g \in 1 .. Current : /\ blockIndex'[g].entry = blockIndex[g].entry
                                  /\ g < Current => blockIndex'[g] = blockIndex[g]
       /\ blockIndex'[Current].tail = Slot(a, Current, (TailNumber(T))')
  <2>1. /\ producer.pc \in Listing => TailNumber(T) = Last(T) + 1
        /\ producer.pc \notin Listing => TailNumber(T) = Last(T)
        /\ producer'.pc \in Listing => (TailNumber(T))' = Last(T) + 1
        /\ producer'.pc \notin Listing => (TailNumber(T))' = Last(T)
    BY <1>3 DEF TailNumber
  <2>2. CASE blockIndex' = blockIndex /\ (producer.pc \in Listing <=> producer'.pc \in Listing)
    BY <1>1, <2>1, <2>2 DEF NumbersInv, Current
  <2>3. CASE InsertTail /\ producer.pc = "tail" /\ producer'.pc = "requisition"
    <3>1. producer.pc \notin Listing /\ producer'.pc \in Listing BY <2>3 DEF Listing
    <3>2. NewTail = Slot(a, Current, Last(T) + 1) BY <1>1, <3>1, NewEntryFacts
    <3>3. blockIndex' = [blockIndex EXCEPT ![Current].tail = NewTail] BY <2>3 DEF InsertTail
    <3>4. NewTail \in Slots(Current) BY NewEntryType
    <3>5. /\ Current' = Current /\ blockIndex'[Current].tail = NewTail
          /\ \A g \in 1 .. Current : /\ blockIndex'[g].entry = blockIndex[g].entry
                                     /\ g < Current => blockIndex'[g] = blockIndex[g]
      BY <3>3, <3>4, TailMoves
    <3>6. QED BY <2>1, <3>1, <3>2, <3>5
  <2>4. CASE RewindTail /\ producer.pc = "rewind" /\ producer'.pc = "unlist"
    <3>1. producer.pc \in Listing /\ producer'.pc \notin Listing BY <2>4 DEF Listing
    <3>2. blockIndex[Current].tail = Slot(a, Current, Last(T) + 1)
      BY <1>1, <2>1, <3>1 DEF NumbersInv
    <3>3. (blockIndex[Current].tail - 1) % Capacity(Current) = Slot(a, Current, Last(T))
      BY <1>3, <3>2, SlotNext
    <3>4. Slot(a, Current, Last(T)) \in Slots(Current) BY <1>3, SlotFacts
    <3>5. blockIndex' = [blockIndex EXCEPT ![Current].tail = Slot(a, Current, Last(T))]
      BY <2>4, <3>3 DEF RewindTail
    <3>6. /\ Current' = Current /\ blockIndex'[Current].tail = Slot(a, Current, Last(T))
          /\ \A g \in 1 .. Current : /\ blockIndex'[g].entry = blockIndex[g].entry
                                     /\ g < Current => blockIndex'[g] = blockIndex[g]
      BY <3>4, <3>5, TailMoves
    <3>7. QED BY <2>1, <3>1, <3>6
  <2>5. QED BY <1>9, <2>2, <2>3, <2>4 DEF Listing
<1>11. ProducerInv(T, num, a)'
  <2>1. (Place(a, Last(T) + 1))' = Place(a, Last(T) + 1)
    BY <1>3, <1>10 DEF Place, EntryAt, Slot
  <2>2. /\ producer'.pc \in Preparing =>
               /\ producer'.entry = producer.entry /\ producer.pc \in Preparing
               /\ producer'.pc # "publish" /\ producer.pc # "publish" /\ producer'.pc # "value"
        /\ producer'.pc \in {"idle", "insert", "tail", "requisition"} => producer'.block = Null
        /\ producer'.pc # "publish" /\ producer'.pc # "value"
    BY <1>1, <1>9 DEF Preparing, Listing, ProducerInv
  <2>3. QED BY <1>1, <1>2, <2>1, <2>2 DEF ProducerInv
<1>12. \A b \in Blocks : ProducerOwns(b)' <=> ProducerOwns(b)
  BY <1>1, <1>5, <1>9 DEF ProducerOwns, ProducerInv
<1>13. producer.pc = "publish" => producer'.pc = "publish" BY <1>9
<1>14. QED BY <1>2, <1>10, <1>11, <1>12, <1>13, MovesKeep

(* An entry that may be used has no block. *)
LEMMA UsableFacts ==
    ASSUME Typed, NEW num, KeysInv(num), NEW e \in Entries
    PROVE  Usable(e) <=> value[e] = Null
<1>1. num[e] \in Nat => key[e] # INVALID_BLOCK_BASE
  <2>1. num[e] \in Nat => (num[e] * BLOCK_SIZE) % Period # INVALID_BLOCK_BASE BY KeyFacts
  <2>2. num[e] = -1 \/ key[e] = (num[e] * BLOCK_SIZE) % Period BY DEF KeysInv
  <2>3. num[e] = -1 => num[e] \notin Nat OBVIOUS
  <2>4. QED BY <2>1, <2>2, <2>3
<1>2. QED BY <1>1 DEF KeysInv, Usable

(* The key of the next block goes into the next entry. *)
LEMMA InsertKeyBlocks ==
    ASSUME Typed, NEW T \in Nat, NEW H \in Nat, NEW num, NEW a, NEW idx, tailIndex = T % Period,
           producer.pc # "idle" => T % BLOCK_SIZE = 0,
           BlocksInv(T, H, num, a, idx), InsertKey
    PROVE  \E N : BlocksInv(T, H, N, a, idx)'
<1>0. /\ producer.pc = "insert" /\ Usable(NewEntry) /\ blockIndex' = blockIndex
      /\ value' = value /\ consumer' = consumer /\ tailBlock' = tailBlock
      /\ elements' = elements /\ elementsCompletelyDequeued' = elementsCompletelyDequeued
      /\ freeBlocks' = freeBlocks
      /\ key' = [key EXCEPT ![NewEntry] = tailIndex]
      /\ producer' = [producer EXCEPT !.pc = "tail", !.entry = NewEntry]
  BY DEF InsertKey, At, blocks
<1>1. /\ KeysInv(num) /\ RingsInv(a) /\ NumbersInv(T, num, a) /\ ProducerInv(T, num, a)
      /\ ListedInv(T, H, num, idx) /\ ElementsInv(T, H, num) /\ OwnersInv
      /\ \A d \in Consumers : HolderInv(H, num, a, idx, d)
  BY DEF BlocksInv
<1>2. PICK e, n : e = NewEntry /\ n = Last(T) + 1
  OBVIOUS
<1>3. producer.pc \notin Listing BY <1>0 DEF Listing
<1>4. e \in Entries /\ e = Place(a, n) /\ value[e] = Null
  <2>1. NewEntry \in Entries BY NewEntryType
  <2>2. NewEntry = Place(a, Last(T) + 1) BY <1>1, <1>3, NewEntryFacts
  <2>3. QED BY <1>0, <1>1, <1>2, <2>1, <2>2, UsableFacts
<1>5. /\ n \in Nat /\ T % BLOCK_SIZE = 0 /\ T = n * BLOCK_SIZE /\ Last(T) \in Int
      /\ n = Last(T) + 1 /\ (T > 0 => Last(T) \in Nat)
  BY <1>0, <1>2, LastFacts
<1>6. key'[e] = (n * BLOCK_SIZE) % Period /\ \A f \in Entries : f # e => key'[f] = key[f]
  BY <1>0, <1>2, <1>4, <1>5 DEF Typed
<1>7. PICK N \in [Entries -> Int] : N[e] = n /\ \A f \in Entries : f # e => N[f] = num[f]
  <2>1. num \in [Entries -> Int] BY <1>1 DEF KeysInv
  <2>2. /\ [num EXCEPT ![e] = n] \in [Entries -> Int] /\ [num EXCEPT ![e] = n][e] = n
        /\ \A f \in Entries : f # e => [num EXCEPT ![e] = n][f] = num[f]
    BY <1>4, <1>5, <2>1
  <2>3. QED BY <2>2
<1>8. producer'.pc = "tail" /\ producer'.entry = e /\ producer'.block = producer.block
  BY <1>0, <1>2 DEF Typed, Producer
<1>9. \A f \in Entries : num[f] # -1 => N[f] # -1 BY <1>5, <1>7
<1>10. Current' = Current /\ \A k : (Place(a, k))' = Place(a, k)
  BY <1>0 DEF Current, Place, EntryAt, Slot
<1>11. KeysInv(N)'
  <2>1. ASSUME NEW f \in Entries
        PROVE  \/ N[f] = -1 /\ key'[f] = INVALID_BLOCK_BASE /\ value'[f] = Null
               \/ N[f] \in Nat /\ key'[f] = (N[f] * BLOCK_SIZE) % Period
    <3>1. CASE f = e BY <1>5, <1>6, <1>7, <3>1
    <3>2. CASE f # e BY <1>0, <1>1, <1>6, <1>7, <3>2 DEF KeysInv
    <3>3. QED BY <3>1, <3>2
  <2>2. QED BY <1>7, <2>1 DEF KeysInv
<1>12. RingsInv(a)' BY <1>0, <1>1, SameRings
<1>13. NumbersInv(T, N, a)'
  <2>1. Current \in 1 .. Current /\ a \in [1 .. MaxIndexes -> Int] BY <1>1, TypedFacts DEF RingsInv
  <2>2. Capacity(Current) \in Nat \ {0} BY <2>1, RingFacts
  <2>3. ASSUME NEW f \in Entries, N[f] # -1
        PROVE  Place(a, N[f]) = f /\ Last(T) - Capacity(Current) < N[f] /\ N[f] <= Last(T) + 1
    <3>1. CASE f = e
      <4>1. N[f] = n /\ Place(a, n) = f BY <1>4, <1>7, <3>1
      <4>2. Last(T) - Capacity(Current) < n /\ n <= Last(T) + 1 BY <1>5, <2>2
      <4>3. QED BY <4>1, <4>2
    <3>2. CASE f # e
      <4>1. N[f] = num[f] BY <1>7, <3>2
      <4>2. QED BY <1>1, <2>3, <4>1 DEF NumbersInv
    <3>3. QED BY <3>1, <3>2
  <2>4. (TailNumber(T))' = TailNumber(T) BY <1>0, <1>8 DEF TailNumber, Listing
  <2>5. T > 0 => N[Place(a, Last(T))] # -1
    <3>1. Place(a, Last(T)) \in Entries BY <1>5, <2>1, SlotFacts DEF Place
    <3>2. QED BY <1>1, <1>9, <3>1 DEF NumbersInv
  <2>6. ASSUME NEW g \in 1 .. Current, g < Current
        PROVE  N[blockIndex[g].entry[blockIndex[g].tail]] # -1
    <3>1. blockIndex[g].entry[blockIndex[g].tail] \in Entries BY RingFacts
    <3>2. QED BY <1>1, <1>9, <2>6, <3>1 DEF NumbersInv
  <2>7. blockIndex'[Current'].tail = (Slot(a, Current, TailNumber(T)))'
    BY <1>0, <1>1, <1>10, <2>4 DEF NumbersInv, Slot
  <2>8. QED BY <1>0, <1>10, <2>3, <2>5, <2>6, <2>7 DEF NumbersInv
<1>14. ProducerInv(T, N, a)'
  <2>1. producer'.block = Null BY <1>0, <1>1, <1>8 DEF ProducerInv
  <2>2. QED BY <1>0, <1>2, <1>4, <1>5, <1>7, <1>8, <1>10, <2>1
        DEF ProducerInv, Preparing, Listing
<1>15. \A f \in Entries : value[f] # Null => N[f] = num[f] /\ value'[f] = value[f]
  BY <1>0, <1>4, <1>7
<1>16. ListedInv(T, H, N, idx)'
  <2>1. \A k : (ReadIn(H, idx, k))' = ReadIn(H, idx, k) BY <1>0 DEF ReadIn, Holds
  <2>2. \A f \in Entries : value[f] # Null => num[f] # Last(T) + 1
    BY <1>0, <1>1 DEF ListedInv
  <2>3. QED BY <1>0, <1>1, <1>15, <2>1, <2>2 DEF ListedInv
<1>17. ASSUME NEW i, Stored(num, i) PROVE Stored(N, i)'
  <2>1. PICK f \in Entries : /\ Listed(num, Number(i), f)
                             /\ elements[value[f]][i % BLOCK_SIZE] = i % Period
    BY <1>17 DEF Stored
  <2>2. QED BY <1>0, <1>15, <2>1 DEF Stored, Listed
<1>18. ElementsInv(T, H, N)' BY <1>1, <1>17 DEF ElementsInv
<1>19. OwnersInv'
  <2>1. \A x : ~ProducerOwns(x) /\ ~ProducerOwns(x)' BY <1>0, <1>8 DEF ProducerOwns
  <2>2. QED BY <1>0, <1>1, <2>1 DEF OwnersInv
<1>20. /\ \A d \in Consumers : Holds(d) => Stored(num, idx[d])
       /\ \A d \in Consumers : consumer[d].pc = "free" =>
              /\ consumer[d].block \notin freeBlocks'
              /\ \A f \in Entries : value'[f] # consumer[d].block
  BY <1>0, <1>1 DEF HolderInv
<1>21. \A d \in Consumers : Holds(d) => Stored(N, idx[d])' BY <1>17, <1>20
<1>22. BlocksInv(T, H, N, a, idx)'
  <2>1. /\ \A g \in 1 .. Current : blockIndex'[g].entry = blockIndex[g].entry /\ a[g] = a[g]
        /\ \A d \in Consumers : consumer[d].pc = "unlist" =>
               elementsCompletelyDequeued'[consumer[d].block]
                   = elementsCompletelyDequeued[consumer[d].block]
    BY <1>0
  <2> HIDE <1>7, <1>17
  <2>2. QED BY <1>0, <1>9, <1>11, <1>12, <1>13, <1>14, <1>15, <1>16, <1>18, <1>19, <1>20,
               <1>21, <2>1, StepKeeps
<1>23. QED BY <1>22

(* A block is taken from the free list; nothing of it has been read. *)
LEMMA RequisitionBlocks ==
    ASSUME Typed, NEW T \in Nat, NEW H \in Nat, NEW num, NEW a, NEW idx,
           BlocksInv(T, H, num, a, idx), NEW b \in Blocks, RequisitionBlock(b)
    PROVE  BlocksInv(T, H, num, a, idx)'
<1>0. /\ producer.pc = "requisition" /\ b \in freeBlocks
      /\ blockIndex' = blockIndex /\ key' = key /\ value' = value /\ consumer' = consumer
      /\ tailBlock' = tailBlock /\ elements' = elements
      /\ freeBlocks' = freeBlocks \ {b}
      /\ elementsCompletelyDequeued' = [elementsCompletelyDequeued EXCEPT ![b] = 0]
      /\ producer' = [producer EXCEPT !.pc = "value", !.block = b]
  BY DEF RequisitionBlock, At, index
<1>1. /\ KeysInv(num) /\ RingsInv(a) /\ NumbersInv(T, num, a) /\ ProducerInv(T, num, a)
      /\ ListedInv(T, H, num, idx) /\ ElementsInv(T, H, num) /\ OwnersInv
      /\ \A d \in Consumers : HolderInv(H, num, a, idx, d)
  BY DEF BlocksInv
<1>2. producer'.pc = "value" /\ producer'.entry = producer.entry /\ producer'.block = b
  BY <1>0 DEF Typed, Producer
<1>3. /\ elementsCompletelyDequeued'[b] = 0
      /\ \A x \in Blocks : x # b =>
             elementsCompletelyDequeued'[x] = elementsCompletelyDequeued[x]
  BY <1>0 DEF Typed
<1>4. \A e \in Entries : value[e] # b BY <1>0, <1>1 DEF OwnersInv
<1>5. \A e \in Entries : value[e] # Null => value[e] \in Blocks BY <1>1, ListFacts
<1>6. KeysInv(num)' /\ RingsInv(a)' /\ NumbersInv(T, num, a)'
  <2>1. (TailNumber(T))' = TailNumber(T) BY <1>0, <1>2 DEF TailNumber, Listing
  <2>2. QED BY <1>0, <1>1, <2>1, SameKeys, SameRings, SameNumbers
<1>7. ProducerInv(T, num, a)'
  <2>1. (Place(a, Last(T) + 1))' = Place(a, Last(T) + 1)
    BY <1>0 DEF Place, EntryAt, Slot, Current
  <2>2. b # Null BY ProducerAssumption
  <2>3. QED BY <1>0, <1>1, <1>2, <1>3, <2>1, <2>2 DEF ProducerInv, Preparing, Listing
<1>8. ListedInv(T, H, num, idx)'
  <2>1. \A k : (ReadIn(H, idx, k))' = ReadIn(H, idx, k) BY <1>0 DEF ReadIn, Holds
  <2>2. \A f \in Entries : value[f] # Null => num[f] # Last(T) + 1
    BY <1>0, <1>1 DEF ListedInv
  <2>3. \A f \in Entries : value[f] # Null =>
            elementsCompletelyDequeued'[value[f]] = elementsCompletelyDequeued[value[f]]
    BY <1>3, <1>4, <1>5
  <2>4. QED BY <1>0, <1>1, <2>1, <2>2, <2>3 DEF ListedInv
<1>9. ElementsInv(T, H, num)' BY <1>0, <1>1, SameStored DEF ElementsInv
<1>10. \A d \in Consumers : consumer[d].pc = "free" =>
           /\ consumer[d].block \notin freeBlocks /\ consumer[d].block \in Blocks
           /\ \A e \in Entries : value[e] # consumer[d].block
  BY <1>1 DEF HolderInv
<1>11. OwnersInv'
  <2>1. \A x : ~ProducerOwns(x) /\ (ProducerOwns(x)' <=> x = b) BY <1>0, <1>2 DEF ProducerOwns
  <2>2. freeBlocks' \subseteq Blocks /\ \A e \in Entries : value'[e] \notin freeBlocks'
    BY <1>0, <1>1 DEF OwnersInv
  <2>3. \A x \in Blocks : elementsCompletelyDequeued'[x] <= BLOCK_SIZE
    BY <1>1, <1>3, Sizes DEF OwnersInv
  <2>4. \A e, f \in Entries : value'[e] = value'[f] /\ value'[e] # Null => e = f
    BY <1>0, <1>1 DEF OwnersInv
  <2>5. \A x \in Blocks : ProducerOwns(x)' =>
            /\ x \notin freeBlocks' /\ \A e \in Entries : value'[e] # x
            /\ \A c \in Consumers : consumer'[c].pc = "free" => consumer'[c].block # x
    BY <1>0, <1>4, <1>10, <2>1
  <2>6. \A x \in Blocks :
            \/ x \in freeBlocks' \/ ProducerOwns(x)'
            \/ \E e \in Entries : value'[e] = x
            \/ \E c \in Consumers : consumer'[c].pc = "free" /\ consumer'[c].block = x
    BY <1>0, <1>1, <2>1 DEF OwnersInv
  <2>7. \A e \in Entries : value'[e] # Null /\ elementsCompletelyDequeued'[value'[e]] = BLOCK_SIZE =>
            \E c \in Consumers : consumer'[c].pc = "unlist" /\ consumer'[c].entry = e
    BY <1>0, <1>1, <1>3, <1>4, <1>5 DEF OwnersInv
  <2>8. QED BY <2>2, <2>3, <2>4, <2>5, <2>6, <2>7 DEF OwnersInv
<1>12. \A d \in Consumers : Holds(d) => Stored(num, idx[d])'
  <2>1. \A d \in Consumers : Holds(d) => Stored(num, idx[d]) BY <1>1 DEF HolderInv
  <2>2. QED BY <1>0, <2>1, SameStored
<1>13. ASSUME NEW d \in Consumers, consumer[d].pc = "unlist"
       PROVE  elementsCompletelyDequeued'[consumer[d].block]
                  = elementsCompletelyDequeued[consumer[d].block]
  <2>1. value[consumer[d].entry] = consumer[d].block /\ consumer[d].block # Null
    BY <1>1, <1>13 DEF HolderInv
  <2>2. consumer[d].entry \in Entries BY DEF Typed, Locals
  <2>3. QED BY <1>3, <1>4, <1>5, <2>1, <2>2
<1>14. /\ \A g \in 1 .. Current : blockIndex'[g].entry = blockIndex[g].entry /\ a[g] = a[g]
       /\ \A e \in Entries : num[e] # -1 => num[e] # -1
       /\ \A e \in Entries : value[e] # Null => num[e] = num[e] /\ value'[e] = value[e]
       /\ \A d \in Consumers : consumer[d].pc = "free" =>
              /\ consumer[d].block \notin freeBlocks'
              /\ \A e \in Entries : value'[e] # consumer[d].block
  BY <1>0, <1>10
<1>15. QED BY <1>0, <1>6, <1>7, <1>8, <1>9, <1>11, <1>12, <1>13, <1>14, StepKeeps

(* An enqueue that fails gives back the block it has. *)
LEMMA ClearBlocks ==
    ASSUME Typed, NEW T \in Nat, NEW H \in Nat, NEW num, NEW a, NEW idx,
           BlocksInv(T, H, num, a, idx), ClearEntry
    PROVE  BlocksInv(T, H, num, a, idx)'
<1>0. /\ producer.pc = "unlist" /\ value' = [value EXCEPT ![producer.entry] = Null]
      /\ blockIndex' = blockIndex /\ key' = key /\ consumer' = consumer
      /\ tailBlock' = tailBlock /\ elements' = elements
      /\ elementsCompletelyDequeued' = elementsCompletelyDequeued
      /\ freeBlocks' = freeBlocks \cup ({producer.block} \ {Null})
      /\ producer'.pc = "idle" /\ producer'.block = Null
  BY DEF ClearEntry, At, IdleProducer
<1>1. /\ KeysInv(num) /\ RingsInv(a) /\ NumbersInv(T, num, a) /\ ProducerInv(T, num, a)
      /\ ListedInv(T, H, num, idx) /\ ElementsInv(T, H, num) /\ OwnersInv
      /\ \A d \in Consumers : HolderInv(H, num, a, idx, d)
  BY DEF BlocksInv
<1>2. value' = value
  <2>1. producer.entry \in Entries BY DEF Typed, Producer
  <2>2. value[producer.entry] = Null BY <1>0, <1>1 DEF ProducerInv, Preparing
  <2>3. QED BY <1>0, <2>1, <2>2 DEF Typed
<1>3. PICK b : b = producer.block
  OBVIOUS
<1>4. b \in Ids /\ (b # Null => b \in Blocks /\ ProducerOwns(b)) /\ \A x : ~ProducerOwns(x)'
  BY <1>0, <1>3 DEF Typed, Producer, Ids, ProducerOwns
<1>5. b # Null => /\ \A e \in Entries : value[e] # b
                  /\ \A c \in Consumers : consumer[c].pc = "free" => consumer[c].block # b
  BY <1>1, <1>4 DEF OwnersInv
<1>6. KeysInv(num)' /\ RingsInv(a)' /\ NumbersInv(T, num, a)'
  <2>1. (TailNumber(T))' = TailNumber(T) BY <1>0 DEF TailNumber, Listing
  <2>2. QED BY <1>0, <1>1, <1>2, <2>1, SameKeys, SameRings, SameNumbers
<1>7. ProducerInv(T, num, a)'
  BY <1>0, <1>1, <1>2 DEF ProducerInv, Preparing, Listing
<1>8. ListedInv(T, H, num, idx)'
  <2>1. \A k : (ReadIn(H, idx, k))' = ReadIn(H, idx, k) BY <1>0 DEF ReadIn, Holds
  <2>2. \A f \in Entries : value[f] # Null => num[f] # Last(T) + 1
    BY <1>0, <1>1 DEF ListedInv
  <2>3. QED BY <1>0, <1>1, <1>2, <2>1, <2>2 DEF ListedInv
<1>9. ElementsInv(T, H, num)' BY <1>0, <1>1, <1>2, SameStored DEF ElementsInv
<1>10. OwnersInv'
  <2>1. freeBlocks' \subseteq Blocks BY <1>0, <1>1, <1>3, <1>4 DEF OwnersInv
  <2>2. \A x \in Blocks : elementsCompletelyDequeued'[x] <= BLOCK_SIZE
    BY <1>0, <1>1 DEF OwnersInv
  <2>3. \A e \in Entries : value'[e] \notin freeBlocks'
    BY <1>0, <1>1, <1>2, <1>3, <1>5 DEF OwnersInv
  <2>4. \A x \in Blocks :
            \/ x \in freeBlocks'
            \/ \E e \in Entries : value'[e] = x
            \/ \E c \in Consumers : consumer'[c].pc = "free" /\ consumer'[c].block = x
    <3>1. \A x \in Blocks : ProducerOwns(x) => x \in freeBlocks'
      BY <1>0, ProducerAssumption DEF ProducerOwns
    <3>2. QED BY <1>0, <1>1, <1>2, <3>1 DEF OwnersInv
  <2>5. QED BY <1>0, <1>1, <1>2, <1>4, <2>1, <2>2, <2>3, <2>4 DEF OwnersInv
<1>11. \A d \in Consumers : Holds(d) => Stored(num, idx[d])'
  <2>1. \A d \in Consumers : Holds(d) => Stored(num, idx[d]) BY <1>1 DEF HolderInv
  <2>2. QED BY <1>0, <1>2, <2>1, SameStored
<1>12. \A d \in Consumers : consumer[d].pc = "free" =>
           /\ consumer[d].block \notin freeBlocks'
           /\ \A e \in Entries : value'[e] # consumer[d].block
  <2>1. \A d \in Consumers : consumer[d].pc = "free" =>
            /\ consumer[d].block \notin freeBlocks
            /\ \A e \in Entries : value[e] # consumer[d].block
    BY <1>1 DEF HolderInv
  <2>2. QED BY <1>0, <1>2, <1>3, <1>5, <2>1
<1>13. /\ \A g \in 1 .. Current : blockIndex'[g].entry = blockIndex[g].entry /\ a[g] = a[g]
       /\ \A e \in Entries : num[e] # -1 => num[e] # -1
       /\ \A e \in Entries : value[e] # Null => num[e] = num[e] /\ value'[e] = value[e]
       /\ \A d \in Consumers : consumer[d].pc = "unlist" =>
              elementsCompletelyDequeued'[consumer[d].block]
                  = elementsCompletelyDequeued[consumer[d].block]
  BY <1>0, <1>2
<1>14. QED BY <1>0, <1>6, <1>7, <1>8, <1>9, <1>10, <1>11, <1>12, <1>13, StepKeeps

(* The block is listed, with nothing in it. *)
LEMMA ListBlocks ==
    ASSUME Typed, NEW T \in Nat, NEW H \in Nat, H <= T, NEW num, NEW a, NEW idx,
           producer.pc # "idle" => T % BLOCK_SIZE = 0,
           BlocksInv(T, H, num, a, idx), ListBlock
    PROVE  BlocksInv(T, H, num, a, idx)'
<1>0. /\ producer.pc = "value" /\ value' = [value EXCEPT ![producer.entry] = producer.block]
      /\ blockIndex' = blockIndex /\ key' = key /\ consumer' = consumer
      /\ tailBlock' = producer.block /\ elements' = elements
      /\ elementsCompletelyDequeued' = elementsCompletelyDequeued
      /\ freeBlocks' = freeBlocks /\ Goes("publish")
  BY DEF ListBlock, At
<1>1. /\ KeysInv(num) /\ RingsInv(a) /\ NumbersInv(T, num, a) /\ ProducerInv(T, num, a)
      /\ ListedInv(T, H, num, idx) /\ ElementsInv(T, H, num) /\ OwnersInv
      /\ \A d \in Consumers : HolderInv(H, num, a, idx, d)
  BY DEF BlocksInv
<1>2. PICK e, b, n : e = producer.entry /\ b = producer.block /\ n = Last(T) + 1
  OBVIOUS
<1>3. producer'.pc = "publish" /\ producer'.entry = e /\ producer'.block = b
  BY <1>0, <1>2, GoesTo DEF ProducerPcs
<1>4. /\ n \in Nat /\ T % BLOCK_SIZE = 0 /\ T = n * BLOCK_SIZE /\ n = Last(T) + 1
      /\ BLOCK_SIZE \in Nat \ {0}
  BY <1>0, <1>2, LastFacts, Sizes
<1>5. /\ e \in Entries /\ e = Place(a, n) /\ num[e] = n /\ value[e] = Null
      /\ b # Null /\ elementsCompletelyDequeued[b] = 0
  BY <1>0, <1>1, <1>2 DEF ProducerInv, Preparing, Listing, Typed, Producer
<1>6. b \in Blocks /\ ProducerOwns(b) BY <1>0, <1>2, <1>5 DEF Typed, Producer, Ids, ProducerOwns
<1>7. /\ b \notin freeBlocks /\ \A f \in Entries : value[f] # b
      /\ \A c \in Consumers : consumer[c].pc = "free" => consumer[c].block # b
  BY <1>1, <1>6 DEF OwnersInv
<1>8. value'[e] = b /\ \A f \in Entries : f # e => value'[f] = value[f]
  BY <1>0, <1>2, <1>5 DEF Typed
<1>9. \A f \in Entries : value[f] # Null => num[f] = num[f] /\ value'[f] = value[f]
  BY <1>5, <1>8
<1>10. KeysInv(num)'
  <2>1. ASSUME NEW f \in Entries
        PROVE  \/ num[f] = -1 /\ key'[f] = INVALID_BLOCK_BASE /\ value'[f] = Null
               \/ num[f] \in Nat /\ key'[f] = (num[f] * BLOCK_SIZE) % Period
    <3>1. CASE f = e
      <4>1. num[f] # -1 BY <1>4, <1>5, <3>1
      <4>2. QED BY <1>0, <1>1, <4>1 DEF KeysInv
    <3>2. CASE f # e BY <1>0, <1>1, <1>8, <3>2 DEF KeysInv
    <3>3. QED BY <3>1, <3>2
  <2>2. QED BY <1>1, <2>1 DEF KeysInv
<1>11. RingsInv(a)' /\ NumbersInv(T, num, a)'
  <2>1. (TailNumber(T))' = TailNumber(T) BY <1>0, <1>3 DEF TailNumber, Listing
  <2>2. QED BY <1>0, <1>1, <2>1, SameRings, SameNumbers
<1>12. ProducerInv(T, num, a)'
  <2>1. (Place(a, Last(T) + 1))' = Place(a, Last(T) + 1)
    BY <1>0 DEF Place, EntryAt, Slot, Current
  <2>2. QED BY <1>0, <1>2, <1>3, <1>4, <1>5, <1>8, <2>1 DEF ProducerInv, Preparing, Listing
<1>13. ListedInv(T, H, num, idx)'
  <2>1. \A k : (ReadIn(H, idx, k))' = ReadIn(H, idx, k) BY <1>0 DEF ReadIn, Holds
  <2>2. ReadIn(H, idx, n) = {}
    <3>1. \A i \in Members(n) : ~(i < H)
      <4>1. n * BLOCK_SIZE + BLOCK_SIZE - 1 \in Int BY <1>4
      <4>2. QED BY <1>4, <4>1 DEF Members
    <3>2. QED BY <3>1 DEF ReadIn
  <2>3. Cardinality(ReadIn(H, idx, n)) = 0 BY <2>2, FS_EmptySet
  <2>4. ASSUME NEW f \in Entries, value'[f] # Null
        PROVE  elementsCompletelyDequeued'[value'[f]] = Cardinality((ReadIn(H, idx, num[f]))')
    <3>1. CASE f = e BY <1>0, <1>5, <1>8, <2>1, <2>3, <3>1
    <3>2. CASE f # e BY <1>0, <1>1, <1>8, <2>1, <2>4, <3>2 DEF ListedInv
    <3>3. QED BY <3>1, <3>2
  <2>5. QED BY <1>3, <2>4 DEF ListedInv
<1>14. ASSUME NEW i, Stored(num, i) PROVE Stored(num, i)'
  <2>1. PICK f \in Entries : /\ Listed(num, Number(i), f)
                             /\ elements[value[f]][i % BLOCK_SIZE] = i % Period
    BY <1>14 DEF Stored
  <2>2. QED BY <1>0, <1>9, <2>1 DEF Stored, Listed
<1>15. ElementsInv(T, H, num)' BY <1>1, <1>14 DEF ElementsInv
<1>16. OwnersInv'
  <2>1. \A x : ~ProducerOwns(x)' /\ (ProducerOwns(x) => x = b)
    BY <1>2, <1>3 DEF ProducerOwns
  <2>2. freeBlocks' \subseteq Blocks /\ \A x \in Blocks : elementsCompletelyDequeued'[x] <= BLOCK_SIZE
    BY <1>0, <1>1 DEF OwnersInv
  <2>3. \A f \in Entries : value'[f] \notin freeBlocks' BY <1>0, <1>1, <1>7, <1>8 DEF OwnersInv
  <2>4. \A f, g \in Entries : value'[f] = value'[g] /\ value'[f] # Null => f = g
    BY <1>1, <1>7, <1>8 DEF OwnersInv
  <2>5. ASSUME NEW x \in Blocks
        PROVE  \/ x \in freeBlocks'
               \/ \E f \in Entries : value'[f] = x
               \/ \E c \in Consumers : consumer'[c].pc = "free" /\ consumer'[c].block = x
    <3>1. CASE x = b BY <1>5, <1>8, <3>1
    <3>2. CASE x # b
      <4>1. x # Null BY ProducerAssumption
      <4>2. \A f \in Entries : value[f] = x => value'[f] = x BY <1>9, <4>1
      <4>3. QED BY <1>0, <1>1, <2>1, <3>2, <4>2 DEF OwnersInv
    <3>3. QED BY <3>1, <3>2
  <2>6. ASSUME NEW f \in Entries, value'[f] # Null,
               elementsCompletelyDequeued'[value'[f]] = BLOCK_SIZE
        PROVE  \E c \in Consumers : consumer'[c].pc = "unlist" /\ consumer'[c].entry = f
    <3>1. f # e BY <1>0, <1>4, <1>5, <1>8, <2>6
    <3>2. QED BY <1>0, <1>1, <1>8, <2>6, <3>1 DEF OwnersInv
  <2>7. QED BY <2>1, <2>2, <2>3, <2>4, <2>5, <2>6 DEF OwnersInv
<1>17. \A d \in Consumers : Holds(d) => Stored(num, idx[d])'
  <2>1. \A d \in Consumers : Holds(d) => Stored(num, idx[d]) BY <1>1 DEF HolderInv
  <2>2. QED BY <1>14, <2>1
<1>18. \A d \in Consumers : consumer[d].pc = "free" =>
           /\ consumer[d].block \notin freeBlocks'
           /\ \A f \in Entries : value'[f] # consumer[d].block
  <2>1. \A d \in Consumers : consumer[d].pc = "free" =>
            /\ consumer[d].block \notin freeBlocks
            /\ \A f \in Entries : value[f] # consumer[d].block
    BY <1>1 DEF HolderInv
  <2>2. QED BY <1>0, <1>7, <1>8, <2>1
<1>19. /\ \A g \in 1 .. Current : blockIndex'[g].entry = blockIndex[g].entry /\ a[g] = a[g]
       /\ \A f \in Entries : num[f] # -1 => num[f] # -1
       /\ \A d \in Consumers : consumer[d].pc = "unlist" =>
              elementsCompletelyDequeued'[consumer[d].block]
                  = elementsCompletelyDequeued[consumer[d].block]
  BY <1>0
<1> HIDE <1>14
<1>20. QED BY <1>0, <1>9, <1>10, <1>11, <1>12, <1>13, <1>15, <1>16, <1>17, <1>18, <1>19, StepKeeps

(* The entry of the block that is being filled, and what publishing does   *)
(* to the numbers of the blocks.                                           *)
LEMMA FilledFacts ==
    ASSUME Typed, NEW T \in Nat, NEW H, NEW num, NEW a, NEW idx, BlocksInv(T, H, num, a, idx),
           (producer.pc = "idle" /\ T % BLOCK_SIZE # 0)
               \/ (producer.pc = "publish" /\ T % BLOCK_SIZE = 0)
    PROVE  /\ Last(T + 1) = Number(T) /\ TailNumber(T) = Number(T)
           /\ num[Place(a, Number(T))] # -1
           /\ \A f \in Entries : num[f] # -1 =>
                  Number(T) - Capacity(Current) < num[f] /\ num[f] <= Number(T) + 1
           /\ \A f \in Entries : value[f] # Null => num[f] # Number(T) + 1
           /\ tailBlock \in Blocks
           /\ \E e \in Entries : num[e] = Number(T) /\ value[e] = tailBlock
<1>1. /\ RingsInv(a) /\ NumbersInv(T, num, a) /\ ProducerInv(T, num, a) /\ KeysInv(num)
      /\ ListedInv(T, H, num, idx)
  BY DEF BlocksInv
<1>2. /\ Last(T) \in Int /\ num \in [Entries -> Int]
      /\ Current \in 1 .. Current /\ a \in [1 .. MaxIndexes -> Int]
  <2>1. Last(T) \in Int BY LastFacts
  <2>2. num \in [Entries -> Int] BY <1>1 DEF KeysInv
  <2>3. Current \in 1 .. Current BY TypedFacts
  <2>4. a \in [1 .. MaxIndexes -> Int] BY <1>1 DEF RingsInv
  <2>5. QED BY <2>1, <2>2, <2>3, <2>4
<1>3. Capacity(Current) \in Nat \ {0} BY <1>2, RingFacts
<1>4. tailBlock # Null => tailBlock \in Blocks BY DEF Typed, Ids
<1>5. CASE producer.pc = "idle" /\ T % BLOCK_SIZE # 0
  <2>1. T > 0 /\ Last(T + 1) = Last(T) /\ Number(T) = Last(T) BY <1>5, LastFacts
  <2>2. TailNumber(T) = Last(T) BY <1>2, <1>5 DEF TailNumber, Listing
  <2>3. num[Place(a, Last(T))] # -1
        /\ \A f \in Entries : num[f] # -1 =>
               Last(T) - Capacity(Current) < num[f] /\ num[f] <= Last(T) + 1
    BY <1>1, <2>1 DEF NumbersInv
  <2>4. \A f \in Entries : value[f] # Null => num[f] # Last(T) + 1
    BY <1>1, <1>5 DEF ListedInv
  <2>5. tailBlock # Null /\ \E e \in Entries : num[e] = Number(T) /\ value[e] = tailBlock
    BY <1>1, <1>5 DEF ProducerInv
  <2>6. QED BY <1>4, <2>1, <2>2, <2>3, <2>4, <2>5
<1>6. CASE producer.pc = "publish" /\ T % BLOCK_SIZE = 0
  <2>1. Last(T + 1) = Last(T) + 1 /\ Number(T) = Last(T) + 1 /\ Last(T) + 1 \in Nat
    BY <1>6, LastFacts
  <2>2. TailNumber(T) = Last(T) + 1 BY <1>2, <1>6 DEF TailNumber, Listing
  <2>3. PICK e, n, C : e = producer.entry /\ n = Last(T) + 1 /\ C = Capacity(Current)
    OBVIOUS
  <2>4. /\ e \in Entries /\ Place(a, n) = e /\ num[e] = n /\ value[e] = tailBlock
        /\ tailBlock # Null
    <3>1. e \in Entries BY <2>3 DEF Typed, Producer
    <3>2. producer.pc = "publish" /\ producer.pc \in Preparing BY <1>6 DEF Preparing, Listing
    <3>3. producer.entry = Place(a, Last(T) + 1) /\ num[producer.entry] = Last(T) + 1
      BY <1>1, <3>2, Zenon DEF ProducerInv
    <3>4. value[producer.entry] = tailBlock /\ tailBlock # Null
      BY <1>1, <3>2, Zenon DEF ProducerInv
    <3>5. QED BY <2>3, <3>1, <3>3, <3>4
  <2>5. n \in Nat /\ num[Place(a, n)] # -1 BY <2>1, <2>3, <2>4
  <2>6. ASSUME NEW f \in Entries, num[f] # -1
        PROVE  n - C < num[f] /\ num[f] <= n + 1 /\ num[f] # n + 1
    <3>1. Place(a, num[f]) = f /\ Last(T) - C < num[f] /\ num[f] <= Last(T) + 1
      BY <1>1, <2>3, <2>6 DEF NumbersInv
    <3>2. num[f] \in Int /\ C \in Nat \ {0} /\ n - C \in Int BY <1>2, <1>3, <2>3, <2>5
    <3>3. num[f] # n - C
      <4> SUFFICES ASSUME num[f] = n - C PROVE FALSE
        OBVIOUS
      <4>1. Slot(a, Current, n - C) = Slot(a, Current, n)
        <5> DEFINE x == n - a[Current]
        <5>1. a[Current] \in Int BY <1>2, SlotFacts
        <5>2. x \in Int /\ (n - C) - a[Current] = x + C * (-1) /\ -1 \in Int
          BY <2>5, <3>2, <5>1
        <5> HIDE DEF x
        <5>3. (x + C * (-1)) % C = x % C BY <3>2, <5>2, ModShift
        <5>4. QED BY <2>3, <5>2, <5>3 DEF Slot, x
      <4>2. Place(a, n - C) = Place(a, n) BY <4>1 DEF Place, EntryAt
      <4>3. f = e BY <2>4, <3>1, <4>2
      <4>4. n - C = n BY <2>4, <4>3
      <4>5. QED BY <2>5, <3>2, <4>4
    <3>4. (n - 1) - C < num[f] /\ num[f] <= n
      <4>1. Last(T) = n - 1
        <5>1. Last(T) \in Int BY <2>1, LastFacts
        <5>2. QED BY <2>3, <5>1
      <4>2. QED BY <2>3, <3>1, <4>1
    <3>5. QED
      <4> DEFINE v == num[f]
      <4>1. /\ v \in Int /\ n \in Int /\ C \in Int /\ v # n - C
            /\ (n - 1) - C < v /\ v <= n
        BY <2>5, <3>2, <3>3, <3>4
      <4> HIDE DEF v
      <4>2. n - C < v /\ v <= n + 1 /\ v # n + 1 BY <4>1
      <4>3. QED BY <4>2 DEF v
  <2>7. \A f \in Entries : value[f] # Null => num[f] # n + 1
    <3>1. \A f \in Entries : value[f] # Null => num[f] # -1 BY <1>1 DEF KeysInv
    <3>2. QED BY <2>6, <3>1
  <2>8. QED BY <1>4, <2>1, <2>2, <2>3, <2>4, <2>5, <2>6, <2>7
<1>7. QED BY <1>5, <1>6

(* An element is stored in the block that is being filled, and published.  *)
LEMMA PublishBlocks ==
    ASSUME Typed, NEW T \in Nat, NEW H \in Nat, H <= T, NEW num, NEW a, NEW idx,
           tailIndex = T % Period, BlocksInv(T, H, num, a, idx), Publish,
           (producer.pc = "idle" /\ T % BLOCK_SIZE # 0)
               \/ (producer.pc = "publish" /\ T % BLOCK_SIZE = 0)
    PROVE  BlocksInv(T + 1, H, num, a, idx)'
<1>0. /\ blockIndex' = blockIndex /\ key' = key /\ value' = value /\ consumer' = consumer
      /\ tailBlock' = tailBlock /\ elementsCompletelyDequeued' = elementsCompletelyDequeued
      /\ freeBlocks' = freeBlocks /\ producer'.pc = "idle" /\ producer'.block = Null
      /\ elements' = [elements EXCEPT ![tailBlock][tailIndex % BLOCK_SIZE] = tailIndex]
  BY DEF Publish, index, IdleProducer
<1>1. /\ KeysInv(num) /\ RingsInv(a) /\ NumbersInv(T, num, a) /\ ProducerInv(T, num, a)
      /\ ListedInv(T, H, num, idx) /\ ElementsInv(T, H, num) /\ OwnersInv
      /\ \A d \in Consumers : HolderInv(H, num, a, idx, d)
  BY DEF BlocksInv
<1>2. /\ Last(T + 1) = Number(T) /\ TailNumber(T) = Number(T)
      /\ num[Place(a, Number(T))] # -1
      /\ \A f \in Entries : num[f] # -1 =>
             Number(T) - Capacity(Current) < num[f] /\ num[f] <= Number(T) + 1
      /\ \A f \in Entries : value[f] # Null => num[f] # Number(T) + 1
      /\ tailBlock \in Blocks
      /\ \E e \in Entries : num[e] = Number(T) /\ value[e] = tailBlock
  BY FilledFacts
<1>3. PICK e \in Entries : num[e] = Number(T) /\ value[e] = tailBlock BY <1>2
<1>4. tailBlock # Null /\ Number(T) \in Nat BY <1>2, MemberOf, ProducerAssumption
<1>5. PICK p : p = T % BLOCK_SIZE
  OBVIOUS
<1>6. /\ p \in 0 .. BLOCK_SIZE - 1 /\ T % Period \in Indices
      /\ elements' = [elements EXCEPT ![tailBlock][p] = T % Period]
  <2>1. /\ T % Period \in Indices /\ (T % Period) % BLOCK_SIZE = T % BLOCK_SIZE
        /\ T % BLOCK_SIZE \in 0 .. BLOCK_SIZE - 1
    BY Wrapped
  <2>2. QED BY <1>0, <1>5, <2>1
<1>7. elements'[tailBlock][p] = T % Period BY <1>2, <1>6 DEF Typed
<1>8. ASSUME NEW i \in Nat, i # T, Stored(num, i) PROVE Stored(num, i)'
  <2>1. PICK f \in Entries : /\ Listed(num, Number(i), f)
                             /\ elements[value[f]][i % BLOCK_SIZE] = i % Period
    BY <1>8 DEF Stored
  <2>2. value[f] \in Blocks BY <1>1, <2>1, ListFacts DEF Listed
  <2>3. elements'[value[f]][i % BLOCK_SIZE] = elements[value[f]][i % BLOCK_SIZE]
    <3>1. CASE value[f] = tailBlock
      <4>1. f = e BY <1>1, <1>3, <1>4, <3>1 DEF OwnersInv
      <4>2. Number(i) = Number(T) BY <1>3, <2>1, <4>1 DEF Listed
      <4>3. i % BLOCK_SIZE # p BY <1>5, <1>8, <4>2, PlacesDiffer
      <4>4. QED BY <1>6, <2>2, <3>1, <4>3 DEF Typed
    <3>2. CASE value[f] # tailBlock BY <1>6, <2>2, <3>2 DEF Typed
    <3>3. QED BY <3>1, <3>2
  <2>4. QED BY <1>0, <2>1, <2>3 DEF Stored, Listed
<1>9. KeysInv(num)' /\ RingsInv(a)' BY <1>0, <1>1, SameKeys, SameRings
<1>10. Current' = Current /\ \A k : (Place(a, k))' = Place(a, k)
  BY <1>0 DEF Current, Place, EntryAt, Slot
<1>11. NumbersInv(T + 1, num, a)'
  <2>1. (TailNumber(T + 1))' = Number(T)
    <3>1. Number(T) + 0 = Number(T) BY <1>4
    <3>2. QED BY <1>0, <1>2, <3>1 DEF TailNumber, Listing
  <2>2. blockIndex'[Current'].tail = (Slot(a, Current, TailNumber(T + 1)))'
    BY <1>0, <1>1, <1>2, <1>10, <2>1 DEF NumbersInv, Slot
  <2>3. \A f \in Entries : num[f] # -1 => (Place(a, num[f]))' = f
    BY <1>1, <1>10 DEF NumbersInv
  <2>4. \A g \in 1 .. Current : g < Current =>
            num[blockIndex[g].entry[blockIndex[g].tail]] # -1
    BY <1>1 DEF NumbersInv
  <2>5. QED BY <1>0, <1>2, <1>10, <2>2, <2>3, <2>4 DEF NumbersInv
<1>12. ProducerInv(T + 1, num, a)'
  <2>1. (T + 1) % BLOCK_SIZE # 0 => Number(T + 1) = Number(T)
    <3>1. T + 1 \in Nat OBVIOUS
    <3>2. (T + 1) % BLOCK_SIZE # 0 => Number(T + 1) = Last(T + 1) BY <3>1, LastFacts
    <3>3. QED BY <1>2, <3>2
  <2>2. QED BY <1>0, <1>3, <1>4, <2>1 DEF ProducerInv, Preparing, Listing
<1>13. ListedInv(T + 1, H, num, idx)'
  <2>1. \A k : (ReadIn(H, idx, k))' = ReadIn(H, idx, k) BY <1>0 DEF ReadIn, Holds
  <2>2. QED BY <1>0, <1>1, <1>2, <2>1 DEF ListedInv
<1>14. ElementsInv(T + 1, H, num)'
  <2> SUFFICES ASSUME NEW i \in Nat, H <= i, i < T + 1 PROVE Stored(num, i)'
    BY DEF ElementsInv
  <2>1. CASE i = T
    <3>1. Listed(num, Number(T), e)' BY <1>0, <1>3, <1>4 DEF Listed
    <3>2. elements'[value'[e]][T % BLOCK_SIZE] = T % Period BY <1>0, <1>3, <1>5, <1>7
    <3>3. QED BY <2>1, <3>1, <3>2 DEF Stored
  <2>2. CASE i # T
    <3>1. i < T BY <2>2
    <3>2. Stored(num, i) BY <1>1, <3>1 DEF ElementsInv
    <3>3. QED BY <1>8, <2>2, <3>2
  <2>3. QED BY <2>1, <2>2
<1>15. OwnersInv'
  <2>1. \A x : ~ProducerOwns(x) /\ ~ProducerOwns(x)' BY <1>0 DEF ProducerOwns
  <2>2. QED BY <1>0, <1>1, <2>1 DEF OwnersInv
<1>16. ASSUME NEW d \in Consumers, Holds(d) PROVE Stored(num, idx[d])'
  <2>1. idx[d] \in Nat /\ idx[d] < H /\ Stored(num, idx[d]) BY <1>1, <1>16 DEF HolderInv
  <2>2. idx[d] # T BY <2>1
  <2>3. QED BY <1>8, <2>1, <2>2
<1>17. \A d \in Consumers : consumer[d].pc = "free" =>
           /\ consumer[d].block \notin freeBlocks'
           /\ \A f \in Entries : value'[f] # consumer[d].block
  BY <1>0, <1>1 DEF HolderInv
<1>18. /\ \A g \in 1 .. Current : blockIndex'[g].entry = blockIndex[g].entry /\ a[g] = a[g]
       /\ \A f \in Entries : num[f] # -1 => num[f] # -1
       /\ \A f \in Entries : value[f] # Null => num[f] = num[f] /\ value'[f] = value[f]
       /\ \A d \in Consumers : consumer[d].pc = "unlist" =>
              elementsCompletelyDequeued'[consumer[d].block]
                  = elementsCompletelyDequeued[consumer[d].block]
  BY <1>0
<1> HIDE <1>8
<1>19. QED BY <1>0, <1>9, <1>11, <1>12, <1>13, <1>14, <1>15, <1>16, <1>17, <1>18, StepKeeps

(* A slot of the old ring, at its place in the new one. *)
Turned(n, s, C, l, t, x) ==
    (n + s) % C = t /\ (s + ((l - C) + 1)) % C = (t + x) % C

LEMMA TurnedSlot ==
    ASSUME NEW C \in Nat \ {0}, NEW l \in Int, NEW x \in Int, NEW t \in 0 .. C - 1
    PROVE  \E s \in 0 .. C - 1 : Turned(((l + 1) - x) % C, s, C, l, t, x)
<1> DEFINE n == ((l + 1) - x) % C
<1> DEFINE u == (l + 1) - x
<1>0. u \in Int OBVIOUS
<1>1. n = u % C /\ n \in 0 .. C - 1
  <2>1. n = u % C OBVIOUS
  <2> HIDE DEF u, n
  <2>2. QED BY <1>0, <2>1, DivMod
<1> HIDE DEF u, n
<1>2. t \in Int /\ n \in Int /\ t - n \in Int BY <1>1
<1> DEFINE s == (t - n) % C
<1>3. s \in 0 .. C - 1 BY <1>2, DivMod
<1>4. (s + n) % C = t
  <2>1. (((t - n) % C) + n) % C = ((t - n) + n) % C BY <1>2, ModPlus
  <2>2. (t - n) + n = t BY <1>2
  <2>3. t % C = t BY ModSmall
  <2>4. QED BY <2>1, <2>2, <2>3
<1> HIDE DEF s
<1>5. s \in Int /\ n + s = s + n BY <1>2, <1>3
<1>6. (n + s) % C = t BY <1>4, <1>5
<1>7. (u + s) % C = t % C
  <2>1. ((u % C) + s) % C = (u + s) % C BY <1>0, <1>5, ModPlus
  <2>2. t % C = t BY ModSmall
  <2>3. QED BY <1>1, <1>6, <2>1, <2>2
<1>8. ((u + s) + x) % C = (t + x) % C
  <2> DEFINE w == u + s
  <2>1. w \in Int /\ t \in Int /\ x \in Int /\ w % C = t % C BY <1>0, <1>2, <1>5, <1>7
  <2> HIDE DEF w
  <2>2. (w + x) % C = (t + x) % C BY <2>1, ModAdd, ZenonT(60)
  <2>3. QED BY <2>2 DEF w
<1>9. (s + ((l - C) + 1)) % C = ((u + s) + x) % C
  <2> DEFINE w == (u + s) + x
  <2>1. w \in Int /\ s + ((l - C) + 1) = w + C * (-1) /\ -1 \in Int BY <1>5 DEF u
  <2> HIDE DEF w
  <2>2. (w + C * (-1)) % C = w % C BY <2>1, ModShift
  <2>3. QED BY <2>1, <2>2 DEF w
<1>10. (s + ((l - C) + 1)) % C = (t + x) % C BY <1>8, <1>9
<1>11. Turned(n, s, C, l, t, x) BY <1>6, <1>10 DEF Turned
<1>12. QED BY <1>3, <1>11 DEF n

(* The numbers keep their places: the last ones as many as the old ring    *)
(* has slots.                                                              *)
Recent(T, k) == Last(T) - Capacity(Current) < k /\ k <= Last(T)
Begins(T, A) == A[Current + 1] = (Last(T) - Capacity(Current)) + 1

LEMMA GrownPlaces ==
    ASSUME Typed, NEW T \in Nat, NEW num, NEW a, RingsInv(a), NumbersInv(T, num, a),
           NewBlockIndex, NEW A \in [1 .. MaxIndexes -> Int], Begins(T, A),
           NEW k \in Int, Recent(T, k)
    PROVE  (Place(A, k))' = Place(a, k)
<1>0. /\ A[Current + 1] = (Last(T) - Capacity(Current)) + 1
      /\ Last(T) - Capacity(Current) < k /\ k <= Last(T)
  BY DEF Begins, Recent
<1>1. PICK K, C, l, x : /\ K = Current /\ C = Capacity(Current) /\ l = Last(T)
                        /\ x = a[Current]
  OBVIOUS
<1>2. K \in 1 .. Current /\ K \in Nat BY <1>1, TypedFacts
<1>3. C \in Nat \ {0} /\ l \in Int /\ x \in Int
  <2>1. l \in Int BY <1>1, LastFacts
  <2>2. C \in Nat \ {0} BY <1>1, <1>2, RingFacts
  <2>3. a \in [1 .. MaxIndexes -> Int] BY DEF RingsInv
  <2>4. x \in Int BY <1>1, <1>2, <2>3, SlotFacts
  <2>5. QED BY <2>1, <2>2, <2>4
<1>4. /\ Current' = K + 1 /\ Capacity(K + 1) = 2 * C
      /\ \A i \in Slots(K + 1) : i < C =>
             blockIndex'[K + 1].entry[i] = blockIndex[K].entry[(NewTail + i) % C]
  BY <1>1, RingAdded
<1>5. NewTail = ((l + 1) - x) % C
  <2>1. producer.pc \notin Listing BY DEF NewBlockIndex, At, Listing
  <2>2. NewTail = Slot(a, Current, Last(T) + 1) BY <2>1, NewEntryFacts
  <2>3. QED BY <1>1, <2>2 DEF Slot
<1> DEFINE j == k - ((l - C) + 1)
<1>6. j \in 0 .. C - 1 /\ j \in 0 .. 2 * C - 1
  <2>1. l - C < k /\ k <= l BY <1>0, <1>1
  <2>2. QED BY <1>3, <2>1
<1>7. (Slot(A, Current, k))' = j
  <2>1. (Slot(A, Current, k))' = (k - A[K + 1]) % Capacity(K + 1) BY <1>4 DEF Slot
  <2>2. A[K + 1] = (l - C) + 1 BY <1>0, <1>1
  <2> HIDE DEF j
  <2>3. j % (2 * C) = j
    <3>1. 2 * C \in Nat \ {0} BY <1>3
    <3>2. QED BY <1>6, <3>1, ModSmall
  <2>4. QED BY <1>4, <2>1, <2>2, <2>3 DEF j
<1>8. (NewTail + j) % C = Slot(a, K, k)
  <2> DEFINE u == (l + 1) - x
             v == k - x
  <2>1. u \in Int /\ v \in Int /\ j \in Int /\ u + j = v + C * 1 /\ 1 \in Int
    BY <1>3, <1>6
  <2> HIDE DEF u, v, j
  <2>2. ((u % C) + j) % C = (u + j) % C BY <1>3, <2>1, ModPlus, ZenonT(60)
  <2>3. (v + C * 1) % C = v % C BY <1>3, <2>1, ModShift
  <2>4. QED BY <1>1, <1>5, <2>1, <2>2, <2>3 DEF Slot, u, v
<1> HIDE DEF j
<1>9. blockIndex'[K + 1].entry[j] = blockIndex[K].entry[Slot(a, K, k)]
  <2>1. j \in Slots(K + 1) BY <1>4, <1>6 DEF Slots
  <2>2. j < C BY <1>3, <1>6
  <2>3. QED BY <1>4, <1>8, <2>1, <2>2
<1>10. (Place(A, k))' = blockIndex'[Current'].entry[(Slot(A, Current, k))'] BY DEF Place, EntryAt
<1>11. QED BY <1>1, <1>4, <1>7, <1>9, <1>10 DEF Place, EntryAt

LEMMA GrownRings ==
    ASSUME Typed, NEW T \in Nat, NEW num, NEW a, RingsInv(a), NumbersInv(T, num, a),
           NewBlockIndex, NEW A \in [1 .. MaxIndexes -> Int],
           A[Current + 1] = (Last(T) - Capacity(Current)) + 1,
           \A g \in 1 .. Current : A[g] = a[g]
    PROVE  RingsInv(A)'
<1>1. PICK K, C, l, x, n : /\ K = Current /\ C = Capacity(Current) /\ l = Last(T)
                           /\ x = a[Current] /\ n = NewTail
  OBVIOUS
<1>2. K \in 1 .. Current /\ K \in Nat BY <1>1, TypedFacts
<1>3. C \in Nat \ {0} /\ l \in Int /\ x \in Int
  <2>1. l \in Int BY <1>1, LastFacts
  <2>2. C \in Nat \ {0} BY <1>1, <1>2, RingFacts
  <2>3. a \in [1 .. MaxIndexes -> Int] BY DEF RingsInv
  <2>4. x \in Int BY <1>1, <1>2, <2>3, SlotFacts
  <2>5. QED BY <2>1, <2>2, <2>4
<1>4. /\ Current' = K + 1 /\ Capacity(K + 1) = 2 * C
      /\ \A g \in 1 .. K : blockIndex'[g] = blockIndex[g]
      /\ \A i \in Slots(K + 1) :
             blockIndex'[K + 1].entry[i] =
                 IF i < C THEN blockIndex[K].entry[(n + i) % C] ELSE i
  BY <1>1, RingAdded
<1>5. n = ((l + 1) - x) % C /\ n \in Nat
  <2>1. producer.pc \notin Listing BY DEF NewBlockIndex, At, Listing
  <2>2. NewTail = Slot(a, Current, Last(T) + 1) BY <2>1, NewEntryFacts
  <2>3. NewTail \in Nat BY <1>1, <1>2, NewEntryType, RingFacts
  <2>4. QED BY <1>1, <2>2, <2>3 DEF Slot
<1>6. \A s \in 0 .. C - 1 :
          /\ blockIndex[K].entry[s] < C
          /\ \A t \in 0 .. C - 1 : blockIndex[K].entry[s] = blockIndex[K].entry[t] => s = t
  BY <1>1 DEF RingsInv, Slots
<1>7. \A i \in Slots(K + 1) : i \in Nat /\ i < 2 * C BY <1>3, <1>4 DEF Slots
<1>8. \A i \in Slots(K + 1) : i < C => (n + i) % C \in 0 .. C - 1
  <2> SUFFICES ASSUME NEW i \in Slots(K + 1) PROVE (n + i) % C \in 0 .. C - 1
    OBVIOUS
  <2>1. n + i \in Int BY <1>5, <1>7
  <2>2. QED BY <1>3, <2>1, DivMod
<1>9. \A i \in Slots(K + 1) : i < C => blockIndex[K].entry[(n + i) % C] \in Nat
  <2>1. \A s \in Slots(K) : blockIndex[K].entry[s] \in Entries BY <1>1, <1>2, RingFacts
  <2>2. \A e \in Entries : e \in Nat
    <3>1. Capacity(MaxIndexes) \in Nat BY TypedFacts, CapacityFacts
    <3>2. QED BY <3>1 DEF Entries
  <2>3. Slots(K) = 0 .. C - 1 BY <1>1 DEF Slots
  <2>4. QED BY <1>8, <2>1, <2>2, <2>3
<1>10. ASSUME NEW s \in Slots(K + 1), NEW t \in Slots(K + 1),
              blockIndex'[K + 1].entry[s] = blockIndex'[K + 1].entry[t]
       PROVE  s = t
  <2>1. CASE s < C /\ t < C
    <3>1. blockIndex[K].entry[(n + s) % C] = blockIndex[K].entry[(n + t) % C]
      BY <1>4, <1>10, <2>1
    <3>2. (n + s) % C = (n + t) % C BY <1>6, <1>8, <2>1, <3>1
    <3>3. s \in 0 .. C - 1 /\ t \in 0 .. C - 1 /\ n \in Int BY <1>3, <1>5, <1>7, <2>1
    <3> HIDE <1>10
    <3>4. QED BY <1>3, <3>2, <3>3, ModCancel
  <2>2. CASE s < C /\ ~(t < C)
    <3>1. blockIndex'[K + 1].entry[s] < C /\ blockIndex'[K + 1].entry[t] = t
      BY <1>4, <1>6, <1>8, <2>2
    <3>2. QED BY <1>10, <2>2, <3>1
  <2>3. CASE ~(s < C) /\ t < C
    <3>1. blockIndex'[K + 1].entry[t] < C /\ blockIndex'[K + 1].entry[s] = s
      BY <1>4, <1>6, <1>8, <2>3
    <3>2. QED BY <1>10, <2>3, <3>1
  <2>4. CASE ~(s < C) /\ ~(t < C) BY <1>4, <1>10, <2>4
  <2>5. QED BY <2>1, <2>2, <2>3, <2>4
<1>11. ASSUME NEW s \in Slots(K + 1) PROVE blockIndex'[K + 1].entry[s] < 2 * C
  <2>1. CASE s < C
    <3>1. /\ blockIndex'[K + 1].entry[s] = blockIndex[K].entry[(n + s) % C]
          /\ blockIndex[K].entry[(n + s) % C] < C /\ blockIndex[K].entry[(n + s) % C] \in Nat
      BY <1>4, <1>6, <1>8, <1>9, <2>1
    <3>2. QED BY <1>3, <3>1
  <2>2. CASE ~(s < C) BY <1>4, <1>7, <2>2
  <2>3. QED BY <2>1, <2>2
<1>12. ASSUME NEW g \in 1 .. K + 1, NEW s \in Slots(g)
       PROVE  \E t \in Slots(K + 1) :
                  /\ blockIndex'[K + 1].entry[t] = blockIndex'[g].entry[s]
                  /\ (t + A[K + 1]) % Capacity(g) = (s + A[g]) % Capacity(g)
  <2>1. CASE g = K + 1 BY <2>1
  <2>2. CASE g # K + 1
    <3>1. g \in 1 .. K /\ g \in 1 .. Current BY <1>1, <1>2, <2>2
    <3>2. PICK D, y : D = Capacity(g) /\ y = a[g]
      OBVIOUS
    <3>3. PICK t \in Slots(Current) :
              /\ blockIndex[Current].entry[t] = blockIndex[g].entry[s]
              /\ (t + a[Current]) % Capacity(g) = (s + a[g]) % Capacity(g)
      BY <3>1 DEF RingsInv
    <3>4. t \in 0 .. C - 1 BY <1>1 DEF Slots
    <3>5. PICK q \in 0 .. C - 1 :
              (n + q) % C = t /\ (q + ((l - C) + 1)) % C = (t + x) % C
      <4>1. C \in Nat \ {0} /\ l \in Int /\ x \in Int /\ t \in 0 .. C - 1 BY <1>3, <3>4
      <4>2. \E q \in 0 .. C - 1 : Turned(((l + 1) - x) % C, q, C, l, t, x)
        BY <4>1, TurnedSlot
      <4>3. QED BY <1>5, <4>2 DEF Turned
    <3>6. q \in Slots(K + 1) /\ q < C BY <1>3, <1>4 DEF Slots
    <3>7. blockIndex'[K + 1].entry[q] = blockIndex'[g].entry[s]
      BY <1>1, <1>4, <3>1, <3>3, <3>5, <3>6
    <3>8. (q + ((l - C) + 1)) % D = (s + y) % D
      <4>1. D \in Nat \ {0} /\ C % D = 0
        BY <1>1, <1>2, <3>1, <3>2, RingFacts, CapacityDivides
      <4> DEFINE z == q + ((l - C) + 1)
                 w == t + x
      <4>2. z \in Int /\ w \in Int BY <1>3, <3>4
      <4>3. z % C = w % C BY <3>5
      <4> HIDE DEF z, w
      <4>4. (z % C) % D = z % D BY <1>3, <4>1, <4>2, ModOfMod
      <4>5. (w % C) % D = w % D BY <1>3, <4>1, <4>2, ModOfMod
      <4>6. w % D = (s + y) % D BY <1>1, <3>2, <3>3 DEF w
      <4>7. QED BY <4>3, <4>4, <4>5, <4>6 DEF z
    <3>9. A[K + 1] = (l - C) + 1 /\ A[g] = y BY <1>1, <3>1, <3>2
    <3>10. QED BY <3>2, <3>6, <3>7, <3>8, <3>9
  <2>3. QED BY <2>1, <2>2
<1>13. A \in [1 .. MaxIndexes -> Int] OBVIOUS
<1> DEFINE W(r, v, m) ==
        /\ v \in [1 .. MaxIndexes -> Int]
        /\ \A s \in Slots(m) :
               /\ r[m].entry[s] < Capacity(m)
               /\ \A t \in Slots(m) : r[m].entry[s] = r[m].entry[t] => s = t
        /\ \A g \in 1 .. m : \A s \in Slots(g) : \E t \in Slots(m) :
               /\ r[m].entry[t] = r[g].entry[s]
               /\ (t + v[m]) % Capacity(g) = (s + v[g]) % Capacity(g)
<1>14. W(blockIndex', A, K + 1) BY <1>4, <1>10, <1>11, <1>12, <1>13
<1>15. RingsInv(A)' <=> W(blockIndex', A, Current') BY DEF RingsInv
<1>16. QED BY <1>4, <1>14, <1>15

(* The index is doubled. *)
LEMMA GrowBlocks ==
    ASSUME Typed, NEW T \in Nat, NEW H \in Nat, NEW num, NEW a, NEW idx,
           producer.pc # "idle" => T % BLOCK_SIZE = 0,
           BlocksInv(T, H, num, a, idx), NewBlockIndex
    PROVE  \E A : BlocksInv(T, H, num, A, idx)'
<1>0. /\ producer.pc = "insert" /\ ~Usable(NewEntry)
      /\ key' = key /\ value' = value /\ consumer' = consumer /\ tailBlock' = tailBlock
      /\ elements' = elements /\ elementsCompletelyDequeued' = elementsCompletelyDequeued
      /\ freeBlocks' = freeBlocks /\ producer' = producer
  BY DEF NewBlockIndex, At, blocks
<1>1. /\ KeysInv(num) /\ RingsInv(a) /\ NumbersInv(T, num, a) /\ ProducerInv(T, num, a)
      /\ ListedInv(T, H, num, idx) /\ ElementsInv(T, H, num) /\ OwnersInv
      /\ \A d \in Consumers : HolderInv(H, num, a, idx, d)
  BY DEF BlocksInv
<1>2. PICK K, C, l, e : K = Current /\ C = Capacity(Current) /\ l = Last(T) /\ e = NewEntry
  OBVIOUS
<1>3. K \in 1 .. Current /\ K \in Nat \ {0} BY <1>2, TypedFacts
<1>4. l \in Int /\ l >= -1 /\ T = (l + 1) * BLOCK_SIZE /\ BLOCK_SIZE \in Nat \ {0}
  <2>1. T % BLOCK_SIZE = 0 BY <1>0
  <2>2. Last(T) \in Int /\ Last(T) >= -1 /\ T = (Last(T) + 1) * BLOCK_SIZE BY <2>1, LastFacts
  <2>3. QED BY <1>2, <2>2, Sizes
<1>5. C \in Nat \ {0} BY <1>2, <1>3, RingFacts
<1>6. a \in [1 .. MaxIndexes -> Int] BY <1>1 DEF RingsInv
<1>7. producer.pc \notin Listing BY <1>0 DEF Listing
<1>8. e \in Entries /\ e = Place(a, l + 1) /\ value[e] # Null
  <2>1. NewEntry \in Entries BY NewEntryType
  <2>2. NewEntry = Place(a, Last(T) + 1) BY <1>1, <1>7, NewEntryFacts
  <2>3. value[NewEntry] # Null BY <1>0, <1>1, <2>1, UsableFacts
  <2>4. QED BY <1>2, <2>1, <2>2, <2>3
<1>9. /\ num \in [Entries -> Int]
      /\ \A f \in Entries : num[f] # -1 =>
             num[f] \in Nat /\ Place(a, num[f]) = f /\ l - C < num[f] /\ num[f] <= l + 1
  <2>1. num \in [Entries -> Int] BY <1>1 DEF KeysInv
  <2>2. \A f \in Entries : num[f] # -1 => num[f] \in Nat BY <1>1 DEF KeysInv
  <2>3. QED BY <1>1, <1>2, <2>1, <2>2 DEF NumbersInv
<1>10. \A f \in Entries : num[f] # -1 => num[f] <= l
  <2> SUFFICES ASSUME NEW f \in Entries, num[f] # -1 PROVE num[f] <= l
    OBVIOUS
  <2>1. num[e] # l + 1 BY <1>0, <1>1, <1>2, <1>8 DEF ListedInv
  <2>2. num[f] # l + 1 BY <1>8, <1>9, <2>1
  <2>3. QED BY <1>4, <1>9, <2>2
<1>11. T > 0 /\ l \in Nat
  <2>1. num[e] # -1 BY <1>1, <1>8 DEF KeysInv
  <2>2. num[e] \in Nat /\ num[e] <= l BY <1>8, <1>9, <1>10, <2>1
  <2>3. l \in Nat BY <1>4, <2>2
  <2>4. QED BY <1>4, <2>3
<1>12. PICK A : /\ A \in [1 .. MaxIndexes -> Int]
                /\ A[K + 1] = (l - C) + 1 /\ \A g \in 1 .. K : A[g] = a[g]
  <2>1. K + 1 \in 1 .. MaxIndexes BY <1>2, RingAdded
  <2> DEFINE v == (l - C) + 1
             A == [a EXCEPT ![K + 1] = v]
  <2>2. v \in Int BY <1>4, <1>5
  <2> HIDE DEF v
  <2>3. A \in [1 .. MaxIndexes -> Int] /\ A[K + 1] = v /\ \A g \in 1 .. K : A[g] = a[g]
    BY <1>3, <1>6, <2>1, <2>2
  <2>4. QED BY <2>3 DEF v
<1>13. A[Current + 1] = (Last(T) - Capacity(Current)) + 1 /\ \A g \in 1 .. Current : A[g] = a[g]
  BY <1>2, <1>12
<1>14. /\ Current' = K + 1 /\ Capacity(K + 1) = 2 * C
       /\ \A g \in 1 .. K : blockIndex'[g] = blockIndex[g]
       /\ blockIndex'[K + 1].tail = C - 1
  BY <1>2, RingAdded
<1>15. RingsInv(A)' BY <1>1, <1>12, <1>13, GrownRings
<1>16. ASSUME NEW k \in Int, l - C < k, k <= l PROVE (Place(A, k))' = Place(a, k)
  <2>1. Recent(T, k) BY <1>2, <1>16 DEF Recent
  <2>2. Begins(T, A) /\ A \in [1 .. MaxIndexes -> Int] BY <1>12, <1>13 DEF Begins
  <2>3. RingsInv(a) /\ NumbersInv(T, num, a) BY <1>1
  <2>4. QED BY <2>1, <2>2, <2>3, GrownPlaces
<1>17. KeysInv(num)' BY <1>0, <1>1, SameKeys
<1>18. NumbersInv(T, num, A)'
  <2>1. ASSUME NEW f \in Entries, num[f] # -1
        PROVE  /\ (Place(A, num[f]))' = f
               /\ Last(T) - Capacity(K + 1) < num[f] /\ num[f] <= Last(T) + 1
    <3>1. num[f] \in Int /\ l - C < num[f] /\ num[f] <= l /\ Place(a, num[f]) = f
      BY <1>9, <1>10, <2>1
    <3>2. (Place(A, num[f]))' = f BY <1>16, <3>1
    <3>3. l - 2 * C < num[f] /\ num[f] <= l + 1
      <4>1. l \in Int BY <1>4
      <4>2. QED BY <1>5, <3>1, <4>1
    <3>4. QED BY <1>2, <1>14, <3>2, <3>3
  <2>2. blockIndex'[Current'].tail = (Slot(A, Current, TailNumber(T)))'
    <3>1. (TailNumber(T))' = l BY <1>0, <1>2, <1>4, <1>7 DEF TailNumber
    <3>2. (Slot(A, Current, TailNumber(T)))' = (l - A[K + 1]) % (2 * C)
      BY <1>14, <3>1 DEF Slot
    <3>3. l - A[K + 1] = C - 1 BY <1>4, <1>5, <1>12
    <3>4. (C - 1) % (2 * C) = C - 1
      <4>1. 2 * C \in Nat \ {0} /\ C - 1 \in 0 .. 2 * C - 1 BY <1>5
      <4>2. QED BY <4>1, ModSmall
    <3>5. QED BY <1>14, <3>2, <3>3, <3>4
  <2>3. num[Place(a, l)] # -1 BY <1>1, <1>2, <1>11 DEF NumbersInv
  <2>4. num[(Place(A, Last(T)))'] # -1
    <3>1. l - C < l /\ l <= l BY <1>4, <1>5
    <3>2. (Place(A, l))' = Place(a, l) BY <1>4, <1>16, <3>1
    <3>3. QED BY <1>2, <2>3, <3>2
  <2>5. ASSUME NEW g \in 1 .. K PROVE num[blockIndex[g].entry[blockIndex[g].tail]] # -1
    <3>1. CASE g < K BY <1>1, <1>2, <2>5, <3>1 DEF NumbersInv
    <3>2. CASE g = K
      <4>1. TailNumber(T) = Last(T) BY <1>1, <1>7, NewEntryFacts
      <4>2. blockIndex[K].tail = Slot(a, K, l) BY <1>1, <1>2, <4>1 DEF NumbersInv
      <4>3. QED BY <1>2, <2>3, <3>2, <4>2 DEF Place, EntryAt
    <3>3. QED BY <1>3, <3>1, <3>2
  <2>6. \A g \in 1 .. K + 1 : g < K + 1 => num[blockIndex'[g].entry[blockIndex'[g].tail]] # -1
    <3>1. \A g \in 1 .. K + 1 : g < K + 1 => g \in 1 .. K BY <1>3
    <3>2. QED BY <1>14, <2>5, <3>1
  <2>7. QED BY <1>14, <2>1, <2>2, <2>4, <2>6 DEF NumbersInv
<1>19. ProducerInv(T, num, A)'
  <2>1. producer'.block = Null /\ T % BLOCK_SIZE = 0 BY <1>0, <1>1 DEF ProducerInv
  <2>2. QED BY <1>0, <2>1 DEF ProducerInv, Preparing, Listing
<1>20. ListedInv(T, H, num, idx)'
  <2>1. \A k : (ReadIn(H, idx, k))' = ReadIn(H, idx, k) BY <1>0 DEF ReadIn, Holds
  <2>2. QED BY <1>0, <1>1, <2>1 DEF ListedInv
<1>21. ElementsInv(T, H, num)' BY <1>0, <1>1, SameStored DEF ElementsInv
<1>22. OwnersInv'
  <2>1. \A x : ProducerOwns(x)' <=> ProducerOwns(x) BY <1>0 DEF ProducerOwns
  <2>2. QED BY <1>0, <1>1, <2>1 DEF OwnersInv
<1>23. \A d \in Consumers : Holds(d) => Stored(num, idx[d])'
  <2>1. \A d \in Consumers : Holds(d) => Stored(num, idx[d]) BY <1>1 DEF HolderInv
  <2>2. QED BY <1>0, <2>1, SameStored
<1>24. \A d \in Consumers : consumer[d].pc = "free" =>
           /\ consumer[d].block \notin freeBlocks'
           /\ \A f \in Entries : value'[f] # consumer[d].block
  BY <1>0, <1>1 DEF HolderInv
<1>25. \A g \in 1 .. Current : blockIndex'[g].entry = blockIndex[g].entry /\ A[g] = a[g]
  BY <1>2, <1>13, <1>14
<1>26. /\ \A f \in Entries : value[f] # Null => num[f] = num[f] /\ value'[f] = value[f]
       /\ \A f \in Entries : num[f] # -1 => num[f] # -1
       /\ \A d \in Consumers : consumer[d].pc = "unlist" =>
              elementsCompletelyDequeued'[consumer[d].block]
                  = elementsCompletelyDequeued[consumer[d].block]
  BY <1>0
<1>27. BlocksInv(T, H, num, A, idx)'
  <2> HIDE <1>9, <1>10, <1>16
  <2>1. consumer' = consumer BY <1>0
  <2>2. QED BY <2>1, <1>15, <1>17, <1>18, <1>19, <1>20, <1>21, <1>22, <1>23, <1>24, <1>25, <1>26,
               StepKeeps
<1>28. QED BY <1>27

-----------------------------------------------------------------------------
(* Every step *)

(* At the start the list is empty. *)
LEMMA InitBlocks ==
    ASSUME Init
    PROVE  \E num, a, idx : BlocksInv(0, 0, num, a, idx)
<1> DEFINE C == Capacity(1)
<1>1. C \in Nat \ {0} /\ 1 \in 1 .. MaxIndexes
  <2>1. 1 \in Nat \ {0} /\ MaxIndexes \in Nat \ {0} BY ProducerAssumption
  <2>2. QED BY <2>1, CapacityFacts
<1> HIDE DEF C
<1>2. Current = 1 /\ blockIndex[1].tail = C - 1 /\ \A s \in Slots(1) : blockIndex[1].entry[s] = s
  BY DEF Init, Current, Slots, C
<1>3. /\ \A e \in Entries : key[e] = INVALID_BLOCK_BASE /\ value[e] = Null
      /\ \A b \in Blocks : elementsCompletelyDequeued[b] = 0
      /\ freeBlocks = Blocks /\ producer.pc = "idle" /\ producer.block = Null
      /\ \A c \in Consumers : consumer[c].pc = "idle"
  BY DEF Init, IdleProducer, IdleConsumer
<1>4. Null \notin Blocks BY ProducerAssumption
<1>5. BLOCK_SIZE \in Nat \ {0} BY Sizes
<1>6. PICK num : num \in [Entries -> Int] /\ \A e \in Entries : num[e] = -1
  <2> DEFINE f == [e \in Entries |-> -1]
  <2>1. f \in [Entries -> Int] /\ \A e \in Entries : f[e] = -1 OBVIOUS
  <2>2. QED BY <2>1
<1>7. PICK a : a \in [1 .. MaxIndexes -> Int] /\ a[1] = 0
  <2> DEFINE f == [g \in 1 .. MaxIndexes |-> 0]
  <2>1. f \in [1 .. MaxIndexes -> Int] /\ f[1] = 0 BY <1>1
  <2>2. QED BY <2>1
<1>8. PICK idx : idx \in [Consumers -> Nat]
  <2>1. [c \in Consumers |-> 0] \in [Consumers -> Nat] OBVIOUS
  <2>2. QED BY <2>1
<1>9. 0 % BLOCK_SIZE = 0 /\ Last(0) = -1
  <2>1. 0 \in Nat OBVIOUS
  <2>2. 0 % BLOCK_SIZE = 0 BY <1>5, ModSmall
  <2>3. Last(0) \in Int /\ 0 = (Last(0) + 1) * BLOCK_SIZE BY <2>1, <2>2, LastFacts
  <2>4. QED BY <1>5, <2>2, <2>3
<1>10. KeysInv(num) BY <1>3, <1>6 DEF KeysInv
<1>11. RingsInv(a)
  <2>1. Slots(1) = 0 .. C - 1 BY DEF Slots, C
  <2>2. \A s \in Slots(1) : s < C BY <1>1, <2>1
  <2>3. ASSUME NEW g \in 1 .. 1, NEW s \in Slots(g)
        PROVE  \E t \in Slots(1) : /\ blockIndex[1].entry[t] = blockIndex[g].entry[s]
                                   /\ (t + a[1]) % Capacity(g) = (s + a[g]) % Capacity(g)
    <3>1. g = 1 OBVIOUS
    <3>2. QED BY <3>1
  <2>4. QED BY <1>2, <1>7, <2>2, <2>3 DEF RingsInv, C
<1>12. NumbersInv(0, num, a)
  <2>1. TailNumber(0) = -1 BY <1>3, <1>9 DEF TailNumber, Listing
  <2>2. (-1 - 0) % C = C - 1
    <3>1. -1 = C * (-1) + (C - 1) /\ C - 1 \in 0 .. C - 1 BY <1>1
    <3>2. -1 - 0 = -1 /\ -1 \in Int OBVIOUS
    <3>3. QED BY <1>1, <3>1, <3>2, ModIs
  <2>3. Slot(a, 1, -1) = C - 1 BY <1>7, <2>2 DEF Slot, C
  <2>4. QED BY <1>2, <1>6, <2>1, <2>3 DEF NumbersInv
<1>13. ProducerInv(0, num, a) BY <1>3, <1>9 DEF ProducerInv, Preparing, Listing
<1>14. ListedInv(0, 0, num, idx) BY <1>3 DEF ListedInv
<1>15. ElementsInv(0, 0, num) BY DEF ElementsInv
<1>16. \A c \in Consumers : HolderInv(0, num, a, idx, c) BY <1>3 DEF HolderInv, Holds, Holding
<1>17. RivalsInv(idx) BY <1>3 DEF RivalsInv, Holds, Holding
<1>18. OwnersInv BY <1>3, <1>4, <1>5 DEF OwnersInv, ProducerOwns
<1>19. BlocksInv(0, 0, num, a, idx)
  BY <1>8, <1>10, <1>11, <1>12, <1>13, <1>14, <1>15, <1>16, <1>17, <1>18 DEF BlocksInv
<1>20. QED BY <1>19

(* The steps up to the claim leave the blocks alone. *)
LEMMA EarlySteps ==
    ASSUME Typed, CountersTyped, NEW c \in Consumers,
           \/ DequeueLoadsTail(c) \/ DequeueLoadsOvercommit(c)
           \/ DequeueSees(c) \/ DequeueSeesNone(c)
           \/ DequeueCounts(c) \/ DequeueRechecks(c) \/ DequeueIsLate(c) \/ DequeueGivesUp(c)
    PROVE  /\ \E r : Turns(c, r) /\ r.pc \in Early
           /\ consumer[c].pc \in Early /\ UNCHANGED <<index, blocks, producer>>
<1>1. {tailIndex, dequeueOptimisticCount, dequeueOvercommit} \subseteq Indices BY DEF CountersTyped
<1>2. IdleConsumer.pc = "idle" BY DEF IdleConsumer
<1>3. consumer[c].pc \in Early /\ UNCHANGED <<index, blocks, producer>>
  BY DEF DequeueLoadsTail, DequeueLoadsOvercommit, DequeueSees, DequeueSeesNone, DequeueCounts,
     DequeueRechecks, DequeueIsLate, DequeueGivesUp, In, Early
<1>4. CASE DequeueLoadsTail(c)
  <2>1. \E r \in Locals : Turns(c, r) /\ r.pc = "overcommit" BY <1>1, <1>4, CountingSteps
  <2>2. QED BY <1>3, <2>1 DEF Early
<1>5. CASE DequeueLoadsOvercommit(c)
  <2>1. \E r \in Locals : Turns(c, r) /\ r.pc = "look" /\ r.count = dequeueOvercommit
    BY <1>1, <1>5, CountingSteps
  <2>2. QED BY <1>3, <2>1 DEF Early
<1>6. CASE DequeueSees(c)
  <2>1. \E r \in Locals : Turns(c, r) /\ r.pc = "count" /\ r.count = consumer[c].count
    BY <1>1, <1>6, CountingSteps
  <2>2. QED BY <1>3, <2>1 DEF Early
<1>7. CASE DequeueSeesNone(c)
  <2>1. Turns(c, IdleConsumer) BY <1>1, <1>7, CountingSteps
  <2>2. QED BY <1>2, <1>3, <2>1 DEF Early
<1>8. CASE DequeueCounts(c)
  <2>1. \E r \in Locals : /\ Turns(c, r) /\ r.pc = "recheck"
                          /\ r.count = Minus(dequeueOptimisticCount, consumer[c].count)
    BY <1>1, <1>8, CountingSteps
  <2>2. QED BY <1>3, <2>1 DEF Early
<1>9. CASE DequeueRechecks(c)
  <2>1. \E r \in Locals : Turns(c, r) /\ r.pc = "claim" BY <1>1, <1>9, CountingSteps
  <2>2. QED BY <1>3, <2>1 DEF Early
<1>10. CASE DequeueIsLate(c)
  <2>1. \E r \in Locals : Turns(c, r) /\ r.pc = "late" BY <1>1, <1>10, CountingSteps
  <2>2. QED BY <1>3, <2>1 DEF Early
<1>11. CASE DequeueGivesUp(c)
  <2>1. Turns(c, IdleConsumer) BY <1>1, <1>11, CountingSteps
  <2>2. QED BY <1>2, <1>3, <2>1 DEF Early
<1>12. QED BY <1>4, <1>5, <1>6, <1>7, <1>8, <1>9, <1>10, <1>11

(* The steps of a consumer. *)
LEMMA DequeueBlocks ==
    ASSUME Typed, NEW T, NEW H, CountersInv(T, H), NEW num, NEW a, NEW idx,
           BlocksInv(T, H, num, a, idx), NEW c \in Consumers, dequeue(c), ~DequeueClaims(c)
    PROVE  BlocksInv(T, H, num, a, idx)'
<1>1. T \in Nat /\ H \in Nat /\ H <= T /\ CountersTyped BY CountersFacts
<1>2. headIndex \in Indices BY <1>1 DEF CountersTyped
<1>3. producer.pc # "idle" => T % BLOCK_SIZE = 0 BY DEF CountersInv
<1>4. CASE \/ DequeueLoadsTail(c) \/ DequeueLoadsOvercommit(c)
           \/ DequeueSees(c) \/ DequeueSeesNone(c)
           \/ DequeueCounts(c) \/ DequeueRechecks(c) \/ DequeueIsLate(c) \/ DequeueGivesUp(c)
  <2>1. /\ \E r : Turns(c, r) /\ r.pc \in Early
        /\ consumer[c].pc \in Early /\ UNCHANGED <<index, blocks, producer>>
    BY <1>1, <1>4, EarlySteps
  <2>2. PICK r : Turns(c, r) /\ r.pc \in Early BY <2>1
  <2>3. QED BY <1>1, <2>1, <2>2, EarlyKeeps
<1>5. CASE LookupHeader(c) BY <1>1, <1>2, <1>5, HeaderBlocks
<1>6. CASE LookupTail(c) BY <1>1, <1>2, <1>6, TailBlocks
<1>7. CASE LookupEntry(c) BY <1>1, <1>2, <1>7, EntryBlocks
<1>8. CASE DequeueReads(c) BY <1>1, <1>2, <1>8, ReadBlocks
<1>9. CASE UnlistBlock(c) BY <1>1, <1>2, <1>3, <1>9, UnlistBlocks
<1>10. CASE FreeBlock(c) BY <1>1, <1>2, <1>10, FreeBlocks
<1>11. QED BY <1>4, <1>5, <1>6, <1>7, <1>8, <1>9, <1>10, Zenon DEF dequeue

(* The steps of the producer that do not publish, ... *)
LEMMA EnqueueBlocks ==
    ASSUME Typed, NEW T, NEW H, CountersInv(T, H), NEW num, NEW a, NEW idx,
           BlocksInv(T, H, num, a, idx), enqueue, ~(EnqueueInBlock \/ EnqueueInNewBlock)
    PROVE  \E N, A : BlocksInv(T, H, N, A, idx)'
<1>1. T \in Nat /\ H \in Nat /\ H <= T BY CountersFacts
<1>2. (producer.pc # "idle" => T % BLOCK_SIZE = 0) /\ tailIndex = T % Period BY DEF CountersInv
<1>3. CASE EnqueueNewBlock \/ NewBlockIndexFails \/ InsertTail \/ EnqueueFails \/ RewindTail
  <2>1. BlocksInv(T, H, num, a, idx)' BY <1>1, <1>3, ProducerMoves
  <2>2. QED BY <2>1
<1>4. CASE InsertKey
  <2>1. \E N : BlocksInv(T, H, N, a, idx)' BY <1>1, <1>2, <1>4, InsertKeyBlocks
  <2>2. QED BY <2>1
<1>5. CASE NewBlockIndex
  <2>1. \E A : BlocksInv(T, H, num, A, idx)' BY <1>1, <1>2, <1>5, GrowBlocks
  <2>2. QED BY <2>1
<1>6. CASE \E b \in Blocks : RequisitionBlock(b)
  <2>1. BlocksInv(T, H, num, a, idx)' BY <1>1, <1>6, RequisitionBlocks
  <2>2. QED BY <2>1
<1>7. CASE ClearEntry
  <2>1. BlocksInv(T, H, num, a, idx)' BY <1>1, <1>7, ClearBlocks
  <2>2. QED BY <2>1
<1>8. CASE ListBlock
  <2>1. BlocksInv(T, H, num, a, idx)' BY <1>1, <1>2, <1>8, ListBlocks
  <2>2. QED BY <2>1
<1>9. QED BY <1>3, <1>4, <1>5, <1>6, <1>7, <1>8, Zenon DEF enqueue

(* ... and those that do. *)
LEMMA PublishingBlocks ==
    ASSUME Typed, NEW T, NEW H, CountersInv(T, H), NEW num, NEW a, NEW idx,
           BlocksInv(T, H, num, a, idx), EnqueueInBlock \/ EnqueueInNewBlock
    PROVE  BlocksInv(T + 1, H, num, a, idx)'
<1>1. T \in Nat /\ H \in Nat /\ H <= T BY CountersFacts
<1>2. (producer.pc # "idle" => T % BLOCK_SIZE = 0) /\ tailIndex = T % Period BY DEF CountersInv
<1>3. (T % Period) % BLOCK_SIZE = T % BLOCK_SIZE BY <1>1, Wrapped
<1>4. /\ Publish
      /\ \/ producer.pc = "idle" /\ T % BLOCK_SIZE # 0
         \/ producer.pc = "publish" /\ T % BLOCK_SIZE = 0
  BY <1>2, <1>3 DEF EnqueueInBlock, EnqueueInNewBlock, At
<1>5. QED BY <1>1, <1>2, <1>4, PublishBlocks

(* A step of something else. *)
LEMMA StutterBlocks ==
    ASSUME Typed, NEW T, NEW H, CountersInv(T, H), NEW num, NEW a, NEW idx,
           BlocksInv(T, H, num, a, idx), UNCHANGED vars
    PROVE  BlocksInv(T, H, num, a, idx)'
<1>1. UNCHANGED <<blockIndex, key, value, tailBlock, elements, elementsCompletelyDequeued,
                  freeBlocks, producer, consumer>>
  BY DEF vars, index, blocks
<1>2. /\ idx \in [Consumers -> Nat]
      /\ KeysInv(num) /\ RingsInv(a) /\ NumbersInv(T, num, a) /\ ProducerInv(T, num, a)
      /\ ListedInv(T, H, num, idx) /\ ElementsInv(T, H, num)
      /\ \A c \in Consumers : HolderInv(H, num, a, idx, c)
      /\ RivalsInv(idx) /\ OwnersInv
  BY DEF BlocksInv
<1>3. KeysInv(num)' BY <1>1, <1>2, SameKeys
<1>4. RingsInv(a)' BY <1>1, <1>2, SameRings
<1>5. NumbersInv(T, num, a)'
  <2>1. (TailNumber(T))' = TailNumber(T) BY <1>1 DEF TailNumber
  <2>2. QED BY <1>1, <1>2, <2>1, SameNumbers
<1>6. ProducerInv(T, num, a)' BY <1>1, <1>2, SameProducer
<1>7. ListedInv(T, H, num, idx)'
  <2>1. \A k : (ReadIn(H, idx, k))' = ReadIn(H, idx, k) BY <1>1 DEF ReadIn, Holds
  <2>2. QED BY <1>1, <1>2, <2>1 DEF ListedInv
<1>8. ElementsInv(T, H, num)' BY <1>1, <1>2, SameStored DEF ElementsInv
<1>9. OwnersInv' BY <1>1, <1>2 DEF OwnersInv, ProducerOwns
<1>10. \A d \in Consumers : Holds(d) => Stored(num, idx[d])'
  <2>1. \A d \in Consumers : Holds(d) => Stored(num, idx[d]) BY <1>2 DEF HolderInv
  <2>2. QED BY <1>1, <2>1, SameStored
<1>11. \A d \in Consumers : consumer[d].pc = "free" =>
           /\ consumer[d].block \notin freeBlocks'
           /\ \A f \in Entries : value'[f] # consumer[d].block
  BY <1>1, <1>2 DEF HolderInv
<1>12. /\ \A g \in 1 .. Current : blockIndex'[g].entry = blockIndex[g].entry /\ a[g] = a[g]
       /\ \A f \in Entries : value[f] # Null => num[f] = num[f] /\ value'[f] = value[f]
       /\ \A f \in Entries : num[f] # -1 => num[f] # -1
       /\ \A d \in Consumers : consumer[d].pc = "unlist" =>
              elementsCompletelyDequeued'[consumer[d].block]
                  = elementsCompletelyDequeued[consumer[d].block]
  BY <1>1
<1>13. consumer' = consumer BY <1>1
<1>14. QED BY <1>3, <1>4, <1>5, <1>6, <1>7, <1>8, <1>9, <1>10, <1>11, <1>12, <1>13, StepKeeps

LEMMA StreamStep ==
    ASSUME StreamInv, [Next]_vars
    PROVE  StreamInv'
<1>1. PICK T, H : CountersInv(T, H) /\ \E num, a, idx : BlocksInv(T, H, num, a, idx)
  BY DEF StreamInv
<1>2. PICK num, a, idx : BlocksInv(T, H, num, a, idx) BY <1>1
<1>3. Typed /\ CountersSome BY <1>1 DEF StreamInv, CountersSome
<1>4. Typed' BY <1>3, CountersStep
<1>5. ASSUME NEW S, NEW G, NEW N, NEW A, NEW J, CountersInv(S, G)', BlocksInv(S, G, N, A, J)'
      PROVE  StreamInv'
  BY <1>4, <1>5 DEF StreamInv
<1>6. CASE enqueue
  <2>1. CASE EnqueueInBlock \/ EnqueueInNewBlock
    <3>1. CountersInv(T + 1, H)' BY <1>1, <1>3, <1>6, <2>1, EnqueueCounters
    <3>2. BlocksInv(T + 1, H, num, a, idx)' BY <1>1, <1>2, <1>3, <2>1, PublishingBlocks
    <3>3. QED BY <1>5, <3>1, <3>2
  <2>2. CASE ~(EnqueueInBlock \/ EnqueueInNewBlock)
    <3>1. CountersInv(T, H)' BY <1>1, <1>3, <1>6, <2>2, EnqueueCounters
    <3>2. PICK N, A : BlocksInv(T, H, N, A, idx)'
      BY <1>1, <1>2, <1>3, <1>6, <2>2, EnqueueBlocks
    <3>3. QED BY <1>5, <3>1, <3>2
  <2>3. QED BY <2>1, <2>2
<1>7. ASSUME NEW c \in Consumers, dequeue(c) PROVE StreamInv'
  <2>1. CASE DequeueClaims(c)
    <3>1. CountersInv(T, H + 1)' BY <1>1, <1>3, <2>1, ClaimsKeep
    <3>2. T \in Nat /\ H \in Nat /\ H < T
      <4>1. consumer[c].pc = "claim" BY <2>1 DEF DequeueClaims, In
      <4>2. QED BY <1>1, <4>1, CountersFacts
    <3>3. headIndex = H % Period BY <1>1 DEF CountersInv
    <3>4. PICK J : BlocksInv(T, H + 1, num, a, J)'
      BY <1>2, <1>3, <2>1, <3>2, <3>3, ClaimBlocks
    <3>5. QED BY <1>5, <3>1, <3>4
  <2>2. CASE ~DequeueClaims(c)
    <3>1. CountersInv(T, H)' BY <1>1, <1>3, <1>7, <2>2, DequeueCounters
    <3>2. BlocksInv(T, H, num, a, idx)' BY <1>1, <1>2, <1>3, <1>7, <2>2, DequeueBlocks
    <3>3. QED BY <1>5, <3>1, <3>2
  <2>3. QED BY <2>1, <2>2
<1>8. CASE UNCHANGED vars
  <2>1. CountersInv(T, H)' BY <1>1, <1>3, <1>8, CountersStutter
  <2>2. BlocksInv(T, H, num, a, idx)' BY <1>1, <1>2, <1>3, <1>8, StutterBlocks
  <2>3. QED BY <1>5, <2>1, <2>2
<1>9. QED BY <1>6, <1>7, <1>8 DEF Next

(* The inductive invariant of the stream. *)
THEOREM StreamInvHolds == Spec => []StreamInv
<1>1. Init => StreamInv
  <2> SUFFICES ASSUME Init PROVE StreamInv
    OBVIOUS
  <2>1. Typed /\ CountersInv(0, 0) BY InitTyped, InitCounters
  <2>2. \E num, a, idx : BlocksInv(0, 0, num, a, idx) BY InitBlocks
  <2>3. QED BY <2>1, <2>2 DEF StreamInv
<1>2. StreamInv /\ [Next]_vars => StreamInv' BY StreamStep
<1>3. QED BY <1>1, <1>2, PTL DEF Spec

(* Every variable has its type, and no block is counted empty more often   *)
(* than it has elements: what has been counted are its elements that have  *)
(* been claimed and read, each once.                                       *)
THEOREM TypeOKHolds == Spec => []TypeOK
<1>1. StreamInv => TypeOK
  <2> SUFFICES ASSUME StreamInv PROVE TypeOK
    OBVIOUS
  <2>1. PICK T, H : CountersInv(T, H) /\ \E num, a, idx : BlocksInv(T, H, num, a, idx)
    BY DEF StreamInv
  <2>2. Typed /\ CountersTyped /\ OwnersInv BY <2>1, CountersFacts DEF StreamInv, BlocksInv
  <2>3. elementsCompletelyDequeued \in [Blocks -> 0..BLOCK_SIZE]
    <3>1. elementsCompletelyDequeued \in [Blocks -> Nat] BY <2>2 DEF Typed
    <3>2. \A b \in Blocks : elementsCompletelyDequeued[b] <= BLOCK_SIZE BY <2>2 DEF OwnersInv
    <3>3. BLOCK_SIZE \in Nat BY Sizes
    <3>4. \A b \in Blocks : elementsCompletelyDequeued[b] \in 0..BLOCK_SIZE BY <3>1, <3>2, <3>3
    <3>5. QED BY <3>1, <3>4
  <2>4. producer.block \in Blocks \cup {Null} /\ \A c \in Consumers : consumer[c].pc \in Pcs
    BY <2>2 DEF Typed, Producer, Locals, Ids
  <2>5. tailBlock \in Blocks \cup {Null} /\ value \in [Entries -> Blocks \cup {Null}]
        /\ key \in [Entries -> Indices]
        /\ elements \in [Blocks -> [0..(BLOCK_SIZE - 1) -> Indices \cup {Null}]]
    BY <2>2 DEF Typed, Ids
  <2>6. freeBlocks \subseteq Blocks BY <2>2 DEF OwnersInv
  <2>7. QED BY <2>2, <2>3, <2>4, <2>5, <2>6 DEF TypeOK, CountersTyped
<1>2. QED BY <1>1, StreamInvHolds, PTL

(* A consumer that has looked its block up has found it: the entry is the  *)
(* one with the key of its element, and the block in it is in use.  The    *)
(* keys that a consumer may have seen in between are those of a window of  *)
(* block numbers no longer than the index, and its slot in an older index  *)
(* is that number's too.                                                   *)
THEOREM LookupFindsBlockHolds == Spec => []LookupFindsBlock
<1>1. StreamInv => LookupFindsBlock
  <2> SUFFICES ASSUME StreamInv, NEW c \in Consumers, consumer[c].pc = "read"
               PROVE  /\ key[consumer[c].entry] = Base(consumer[c].index)
                      /\ consumer[c].block # Null
                      /\ consumer[c].block \notin freeBlocks
    BY DEF LookupFindsBlock
  <2>1. PICK T, H, num, a, idx : BlocksInv(T, H, num, a, idx) BY DEF StreamInv
  <2>2. Typed BY DEF StreamInv
  <2>3. KeysInv(num) /\ NumbersInv(T, num, a) /\ OwnersInv /\ HolderInv(H, num, a, idx, c)
    BY <2>1 DEF BlocksInv
  <2> DEFINE e == consumer[c].entry
             i == idx[c]
  <2>4. e \in Entries BY <2>2 DEF Typed, Locals
  <2>5. Holds(c) BY DEF Holds, Holding
  <2>6. /\ i \in Nat /\ consumer[c].index = i % Period
        /\ num[e] = Number(i) /\ value[e] # Null /\ value[e] = consumer[c].block
    BY <2>3, <2>5 DEF HolderInv, Listed
  <2>7. key[e] = (num[e] * BLOCK_SIZE) % Period
    <3>1. num[e] # -1 BY <2>3, <2>4, <2>6 DEF KeysInv
    <3>2. QED BY <2>2, <2>3, <2>4, <3>1, ListFacts
  <2>8. Base(i % Period) = (Number(i) * BLOCK_SIZE) % Period BY <2>6, KeyFacts
  <2>9. value[e] \notin freeBlocks BY <2>3, <2>4 DEF OwnersInv
  <2>10. QED BY <2>6, <2>7, <2>8, <2>9
<1>2. QED BY <1>1, StreamInvHolds, PTL

(* The keys of the blocks that are listed at one time differ. *)
LEMMA KeysDiffer ==
    ASSUME Typed, NEW k \in Nat, NEW j \in Nat,
           (k * BLOCK_SIZE) % Period = (j * BLOCK_SIZE) % Period,
           k - j < Capacity(Current), j - k < Capacity(Current)
    PROVE  k = j
<1>1. PICK B, P, C : B = BLOCK_SIZE /\ P = Period /\ C = Capacity(Current)
  OBVIOUS
<1>2. B \in Nat \ {0} /\ P \in Nat \ {0} BY <1>1, Sizes
<1>3. Current \in 1 .. MaxIndexes /\ Current \in 1 .. Current BY TypedFacts
<1>4. C \in Nat \ {0} BY <1>1, <1>3, RingFacts
<1>5. C * B <= P
  <2>1. PICK Q \in Int : P = B * (C * Q) BY <1>1, <1>3, PeriodDivides
  <2>2. Q >= 1
    <3> SUFFICES ASSUME Q <= 0 PROVE FALSE
      BY <2>1
    <3>1. C * Q <= 0 /\ C * Q \in Int BY <1>4
    <3> DEFINE y == C * Q
    <3>2. y <= 0 /\ y \in Int /\ P = B * y BY <2>1, <3>1
    <3> HIDE DEF y
    <3>3. B * y <= 0 BY <1>2, <3>2
    <3>4. QED BY <1>2, <3>2, <3>3
  <2>3. C * Q >= C /\ C * Q \in Int BY <1>4, <2>2
  <2> DEFINE y == C * Q
  <2>4. y >= C /\ y \in Int /\ P = B * y BY <2>1, <2>3
  <2> HIDE DEF y
  <2>5. B * y >= B * C /\ B * C = C * B BY <1>2, <1>4, <2>4
  <2>6. QED BY <2>4, <2>5
<1>6. k - j <= C - 1 /\ j - k <= C - 1 BY <1>1, <1>4
<1>7. k * B - j * B < P /\ j * B - k * B < P
  <2>1. k * B - j * B = (k - j) * B /\ j * B - k * B = (j - k) * B BY <1>2
  <2>2. (C - 1) * B < C * B /\ (C - 1) * B \in Int BY <1>2, <1>4
  <2>3. (k - j) * B <= (C - 1) * B BY <1>2, <1>4, <1>6
  <2>4. (j - k) * B <= (C - 1) * B BY <1>2, <1>4, <1>6
  <2>5. C * B \in Int /\ (k - j) * B \in Int /\ (j - k) * B \in Int BY <1>2, <1>4
  <2>6. QED BY <1>2, <1>5, <2>1, <2>2, <2>3, <2>4, <2>5
<1>8. k * B \in Int /\ j * B \in Int /\ (k * B) % P = (j * B) % P BY <1>1, <1>2
<1>9. k * B = j * B BY <1>2, <1>7, <1>8, ModNear
<1>10. QED BY <1>2, <1>9

(* A block that is listed while nobody is at work has elements that are    *)
(* not read, or is being filled.                                           *)
LEMMA ListedIsNeeded ==
    ASSUME Typed, NEW T \in Nat, NEW H \in Nat, NEW num, NEW a, NEW idx,
           BlocksInv(T, H, num, a, idx), producer.pc = "idle",
           \A c \in Consumers : consumer[c].pc = "idle",
           NEW e \in Entries, value[e] # Null
    PROVE  /\ num[e] \in Nat
           /\ \/ \E i \in Nat : H <= i /\ i < T /\ Number(i) = num[e]
              \/ T % BLOCK_SIZE # 0 /\ Number(T) = num[e]
<1>1. KeysInv(num) /\ NumbersInv(T, num, a) /\ ListedInv(T, H, num, idx) /\ OwnersInv
  BY DEF BlocksInv
<1>2. value[e] \in Blocks /\ num[e] \in Nat /\ num[e] <= Last(T) + 1 /\ num[e] # Last(T) + 1
  <2>1. value[e] \in Blocks BY DEF Typed, Ids
  <2>2. num[e] # -1 BY <1>1 DEF KeysInv
  <2>3. num[e] \in Nat BY <1>1, <2>2 DEF KeysInv
  <2>4. num[e] <= Last(T) + 1 BY <1>1, <2>2 DEF NumbersInv
  <2>5. num[e] # Last(T) + 1 BY <1>1 DEF ListedInv
  <2>6. QED BY <2>1, <2>3, <2>4, <2>5
<1>3. PICK k, l, R : k = num[e] /\ l = Last(T) /\ R = ReadIn(H, idx, k)
  OBVIOUS
<1>4. l \in Int BY <1>3, LastFacts
<1>5. k \in Nat /\ k \in Int /\ k <= l BY <1>2, <1>3, <1>4
<1>6. elementsCompletelyDequeued[value[e]] # BLOCK_SIZE BY <1>1 DEF OwnersInv
<1>7. Cardinality(R) # BLOCK_SIZE BY <1>1, <1>3, <1>6 DEF ListedInv
<1>8. /\ IsFiniteSet(Members(k)) /\ Cardinality(Members(k)) = BLOCK_SIZE
      /\ \A i \in Members(k) : i \in Int /\ Number(i) = k
  BY <1>5, MemberFacts
<1>9. R \subseteq Members(k) BY <1>3 DEF ReadIn
<1>10. PICK i \in Members(k) : i \notin R
  <2>1. R # Members(k) BY <1>7, <1>8
  <2>2. QED BY <1>9, <2>1
<1>11. ~(i < H) BY <1>3, <1>10 DEF ReadIn, Holds, Holding
<1>12. i \in Nat /\ H <= i /\ Number(i) = k
  <2>1. i \in Int /\ Number(i) = k BY <1>8
  <2>2. QED BY <1>11, <2>1
<1>13. CASE i < T BY <1>2, <1>3, <1>12, <1>13
<1>14. CASE ~(i < T)
  <2>1. PICK B : B = BLOCK_SIZE
    OBVIOUS
  <2>2. B \in Nat \ {0} BY <2>1, Sizes
  <2>3. i \in (k * B) .. (k * B + B - 1) BY <1>10, <2>1 DEF Members
  <2>4. i < (k + 1) * B
    <3>1. (k + 1) * B = k * B + B /\ k * B \in Int BY <1>5, <2>2
    <3>2. QED BY <2>2, <2>3, <3>1
  <2>5. T < (k + 1) * B
    <3>1. (k + 1) * B \in Int BY <1>5, <2>2
    <3>2. QED BY <1>12, <1>14, <2>4, <3>1
  <2>6. T % B # 0
    <3> SUFFICES ASSUME T % B = 0 PROVE FALSE
      OBVIOUS
    <3>1. T = (l + 1) * B BY <1>3, <2>1, LastFacts
    <3>2. (k + 1) * B <= (l + 1) * B BY <1>4, <1>5, <2>2
    <3>3. (k + 1) * B \in Int /\ (l + 1) * B \in Int BY <1>4, <1>5, <2>2
    <3>4. QED BY <2>5, <3>1, <3>2, <3>3
  <2>7. Number(T) = l BY <1>3, <2>1, <2>6, LastFacts
  <2>8. k * B <= T
    <3>1. T = B * l + (T % B) /\ T % B \in 0 .. B - 1 BY <2>1, <2>7, Wrapped
    <3>2. k * B <= B * l BY <1>4, <1>5, <2>2
    <3>3. k * B \in Int /\ B * l \in Int BY <1>4, <1>5, <2>2
    <3>4. QED BY <2>2, <3>1, <3>2, <3>3
  <2>9. Number(T) = k BY <1>5, <2>1, <2>5, <2>8, NumberIs
  <2>10. QED BY <1>2, <1>3, <2>1, <2>6, <2>9
<1>15. QED BY <1>13, <1>14

(* The keys of the listed entries are then the bases of the blocks needed. *)
LEMMA NeededKeys ==
    ASSUME Typed, NEW T, NEW H, CountersInv(T, H), NEW num, NEW a, NEW idx,
           BlocksInv(T, H, num, a, idx), producer.pc = "idle",
           \A c \in Consumers : consumer[c].pc = "idle"
    PROVE  /\ \A x \in BlocksNeeded : \E e \in Entries : value[e] # Null /\ key[e] = x
           /\ \A e \in Entries : value[e] # Null => key[e] \in BlocksNeeded
<1>1. T \in Nat /\ H \in Nat /\ H <= T BY CountersFacts
<1>2. tailIndex = T % Period /\ headIndex = H % Period BY DEF CountersInv
<1>3. KeysInv(num) /\ NumbersInv(T, num, a) /\ ElementsInv(T, H, num) /\ ProducerInv(T, num, a)
  BY DEF BlocksInv
<1>4. Size = T - H BY SizeIs
<1>5. ASSUME NEW i \in Nat
      PROVE  /\ Base(i % Period) = (Number(i) * BLOCK_SIZE) % Period
             /\ (i % Period) % BLOCK_SIZE = i % BLOCK_SIZE
  BY KeyFacts, Wrapped
<1>6. ASSUME NEW n \in Nat PROVE Plus(headIndex, n) = (H + n) % Period
  <2>1. H \in Int /\ n \in Int /\ Period \in Nat \ {0} BY <1>1, Sizes
  <2>2. ((H % Period) + n) % Period = (H + n) % Period BY <2>1, ModPlus
  <2>3. QED BY <1>2, <2>2 DEF Plus
<1>7. \A e \in Entries : num[e] # -1 => key[e] = (num[e] * BLOCK_SIZE) % Period
  BY <1>3 DEF KeysInv
<1>8. \A e \in Entries : value[e] # Null => num[e] # -1 BY <1>3 DEF KeysInv
<1>9. ASSUME NEW x \in BlocksNeeded PROVE \E e \in Entries : value[e] # Null /\ key[e] = x
  <2>1. CASE x \in {Base(Plus(headIndex, i)) : i \in 0..(Size - 1)}
    <3>1. PICK n \in 0..(Size - 1) : x = Base(Plus(headIndex, n)) BY <2>1
    <3>2. n \in Nat /\ H + n \in Nat /\ H <= H + n /\ H + n < T BY <1>1, <1>4
    <3>3. x = (Number(H + n) * BLOCK_SIZE) % Period BY <1>5, <1>6, <3>1, <3>2
    <3>4. Stored(num, H + n) BY <1>3, <3>2 DEF ElementsInv
    <3>5. PICK e \in Entries : Listed(num, Number(H + n), e) BY <3>4 DEF Stored
    <3>6. QED BY <1>7, <1>8, <3>3, <3>5 DEF Listed
  <2>2. CASE tailIndex % BLOCK_SIZE # 0 /\ x = Base(tailIndex)
    <3>1. T % BLOCK_SIZE # 0 /\ x = (Number(T) * BLOCK_SIZE) % Period BY <1>1, <1>2, <1>5, <2>2
    <3>2. PICK e \in Entries : num[e] = Number(T) /\ value[e] = tailBlock /\ tailBlock # Null
      BY <1>3, <3>1 DEF ProducerInv
    <3>3. QED BY <1>7, <1>8, <3>1, <3>2
  <2>3. QED BY <2>1, <2>2 DEF BlocksNeeded
<1>10. ASSUME NEW e \in Entries, value[e] # Null PROVE key[e] \in BlocksNeeded
  <2>1. key[e] = (num[e] * BLOCK_SIZE) % Period BY <1>7, <1>8, <1>10
  <2>2. \/ \E i \in Nat : H <= i /\ i < T /\ Number(i) = num[e]
        \/ T % BLOCK_SIZE # 0 /\ Number(T) = num[e]
    BY <1>1, <1>10, ListedIsNeeded
  <2>3. CASE \E i \in Nat : H <= i /\ i < T /\ Number(i) = num[e]
    <3>1. PICK i \in Nat : H <= i /\ i < T /\ Number(i) = num[e] BY <2>3
    <3>2. i - H \in 0..(Size - 1) /\ i - H \in Nat /\ H + (i - H) = i BY <1>1, <1>4, <3>1
    <3>3. Base(Plus(headIndex, i - H)) = Base(i % Period) BY <1>6, <3>2
    <3>4. key[e] = Base(Plus(headIndex, i - H)) BY <1>5, <2>1, <3>1, <3>3
    <3>5. QED BY <3>2, <3>4 DEF BlocksNeeded
  <2>4. CASE T % BLOCK_SIZE # 0 /\ Number(T) = num[e]
    <3>1. tailIndex % BLOCK_SIZE # 0 /\ key[e] = Base(tailIndex) BY <1>1, <1>2, <1>5, <2>1, <2>4
    <3>2. QED BY <3>1 DEF BlocksNeeded
  <2>5. QED BY <2>2, <2>3, <2>4
<1>11. QED BY <1>9, <1>10

(* Between calls the blocks in use are those that the elements need, one   *)
(* for one: a block in use is in an entry of the list, whose key is the    *)
(* base of an element that is not read or of the end of the queue, and no  *)
(* two entries have the same block or the same key.                        *)
THEOREM NoBlockLeaksHolds == Spec => []NoBlockLeaks
<1>1. StreamInv => NoBlockLeaks
  <2> SUFFICES ASSUME StreamInv, producer.pc = "idle",
                      \A c \in Consumers : consumer[c].pc = "idle"
               PROVE  Cardinality(Blocks \ freeBlocks) = Cardinality(BlocksNeeded)
    BY DEF NoBlockLeaks
  <2>1. PICK T, H : CountersInv(T, H) /\ \E num, a, idx : BlocksInv(T, H, num, a, idx)
    BY DEF StreamInv
  <2>2. PICK num, a, idx : BlocksInv(T, H, num, a, idx) BY <2>1
  <2>3. Typed BY DEF StreamInv
  <2>4. KeysInv(num) /\ NumbersInv(T, num, a) /\ ListedInv(T, H, num, idx) /\ OwnersInv
    BY <2>2 DEF BlocksInv
  <2>5. /\ \A x \in BlocksNeeded : \E e \in Entries : value[e] # Null /\ key[e] = x
        /\ \A e \in Entries : value[e] # Null => key[e] \in BlocksNeeded
    BY <2>1, <2>2, <2>3, NeededKeys
  <2> DEFINE U == Blocks \ freeBlocks
  <2>6. \A b \in U : \E e \in Entries : value[e] = b /\ value[e] # Null
    <3>1. Null \notin Blocks BY ProducerAssumption
    <3>2. \A b : ~ProducerOwns(b) BY DEF ProducerOwns
    <3>3. QED BY <2>4, <3>1, <3>2 DEF OwnersInv
  <2>7. \A e \in Entries : value[e] # Null => value[e] \in U
    BY <2>3, <2>4 DEF OwnersInv, Typed, Ids
  <2>8. \A e, f \in Entries : value[e] = value[f] /\ value[e] # Null => e = f
    BY <2>4 DEF OwnersInv
  <2>9. ASSUME NEW e \in Entries, NEW f \in Entries,
               value[e] # Null, value[f] # Null, key[e] = key[f]
        PROVE  e = f
    <3>1. num[e] \in Nat /\ key[e] = (num[e] * BLOCK_SIZE) % Period
          /\ num[f] \in Nat /\ key[f] = (num[f] * BLOCK_SIZE) % Period
          /\ num[e] # -1 /\ num[f] # -1
      BY <2>3, <2>4, <2>9, ListFacts
    <3>2. /\ Last(T) - Capacity(Current) < num[e] /\ num[e] <= Last(T) + 1
          /\ Last(T) - Capacity(Current) < num[f] /\ num[f] <= Last(T) + 1
      BY <2>4, <3>1 DEF NumbersInv
    <3>3. num[e] # Last(T) + 1 /\ num[f] # Last(T) + 1 BY <2>4, <2>9 DEF ListedInv
    <3>4. num[e] - num[f] < Capacity(Current) /\ num[f] - num[e] < Capacity(Current)
      <4>1. T \in Nat BY <2>1 DEF CountersInv
      <4>2. Last(T) \in Int BY <4>1, LastFacts
      <4>3. Current \in 1 .. Current BY <2>3, TypedFacts
      <4>4. Capacity(Current) \in Nat BY <2>3, <4>3, RingFacts
      <4>5. QED BY <3>1, <3>2, <3>3, <4>2, <4>4
    <3>5. num[e] = num[f] BY <2>3, <2>9, <3>1, <3>4, KeysDiffer
    <3>6. QED BY <2>3, <2>4, <3>1, <3>5, ListFacts
  <2> DEFINE E(b) == CHOOSE e \in Entries : value[e] = b /\ value[e] # Null
             F == [b \in U |-> key[E(b)]]
  <2>10. \A b \in U : E(b) \in Entries /\ value[E(b)] = b /\ value[E(b)] # Null BY <2>6
  <2> HIDE DEF E, U
  <2>11. F \in [U -> BlocksNeeded] BY <2>5, <2>10
  <2>12. \A b, d \in U : F[b] = F[d] => b = d
    <3> SUFFICES ASSUME NEW b \in U, NEW d \in U, F[b] = F[d] PROVE b = d
      OBVIOUS
    <3>1. key[E(b)] = key[E(d)] OBVIOUS
    <3>2. E(b) = E(d) BY <2>9, <2>10, <3>1
    <3>3. QED BY <2>10, <3>2
  <2>13. \A x \in BlocksNeeded : \E b \in U : F[b] = x
    <3> SUFFICES ASSUME NEW x \in BlocksNeeded PROVE \E b \in U : F[b] = x
      OBVIOUS
    <3>1. PICK e \in Entries : value[e] # Null /\ key[e] = x BY <2>5
    <3>2. value[e] \in U BY <2>7, <3>1
    <3>3. E(value[e]) = e BY <2>8, <2>10, <3>1, <3>2
    <3>4. QED BY <3>1, <3>2, <3>3
  <2> HIDE DEF F
  <2>14. F \in Bijection(U, BlocksNeeded) BY <2>11, <2>12, <2>13, Fun_IsBij
  <2>15. ExistsBijection(U, BlocksNeeded) BY <2>14 DEF ExistsBijection
  <2>16. ExistsBijection(BlocksNeeded, U) BY <2>15, Fun_ExistsBijSymmetric
  <2>17. IsFiniteSet(BlocksNeeded)
    <3>1. BlocksNeeded \subseteq Indices
      <4>1. \A e \in Entries : key[e] \in Indices BY <2>3 DEF Typed
      <4>2. QED BY <2>5, <4>1
    <3>2. IsFiniteSet(Indices)
      <4>1. 0 \in Int /\ Period - 1 \in Int BY Sizes
      <4>2. IsFiniteSet(0 .. (Period - 1)) BY <4>1, FS_Interval
      <4>3. QED BY <4>2 DEF Indices
    <3>3. QED BY <3>1, <3>2, FS_Subset
  <2>18. Cardinality(U) = Cardinality(BlocksNeeded) BY <2>16, <2>17, FS_Bijection
  <2>19. QED BY <2>18 DEF U
<1>2. QED BY <1>1, StreamInvHolds, PTL


-----------------------------------------------------------------------------
(* The stream is a first-in first-out line *)

(* The line and what is in the consumers' hands, as the refinement has them. *)
StreamLine == [i \in 1..Size |-> Plus(headIndex, i - 1)]
InHand == [c \in Consumers |-> Taken(c)]

(* The line from number H to number T. *)
Line(T, H) == [i \in 1 .. T - H |-> (H + i - 1) % Period]

LinesAgree == \A T, H : CountersInv(T, H) => StreamLine = Line(T, H)
HandsAgree == \A c \in Consumers : Taken(c) = IF Holds(c) THEN consumer[c].index ELSE Null

LEMMA LineIs == StreamInv => LinesAgree
<1> SUFFICES ASSUME NEW T, NEW H, CountersInv(T, H) PROVE StreamLine = Line(T, H)
  BY DEF LinesAgree
<1>1. T \in Nat /\ H \in Nat /\ H <= T BY CountersFacts
<1>2. Size = T - H BY SizeIs
<1>3. ASSUME NEW i \in 1 .. T - H PROVE Plus(headIndex, i - 1) = (H + i - 1) % Period
  <2>1. H \in Int /\ i - 1 \in Int /\ H + (i - 1) = H + i - 1 BY <1>1
  <2>2. headIndex = H % Period /\ Period \in Nat \ {0} BY Sizes DEF CountersInv
  <2>3. ((H % Period) + (i - 1)) % Period = (H + (i - 1)) % Period BY <2>1, <2>2, ModPlus
  <2>4. QED BY <2>1, <2>2, <2>3 DEF Plus
<1>4. QED BY <1>2, <1>3 DEF StreamLine, Line

(* At the tail an element is added, ... *)
LEMMA LineGrows ==
    ASSUME NEW T \in Nat, NEW H \in Nat, H <= T
    PROVE  Line(T + 1, H) = Append(Line(T, H), T % Period)
<1> DEFINE n == T - H
           f(i) == (H + i - 1) % Period
<1>1. n \in Nat /\ (T + 1) - H = n + 1 /\ f(n + 1) = T % Period
  <2>1. H + (n + 1) - 1 = T OBVIOUS
  <2>2. QED BY <2>1
<1>2. Line(T, H) = [i \in 1 .. n |-> f(i)] /\ Line(T + 1, H) = [i \in 1 .. n + 1 |-> f(i)]
  BY <1>1 DEF Line
<1> HIDE DEF n, f
<1>3. Append([i \in 1 .. n |-> f(i)], f(n + 1)) = [i \in 1 .. n + 1 |-> f(i)]
  <2> DEFINE s == [i \in 1 .. n |-> f(i)]
             S == {f(i) : i \in 1 .. n + 1}
  <2>1. s \in Seq(S) /\ Len(s) = n BY <1>1
  <2> HIDE DEF S
  <2>2. Append(s, f(n + 1)) = [i \in 1 .. n + 1 |-> IF i = n + 1 THEN f(n + 1) ELSE s[i]]
    BY <2>1, <1>1
  <2>3. QED BY <1>1, <2>2
<1>4. QED BY <1>1, <1>2, <1>3

(* ... and at the head one is taken. *)
LEMMA LineShrinks ==
    ASSUME NEW T \in Nat, NEW H \in Nat, H < T
    PROVE  /\ Line(T, H) # <<>> /\ Head(Line(T, H)) = H % Period
           /\ Tail(Line(T, H)) = Line(T, H + 1)
<1> DEFINE n == T - H
           f(i) == (H + i - 1) % Period
           g(i) == ((H + 1) + i - 1) % Period
           s == [i \in 1 .. n |-> f(i)]
<1>1. n \in Nat \ {0} /\ T - (H + 1) = n - 1 /\ f(1) = H % Period
  <2>1. H + 1 - 1 = H OBVIOUS
  <2>2. QED BY <2>1
<1>2. \A i \in Nat : g(i) = f(i + 1)
  <2>1. \A i \in Nat : (H + 1) + i - 1 = H + (i + 1) - 1 OBVIOUS
  <2>2. QED BY <2>1
<1>3. Line(T, H) = s /\ Line(T, H + 1) = [i \in 1 .. n - 1 |-> g(i)] BY <1>1 DEF Line
<1> HIDE DEF n, f, g
<1>4. s \in Seq({f(i) : i \in 1 .. n}) /\ Len(s) = n BY <1>1
<1>5. s # <<>> /\ Head(s) = f(1) BY <1>1, <1>4
<1>6. Tail(s) = [i \in 1 .. n - 1 |-> s[i + 1]]
  <2> DEFINE S == {f(i) : i \in 1 .. n}
  <2>1. s \in Seq(S) /\ Len(s) = n BY <1>4
  <2> HIDE DEF s, S
  <2>2. Tail(s) \in Seq(S) /\ Len(Tail(s)) = n - 1 BY <1>1, <2>1
  <2>3. \A i \in 1 .. n - 1 : Tail(s)[i] = s[i + 1] BY <1>1, <2>1
  <2>4. Tail(s) \in [1 .. n - 1 -> S]
    <3> DEFINE t == Tail(s)
    <3>1. t \in Seq(S) /\ Len(t) = n - 1 BY <2>2
    <3> HIDE DEF t
    <3>2. t \in [1 .. n - 1 -> S] BY <3>1
    <3>3. QED BY <3>2 DEF t
  <2>5. Tail(s) = [i \in 1 .. n - 1 |-> Tail(s)[i]] BY <2>4
  <2>6. QED BY <2>3, <2>5
<1>7. \A i \in 1 .. n - 1 : s[i + 1] = g(i) BY <1>1, <1>2
<1>8. QED BY <1>1, <1>3, <1>5, <1>6, <1>7

(* What a consumer reads is the element it has claimed: the block it found *)
(* is the one in which that element is stored.                             *)
LEMMA HandIs == StreamInv => HandsAgree
<1> SUFFICES ASSUME StreamInv, NEW c \in Consumers
             PROVE  Taken(c) = IF Holds(c) THEN consumer[c].index ELSE Null
  BY DEF HandsAgree
<1> DEFINE me == consumer[c]
<1>1. CASE me.pc # "read" BY <1>1 DEF Taken, Holds, Holding
<1>2. CASE me.pc = "read"
  <2>1. PICK T, H, num, a, idx : BlocksInv(T, H, num, a, idx) BY DEF StreamInv
  <2>2. Typed /\ KeysInv(num) /\ NumbersInv(T, num, a) /\ HolderInv(H, num, a, idx, c)
    BY <2>1 DEF StreamInv, BlocksInv
  <2> DEFINE i == idx[c]
             e == me.entry
  <2>3. Holds(c) /\ e \in Entries BY <1>2, <2>2 DEF Holds, Holding, Typed, Locals
  <2>4. /\ i \in Nat /\ me.index = i % Period /\ Stored(num, i)
        /\ Listed(num, Number(i), e) /\ value[e] = me.block
    BY <1>2, <2>2, <2>3 DEF HolderInv
  <2>5. PICK f \in Entries : /\ Listed(num, Number(i), f)
                             /\ elements[value[f]][i % BLOCK_SIZE] = i % Period
    BY <2>4 DEF Stored
  <2>6. f = e
    <3>1. Place(a, Number(i)) = e /\ Place(a, Number(i)) = f
      <4>1. Number(i) \in Nat BY <2>4, Wrapped
      <4>2. QED BY <2>2, <2>3, <2>4, <2>5, <4>1, ListFacts
    <3>2. QED BY <3>1
  <2>7. me.block # Null BY <2>4 DEF Listed
  <2>8. me.index % BLOCK_SIZE = i % BLOCK_SIZE BY <2>4, Wrapped
  <2>9. Taken(c) = elements[me.block][me.index % BLOCK_SIZE] BY <1>2, <2>7 DEF Taken
  <2>10. QED BY <2>3, <2>4, <2>5, <2>6, <2>8, <2>9
<1>3. QED BY <1>1, <1>2


(* A step of consumer c changes what is in its hands only. *)
LEMMA HandTurns ==
    ASSUME HandsAgree, HandsAgree', NEW c \in Consumers, NEW r, Turns(c, r)
    PROVE  /\ InHand[c] = IF Holds(c) THEN consumer[c].index ELSE Null
           /\ InHand' = [InHand EXCEPT ![c] = IF r.pc \in Holding THEN r.index ELSE Null]
           /\ /\ r.pc \in Holding <=> Holds(c)
              /\ Holds(c) => r.index = consumer[c].index
              => InHand' = InHand
<1> DEFINE Hand(d) == IF Holds(d) THEN consumer[d].index ELSE Null
           v == IF r.pc \in Holding THEN r.index ELSE Null
<1>1. \A d \in Consumers : InHand[d] = Hand(d) BY DEF InHand, HandsAgree
<1>2. \A d \in Consumers : InHand'[d] = (Hand(d))' BY DEF InHand, HandsAgree
<1>3. consumer'[c] = r /\ \A d \in Consumers : d # c => consumer'[d] = consumer[d] BY DEF Turns
<1>4. (Hand(c))' = v BY <1>3 DEF Holds
<1>5. \A d \in Consumers : d # c => (Hand(d))' = Hand(d) BY <1>3 DEF Holds
<1>6. InHand = [d \in Consumers |-> InHand[d]] /\ InHand' = [d \in Consumers |-> InHand'[d]]
  BY DEF InHand
<1> HIDE DEF Hand, v
<1>7. InHand'[c] = v /\ \A d \in Consumers : d # c => InHand'[d] = InHand[d]
  BY <1>1, <1>2, <1>4, <1>5
<1>8. InHand' = [InHand EXCEPT ![c] = v] BY <1>6, <1>7
<1>9. ASSUME r.pc \in Holding <=> Holds(c), Holds(c) => r.index = consumer[c].index
      PROVE  InHand' = InHand
  <2>1. v = InHand[c] BY <1>1, <1>9 DEF v, Hand
  <2>2. QED BY <1>6, <1>7, <2>1
<1>10. QED BY <1>1, <1>8, <1>9 DEF Hand, v

(* The steps of a consumer that neither claim nor read leave all hands as  *)
(* they are.                                                               *)
LEMMA HandsKept ==
    ASSUME Typed, CountersTyped, HandsAgree, HandsAgree', NEW c \in Consumers, dequeue(c),
           ~DequeueClaims(c), ~DequeueReads(c)
    PROVE  InHand' = InHand
<1>1. headIndex \in Indices BY DEF CountersTyped
<1>2. IdleConsumer.pc = "idle" BY DEF IdleConsumer
<1>3. ASSUME NEW r, Turns(c, r), consumer[c].pc \notin Holding, r.pc \notin Holding
      PROVE  InHand' = InHand
  BY <1>3, HandTurns DEF Holds
<1>4. ASSUME NEW r, Turns(c, r), consumer[c].pc \in Holding, r.pc \in Holding,
             r.index = consumer[c].index
      PROVE  InHand' = InHand
  BY <1>4, HandTurns DEF Holds
<1>5. CASE \/ DequeueLoadsTail(c) \/ DequeueLoadsOvercommit(c)
           \/ DequeueSees(c) \/ DequeueSeesNone(c)
           \/ DequeueCounts(c) \/ DequeueRechecks(c) \/ DequeueIsLate(c) \/ DequeueGivesUp(c)
  <2>1. (\E r : Turns(c, r) /\ r.pc \in Early) /\ consumer[c].pc \in Early BY <1>5, EarlySteps
  <2>2. PICK r : Turns(c, r) /\ r.pc \in Early BY <2>1
  <2>3. QED BY <1>3, <2>1, <2>2 DEF Early, Holding
<1>6. CASE LookupHeader(c)
  <2>1. consumer[c].pc = "header" BY <1>6 DEF LookupHeader, In
  <2>2. PICK r : Turns(c, r) /\ r.pc = "tail" /\ r.index = consumer[c].index
    BY <1>1, <1>6, DeliveringSteps
  <2>3. QED BY <1>4, <2>1, <2>2 DEF Holding
<1>7. CASE LookupTail(c)
  <2>1. consumer[c].pc = "tail" BY <1>7 DEF LookupTail, In
  <2>2. PICK r : Turns(c, r) /\ r.pc = "entry" /\ r.index = consumer[c].index
    BY <1>1, <1>7, DeliveringSteps
  <2>3. QED BY <1>4, <2>1, <2>2 DEF Holding
<1>8. CASE LookupEntry(c)
  <2>1. consumer[c].pc = "entry" BY <1>8 DEF LookupEntry, In
  <2>2. PICK r : Turns(c, r) /\ r.pc = "read" /\ r.index = consumer[c].index
    BY <1>1, <1>8, DeliveringSteps
  <2>3. QED BY <1>4, <2>1, <2>2 DEF Holding
<1>9. CASE UnlistBlock(c)
  <2>1. consumer[c].pc = "unlist" BY <1>9 DEF UnlistBlock, In
  <2>2. PICK r : Turns(c, r) /\ r.pc = "free" BY <1>1, <1>9, DeliveringSteps
  <2>3. QED BY <1>3, <2>1, <2>2 DEF Holding
<1>10. CASE FreeBlock(c)
  <2>1. consumer[c].pc = "free" BY <1>10 DEF FreeBlock, In
  <2>2. Turns(c, IdleConsumer) BY <1>1, <1>10, DeliveringSteps
  <2>3. QED BY <1>2, <1>3, <2>1, <2>2 DEF Holding
<1>11. QED BY <1>5, <1>6, <1>7, <1>8, <1>9, <1>10, Zenon DEF dequeue

(* Publishing is Put, claiming Take, reading Deliver; the rest, and with   *)
(* it all the work on blocks and indexes, is not seen.                     *)
LEMMA StreamImplements ==
    ASSUME StreamInv, LinesAgree, LinesAgree', HandsAgree, HandsAgree', [Next]_vars
    PROVE  [TheStream!Next]_(TheStream!vars)
<1>0. PICK T, H : CountersInv(T, H) BY DEF StreamInv
<1>1. /\ T \in Nat /\ H \in Nat /\ H <= T /\ CountersTyped /\ Typed
      /\ tailIndex = T % Period /\ headIndex = H % Period
      /\ \A c \in Consumers : consumer[c].pc = "claim" => H < T
  BY <1>0, CountersFacts DEF CountersInv, StreamInv
<1>2. StreamLine = Line(T, H) BY <1>0 DEF LinesAgree
<1>3. ASSUME NEW S, NEW G, CountersInv(S, G)' PROVE StreamLine' = Line(S, G)
  <2>1. (Line(S, G))' = Line(S, G) BY DEF Line
  <2>2. StreamLine' = (Line(S, G))' BY <1>3 DEF LinesAgree
  <2>3. QED BY <2>1, <2>2
<1>4. ASSUME UNCHANGED <<StreamLine, InHand, tailIndex>>
      PROVE  UNCHANGED TheStream!vars
  BY <1>4 DEF TheStream!vars, StreamLine, InHand
<1>5. (UNCHANGED <<headIndex, tailIndex>>) => StreamLine' = StreamLine
  BY DEF StreamLine, Size
<1>6. consumer' = consumer => InHand' = InHand
  <2>1. ASSUME consumer' = consumer PROVE \A c \in Consumers : (Taken(c))' = Taken(c)
    BY <2>1 DEF HandsAgree, Holds
  <2>2. QED BY <2>1 DEF InHand
<1>7. CASE enqueue
  <2>1. CASE EnqueueInBlock \/ EnqueueInNewBlock
    <3>1. Publish BY <2>1 DEF EnqueueInBlock, EnqueueInNewBlock
    <3>2. StreamLine' = Line(T + 1, H)
      <4>1. CountersInv(T + 1, H)' BY <1>0, <1>1, <1>7, <2>1, EnqueueCounters
      <4>2. QED BY <1>3, <4>1
    <3>3. StreamLine' = Append(StreamLine, tailIndex) BY <1>1, <1>2, <3>2, LineGrows
    <3>4. InHand' = InHand /\ tailIndex' = (tailIndex + 1) % Period
      BY <1>6, <3>1 DEF Publish, Plus
    <3>5. TheStream!Put BY <3>3, <3>4 DEF TheStream!Put, StreamLine, InHand
    <3>6. QED BY <3>5 DEF TheStream!Next
  <2>2. CASE ~(EnqueueInBlock \/ EnqueueInNewBlock)
    <3>1. UNCHANGED <<counters, consumer>>
      BY <1>7, <2>2 DEF enqueue, EnqueueNewBlock, InsertKey, InsertTail, NewBlockIndex,
         NewBlockIndexFails, RequisitionBlock, EnqueueFails, RewindTail, ClearEntry, ListBlock
    <3>2. QED BY <1>4, <1>5, <1>6, <3>1 DEF counters
  <2>3. QED BY <2>1, <2>2
<1>8. ASSUME NEW c \in Consumers, dequeue(c) PROVE [TheStream!Next]_(TheStream!vars)
  <2>1. headIndex \in Indices BY <1>1 DEF CountersTyped
  <2>2. CASE DequeueClaims(c)
    <3>1. consumer[c].pc = "claim" /\ tailIndex' = tailIndex BY <2>2 DEF DequeueClaims, In
    <3>2. PICK r : Turns(c, r) /\ r.pc = "header" /\ r.index = headIndex
      BY <1>1, <2>1, <2>2, DeliveringSteps
    <3>3. InHand[c] = Null /\ InHand' = [InHand EXCEPT ![c] = headIndex]
      BY <3>1, <3>2, HandTurns DEF Holds, Holding
    <3>4. StreamLine' = Line(T, H + 1)
      <4>1. CountersInv(T, H + 1)' BY <1>0, <1>1, <2>2, ClaimsKeep
      <4>2. QED BY <1>3, <4>1
    <3>5. /\ StreamLine # <<>> /\ Head(StreamLine) = headIndex
          /\ StreamLine' = Tail(StreamLine)
      <4>1. H < T BY <1>1, <3>1
      <4>2. QED BY <1>1, <1>2, <3>4, <4>1, LineShrinks
    <3>6. TheStream!Take(c) BY <3>1, <3>3, <3>5 DEF TheStream!Take, StreamLine, InHand
    <3>7. QED BY <3>6 DEF TheStream!Next
  <2>3. CASE DequeueReads(c)
    <3>1. consumer[c].pc = "read" /\ UNCHANGED <<headIndex, tailIndex>>
      BY <2>3 DEF DequeueReads, In, counters
    <3>2. PICK r : Turns(c, r) /\ r.pc \in {"idle", "unlist"}
      <4>1. IdleConsumer.pc = "idle" BY DEF IdleConsumer
      <4>2. QED BY <1>1, <2>1, <2>3, <4>1, DeliveringSteps
    <3>3. InHand[c] = consumer[c].index /\ InHand' = [InHand EXCEPT ![c] = Null]
      BY <3>1, <3>2, HandTurns DEF Holds, Holding
    <3>4. consumer[c].index # Null
      <4>1. consumer[c].index \in Int BY <1>1, Sizes DEF Typed, Locals, Indices
      <4>2. QED BY <4>1, ProducerAssumption
    <3>5. StreamLine' = StreamLine BY <1>5, <3>1
    <3>6. TheStream!Deliver(c)
      BY <3>1, <3>3, <3>4, <3>5 DEF TheStream!Deliver, StreamLine, InHand
    <3>7. QED BY <3>6 DEF TheStream!Next
  <2>4. CASE ~DequeueClaims(c) /\ ~DequeueReads(c)
    <3>1. InHand' = InHand BY <1>1, <1>8, <2>4, HandsKept
    <3>2. UNCHANGED <<headIndex, tailIndex>>
      BY <1>8, <2>4 DEF dequeue, counters, DequeueLoadsTail, DequeueLoadsOvercommit, DequeueSees,
         DequeueSeesNone, DequeueCounts, DequeueRechecks, DequeueIsLate, DequeueGivesUp,
         LookupHeader, LookupTail, LookupEntry, UnlistBlock, FreeBlock
    <3>3. QED BY <1>4, <1>5, <3>1, <3>2
  <2>5. QED BY <2>2, <2>3, <2>4
<1>9. CASE UNCHANGED vars
  <2>1. UNCHANGED <<headIndex, tailIndex, consumer>> BY <1>9 DEF vars, counters
  <2>2. QED BY <1>4, <1>5, <1>6, <2>1
<1>10. QED BY <1>7, <1>8, <1>9 DEF Next

(* The stream is a first-in first-out line: nobody claims an index before  *)
(* its element is published or one that another claimed, and what is read  *)
(* is what was enqueued there, although blocks and entries are reused, the *)
(* block index is replaced and the indices wrap.                           *)
THEOREM StreamImplementsLine == Spec => ImplementsStream
<1>1. Init => TheStream!Init
  <2> SUFFICES ASSUME Init PROVE TheStream!Init
    OBVIOUS
  <2>1. CountersInv(0, 0) BY InitCounters
  <2>2. Size = 0 BY <2>1, SizeIs
  <2>3. StreamLine = <<>> BY <2>2 DEF StreamLine
  <2>4. \A c \in Consumers : Taken(c) = Null BY DEF Init, Taken, IdleConsumer
  <2>5. tailIndex = 0 BY DEF Init
  <2>6. QED BY <2>3, <2>4, <2>5 DEF TheStream!Init, StreamLine
<1>2. /\ StreamInv /\ LinesAgree /\ HandsAgree
      /\ LinesAgree' /\ HandsAgree' /\ [Next]_vars
      => [TheStream!Next]_(TheStream!vars)
  BY StreamImplements
<1>3. StreamInv => LinesAgree BY LineIs
<1>4. StreamInv => HandsAgree BY HandIs
<1>5. QED
  BY <1>1, <1>2, <1>3, <1>4, StreamInvHolds, PTL DEF Spec, ImplementsStream, TheStream!Spec

=============================================================================
