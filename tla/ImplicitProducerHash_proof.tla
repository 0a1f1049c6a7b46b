--------------------- MODULE ImplicitProducerHash_proof ---------------------
(***************************************************************************)
(* TLAPS proofs about ImplicitProducerHash, for any set of threads, any    *)
(* hash function and any bounds.                                           *)
(***************************************************************************)
EXTENDS ImplicitProducerHash, SequenceTheorems, FiniteSetTheorems, TLAPS

(* The tables: a chain of records whose arrays have the table's capacity. *)
Slots(S) == UNION {[0 .. n - 1 -> S] : n \in Nat}
TableType == [capacity : Nat \ {0}, key : Slots(Keys),
              value : Slots(Producers \cup {Null})]
TablesInv ==
    /\ tables \in Seq(TableType)
    /\ \A h \in 1 .. Len(tables) :
           /\ tables[h].key \in [0 .. tables[h].capacity - 1 -> Keys]
           /\ tables[h].value \in
                  [0 .. tables[h].capacity - 1 -> Producers \cup {Null}]

(* t is in table h. *)
Has(t, h) == \E i \in 0 .. tables[h].capacity - 1 : tables[h].key[i] = t

(* A search for t in table h gets to its k-th slot. *)
Clear(t, h, k) ==
    \A j \in 0 .. k - 1 : tables[h].key[Probe(t, h, j)] # invalid_thread_id

(* The entries: none is there twice, every one can be found from the first *)
(* slot of its thread, and holds the stream of its thread.                 *)
EntryInv(h) ==
    \A i \in 0 .. tables[h].capacity - 1 : tables[h].key[i] \in Threads =>
        LET t == tables[h].key[i]
        IN  /\ \A j \in 0 .. tables[h].capacity - 1 :
                   tables[h].key[j] = t => i = j
            /\ \E k \in 0 .. tables[h].capacity - 1 :
                   Probe(t, h, k) = i /\ Clear(t, h, k)
            /\ tables[h].value[i] = mine[t]
            /\ mine[t] # Null

(* Where each thread is in a call decides what the tables have of it. *)
Adding == {"count", "room", "resize", "place", "insert"}
ThreadInv(t) ==
    /\ pc[t] \in Adding \cup {"move"} => mainHash[t] # 0
    /\ pc[t] \in Adding =>
           mine[t] = Null /\ \A h \in 1 .. Len(tables) : ~Has(t, h)
    /\ pc[t] \in {"idle", "search"} /\ mine[t] # Null =>
           \E h \in 1 .. Len(tables) : Has(t, h)
    /\ pc[t] = "move" =>
           /\ mine[t] # Null /\ value[t] = mine[t]
           /\ \A h \in mainHash[t] .. Len(tables) : ~Has(t, h)
    /\ pc[t] = "leave" =>
           /\ mine[t] # Null
           /\ \A h \in mainHash[t] + 1 .. Len(tables) : ~Has(t, h)
    /\ pc[t] = "insert" => value[t] # Null
    /\ pc[t] \notin {"move", "insert"} => value[t] = Null
    /\ pc[t] \in {"move", "insert"} =>
           \E k \in 0 .. tables[mainHash[t]].capacity - 1 :
               index[t] = Probe(t, mainHash[t], k) /\ Clear(t, mainHash[t], k)

(* No stream is in two hands, and the streams in use have been made. *)
StreamInv ==
    /\ StreamNotShared
    /\ \A t \in Threads : Streams(t) \subseteq 1 .. made

(* The threads that have counted themselves in are part of the count. *)
Counted == {t \in Threads : pc[t] \in {"room", "resize", "place", "insert"}}
CountInv == IsFiniteSet(Counted) /\ Cardinality(Counted) <= count

(* The inductive invariant. *)
HashInv ==
    /\ TypeOK /\ TablesInv /\ CountInv /\ StreamInv
    /\ \A h \in 1 .. Len(tables) : EntryInv(h)
    /\ \A t \in Threads : ThreadInv(t)

-----------------------------------------------------------------------------
(* Numbers *)

(* Induction: a set of natural numbers has a least element. *)
LEMMA LeastNumber ==
    ASSUME NEW T, T \subseteq Nat, T # {}
    PROVE  \E m \in T : \A n \in T : m <= n
<1>1. PICK m \in T : \A n \in T : ~(<<n, m>> \in OpToRel(<, Nat))
  BY WFMin, NatLessThanWellFounded, Zenon
<1>2. ASSUME NEW n \in T PROVE m <= n
  <2>1. n \in Nat /\ m \in Nat OBVIOUS
  <2>2. ~(n < m) BY <1>1, <2>1 DEF OpToRel
  <2>3. QED BY <2>1, <2>2
<1>3. QED BY <1>2

LEMMA MinIsLeast ==
    ASSUME NEW T, T \subseteq Nat, T # {}
    PROVE  Min(T) \in T /\ \A n \in T : Min(T) <= n
BY LeastNumber DEF Min

(* The next slot: the remainders follow each other and wrap around. *)
LEMMA NextRemainder ==
    ASSUME NEW a \in Nat, NEW n \in Nat \ {0}
    PROVE  /\ a % n \in 0 .. n - 1
           /\ ((a % n) + 1) % n = (a + 1) % n
           /\ (a + n) % n = a % n
<1> DEFINE q == a \div n
           r == a % n
<1>1. q \in Nat /\ r \in 0 .. n - 1 /\ a = n * q + r OBVIOUS
<1>2. \A b \in Int : \A p \in Int : \A x \in 0 .. n - 1 :
          b = n * p + x => b % n = x
  OBVIOUS
<1>3. a + n = n * (q + 1) + r BY <1>1
<1>4. (a + n) % n = r
  <2>1. a + n \in Int /\ q + 1 \in Int BY <1>1
  <2> HIDE DEF q, r
  <2>2. QED BY <1>1, <1>2, <1>3, <2>1
<1>5. CASE r + 1 < n
  <2>1. a + 1 = n * q + (r + 1) /\ r + 1 \in 0 .. n - 1 BY <1>1, <1>5
  <2>2. r + 1 = n * 0 + (r + 1) BY <1>1
  <2>3. a + 1 \in Int /\ r + 1 \in Int /\ q \in Int BY <1>1
  <2> HIDE DEF q, r
  <2>4. (a + 1) % n = r + 1 BY <1>2, <2>1, <2>3
  <2>5. (r + 1) % n = r + 1 BY <1>2, <2>1, <2>2, <2>3
  <2>6. QED BY <1>1, <1>4, <2>4, <2>5 DEF r
<1>6. CASE r + 1 = n
  <2>1. a + 1 = n * (q + 1) + 0 BY <1>1, <1>6
  <2>2. r + 1 = n * 1 + 0 BY <1>1, <1>6
  <2>3. a + 1 \in Int /\ r + 1 \in Int /\ q + 1 \in Int /\ 0 \in 0 .. n - 1
    BY <1>1
  <2> HIDE DEF q, r
  <2>4. (a + 1) % n = 0 BY <1>2, <2>1, <2>3
  <2>5. (r + 1) % n = 0 BY <1>2, <2>2, <2>3
  <2>6. QED BY <1>1, <1>4, <2>4, <2>5 DEF r
<1>7. QED BY <1>1, <1>5, <1>6

(* The first n + 1 powers of two, as a function. *)
Powers(n, g) == /\ g \in [0 .. n -> Nat]
                /\ \A i \in 0 .. n : g[i] = IF i = 0 THEN 1 ELSE 2 * g[i - 1]

(* There are such functions, by induction on n, and they agree. *)
LEMMA PowersExist ==
    ASSUME NEW n \in Nat PROVE \E g : Powers(n, g)
<1> DEFINE T == {m \in Nat : ~\E g : Powers(m, g)}
<1> SUFFICES ASSUME T # {} PROVE FALSE
  OBVIOUS
<1>1. PICK m \in T : \A k \in T : m <= k
  <2> T \subseteq Nat OBVIOUS
  <2> HIDE DEF T
  <2> QED BY LeastNumber
<1>2. m # 0
  <2> DEFINE g == [i \in 0 .. 0 |-> 1]
  <2>1. g \in [0 .. 0 -> Nat] /\ \A i \in 0 .. 0 : i = 0 /\ g[i] = 1 OBVIOUS
  <2>2. Powers(0, g) BY <2>1 DEF Powers
  <2>3. QED BY <1>1, <2>2
<1>3. m \in Nat /\ m - 1 \in Nat /\ m - 1 \notin T BY <1>1, <1>2
<1>4. PICK g : Powers(m - 1, g) BY <1>3
<1> DEFINE h == [i \in 0 .. m |-> IF i = m THEN 2 * g[m - 1] ELSE g[i]]
<1>5. \A i \in 0 .. m - 1 : g[i] \in Nat /\ h[i] = g[i] BY <1>3, <1>4 DEF Powers
<1>6. h[m] = 2 * h[m - 1] /\ h[m] \in Nat
  <2>1. m - 1 \in 0 .. m - 1 /\ m \in 0 .. m BY <1>3
  <2>2. g[m - 1] \in Nat /\ h[m - 1] = g[m - 1] BY <1>5, <2>1
  <2>3. h[m] = 2 * g[m - 1] BY <2>1
  <2>4. QED BY <2>2, <2>3
<1>7. h \in [0 .. m -> Nat] BY <1>3, <1>5, <1>6
<1>8. ASSUME NEW i \in 0 .. m
      PROVE  h[i] = IF i = 0 THEN 1 ELSE 2 * h[i - 1]
  <2>1. CASE i = m BY <1>2, <1>6, <2>1
  <2>2. CASE i # m
    <3>1. i \in 0 .. m - 1 /\ (i # 0 => i - 1 \in 0 .. m - 1) BY <1>3, <2>2
    <3>2. g[i] = IF i = 0 THEN 1 ELSE 2 * g[i - 1] BY <1>4, <3>1 DEF Powers
    <3>3. QED BY <1>5, <3>1, <3>2
  <2>3. QED BY <2>1, <2>2
<1>9. Powers(m, h) BY <1>7, <1>8 DEF Powers
<1>10. QED BY <1>9

LEMMA PowersAgree ==
    ASSUME NEW n \in Nat, NEW g, NEW h, Powers(n, g), Powers(n + 1, h)
    PROVE  g[n] = h[n]
<1> DEFINE T == {i \in 0 .. n : g[i] # h[i]}
<1> SUFFICES ASSUME T # {} PROVE FALSE
  OBVIOUS
<1>1. PICK m \in T : \A k \in T : m <= k
  <2> T \subseteq Nat OBVIOUS
  <2> HIDE DEF T
  <2> QED BY LeastNumber
<1>2. m \in 0 .. n /\ m \in 0 .. n + 1 /\ g[m] # h[m] BY <1>1
<1>3. m # 0 BY <1>2 DEF Powers
<1>4. m - 1 \in 0 .. n /\ m - 1 \notin T BY <1>1, <1>2, <1>3
<1>5. g[m - 1] = h[m - 1] BY <1>4
<1>6. QED BY <1>2, <1>3, <1>5 DEF Powers

(* pow2 is what its recursive definition says. *)
LEMMA PowerOfTwo ==
    \A k \in Nat : pow2[k] = IF k = 0 THEN 1 ELSE 2 * pow2[k - 1]
<1> DEFINE f(n) == CHOOSE g : Powers(n, g)
           G == [k \in Nat |-> f(k)[k]]
<1>1. \A n \in Nat : Powers(n, f(n)) BY PowersExist
<1> HIDE DEF f
<1>2. ASSUME NEW k \in Nat PROVE G[k] = IF k = 0 THEN 1 ELSE 2 * G[k - 1]
  <2>1. CASE k = 0 BY <1>1, <2>1 DEF Powers
  <2>2. CASE k # 0
    <3>1. k - 1 \in Nat /\ k = (k - 1) + 1 BY <2>2
    <3>2. Powers(k - 1, f(k - 1)) /\ Powers((k - 1) + 1, f(k)) BY <1>1, <3>1
    <3>3. f(k - 1)[k - 1] = f(k)[k - 1] BY <3>1, <3>2, PowersAgree
    <3>4. f(k)[k] = 2 * f(k)[k - 1] BY <1>1, <2>2 DEF Powers
    <3>5. QED BY <2>2, <3>1, <3>3, <3>4
  <2>3. QED BY <2>1, <2>2
<1>3. G = [k \in Nat |-> IF k = 0 THEN 1 ELSE 2 * G[k - 1]]
  <2> DEFINE H == [k \in Nat |-> IF k = 0 THEN 1 ELSE 2 * G[k - 1]]
  <2>1. \A k \in Nat : G[k] = H[k] BY <1>2
  <2>2. QED BY <2>1
<1> HIDE DEF G
<1>4. \E g : g = [k \in Nat |-> IF k = 0 THEN 1 ELSE 2 * g[k - 1]] BY <1>3
<1>5. pow2 = [k \in Nat |-> IF k = 0 THEN 1 ELSE 2 * pow2[k - 1]]
  BY <1>4 DEF pow2
<1>6. QED BY <1>5

LEMMA PowerIsLarge ==
    ASSUME NEW n \in Nat PROVE pow2[n] \in Nat /\ pow2[n] > n
<1> DEFINE T == {m \in Nat : ~(pow2[m] \in Nat /\ pow2[m] > m)}
<1> SUFFICES ASSUME T # {} PROVE FALSE
  OBVIOUS
<1>1. PICK m \in T : \A k \in T : m <= k
  <2> T \subseteq Nat OBVIOUS
  <2> HIDE DEF T
  <2> QED BY LeastNumber
<1>2. m # 0 BY <1>1, PowerOfTwo
<1>3. m - 1 \in Nat /\ m - 1 \notin T BY <1>1, <1>2
<1>4. pow2[m] = 2 * pow2[m - 1] BY <1>1, <1>2, PowerOfTwo
<1>5. QED BY <1>1, <1>3, <1>4

-----------------------------------------------------------------------------
(* Searches *)

LEMMA TableFacts ==
    ASSUME TablesInv, NEW h \in 1 .. Len(tables)
    PROVE  /\ Len(tables) \in Nat /\ DOMAIN tables = 1 .. Len(tables)
           /\ tables[h] \in TableType
           /\ tables[h].capacity \in Nat \ {0}
           /\ tables[h].key \in [0 .. tables[h].capacity - 1 -> Keys]
           /\ tables[h].value \in
                  [0 .. tables[h].capacity - 1 -> Producers \cup {Null}]
<1>1. /\ Len(tables) \in Nat /\ DOMAIN tables = 1 .. Len(tables)
      /\ tables[h] \in TableType
  BY LenProperties, ElementOfSeq DEF TablesInv
<1>2. tables[h].capacity \in Nat \ {0} BY <1>1 DEF TableType
<1>3. QED BY <1>1, <1>2 DEF TablesInv

(* The slots a search tries are slots of the table, one after the other. *)
LEMMA ProbeFacts ==
    ASSUME TablesInv, NEW t \in Threads, NEW h \in 1 .. Len(tables), NEW k \in Nat
    PROVE  /\ Probe(t, h, k) \in 0 .. tables[h].capacity - 1
           /\ (Probe(t, h, k) + 1) % tables[h].capacity = Probe(t, h, k + 1)
           /\ Probe(t, h, tables[h].capacity) = Probe(t, h, 0)
<1>1. /\ tables[h].capacity \in Nat \ {0} /\ hash_thread_id[t] \in Nat
  BY TableFacts, HashAssumption
<1> DEFINE n == tables[h].capacity
           a == hash_thread_id[t]
<1>2. a + k \in Nat /\ a \in Nat /\ n \in Nat \ {0} BY <1>1
<1>3. (a + k) + 1 = a + (k + 1) /\ a + 0 = a BY <1>2
<1> HIDE DEF a, n
<1>4. /\ (a + k) % n \in 0 .. n - 1
      /\ (((a + k) % n) + 1) % n = (a + (k + 1)) % n
      /\ (a + n) % n = (a + 0) % n
  BY <1>2, <1>3, NextRemainder, ZenonT(60)
<1>5. QED BY <1>4 DEF Probe, a, n

(* A search finds t in a table exactly if t is there. *)
LEMMA SearchFinds ==
    ASSUME TablesInv, NEW t \in Threads, NEW h \in 1 .. Len(tables), EntryInv(h)
    PROVE  /\ FoundIn(t, h) <=> Has(t, h)
           /\ FoundIn(t, h) => /\ SlotIn(t, h) \in 0 .. tables[h].capacity - 1
                               /\ tables[h].key[SlotIn(t, h)] = t
<1>1. tables[h].capacity \in Nat \ {0} BY TableFacts
<1>2. ASSUME FoundIn(t, h)
      PROVE  /\ SlotIn(t, h) \in 0 .. tables[h].capacity - 1
             /\ tables[h].key[SlotIn(t, h)] = t
  <2> DEFINE k == CHOOSE k \in FoundAt(t, h) : TRUE
  <2>1. k \in FoundAt(t, h) BY <1>2 DEF FoundIn
  <2>2. k \in Offsets(h) /\ tables[h].key[Probe(t, h, k)] = t BY <2>1 DEF FoundAt
  <2>3. SlotIn(t, h) = Probe(t, h, k) BY DEF SlotIn
  <2> HIDE DEF k
  <2>4. k \in Nat BY <1>1, <2>2 DEF Offsets
  <2>5. QED BY <2>2, <2>3, <2>4, ProbeFacts
<1>3. FoundIn(t, h) => Has(t, h) BY <1>2 DEF Has
<1>4. ASSUME Has(t, h) PROVE FoundIn(t, h)
  <2>1. PICK i \in 0 .. tables[h].capacity - 1 : tables[h].key[i] = t
    BY <1>4 DEF Has
  <2>2. PICK k \in 0 .. tables[h].capacity - 1 :
            Probe(t, h, k) = i /\ Clear(t, h, k)
    BY <2>1 DEF EntryInv
  <2> DEFINE T == {j \in 0 .. k : tables[h].key[Probe(t, h, j)] = t}
  <2>3. T \subseteq Nat /\ k \in T BY <1>1, <2>1, <2>2
  <2>4. PICK m \in T : \A j \in T : m <= j
    <3> HIDE DEF T
    <3> QED BY <2>3, LeastNumber
  <2>5. m \in 0 .. k /\ m \in Offsets(h) BY <1>1, <2>4 DEF Offsets
  <2>6. ASSUME NEW j \in 0 .. m - 1 PROVE Passes(t, h, j)
    <3>1. j \in 0 .. k - 1 /\ j \in 0 .. k /\ ~(m <= j) BY <1>1, <2>5
    <3>2. tables[h].key[Probe(t, h, j)] # t BY <2>4, <3>1
    <3>3. tables[h].key[Probe(t, h, j)] # invalid_thread_id BY <2>2, <3>1 DEF Clear
    <3>4. QED BY <3>2, <3>3 DEF Passes
  <2>7. m \in FoundAt(t, h) BY <2>4, <2>5, <2>6 DEF FoundAt
  <2>8. QED BY <2>7 DEF FoundIn
<1>5. QED BY <1>2, <1>3, <1>4

(* A search of the chain that ends, ends in the newest table that has t,   *)
(* at t's stream.                                                          *)
LEMMA ChainSearch ==
    ASSUME TablesInv, \A h \in 1 .. Len(tables) : EntryInv(h), NEW t \in Threads,
           NEW g \in 0 .. Len(tables), SearchEndsIn(t, g)
    PROVE  /\ g # 0 => Has(t, g) /\ ValueIn(t, g) = mine[t] /\ mine[t] # Null
           /\ \A h \in g + 1 .. Len(tables) : ~Has(t, h)
<1>1. Len(tables) \in Nat BY LenProperties DEF TablesInv
<1>2. ASSUME g # 0 PROVE Has(t, g) /\ ValueIn(t, g) = mine[t] /\ mine[t] # Null
  <2>1. g \in 1 .. Len(tables) /\ FoundIn(t, g) /\ EntryInv(g)
    BY <1>1, <1>2 DEF SearchEndsIn
  <2>2. /\ Has(t, g) /\ SlotIn(t, g) \in 0 .. tables[g].capacity - 1
        /\ tables[g].key[SlotIn(t, g)] = t
    BY <2>1, SearchFinds
  <2>3. tables[g].value[SlotIn(t, g)] = mine[t] /\ mine[t] # Null
    BY <2>1, <2>2 DEF EntryInv
  <2>4. QED BY <2>2, <2>3 DEF ValueIn
<1>3. ASSUME NEW h \in g + 1 .. Len(tables) PROVE ~Has(t, h)
  <2>1. h \in 1 .. Len(tables) /\ ~FoundIn(t, h) BY <1>1 DEF SearchEndsIn
  <2>2. QED BY <2>1, SearchFinds
<1>4. QED BY <1>2, <1>3

(* So a thread between two calls finds the stream it was given. *)
LEMMA OwnStreamFound ==
    ASSUME HashInv, NEW t \in Threads, NEW g \in 0 .. Len(tables),
           pc[t] \in {"idle", "search"}, SearchEndsIn(t, g)
    PROVE  mine[t] = IF g = 0 THEN Null ELSE ValueIn(t, g)
<1>1. /\ g # 0 => ValueIn(t, g) = mine[t]
      /\ \A h \in g + 1 .. Len(tables) : ~Has(t, h)
  BY ChainSearch DEF HashInv
<1>2. g = 0 => mine[t] = Null
  <2> SUFFICES ASSUME g = 0 PROVE mine[t] = Null OBVIOUS
  <2>1. \A h \in 1 .. Len(tables) : ~Has(t, h) BY <1>1
  <2>2. QED BY <2>1 DEF HashInv, ThreadInv
<1>3. QED BY <1>1, <1>2

-----------------------------------------------------------------------------
(* What steps do to the chain *)

(* Tables stay, and no slot becomes empty again. *)
TablesKept ==
    /\ Len(tables') \in Nat /\ Len(tables) <= Len(tables')
    /\ \A h \in 1 .. Len(tables) :
           /\ tables'[h].capacity = tables[h].capacity
           /\ \A i \in 0 .. tables[h].capacity - 1 :
                  tables[h].key[i] # invalid_thread_id =>
                      tables'[h].key[i] # invalid_thread_id

(* The tables have the same of t as before. *)
HasKept(t) ==
    \A h \in 1 .. Len(tables') :
        Has(t, h)' <=> h \in 1 .. Len(tables) /\ Has(t, h)

(* A search gets as far as it got before. *)
LEMMA ClearKept ==
    ASSUME TablesInv, TablesKept, NEW t \in Threads, NEW h \in 1 .. Len(tables),
           NEW k \in Nat
    PROVE  /\ Probe(t, h, k)' = Probe(t, h, k)
           /\ Clear(t, h, k) => Clear(t, h, k)'
<1>1. \A j \in Nat : Probe(t, h, j)' = Probe(t, h, j) BY DEF Probe, TablesKept
<1>2. ASSUME NEW j \in 0 .. k - 1, Clear(t, h, k)
      PROVE  (tables[h].key[Probe(t, h, j)] # invalid_thread_id)'
  <2>1. j \in Nat OBVIOUS
  <2>2. Probe(t, h, j) \in 0 .. tables[h].capacity - 1 BY <2>1, ProbeFacts
  <2>3. tables[h].key[Probe(t, h, j)] # invalid_thread_id BY <1>2 DEF Clear
  <2>4. tables'[h].key[Probe(t, h, j)] # invalid_thread_id
    BY <2>2, <2>3 DEF TablesKept
  <2>5. QED BY <1>1, <2>1, <2>4
<1>3. Clear(t, h, k) => Clear(t, h, k)' BY <1>2 DEF Clear
<1>4. QED BY <1>1, <1>3

(* A thread for which nothing changes is where it was. *)
LEMMA ThreadKept ==
    ASSUME TablesInv, TypeOK, TablesKept, NEW t \in Threads, HasKept(t), ThreadInv(t),
           /\ pc'[t] = pc[t] /\ mainHash'[t] = mainHash[t]
           /\ index'[t] = index[t] /\ value'[t] = value[t] /\ mine'[t] = mine[t]
    PROVE  ThreadInv(t)'
<1>1. /\ Len(tables) \in Nat /\ Len(tables') \in Nat /\ Len(tables) <= Len(tables')
      /\ mainHash[t] \in 0 .. Len(tables)
  BY LenProperties DEF TablesInv, TypeOK, TablesKept
<1>2. \A h \in 1 .. Len(tables) : h \in 1 .. Len(tables') /\ (Has(t, h)' <=> Has(t, h))
  BY <1>1 DEF HasKept
<1>3. \A h \in 1 .. Len(tables') : h \notin 1 .. Len(tables) => ~Has(t, h)'
  BY DEF HasKept
<1>4. (\E h \in 1 .. Len(tables) : Has(t, h)) => \E h \in 1 .. Len(tables') : Has(t, h)'
  BY <1>2
<1>5. ASSUME NEW m \in Nat, \A h \in m .. Len(tables) : ~Has(t, h)
      PROVE  \A h \in m .. Len(tables') : h # 0 => ~Has(t, h)'
  BY <1>1, <1>2, <1>3, <1>5
<1>6. pc[t] \in {"move", "insert"} =>
          \E k \in 0 .. tables'[mainHash[t]].capacity - 1 :
              index[t] = Probe(t, mainHash[t], k)' /\ Clear(t, mainHash[t], k)'
  <2> SUFFICES ASSUME pc[t] \in {"move", "insert"}
               PROVE  \E k \in 0 .. tables'[mainHash[t]].capacity - 1 :
                          index[t] = Probe(t, mainHash[t], k)'
                              /\ Clear(t, mainHash[t], k)'
    OBVIOUS
  <2>1. mainHash[t] \in 1 .. Len(tables) BY <1>1 DEF ThreadInv, Adding
  <2>2. PICK k \in 0 .. tables[mainHash[t]].capacity - 1 :
            index[t] = Probe(t, mainHash[t], k) /\ Clear(t, mainHash[t], k)
    BY DEF ThreadInv
  <2>3. k \in 0 .. tables'[mainHash[t]].capacity - 1 /\ k \in Nat
    BY <2>1, TableFacts DEF TablesKept
  <2>4. QED BY <2>1, <2>2, <2>3, ClearKept
<1>7. pc[t] \in Adding => \A h \in 1 .. Len(tables') : ~Has(t, h)'
  BY <1>2, <1>3 DEF ThreadInv
<1>8. pc[t] = "move" => \A h \in mainHash[t] .. Len(tables') : ~Has(t, h)'
  <2> SUFFICES ASSUME pc[t] = "move"
               PROVE  \A h \in mainHash[t] .. Len(tables') : ~Has(t, h)'
    OBVIOUS
  <2>1. \A h \in mainHash[t] .. Len(tables) : ~Has(t, h) BY DEF ThreadInv
  <2>2. mainHash[t] \in Nat \ {0} BY <1>1 DEF ThreadInv
  <2>3. \A h \in mainHash[t] .. Len(tables') : h # 0 BY <1>1, <2>2
  <2>4. QED BY <1>5, <2>1, <2>2, <2>3
<1>9. pc[t] = "leave" => \A h \in mainHash[t] + 1 .. Len(tables') : ~Has(t, h)'
  <2> SUFFICES ASSUME pc[t] = "leave"
               PROVE  \A h \in mainHash[t] + 1 .. Len(tables') : ~Has(t, h)'
    OBVIOUS
  <2>1. \A h \in mainHash[t] + 1 .. Len(tables) : ~Has(t, h) BY DEF ThreadInv
  <2>2. mainHash[t] + 1 \in Nat BY <1>1
  <2>3. \A h \in mainHash[t] + 1 .. Len(tables') : h # 0 BY <1>1
  <2>4. QED BY <1>5, <2>1, <2>2, <2>3
<1>10. QED BY <1>4, <1>6, <1>7, <1>8, <1>9 DEF ThreadInv

(* A table that is not written keeps its entries right, if none of its     *)
(* threads gets another stream.                                            *)
LEMMA EntryKept ==
    ASSUME TablesInv, TablesKept, NEW h \in 1 .. Len(tables), EntryInv(h),
           tables'[h] = tables[h],
           \A t \in Threads : Has(t, h) => mine'[t] = mine[t]
    PROVE  EntryInv(h)'
<1> SUFFICES ASSUME NEW i \in 0 .. tables[h].capacity - 1, tables[h].key[i] \in Threads
             PROVE  LET t == tables[h].key[i]
                    IN  /\ \A j \in 0 .. tables[h].capacity - 1 :
                               tables[h].key[j] = t => i = j
                        /\ \E k \in 0 .. tables[h].capacity - 1 :
                               Probe(t, h, k)' = i /\ Clear(t, h, k)'
                        /\ tables[h].value[i] = mine'[t]
                        /\ mine'[t] # Null
  BY DEF EntryInv
<1> DEFINE t == tables[h].key[i]
<1>1. mine'[t] = mine[t] BY DEF Has
<1>2. PICK k \in 0 .. tables[h].capacity - 1 : Probe(t, h, k) = i /\ Clear(t, h, k)
  BY DEF EntryInv
<1>3. k \in Nat BY TableFacts
<1>4. Probe(t, h, k)' = i /\ Clear(t, h, k)' BY <1>2, <1>3, ClearKept
<1>5. QED BY <1>1, <1>4 DEF EntryInv

LEMMA SlotsOf ==
    ASSUME NEW S, NEW n \in Nat, NEW f \in [0 .. n - 1 -> S] PROVE f \in Slots(S)
BY DEF Slots

(* A chain that is not written. *)
LEMMA SameTables ==
    ASSUME TablesInv, UNCHANGED tables
    PROVE  TablesInv' /\ TablesKept /\ \A t \in Threads : HasKept(t)
<1>1. Len(tables) \in Nat BY LenProperties DEF TablesInv
<1>2. TablesInv' BY DEF TablesInv
<1>3. TablesKept BY <1>1 DEF TablesKept
<1>4. \A t \in Threads : HasKept(t) BY DEF HasKept, Has
<1>5. QED BY <1>2, <1>3, <1>4

(* A table of the chain is written. *)
LEMMA TableWritten ==
    ASSUME TablesInv, NEW h \in 1 .. Len(tables), NEW T \in TableType,
           T.capacity = tables[h].capacity,
           T.key \in [0 .. tables[h].capacity - 1 -> Keys],
           T.value \in [0 .. tables[h].capacity - 1 -> Producers \cup {Null}],
           tables' = [tables EXCEPT ![h] = T]
    PROVE  /\ TablesInv' /\ Len(tables') = Len(tables) /\ tables'[h] = T
           /\ \A g \in 1 .. Len(tables) : g # h => tables'[g] = tables[g]
<1>1. /\ tables' \in Seq(TableType) /\ Len(tables') = Len(tables)
      /\ \A g \in 1 .. Len(tables) : tables'[g] = IF g = h THEN T ELSE tables[g]
  BY ExceptSeq DEF TablesInv
<1>2. TablesInv' BY <1>1 DEF TablesInv
<1>3. QED BY <1>1, <1>2

(* t enters itself in a free slot. *)
LEMMA EnterWrites ==
    ASSUME TablesInv, NEW t \in Threads, Enter(t),
           mainHash[t] \in 1 .. Len(tables),
           index[t] \in 0 .. tables[mainHash[t]].capacity - 1,
           value[t] \in Producers \cup {Null}
    PROVE  LET h == mainHash[t]
           IN  /\ TablesInv' /\ Len(tables') = Len(tables)
               /\ tables'[h].capacity = tables[h].capacity
               /\ tables'[h].key = [tables[h].key EXCEPT ![index[t]] = t]
               /\ tables'[h].value = [tables[h].value EXCEPT ![index[t]] = value[t]]
               /\ \A g \in 1 .. Len(tables) : g # h => tables'[g] = tables[g]
<1> DEFINE h == mainHash[t]
           K == [tables[h].key EXCEPT ![index[t]] = t]
           V == [tables[h].value EXCEPT ![index[t]] = value[t]]
           T == [tables[h] EXCEPT !.key[index[t]] = t, !.value[index[t]] = value[t]]
<1>1. /\ h \in 1 .. Len(tables) /\ tables[h] \in TableType
      /\ tables[h].capacity \in Nat
      /\ tables[h].key \in [0 .. tables[h].capacity - 1 -> Keys]
      /\ tables[h].value \in [0 .. tables[h].capacity - 1 -> Producers \cup {Null}]
  BY TableFacts
<1>2. t \in Keys BY DEF Keys
<1>3. /\ K \in [0 .. tables[h].capacity - 1 -> Keys]
      /\ V \in [0 .. tables[h].capacity - 1 -> Producers \cup {Null}]
  BY <1>1, <1>2
<1>4. K \in Slots(Keys) /\ V \in Slots(Producers \cup {Null})
  BY <1>1, <1>3, SlotsOf
<1>5. T \in TableType /\ T.capacity = tables[h].capacity /\ T.key = K /\ T.value = V
  BY <1>1, <1>4 DEF TableType
<1>6. tables' = [tables EXCEPT ![h] = T] BY Zenon DEF Enter
<1> HIDE DEF K, V, h, T
<1>7. /\ TablesInv' /\ Len(tables') = Len(tables) /\ tables'[h] = T
      /\ \A g \in 1 .. Len(tables) : g # h => tables'[g] = tables[g]
  BY <1>1, <1>3, <1>5, <1>6, TableWritten
<1>8. QED BY <1>5, <1>7 DEF K, V, h

LEMMA EnterKeeps ==
    ASSUME HashInv, NEW t \in Threads, pc[t] \in {"move", "insert"},
           NEW h, h = mainHash[t],
           KeyThere(t) \in {invalid_thread_id, invalid_thread_id2}, Enter(t),
           mine' = [mine EXCEPT ![t] = value[t]]
    PROVE  /\ TablesInv' /\ TablesKept /\ Len(tables') = Len(tables)
           /\ \A u \in Threads \ {t} : HasKept(u)
           /\ h \in 1 .. Len(tables) /\ Has(t, h)'
           /\ \A g \in 1 .. Len(tables') : EntryInv(g)'
           /\ \A g \in 1 .. Len(tables) : g # h => tables'[g] = tables[g]
           /\ \A i \in 0 .. tables[h].capacity - 1 :
                  tables'[h].key[i] \in {t, tables[h].key[i]}
<1>0. PICK i0, n : i0 = index[t] /\ n = tables[h].capacity OBVIOUS
<1>1. /\ TablesInv /\ ThreadInv(t) /\ h \in 1 .. Len(tables) /\ Len(tables) \in Nat
      /\ value[t] \in Producers \cup {Null} /\ mine \in [Threads -> Producers \cup {Null}]
  BY DEF HashInv, TypeOK, ThreadInv, Adding
<1>2. PICK k0 \in 0 .. n - 1 : i0 = Probe(t, h, k0) /\ Clear(t, h, k0)
  BY <1>0, <1>1 DEF ThreadInv
<1>3. n \in Nat \ {0} /\ k0 \in Nat BY <1>0, <1>1, TableFacts
<1>4. i0 \in 0 .. n - 1
  <2>1. Probe(t, h, k0) \in 0 .. tables[h].capacity - 1 BY <1>1, <1>3, ProbeFacts
  <2>2. QED BY <1>0, <1>2, <2>1
<1>5. /\ TablesInv' /\ Len(tables') = Len(tables)
      /\ tables'[h].capacity = n
      /\ tables'[h].key = [tables[h].key EXCEPT ![i0] = t]
      /\ tables'[h].value = [tables[h].value EXCEPT ![i0] = value[t]]
      /\ \A g \in 1 .. Len(tables) : g # h => tables'[g] = tables[g]
  BY <1>0, <1>1, <1>4, EnterWrites
<1>6. /\ tables[h].key \in [0 .. n - 1 -> Keys]
      /\ tables[h].value \in [0 .. n - 1 -> Producers \cup {Null}]
  BY <1>0, <1>1, TableFacts
<1>7. /\ tables'[h].key[i0] = t /\ tables'[h].value[i0] = value[t]
      /\ \A i \in 0 .. n - 1 : i # i0 => /\ tables'[h].key[i] = tables[h].key[i]
                                         /\ tables'[h].value[i] = tables[h].value[i]
      /\ tables[h].key[i0] \in {invalid_thread_id, invalid_thread_id2}
      /\ invalid_thread_id \notin Threads /\ invalid_thread_id2 \notin Threads
  <2>1. tables[h].key[i0] \in {invalid_thread_id, invalid_thread_id2} BY <1>0 DEF KeyThere
  <2>2. QED BY <1>4, <1>5, <1>6, <2>1, HashAssumption
<1>8. TablesKept
  <2>1. \A i \in 0 .. n - 1 : tables[h].key[i] # invalid_thread_id =>
            tables'[h].key[i] # invalid_thread_id
    BY <1>7
  <2>2. ASSUME NEW g \in 1 .. Len(tables)
        PROVE  /\ tables'[g].capacity = tables[g].capacity
               /\ \A i \in 0 .. tables[g].capacity - 1 :
                      tables[g].key[i] # invalid_thread_id =>
                          tables'[g].key[i] # invalid_thread_id
    <3>1. CASE g = h BY <1>0, <1>5, <2>1, <3>1
    <3>2. CASE g # h BY <1>5, <3>2
    <3>3. QED BY <3>1, <3>2
  <2>3. QED BY <1>1, <1>5, <2>2 DEF TablesKept
<1>9. ASSUME NEW u \in Threads \ {t} PROVE HasKept(u)
  <2>1. Has(u, h)' <=> Has(u, h) BY <1>0, <1>4, <1>5, <1>7 DEF Has
  <2>2. \A g \in 1 .. Len(tables) : g # h => (Has(u, g)' <=> Has(u, g))
    BY <1>5 DEF Has
  <2>3. QED BY <1>5, <2>1, <2>2 DEF HasKept
<1>10. Has(t, h)' BY <1>0, <1>4, <1>5, <1>7 DEF Has
<1>11. ~Has(t, h)
  <2>1. h \in h .. Len(tables) BY <1>1
  <2>2. QED BY <1>1, <2>1 DEF ThreadInv, Adding
<1>12. /\ mine'[t] = value[t] /\ value[t] # Null
       /\ \A u \in Threads : u # t => mine'[u] = mine[u]
  BY <1>1 DEF ThreadInv
<1>13. EntryInv(h)'
  <2> SUFFICES ASSUME NEW i \in 0 .. n - 1, NEW u \in Threads, tables'[h].key[i] = u
               PROVE  /\ \A j \in 0 .. n - 1 : tables'[h].key[j] = u => i = j
                      /\ \E k \in 0 .. n - 1 : (Probe(u, h, k) = i /\ Clear(u, h, k))'
                      /\ tables'[h].value[i] = mine'[u]
                      /\ mine'[u] # Null
    BY <1>5 DEF EntryInv
  <2>1. CASE i = i0
    <3>1. \A j \in 0 .. n - 1 : j # i0 => tables[h].key[j] # t
      BY <1>0, <1>11 DEF Has
    <3>2. (Probe(t, h, k0) = i0 /\ Clear(t, h, k0))'
      BY <1>1, <1>2, <1>3, <1>8, ClearKept
    <3>3. u = t BY <1>7, <2>1
    <3>4. \A j \in 0 .. n - 1 : tables'[h].key[j] = u => i = j
      BY <1>7, <2>1, <3>1, <3>3
    <3>5. \E k \in 0 .. n - 1 : (Probe(u, h, k) = i /\ Clear(u, h, k))'
      BY <2>1, <3>2, <3>3
    <3>6. QED BY <1>7, <1>12, <2>1, <3>3, <3>4, <3>5
  <2>2. CASE i # i0
    <3>1. tables[h].key[i] = u /\ tables'[h].value[i] = tables[h].value[i]
      BY <1>7, <2>2
    <3>2. u # t BY <1>0, <1>11, <3>1 DEF Has
    <3>3. /\ \A j \in 0 .. n - 1 : tables[h].key[j] = u => i = j
          /\ \E k \in 0 .. n - 1 : Probe(u, h, k) = i /\ Clear(u, h, k)
          /\ tables[h].value[i] = mine[u] /\ mine[u] # Null
      BY <1>0, <1>1, <3>1 DEF HashInv, EntryInv
    <3>4. PICK k \in 0 .. n - 1 : Probe(u, h, k) = i /\ Clear(u, h, k) BY <3>3
    <3>5. k \in Nat BY <1>3
    <3>6. (Probe(u, h, k) = i /\ Clear(u, h, k))'
      BY <1>1, <1>8, <3>4, <3>5, ClearKept
    <3>7. \A j \in 0 .. n - 1 : tables'[h].key[j] = u => i = j
      BY <1>7, <3>2, <3>3
    <3>8. QED BY <1>12, <3>1, <3>2, <3>3, <3>6, <3>7
  <2>3. QED BY <2>1, <2>2
<1>14. ASSUME NEW g \in 1 .. Len(tables), g # h PROVE EntryInv(g)'
  <2>1. ASSUME NEW u \in Threads, Has(u, g) PROVE mine'[u] = mine[u]
    <3>1. u = t => mine[t] = value[t] BY <1>1, <2>1 DEF ThreadInv, Adding
    <3>2. QED BY <1>12, <3>1
  <2>2. tables'[g] = tables[g] BY <1>5, <1>14
  <2>3. EntryInv(g) BY DEF HashInv
  <2>4. QED BY <1>1, <1>8, <2>1, <2>2, <2>3, EntryKept
<1>15. \A i \in 0 .. tables[h].capacity - 1 :
           tables'[h].key[i] \in {t, tables[h].key[i]}
  BY <1>0, <1>7
<1>16. QED BY <1>1, <1>5, <1>8, <1>9, <1>10, <1>13, <1>14, <1>15

(* t takes itself out of a table. *)
LEMMA LeaveKeeps ==
    ASSUME HashInv, NEW t \in Threads, NEW h \in 1 .. Len(tables), FoundIn(t, h),
           tables' = [tables EXCEPT ![h].key =
                          [@ EXCEPT ![SlotIn(t, h)] = invalid_thread_id2]],
           UNCHANGED mine
    PROVE  /\ TablesInv' /\ TablesKept /\ Len(tables') = Len(tables)
           /\ \A u \in Threads \ {t} : HasKept(u)
           /\ ~Has(t, h)'
           /\ \A g \in 1 .. Len(tables) : g # h => (Has(t, g)' <=> Has(t, g))
           /\ \A g \in 1 .. Len(tables') : EntryInv(g)'
<1>0. PICK i0, n : i0 = SlotIn(t, h) /\ n = tables[h].capacity OBVIOUS
<1>1. TablesInv /\ EntryInv(h) /\ Len(tables) \in Nat
  BY LenProperties DEF HashInv, TablesInv
<1>2. /\ tables[h] \in TableType /\ n \in Nat \ {0}
      /\ tables[h].key \in [0 .. n - 1 -> Keys]
      /\ tables[h].value \in [0 .. n - 1 -> Producers \cup {Null}]
  BY <1>0, <1>1, TableFacts
<1>3. i0 \in 0 .. n - 1 /\ tables[h].key[i0] = t BY <1>0, <1>1, SearchFinds
<1> DEFINE K == [tables[h].key EXCEPT ![SlotIn(t, h)] = invalid_thread_id2]
           T == [tables[h] EXCEPT !.key = K]
<1>4. K \in [0 .. n - 1 -> Keys] BY <1>0, <1>2, <1>3 DEF Keys
<1>5. K \in Slots(Keys) BY <1>2, <1>4, SlotsOf
<1>6. /\ T \in TableType /\ T.capacity = n /\ T.key = K
      /\ T.value = tables[h].value
  <2> HIDE DEF K
  <2> QED BY <1>0, <1>2, <1>5 DEF TableType
<1>7. tables' = [tables EXCEPT ![h] = T]
  <2>1. tables' = [tables EXCEPT ![h] = [tables[h] EXCEPT !.key =
                       [tables[h].key EXCEPT ![SlotIn(t, h)] = invalid_thread_id2]]]
    OBVIOUS
  <2>2. QED BY <2>1, Zenon
<1>8. /\ TablesInv' /\ Len(tables') = Len(tables) /\ tables'[h] = T
      /\ \A g \in 1 .. Len(tables) : g # h => tables'[g] = tables[g]
  <2> HIDE DEF K, T
  <2>1. /\ T.capacity = tables[h].capacity
        /\ T.key \in [0 .. tables[h].capacity - 1 -> Keys]
        /\ T.value \in [0 .. tables[h].capacity - 1 -> Producers \cup {Null}]
    BY <1>0, <1>2, <1>4, <1>6
  <2>2. QED BY <1>1, <1>6, <1>7, <2>1, TableWritten
<1>9. /\ tables'[h].capacity = n /\ tables'[h].value = tables[h].value
      /\ tables'[h].key[i0] = invalid_thread_id2
      /\ \A i \in 0 .. n - 1 : i # i0 => tables'[h].key[i] = tables[h].key[i]
      /\ invalid_thread_id2 \notin Threads /\ invalid_thread_id2 # invalid_thread_id
  <2>1. tables'[h].key = K /\ tables'[h].capacity = n /\ tables'[h].value = tables[h].value
    <3> HIDE DEF K, T
    <3> QED BY <1>6, <1>8
  <2>2. QED BY <1>0, <1>2, <1>3, <2>1, HashAssumption
<1> HIDE DEF K, T
<1>10. TablesKept
  <2>1. ASSUME NEW g \in 1 .. Len(tables)
        PROVE  /\ tables'[g].capacity = tables[g].capacity
               /\ \A i \in 0 .. tables[g].capacity - 1 :
                      tables[g].key[i] # invalid_thread_id =>
                          tables'[g].key[i] # invalid_thread_id
    <3>1. CASE g = h BY <1>0, <1>9, <3>1
    <3>2. CASE g # h BY <1>8, <3>2
    <3>3. QED BY <3>1, <3>2
  <2>2. QED BY <1>1, <1>8, <2>1 DEF TablesKept
<1>11. \A u \in Threads : \A g \in 1 .. Len(tables) : g # h => (Has(u, g)' <=> Has(u, g))
  BY <1>8 DEF Has
<1>12. ASSUME NEW u \in Threads \ {t} PROVE HasKept(u)
  <2>1. Has(u, h)' <=> Has(u, h) BY <1>0, <1>3, <1>9 DEF Has
  <2>2. QED BY <1>8, <1>11, <2>1 DEF HasKept
<1>13. \A j \in 0 .. n - 1 : tables[h].key[j] = t => j = i0
  BY <1>0, <1>1, <1>3 DEF EntryInv
<1>14. ~Has(t, h)' BY <1>9, <1>13 DEF Has
<1>15. EntryInv(h)'
  <2> SUFFICES ASSUME NEW i \in 0 .. n - 1, NEW u \in Threads, tables'[h].key[i] = u
               PROVE  /\ \A j \in 0 .. n - 1 : tables'[h].key[j] = u => i = j
                      /\ \E k \in 0 .. n - 1 : (Probe(u, h, k) = i /\ Clear(u, h, k))'
                      /\ tables'[h].value[i] = mine'[u]
                      /\ mine'[u] # Null
    BY <1>9 DEF EntryInv
  <2>1. i # i0 /\ tables[h].key[i] = u BY <1>9
  <2>2. /\ \A j \in 0 .. n - 1 : tables[h].key[j] = u => i = j
        /\ \E k \in 0 .. n - 1 : Probe(u, h, k) = i /\ Clear(u, h, k)
        /\ tables[h].value[i] = mine[u] /\ mine[u] # Null
    BY <1>0, <1>1, <2>1 DEF EntryInv
  <2>3. PICK k \in 0 .. n - 1 : Probe(u, h, k) = i /\ Clear(u, h, k) BY <2>2
  <2>4. k \in Nat BY <1>2
  <2>5. (Probe(u, h, k) = i /\ Clear(u, h, k))'
    BY <1>1, <1>10, <2>3, <2>4, ClearKept
  <2>6. QED BY <1>9, <2>2, <2>5
<1>16. ASSUME NEW g \in 1 .. Len(tables), g # h PROVE EntryInv(g)'
  BY <1>1, <1>8, <1>10, <1>16, EntryKept DEF HashInv
<1>17. QED BY <1>8, <1>10, <1>11, <1>12, <1>14, <1>15, <1>16

(* A new table is empty. *)
LEMMA AppendKeeps ==
    ASSUME HashInv, NEW c \in Nat \ {0}, tables' = Append(tables, NewTable(c)),
           UNCHANGED mine
    PROVE  /\ TablesInv' /\ TablesKept /\ Len(tables') = Len(tables) + 1
           /\ \A u \in Threads : HasKept(u)
           /\ \A g \in 1 .. Len(tables') : EntryInv(g)'
           /\ \A g \in 1 .. Len(tables) : tables'[g] = tables[g]
           /\ tables'[Len(tables) + 1] = NewTable(c)
<1> DEFINE n == Len(tables)
           T == NewTable(c)
<1>1. TablesInv /\ n \in Nat BY LenProperties DEF HashInv, TablesInv
<1>2. /\ T.capacity = c
      /\ T.key \in [0 .. c - 1 -> Keys]
      /\ T.value \in [0 .. c - 1 -> Producers \cup {Null}]
      /\ \A i \in 0 .. c - 1 : T.key[i] = invalid_thread_id
  BY DEF NewTable, Keys
<1>3. T.key \in Slots(Keys) /\ T.value \in Slots(Producers \cup {Null})
  BY <1>2, SlotsOf
<1>4. T \in TableType
  <2>1. T = [capacity |-> T.capacity, key |-> T.key, value |-> T.value]
    BY DEF NewTable
  <2> HIDE DEF T
  <2>2. QED BY <1>2, <1>3, <2>1 DEF TableType
<1> HIDE DEF T
<1>5. /\ tables' \in Seq(TableType) /\ Len(tables') = n + 1
      /\ \A g \in 1 .. n : tables'[g] = tables[g]
      /\ tables'[n + 1] = T
  BY <1>1, <1>4, AppendProperties DEF TablesInv, T
<1>6. TablesInv'
  <2>1. ASSUME NEW g \in 1 .. Len(tables')
        PROVE  /\ tables'[g].key \in [0 .. tables'[g].capacity - 1 -> Keys]
               /\ tables'[g].value \in
                      [0 .. tables'[g].capacity - 1 -> Producers \cup {Null}]
    <3>1. CASE g = n + 1 BY <1>2, <1>5, <3>1
    <3>2. CASE g # n + 1
      <4>1. g \in 1 .. n BY <1>1, <1>5, <3>2
      <4>2. QED BY <1>1, <1>5, <4>1 DEF TablesInv
    <3>3. QED BY <3>1, <3>2
  <2>2. QED BY <1>5, <2>1 DEF TablesInv
<1>7. TablesKept BY <1>1, <1>5 DEF TablesKept
<1>8. \A g \in 1 .. n + 1 : g # n + 1 => g \in 1 .. n BY <1>1
<1>9. invalid_thread_id \notin Threads BY HashAssumption
<1>10. ASSUME NEW u \in Threads PROVE HasKept(u)
  <2>1. \A g \in 1 .. n : Has(u, g)' <=> Has(u, g) BY <1>5 DEF Has
  <2>2. PICK m : m = n + 1 OBVIOUS
  <2>3. ~Has(u, m)' BY <1>2, <1>5, <1>9, <2>2 DEF Has
  <2>4. m \notin 1 .. n /\ \A g \in 1 .. Len(tables') : g # m => g \in 1 .. n
    BY <1>1, <1>5, <1>8, <2>2
  <2>5. QED BY <2>1, <2>3, <2>4 DEF HasKept
<1>11. ASSUME NEW g \in 1 .. Len(tables') PROVE EntryInv(g)'
  <2>1. CASE g = n + 1
    BY <1>2, <1>5, <1>9, <2>1 DEF EntryInv
  <2>2. CASE g # n + 1
    <3>1. g \in 1 .. n BY <1>5, <1>8, <2>2
    <3>2. EntryInv(g) /\ tables'[g] = tables[g] BY <1>5, <3>1 DEF HashInv
    <3>3. QED BY <1>1, <1>7, <3>1, <3>2, EntryKept
  <2>3. QED BY <2>1, <2>2
<1>12. tables'[n + 1] = NewTable(c) BY <1>5 DEF T
<1>13. QED BY <1>5, <1>6, <1>7, <1>10, <1>11, <1>12

(* A new table is larger than the number of entries, and no smaller than   *)
(* the table it follows.                                                   *)
LEMMA NewCapacityIsLarge ==
    ASSUME TablesInv, NEW t \in Threads, mainHash[t] \in 1 .. Len(tables),
           newCount[t] \in Nat
    PROVE  NewCapacity(t) \in Nat \ {0} /\ tables[mainHash[t]].capacity <= NewCapacity(t)
<1> DEFINE C == tables[mainHash[t]].capacity
           N == newCount[t]
           P == {C * pow2[k] : k \in 1 .. N + 1}
           S == {c \in P : N < c \div 2}
<1>1. C \in Nat \ {0} /\ N \in Nat BY TableFacts
<1> HIDE DEF C, N
<1>2. P \subseteq Nat
  <2>1. \A k \in 1 .. N + 1 : k \in Nat BY <1>1
  <2>2. \A k \in 1 .. N + 1 : pow2[k] \in Nat BY <2>1, PowerIsLarge
  <2>3. QED BY <1>1, <2>2
<1>3. C * pow2[N + 1] \in S
  <2>1. pow2[N] \in Nat /\ pow2[N] > N BY <1>1, PowerIsLarge
  <2>2. pow2[N + 1] = 2 * pow2[N] BY <1>1, PowerOfTwo
  <2>3. PICK x \in Nat : x = C * pow2[N] BY <1>1, <2>1
  <2>4. x >= pow2[N] BY <1>1, <2>1, <2>3
  <2>5. C * pow2[N + 1] = 2 * x BY <1>1, <2>1, <2>2, <2>3
  <2>6. (2 * x) \div 2 = x OBVIOUS
  <2>7. N + 1 \in 1 .. N + 1 BY <1>1
  <2>8. QED BY <1>1, <2>1, <2>4, <2>5, <2>6, <2>7
<1>4. S \subseteq Nat /\ S # {} BY <1>2, <1>3
<1>5. Min(S) \in S
  <2> HIDE DEF S
  <2> QED BY <1>4, MinIsLeast
<1>6. NewCapacity(t) = Min(S) BY Zenon DEF NewCapacity, C, N
<1>7. Min(S) \in Nat /\ N < Min(S) \div 2 BY <1>4, <1>5
<1>8. Min(S) # 0
  <2> HIDE DEF S, P
  <2>1. SUFFICES ASSUME Min(S) = 0 PROVE FALSE OBVIOUS
  <2>2. 0 \div 2 = 0 OBVIOUS
  <2>3. QED BY <1>1, <1>7, <2>1, <2>2
<1>9. C <= Min(S)
  <2>1. PICK k \in 1 .. N + 1 : Min(S) = C * pow2[k] BY <1>5
  <2>2. k \in Nat BY <1>1
  <2>3. pow2[k] \in Nat /\ pow2[k] > k BY <2>2, PowerIsLarge
  <2>4. PICK x \in Nat : x = pow2[k] /\ x >= 1 BY <2>2, <2>3
  <2>5. C <= C * x BY <1>1, <2>4
  <2>6. QED BY <2>1, <2>4, <2>5
<1>10. QED BY <1>6, <1>7, <1>8, <1>9 DEF C

-----------------------------------------------------------------------------
(* What a step of one thread has to keep *)

(* Only t changes where it is. *)
Only(t) ==
    \A u \in Threads \ {t} :
        /\ pc'[u] = pc[u] /\ mainHash'[u] = mainHash[u]
        /\ index'[u] = index[u] /\ value'[u] = value[u] /\ mine'[u] = mine[u]

(* The type invariant without the tables. *)
RestOK ==
    /\ Len(tables) \in 1 .. MaxTables
    /\ count \in Nat
    /\ resizing \in BOOLEAN
    /\ made \in 0 .. MaxProducers /\ inactive \subseteq 1 .. made
    /\ pc \in [Threads -> {"idle", "search", "move", "count", "room", "resize",
                           "place", "insert", "leave"}]
    /\ mainHash \in [Threads -> 0 .. Len(tables)]
    /\ index \in [Threads -> Nat]
    /\ newCount \in [Threads -> Nat]
    /\ value \in [Threads -> Producers \cup {Null}]
    /\ mine \in [Threads -> Producers \cup {Null}]
    /\ exits \in 0 .. MaxExits

LEMMA Step ==
    ASSUME HashInv, NEW t \in Threads, TablesInv', TablesKept,
           \A h \in 1 .. Len(tables') : EntryInv(h)',
           \A u \in Threads \ {t} : HasKept(u), Only(t),
           RestOK', CountInv', StreamInv', ThreadInv(t)'
    PROVE  HashInv'
<1>1. ASSUME NEW u \in Threads \ {t} PROVE ThreadInv(u)'
  <2>1. /\ pc'[u] = pc[u] /\ mainHash'[u] = mainHash[u]
        /\ index'[u] = index[u] /\ value'[u] = value[u] /\ mine'[u] = mine[u]
    BY DEF Only
  <2>2. QED BY <2>1, ThreadKept DEF HashInv
<1>2. TypeOK'
  <2>1. DOMAIN tables' = 1 .. Len(tables') BY LenProperties DEF TablesInv
  <2>2. QED BY <2>1 DEF TypeOK, RestOK, TablesInv
<1>3. QED BY <1>1, <1>2 DEF HashInv

(* A step that leaves the tables alone. *)
LEMMA QuietStep ==
    ASSUME HashInv, NEW t \in Threads, UNCHANGED tables, Only(t),
           mine'[t] = mine[t] \/ \A h \in 1 .. Len(tables) : ~Has(t, h),
           RestOK', CountInv', StreamInv', ThreadInv(t)'
    PROVE  HashInv'
<1>1. TablesInv /\ TablesInv' /\ TablesKept /\ \A u \in Threads : HasKept(u)
  BY SameTables DEF HashInv
<1>2. ASSUME NEW h \in 1 .. Len(tables) PROVE EntryInv(h)'
  <2>1. \A u \in Threads : Has(u, h) => mine'[u] = mine[u] BY DEF Only
  <2>2. QED BY <1>1, <2>1, EntryKept DEF HashInv
<1>3. QED BY <1>1, <1>2, Step

(* The count covers those who have counted themselves in, if it follows    *)
(* where t goes.                                                           *)
Weight(at) == IF at \in {"room", "resize", "place", "insert"} THEN 1 ELSE 0

LEMMA CountStep ==
    ASSUME HashInv, NEW t \in Threads, NEW to, pc' = [pc EXCEPT ![t] = to],
           count' = count \/ count' = count + 1 \/ count' = count - 1,
           count' >= count + Weight(to) - Weight(pc[t])
    PROVE  CountInv' /\ count' \in Nat
<1>1. count \in Nat /\ IsFiniteSet(Counted) /\ Cardinality(Counted) <= count
      /\ \A u \in Threads : pc'[u] = IF u = t THEN to ELSE pc[u]
  BY DEF HashInv, TypeOK, CountInv
<1>2. Cardinality(Counted) \in Nat BY <1>1, FS_CardinalityType
<1>3. Counted' = IF Weight(to) = 1 THEN Counted \cup {t} ELSE Counted \ {t}
  BY <1>1 DEF Counted, Weight
<1>4. t \in Counted <=> Weight(pc[t]) = 1 BY DEF Counted, Weight
<1>5. Weight(to) \in {0, 1} /\ Weight(pc[t]) \in {0, 1} BY DEF Weight
<1>6. /\ IsFiniteSet(Counted') /\ Cardinality(Counted') \in Nat
      /\ Cardinality(Counted') = Cardinality(Counted) + Weight(to) - Weight(pc[t])
  <2>1. CASE Weight(to) = 1
    <3>1. Counted' = Counted \cup {t} BY <1>3, <2>1
    <3>2. /\ IsFiniteSet(Counted')
          /\ Cardinality(Counted') =
                 IF t \in Counted THEN Cardinality(Counted) ELSE Cardinality(Counted) + 1
      BY <1>1, <3>1, FS_AddElement
    <3>3. QED BY <1>2, <1>4, <1>5, <2>1, <3>2
  <2>2. CASE Weight(to) = 0
    <3>1. Counted' = Counted \ {t} BY <1>3, <2>2
    <3>2. /\ IsFiniteSet(Counted')
          /\ Cardinality(Counted') =
                 IF t \in Counted THEN Cardinality(Counted) - 1 ELSE Cardinality(Counted)
      BY <1>1, <3>1, FS_RemoveElement
    <3>3. Cardinality(Counted') \in Nat BY <3>2, FS_CardinalityType
    <3>4. QED BY <1>2, <1>4, <1>5, <2>2, <3>2, <3>3
  <2>3. QED BY <1>5, <2>1, <2>2
<1>7. Cardinality(Counted') <= count' BY <1>1, <1>2, <1>5, <1>6
<1>8. QED BY <1>1, <1>6, <1>7 DEF CountInv

(* No stream gets into two hands, if what t takes is nobody's. *)
LEMMA StreamStep ==
    ASSUME HashInv, NEW t \in Threads, Only(t),
           made' \in Nat, made <= made', inactive' \subseteq inactive \cup Streams(t),
           Streams(t)' \subseteq 1 .. made', Streams(t)' \cap inactive' = {},
           \A u \in Threads \ {t} : Streams(t)' \cap Streams(u) = {}
    PROVE  StreamInv'
<1>1. made \in Nat BY DEF HashInv, TypeOK
<1>2. ASSUME NEW u \in Threads \ {t} PROVE Streams(u)' = Streams(u)
  BY DEF Only, Streams
<1>3. \A u \in Threads : Streams(u)' \subseteq 1 .. made'
  BY <1>1, <1>2 DEF HashInv, StreamInv
<1>4. \A u \in Threads : Streams(u)' \cap inactive' = {}
  BY <1>2 DEF HashInv, StreamInv, StreamNotShared
<1>5. \A u, v \in Threads : u # v => Streams(u)' \cap Streams(v)' = {}
  BY <1>2 DEF HashInv, StreamInv, StreamNotShared
<1>6. QED BY <1>3, <1>4, <1>5 DEF StreamInv, StreamNotShared

LEMMA SameStreams ==
    ASSUME HashInv, NEW t \in Threads, Only(t), UNCHANGED producerVars,
           Streams(t)' \subseteq Streams(t)
    PROVE  StreamInv'
<1>1. made \in Nat /\ UNCHANGED <<made, inactive>> BY DEF HashInv, TypeOK, producerVars
<1>2. /\ Streams(t) \subseteq 1 .. made /\ Streams(t) \cap inactive = {}
      /\ \A u \in Threads \ {t} : Streams(t) \cap Streams(u) = {}
  BY DEF HashInv, StreamInv, StreamNotShared
<1>3. QED BY <1>1, <1>2, StreamStep

(* What the actions have in common. *)
LEMMA ReturnKeeps ==
    ASSUME HashInv, NEW t \in Threads, NEW p \in Producers \cup {Null}, Returns(t, p),
           p # Null => \E h \in 1 .. Len(tables') : Has(t, h)',
           Len(tables') = Len(tables)
    PROVE  /\ Only(t) /\ ThreadInv(t)'
           /\ pc' = [pc EXCEPT ![t] = "idle"] /\ mine' = [mine EXCEPT ![t] = p]
           /\ mine'[t] = p /\ Streams(t)' = {p} \ {Null}
           /\ pc' \in [Threads -> {"idle", "search", "move", "count", "room", "resize",
                                   "place", "insert", "leave"}]
           /\ mainHash' \in [Threads -> 0 .. Len(tables')]
           /\ index' \in [Threads -> Nat] /\ newCount' \in [Threads -> Nat]
           /\ value' \in [Threads -> Producers \cup {Null}]
           /\ mine' \in [Threads -> Producers \cup {Null}]
<1>0. Len(tables) \in Nat BY DEF HashInv, TypeOK
<1>1. /\ pc' = [pc EXCEPT ![t] = "idle"] /\ mine' = [mine EXCEPT ![t] = p]
      /\ pc' \in [Threads -> {"idle", "search", "move", "count", "room", "resize",
                              "place", "insert", "leave"}]
      /\ mainHash' \in [Threads -> 0 .. Len(tables')]
      /\ index' \in [Threads -> Nat] /\ newCount' \in [Threads -> Nat]
      /\ value' \in [Threads -> Producers \cup {Null}]
      /\ mine' \in [Threads -> Producers \cup {Null}]
  BY <1>0 DEF HashInv, TypeOK, Returns, Goes
<1>2. pc'[t] = "idle" /\ value'[t] = Null /\ mine'[t] = p
  BY DEF HashInv, TypeOK, Returns, Goes
<1>3. Only(t) BY DEF HashInv, TypeOK, Returns, Goes, Only
<1>4. Streams(t)' = {p} \ {Null} BY <1>2 DEF Streams
<1>5. ThreadInv(t)' BY <1>2 DEF ThreadInv, Adding
<1>6. QED BY <1>1, <1>2, <1>3, <1>4, <1>5

(* t is in a call, and has not got to the tables' slots. *)
LEMMA AddingKeeps ==
    ASSUME HashInv, NEW t \in Threads, pc[t] \in Adding \ {"insert"}, HasKept(t),
           pc'[t] \in Adding \ {"insert"}, mainHash'[t] # 0,
           UNCHANGED <<value, mine>>
    PROVE  ThreadInv(t)'
<1>1. mine[t] = Null /\ value[t] = Null /\ \A h \in 1 .. Len(tables) : ~Has(t, h)
  BY DEF HashInv, ThreadInv, Adding
<1>2. \A h \in 1 .. Len(tables') : ~Has(t, h)' BY <1>1 DEF HasKept
<1>3. QED BY <1>1, <1>2 DEF ThreadInv, Adding

(* The walk over the slots of a table begins. *)
LEMMA WalkBegins ==
    ASSUME TablesInv, UNCHANGED tables, NEW t \in Threads,
           NEW h \in 1 .. Len(tables), mainHash'[t] = h, index'[t] = Probe(t, h, 0)
    PROVE  /\ index'[t] \in Nat
           /\ (\E k \in 0 .. tables[mainHash[t]].capacity - 1 :
                   index[t] = Probe(t, mainHash[t], k) /\ Clear(t, mainHash[t], k))'
<1>1. tables[h].capacity \in Nat \ {0} BY TableFacts
<1>2. Probe(t, h, 0) \in 0 .. tables[h].capacity - 1 BY ProbeFacts
<1>3. index'[t] = Probe(t, h, 0)' BY DEF Probe
<1>4. Clear(t, h, 0)' BY DEF Clear
<1>5. 0 \in 0 .. tables'[h].capacity - 1 BY <1>1
<1>6. \E k \in 0 .. tables'[h].capacity - 1 :
          index'[t] = Probe(t, h, k)' /\ Clear(t, h, k)'
  BY <1>3, <1>4, <1>5
<1>7. index'[t] \in Nat BY <1>1, <1>2
<1>8. QED BY <1>6, <1>7 DEF Probe, Clear

(* ... and goes on past the entry of another thread. *)
LEMMA WalkGoesOn ==
    ASSUME TablesInv, UNCHANGED <<tables, mainHash>>, NEW t \in Threads,
           NEW h \in 1 .. Len(tables), h = mainHash[t],
           NEW k \in 0 .. tables[h].capacity - 1,
           index[t] = Probe(t, h, k), Clear(t, h, k), KeyThere(t) \in Threads,
           index'[t] = (index[t] + 1) % tables[h].capacity
    PROVE  /\ index'[t] \in Nat
           /\ (\E j \in 0 .. tables[mainHash[t]].capacity - 1 :
                   index[t] = Probe(t, mainHash[t], j) /\ Clear(t, mainHash[t], j))'
<1>0. PICK n : n = tables[h].capacity OBVIOUS
<1>1. n \in Nat \ {0} /\ k \in Nat BY <1>0, TableFacts
<1>2. /\ index'[t] = Probe(t, h, k + 1) /\ Probe(t, h, n) = Probe(t, h, 0)
  <2>1. /\ (Probe(t, h, k) + 1) % tables[h].capacity = Probe(t, h, k + 1)
        /\ Probe(t, h, tables[h].capacity) = Probe(t, h, 0)
    BY <1>1, ProbeFacts
  <2>2. QED BY <1>0, <2>1
<1>3. tables[h].key[Probe(t, h, k)] # invalid_thread_id
  BY HashAssumption DEF KeyThere
<1>4. CASE k + 1 < n
  <2>1. PICK m \in 0 .. n - 1 : m = k + 1 BY <1>1, <1>4
  <2>2. ASSUME NEW j \in 0 .. m - 1
        PROVE  tables[h].key[Probe(t, h, j)] # invalid_thread_id
    <3>1. CASE j = k BY <1>3, <3>1
    <3>2. CASE j # k
      <4>1. j \in 0 .. k - 1 BY <1>1, <2>1, <3>2
      <4>2. QED BY <4>1 DEF Clear
    <3>3. QED BY <3>1, <3>2
  <2>3. Clear(t, h, m) BY <2>2 DEF Clear
  <2>4. m \in Nat /\ Probe(t, h, m) \in 0 .. n - 1
    <3>1. m \in Nat BY <1>1
    <3>2. Probe(t, h, m) \in 0 .. tables[h].capacity - 1 BY <3>1, ProbeFacts
    <3>3. QED BY <1>0, <3>1, <3>2
  <2>5. index'[t] = Probe(t, h, m)' BY <1>2, <2>1 DEF Probe
  <2>6. Clear(t, h, m)' BY <2>3 DEF Clear, Probe
  <2>7. index'[t] \in Nat BY <1>1, <1>2, <2>1, <2>4
  <2>8. m \in 0 .. tables'[h].capacity - 1 /\ mainHash'[t] = h BY <1>0, <2>1
  <2>9. QED BY <2>5, <2>6, <2>7, <2>8, ZenonT(60) DEF Probe, Clear
<1>5. CASE k + 1 = n
  <2>1. index'[t] = Probe(t, h, 0) BY <1>1, <1>2, <1>5
  <2>2. mainHash'[t] = h OBVIOUS
  <2>3. QED BY <2>1, <2>2, WalkBegins
<1>6. QED BY <1>0, <1>1, <1>4, <1>5

(* A step of an insertion before it has a stream, which leaves the tables. *)
LEMMA QuietAdding ==
    ASSUME HashInv, NEW t \in Threads, pc[t] \in Adding \ {"insert"},
           NEW to \in Adding \ {"insert"}, Goes(t, to),
           UNCHANGED <<tables, producerVars, index, value, history>>,
           mainHash' \in [Threads -> 0 .. Len(tables)], mainHash'[t] # 0,
           \A u \in Threads \ {t} : mainHash'[u] = mainHash[u],
           newCount' \in [Threads -> Nat], resizing' \in BOOLEAN,
           count' = count \/ count' = count + 1 \/ count' = count - 1,
           count' >= count + Weight(to) - Weight(pc[t])
    PROVE  HashInv'
<1>1. UNCHANGED <<mine, exits, made, inactive>> BY DEF history, producerVars
<1>2. pc' = [pc EXCEPT ![t] = to] /\ pc'[t] = to BY DEF HashInv, TypeOK, Goes
<1>3. Only(t) BY <1>1, <1>2 DEF HashInv, TypeOK, Only
<1>4. HasKept(t) BY SameTables DEF HashInv
<1>5. ThreadInv(t)' BY <1>1, <1>2, <1>4, AddingKeeps
<1>6. CountInv' /\ count' \in Nat BY <1>2, CountStep
<1>7. StreamInv'
  <2>1. Streams(t)' = Streams(t) BY <1>1 DEF Streams
  <2>2. QED BY <1>3, <2>1, SameStreams
<1>8. RestOK'
  <2>1. to \in {"idle", "search", "move", "count", "room", "resize",
                "place", "insert", "leave"}
    BY DEF Adding
  <2>2. QED BY <1>1, <1>2, <1>6, <2>1 DEF HashInv, TypeOK, RestOK
<1>9. QED BY <1>1, <1>3, <1>5, <1>6, <1>7, <1>8, QuietStep

LEMMA CountsKeeps ==
    ASSUME HashInv, NEW t \in Threads, Counts(t) PROVE HashInv'
<1>1. mainHash[t] # 0 BY DEF HashInv, ThreadInv, Adding, Counts
<1>2. newCount' \in [Threads -> Nat] BY DEF HashInv, TypeOK, Counts
<1>3. count \in Nat /\ mainHash \in [Threads -> 0 .. Len(tables)] /\ resizing \in BOOLEAN
  BY DEF HashInv, TypeOK
<1>4. Weight("room") = 1 /\ Weight("count") = 0 BY DEF Weight
<1>5. QED BY <1>1, <1>2, <1>3, <1>4, QuietAdding DEF Counts, Adding

LEMMA ResizeStepsKeep ==
    ASSUME HashInv, NEW t \in Threads,
           LocksResize(t) \/ SkipsResize(t) \/ ResizeNotNeeded(t) \/ WaitsForTable(t)
    PROVE  HashInv'
<1>1. mainHash[t] # 0
  BY DEF HashInv, ThreadInv, Adding, LocksResize, SkipsResize, ResizeNotNeeded,
         WaitsForTable
<1>2. /\ count \in Nat /\ mainHash \in [Threads -> 0 .. Len(tables)]
      /\ resizing \in BOOLEAN /\ newCount \in [Threads -> Nat]
      /\ Len(tables) \in Nat \ {0}
  BY DEF HashInv, TypeOK
<1>3. Weight("room") = 1 /\ Weight("resize") = 1 /\ Weight("place") = 1 BY DEF Weight
<1>4. ASSUME mainHash' = [mainHash EXCEPT ![t] = Len(tables)]
      PROVE  /\ mainHash' \in [Threads -> 0 .. Len(tables)] /\ mainHash'[t] # 0
             /\ \A u \in Threads \ {t} : mainHash'[u] = mainHash[u]
  BY <1>2, <1>4
<1>5. CASE LocksResize(t)
  BY <1>2, <1>3, <1>4, <1>5, QuietAdding DEF LocksResize, Adding
<1>6. CASE SkipsResize(t)
  <2>1. UNCHANGED <<mainHash, index, newCount, value, tables, count, resizing>>
    BY <1>6 DEF SkipsResize, locals, tableVars
  <2>2. QED BY <1>1, <1>2, <1>3, <1>6, <2>1, QuietAdding DEF SkipsResize, Adding
<1>7. CASE ResizeNotNeeded(t)
  <2>1. /\ UNCHANGED <<mainHash, index, newCount, value, tables, count, producerVars,
                        history>>
        /\ pc[t] = "resize" /\ resizing' = FALSE /\ Goes(t, "place")
    BY <1>7 DEF ResizeNotNeeded, locals
  <2>2. resizing' \in BOOLEAN BY <2>1
  <2>3. count' >= count + Weight("place") - Weight(pc[t]) BY <1>2, <1>3, <2>1
  <2>4. {pc[t], "place"} \subseteq Adding \ {"insert"} BY <2>1 DEF Adding
  <2>5. QED BY <1>1, <1>2, <2>1, <2>2, <2>3, <2>4, QuietAdding
<1>8. CASE WaitsForTable(t)
  <2>1. UNCHANGED <<tables, count, resizing>> BY <1>8 DEF WaitsForTable, tableVars
  <2>2. QED BY <1>2, <1>3, <1>4, <1>8, <2>1, QuietAdding DEF WaitsForTable, Adding
<1>9. QED BY <1>5, <1>6, <1>7, <1>8

LEMMA ResizesKeeps ==
    ASSUME HashInv, NEW t \in Threads, Resizes(t) PROVE HashInv'
<1>1. /\ pc[t] = "resize" /\ Len(tables) < MaxTables
      /\ tables' = Append(tables, NewTable(NewCapacity(t)))
      /\ mainHash' = [mainHash EXCEPT ![t] = Len(tables) + 1] /\ resizing' = FALSE
      /\ pc' = [pc EXCEPT ![t] = "place"]
      /\ UNCHANGED <<count, made, inactive, index, newCount, value, mine, exits>>
  BY DEF Resizes, Goes, producerVars, history
<1>2. /\ Len(tables) \in Nat /\ mainHash \in [Threads -> 0 .. Len(tables)]
      /\ newCount[t] \in Nat /\ TablesInv /\ pc'[t] = "place"
      /\ mainHash[t] \in 1 .. Len(tables)
  BY <1>1 DEF HashInv, TypeOK, ThreadInv, Adding
<1>3. NewCapacity(t) \in Nat \ {0} BY <1>2, NewCapacityIsLarge
<1>4. /\ TablesInv' /\ TablesKept /\ Len(tables') = Len(tables) + 1
      /\ \A u \in Threads : HasKept(u)
      /\ \A g \in 1 .. Len(tables') : EntryInv(g)'
  <2>1. PICK c \in Nat \ {0} : c = NewCapacity(t) BY <1>3
  <2>2. tables' = Append(tables, NewTable(c)) BY <1>1, <2>1
  <2>3. QED BY <1>1, <2>2, AppendKeeps
<1>5. mainHash' \in [Threads -> 0 .. Len(tables')] /\ mainHash'[t] # 0
  BY <1>1, <1>2, <1>4
<1>6. Only(t) BY <1>1 DEF HashInv, TypeOK, Only
<1>7. ThreadInv(t)' BY <1>1, <1>2, <1>4, <1>5, AddingKeeps DEF Adding
<1>8. CountInv' /\ count' \in Nat
  <2>1. Weight("place") = 1 /\ Weight("resize") = 1 /\ count \in Nat
    BY DEF Weight, HashInv, TypeOK
  <2>2. count' = count /\ count' >= count + Weight("place") - Weight(pc[t])
    BY <1>1, <2>1
  <2>3. QED BY <1>1, <2>2, CountStep
<1>9. StreamInv'
  <2>1. Streams(t)' = Streams(t) BY <1>1 DEF Streams
  <2>2. QED BY <1>1, <1>6, <2>1, SameStreams DEF producerVars
<1>10. RestOK'
  <2>1. Len(tables') \in 1 .. MaxTables BY <1>1, <1>2, <1>4, HashAssumption
  <2>2. pc' \in [Threads -> {"idle", "search", "move", "count", "room", "resize",
                             "place", "insert", "leave"}]
    BY <1>1 DEF HashInv, TypeOK
  <2>3. QED BY <1>1, <1>5, <1>8, <2>1, <2>2 DEF HashInv, TypeOK, RestOK
<1>11. QED BY <1>4, <1>6, <1>7, <1>8, <1>9, <1>10, Step

(* A call that returns without touching the tables. *)
LEMMA QuietReturn ==
    ASSUME HashInv, NEW t \in Threads, NEW p \in Producers \cup {Null}, Returns(t, p),
           UNCHANGED <<tables, exits>>,
           p = mine[t] \/ \A h \in 1 .. Len(tables) : ~Has(t, h),
           p # Null => \E h \in 1 .. Len(tables) : Has(t, h),
           count' = count \/ count' = count - 1,
           count' >= count - Weight(pc[t]), resizing' \in BOOLEAN,
           made' \in 0 .. MaxProducers, inactive' \subseteq 1 .. made',
           StreamInv'
    PROVE  HashInv'
<1>1. HasKept(t) BY SameTables DEF HashInv
<1>2. p # Null => \E h \in 1 .. Len(tables') : Has(t, h)' BY <1>1 DEF HasKept
<1>3. /\ Only(t) /\ ThreadInv(t)'
      /\ pc' = [pc EXCEPT ![t] = "idle"] /\ mine'[t] = p
      /\ pc' \in [Threads -> {"idle", "search", "move", "count", "room", "resize",
                              "place", "insert", "leave"}]
      /\ mainHash' \in [Threads -> 0 .. Len(tables')]
      /\ index' \in [Threads -> Nat] /\ newCount' \in [Threads -> Nat]
      /\ value' \in [Threads -> Producers \cup {Null}]
      /\ mine' \in [Threads -> Producers \cup {Null}]
  BY <1>2, ReturnKeeps
<1>4. CountInv' /\ count' \in Nat
  <2>1. Weight("idle") = 0 /\ count \in Nat BY DEF Weight, HashInv, TypeOK
  <2>2. Weight(pc[t]) \in {0, 1} BY DEF Weight
  <2>3. count' >= count + Weight("idle") - Weight(pc[t]) BY <2>1, <2>2
  <2>4. QED BY <1>3, <2>3, CountStep
<1>5. RestOK' BY <1>3, <1>4 DEF HashInv, TypeOK, RestOK
<1>6. mine'[t] = mine[t] \/ \A h \in 1 .. Len(tables) : ~Has(t, h) BY <1>3
<1>7. QED BY <1>3, <1>4, <1>5, <1>6, QuietStep

(* A call that fails to get memory takes its count back. *)
LEMMA FailuresKeep ==
    ASSUME HashInv, NEW t \in Threads, ResizeFails(t) \/ CreateFails(t) PROVE HashInv'
<1>1. /\ pc[t] \in {"resize", "place"} /\ count' = count - 1 /\ resizing' \in BOOLEAN
      /\ Returns(t, Null) /\ UNCHANGED <<tables, producerVars, made, inactive, exits>>
  <2>1. resizing \in BOOLEAN BY DEF HashInv, TypeOK
  <2>2. QED BY <2>1 DEF ResizeFails, CreateFails, producerVars
<1>2. mine[t] = Null /\ \A h \in 1 .. Len(tables) : ~Has(t, h)
  BY <1>1 DEF HashInv, ThreadInv, Adding
<1>3. Only(t) /\ Streams(t)' = {} BY <1>1, ReturnKeeps
<1>4. StreamInv' BY <1>1, <1>3, SameStreams
<1>5. count' >= count - Weight(pc[t]) /\ count \in Nat
  BY <1>1 DEF Weight, HashInv, TypeOK
<1>6. made' \in 0 .. MaxProducers /\ inactive' \subseteq 1 .. made'
  BY <1>1 DEF HashInv, TypeOK
<1>7. QED BY <1>1, <1>2, <1>4, <1>5, <1>6, QuietReturn

(* The call begins. *)
LEMMA SearchesKeeps ==
    ASSUME HashInv, NEW t \in Threads, Searches(t) PROVE HashInv'
<1>1. /\ pc[t] = "idle" /\ pc' = [pc EXCEPT ![t] = "search"]
      /\ UNCHANGED <<tables, count, resizing, producerVars, made, inactive, mainHash,
                     index, newCount, value, mine, exits>>
  BY DEF Searches, Goes, tableVars, producerVars, locals, history
<1>2. pc'[t] = "search" /\ ThreadInv(t) /\ count \in Nat
  BY <1>1 DEF HashInv, TypeOK
<1>3. Only(t) BY <1>1 DEF HashInv, TypeOK, Only
<1>4. \A h \in 1 .. Len(tables) : Has(t, h)' <=> Has(t, h) BY <1>1 DEF Has
<1>5. ThreadInv(t)' BY <1>1, <1>2, <1>4 DEF ThreadInv, Adding
<1>6. StreamInv'
  <2>1. Streams(t)' \subseteq Streams(t) BY <1>1 DEF Streams
  <2>2. QED BY <1>1, <1>3, <2>1, SameStreams
<1>7. CountInv' /\ count' \in Nat
  <2>1. count' >= count + Weight("search") - Weight(pc[t]) BY <1>1, <1>2 DEF Weight
  <2>2. QED BY <1>1, <2>1, CountStep
<1>8. RestOK' BY <1>1, <1>7 DEF HashInv, TypeOK, RestOK
<1>9. QED BY <1>1, <1>3, <1>5, <1>6, <1>7, <1>8, QuietStep

LEMMA FindsInMainKeeps ==
    ASSUME HashInv, NEW t \in Threads, FindsInMain(t) PROVE HashInv'
<1>1. /\ pc[t] = "search" /\ SearchEndsIn(t, Len(tables))
      /\ Returns(t, ValueIn(t, Len(tables)))
      /\ UNCHANGED <<tables, count, resizing, producerVars, made, inactive, exits>>
  BY DEF FindsInMain, tableVars, producerVars
<1>2. /\ Len(tables) \in 1 .. Len(tables) /\ mine[t] \in Producers \cup {Null}
      /\ Len(tables) \in 0 .. Len(tables) /\ Len(tables) # 0
  BY DEF HashInv, TypeOK
<1>3. ValueIn(t, Len(tables)) = mine[t] BY <1>1, <1>2, OwnStreamFound
<1>4. Has(t, Len(tables)) BY <1>1, <1>2, ChainSearch DEF HashInv
<1>5. Returns(t, mine[t]) BY <1>1, <1>3
<1>6. HasKept(t) BY <1>1, SameTables DEF HashInv
<1>7. \E h \in 1 .. Len(tables) : Has(t, h) BY <1>2, <1>4
<1>8. \E h \in 1 .. Len(tables') : Has(t, h)' BY <1>1, <1>6, <1>7 DEF HasKept
<1>9. PICK p \in Producers \cup {Null} : p = mine[t] /\ Returns(t, p) BY <1>2, <1>5
<1>10. Only(t) /\ Streams(t)' = {p} \ {Null} BY <1>1, <1>8, <1>9, ReturnKeeps
<1>11. StreamInv' 
  <2>1. Streams(t)' \subseteq Streams(t) BY <1>9, <1>10 DEF Streams
  <2>2. QED BY <1>1, <1>10, <2>1, SameStreams
<1>12. count' >= count - Weight(pc[t]) /\ count \in Nat
  BY <1>1 DEF Weight, HashInv, TypeOK
<1>13. /\ made' \in 0 .. MaxProducers /\ inactive' \subseteq 1 .. made'
       /\ resizing' \in BOOLEAN
  BY <1>1 DEF HashInv, TypeOK
<1>14. QED BY <1>1, <1>7, <1>9, <1>11, <1>12, <1>13, QuietReturn

(* The stream of a thread that ends is nobody's from now on. *)
LEMMA RetiresKeeps ==
    ASSUME HashInv, NEW t \in Threads, Retires(t) PROVE HashInv'
<1>1. /\ pc[t] = "leave" /\ mainHash[t] = 0
      /\ inactive' = inactive \cup {mine[t]} /\ Returns(t, Null)
      /\ UNCHANGED <<tables, count, resizing, made, exits>>
  BY DEF Retires, tableVars
<1>2. /\ mine[t] # Null /\ value[t] = Null
      /\ \A h \in 1 .. Len(tables) : ~Has(t, h)
  <2>1. mainHash[t] + 1 = 1 BY <1>1
  <2>2. QED BY <1>1, <2>1 DEF HashInv, ThreadInv
<1>3. mine[t] \in Streams(t) /\ Streams(t) \subseteq 1 .. made
  BY <1>2 DEF Streams, HashInv, StreamInv
<1>4. Only(t) /\ Streams(t)' = {} BY <1>1, ReturnKeeps
<1>5. made \in 0 .. MaxProducers /\ made \in Nat /\ inactive \subseteq 1 .. made
  BY HashAssumption DEF HashInv, TypeOK
<1>6. StreamInv' BY <1>1, <1>3, <1>4, <1>5, StreamStep
<1>7. count' >= count - Weight(pc[t]) /\ count \in Nat /\ resizing' \in BOOLEAN
  BY <1>1 DEF Weight, HashInv, TypeOK
<1>8. made' \in 0 .. MaxProducers /\ inactive' \subseteq 1 .. made'
  BY <1>1, <1>3, <1>5
<1>9. QED BY <1>1, <1>2, <1>6, <1>7, <1>8, QuietReturn

(* t is in no newer table than the one it was found in. *)
LEMMA FindsInOlderKeeps ==
    ASSUME HashInv, NEW t \in Threads, FindsInOlder(t) PROVE HashInv'
<1>0. PICK n : n = Len(tables) OBVIOUS
<1>1. PICK g \in 1 .. n - 1 :
          /\ pc[t] = "search" /\ SearchEndsIn(t, g)
          /\ mainHash' = [mainHash EXCEPT ![t] = n]
          /\ index' = [index EXCEPT ![t] = Probe(t, n, 0)]
          /\ value' = [value EXCEPT ![t] = ValueIn(t, g)]
          /\ pc' = [pc EXCEPT ![t] = "move"]
          /\ UNCHANGED <<tables, count, resizing, producerVars, made, inactive, newCount,
                         mine, exits>>
  BY <1>0 DEF FindsInOlder, Goes, tableVars, producerVars, history
<1>2. /\ n \in 1 .. Len(tables) /\ n \in Nat /\ TablesInv /\ count \in Nat
      /\ mine \in [Threads -> Producers \cup {Null}]
      /\ \A h \in 1 .. Len(tables) : EntryInv(h)
  BY <1>0 DEF HashInv, TypeOK
<1>3. /\ \A h \in g + 1 .. n : ~Has(t, h)
      /\ ValueIn(t, g) = mine[t] /\ mine[t] # Null
  <2>1. g \in 0 .. Len(tables) /\ g # 0 BY <1>0, <1>2
  <2>2. QED BY <1>0, <1>1, <1>2, <2>1, ChainSearch
<1>4. ~Has(t, n) /\ \A h \in n .. Len(tables) : ~Has(t, h)
  <2>1. n \in g + 1 .. n BY <1>2
  <2>2. \A h \in n .. Len(tables) : h = n BY <1>0, <1>2
  <2>3. QED BY <1>3, <2>1, <2>2
<1>5. /\ pc'[t] = "move" /\ mainHash'[t] = n /\ value'[t] = mine[t]
      /\ index'[t] = Probe(t, n, 0)
  BY <1>1, <1>3 DEF HashInv, TypeOK
<1>6. /\ index'[t] \in Nat
      /\ (\E k \in 0 .. tables[mainHash[t]].capacity - 1 :
              index[t] = Probe(t, mainHash[t], k) /\ Clear(t, mainHash[t], k))'
  BY <1>1, <1>2, <1>5, WalkBegins
<1>7. Only(t) BY <1>1 DEF HashInv, TypeOK, Only
<1>8. \A h \in n .. Len(tables') : ~Has(t, h)' BY <1>1, <1>4 DEF Has
<1>9. ThreadInv(t)' BY <1>1, <1>2, <1>3, <1>5, <1>6, <1>8 DEF ThreadInv, Adding
<1>10. StreamInv'
  <2>1. Streams(t)' \subseteq Streams(t) BY <1>1, <1>5 DEF Streams
  <2>2. QED BY <1>1, <1>7, <2>1, SameStreams
<1>11. CountInv' /\ count' \in Nat
  <2>1. count' >= count + Weight("move") - Weight(pc[t]) BY <1>1, <1>2 DEF Weight
  <2>2. QED BY <1>1, <2>1, CountStep
<1>12. RestOK'
  <2>1. Probe(t, n, 0) \in Nat /\ ValueIn(t, g) \in Producers \cup {Null}
    BY <1>2, <1>3, <1>5, <1>6
  <2>2. QED BY <1>0, <1>1, <1>2, <1>11, <2>1 DEF HashInv, TypeOK, RestOK
<1>13. QED BY <1>1, <1>7, <1>9, <1>10, <1>11, <1>12, QuietStep

LEMMA FindsNothingKeeps ==
    ASSUME HashInv, NEW t \in Threads, FindsNothing(t) PROVE HashInv'
<1>0. PICK n : n = Len(tables) OBVIOUS
<1>1. /\ pc[t] = "search" /\ SearchEndsIn(t, 0)
      /\ mainHash' = [mainHash EXCEPT ![t] = n]
      /\ pc' = [pc EXCEPT ![t] = "count"]
      /\ UNCHANGED <<tables, count, resizing, producerVars, made, inactive, index,
                     newCount, value, mine, exits>>
  BY <1>0 DEF FindsNothing, Goes, tableVars, producerVars, history
<1>2. /\ n \in Nat \ {0} /\ TablesInv /\ count \in Nat
      /\ \A h \in 1 .. Len(tables) : EntryInv(h)
  BY <1>0 DEF HashInv, TypeOK
<1>3. \A h \in 1 .. n : ~Has(t, h)
  <2>1. 0 \in 0 .. Len(tables) BY <1>0, <1>2
  <2>2. \A h \in 0 + 1 .. n : ~Has(t, h) BY <1>0, <1>1, <1>2, <2>1, ChainSearch
  <2>3. QED BY <2>2
<1>4. mine[t] = Null /\ value[t] = Null BY <1>0, <1>1, <1>3 DEF HashInv, ThreadInv
<1>5. pc'[t] = "count" /\ mainHash'[t] = n BY <1>1 DEF HashInv, TypeOK
<1>6. Only(t) BY <1>1 DEF HashInv, TypeOK, Only
<1>7. \A h \in 1 .. Len(tables') : ~Has(t, h)' BY <1>0, <1>1, <1>3 DEF Has
<1>8. ThreadInv(t)' BY <1>1, <1>2, <1>4, <1>5, <1>7 DEF ThreadInv, Adding
<1>9. StreamInv'
  <2>1. Streams(t)' \subseteq Streams(t) BY <1>1 DEF Streams
  <2>2. QED BY <1>1, <1>6, <2>1, SameStreams
<1>10. CountInv' /\ count' \in Nat
  <2>1. count' >= count + Weight("count") - Weight(pc[t]) BY <1>1, <1>2 DEF Weight
  <2>2. QED BY <1>1, <2>1, CountStep
<1>11. RestOK' BY <1>0, <1>1, <1>2, <1>10 DEF HashInv, TypeOK, RestOK
<1>12. QED BY <1>1, <1>6, <1>8, <1>9, <1>10, <1>11, QuietStep

LEMMA ExitsKeeps ==
    ASSUME HashInv, NEW t \in Threads, Exits(t) PROVE HashInv'
<1>1. /\ pc[t] = "idle" /\ mine[t] # Null /\ exits < MaxExits /\ exits' = exits + 1
      /\ mainHash' = [mainHash EXCEPT ![t] = Len(tables)]
      /\ pc' = [pc EXCEPT ![t] = "leave"]
      /\ UNCHANGED <<tables, count, resizing, producerVars, made, inactive, index,
                     newCount, value, mine>>
  BY DEF Exits, Goes, tableVars, producerVars
<1>2. Len(tables) \in Nat /\ count \in Nat /\ value[t] = Null
  BY <1>1 DEF HashInv, TypeOK, ThreadInv
<1>3. pc'[t] = "leave" /\ mainHash'[t] = Len(tables) BY <1>1 DEF HashInv, TypeOK
<1>4. Only(t) BY <1>1 DEF HashInv, TypeOK, Only
<1>5. \A h \in Len(tables) + 1 .. Len(tables) : FALSE BY <1>2
<1>6. ThreadInv(t)' BY <1>1, <1>2, <1>3, <1>5 DEF ThreadInv, Adding
<1>7. StreamInv'
  <2>1. Streams(t)' \subseteq Streams(t) BY <1>1 DEF Streams
  <2>2. QED BY <1>1, <1>4, <2>1, SameStreams
<1>8. CountInv' /\ count' \in Nat
  <2>1. count' >= count + Weight("leave") - Weight(pc[t]) BY <1>1, <1>2 DEF Weight
  <2>2. QED BY <1>1, <2>1, CountStep
<1>9. RestOK'
  <2>1. exits' \in 0 .. MaxExits BY <1>1, HashAssumption DEF HashInv, TypeOK
  <2>2. QED BY <1>1, <1>2, <1>8, <2>1 DEF HashInv, TypeOK, RestOK
<1>10. QED BY <1>1, <1>4, <1>6, <1>7, <1>8, <1>9, QuietStep

LEMMA TriesNextKeeps ==
    ASSUME HashInv, NEW t \in Threads, TriesNext(t) PROVE HashInv'
<1>0. PICK h : h = mainHash[t] OBVIOUS
<1>1. /\ pc[t] \in {"move", "insert"} /\ KeyThere(t) \in Threads
      /\ index' = [index EXCEPT ![t] = (index[t] + 1) % tables[h].capacity]
      /\ UNCHANGED <<tables, count, resizing, producerVars, made, inactive, pc,
                     mainHash, newCount, value, mine, exits>>
  BY <1>0 DEF TriesNext, tableVars, producerVars, history
<1>2. /\ TablesInv /\ ThreadInv(t) /\ h \in 1 .. Len(tables)
      /\ index'[t] = (index[t] + 1) % tables[h].capacity
  BY <1>0, <1>1 DEF HashInv, TypeOK, ThreadInv, Adding
<1>3. PICK k \in 0 .. tables[h].capacity - 1 : index[t] = Probe(t, h, k) /\ Clear(t, h, k)
  BY <1>0, <1>1, <1>2 DEF ThreadInv
<1>4. /\ index'[t] \in Nat
      /\ (\E j \in 0 .. tables[mainHash[t]].capacity - 1 :
              index[t] = Probe(t, mainHash[t], j) /\ Clear(t, mainHash[t], j))'
  BY <1>0, <1>1, <1>2, <1>3, WalkGoesOn
<1>5. Only(t) BY <1>1 DEF HashInv, TypeOK, Only
<1>6. ThreadInv(t)'
  <2>1. \A g \in 1 .. Len(tables) : Has(t, g)' <=> Has(t, g) BY <1>1 DEF Has
  <2>2. h \in Nat \ {0} /\ Len(tables) \in Nat BY <1>2 DEF HashInv, TypeOK
  <2>3. \A g \in h .. Len(tables) : g \in 1 .. Len(tables) BY <2>2
  <2>4. QED BY <1>0, <1>1, <1>2, <1>4, <2>1, <2>3 DEF ThreadInv, Adding
<1>7. StreamInv'
  <2>1. Streams(t)' \subseteq Streams(t) BY <1>1 DEF Streams
  <2>2. QED BY <1>1, <1>5, <2>1, SameStreams
<1>8. CountInv' BY <1>1 DEF HashInv, CountInv, Counted
<1>9. RestOK' BY <1>1, <1>2, <1>4 DEF HashInv, TypeOK, RestOK
<1>10. QED BY <1>1, <1>5, <1>6, <1>7, <1>8, <1>9, QuietStep

(* t takes a stream that is nobody's. *)
LEMMA TakesKeeps ==
    ASSUME HashInv, NEW t \in Threads, NEW p \in Producers, Takes(t, p),
           made' \in 0 .. MaxProducers, made <= made', p \in 1 .. made',
           inactive' \subseteq inactive, inactive' \subseteq 1 .. made',
           p \notin inactive', \A u \in Threads \ {t} : p \notin Streams(u)
    PROVE  HashInv'
<1>0. PICK h : h = mainHash[t] OBVIOUS
<1>1. /\ pc[t] = "place"
      /\ value' = [value EXCEPT ![t] = p]
      /\ index' = [index EXCEPT ![t] = Probe(t, h, 0)]
      /\ pc' = [pc EXCEPT ![t] = "insert"]
      /\ UNCHANGED <<tables, count, resizing, mainHash, newCount, mine, exits>>
  BY <1>0 DEF Takes, Goes, tableVars, history
<1>2. /\ TablesInv /\ h \in 1 .. Len(tables) /\ count \in Nat /\ made' \in Nat
      /\ mine[t] = Null /\ \A g \in 1 .. Len(tables) : ~Has(t, g)
  BY <1>0, <1>1, HashAssumption DEF HashInv, TypeOK, ThreadInv, Adding
<1>3. p # Null BY HashAssumption DEF Producers
<1>4. /\ pc'[t] = "insert" /\ value'[t] = p /\ index'[t] = Probe(t, h, 0)
      /\ mainHash'[t] = h /\ h # 0
  BY <1>0, <1>1, <1>2 DEF HashInv, TypeOK
<1>5. /\ index'[t] \in Nat
      /\ (\E k \in 0 .. tables[mainHash[t]].capacity - 1 :
              index[t] = Probe(t, mainHash[t], k) /\ Clear(t, mainHash[t], k))'
  BY <1>1, <1>2, <1>4, WalkBegins
<1>6. Only(t) BY <1>1 DEF HashInv, TypeOK, Only
<1>7. \A g \in 1 .. Len(tables') : ~Has(t, g)' BY <1>1, <1>2 DEF Has
<1>8. ThreadInv(t)' BY <1>1, <1>2, <1>3, <1>4, <1>5, <1>7 DEF ThreadInv, Adding
<1>9. StreamInv'
  <2>1. Streams(t)' = {p} BY <1>1, <1>2, <1>3, <1>4 DEF Streams
  <2>2. QED BY <1>2, <1>6, <2>1, StreamStep
<1>10. CountInv' /\ count' \in Nat
  <2>1. count' >= count + Weight("insert") - Weight(pc[t]) BY <1>1, <1>2 DEF Weight
  <2>2. QED BY <1>1, <2>1, CountStep
<1>11. RestOK'
  <2>1. Probe(t, h, 0) \in Nat BY <1>4, <1>5
  <2>2. QED BY <1>1, <1>10, <2>1 DEF HashInv, TypeOK, RestOK
<1>12. QED BY <1>1, <1>6, <1>8, <1>9, <1>10, <1>11, QuietStep

LEMMA RecyclesKeeps ==
    ASSUME HashInv, NEW t \in Threads, NEW p \in Producers, Recycles(t, p) PROVE HashInv'
<1>1. /\ p \in inactive /\ Takes(t, p) /\ inactive' = inactive \ {p} /\ made' = made
  BY DEF Recycles
<1>2. /\ made \in 0 .. MaxProducers /\ made \in Nat /\ inactive \subseteq 1 .. made
      /\ \A u \in Threads : p \notin Streams(u)
  BY <1>1, HashAssumption DEF HashInv, TypeOK, StreamInv, StreamNotShared
<1>3. QED BY <1>1, <1>2, TakesKeeps

LEMMA CreatesKeeps ==
    ASSUME HashInv, NEW t \in Threads, Creates(t) PROVE HashInv'
<1>1. PICK p : p = made + 1 OBVIOUS
<1>2. /\ made < MaxProducers /\ Takes(t, p) /\ made' = p /\ inactive' = inactive
  BY <1>1 DEF Creates
<1>3. /\ made \in Nat /\ inactive \subseteq 1 .. made
      /\ \A u \in Threads : Streams(u) \subseteq 1 .. made
  BY HashAssumption DEF HashInv, TypeOK, StreamInv
<1>4. /\ p \in Producers /\ p \in 1 .. made' /\ made <= made'
      /\ made' \in 0 .. MaxProducers /\ p \notin 1 .. made
      /\ inactive' \subseteq 1 .. made'
  BY <1>1, <1>2, <1>3, HashAssumption DEF Producers
<1>5. QED BY <1>2, <1>3, <1>4, TakesKeeps

(* t enters its stream in the table and returns it. *)
LEMMA EntersKeeps ==
    ASSUME HashInv, NEW t \in Threads, pc[t] \in {"move", "insert"},
           KeyThere(t) \in {invalid_thread_id, invalid_thread_id2},
           Enter(t), Returns(t, value[t]), UNCHANGED <<resizing, producerVars, exits>>,
           count' = count \/ count' = count - 1, count' >= count - Weight(pc[t])
    PROVE  HashInv'
<1>0. PICK h, p : h = mainHash[t] /\ p = value[t] OBVIOUS
<1>1. UNCHANGED <<made, inactive>> BY DEF producerVars
<1>2. p \in Producers \cup {Null} /\ count \in Nat BY <1>0 DEF HashInv, TypeOK
<1>3. /\ TablesInv' /\ TablesKept /\ Len(tables') = Len(tables)
      /\ \A u \in Threads \ {t} : HasKept(u)
      /\ h \in 1 .. Len(tables) /\ Has(t, h)'
      /\ \A g \in 1 .. Len(tables') : EntryInv(g)'
  <2>1. mine' = [mine EXCEPT ![t] = value[t]] BY DEF Returns
  <2>2. QED BY <1>0, <2>1, EnterKeeps
<1>4. /\ Only(t) /\ ThreadInv(t)'
      /\ pc' = [pc EXCEPT ![t] = "idle"] /\ mine'[t] = p /\ Streams(t)' = {p} \ {Null}
      /\ pc' \in [Threads -> {"idle", "search", "move", "count", "room", "resize",
                              "place", "insert", "leave"}]
      /\ mainHash' \in [Threads -> 0 .. Len(tables')]
      /\ index' \in [Threads -> Nat] /\ newCount' \in [Threads -> Nat]
      /\ value' \in [Threads -> Producers \cup {Null}]
      /\ mine' \in [Threads -> Producers \cup {Null}]
  <2>1. Returns(t, p) /\ \E g \in 1 .. Len(tables') : Has(t, g)' BY <1>0, <1>3
  <2>2. QED BY <1>2, <1>3, <2>1, ReturnKeeps
<1>5. StreamInv'
  <2>1. Streams(t)' \subseteq Streams(t) BY <1>0, <1>4 DEF Streams
  <2>2. QED BY <1>4, <2>1, SameStreams
<1>6. CountInv' /\ count' \in Nat
  <2>1. Weight("idle") = 0 /\ Weight(pc[t]) \in {0, 1} BY DEF Weight
  <2>2. count' >= count + Weight("idle") - Weight(pc[t]) BY <1>2, <2>1
  <2>3. QED BY <1>4, <2>2, CountStep
<1>7. RestOK' BY <1>1, <1>3, <1>4, <1>6 DEF HashInv, TypeOK, RestOK
<1>8. QED BY <1>3, <1>4, <1>5, <1>6, <1>7, Step

LEMMA InsertionsKeep ==
    ASSUME HashInv, NEW t \in Threads,
           Moves(t) \/ InsertsInReusable(t) \/ InsertsInEmpty(t)
    PROVE  HashInv'
<1>1. count \in Nat /\ Weight("move") = 0 /\ Weight("insert") = 1
  BY DEF HashInv, TypeOK, Weight
<1>2. CASE Moves(t)
  <2>1. /\ pc[t] = "move" /\ count' = count
        /\ KeyThere(t) \in {invalid_thread_id, invalid_thread_id2}
        /\ Enter(t) /\ Returns(t, value[t]) /\ UNCHANGED <<resizing, producerVars, exits>>
    BY <1>2 DEF Moves
  <2>2. count' >= count - Weight(pc[t]) BY <1>1, <2>1
  <2>3. QED BY <2>1, <2>2, EntersKeeps
<1>3. CASE InsertsInReusable(t)
  <2>1. /\ pc[t] = "insert" /\ count' = count - 1
        /\ KeyThere(t) \in {invalid_thread_id, invalid_thread_id2}
        /\ Enter(t) /\ Returns(t, value[t]) /\ UNCHANGED <<resizing, producerVars, exits>>
    BY <1>3 DEF InsertsInReusable
  <2>2. count' >= count - Weight(pc[t]) BY <1>1, <2>1
  <2>3. QED BY <2>1, <2>2, EntersKeeps
<1>4. CASE InsertsInEmpty(t)
  <2>1. /\ pc[t] = "insert" /\ count' = count
        /\ KeyThere(t) \in {invalid_thread_id, invalid_thread_id2}
        /\ Enter(t) /\ Returns(t, value[t]) /\ UNCHANGED <<resizing, producerVars, exits>>
    BY <1>4 DEF InsertsInEmpty
  <2>2. count' >= count - Weight(pc[t]) BY <1>1, <2>1
  <2>3. QED BY <2>1, <2>2, EntersKeeps
<1>5. QED BY <1>2, <1>3, <1>4

(* A thread that ends is out of the tables it has been through. *)
LEMMA LeavesKeeps ==
    ASSUME HashInv, NEW t \in Threads, Leaves(t) PROVE HashInv'
<1>0. PICK h : h = mainHash[t] OBVIOUS
<1>1. /\ pc[t] = "leave" /\ h # 0
      /\ mainHash' = [mainHash EXCEPT ![t] = h - 1]
      /\ UNCHANGED <<count, resizing, producerVars, made, inactive, pc, index, newCount,
                     value, mine, exits>>
  BY <1>0 DEF Leaves, producerVars, history
<1>2. /\ TablesInv /\ h \in 1 .. Len(tables) /\ Len(tables) \in Nat
      /\ mine[t] # Null /\ value[t] = Null
      /\ \A g \in h + 1 .. Len(tables) : ~Has(t, g)
      /\ \A g \in 1 .. Len(tables) : EntryInv(g)
  <2>1. /\ TablesInv /\ ThreadInv(t) /\ Len(tables) \in Nat
        /\ mainHash[t] \in 0 .. Len(tables)
        /\ \A g \in 1 .. Len(tables) : EntryInv(g)
    BY DEF HashInv, TypeOK
  <2>2. mine[t] # Null /\ value[t] = Null /\ \A g \in h + 1 .. Len(tables) : ~Has(t, g)
    BY <1>0, <1>1, <2>1 DEF ThreadInv
  <2>3. QED BY <1>0, <1>1, <2>1, <2>2
<1>3. Only(t) BY <1>1 DEF HashInv, TypeOK, Only
<1>4. /\ TablesInv' /\ TablesKept /\ Len(tables') = Len(tables)
      /\ \A u \in Threads \ {t} : HasKept(u)
      /\ ~Has(t, h)'
      /\ \A g \in 1 .. Len(tables) : g # h => (Has(t, g)' <=> Has(t, g))
      /\ \A g \in 1 .. Len(tables') : EntryInv(g)'
  <2>1. CASE FoundIn(t, h)
    <3>1. tables' = [tables EXCEPT ![h].key =
                         [@ EXCEPT ![SlotIn(t, h)] = invalid_thread_id2]]
      BY <1>0, <2>1 DEF Leaves
    <3>2. QED BY <1>1, <1>2, <2>1, <3>1, LeaveKeeps
  <2>2. CASE ~FoundIn(t, h)
    <3>1. UNCHANGED tables BY <1>0, <2>2 DEF Leaves
    <3>2. TablesInv' /\ TablesKept /\ \A u \in Threads : HasKept(u)
      BY <1>2, <3>1, SameTables
    <3>3. ~Has(t, h) BY <1>2, <2>2, SearchFinds
    <3>4. \A g \in 1 .. Len(tables) : Has(t, g)' <=> Has(t, g) BY <3>1 DEF Has
    <3>5. ASSUME NEW g \in 1 .. Len(tables) PROVE EntryInv(g)'
      BY <1>1, <1>2, <3>1, <3>2, EntryKept
    <3>6. QED BY <1>2, <3>1, <3>2, <3>3, <3>4, <3>5
  <2>3. QED BY <2>1, <2>2
<1>5. ThreadInv(t)'
  <2>1. mainHash'[t] = h - 1 /\ pc'[t] = "leave" BY <1>1 DEF HashInv, TypeOK
  <2>2. ASSUME NEW g \in h .. Len(tables) PROVE ~Has(t, g)'
    <3>1. CASE g = h BY <1>4, <3>1
    <3>2. CASE g # h
      <4>1. g \in h + 1 .. Len(tables) /\ g \in 1 .. Len(tables) BY <1>2, <3>2
      <4>2. QED BY <1>2, <1>4, <3>2, <4>1
    <3>3. QED BY <3>1, <3>2
  <2>3. mainHash'[t] + 1 = h BY <1>2, <2>1
  <2>4. QED BY <1>1, <1>2, <1>4, <2>1, <2>2, <2>3 DEF ThreadInv, Adding
<1>6. StreamInv'
  <2>1. Streams(t)' \subseteq Streams(t) BY <1>1 DEF Streams
  <2>2. QED BY <1>1, <1>3, <2>1, SameStreams
<1>7. CountInv' BY <1>1 DEF HashInv, CountInv, Counted
<1>8. RestOK' BY <1>1, <1>2, <1>4 DEF HashInv, TypeOK, RestOK
<1>9. QED BY <1>3, <1>4, <1>5, <1>6, <1>7, <1>8, Step

-----------------------------------------------------------------------------
(* The theorems *)

LEMMA InitHash == Init => HashInv
<1> SUFFICES ASSUME Init PROVE HashInv OBVIOUS
<1> USE DEF Init
<1> DEFINE c == INITIAL_IMPLICIT_PRODUCER_HASH_SIZE
           T == NewTable(c)
<1>1. c \in Nat \ {0} /\ tables = <<T>> /\ Len(tables) = 1 /\ tables[1] = T
  BY HashAssumption
<1>2. /\ T.capacity = c
      /\ T.key \in [0 .. c - 1 -> Keys]
      /\ T.value \in [0 .. c - 1 -> Producers \cup {Null}]
      /\ \A i \in 0 .. c - 1 : T.key[i] = invalid_thread_id
  BY DEF NewTable, Keys
<1>3. T.key \in Slots(Keys) /\ T.value \in Slots(Producers \cup {Null})
  BY <1>1, <1>2, SlotsOf
<1>4. T \in TableType
  <2>1. T = [capacity |-> T.capacity, key |-> T.key, value |-> T.value]
    BY DEF NewTable
  <2> HIDE DEF T
  <2>2. QED BY <1>1, <1>2, <1>3, <2>1 DEF TableType
<1> HIDE DEF T, c
<1>5. \A h \in 1 .. Len(tables) : h = 1 BY <1>1
<1>6. TablesInv BY <1>1, <1>2, <1>4, <1>5 DEF TablesInv
<1>7. TypeOK
  <2>1. DOMAIN tables = 1 .. Len(tables) BY <1>6, LenProperties DEF TablesInv
  <2>2. /\ Len(tables) \in 1 .. MaxTables /\ 0 \in 0 .. MaxProducers
        /\ 0 \in 0 .. MaxExits /\ 0 \in 0 .. Len(tables)
    BY <1>1, HashAssumption
  <2>3. QED BY <1>6, <2>1, <2>2 DEF TypeOK, TablesInv
<1>8. CountInv
  <2>1. Counted = {} BY DEF Counted
  <2>2. QED BY <2>1, FS_EmptySet DEF CountInv
<1>9. StreamInv
  <2>1. \A t \in Threads : Streams(t) = {} BY DEF Streams
  <2>2. QED BY <2>1 DEF StreamInv, StreamNotShared
<1>10. \A h \in 1 .. Len(tables) : EntryInv(h)
  BY <1>1, <1>2, <1>5, HashAssumption DEF EntryInv
<1>11. \A t \in Threads : ThreadInv(t) BY DEF ThreadInv, Adding
<1>12. QED BY <1>6, <1>7, <1>8, <1>9, <1>10, <1>11 DEF HashInv

LEMMA NextHash == HashInv /\ [Next]_vars => HashInv'
<1> SUFFICES ASSUME HashInv, [Next]_vars PROVE HashInv' OBVIOUS
<1>1. CASE UNCHANGED vars
  <2>1. UNCHANGED <<tables, count, resizing, made, inactive, pc, mainHash, index,
                    newCount, value, mine, exits>>
    BY <1>1 DEF vars, tableVars, producerVars, locals, history
  <2>2. TypeOK' /\ CountInv' BY <2>1 DEF HashInv, TypeOK, CountInv, Counted
  <2>3. StreamInv' BY <2>1 DEF HashInv, StreamInv, StreamNotShared, Streams
  <2>4. TablesInv' /\ TablesKept /\ \A t \in Threads : HasKept(t)
    BY <2>1, SameTables DEF HashInv
  <2>5. ASSUME NEW h \in 1 .. Len(tables') PROVE EntryInv(h)'
    BY <2>1, <2>4, EntryKept DEF HashInv
  <2>6. ASSUME NEW t \in Threads PROVE ThreadInv(t)'
    BY <2>1, <2>4, ThreadKept DEF HashInv
  <2>7. QED BY <2>2, <2>3, <2>4, <2>5, <2>6 DEF HashInv
<1>2. CASE Next
  <2>1. PICK t \in Threads : GetBegins(t) \/ GetGoesOn(t) \/ Exits(t) \/ ExitGoesOn(t)
    BY <1>2 DEF Next
  <2>2. CASE GetBegins(t) BY <2>2, SearchesKeeps DEF GetBegins
  <2>3. CASE GetGoesOn(t)
    BY <2>3, FindsInMainKeeps, FindsInOlderKeeps, FindsNothingKeeps, TriesNextKeeps,
       InsertionsKeep, CountsKeeps, ResizeStepsKeep, ResizesKeeps, FailuresKeep,
       RecyclesKeeps, CreatesKeeps DEF GetGoesOn
  <2>4. CASE Exits(t) BY <2>4, ExitsKeeps
  <2>5. CASE ExitGoesOn(t) BY <2>5, LeavesKeeps, RetiresKeeps DEF ExitGoesOn
  <2>6. QED BY <2>1, <2>2, <2>3, <2>4, <2>5
<1>3. QED BY <1>1, <1>2

(* HashInv holds in every state of get_or_add_implicit_producer and        *)
(* implicit_producer_thread_exited.                                        *)
LEMMA HashInvariant == Spec => []HashInv
BY InitHash, NextHash, PTL DEF Spec

(* Every variable of the hash of implicit producers has its type: in       *)
(* particular implicitProducerHashCount, which calls raise before they     *)
(* look for a slot and take back when they fail or reuse one, never goes   *)
(* below zero.                                                             *)
THEOREM HashTypeCorrect == Spec => []TypeOK
<1>1. HashInv => TypeOK BY DEF HashInv
<1>2. QED BY <1>1, HashInvariant, PTL

(* get_or_add_implicit_producer finds the stream a thread was given, and   *)
(* none for a thread whose identifier an ended thread had, for any number  *)
(* of threads, any hash function and any growth of the tables.             *)
THEOREM HashFindsOwnStream == Spec => []FindsOwnStream
<1>1. HashInv => FindsOwnStream BY OwnStreamFound DEF FindsOwnStream
<1>2. QED BY <1>1, HashInvariant, PTL

(* No two threads write to one implicit producer, and none to one that     *)
(* recycle_or_create_producer may hand out.                                *)
THEOREM HashStreamNotShared == Spec => []StreamNotShared
<1>1. HashInv => StreamNotShared BY DEF HashInv, StreamInv
<1>2. QED BY <1>1, HashInvariant, PTL
-----------------------------------------------------------------------------
(* Room for one more *)

(* t is counted: it is in a table, on its way into one, or counted itself in. *)
Placed(t) ==
    \/ pc[t] \in {"room", "resize", "place", "insert", "move"}
    \/ \E h \in 1 .. Len(tables) : Has(t, h)

(* The number n will do for t: the count covers it, and the tables that t  *)
(* is in or about to be entered in have waiting begin above it.            *)
Fits(t, n) ==
    /\ n \in 1 .. count
    /\ t \in Counted => n <= newCount[t]
    /\ pc[t] \in {"insert", "move"} => n < ThreeQuarters(mainHash[t])
    /\ \A h \in 1 .. Len(tables) : Has(t, h) => n < ThreeQuarters(h)

(* g gives each of them a number of its own that will do. *)
Seated(g) ==
    /\ g \in [Threads -> Nat]
    /\ \A t \in Threads : Placed(t) => Fits(t, g[t])
    /\ \A t, u \in Threads : Placed(t) /\ Placed(u) /\ g[t] = g[u] => t = u

(* No thread has ended or is about to. *)
NoneEnded ==
    /\ \A t \in Threads : pc[t] # "leave"
    /\ \A h \in 1 .. Len(tables) : \A i \in 0 .. tables[h].capacity - 1 :
           tables[h].key[i] # invalid_thread_id2

(* One thread resizes, and knows the main table. *)
ResizeInv ==
    \A t \in Threads : pc[t] = "resize" =>
        /\ resizing /\ mainHash[t] = Len(tables)
        /\ \A u \in Threads : pc[u] = "resize" => u = t

(* Tables do not shrink. *)
GrowInv ==
    \A h \in 1 .. Len(tables) : \A g \in 1 .. h :
        tables[g].capacity <= tables[h].capacity

(* What makes EmptySlotRemains inductive, with HashInv. *)
RoomInv ==
    /\ ResizeInv /\ GrowInv
    /\ exits = 0 => NoneEnded /\ \E g \in [Threads -> Nat] : Seated(g)

(* Every step is one thread's; the others' place is as it was. *)
Apart(t) ==
    \A u \in Threads \ {t} :
        pc'[u] = pc[u] /\ mainHash'[u] = mainHash[u] /\ newCount'[u] = newCount[u]

LEMMA QuarterFacts ==
    ASSUME TablesInv, NEW h \in 1 .. Len(tables)
    PROVE  /\ ThreeQuarters(h) \in Nat
           /\ ThreeQuarters(h) <= tables[h].capacity
<1>1. tables[h].capacity \in Nat BY TableFacts
<1>2. \A c \in Nat : c \div 2 + c \div 4 \in Nat /\ c \div 2 + c \div 4 <= c OBVIOUS
<1>3. QED BY <1>1, <1>2 DEF ThreeQuarters, Half

LEMMA QuartersGrow ==
    ASSUME TablesInv, GrowInv, NEW h \in 1 .. Len(tables), NEW g \in 1 .. h
    PROVE  ThreeQuarters(g) <= ThreeQuarters(h)
<1>1. Len(tables) \in Nat BY LenProperties DEF TablesInv
<1>2. g \in 1 .. Len(tables) BY <1>1
<1>3. tables[g].capacity \in Nat /\ tables[h].capacity \in Nat BY <1>2, TableFacts
<1>4. tables[g].capacity <= tables[h].capacity BY DEF GrowInv
<1>5. \A b, c \in Nat : b <= c => b \div 2 + b \div 4 <= c \div 2 + c \div 4 OBVIOUS
<1>6. QED BY <1>3, <1>4, <1>5 DEF ThreeQuarters, Half

(* A lower number will do as well. *)
LEMMA FitsLess ==
    ASSUME HashInv, NEW t \in Threads, NEW n \in Nat, Fits(t, n), NEW m \in 1 .. n
    PROVE  Fits(t, m)
<1>1. count \in Nat /\ newCount[t] \in Nat /\ TablesInv /\ ThreadInv(t)
      /\ mainHash[t] \in 0 .. Len(tables) /\ Len(tables) \in Nat
  BY DEF HashInv, TypeOK
<1>2. \A h \in 1 .. Len(tables) : n < ThreeQuarters(h) => m < ThreeQuarters(h)
  BY <1>1, QuarterFacts
<1>3. pc[t] \in {"insert", "move"} => mainHash[t] \in 1 .. Len(tables)
  BY <1>1 DEF ThreadInv, Adding
<1>4. QED BY <1>1, <1>2, <1>3 DEF Fits

(* What will do for a thread that stays where it is still does. *)
LEMMA FitsKept ==
    ASSUME HashInv, NEW t \in Threads, HasKept(t), TablesKept,
           pc'[t] = pc[t], mainHash'[t] = mainHash[t], newCount'[t] = newCount[t]
    PROVE  /\ Placed(t)' => Placed(t)
           /\ \A n \in Nat : Fits(t, n) /\ n <= count' /\ count' \in Nat => Fits(t, n)'
<1>1. /\ Len(tables) \in Nat /\ Len(tables') \in Nat /\ Len(tables) <= Len(tables')
      /\ ThreadInv(t) /\ mainHash[t] \in 0 .. Len(tables)
  BY DEF HashInv, TypeOK, TablesKept
<1>2. Placed(t)' => Placed(t)
  <2>1. (\E h \in 1 .. Len(tables') : Has(t, h)') => \E h \in 1 .. Len(tables) : Has(t, h)
    BY DEF HasKept
  <2>2. QED BY <2>1 DEF Placed
<1>3. \A h \in 1 .. Len(tables) : ThreeQuarters(h)' = ThreeQuarters(h)
  BY DEF ThreeQuarters, Half, TablesKept
<1>4. pc[t] \in {"insert", "move"} => mainHash[t] \in 1 .. Len(tables)
  BY <1>1 DEF ThreadInv, Adding
<1>5. ASSUME NEW n \in Nat, Fits(t, n), n <= count', count' \in Nat PROVE Fits(t, n)'
  <2>1. n \in 1 .. count' BY <1>5 DEF Fits
  <2>2. t \in Counted' => n <= newCount'[t] BY <1>5 DEF Fits, Counted
  <2>3. pc'[t] \in {"insert", "move"} => n < ThreeQuarters(mainHash[t])'
    BY <1>3, <1>4, <1>5 DEF Fits
  <2>4. ASSUME NEW h \in 1 .. Len(tables'), Has(t, h)' PROVE n < ThreeQuarters(h)'
    <3>1. h \in 1 .. Len(tables) /\ Has(t, h) BY <2>4 DEF HasKept
    <3>2. QED BY <1>3, <1>5, <3>1 DEF Fits
  <2>5. QED BY <2>1, <2>2, <2>3, <2>4 DEF Fits
<1>6. QED BY <1>2, <1>5

(* A step of t keeps the numbers if the one of t still does. *)
LEMMA SeatStep ==
    ASSUME HashInv, NEW t \in Threads, NEW g, Seated(g), Apart(t), TablesKept,
           \A u \in Threads \ {t} : HasKept(u), count' = count,
           Placed(t)' => Placed(t), Placed(t)' => Fits(t, g[t])'
    PROVE  Seated(g)'
<1>1. g \in [Threads -> Nat] /\ count' \in Nat BY DEF Seated, HashInv, TypeOK
<1>2. \A u \in Threads : Placed(u)' => Placed(u) BY FitsKept DEF Apart
<1>3. ASSUME NEW u \in Threads, Placed(u)' PROVE Fits(u, g[u])'
  <2>1. CASE u = t BY <1>3, <2>1
  <2>2. CASE u # t
    <3>1. Fits(u, g[u]) /\ g[u] \in Nat BY <1>1, <1>2, <1>3 DEF Seated
    <3>2. g[u] <= count' BY <1>1, <3>1 DEF Fits
    <3>3. QED BY <1>1, <2>2, <3>1, <3>2, FitsKept DEF Apart
  <2>3. QED BY <2>1, <2>2
<1>4. \A u, v \in Threads : Placed(u)' /\ Placed(v)' /\ g[u] = g[v] => u = v
  BY <1>2 DEF Seated
<1>5. QED BY <1>1, <1>3, <1>4 DEF Seated

(* A step of t that leaves the tables and the count alone. *)
LEMMA QuietSeats ==
    ASSUME HashInv, NEW t \in Threads, NEW g, Seated(g), Apart(t),
           UNCHANGED <<tables, count>>,
           t \in Counted' => t \in Counted /\ newCount'[t] = newCount[t],
           pc'[t] = "move" => Placed(t),
           Placed(t) /\ pc'[t] \in {"insert", "move"} =>
               g[t] < ThreeQuarters(mainHash'[t])
    PROVE  Seated(g)'
<1>1. TablesKept /\ \A u \in Threads : HasKept(u) BY SameTables DEF HashInv
<1>2. \A h \in 1 .. Len(tables) : Has(t, h)' <=> Has(t, h) BY DEF Has
<1>3. Placed(t)' => Placed(t)
  <2>1. ASSUME Placed(t)' PROVE Placed(t)
    <3>1. CASE t \in Counted' BY <3>1 DEF Counted, Placed
    <3>2. CASE pc'[t] = "move" BY <3>2
    <3>3. CASE \E h \in 1 .. Len(tables') : Has(t, h)' BY <1>2, <3>3 DEF Placed
    <3>4. QED BY <2>1, <3>1, <3>2, <3>3 DEF Placed, Counted
  <2>2. QED BY <2>1
<1>4. ASSUME Placed(t)' PROVE Fits(t, g[t])'
  <2>1. Placed(t) /\ Fits(t, g[t]) BY <1>3, <1>4 DEF Seated
  <2>2. \A h : ThreeQuarters(h)' = ThreeQuarters(h) BY DEF ThreeQuarters, Half
  <2>3. pc'[t] \in {"insert", "move"} => g[t] < ThreeQuarters(mainHash'[t]) BY <2>1
  <2>4. t \in Counted' => g[t] <= newCount'[t] BY <2>1 DEF Fits
  <2>5. \A h \in 1 .. Len(tables') : Has(t, h)' => g[t] < ThreeQuarters(h)
    BY <1>2, <2>1 DEF Fits
  <2>6. g[t] \in 1 .. count' BY <2>1 DEF Fits
  <2>7. QED BY <2>3, <2>4, <2>5, <2>6 DEF Fits, ThreeQuarters, Half
<1>5. QED BY <1>1, <1>3, <1>4, SeatStep

(* Only the place of t changes. *)
LEMMA StepsApart ==
    ASSUME HashInv, NEW t \in Threads,
           GetBegins(t) \/ GetGoesOn(t) \/ Exits(t) \/ ExitGoesOn(t)
    PROVE  Apart(t)
<1>1. /\ pc \in [Threads -> {"idle", "search", "move", "count", "room", "resize",
                             "place", "insert", "leave"}]
      /\ mainHash \in [Threads -> 0 .. Len(tables)] /\ newCount \in [Threads -> Nat]
  BY DEF HashInv, TypeOK
<1>2. ASSUME NEW p, Returns(t, p) PROVE Apart(t)
  BY <1>1, <1>2 DEF Returns, Goes, Apart
<1>3. ASSUME NEW to, NEW h, NEW n, pc' = pc \/ Goes(t, to),
             mainHash' = mainHash \/ mainHash' = [mainHash EXCEPT ![t] = h],
             newCount' = newCount \/ newCount' = [newCount EXCEPT ![t] = n]
      PROVE  Apart(t)
  BY <1>1, <1>3 DEF Goes, Apart
<1>4. CASE GetBegins(t)
  <2>1. Goes(t, "search") /\ UNCHANGED <<mainHash, newCount>>
    BY <1>4 DEF GetBegins, Searches, locals
  <2>2. QED BY <1>3, <2>1
<1>5. CASE Exits(t)
  <2>1. /\ Goes(t, "leave") /\ UNCHANGED newCount
        /\ mainHash' = [mainHash EXCEPT ![t] = Len(tables)]
    BY <1>5 DEF Exits
  <2>2. QED BY <1>3, <2>1
<1>6. CASE ExitGoesOn(t)
  <2>1. CASE Leaves(t)
    <3>1. /\ UNCHANGED <<pc, newCount>>
          /\ mainHash' = [mainHash EXCEPT ![t] = mainHash[t] - 1]
      BY <2>1 DEF Leaves
    <3>2. QED BY <1>3, <3>1
  <2>2. CASE Retires(t) BY <1>2, <2>2 DEF Retires
  <2>3. QED BY <1>6, <2>1, <2>2 DEF ExitGoesOn
<1>7. CASE FindsInMain(t) \/ Moves(t) \/ ResizeFails(t) \/ CreateFails(t)
           \/ InsertsInReusable(t) \/ InsertsInEmpty(t)
  BY <1>2, <1>7 DEF FindsInMain, Moves, ResizeFails, CreateFails, InsertsInReusable,
                    InsertsInEmpty
<1>8. CASE FindsInOlder(t) \/ FindsNothing(t) \/ TriesNext(t)
  BY <1>3, <1>8 DEF FindsInOlder, FindsNothing, TriesNext
<1>9. CASE Counts(t) \/ LocksResize(t) \/ WaitsForTable(t) \/ Resizes(t)
  BY <1>3, <1>9 DEF Counts, LocksResize, WaitsForTable, Resizes
<1>10. CASE SkipsResize(t) \/ ResizeNotNeeded(t)
  BY <1>3, <1>10 DEF SkipsResize, ResizeNotNeeded, locals
<1>11. CASE (\E p \in Producers : Recycles(t, p)) \/ Creates(t)
  BY <1>3, <1>11 DEF Recycles, Creates, Takes
<1>12. QED
  BY <1>4, <1>5, <1>6, <1>7, <1>8, <1>9, <1>10, <1>11 DEF GetGoesOn

(* Only these steps write a table. *)
LEMMA TablesUnwritten ==
    ASSUME NEW t \in Threads,
           GetBegins(t) \/ GetGoesOn(t) \/ Exits(t) \/ ExitGoesOn(t),
           ~Resizes(t), ~Leaves(t),
           ~(Moves(t) \/ InsertsInReusable(t) \/ InsertsInEmpty(t))
    PROVE  UNCHANGED tables
<1>1. CASE GetBegins(t) \/ Exits(t)
  BY <1>1 DEF GetBegins, Searches, Exits, tableVars
<1>2. CASE ExitGoesOn(t) BY <1>2 DEF ExitGoesOn, Retires, tableVars
<1>3. CASE FindsInMain(t) \/ FindsInOlder(t) \/ FindsNothing(t) \/ TriesNext(t)
  BY <1>3 DEF FindsInMain, FindsInOlder, FindsNothing, TriesNext, tableVars
<1>4. CASE Counts(t) \/ LocksResize(t) \/ SkipsResize(t) \/ ResizeNotNeeded(t)
           \/ WaitsForTable(t) \/ ResizeFails(t) \/ CreateFails(t)
  BY <1>4 DEF Counts, LocksResize, SkipsResize, ResizeNotNeeded, WaitsForTable,
              ResizeFails, CreateFails, tableVars
<1>5. CASE (\E p \in Producers : Recycles(t, p)) \/ Creates(t)
  BY <1>5 DEF Recycles, Creates, Takes, tableVars
<1>6. QED BY <1>1, <1>2, <1>3, <1>4, <1>5 DEF GetGoesOn

(* Only Resizes makes the chain longer. *)
LEMMA ChainStays ==
    ASSUME HashInv, NEW t \in Threads, ~Resizes(t),
           GetBegins(t) \/ GetGoesOn(t) \/ Exits(t) \/ ExitGoesOn(t)
    PROVE  TablesKept /\ Len(tables') = Len(tables) /\ \A u \in Threads \ {t} : HasKept(u)
<1>1. CASE UNCHANGED tables BY <1>1, SameTables DEF HashInv
<1>2. CASE Moves(t) \/ InsertsInReusable(t) \/ InsertsInEmpty(t)
  <2>1. /\ Enter(t) /\ pc[t] \in {"move", "insert"}
        /\ mine' = [mine EXCEPT ![t] = value[t]]
        /\ KeyThere(t) \in {invalid_thread_id, invalid_thread_id2}
    BY <1>2 DEF Moves, InsertsInReusable, InsertsInEmpty, Returns
  <2>2. QED BY <2>1, EnterKeeps
<1>3. CASE Leaves(t)
  <2>1. PICK h : h = mainHash[t] OBVIOUS
  <2>2. h \in 1 .. Len(tables) /\ mine' = mine
    BY <1>3, <2>1 DEF Leaves, HashInv, TypeOK, history
  <2>3. CASE FoundIn(t, h)
    <3>1. tables' = [tables EXCEPT ![h].key =
                         [@ EXCEPT ![SlotIn(t, h)] = invalid_thread_id2]]
      BY <1>3, <2>1, <2>3 DEF Leaves
    <3>2. QED BY <2>2, <2>3, <3>1, LeaveKeeps
  <2>4. CASE ~FoundIn(t, h) BY <1>1, <1>3, <2>1, <2>4 DEF Leaves
  <2>5. QED BY <2>3, <2>4
<1>4. QED BY <1>1, <1>2, <1>3, TablesUnwritten

(* The flag is in one hand: it is passed on with the table. *)
LEMMA ResizeStep ==
    ASSUME HashInv, ResizeInv, NEW t \in Threads, Apart(t), pc'[t] # "resize",
           pc[t] = "resize" \/ (resizing' = resizing /\ Len(tables') = Len(tables))
    PROVE  ResizeInv'
<1> SUFFICES ASSUME NEW u \in Threads, pc'[u] = "resize"
             PROVE  /\ resizing' /\ mainHash'[u] = Len(tables')
                    /\ \A v \in Threads : pc'[v] = "resize" => v = u
  BY DEF ResizeInv
<1>1. \A v \in Threads : pc'[v] = "resize" =>
          v # t /\ pc[v] = "resize" /\ mainHash'[v] = mainHash[v]
  BY DEF Apart
<1>2. /\ resizing /\ mainHash[u] = Len(tables)
      /\ \A v \in Threads : pc[v] = "resize" => v = u
  BY <1>1 DEF ResizeInv
<1>3. pc[t] # "resize" BY <1>1, <1>2
<1>4. QED BY <1>1, <1>2, <1>3

LEMMA ResizeKeeps ==
    ASSUME HashInv, ResizeInv, NEW t \in Threads, Apart(t),
           GetBegins(t) \/ GetGoesOn(t) \/ Exits(t) \/ ExitGoesOn(t)
    PROVE  ResizeInv'
<1>1. \A to : Goes(t, to) => pc'[t] = to BY DEF HashInv, TypeOK, Goes
<1>2. \A p : Returns(t, p) => pc'[t] = "idle" BY <1>1 DEF Returns
<1>3. CASE LocksResize(t)
  <2>1. /\ ~resizing /\ resizing' = TRUE /\ mainHash'[t] = Len(tables)
        /\ tables' = tables
    BY <1>3 DEF LocksResize, HashInv, TypeOK
  <2>2. \A u \in Threads : pc'[u] = "resize" => u = t
    BY <2>1 DEF ResizeInv, Apart
  <2>3. QED BY <2>1, <2>2 DEF ResizeInv
<1>4. CASE ~LocksResize(t)
  <2>1. /\ pc'[t] # "resize"
        /\ (pc[t] = "resize" \/ (resizing' = resizing /\ ~Resizes(t)))
    <3>2. CASE pc[t] = "resize"
      <4>1. CASE Resizes(t) \/ ResizeNotNeeded(t)
        BY <1>1, <3>2, <4>1 DEF Resizes, ResizeNotNeeded
      <4>2. CASE ResizeFails(t) BY <1>2, <3>2, <4>2 DEF ResizeFails
      <4>3. QED
        BY <3>2, <4>1, <4>2, <1>4
           DEF GetBegins, Searches, Exits, ExitGoesOn, Leaves, Retires, GetGoesOn,
               FindsInMain, FindsInOlder, FindsNothing, TriesNext, Moves, Counts,
               SkipsResize, WaitsForTable, Recycles, Creates, Takes, CreateFails,
               InsertsInReusable, InsertsInEmpty
    <3>3. CASE pc[t] # "resize"
      <4>1. ~Resizes(t) /\ ~ResizeNotNeeded(t) /\ ~ResizeFails(t)
        BY <3>3 DEF Resizes, ResizeNotNeeded, ResizeFails
      <4>2. CASE GetBegins(t) \/ Exits(t) \/ ExitGoesOn(t)
        BY <1>1, <1>2, <3>3, <4>1, <4>2
           DEF GetBegins, Searches, Exits, ExitGoesOn, Leaves, Retires, tableVars
      <4>3. CASE FindsInMain(t) \/ Moves(t) \/ CreateFails(t) \/ InsertsInReusable(t)
                 \/ InsertsInEmpty(t)
        BY <1>2, <4>1, <4>3 DEF FindsInMain, Moves, CreateFails, InsertsInReusable,
                                InsertsInEmpty, tableVars
      <4>4. CASE FindsInOlder(t) \/ FindsNothing(t) \/ TriesNext(t) \/ Counts(t)
                 \/ SkipsResize(t) \/ WaitsForTable(t)
        BY <1>1, <3>3, <4>1, <4>4 DEF FindsInOlder, FindsNothing, TriesNext, Counts,
                                      SkipsResize, WaitsForTable, tableVars
      <4>5. CASE (\E p \in Producers : Recycles(t, p)) \/ Creates(t)
        BY <1>1, <4>1, <4>5 DEF Recycles, Creates, Takes, tableVars
      <4>6. QED BY <1>4, <4>1, <4>2, <4>3, <4>4, <4>5 DEF GetGoesOn
    <3>4. QED BY <3>2, <3>3
  <2>2. pc[t] = "resize" \/ (resizing' = resizing /\ Len(tables') = Len(tables))
    BY <2>1, ChainStays
  <2>3. QED BY <2>1, <2>2, ResizeStep
<1>5. QED BY <1>3, <1>4

(* A new table is no smaller than the one before. *)
LEMMA GrowKeeps ==
    ASSUME HashInv, ResizeInv, GrowInv, NEW t \in Threads,
           GetBegins(t) \/ GetGoesOn(t) \/ Exits(t) \/ ExitGoesOn(t)
    PROVE  GrowInv'
<1>1. TablesInv /\ Len(tables) \in Nat /\ ThreadInv(t) /\ newCount[t] \in Nat
  BY DEF HashInv, TypeOK
<1>2. \A h \in 1 .. Len(tables) : \A g \in 1 .. h : g \in 1 .. Len(tables) BY <1>1
<1>3. CASE ~Resizes(t)
  <2>1. TablesKept /\ Len(tables') = Len(tables) BY <1>3, ChainStays
  <2>2. QED BY <1>1, <1>2, <2>1 DEF GrowInv, TablesKept
<1>4. CASE Resizes(t)
  <2>1. PICK n, c : n = Len(tables) /\ c = NewCapacity(t) OBVIOUS
  <2>2. /\ pc[t] = "resize" /\ tables' = Append(tables, NewTable(c)) /\ mine' = mine
    BY <1>4, <2>1 DEF Resizes, history
  <2>3. mainHash[t] = n /\ n \in 1 .. Len(tables)
    BY <1>1, <2>1, <2>2 DEF ResizeInv, HashInv, TypeOK
  <2>4. c \in Nat \ {0} /\ tables[n].capacity <= c
    BY <1>1, <2>1, <2>3, NewCapacityIsLarge
  <2>5. /\ Len(tables') = n + 1
        /\ \A g \in 1 .. n : tables'[g] = tables[g]
        /\ tables'[n + 1] = NewTable(c)
    BY <2>1, <2>2, <2>4, AppendKeeps
  <2>6. \A g \in 1 .. n : tables[g].capacity \in Nat /\ tables[g].capacity <= tables[n].capacity
    BY <1>1, <2>1, <2>3, TableFacts DEF GrowInv
  <2>7. NewTable(c).capacity = c BY DEF NewTable
  <2>8. ASSUME NEW h \in 1 .. n + 1, NEW g \in 1 .. h
        PROVE  tables'[g].capacity <= tables'[h].capacity
    <3>1. n \in Nat BY <1>1, <2>1
    <3>2. CASE h = n + 1
      <4>1. CASE g = n + 1 BY <2>4, <2>5, <2>7, <3>2, <4>1
      <4>2. CASE g # n + 1
        <5>1. g \in 1 .. n BY <3>1, <3>2, <4>2
        <5>2. tables[n].capacity \in Nat BY <2>1, <2>3, <2>6
        <5>3. QED BY <2>4, <2>5, <2>6, <2>7, <3>2, <5>1, <5>2
      <4>3. QED BY <4>1, <4>2
    <3>3. CASE h # n + 1
      <4>1. h \in 1 .. n /\ g \in 1 .. n BY <3>1, <3>3
      <4>2. QED BY <2>1, <2>5, <4>1 DEF GrowInv
    <3>4. QED BY <3>2, <3>3
  <2>9. QED BY <2>5, <2>8 DEF GrowInv
<1>5. QED BY <1>3, <1>4

(* A thread counts itself in: the number it gets is larger than all others. *)
LEMMA CountsSeats ==
    ASSUME HashInv, NEW t \in Threads, NEW g, Seated(g), Apart(t), Counts(t)
    PROVE  \E f \in [Threads -> Nat] : Seated(f)'
<1>1. /\ pc[t] = "count" /\ pc'[t] = "room" /\ count' = count + 1
      /\ newCount'[t] = count + 1 /\ count \in Nat /\ tables' = tables
      /\ \A h \in 1 .. Len(tables) : ~Has(t, h)
  BY DEF Counts, Goes, HashInv, TypeOK, ThreadInv, Adding
<1>2. PICK f \in [Threads -> Nat] :
          /\ f[t] = count + 1
          /\ \A u \in Threads : u # t => f[u] = g[u] /\ g[u] \in Nat
  <2>1. g \in [Threads -> Nat] BY DEF Seated
  <2>2. [g EXCEPT ![t] = count + 1] \in [Threads -> Nat] BY <1>1, <2>1
  <2>3. QED BY <2>1, <2>2
<1>3. TablesKept /\ \A u \in Threads : HasKept(u) BY <1>1, SameTables DEF HashInv
<1>4. \A u \in Threads : u # t /\ Placed(u)' => Placed(u)
  BY <1>3, FitsKept DEF Apart
<1>5. ASSUME NEW u \in Threads, u # t, Placed(u)'
      PROVE  Fits(u, f[u])' /\ f[u] # count + 1
  <2>1. Fits(u, g[u]) /\ g[u] \in Nat /\ f[u] = g[u] BY <1>2, <1>4, <1>5 DEF Seated
  <2>2. g[u] <= count BY <1>1, <2>1 DEF Fits
  <2>3. g[u] <= count' /\ count' \in Nat /\ g[u] # count + 1 BY <1>1, <2>1, <2>2
  <2>4. QED BY <1>3, <1>5, <2>1, <2>3, FitsKept DEF Apart
<1>6. Fits(t, f[t])'
  <2>1. \A h \in 1 .. Len(tables') : ~Has(t, h)' BY <1>1 DEF Has
  <2>2. f[t] \in 1 .. count' BY <1>1, <1>2
  <2>3. QED BY <1>1, <1>2, <2>1, <2>2 DEF Fits
<1>7. \A u, v \in Threads : Placed(u)' /\ Placed(v)' /\ f[u] = f[v] => u = v
  <2>1. \A u \in Threads : u # t /\ Placed(u)' => f[u] = g[u] /\ f[u] # f[t] /\ Placed(u)
    BY <1>2, <1>4, <1>5
  <2>2. QED BY <2>1 DEF Seated
<1>8. Seated(f)'
  <2>1. \A u \in Threads : Placed(u)' => Fits(u, f[u])' BY <1>5, <1>6
  <2>2. QED BY <1>2, <1>7, <2>1 DEF Seated
<1>9. QED BY <1>2, <1>8

(* A thread takes its count back: whoever has the largest number gets its. *)
LEMMA FailureSeats ==
    ASSUME HashInv, NEW t \in Threads, NEW g, Seated(g), Apart(t),
           ResizeFails(t) \/ CreateFails(t)
    PROVE  \E f \in [Threads -> Nat] : Seated(f)'
<1>1. /\ pc[t] \in {"resize", "place"} /\ pc'[t] = "idle" /\ count' = count - 1
      /\ count \in Nat /\ tables' = tables /\ ThreadInv(t)
  BY DEF ResizeFails, CreateFails, Returns, Goes, HashInv, TypeOK
<1>2. \A h \in 1 .. Len(tables) : ~Has(t, h) BY <1>1 DEF ThreadInv, Adding
<1>3. /\ g \in [Threads -> Nat] /\ Placed(t)
      /\ g[t] \in 1 .. count
  BY <1>1 DEF Seated, Placed, Fits
<1>4. PICK f \in [Threads -> Nat] :
          \A u \in Threads : f[u] = IF g[u] = count THEN g[t] ELSE g[u]
  <2>1. [u \in Threads |-> IF g[u] = count THEN g[t] ELSE g[u]] \in [Threads -> Nat]
    BY <1>3
  <2>2. QED BY <2>1
<1>5. TablesKept /\ \A u \in Threads : HasKept(u) BY <1>1, SameTables DEF HashInv
<1>6. ~Placed(t)'
  <2>1. \A h \in 1 .. Len(tables') : ~Has(t, h)' BY <1>1, <1>2 DEF Has
  <2>2. QED BY <1>1, <2>1 DEF Placed
<1>7. \A u \in Threads : Placed(u)' => u # t /\ Placed(u)
  BY <1>5, <1>6, FitsKept DEF Apart
<1>8. ASSUME NEW u \in Threads, Placed(u)' PROVE Fits(u, f[u])'
  <2>1. u # t /\ Placed(u) /\ Fits(u, g[u]) /\ g[u] \in 1 .. count /\ g[u] # g[t]
    BY <1>3, <1>7, <1>8 DEF Seated, Fits
  <2>2. f[u] \in 1 .. g[u] /\ f[u] <= count' /\ count' \in Nat /\ g[u] \in Nat
    BY <1>1, <1>3, <1>4, <2>1
  <2>3. Fits(u, f[u]) /\ f[u] \in Nat BY <2>1, <2>2, FitsLess
  <2>4. QED BY <1>5, <2>1, <2>2, <2>3, FitsKept DEF Apart
<1>9. \A u, v \in Threads : Placed(u)' /\ Placed(v)' /\ f[u] = f[v] => u = v
  <2>1. \A u \in Threads : Placed(u)' => g[u] # g[t] /\ Placed(u)
    BY <1>3, <1>7 DEF Seated
  <2>2. \A u, v \in Threads : Placed(u)' /\ Placed(v)' /\ f[u] = f[v] => g[u] = g[v]
    BY <1>4, <2>1
  <2>3. QED BY <2>1, <2>2 DEF Seated
<1>10. QED BY <1>3, <1>8, <1>9 DEF Seated

(* An entry in a table from which t's number keeps waiting away. *)
LEMMA EnterSeats ==
    ASSUME HashInv, NEW t \in Threads, NEW g, Seated(g), Apart(t),
           Moves(t) \/ InsertsInEmpty(t)
    PROVE  Seated(g)'
<1>0. PICK h : h = mainHash[t] OBVIOUS
<1>1. /\ pc[t] \in {"move", "insert"} /\ Enter(t) /\ Returns(t, value[t])
      /\ KeyThere(t) \in {invalid_thread_id, invalid_thread_id2} /\ count' = count
  BY DEF Moves, InsertsInEmpty
<1>2. pc'[t] = "idle" /\ mine' = [mine EXCEPT ![t] = value[t]]
  BY <1>1 DEF Returns, Goes, HashInv, TypeOK
<1>3. /\ TablesKept /\ Len(tables') = Len(tables) /\ h \in 1 .. Len(tables)
      /\ \A u \in Threads \ {t} : HasKept(u)
      /\ \A e \in 1 .. Len(tables) : e # h => tables'[e] = tables[e]
  BY <1>0, <1>1, <1>2, EnterKeeps, ZenonT(60)
<1>4. Placed(t) /\ Fits(t, g[t]) BY <1>1 DEF Placed, Seated
<1>5. Fits(t, g[t])'
  <2>1. \A e \in 1 .. Len(tables) : ThreeQuarters(e)' = ThreeQuarters(e)
    BY <1>3 DEF ThreeQuarters, Half, TablesKept
  <2>2. g[t] < ThreeQuarters(h) BY <1>0, <1>1, <1>4 DEF Fits
  <2>3. \A e \in 1 .. Len(tables) : e # h => (Has(t, e)' <=> Has(t, e))
    BY <1>3 DEF Has
  <2>4. \A e \in 1 .. Len(tables') : Has(t, e)' => g[t] < ThreeQuarters(e)'
    BY <1>3, <1>4, <2>1, <2>2, <2>3 DEF Fits
  <2>5. g[t] \in 1 .. count' BY <1>1, <1>4 DEF Fits
  <2>6. QED BY <1>2, <2>4, <2>5 DEF Fits, Counted
<1>6. QED BY <1>1, <1>3, <1>4, <1>5, SeatStep

(* The new table is empty. *)
LEMMA ResizesSeats ==
    ASSUME HashInv, NEW t \in Threads, NEW g, Seated(g), Apart(t), Resizes(t)
    PROVE  Seated(g)'
<1>0. PICK c : c = NewCapacity(t) OBVIOUS
<1>1. /\ pc[t] = "resize" /\ pc'[t] = "place" /\ tables' = Append(tables, NewTable(c))
      /\ mine' = mine /\ count' = count /\ newCount' = newCount
      /\ newCount[t] \in Nat /\ mainHash[t] \in 0 .. Len(tables) /\ ThreadInv(t)
  BY <1>0 DEF Resizes, Goes, history, HashInv, TypeOK
<1>2. c \in Nat \ {0}
  <2>1. mainHash[t] \in 1 .. Len(tables) /\ TablesInv
    BY <1>1 DEF HashInv, ThreadInv, Adding
  <2>2. QED BY <1>0, <1>1, <2>1, NewCapacityIsLarge
<1>3. TablesKept /\ \A u \in Threads : HasKept(u) BY <1>1, <1>2, AppendKeeps
<1>4. Placed(t) /\ Fits(t, g[t]) BY <1>1 DEF Placed, Seated
<1>5. Fits(t, g[t])'
  <2>1. \A h \in 1 .. Len(tables') : ~Has(t, h)'
    BY <1>1, <1>3 DEF ThreadInv, Adding, HasKept
  <2>2. g[t] \in 1 .. count' /\ g[t] <= newCount'[t] BY <1>1, <1>4 DEF Fits, Counted
  <2>3. QED BY <1>1, <2>1, <2>2 DEF Fits
<1>6. QED BY <1>1, <1>3, <1>4, <1>5, SeatStep

(* A search that ends in an older table: the newer ones are larger. *)
LEMMA OlderSeats ==
    ASSUME HashInv, GrowInv, NEW t \in Threads, NEW g, Seated(g), Apart(t),
           FindsInOlder(t)
    PROVE  Seated(g)'
<1>0. PICK n : n = Len(tables) OBVIOUS
<1>1. PICK o \in 1 .. n - 1 :
          /\ SearchEndsIn(t, o) /\ pc'[t] = "move" /\ mainHash'[t] = n
          /\ UNCHANGED <<tables, count, newCount>>
  BY <1>0 DEF FindsInOlder, Goes, tableVars, HashInv, TypeOK
<1>2. n \in Nat /\ o \in 1 .. n /\ n \in 1 .. n /\ o \in 0 .. n
      /\ TablesInv /\ \A h \in 1 .. Len(tables) : EntryInv(h)
  BY <1>0 DEF HashInv, TypeOK
<1>3. Has(t, o) BY <1>0, <1>1, <1>2, ChainSearch
<1>4. Placed(t) BY <1>0, <1>2, <1>3 DEF Placed
<1>5. g[t] \in Nat /\ g[t] < ThreeQuarters(o)
  BY <1>0, <1>2, <1>3, <1>4 DEF Seated, Fits
<1>6. ThreeQuarters(o) \in Nat /\ ThreeQuarters(n) \in Nat
      /\ ThreeQuarters(o) <= ThreeQuarters(n)
  BY <1>0, <1>2, QuarterFacts, QuartersGrow
<1>7. g[t] < ThreeQuarters(mainHash'[t]) BY <1>1, <1>5, <1>6
<1>8. QED BY <1>1, <1>4, <1>7, QuietSeats DEF Counted

(* The steps that leave the tables and the count alone. *)
LEMMA OtherSeats ==
    ASSUME HashInv, NEW t \in Threads, NEW g, Seated(g), Apart(t),
           \/ Searches(t) \/ FindsInMain(t) \/ FindsNothing(t) \/ TriesNext(t)
           \/ LocksResize(t) \/ SkipsResize(t) \/ ResizeNotNeeded(t)
           \/ WaitsForTable(t) \/ Creates(t) \/ \E p \in Producers : Recycles(t, p)
    PROVE  Seated(g)'
<1>1. \A to : Goes(t, to) => pc'[t] = to BY DEF Goes, HashInv, TypeOK
<1>2. CASE Searches(t) \/ FindsInMain(t) \/ FindsNothing(t)
  <2>1. pc'[t] \in {"search", "idle", "count"} /\ UNCHANGED <<tables, count>>
    BY <1>1, <1>2 DEF Searches, FindsInMain, FindsNothing, Returns, tableVars
  <2>2. QED BY <2>1, QuietSeats DEF Counted
<1>3. CASE LocksResize(t) \/ SkipsResize(t) \/ ResizeNotNeeded(t) \/ WaitsForTable(t)
  <2>1. /\ pc[t] \in {"room", "resize", "place"} /\ pc'[t] \in {"room", "resize", "place"}
        /\ UNCHANGED <<tables, count, newCount>>
    BY <1>1, <1>3 DEF LocksResize, SkipsResize, ResizeNotNeeded, WaitsForTable,
                      tableVars, locals
  <2>2. QED BY <2>1, QuietSeats DEF Counted
<1>4. CASE TriesNext(t)
  <2>1. /\ pc[t] \in {"move", "insert"} /\ pc' = pc /\ mainHash' = mainHash
        /\ UNCHANGED <<tables, count, newCount>>
    BY <1>4 DEF TriesNext, tableVars
  <2>2. Placed(t) /\ g[t] < ThreeQuarters(mainHash'[t])
    BY <2>1 DEF Placed, Seated, Fits
  <2>3. QED BY <2>1, <2>2, QuietSeats DEF Counted
<1>5. CASE Creates(t) \/ \E p \in Producers : Recycles(t, p)
  <2>1. /\ pc[t] = "place" /\ pc'[t] = "insert" /\ mainHash' = mainHash
        /\ newCount[t] < ThreeQuarters(mainHash[t])
        /\ UNCHANGED <<tables, count, newCount>>
    BY <1>1, <1>5 DEF Creates, Recycles, Takes, tableVars
  <2>2. g[t] \in Nat /\ g[t] <= newCount[t] BY <2>1 DEF Placed, Seated, Fits, Counted
  <2>3. newCount[t] \in Nat /\ ThreeQuarters(mainHash[t]) \in Nat
    <3>1. mainHash[t] \in 1 .. Len(tables) /\ TablesInv
      BY <2>1 DEF HashInv, TypeOK, ThreadInv, Adding
    <3>2. QED BY <3>1, QuarterFacts DEF HashInv, TypeOK
  <2>4. g[t] < ThreeQuarters(mainHash'[t]) BY <2>1, <2>2, <2>3
  <2>5. QED BY <2>1, <2>4, QuietSeats DEF Counted
<1>6. QED BY <1>2, <1>3, <1>4, <1>5

(* Without an exit no key becomes reusable, and no thread is on its way. *)
LEMMA NoneEnds ==
    ASSUME HashInv, NoneEnded, NEW t \in Threads, Apart(t),
           GetBegins(t) \/ GetGoesOn(t)
    PROVE  NoneEnded'
<1>1. \A to : Goes(t, to) => pc'[t] = to BY DEF Goes, HashInv, TypeOK
<1>2. pc'[t] # "leave"
  <2>1. CASE GetBegins(t) BY <1>1, <2>1 DEF GetBegins, Searches
  <2>2. CASE \E p : Returns(t, p) BY <1>1, <2>2 DEF Returns
  <2>3. CASE TriesNext(t) BY <2>3 DEF TriesNext
  <2>4. CASE FindsInOlder(t) \/ FindsNothing(t) \/ Counts(t) \/ LocksResize(t)
             \/ SkipsResize(t) \/ Resizes(t) \/ ResizeNotNeeded(t) \/ WaitsForTable(t)
    BY <1>1, <2>4 DEF FindsInOlder, FindsNothing, Counts, LocksResize, SkipsResize,
                      Resizes, ResizeNotNeeded, WaitsForTable
  <2>5. CASE (\E p \in Producers : Recycles(t, p)) \/ Creates(t)
    BY <1>1, <2>5 DEF Recycles, Creates, Takes
  <2>6. QED
    BY <2>1, <2>2, <2>3, <2>4, <2>5
       DEF GetGoesOn, FindsInMain, Moves, ResizeFails, CreateFails, InsertsInReusable,
           InsertsInEmpty
<1>3. \A u \in Threads : pc'[u] # "leave" BY <1>2 DEF Apart, NoneEnded
<1>4. ASSUME NEW h \in 1 .. Len(tables'), NEW i \in 0 .. tables'[h].capacity - 1
      PROVE  tables'[h].key[i] # invalid_thread_id2
  <2>1. CASE UNCHANGED tables BY <1>4, <2>1 DEF NoneEnded
  <2>2. CASE Moves(t) \/ InsertsInReusable(t) \/ InsertsInEmpty(t)
    <3>1. PICK m : m = mainHash[t] OBVIOUS
    <3>2. /\ pc[t] \in {"move", "insert"} /\ Enter(t)
          /\ KeyThere(t) \in {invalid_thread_id, invalid_thread_id2}
          /\ mine' = [mine EXCEPT ![t] = value[t]]
      BY <2>2 DEF Moves, InsertsInReusable, InsertsInEmpty, Returns
    <3>3. /\ TablesKept /\ Len(tables') = Len(tables)
          /\ \A g \in 1 .. Len(tables) : g # m => tables'[g] = tables[g]
          /\ \A k \in 0 .. tables[m].capacity - 1 :
                 tables'[m].key[k] \in {t, tables[m].key[k]}
      BY <3>1, <3>2, EnterKeeps, ZenonT(60)
    <3>4. h \in 1 .. Len(tables) /\ i \in 0 .. tables[h].capacity - 1
      BY <3>3 DEF TablesKept
    <3>5. tables'[h].key[i] \in {t, tables[h].key[i]} BY <3>3, <3>4
    <3>6. t # invalid_thread_id2 BY HashAssumption
    <3>7. QED BY <3>4, <3>5, <3>6 DEF NoneEnded
  <2>3. CASE Resizes(t)
    <3>1. PICK c : c = NewCapacity(t) OBVIOUS
    <3>2. /\ tables' = Append(tables, NewTable(c)) /\ mine' = mine
          /\ mainHash[t] \in 1 .. Len(tables) /\ newCount[t] \in Nat
          /\ TablesInv /\ Len(tables) \in Nat
      BY <2>3, <3>1 DEF Resizes, history, HashInv, TypeOK, ThreadInv, Adding
    <3>3. c \in Nat \ {0} BY <3>1, <3>2, NewCapacityIsLarge
    <3>4. /\ Len(tables') = Len(tables) + 1
          /\ \A g \in 1 .. Len(tables) : tables'[g] = tables[g]
          /\ tables'[Len(tables) + 1] = NewTable(c)
      BY <3>2, <3>3, AppendKeeps
    <3>5. CASE h \in 1 .. Len(tables) BY <3>4, <3>5 DEF NoneEnded
    <3>6. CASE h = Len(tables) + 1
      <4>1. /\ NewTable(c).capacity = c
            /\ \A k \in 0 .. c - 1 : NewTable(c).key[k] = invalid_thread_id
        BY DEF NewTable
      <4>2. tables'[h] = NewTable(c) BY <3>4, <3>6
      <4>3. tables'[h].key[i] = invalid_thread_id BY <4>1, <4>2
      <4>4. QED BY <4>3, HashAssumption
    <3>7. QED BY <3>2, <3>4, <3>5, <3>6
  <2>4. CASE Leaves(t)
    BY <2>4 DEF Leaves, NoneEnded
  <2>5. QED BY <2>1, <2>2, <2>3, <2>4, TablesUnwritten
<1>5. QED BY <1>3, <1>4 DEF NoneEnded

(* Where no thread has ended no slot is reusable. *)
LEMMA NothingReusable ==
    ASSUME HashInv, NoneEnded, NEW t \in Threads
    PROVE  ~InsertsInReusable(t)
<1> SUFFICES ASSUME InsertsInReusable(t) PROVE FALSE OBVIOUS
<1>0. PICK h : h = mainHash[t] OBVIOUS
<1>1. pc[t] = "insert" /\ tables[h].key[index[t]] = invalid_thread_id2
  BY <1>0 DEF InsertsInReusable, KeyThere
<1>2. /\ h \in 1 .. Len(tables) /\ TablesInv /\ ThreadInv(t)
  <2>1. TablesInv /\ ThreadInv(t) /\ h \in 0 .. Len(tables) /\ Len(tables) \in Nat
    BY <1>0 DEF HashInv, TypeOK
  <2>2. h # 0 BY <1>0, <1>1, <2>1 DEF ThreadInv, Adding
  <2>3. QED BY <2>1, <2>2
<1>3. PICK k \in 0 .. tables[h].capacity - 1 : index[t] = Probe(t, h, k)
  BY <1>0, <1>1, <1>2 DEF ThreadInv
<1>4. k \in Nat BY <1>2, TableFacts
<1>5. index[t] \in 0 .. tables[h].capacity - 1 BY <1>2, <1>3, <1>4, ProbeFacts
<1>6. QED BY <1>1, <1>2, <1>5 DEF NoneEnded

(* All steps of get_or_add_implicit_producer. *)
LEMMA GetSeats ==
    ASSUME HashInv, GrowInv, NoneEnded, NEW t \in Threads, Apart(t),
           NEW g \in [Threads -> Nat], Seated(g), GetBegins(t) \/ GetGoesOn(t)
    PROVE  \E f \in [Threads -> Nat] : Seated(f)'
<1>1. CASE Moves(t) \/ InsertsInEmpty(t) BY <1>1, EnterSeats
<1>2. CASE Resizes(t) BY <1>2, ResizesSeats
<1>3. CASE FindsInOlder(t) BY <1>3, OlderSeats
<1>4. CASE Counts(t) BY <1>4, CountsSeats
<1>5. CASE ResizeFails(t) \/ CreateFails(t) BY <1>5, FailureSeats
<1>6. CASE \/ Searches(t) \/ FindsInMain(t) \/ FindsNothing(t) \/ TriesNext(t)
           \/ LocksResize(t) \/ SkipsResize(t) \/ ResizeNotNeeded(t)
           \/ WaitsForTable(t) \/ Creates(t) \/ \E p \in Producers : Recycles(t, p)
  BY <1>6, OtherSeats
<1>7. QED
  BY <1>1, <1>2, <1>3, <1>4, <1>5, <1>6, NothingReusable DEF GetBegins, GetGoesOn

(* The number of threads that ended does not go down. *)
LEMMA ExitsCounted ==
    ASSUME HashInv, NEW t \in Threads, exits' = 0,
           GetBegins(t) \/ GetGoesOn(t) \/ Exits(t) \/ ExitGoesOn(t)
    PROVE  exits = 0 /\ ~Exits(t)
<1>1. exits \in Nat BY HashAssumption DEF HashInv, TypeOK
<1>2. ~Exits(t) BY <1>1 DEF Exits
<1>3. CASE GetBegins(t) \/ ExitGoesOn(t)
  BY <1>2, <1>3 DEF GetBegins, Searches, ExitGoesOn, Leaves, Retires, history
<1>4. CASE FindsInMain(t) \/ FindsInOlder(t) \/ FindsNothing(t) \/ TriesNext(t)
           \/ Moves(t) \/ InsertsInReusable(t) \/ InsertsInEmpty(t)
  BY <1>2, <1>4
     DEF FindsInMain, FindsInOlder, FindsNothing, TriesNext, Moves,
         InsertsInReusable, InsertsInEmpty, history
<1>5. CASE Counts(t) \/ LocksResize(t) \/ SkipsResize(t) \/ Resizes(t)
           \/ ResizeNotNeeded(t) \/ ResizeFails(t) \/ WaitsForTable(t)
  BY <1>2, <1>5
     DEF Counts, LocksResize, SkipsResize, Resizes, ResizeNotNeeded, ResizeFails,
         WaitsForTable, history
<1>6. CASE Creates(t) \/ CreateFails(t) \/ \E p \in Producers : Recycles(t, p)
  BY <1>2, <1>6 DEF Creates, Recycles, Takes, CreateFails, history
<1>7. QED BY <1>2, <1>3, <1>4, <1>5, <1>6 DEF GetGoesOn

LEMMA InitRoom == Init => RoomInv
<1> SUFFICES ASSUME Init PROVE RoomInv OBVIOUS
<1> DEFINE c == INITIAL_IMPLICIT_PRODUCER_HASH_SIZE
           g == [t \in Threads |-> 0]
<1>1. /\ tables = <<NewTable(c)>> /\ Len(tables) = 1 /\ tables[1] = NewTable(c)
      /\ \A t \in Threads : pc[t] = "idle"
      /\ c \in Nat
  BY HashAssumption DEF Init
<1>2. ResizeInv BY <1>1 DEF ResizeInv
<1>3. GrowInv
  <2>1. \A h \in 1 .. Len(tables) : \A e \in 1 .. h : e = h BY <1>1
  <2>2. \A h \in 1 .. Len(tables) : tables[h].capacity \in Nat
    BY <1>1 DEF NewTable
  <2>3. QED BY <2>1, <2>2 DEF GrowInv
<1>4. \A h \in 1 .. Len(tables) : \A i \in 0 .. tables[h].capacity - 1 :
          tables[h].key[i] = invalid_thread_id
  BY <1>1 DEF NewTable
<1>5. NoneEnded BY <1>1, <1>4, HashAssumption DEF NoneEnded
<1>6. \A t \in Threads : ~Placed(t)
  BY <1>1, <1>4, HashAssumption DEF Placed, Has
<1>7. g \in [Threads -> Nat] OBVIOUS
<1>8. Seated(g) BY <1>6, <1>7 DEF Seated
<1>9. QED BY <1>2, <1>3, <1>5, <1>7, <1>8 DEF RoomInv

LEMMA NextRoom == HashInv /\ RoomInv /\ [Next]_vars => RoomInv'
<1> SUFFICES ASSUME HashInv, RoomInv, [Next]_vars PROVE RoomInv' OBVIOUS
<1>1. CASE UNCHANGED vars
  <2>1. UNCHANGED <<tables, count, resizing, pc, mainHash, newCount, exits>>
    BY <1>1 DEF vars, tableVars, locals, history
  <2>2. ResizeInv' /\ GrowInv' /\ (NoneEnded => NoneEnded')
    BY <2>1 DEF RoomInv, ResizeInv, GrowInv, NoneEnded
  <2>3. ASSUME NEW g \in [Threads -> Nat], Seated(g) PROVE Seated(g)'
    BY <2>1, <2>3 DEF Seated, Placed, Fits, Counted, Has, ThreeQuarters, Half
  <2>4. QED BY <2>1, <2>2, <2>3 DEF RoomInv
<1>2. CASE Next
  <2>1. PICK t \in Threads : GetBegins(t) \/ GetGoesOn(t) \/ Exits(t) \/ ExitGoesOn(t)
    BY <1>2 DEF Next
  <2>2. Apart(t) BY <2>1, StepsApart
  <2>3. ResizeInv' /\ GrowInv' BY <2>1, <2>2, ResizeKeeps, GrowKeeps DEF RoomInv
  <2>4. ASSUME exits' = 0 PROVE NoneEnded' /\ \E g \in [Threads -> Nat] : Seated(g)'
    <3>1. exits = 0 /\ ~Exits(t) BY <2>1, <2>4, ExitsCounted
    <3>2. NoneEnded BY <3>1 DEF RoomInv
    <3>3. ~ExitGoesOn(t) BY <3>2 DEF NoneEnded, ExitGoesOn, Leaves, Retires
    <3>4. PICK g \in [Threads -> Nat] : Seated(g) BY <3>1 DEF RoomInv
    <3>5. GetBegins(t) \/ GetGoesOn(t) BY <2>1, <3>1, <3>3
    <3>6. NoneEnded' BY <2>2, <3>2, <3>5, NoneEnds
    <3>7. \E f \in [Threads -> Nat] : Seated(f)'
      BY <2>2, <3>2, <3>4, <3>5, GetSeats DEF RoomInv
    <3>8. QED BY <3>6, <3>7
  <2>5. QED BY <2>3, <2>4 DEF RoomInv
<1>3. QED BY <1>1, <1>2

(* A full table would seat all its threads below its three quarters. *)
LEMMA SeatsLeft == HashInv /\ RoomInv => EmptySlotRemains
<1> SUFFICES ASSUME HashInv, RoomInv, exits = 0, NEW h \in DOMAIN tables,
                    \A i \in DOMAIN tables[h].key : tables[h].key[i] # invalid_thread_id
             PROVE  FALSE
  BY DEF EmptySlotRemains, SlotFree
<1>0. PICK c : c = tables[h].capacity OBVIOUS
<1>1. /\ TablesInv /\ h \in 1 .. Len(tables) /\ EntryInv(h)
  BY LenProperties DEF HashInv, TablesInv
<1>2. /\ c \in Nat \ {0} /\ tables[h].key \in [0 .. c - 1 -> Keys]
      /\ DOMAIN tables[h].key = 0 .. c - 1
      /\ ThreeQuarters(h) \in Nat /\ ThreeQuarters(h) <= c
  BY <1>0, <1>1, TableFacts, QuarterFacts
<1>3. NoneEnded BY DEF RoomInv
<1>4. \A i \in 0 .. c - 1 : tables[h].key[i] \in Threads
  BY <1>0, <1>1, <1>2, <1>3 DEF NoneEnded, Keys
<1>5. PICK g \in [Threads -> Nat] : Seated(g) BY DEF RoomInv
<1>6. ASSUME NEW i \in 0 .. c - 1
      PROVE  Placed(tables[h].key[i]) /\ g[tables[h].key[i]] \in 1 .. c - 1
  <2>1. PICK t \in Threads : t = tables[h].key[i] BY <1>4
  <2>2. Has(t, h) BY <1>0, <2>1 DEF Has
  <2>3. Placed(t) BY <1>1, <2>2 DEF Placed
  <2>4. g[t] \in 1 .. count /\ g[t] < ThreeQuarters(h) /\ count \in Nat
    BY <1>1, <1>5, <2>2, <2>3 DEF Seated, Fits, HashInv, TypeOK
  <2>5. g[t] \in 1 .. c - 1 BY <1>2, <2>4
  <2>6. QED BY <2>1, <2>3, <2>5
<1>7. PICK f : f = [i \in 0 .. c - 1 |-> g[tables[h].key[i]]] OBVIOUS
<1>8. f \in [0 .. c - 1 -> 1 .. c - 1] BY <1>6, <1>7
<1>9. /\ IsFiniteSet(0 .. c - 1) /\ IsFiniteSet(1 .. c - 1)
      /\ Cardinality(1 .. c - 1) < Cardinality(0 .. c - 1)
  <2>1. c - 1 \in Int /\ 0 \in Int /\ 1 \in Int BY <1>2
  <2>2. /\ IsFiniteSet(0 .. c - 1) /\ IsFiniteSet(1 .. c - 1)
        /\ Cardinality(0 .. c - 1) = IF 0 > c - 1 THEN 0 ELSE (c - 1) - 0 + 1
        /\ Cardinality(1 .. c - 1) = IF 1 > c - 1 THEN 0 ELSE (c - 1) - 1 + 1
    BY <2>1, FS_Interval
  <2>3. QED BY <1>2, <2>2
<1>10. PICK i, j \in 0 .. c - 1 : i # j /\ f[i] = f[j]
  BY <1>8, <1>9, FS_PigeonHole
<1>11. tables[h].key[i] = tables[h].key[j]
  BY <1>4, <1>5, <1>6, <1>7, <1>10 DEF Seated
<1>12. QED BY <1>0, <1>1, <1>4, <1>10, <1>11 DEF EntryInv

LEMMA RoomInvariant == Spec => []RoomInv
<1>1. Spec => []HashInv BY HashInvariant
<1>2. QED BY <1>1, InitRoom, NextRoom, PTL DEF Spec

(* As long as no thread has ended every table keeps an empty slot, so that *)
(* every search for a key that is not there ends, as the loops of          *)
(* get_or_add_implicit_producer say: for any number of threads, any growth *)
(* of the tables, threads that hold an older one and failed allocations.   *)
THEOREM HashSlotRemains == Spec => []EmptySlotRemains
<1>1. QED BY HashInvariant, RoomInvariant, SeatsLeft, PTL
=============================================================================
