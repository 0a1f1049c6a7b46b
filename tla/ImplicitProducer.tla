--------------------------- MODULE ImplicitProducer ---------------------------
(***************************************************************************)
(* moodycamel::ConcurrentQueue::ImplicitProducer: the stream of one thread *)
(* that enqueues without a token, as every thread of the server does.  The *)
(* producer fills blocks and publishes tailIndex; consumers count          *)
(* themselves in, claim an index, find its block through the block index,  *)
(* read the element, and give the block back when it is empty.             *)
(*                                                                         *)
(* A step is one access of memory that others write or look at, in the     *)
(* order of the code, with the private work next to it: an element not yet *)
(* published, or claimed, is its thread's own.  Memory is sequentially     *)
(* consistent.  Indices have Width bits and wrap around.                   *)
(* The element enqueued at index i is the number i.  The free list is a    *)
(* set of blocks; a block that was never allocated is in it too, so that   *)
(* no block to be had means no memory.                                     *)
(***************************************************************************)
EXTENDS Integers, FiniteSets, Sequences

CONSTANTS
    Consumers,
    Blocks,                       \* bound: the blocks there is memory for
    BLOCK_SIZE,
    IMPLICIT_INITIAL_INDEX_SIZE,
    MaxIndexes,                   \* bound: block indexes there is memory for
    MaxOvercommit,                \* bound: consumers that give up
    Width,                        \* bits of index_t
    Null

pow2[k \in Nat] == IF k = 0 THEN 1 ELSE 2 * pow2[k - 1]
Period == pow2[Width]
Half == pow2[Width - 1]
Capacity(g) == IMPLICIT_INITIAL_INDEX_SIZE * pow2[g - 1]
INVALID_BLOCK_BASE == 1

(* BLOCK_SIZE and the capacities are powers of two, so they divide the     *)
(* range of index_t, half of which neither a block nor the consumers that  *)
(* ever count themselves in too late fill.                                 *)
ASSUME ProducerAssumption ==
    /\ Width \in Nat \ {0} /\ MaxIndexes \in Nat \ {0} /\ MaxOvercommit \in Nat
    /\ BLOCK_SIZE \in 2..Half
    /\ IMPLICIT_INITIAL_INDEX_SIZE \in Nat /\ IMPLICIT_INITIAL_INDEX_SIZE > 1
    /\ Period % (BLOCK_SIZE * Capacity(MaxIndexes)) = 0
    /\ IsFiniteSet(Consumers) /\ Cardinality(Consumers) + MaxOvercommit <= Half
    /\ Null \notin Blocks \cup Int

VARIABLES
    tailIndex, headIndex, dequeueOptimisticCount, dequeueOvercommit, tailBlock,
    blockIndex,     \* the block indexes, the current one last
    key, value,     \* of the BlockIndexEntries, numbered as they are made
    elements,       \* what is stored in each block
    elementsCompletelyDequeued,
    freeBlocks,     \* blocks on the free list or not yet allocated
    producer,       \* where the producer is, with its locals
    consumer        \* where each consumer is, with its locals

counters == <<tailIndex, headIndex, dequeueOptimisticCount, dequeueOvercommit>>
index == <<blockIndex, key, value>>
blocks == <<tailBlock, elements, elementsCompletelyDequeued, freeBlocks>>
vars == <<counters, index, blocks, producer, consumer>>

Plus(a, b) == (a + b) % Period
Minus(a, b) == (a - b) % Period
Base(i) == i - (i % BLOCK_SIZE)

(* details::circular_less_than *)
circular_less_than(a, b) == Minus(a, b) > Half

(* A difference of indices as a signed number. *)
Signed(d) == IF d >= Half THEN d - Period ELSE d

Current == Len(blockIndex)
Entries == 0..(Capacity(MaxIndexes) - 1)

IdleProducer == [pc |-> "idle", entry |-> 0, block |-> Null]
IdleConsumer ==
    [pc |-> "idle", count |-> 0, index |-> 0, header |-> 0, tail |-> 0,
     entry |-> 0, block |-> Null]

Init ==
    /\ tailIndex = 0 /\ headIndex = 0
    /\ dequeueOptimisticCount = 0 /\ dequeueOvercommit = 0
    /\ tailBlock = Null
    /\ blockIndex = << [tail |-> Capacity(1) - 1,
                        entry |-> [i \in 0..(Capacity(1) - 1) |-> i]] >>
    /\ key = [e \in Entries |-> INVALID_BLOCK_BASE]
    /\ value = [e \in Entries |-> Null]
    /\ elements = [b \in Blocks |-> [i \in 0..(BLOCK_SIZE - 1) |-> Null]]
    /\ elementsCompletelyDequeued = [b \in Blocks |-> 0]
    /\ freeBlocks = Blocks
    /\ producer = IdleProducer
    /\ consumer = [c \in Consumers |-> IdleConsumer]

-----------------------------------------------------------------------------
(* enqueue *)

At(pc) == producer.pc = pc
Goes(pc) == producer' = [producer EXCEPT !.pc = pc]

(* The element is constructed and tailIndex.store(newTailIndex) publishes it. *)
Publish ==
    /\ elements' = [elements EXCEPT ![tailBlock][tailIndex % BLOCK_SIZE] = tailIndex]
    /\ tailIndex' = Plus(tailIndex, 1)
    /\ producer' = IdleProducer
    /\ UNCHANGED <<headIndex, dequeueOptimisticCount, dequeueOvercommit, index, tailBlock,
                   elementsCompletelyDequeued, freeBlocks, consumer>>

(* The tail is inside a block; a constructor that throws changes nothing. *)
EnqueueInBlock == At("idle") /\ tailIndex % BLOCK_SIZE # 0 /\ Publish

(* The tail is at the end of a block; false if the indices do not suffice. *)
EnqueueNewBlock ==
    /\ At("idle") /\ tailIndex % BLOCK_SIZE = 0
    /\ circular_less_than(headIndex, Plus(tailIndex, BLOCK_SIZE))
    /\ Goes("insert")
    /\ UNCHANGED <<counters, index, blocks, consumer>>

NewTail == (blockIndex[Current].tail + 1) % Capacity(Current)
NewEntry == blockIndex[Current].entry[NewTail]
Usable(e) == key[e] = INVALID_BLOCK_BASE \/ value[e] = Null

(* insert_block_index_entry: the key, ... *)
InsertKey ==
    /\ At("insert") /\ Usable(NewEntry)
    /\ key' = [key EXCEPT ![NewEntry] = tailIndex]
    /\ producer' = [producer EXCEPT !.pc = "tail", !.entry = NewEntry]
    /\ UNCHANGED <<counters, blockIndex, value, blocks, consumer>>

(* ... then the tail of the index. *)
InsertTail ==
    /\ At("tail")
    /\ blockIndex' = [blockIndex EXCEPT ![Current].tail = NewTail]
    /\ Goes("requisition")
    /\ UNCHANGED <<counters, key, value, blocks, consumer>>

(* Mutant: the entries are copied from the start of the array, not from    *)
(* the oldest one.                                                         *)
NewBlockIndex_Unrotated ==
    /\ At("insert") /\ ~Usable(NewEntry)
    /\ Current < MaxIndexes
    /\ blockIndex' = Append(blockIndex,
           [tail |-> Capacity(Current) - 1,
            entry |-> [i \in 0..(Capacity(Current + 1) - 1) |->
                          IF i < Capacity(Current)
                          THEN blockIndex[Current].entry[i] ELSE i]])
    /\ UNCHANGED <<counters, key, value, blocks, producer, consumer>>

(* No room: new_block_index doubles the index, oldest entry first. *)
NewBlockIndex ==
    /\ At("insert") /\ ~Usable(NewEntry)
    /\ Current < MaxIndexes
    /\ blockIndex' = Append(blockIndex,
           [tail |-> Capacity(Current) - 1,
            entry |-> [i \in 0..(Capacity(Current + 1) - 1) |->
                          IF i < Capacity(Current)
                          THEN blockIndex[Current].entry[(NewTail + i) % Capacity(Current)]
                          ELSE i]])
    /\ UNCHANGED <<counters, key, value, blocks, producer, consumer>>

(* There is no memory for it: enqueue returns false. *)
NewBlockIndexFails ==
    /\ At("insert") /\ ~Usable(NewEntry)
    /\ producer' = IdleProducer
    /\ UNCHANGED <<counters, index, blocks, consumer>>

(* Mutant: the counter of the block is not reset. *)
RequisitionBlock_NoReset(b) ==
    /\ At("requisition") /\ b \in freeBlocks
    /\ freeBlocks' = freeBlocks \ {b}
    /\ producer' = [producer EXCEPT !.pc = "value", !.block = b]
    /\ UNCHANGED <<counters, index, tailBlock, elements, elementsCompletelyDequeued,
                   consumer>>

(* requisition_block, and reset_empty *)
RequisitionBlock(b) ==
    /\ At("requisition") /\ b \in freeBlocks
    /\ freeBlocks' = freeBlocks \ {b}
    /\ elementsCompletelyDequeued' = [elementsCompletelyDequeued EXCEPT ![b] = 0]
    /\ producer' = [producer EXCEPT !.pc = "value", !.block = b]
    /\ UNCHANGED <<counters, index, tailBlock, elements, consumer>>

(* There is no block, or the constructor of the element, which runs here   *)
(* if it may throw, throws: ...                                            *)
EnqueueFails ==
    /\ (At("requisition") /\ freeBlocks = {}) \/ At("value")
    /\ Goes("rewind")
    /\ UNCHANGED <<counters, index, blocks, consumer>>

(* ... rewind_block_index_tail, ... *)
RewindTail ==
    /\ At("rewind")
    /\ blockIndex' = [blockIndex EXCEPT ![Current].tail = (@ - 1) % Capacity(Current)]
    /\ Goes("unlist")
    /\ UNCHANGED <<counters, key, value, blocks, consumer>>

(* Mutant: the block whose element could not be constructed is not freed. *)
ClearEntry_Leaks ==
    /\ At("unlist")
    /\ value' = [value EXCEPT ![producer.entry] = Null]
    /\ producer' = IdleProducer
    /\ UNCHANGED <<counters, blockIndex, key, blocks, consumer>>

(* ... the entry is cleared, and the block, if there is one, freed. *)
ClearEntry ==
    /\ At("unlist")
    /\ value' = [value EXCEPT ![producer.entry] = Null]
    /\ freeBlocks' = freeBlocks \cup ({producer.block} \ {Null})
    /\ producer' = IdleProducer
    /\ UNCHANGED <<counters, blockIndex, key, tailBlock, elements,
                   elementsCompletelyDequeued, consumer>>

(* The block goes into the index and becomes the tail block. *)
ListBlock ==
    /\ At("value")
    /\ value' = [value EXCEPT ![producer.entry] = producer.block]
    /\ tailBlock' = producer.block
    /\ Goes("publish")
    /\ UNCHANGED <<counters, blockIndex, key, elements, elementsCompletelyDequeued,
                   freeBlocks, consumer>>

EnqueueInNewBlock == At("publish") /\ Publish

-----------------------------------------------------------------------------
(* dequeue *)

In(c, pc) == consumer[c].pc = pc
Becomes(c, locals) == consumer' = [consumer EXCEPT ![c] = locals]
Moves(c, pc) == Becomes(c, [consumer[c] EXCEPT !.pc = pc])

(* tailIndex.load(), ... *)
DequeueLoadsTail(c) ==
    /\ In(c, "idle")
    /\ Becomes(c, [IdleConsumer EXCEPT !.pc = "overcommit", !.tail = tailIndex])
    /\ UNCHANGED <<counters, index, blocks, producer>>

(* ... dequeueOvercommit.load(), ... *)
DequeueLoadsOvercommit(c) ==
    /\ In(c, "overcommit")
    /\ Becomes(c, [consumer[c] EXCEPT !.pc = "look", !.count = dequeueOvercommit])
    /\ UNCHANGED <<counters, index, blocks, producer>>

(* ... dequeueOptimisticCount.load(): by the three, loaded one after the   *)
(* other, there seems to be an element for one more consumer, ...          *)
SeemsFree(c) ==
    circular_less_than(Minus(dequeueOptimisticCount, consumer[c].count), consumer[c].tail)

DequeueSees(c) ==
    /\ In(c, "look") /\ SeemsFree(c)
    /\ Becomes(c, [consumer[c] EXCEPT !.pc = "count", !.tail = 0])
    /\ UNCHANGED <<counters, index, blocks, producer>>

(* ... or there seems to be none: false. *)
DequeueSeesNone(c) ==
    /\ In(c, "look") /\ ~SeemsFree(c)
    /\ Becomes(c, IdleConsumer)
    /\ UNCHANGED <<counters, index, blocks, producer>>

(* dequeueOptimisticCount.fetch_add(1) *)
DequeueCounts(c) ==
    /\ In(c, "count")
    /\ dequeueOptimisticCount' = Plus(dequeueOptimisticCount, 1)
    /\ Becomes(c, [consumer[c] EXCEPT !.pc = "recheck",
                      !.count = Minus(dequeueOptimisticCount, @)])
    /\ UNCHANGED <<tailIndex, headIndex, dequeueOvercommit, index, blocks, producer>>

(* Mutant: the tail is not looked at again. *)
DequeueRechecks_Not(c) ==
    /\ In(c, "recheck")
    /\ Moves(c, "claim")
    /\ UNCHANGED <<counters, index, blocks, producer>>

(* The tail once more: there is an element for this consumer, ... *)
DequeueRechecks(c) ==
    /\ In(c, "recheck") /\ circular_less_than(consumer[c].count, tailIndex)
    /\ Moves(c, "claim")
    /\ UNCHANGED <<counters, index, blocks, producer>>

(* ... or there is none, ... *)
DequeueIsLate(c) ==
    /\ In(c, "recheck") /\ ~circular_less_than(consumer[c].count, tailIndex)
    /\ Moves(c, "late")
    /\ UNCHANGED <<counters, index, blocks, producer>>

(* Mutant: the consumer does not count itself out. *)
DequeueGivesUp_Silently(c) ==
    /\ In(c, "late")
    /\ Becomes(c, IdleConsumer)
    /\ UNCHANGED <<counters, index, blocks, producer>>

(* ... dequeueOvercommit.fetch_add(1), and false. *)
DequeueGivesUp(c) ==
    /\ In(c, "late") /\ dequeueOvercommit < MaxOvercommit
    /\ dequeueOvercommit' = Plus(dequeueOvercommit, 1)
    /\ Becomes(c, IdleConsumer)
    /\ UNCHANGED <<tailIndex, headIndex, dequeueOptimisticCount, index, blocks, producer>>

(* headIndex.fetch_add(1) *)
DequeueClaims(c) ==
    /\ In(c, "claim")
    /\ headIndex' = Plus(headIndex, 1)
    /\ Becomes(c, [consumer[c] EXCEPT !.pc = "header", !.index = headIndex, !.count = 0])
    /\ UNCHANGED <<tailIndex, dequeueOptimisticCount, dequeueOvercommit, index, blocks,
                   producer>>

(* get_block_index_index_for_index: blockIndex.load(), ... *)
LookupHeader(c) ==
    /\ In(c, "header")
    /\ Becomes(c, [consumer[c] EXCEPT !.pc = "tail", !.header = Current])
    /\ UNCHANGED <<counters, index, blocks, producer>>

(* ... its tail, which may be out of date by the time ... *)
LookupTail(c) ==
    /\ In(c, "tail")
    /\ Becomes(c, [consumer[c] EXCEPT !.pc = "entry",
                      !.tail = blockIndex[consumer[c].header].tail])
    /\ UNCHANGED <<counters, index, blocks, producer>>

(* ... the key of the entry there is read, from which the entry that is    *)
(* wanted is found, and the block in it.                                   *)
EntryFor(c) ==
    LET me == consumer[c]
        entry == blockIndex[me.header].entry
        offset == Signed(Minus(Base(me.index), key[entry[me.tail]])) \div BLOCK_SIZE
    IN  entry[(me.tail + offset) % Capacity(me.header)]

LookupEntry(c) ==
    /\ In(c, "entry")
    /\ Becomes(c, [consumer[c] EXCEPT !.pc = "read", !.header = 0, !.tail = 0,
                      !.entry = EntryFor(c), !.block = value[EntryFor(c)]])
    /\ UNCHANGED <<counters, index, blocks, producer>>

(* element = std::move(el), el is destroyed, and set_empty: whoever        *)
(* empties the block gives it back.                                        *)
DequeueReads(c) ==
    /\ In(c, "read")
    /\ LET me == consumer[c]
           b == me.block
       IN  /\ elements' = [elements EXCEPT ![b][me.index % BLOCK_SIZE] = Null]
           /\ elementsCompletelyDequeued' = [elementsCompletelyDequeued EXCEPT ![b] = @ + 1]
           /\ IF elementsCompletelyDequeued[b] = BLOCK_SIZE - 1
              THEN Becomes(c, [IdleConsumer EXCEPT !.pc = "unlist", !.block = b,
                                  !.entry = me.entry])
              ELSE Becomes(c, IdleConsumer)
    /\ UNCHANGED <<counters, index, tailBlock, freeBlocks, producer>>

(* entry->value.store(nullptr) *)
UnlistBlock(c) ==
    /\ In(c, "unlist")
    /\ value' = [value EXCEPT ![consumer[c].entry] = Null]
    /\ Moves(c, "free")
    /\ UNCHANGED <<counters, blockIndex, key, blocks, producer>>

(* add_block_to_free_list(block) *)
FreeBlock(c) ==
    /\ In(c, "free")
    /\ freeBlocks' = freeBlocks \cup {consumer[c].block}
    /\ Becomes(c, IdleConsumer)
    /\ UNCHANGED <<counters, index, tailBlock, elements, elementsCompletelyDequeued,
                   producer>>

-----------------------------------------------------------------------------

enqueue ==
    \/ EnqueueInBlock \/ EnqueueNewBlock \/ InsertKey \/ InsertTail
    \/ NewBlockIndex \/ NewBlockIndexFails \/ (\E b \in Blocks : RequisitionBlock(b))
    \/ EnqueueFails \/ RewindTail \/ ClearEntry \/ ListBlock
    \/ EnqueueInNewBlock

dequeue(c) ==
    \/ DequeueLoadsTail(c) \/ DequeueLoadsOvercommit(c) \/ DequeueSees(c) \/ DequeueSeesNone(c)
    \/ DequeueCounts(c) \/ DequeueRechecks(c) \/ DequeueIsLate(c) \/ DequeueGivesUp(c) \/ DequeueClaims(c)
    \/ LookupHeader(c) \/ LookupTail(c) \/ LookupEntry(c)
    \/ DequeueReads(c) \/ UnlistBlock(c) \/ FreeBlock(c)

Next == enqueue \/ \E c \in Consumers : dequeue(c)

Spec == Init /\ [][Next]_vars

-----------------------------------------------------------------------------

Indices == 0..(Period - 1)
Pcs == {"idle", "overcommit", "look", "count", "recheck", "late", "claim", "header", "tail",
        "entry", "read", "unlist", "free"}

(* Every variable of the stream has its type; in particular no block is    *)
(* counted empty more often than it has elements (the assert in            *)
(* set_empty).                                                             *)
TypeOK ==
    /\ {tailIndex, headIndex, dequeueOptimisticCount, dequeueOvercommit} \subseteq Indices
    /\ tailBlock \in Blocks \cup {Null}
    /\ key \in [Entries -> Indices]
    /\ value \in [Entries -> Blocks \cup {Null}]
    /\ elements \in [Blocks -> [0..(BLOCK_SIZE - 1) -> Indices \cup {Null}]]
    /\ elementsCompletelyDequeued \in [Blocks -> 0..BLOCK_SIZE]
    /\ freeBlocks \subseteq Blocks
    /\ producer.block \in Blocks \cup {Null}
    /\ \A c \in Consumers : consumer[c].pc \in Pcs

(* How many elements are published and not claimed. *)
Size == Minus(tailIndex, headIndex)

(* The element that consumer c has claimed and not delivered; once it has  *)
(* the block, that is what it would read there now.                        *)
Taken(c) ==
    LET me == consumer[c]
    IN  CASE me.pc \in {"header", "tail", "entry"} -> me.index
          [] me.pc = "read" /\ me.block # Null ->
                 elements[me.block][me.index % BLOCK_SIZE]
          [] OTHER -> Null

TheStream == INSTANCE Stream WITH
    None <- Null,
    count <- tailIndex,
    line <- [i \in 1..Size |-> Plus(headIndex, i - 1)],
    taken <- [c \in Consumers |-> Taken(c)]

(* With its counters, blocks and block index the stream is a first-in      *)
(* first-out line: nobody claims an index before its element is published  *)
(* or one that another claimed, and what is read is what was enqueued      *)
(* there, although blocks and index entries are reused and indices wrap.   *)
ImplementsStream == TheStream!Spec

(* The asserts of the lookup: with an index, a tail and a key read at      *)
(* different times, while the producer inserts, rewinds and replaces the   *)
(* index, a consumer still finds the entry and the block of its element.   *)
LookupFindsBlock ==
    \A c \in Consumers : consumer[c].pc = "read" =>
        /\ key[consumer[c].entry] = Base(consumer[c].index)
        /\ consumer[c].block # Null
        /\ consumer[c].block \notin freeBlocks

(* The blocks between head and tail, and the one being filled. *)
BlocksNeeded ==
    {Base(Plus(headIndex, i)) : i \in 0..(Size - 1)}
        \cup (IF tailIndex % BLOCK_SIZE = 0 THEN {} ELSE {Base(tailIndex)})

(* No block leaks and none is in use twice: when every call has returned,  *)
(* the blocks in use are as many as the elements need, whichever enqueues  *)
(* failed on the way.                                                      *)
NoBlockLeaks ==
    producer.pc = "idle" /\ (\A c \in Consumers : consumer[c].pc = "idle") =>
        Cardinality(Blocks \ freeBlocks) = Cardinality(BlocksNeeded)

(* The overcommit counter makes up for every consumer that counted itself  *)
(* in too late, whatever stale values it had loaded: when no consumer is   *)
(* in a call, the next one sees an element exactly if there is one.  So a  *)
(* consumer that is alone, as the worker of the execute queue is, misses   *)
(* none, and no element stays hidden once rivals have gone.                *)
QuietStreamServes ==
    (\A c \in Consumers : consumer[c].pc = "idle") =>
        (circular_less_than(Minus(dequeueOptimisticCount, dequeueOvercommit), tailIndex)
            <=> Size > 0)
=============================================================================
