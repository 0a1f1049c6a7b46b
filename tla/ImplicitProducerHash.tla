------------------------ MODULE ImplicitProducerHash ------------------------
(***************************************************************************)
(* How moodycamel::ConcurrentQueue finds the stream of the thread that     *)
(* calls enqueue without a token: a chain of hash tables keyed by thread   *)
(* identifiers.  A full table is followed by a larger one, to which each   *)
(* thread moves its own entry at its next call; the entry of a thread that *)
(* ends becomes reusable, and so does its stream.                          *)
(*                                                                         *)
(* A step is an atomic operation that other threads can see.  The search   *)
(* for one's own key in all tables is one step: nobody else writes that    *)
(* key, no slot becomes empty again, and the tables added since it began   *)
(* do not have the key.  It is no step at all, for ever, where a table has *)
(* neither the key nor an empty slot.  The value of an entry is written    *)
(* with its key: only the thread with that key reads it.  An identifier    *)
(* stands for the threads that have it one after the other.                *)
(***************************************************************************)
EXTENDS Naturals, Sequences, FiniteSets, FiniteSetsExt

CONSTANTS
    Threads,          \* thread identifiers
    hash_thread_id,   \* their hash values
    invalid_thread_id, invalid_thread_id2,    \* keys of empty, reusable slots
    Null,             \* nullptr
    INITIAL_IMPLICIT_PRODUCER_HASH_SIZE,
    MaxTables,        \* bound on the tables memory suffices for
    MaxProducers,     \* bound on the streams memory suffices for
    MaxExits          \* bound on the threads that end

ASSUME HashAssumption ==
    /\ hash_thread_id \in [Threads -> Nat]
    /\ invalid_thread_id # invalid_thread_id2
    /\ {invalid_thread_id, invalid_thread_id2} \cap Threads = {}
    /\ Null \notin Nat
    /\ INITIAL_IMPLICIT_PRODUCER_HASH_SIZE \in Nat \ {0}
    /\ MaxTables \in Nat \ {0} /\ MaxProducers \in Nat /\ MaxExits \in Nat

VARIABLES
    tables,        \* the chain, oldest first; implicitProducerHash is the last
    count,         \* implicitProducerHashCount
    resizing,      \* implicitProducerHashResizeInProgress
    made,          \* the streams are 1 .. made
    inactive,      \* the streams whose threads have ended
    pc,            \* where each thread is
    mainHash,      \* the table each thread takes for the main one
    index,         \* the slot it tries next
    newCount,
    value,         \* the stream it is about to enter into a table
    mine,          \* history: the stream each thread was given
    exits          \* number of threads that have ended

tableVars == <<tables, count, resizing>>
producerVars == <<made, inactive>>
locals == <<mainHash, index, newCount, value>>
history == <<mine, exits>>
vars == <<tableVars, producerVars, pc, locals, history>>

Producers == 1 .. MaxProducers
Keys == Threads \cup {invalid_thread_id, invalid_thread_id2}

NewTable(capacity) ==
    [capacity |-> capacity,
     key |-> [i \in 0 .. capacity - 1 |-> invalid_thread_id],
     value |-> [i \in 0 .. capacity - 1 |-> Null]]

Init ==
    /\ tables = <<NewTable(INITIAL_IMPLICIT_PRODUCER_HASH_SIZE)>>
    /\ count = 0
    /\ resizing = FALSE
    /\ made = 0 /\ inactive = {}
    /\ pc = [t \in Threads |-> "idle"]
    /\ mainHash = [t \in Threads |-> 0]
    /\ index = [t \in Threads |-> 0]
    /\ newCount = [t \in Threads |-> 0]
    /\ value = [t \in Threads |-> Null]
    /\ mine = [t \in Threads |-> Null]
    /\ exits = 0

-----------------------------------------------------------------------------
(* The slots t tries in table h, in its order. *)
Probe(t, h, k) == (hash_thread_id[t] + k) % tables[h].capacity

(* A search of table h for t passes a slot with another thread's key or a  *)
(* reusable one, and ends at t's key or at an empty slot, if there is one. *)
Passes(t, h, k) == tables[h].key[Probe(t, h, k)] \notin {t, invalid_thread_id}
Offsets(h) == 0 .. tables[h].capacity - 1
Ends(t, h) == ~\A k \in Offsets(h) : Passes(t, h, k)

(* The offset at which it ends at t's key. *)
FoundAt(t, h) ==
    {k \in Offsets(h) : /\ tables[h].key[Probe(t, h, k)] = t
                        /\ \A j \in 0 .. k - 1 : Passes(t, h, j)}

FoundIn(t, h) == FoundAt(t, h) # {}

SlotIn(t, h) == Probe(t, h, CHOOSE k \in FoundAt(t, h) : TRUE)
ValueIn(t, h) == tables[h].value[SlotIn(t, h)]

(* The search of all tables, newest first, ends in table g, for 0 in none: *)
(* it has come to an empty slot in each newer one.                         *)
SearchEndsIn(t, g) ==
    /\ g # 0 => FoundIn(t, g)
    /\ \A h \in g + 1 .. Len(tables) : Ends(t, h) /\ ~FoundIn(t, h)

Goes(t, to) == pc' = [pc EXCEPT ![t] = to]

(* The call of t returns p; its locals are dead. *)
Returns(t, p) ==
    /\ Goes(t, "idle")
    /\ mainHash' = [mainHash EXCEPT ![t] = 0]
    /\ index' = [index EXCEPT ![t] = 0]
    /\ newCount' = [newCount EXCEPT ![t] = 0]
    /\ value' = [value EXCEPT ![t] = Null]
    /\ mine' = [mine EXCEPT ![t] = p]

Half(h) == tables[h].capacity \div 2
ThreeQuarters(h) == Half(h) + tables[h].capacity \div 4

-----------------------------------------------------------------------------
(* get_or_add_implicit_producer: the search *)

(* The call begins: the thread is in the search, and stays there if it     *)
(* does not end.                                                           *)
Searches(t) ==
    /\ pc[t] = "idle"
    /\ Goes(t, "search")
    /\ UNCHANGED <<tableVars, producerVars, locals, history>>

(* t is in the main table, and the call returns what it finds there. *)
FindsInMain(t) ==
    LET h == Len(tables)
    IN  /\ pc[t] = "search"
        /\ SearchEndsIn(t, h)
        /\ Returns(t, ValueIn(t, h))
        /\ UNCHANGED <<tableVars, producerVars, exits>>

(* t is in an older table only, and is to be entered in the main one. *)
FindsInOlder(t) ==
    LET h == Len(tables)
    IN  \E g \in 1 .. h - 1 :
            /\ pc[t] = "search"
            /\ SearchEndsIn(t, g)
            /\ mainHash' = [mainHash EXCEPT ![t] = h]
            /\ index' = [index EXCEPT ![t] = Probe(t, h, 0)]
            /\ value' = [value EXCEPT ![t] = ValueIn(t, g)]
            /\ Goes(t, "move")
            /\ UNCHANGED <<tableVars, producerVars, newCount, history>>

FindsNothing(t) ==
    /\ pc[t] = "search"
    /\ SearchEndsIn(t, 0)
    /\ mainHash' = [mainHash EXCEPT ![t] = Len(tables)]
    /\ Goes(t, "count")
    /\ UNCHANGED <<tableVars, producerVars, index, newCount, value, history>>

(* The key at index in t's table, and t's entry written over it. *)
KeyThere(t) == tables[mainHash[t]].key[index[t]]
Enter(t) ==
    tables' = [tables EXCEPT
        ![mainHash[t]] = [@ EXCEPT !.key[index[t]] = t,
                                   !.value[index[t]] = value[t]]]

(* compare_exchange_strong fails on the key of another thread: ++index. *)
TriesNext(t) ==
    /\ pc[t] \in {"move", "insert"}
    /\ KeyThere(t) \in Threads
    /\ index' = [index EXCEPT
                     ![t] = (@ + 1) % tables[mainHash[t]].capacity]
    /\ UNCHANGED <<tableVars, producerVars, pc, mainHash, newCount, value,
                   history>>

Moves(t) ==
    /\ pc[t] = "move"
    /\ KeyThere(t) \in {invalid_thread_id, invalid_thread_id2}
    /\ Enter(t)
    /\ Returns(t, value[t])
    /\ UNCHANGED <<count, resizing, producerVars, exits>>

-----------------------------------------------------------------------------
(* get_or_add_implicit_producer: the insertion *)

(* newCount = 1 + implicitProducerHashCount.fetch_add(1) *)
Counts(t) ==
    /\ pc[t] = "count"
    /\ count' = count + 1
    /\ newCount' = [newCount EXCEPT ![t] = count + 1]
    /\ Goes(t, "room")
    /\ UNCHANGED <<tables, resizing, producerVars, mainHash, index, value,
                   history>>

(* The table is half full and nobody resizes: test_and_set succeeds, and   *)
(* the main table is loaded again.                                         *)
LocksResize(t) ==
    /\ pc[t] = "room"
    /\ newCount[t] >= Half(mainHash[t])
    /\ ~resizing
    /\ resizing' = TRUE
    /\ mainHash' = [mainHash EXCEPT ![t] = Len(tables)]
    /\ Goes(t, "resize")
    /\ UNCHANGED <<tables, count, producerVars, index, newCount, value, history>>

SkipsResize(t) ==
    /\ pc[t] = "room"
    /\ newCount[t] < Half(mainHash[t]) \/ resizing
    /\ Goes(t, "place")
    /\ UNCHANGED <<tableVars, producerVars, locals, history>>

(* The least doubling of the capacity of which newCount is less than half. *)
pow2[k \in Nat] == IF k = 0 THEN 1 ELSE 2 * pow2[k - 1]
NewCapacity(t) ==
    Min({c \in {tables[mainHash[t]].capacity * pow2[k] :
                    k \in 1 .. newCount[t] + 1} :
             newCount[t] < c \div 2})

Resizes(t) ==
    /\ pc[t] = "resize"
    /\ newCount[t] >= Half(mainHash[t])
    /\ Len(tables) < MaxTables
    /\ tables' = Append(tables, NewTable(NewCapacity(t)))
    /\ resizing' = FALSE
    /\ mainHash' = [mainHash EXCEPT ![t] = Len(tables) + 1]
    /\ Goes(t, "place")
    /\ UNCHANGED <<count, producerVars, index, newCount, value, history>>

(* Another thread has resized since. *)
ResizeNotNeeded(t) ==
    /\ pc[t] = "resize"
    /\ newCount[t] < Half(mainHash[t])
    /\ resizing' = FALSE
    /\ Goes(t, "place")
    /\ UNCHANGED <<tables, count, producerVars, locals, history>>

(* Mutant: the early return forgets to clear the flag. *)
ResizeFails_Locked(t) ==
    /\ pc[t] = "resize"
    /\ newCount[t] >= Half(mainHash[t])
    /\ count' = count - 1
    /\ Returns(t, Null)
    /\ UNCHANGED <<tables, resizing, producerVars, exits>>

(* Traits::malloc returns nullptr. *)
ResizeFails(t) ==
    /\ pc[t] = "resize"
    /\ newCount[t] >= Half(mainHash[t])
    /\ count' = count - 1
    /\ resizing' = FALSE
    /\ Returns(t, Null)
    /\ UNCHANGED <<tables, producerVars, exits>>

(* The table is too full, and another thread is busy: look again. *)
WaitsForTable(t) ==
    /\ pc[t] = "place"
    /\ newCount[t] >= ThreeQuarters(mainHash[t])
    /\ mainHash' = [mainHash EXCEPT ![t] = Len(tables)]
    /\ Goes(t, "room")
    /\ UNCHANGED <<tableVars, producerVars, index, newCount, value, history>>

(* t has stream p and goes on to enter it in the table. *)
Takes(t, p) ==
    /\ pc[t] = "place"
    /\ newCount[t] < ThreeQuarters(mainHash[t])
    /\ value' = [value EXCEPT ![t] = p]
    /\ index' = [index EXCEPT ![t] = Probe(t, mainHash[t], 0)]
    /\ Goes(t, "insert")
    /\ UNCHANGED <<tableVars, mainHash, newCount, history>>

(* Mutant: inactive is tested and not exchanged. *)
Recycles_Unclaimed(t, p) ==
    /\ p \in inactive
    /\ Takes(t, p)
    /\ UNCHANGED producerVars

(* recycle_or_create_producer exchanges the inactive of p ... *)
Recycles(t, p) ==
    /\ p \in inactive
    /\ Takes(t, p)
    /\ inactive' = inactive \ {p}
    /\ UNCHANGED made

(* ... or adds a new stream to the list, which it also does when a stream  *)
(* became inactive just after its loop had passed it.                      *)
Creates(t) ==
    /\ made < MaxProducers
    /\ Takes(t, made + 1)
    /\ made' = made + 1
    /\ UNCHANGED inactive

CreateFails(t) ==
    /\ pc[t] = "place"
    /\ newCount[t] < ThreeQuarters(mainHash[t])
    /\ count' = count - 1
    /\ Returns(t, Null)
    /\ UNCHANGED <<tables, resizing, producerVars, exits>>

(* The slot of a thread that ended is taken: it was counted already. *)
InsertsInReusable(t) ==
    /\ pc[t] = "insert"
    /\ KeyThere(t) = invalid_thread_id2
    /\ Enter(t)
    /\ count' = count - 1
    /\ Returns(t, value[t])
    /\ UNCHANGED <<resizing, producerVars, exits>>

InsertsInEmpty(t) ==
    /\ pc[t] = "insert"
    /\ KeyThere(t) = invalid_thread_id
    /\ Enter(t)
    /\ Returns(t, value[t])
    /\ UNCHANGED <<count, resizing, producerVars, exits>>

-----------------------------------------------------------------------------
(* implicit_producer_thread_exited *)

(* The thread ends; it has all tables to go through, the newest first. *)
Exits(t) ==
    /\ pc[t] = "idle" /\ mine[t] # Null
    /\ exits < MaxExits
    /\ exits' = exits + 1
    /\ mainHash' = [mainHash EXCEPT ![t] = Len(tables)]
    /\ Goes(t, "leave")
    /\ UNCHANGED <<tableVars, producerVars, index, newCount, value, mine>>

(* Mutant: the slot is made empty. *)
Leaves_Empty(t) ==
    LET h == mainHash[t]
    IN  /\ pc[t] = "leave" /\ h # 0
        /\ Ends(t, h)
        /\ IF FoundIn(t, h)
           THEN tables' = [tables EXCEPT ![h].key =
                               [@ EXCEPT ![SlotIn(t, h)] = invalid_thread_id]]
           ELSE UNCHANGED tables
        /\ mainHash' = [mainHash EXCEPT ![t] = h - 1]
        /\ UNCHANGED <<count, resizing, producerVars, pc, index, newCount, value,
                       history>>

(* The loop over table h ends with t's key or at an empty slot. *)
Leaves(t) ==
    LET h == mainHash[t]
    IN  /\ pc[t] = "leave" /\ h # 0
        /\ Ends(t, h)
        /\ IF FoundIn(t, h)
           THEN tables' = [tables EXCEPT ![h].key =
                               [@ EXCEPT ![SlotIn(t, h)] = invalid_thread_id2]]
           ELSE UNCHANGED tables
        /\ mainHash' = [mainHash EXCEPT ![t] = h - 1]
        /\ UNCHANGED <<count, resizing, producerVars, pc, index, newCount, value,
                       history>>

(* Mutant: the slot is counted out when its thread ends. *)
Retires_Uncounts(t) ==
    /\ pc[t] = "leave" /\ mainHash[t] = 0
    /\ inactive' = inactive \cup {mine[t]}
    /\ count' = count - 1
    /\ Returns(t, Null)
    /\ UNCHANGED <<tables, resizing, made, exits>>

(* producer->inactive.store(true); the identifier may be given out again. *)
Retires(t) ==
    /\ pc[t] = "leave" /\ mainHash[t] = 0
    /\ inactive' = inactive \cup {mine[t]}
    /\ Returns(t, Null)
    /\ UNCHANGED <<tableVars, made, exits>>

-----------------------------------------------------------------------------
GetBegins(t) == Searches(t)

GetGoesOn(t) ==
    \/ FindsInMain(t) \/ FindsInOlder(t) \/ FindsNothing(t)
    \/ TriesNext(t) \/ Moves(t)
    \/ Counts(t) \/ LocksResize(t) \/ SkipsResize(t)
    \/ Resizes(t) \/ ResizeNotNeeded(t) \/ ResizeFails(t) \/ WaitsForTable(t)
    \/ \E p \in Producers : Recycles(t, p)
    \/ Creates(t) \/ CreateFails(t)
    \/ InsertsInReusable(t) \/ InsertsInEmpty(t)

ExitGoesOn(t) == Leaves(t) \/ Retires(t)

Next ==
    \E t \in Threads :
        GetBegins(t) \/ GetGoesOn(t) \/ Exits(t) \/ ExitGoesOn(t)

Spec == Init /\ [][Next]_vars

(* A thread that has begun a call is scheduled as long as it can run. *)
FairSpec == Spec /\ \A t \in Threads : WF_vars(GetGoesOn(t))

-----------------------------------------------------------------------------

(* Every variable of the hash has its type; in particular the count of     *)
(* entries, which threads raise and take back on their own, stays positive *)
(* or zero.                                                                *)
TypeOK ==
    /\ \A h \in DOMAIN tables :
           /\ tables[h].key \in [0 .. tables[h].capacity - 1 -> Keys]
           /\ tables[h].value \in
                  [0 .. tables[h].capacity - 1 -> Producers \cup {Null}]
    /\ Len(tables) \in 1 .. MaxTables
    /\ count \in Nat
    /\ resizing \in BOOLEAN
    /\ made \in 0 .. MaxProducers /\ inactive \subseteq 1 .. made
    /\ pc \in [Threads -> {"idle", "search", "move", "count", "room", "resize",
                           "place", "insert", "leave"}]
    /\ mainHash \in [Threads -> 0 .. Len(tables)]
    /\ index \in [Threads -> Nat]
    /\ newCount \in [Threads -> Nat]
    /\ value \in [Threads -> Producers \cup {Null}]
    /\ mine \in [Threads -> Producers \cup {Null}]
    /\ exits \in 0 .. MaxExits

(* A thread between two calls finds the stream it was given, however many  *)
(* tables have been added and threads have come and gone since, and a new  *)
(* thread finds none, though its identifier was used before.               *)
FindsOwnStream ==
    \A t \in Threads : \A g \in 0 .. Len(tables) :
        pc[t] = "idle" /\ SearchEndsIn(t, g) =>
            mine[t] = IF g = 0 THEN Null ELSE ValueIn(t, g)

(* No two threads write to one stream, and none to an inactive one: the    *)
(* streams of threads that ended are handed on whole.                      *)
Streams(t) == {mine[t], value[t]} \ {Null}
StreamNotShared ==
    \A t \in Threads :
        /\ Streams(t) \cap inactive = {}
        /\ \A u \in Threads \ {t} : Streams(t) \cap Streams(u) = {}

(* "At least one slot is free in the hash table", in every table that a    *)
(* search may come to: what ends the search for a key that is not there.   *)
SlotFree ==
    \A h \in DOMAIN tables :
        \E i \in DOMAIN tables[h].key : tables[h].key[i] = invalid_thread_id

(* As long as no thread has ended the count does what it is for: however   *)
(* many threads hold a table that is no longer the main one, move to a new *)
(* one or give up for want of memory, every table keeps an empty slot.     *)
EmptySlotRemains == exits = 0 => SlotFree

(* A call of get_or_add_implicit_producer returns, also when it has to     *)
(* wait for a table that another thread allocates or fails to allocate:    *)
(* only a memory that fails again and again keeps it waiting, or a table   *)
(* without an empty slot, which it searches for ever.                      *)
MemoryKeepsFailing == []<><<\E t \in Threads : ResizeFails(t)>>_vars
TableFills == <>~SlotFree
GetReturns ==
    \/ MemoryKeepsFailing
    \/ TableFills
    \/ \A t \in Threads : pc[t] \notin {"idle", "leave"} ~> pc[t] = "idle"
=============================================================================
