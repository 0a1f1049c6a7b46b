\* The first table has the default size of the library, 32 slots.
SPECIFICATION FillSpec
CONSTANTS
    Threads <- AllThreads
    hash_thread_id <- SpreadHash
    invalid_thread_id = invalid_thread_id
    invalid_thread_id2 = invalid_thread_id2
    Null = Null
    INITIAL_IMPLICIT_PRODUCER_HASH_SIZE = 32
    MaxTables = 3
    MaxProducers = 65
    MaxExits = 18
CHECK_DEADLOCK FALSE
INVARIANT SlotFree
