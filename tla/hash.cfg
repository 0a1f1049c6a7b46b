\* Two identifiers given three times to a new thread, tables of 2, 4 and 8 slots.
SPECIFICATION FairSpec
CONSTANTS
    Threads = {t1, t2}
    hash_thread_id <- AllCollide
    invalid_thread_id = invalid_thread_id
    invalid_thread_id2 = invalid_thread_id2
    Null = Null
    INITIAL_IMPLICIT_PRODUCER_HASH_SIZE = 2
    MaxTables = 3
    MaxProducers = 3
    MaxExits = 3
INVARIANTS
    TypeOK
    FindsOwnStream
    StreamNotShared
PROPERTIES
    GetReturns
