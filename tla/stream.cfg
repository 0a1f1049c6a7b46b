\* Two consumers; blocks of two elements, indices of three bits, two indexes.
SPECIFICATION Spec
CONSTANTS
    Consumers = {c1, c2}
    Blocks = {b1, b2, b3}
    BLOCK_SIZE = 2
    IMPLICIT_INITIAL_INDEX_SIZE = 2
    MaxIndexes = 2
    MaxOvercommit = 1
    Width = 3
    Null = Null
SYMMETRY StreamSymmetry
INVARIANTS
    TypeOK
    LookupFindsBlock
    NoBlockLeaks
    QuietStreamServes
PROPERTIES
    ImplementsStream
CHECK_DEADLOCK FALSE
