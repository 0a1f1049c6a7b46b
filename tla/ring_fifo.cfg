\* Three bytes of room, calls of up to four: wrap-around, full, empty, partial.
SPECIFICATION Spec
CONSTANTS
    Bytes = {0, 1}
    Fresh = 0
    Capacity = 3
    MaxLength = 4
    Strict = TRUE
    Idle = Idle
INVARIANTS
    TypeOK
PROPERTIES
    ImplementsByteQueue
