\* A caller that is free to advance by zero and to peek past the end.
SPECIFICATION Spec
CONSTANTS
    Bytes = {0, 1}
    Fresh = 0
    Capacity = 2
    MaxLength = 2
    Strict = FALSE
    Idle = Idle
PROPERTIES
    PeekPreviewsRead
