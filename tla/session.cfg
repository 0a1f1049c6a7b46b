\* Senders that race for _isWriting, enqueue failing up to twice, fair threads.
SPECIFICATION FairSpec
CONSTANTS
    Senders = {s1, s2, s3}
    Io = io
    MaxPackets = 3
    MaxAllocFailures = 2
    EmptyPacket = EmptyPacket
INVARIANTS
    TypeOK
    OneWriter
    BacklogConserved
    NeverWrites
PROPERTIES
    FlagReleased
CHECK_DEADLOCK FALSE
