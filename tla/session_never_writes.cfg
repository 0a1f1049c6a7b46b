\* One sender, one packet, no faults.
SPECIFICATION FairSpec
CONSTANTS
    Senders = {s1}
    Io = io
    MaxPackets = 1
    MaxAllocFailures = 0
    EmptyPacket = EmptyPacket
PROPERTIES
    SentIsWritten
CHECK_DEADLOCK FALSE
