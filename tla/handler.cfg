\* Three sessions, two of them with the same identifier, from start to exit,
\* fair threads.
SPECIFICATION FairSpec
CONSTANTS
    s1 = s1
    s2 = s2
    s3 = s3
    Sessions = {s1, s2, s3}
    Ids = {1, 2}
    IdOf <- MCIdOf
    MaxPackets = 1
    EchoItems <- MCEchoItems
    NoSession = NoSession
    NoItem = NoItem
INVARIANTS
    TypeOK
    UsesLiveServices
    HandledSessionAlive
    HandledByRightSession
    ServedBeforeExit
PROPERTIES
    MainEnds
CHECK_DEADLOCK FALSE
