\* The acceptor: three starts (two chains, a restart), connections, one accept
\* error, one factory that throws.  The session manager: two threads, three
\* sessions, two of them with the same identifier.  All threads are fair.
SPECIFICATION ConnectionsSpec
CONSTANTS
    MaxStarts = 3
    MaxConnections = 3
    MaxErrors = 1
    MaxThrows = 1
    s1 = s1
    s2 = s2
    s3 = s3
    Sessions = {s1, s2, s3}
    Ids = {1, 2}
    IdOf <- MCIdOf
    Threads = {t1, t2}
    MaxCalls = 3
    NoSession = NoSession
    Free = Free
INVARIANTS
    AcceptorTypeOK
    DeafOnlyAfterFailures
    LateSessionsBounded
    TypeOK
PROPERTIES
    StopEndsAccepts
    ImplementsDirectory
    CallsReturn
CHECK_DEADLOCK FALSE
