\* Two producers, a restart, two faults of any kind, fair threads.
SPECIFICATION FairSpec
CONSTANTS
    p1 = p1
    p2 = p2
    Producers = {p1, p2}
    MaxPackets = 2
    Quota <- MCQuota
    MaxStarts = 2
    MaxFaults = 2
    NoItem = NoItem
INVARIANTS
    TypeOK
    PacketsInOrder
    PacketsAccounted
    StopWakeupNotLost
    StopDrains
PROPERTIES
    QuietAfterStop
    ImplementsService
    StopReturns
    NextEnqueueRecovers
