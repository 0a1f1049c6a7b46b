\* One producer, one packet, no faults: the notification of Enqueue is lost.
SPECIFICATION FairSpec
CONSTANTS
    p1 = p1
    p2 = p2
    Producers = {p1}
    MaxPackets = 1
    Quota <- MCQuota
    MaxStarts = 1
    MaxFaults = 0
    NoItem = NoItem
PROPERTIES
    EnqueuedIsExecuted
