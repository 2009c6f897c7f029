SPECIFICATION FairSpec
CONSTANTS
    p1 = p1
    s1 = s1
    Poller = {p1}
    Subscriber = {s1}
    ObsCapacity = 1
    BackoffSlots = 2
    MaxBatches = 2
INVARIANTS
    TypeOK
    ConsumerLeavesLast
PROPERTIES
    AcceptedIsProcessed
    ShutdownCompletes
CHECK_DEADLOCK FALSE
