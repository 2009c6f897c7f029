SPECIFICATION FairSpec
CONSTANTS
    k1 = k1
    k2 = k2
    NRules = 3
    Configs <- Both
    EventKind = {k1, k2}
    MaxEvents = 2
INVARIANTS
    TypeOK
    AuditTrail
    RowsTellTheTruth
PROPERTIES
    FinishedIsFinal
    SentInOrderOnce
    EnqueuedIsFinished
    DispatchReturns
