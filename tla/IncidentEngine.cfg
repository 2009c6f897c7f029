SPECIFICATION FairSpec
CONSTANTS
    f1 = f1
    f2 = f2
    Fingerprint <- TwoFingerprints
    Floor <- TwoFloors
    NoIncident = NoIncident
    MaxIncidents = 2
    MaxSignals = 3
INVARIANTS
    TypeOK
    WriteThrough
    OneOpenRowPerFingerprint
    AnnouncedIsDurable
    EvidenceRecorded
    CrashesNeverPanic
PROPERTIES
    AnnouncementsAreNews
    RowsOnlyAdvance
    ImplementsLedger
    ConsumerReturns
