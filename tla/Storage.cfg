SPECIFICATION Spec
CONSTANTS
    Nothing = Nothing
    MaxNameLen = 6
    Uuids <- UuidTexts
    MetricCapacity = 2
    HeartbeatCapacity = 1
    Deployments <- Instances
    MaxObs = 3
    MaxTime = 2
    MaxLag = 1
INVARIANTS
    ReadModelsAnswer
    StoresAgree
    AuditLogsAgree
    EvidenceIsHonest
PROPERTIES
    NothingGoesEarly
