SPECIFICATION Spec
CONSTANTS
    Nothing = Nothing
    Deployments <- AllDeployments
    LagBlocks = 0
    LagPersist = 2
    MaxStateAge = 3
    PublicDebounce = 2
    PrivateDebounce = 4
    Retention = 5
    ActiveTTL = 6
    Heights = {0, 1, 2}
INVARIANTS
    RuleAndEngineAgree
    InTime
PROPERTIES
    Debounced
