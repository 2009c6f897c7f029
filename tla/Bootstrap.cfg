SPECIFICATION FairSpec
CONSTANTS
    Nothing = Nothing
    Broken = Broken
    MaxNameLen = 5
    Uuids = {}
    Ids = {"id1", "id2", "id3"}
    MaxFaults = 2
    Deployments <- AllDeployments
INVARIANTS
    OverridesCommute
    Verdict
    IdentityIsStable
PROPERTIES
    ComesUp
