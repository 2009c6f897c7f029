SPECIFICATION FairSpec
CONSTANTS
    Nothing = Nothing
    Broken = Broken
    MaxNameLen = 5
    Uuids = {}
    Ids = {"id1", "id2", "id3"}
    MaxFaults = 1
    Deployments <- OnlyUsual
PROPERTIES
    TornIdIsReplaced
