SPECIFICATION FairSpec
CONSTANTS
    Unseen = Unseen
    Settings <- SmallRestarts
PROPERTY IncidentsEnd
