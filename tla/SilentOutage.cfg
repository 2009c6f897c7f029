SPECIFICATION FairSpec
CONSTANTS
    Unseen = Unseen
    Settings <- Small
PROPERTY OutageIsReported
