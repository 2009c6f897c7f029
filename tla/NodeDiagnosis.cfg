SPECIFICATION FairSpec
CONSTANTS
    Unseen = Unseen
    Settings <- PeersAndChain
INVARIANTS
    TypeOK
    RuleAndEngineAgree
PROPERTIES
    NoPeersDebounced
    TipLagHysteresis
    RecoveryResolves
