SPECIFICATION Spec
CONSTANTS
    f1 = f1
    f2 = f2
    Fingerprint <- OneFingerprint
    Floor <- OneFloor
    NoIncident = NoIncident
    MaxIncidents = 2
    MaxSignals = 3
INVARIANT BootNeverPanics
