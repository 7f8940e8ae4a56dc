SPECIFICATION GCFairSpec
CONSTANTS
    NTargets = 2
    Callers = {c1}
    Broken = {}
    Healths = {"ok", "upstream"}
    MaxFaults = 1
INVARIANTS
    GCTypeOK
    FlagsTellTruth
    PauseHonoured
    OwedIsRequested
PROPERTIES
    RequestsServed
    IsHandOff
