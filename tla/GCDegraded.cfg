SPECIFICATION GCSpec
CONSTANTS
    NTargets = 1
    Callers = {c1}
    Broken = {}
    Healths = {"ok", "mirror", "upstream"}
    MaxFaults = 0
INVARIANTS
    DegradedSkips
