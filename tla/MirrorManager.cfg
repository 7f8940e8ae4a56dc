SPECIFICATION ManagerFairSpec
CONSTANTS
    m1 = m1
    m2 = m2
    m3 = m3
    NoMirror = NoMirror
    Mirrors = {m1, m2, m3}
    OwnMirrors = {m3}
    Overlap = FALSE
    MaxRuns = 4
    MaxEdits = 2
    MaxFaults = 2
CHECK_DEADLOCK FALSE
INVARIANTS
    ManagerTypeOK
    UndoIsPossible
    OriginalKept
    ScheduledCanRun
    RolledBackIsClean
PROPERTIES
    RollbackHappens
