SPECIFICATION CleanupFairSpec
CONSTANTS
    t1 = t1
    t2 = t2
    d1 = d1
    d2 = d2
    i1 = i1
    i2 = i2
    i3 = i3
    Targets = {t1, t2}
    Disks = {d1, d2}
    DiskOf <- OwnDisks
    Total <- Totals
    Other <- Others
    Items = {i1, i2, i3}
    TargetOf <- CacheOf
    Tagged = {i1, i2}
    Size <- Sizes
    Rank <- Ranks
    Stuck = {i1}
    LowWatermarkPct = 20
    TargetFreePct = 35
    EmergencyFreePct = 10
    MaxDeleteBatch = 2
    MaxChanges = 2
    MaxFaults = 1
INVARIANTS
    CleanupTypeOK
    OneRun
    RunningRowsLive
    TargetIsEnough
    GarbageIsKnown
PROPERTIES
    UnusedSpaceReturns
