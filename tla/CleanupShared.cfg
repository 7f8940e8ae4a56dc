SPECIFICATION CleanupSpec
CONSTANTS
    t1 = t1
    t2 = t2
    d1 = d1
    d2 = d2
    i1 = i1
    i2 = i2
    i3 = i3
    Targets = {t1, t2}
    Disks = {d1, d2}
    DiskOf <- OneDisk
    Total <- SharedTotals
    Other <- SharedOthers
    Items = {i1, i2, i3}
    TargetOf <- CacheOf
    Tagged = {i1, i2}
    Size <- Sizes
    Rank <- Ranks
    Stuck = {}
    LowWatermarkPct = 20
    TargetFreePct = 35
    EmergencyFreePct = 10
    MaxDeleteBatch = 3
    MaxChanges = 0
    MaxFaults = 0
INVARIANTS
    TargetIsEnough
