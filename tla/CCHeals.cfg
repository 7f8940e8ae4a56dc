SPECIFICATION ControlFairSpec
CONSTANTS
    Repos = {r1}
    Digests = {d1}
    Tags = {v1}
    NoTag = NoTag
    NoDigest = NoDigest
    ProtectedRepos = {}
    ProtectedTags = {}
    UnusedDays = 1
    MinCacheAgeDays = 1
    MaxWait = 1
    MaxClock = 2
    BrokenTags = {}
    Syncers = {s1}
    DryRunConfig = FALSE
    MaxDeleteBatch = 1
    MaxRequired = 0
    MaxEvents = 2
    MaxChanges = 2
    MaxFaults = 1
PROPERTIES
    CatalogHeals
