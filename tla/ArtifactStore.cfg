SPECIFICATION StoreSpec
CONSTANTS
    Repos = {r1}
    Digests = {d1, d2}
    Tags = {v1, stable}
    NoTag = NoTag
    ProtectedRepos = {}
    ProtectedTags = {stable}
    UnusedDays = 1
    MinCacheAgeDays = 1
    MaxWait = 1
    MaxClock = 2
SYMMETRY DigestSymmetry
INVARIANTS
    StoreTypeOK
    AgesOrdered
    TagIndexed
PROPERTIES
    MarksStick
    TombstonesStay
