SPECIFICATION NamesFairSpec
CHECK_DEADLOCK FALSE
CONSTANTS
    hub = hub
    ghcr = ghcr
    GHCR = GHCR
    lib = lib
    app = app
    Segments = {hub, ghcr, GHCR, lib, app}
    Lower <- LowerOf
    UpstreamsJSON <- Configured
    d1 = d1
    d2 = d2
    Digests = {d1, d2}
    Tags = {latest}
    Repos <- RepoNames
    Legacy <- Earlier
    MaxTags = 2
    MaxEvents = 1
    MaxFaults = 2
INVARIANTS
    NamesTypeOK
    PulledIsAddressed
    RightCache
    NoRefusal
PROPERTIES
    AllComeUp
