\* The console's requests and its session table.
SPECIFICATION SessionsSpec
SYMMETRY Symmetry
CONSTANTS
    Requests = {r1, r2}
    TTL = 2
    Refresh = 1
    LockFor = 1
    MaxAttempts = 2
    MaxTokens = 2
    MaxChanges = 1
INVARIANTS
    SessionsTypeOK
    EndedStaysOut
    HeldRowIsOwn
    CookieCovered
    OldSessionsEnd
    FailuresLock
