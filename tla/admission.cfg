SPECIFICATION FairSpec
CONSTANTS
    a1 = a1
    a2 = a2
    c1 = c1
    c2 = c2
    s1 = s1
    s2 = s2
    caddy = caddy
    ControlApi = ControlApi
    NoAdmin = NoAdmin
    Admins = {a1, a2}
    Slugs = {s1, s2}
    Files = 2
    Clients = {c1, c2}
    CdkOf <- OneEach
    KeyOf <- BehindCaddy
    MaxAttempts = 1
    Window = 2
    SessionTTL = 3
    ConnTTL = 2
    Tries = 2
    MaxFaults = 2
    MaxStarts = 2
INVARIANTS
    TypeOK
    MigratedOnce
    RunsOnSchema
    CdkOpensProject
    LimiterBound
PROPERTIES
    RevocationHolds
    LimitedForCause
    ApiServes
    SyncRecovers
