SPECIFICATION Spec
CONSTANTS
    s1 = s1
    s2 = s2
    p1 = p1
    p2 = p2
    small = small
    large = large
    Sessions = {s1, s2}
    NoSession = NoSession
    Paths = {p1, p2}
    Contents = {small, large}
    Gone = Gone
    Size <- SizeOfContent
    Mode <- OneCleans
    MaxBytes = 2
    Limit = 3
    CloudEdits <- NoEdits
    Faulty = FALSE
    MaxRev = 2
    MaxCrash = 0
INVARIANTS
    NoFalseCloudVersion
    GetNotStale
PROPERTIES
    PutRespectsQuota
    CleanupOnlyShrinks
