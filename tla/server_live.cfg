SPECIFICATION SFairSpec
CONSTANTS
    s1 = s1
    s2 = s2
    p1 = p1
    small = small
    Sessions = {s1, s2}
    NoSession = NoSession
    Paths = {p1}
    Contents = {small}
    Gone = Gone
    Size <- OneUnit
    Mode <- BothWrite
    MaxBytes = 2
    Limit = 2
    CloudEdits <- SmallEdits
    Faulty = FALSE
    MaxRev = 2
    MaxCrash = 1
    MayStray = {s2}
    MaxStray = 1
INVARIANTS
    ReconcileRecorded
PROPERTIES
    EventuallyReconciled
    EveryRequestEnds
