SPECIFICATION Spec
CONSTANTS
    s1 = s1
    s2 = s2
    p1 = p1
    p2 = p2
    small = small
    large = large
    Sessions = {s1, s2}
    NoSession = NoSession
    Paths = {p1}
    Contents = {small, large}
    Gone = Gone
    Size <- SizeOfContent
    Mode <- BothWrite
    MaxBytes = 2
    Limit = 2
    CloudEdits <- AnyEdit
    Faulty = TRUE
    MaxRev = 2
    MaxCrash = 1
INVARIANTS
    TypeOK
    CriticalSection
    IndexIsNewest
    CasWinner
    AckIsVersion
    TempsBounded
PROPERTY
    Refinement
