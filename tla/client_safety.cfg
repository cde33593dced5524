SPECIFICATION Spec
CONSTANTS
    d1 = d1
    d2 = d2
    p1 = p1
    p2 = p2
    p3 = p3
    x = x
    y = y
    Gone = Gone
    NoSha = NoSha
    Devices = {d1, d2}
    Paths = {p1, p2, p3}
    Contents = {x, y}
    Mode <- AllWrite
    UserEdits <- AnyEdit
    CloudEdits <- AnyEdit
    MaxEdits = 3
    MaxFaults = 1
    MaxRev = 3
\* The bound on the revisions stops the rounds.
CONSTRAINT Small
SYMMETRY Symmetry
CHECK_DEADLOCK FALSE
INVARIANTS
    TypeOK
    BaselineMatchesVersion
PROPERTIES
    NoBlindOverwrite
    LocalEditsSurvive
    NoRollback
