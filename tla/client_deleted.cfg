SPECIFICATION Spec
CONSTANTS
    d1 = d1
    d2 = d2
    p1 = p1
    p2 = p2
    p3 = p3
    x = x
    y = y
    Gone = Gone
    NoSha = NoSha
    Devices = {d1}
    Paths = {p1}
    Contents = {x, y}
    Mode <- AllWrite
    UserEdits <- AnyEdit
    CloudEdits <- AnyEdit
    MaxEdits = 3
    MaxFaults = 0
    MaxRev = 5
\* The bound on the revisions stops the rounds.
CHECK_DEADLOCK FALSE
PROPERTIES
    KeepServerVersion
