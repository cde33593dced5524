SPECIFICATION Spec
CONSTANTS
    f1 = f1
    f2 = f2
    i1 = i1
    i2 = i2
    Files = {f1}
    Ids = {i1, i2}
    Lines <- FourLines
    Parse <- AlikeLines
    MaxLen = 4
    MaxRotate = 1
    MaxFaults = 1
INVARIANTS
    TypeOK
    NothingSkipped
PROPERTIES
    ScanCatchesUp
    CountedIsWritten
