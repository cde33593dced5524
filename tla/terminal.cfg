SPECIFICATION FairSpec
CONSTANTS
    pa = pa
    pb = pb
    c1 = c1
    c2 = c2
    NoProject = NoProject
    NoClient = NoClient
    Projects = {pa, pb}
    Clients = {c1, c2}
    ProjectOf <- OneEach
    MaxConns = 2
    MaxQuota = 1
    MaxFaults = 1
    MaxStarts = 2
INVARIANTS
    TypeOK
    TerminalsRegistered
PROPERTIES
    OthersUnharmed
    OverQuotaClosed
    HandlersEnd
