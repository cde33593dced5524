SPECIFICATION FairSpec
CONSTANTS
    pa = pa
    pb = pb
    c1 = c1
    c2 = c2
    NoProject = NoProject
    NoClient = NoClient
    Projects = {pa}
    Clients = {c1}
    ProjectOf <- Alone
    MaxConns = 1
    MaxQuota = 2
    MaxFaults = 0
    MaxStarts = 1
PROPERTY
    ReturnsToNormal
