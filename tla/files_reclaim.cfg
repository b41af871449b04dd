SPECIFICATION FairSpec
CONSTANTS
    r1 = r1
    r2 = r2
    Workers <- Workers1
    NOrgs = 1
    Workloads <- OrphanLoads
    Faults <- AllFaults
    MaxId = 3
    MaxFaults = 1
    MaxMovers = 1
    IterLimit = 9
PROPERTIES
    OrphanReclaimed
