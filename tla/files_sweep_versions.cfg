SPECIFICATION Spec
CONSTANTS
    r1 = r1
    r2 = r2
    Workers <- Workers1
    NOrgs = 0
    Workloads <- SweepLoads
    Faults <- NoFaults
    MaxId = 2
    MaxFaults = 0
    MaxMovers = 1
    IterLimit = 9
INVARIANTS
    VersionIsBacked
