SPECIFICATION Spec
CONSTANTS
    r1 = r1
    r2 = r2
    Workers <- Workers2
    NOrgs = 1
    Workloads <- SafetyLoads
    Faults <- CallFaults
    MaxId = 4
    MaxFaults = 1
    MaxMovers = 1
    IterLimit = 9
SYMMETRY Symmetry
INVARIANTS
    TypeOK
    RowIsBacked
    LiveRowIsBacked
    VersionIsBackedAtRest
PROPERTIES
    ImplementsCatalogue
    HistoryKeepsContent
