SPECIFICATION Spec
CONSTANTS
    r1 = r1
    r2 = r2
    Requests <- TheRequests
    Workloads <- TheWorkloads
    LockAfter = 2
    Batch = 2
    MaxSecrets = 3
    MaxCodes = 6
SYMMETRY Symmetry
CHECK_DEADLOCK FALSE
INVARIANTS
    TypeOK
    EnabledSecretIsProved
    CodeSpendsBounded
    GuessesBounded
PROPERTIES
    AdminLockHolds
