SPECIFICATION Spec
CONSTANTS
    r1 = r1
    r2 = r2
    t1 = t1
    Requests <- Requests2
    Resets <- Resets1
    LockAt = 2
    BumpsOverlap = TRUE
    MaxAccounts = 2
    MaxHashes = 3
    MaxVersion = 1
INVARIANTS
    EndedStaysEnded
