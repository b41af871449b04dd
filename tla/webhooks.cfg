SPECIFICATION FairSpec
CONSTANTS
    s1 = s1
    p1 = p1
    x1 = x1
    e1 = e1
    e2 = e2
    h1 = h1
    Servers <- Servers1
    Peers <- Peers1
    Sockets <- Sockets1
    Events <- Events2
    FileEvents <- Events1
    Hooks <- Hooks1
    Capacity = 1
    MaxSent = 2
    Attempts = 2
    DisableAt = 2
INVARIANTS
    TypeOK
    EnabledBelowLimit
PROPERTIES
    OffHookGoesQuiet
    OpenSocketIsServed
