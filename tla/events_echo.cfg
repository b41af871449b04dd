SPECIFICATION BusSpec
CONSTANTS
    s1 = s1
    s2 = s2
    p1 = p1
    x1 = x1
    e1 = e1
    e2 = e2
    Servers <- Servers2
    Peers <- NoPeers
    Sockets <- Sockets1
    Events <- Events2
    Capacity = 2
    MaxSent = 3
INVARIANT EventsOnce
