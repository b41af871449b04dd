----------------------------- MODULE MCEventBus -----------------------------
(* Instances of EventBus for TLC. *)
EXTENDS EventBus

CONSTANTS s1, s2, p1, x1, e1, e2

Servers1 == {s1}
Servers2 == {s1, s2}
NoPeers == {}
Peers1 == {p1}
Sockets1 == {x1}
Events1 == {e1}
Events2 == {e1, e2}
==============================================================================
