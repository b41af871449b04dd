----------------------------- MODULE MCWebhooks -----------------------------
(* An instance of Webhooks for TLC. *)
EXTENDS Webhooks

CONSTANTS s1, p1, x1, e1, e2, h1

Servers1 == {s1}
Peers1 == {p1}
Sockets1 == {x1}
Events1 == {e1}
Events2 == {e1, e2}
Hooks1 == {h1}
==============================================================================
