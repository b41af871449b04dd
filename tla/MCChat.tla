-------------------------------- MODULE MCChat --------------------------------
(* Requests of Chat for TLC; no symmetry, for the sake of liveness. *)
EXTENDS Chat

CONSTANTS r1, r2

TheRequests == {r1, r2}
===============================================================================
