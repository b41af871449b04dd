---------------------------- MODULE MCAuditChain ----------------------------
(* Instances of AuditChain for TLC. *)
EXTENDS AuditChain, TLC

CONSTANTS w1, w2, w3, k1, k2

Writers2 == {w1, w2}
Writers3 == {w1, w2, w3}
NoKeepers == {}
Keepers1 == {k1}
Keepers2 == {k1, k2}
Symmetry == Permutations(Writers2)
Symmetry3 == Permutations(Writers3)
==============================================================================
