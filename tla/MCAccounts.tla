----------------------------- MODULE MCAccounts -----------------------------
(* Instances of Accounts for TLC. *)
EXTENDS Accounts, TLC

CONSTANTS r1, r2, t1

Requests2 == {r1, r2}
Resets1 == {t1}
Symmetry == Permutations(Requests2)
==============================================================================
