---------------------------- MODULE MCSecondFactor ----------------------------
(* Workloads of SecondFactor for TLC. *)
EXTENDS SecondFactor, TLC, Combinatorics

CONSTANTS r1, r2

TheRequests == {r1, r2}
Symmetry == Permutations(TheRequests)

\* Passwords are guessed, with and without an administrator looking on.
GuessLoad == [ops |-> {"login"}, requests |-> 8, enrolled |-> FALSE]
AdminLoad == [ops |-> {"login", "lock", "unlock"}, requests |-> 5, enrolled |-> FALSE]

\* The second factor is set up and removed while logins go on.
SetupLoad ==
    [ops |-> {"enroll", "activate", "disable", "login"}, requests |-> 6,
     enrolled |-> FALSE]

\* Recovery codes are used and replaced.
CodesLoad ==
    [ops |-> {"generate", "login"}, requests |-> 5, enrolled |-> TRUE]

TheWorkloads == {GuessLoad, AdminLoad, SetupLoad, CodesLoad}

\* The bound of GuessesBounded as a number.
ASSUME LaddersCounted ==
    Cardinality(Ladders) = choose(LockAfter + Cardinality(Requests), LockAfter)
===============================================================================
