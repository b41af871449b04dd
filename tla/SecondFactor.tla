----------------------------- MODULE SecondFactor -----------------------------
(***************************************************************************)
(* Signing in to one account with a password and a second factor: setting  *)
(* the second factor up, its recovery codes (mfa.rs), and how failed       *)
(* attempts lock the account (login in auth.rs, the administrator's lock   *)
(* and unlock).  Accounts models what becomes of the session afterwards.   *)
(*                                                                         *)
(* Every handler reads the row of users, works on what it read, and stores *)
(* some columns.  A TOTP secret and a recovery code are numbers; whether   *)
(* the caller knows a password, a secret or a code is the caller's choice. *)
(***************************************************************************)
EXTENDS Naturals, FiniteSets

CONSTANTS
    Requests,   \* requests that may run at the same time
    Workloads,  \* the workloads, one of which a behaviour takes
    LockAfter,  \* failures that lock the account (5 in the code)
    Batch,      \* recovery codes in a set (10 in the code)
    MaxSecrets, \* bound: secrets ever generated
    MaxCodes    \* bound: codes ever generated

ASSUME SecondFactorAssumption ==
    /\ LockAfter \in Nat \ {0} /\ Batch \in Nat \ {0}
    /\ MaxSecrets \in Nat /\ MaxCodes \in Nat /\ Batch <= MaxCodes
    /\ IsFiniteSet(Requests)
    /\ Workloads \subseteq
         [ops : SUBSET STRING, requests : Nat, enrolled : BOOLEAN]

VARIABLES
    row,      \* the row of users: enabled, secret, fails, lock
    codes,    \* mfa_recovery: code -> whether it is used
    reqs,     \* local state of each request
    load,     \* the workload: operations, requests that may still start
    secrets,  \* secrets generated so far; numbers the next one
    minted,   \* recovery codes generated so far; numbers the next one
    proved,   \* secrets of which an activation saw a code (history)
    stale,    \* did setup requests overtake one another? (history)
    spent,    \* code -> logins it was accepted for (history)
    guesses   \* failures stored since a success, an unlock or a lock's end
              \* (history)

vars == <<row, codes, reqs, load, secrets, minted, proved, stale, spent, guesses>>

Idle == [pc |-> "idle"]
NoSecret == 0

Start(r, op) ==
    /\ op \in load.ops
    /\ reqs[r] = Idle
    /\ load.requests > 0
    /\ load' = [load EXCEPT !.requests = @ - 1]

Goto(r, state) == reqs' = [reqs EXCEPT ![r] = state]
Finish(r) == Goto(r, Idle)

\* An early return, an error, a client that left or a server that stopped.
Abort(r) ==
    /\ reqs[r] # Idle
    /\ Finish(r)
    /\ UNCHANGED <<row, codes, load, secrets, minted, proved, stale, spent, guesses>>

-----------------------------------------------------------------------------
(* Setting the second factor up.  Another setup request may have stored    *)
(* its result since this one read the row: stale remembers that.           *)

Overtaken(q) == <<q.row.enabled, q.row.secret>> # <<row.enabled, row.secret>>

\* POST /mfa/enroll
EnrollRead(r) ==
    /\ Start(r, "enroll")
    /\ ~row.enabled
    /\ secrets < MaxSecrets
    /\ secrets' = secrets + 1
    /\ Goto(r, [pc |-> "enroll", row |-> row, secret |-> secrets'])
    /\ UNCHANGED <<row, codes, minted, proved, stale, spent, guesses>>

Enroll(r) ==
    LET q == reqs[r] IN
    /\ q.pc = "enroll"
    /\ row' = [row EXCEPT !.secret = q.secret]
    /\ stale' = (stale \/ Overtaken(q))
    /\ Finish(r)
    /\ UNCHANGED <<codes, load, secrets, minted, proved, spent, guesses>>

\* Mutant: any code will do.
ActivateUnchecked(r) ==
    /\ Start(r, "activate")
    /\ ~row.enabled /\ row.secret # NoSecret
    /\ Goto(r, [pc |-> "activate", row |-> row])
    /\ UNCHANGED <<row, codes, secrets, minted, proved, stale, spent, guesses>>

\* Mutant: nothing was enrolled.
ActivateWithout(r) ==
    /\ Start(r, "activate")
    /\ ~row.enabled
    /\ proved' = proved \cup {row.secret}
    /\ Goto(r, [pc |-> "activate", row |-> row])
    /\ UNCHANGED <<row, codes, secrets, minted, stale, spent, guesses>>

\* POST /mfa/activate and /mfa/disable test a code against the secret that
\* they read; a wrong one is an early return.
ActivateRead(r) ==
    /\ Start(r, "activate")
    /\ ~row.enabled /\ row.secret # NoSecret
    /\ proved' = proved \cup {row.secret}
    /\ Goto(r, [pc |-> "activate", row |-> row])
    /\ UNCHANGED <<row, codes, secrets, minted, stale, spent, guesses>>

DisableRead(r) ==
    /\ Start(r, "disable")
    /\ row.enabled /\ row.secret # NoSecret
    /\ Goto(r, [pc |-> "disable", row |-> row])
    /\ UNCHANGED <<row, codes, secrets, minted, proved, stale, spent, guesses>>

\* Activating leaves the secret alone; disabling forgets it and keeps the
\* recovery codes.
Switch(r) ==
    LET q == reqs[r] IN
    /\ \/ q.pc = "activate" /\ row' = [row EXCEPT !.enabled = TRUE]
       \/ /\ q.pc = "disable"
          /\ row' = [row EXCEPT !.enabled = FALSE, !.secret = NoSecret]
    /\ stale' = (stale \/ Overtaken(q))
    /\ Finish(r)
    /\ UNCHANGED <<codes, load, secrets, minted, proved, spent, guesses>>

-----------------------------------------------------------------------------
(* POST /mfa/recovery-codes deletes the old codes, then inserts the new    *)
(* ones one by one; nothing holds the set together.                        *)

DeleteCodes(r) ==
    /\ Start(r, "generate")
    /\ row.enabled
    /\ codes' = [c \in {} |-> FALSE]
    /\ Goto(r, [pc |-> "insert_codes", todo |-> Batch])
    /\ UNCHANGED <<row, secrets, minted, proved, stale, spent, guesses>>

InsertCode(r) ==
    LET q == reqs[r] IN
    /\ q.pc = "insert_codes"
    /\ minted < MaxCodes
    /\ minted' = minted + 1
    /\ codes' = [c \in DOMAIN codes \cup {minted'} |->
                   c # minted' /\ codes[c]]
    /\ IF q.todo = 1 THEN Finish(r) ELSE Goto(r, [q EXCEPT !.todo = @ - 1])
    /\ UNCHANGED <<row, load, secrets, proved, stale, spent, guesses>>

-----------------------------------------------------------------------------
(* POST /auth/login *)

\* locked_until is in the future.
Locked(u) == u.lock \in {"timed", "admin"}

\* Mutant: the lock is not looked at.
LoginReadLocked(r) ==
    /\ Start(r, "login")
    /\ Goto(r, [pc |-> "verify", row |-> row])
    /\ UNCHANGED <<row, codes, secrets, minted, proved, stale, spent, guesses>>

LoginRead(r) ==
    /\ Start(r, "login")
    /\ ~Locked(row)
    /\ Goto(r, [pc |-> "verify", row |-> row])
    /\ UNCHANGED <<row, codes, secrets, minted, proved, stale, spent, guesses>>

Verdict(r, pc) == Goto(r, [reqs[r] EXCEPT !.pc = pc])

\* A wrong password, or the wrong second factor for the row that was read.
VerifyFails(r) ==
    /\ reqs[r].pc = "verify"
    /\ Verdict(r, "fail")
    /\ UNCHANGED <<row, codes, load, secrets, minted, proved, stale, spent, guesses>>

\* The right password, and a TOTP code if the row that was read asks for one.
VerifyTotp(r) ==
    LET u == reqs[r].row IN
    /\ reqs[r].pc = "verify"
    /\ u.enabled => u.secret # NoSecret
    /\ Verdict(r, "succeed")
    /\ UNCHANGED <<row, codes, load, secrets, minted, proved, stale, spent, guesses>>

\* Mutant: a code that was used is still found.
FindCodeUsed(r) ==
    LET q == reqs[r] IN
    /\ q.pc = "verify" /\ q.row.enabled
    /\ \E c \in DOMAIN codes : Goto(r, [pc |-> "mark", row |-> q.row, code |-> c])
    /\ UNCHANGED <<row, codes, load, secrets, minted, proved, stale, spent, guesses>>

\* consume_recovery, which comes after a TOTP code that did not fit.
FindCode(r) ==
    LET q == reqs[r] IN
    /\ q.pc = "verify" /\ q.row.enabled
    /\ \E c \in DOMAIN codes :
         /\ ~codes[c]
         /\ Goto(r, [pc |-> "mark", row |-> q.row, code |-> c])
    /\ UNCHANGED <<row, codes, load, secrets, minted, proved, stale, spent, guesses>>

\* used_at is stored if the code's row is still there, used or not; otherwise
\* the UPDATE fails, and the login with it: an Abort.
MarkCode(r) ==
    LET q == reqs[r] IN
    /\ q.pc = "mark" /\ q.code \in DOMAIN codes
    /\ codes' = [codes EXCEPT ![q.code] = TRUE]
    /\ spent' = [spent EXCEPT ![q.code] = @ + 1]
    /\ Goto(r, [pc |-> "succeed", row |-> q.row])
    /\ UNCHANGED <<row, load, secrets, minted, proved, stale, guesses>>

\* Mutant: the failure is not counted.
FailUncounted(r) ==
    /\ reqs[r].pc = "fail"
    /\ guesses' = guesses + 1
    /\ Finish(r)
    /\ UNCHANGED <<row, codes, load, secrets, minted, proved, stale, spent>>

\* The count is one more than was read, and locked_until is stored in any
\* case: below the limit as it was read, when the account was not locked.
Fail(r) ==
    LET count == reqs[r].row.fails + 1 IN
    /\ reqs[r].pc = "fail"
    /\ row' = [row EXCEPT !.fails = count,
                          !.lock = IF count >= LockAfter THEN "timed"
                                   ELSE reqs[r].row.lock]
    /\ guesses' = guesses + 1
    /\ Finish(r)
    /\ UNCHANGED <<codes, load, secrets, minted, proved, stale, spent>>

\* Counter and lock are reset if the row that was read had a failure, or a
\* lock that was over.  An UPDATE that fails is ignored, which is an Abort.
Succeed(r) ==
    /\ reqs[r].pc = "succeed"
    /\ IF reqs[r].row.fails # 0 \/ reqs[r].row.lock # "none"
       THEN row' = [row EXCEPT !.fails = 0, !.lock = "none"] /\ guesses' = 0
       ELSE UNCHANGED <<row, guesses>>
    /\ Finish(r)
    /\ UNCHANGED <<codes, load, secrets, minted, proved, stale, spent>>

\* The fifteen minutes of a lock are over; count and column stay as they are.
LockExpires ==
    /\ row.lock = "timed"
    /\ row' = [row EXCEPT !.lock = "over"]
    /\ guesses' = 0
    /\ UNCHANGED <<codes, reqs, load, secrets, minted, proved, stale, spent>>

-----------------------------------------------------------------------------
(* POST /admin/users/{id}/lock, for ten years, and /unlock.  They read the *)
(* row, but none of the columns that matter here.                          *)

AdminLock(r) ==
    /\ Start(r, "lock")
    /\ row' = [row EXCEPT !.lock = "admin"]
    /\ UNCHANGED <<codes, reqs, secrets, minted, proved, stale, spent, guesses>>

AdminUnlock(r) ==
    /\ Start(r, "unlock")
    /\ row' = [row EXCEPT !.lock = "none", !.fails = 0]
    /\ guesses' = 0
    /\ UNCHANGED <<codes, reqs, secrets, minted, proved, stale, spent>>

-----------------------------------------------------------------------------
\* A workload begins with an account without a second factor, or with one
\* that was enrolled and has a set of codes.
Init ==
    /\ load \in Workloads
    /\ row = [enabled |-> load.enrolled, fails |-> 0, lock |-> "none",
              secret |-> IF load.enrolled THEN 1 ELSE NoSecret]
    /\ secrets = row.secret
    /\ proved = IF load.enrolled THEN {1} ELSE {}
    /\ minted = IF load.enrolled THEN Batch ELSE 0
    /\ codes = [c \in 1..minted |-> FALSE]
    /\ reqs = [r \in Requests |-> Idle]
    /\ stale = FALSE
    /\ spent = [c \in 1..MaxCodes |-> 0]
    /\ guesses = 0

Next ==
    \/ \E r \in Requests :
         \/ EnrollRead(r) \/ Enroll(r) \/ ActivateRead(r) \/ DisableRead(r)
         \/ Switch(r) \/ DeleteCodes(r) \/ InsertCode(r)
         \/ LoginRead(r) \/ VerifyFails(r) \/ VerifyTotp(r) \/ FindCode(r)
         \/ MarkCode(r) \/ Fail(r) \/ Succeed(r)
         \/ AdminLock(r) \/ AdminUnlock(r) \/ Abort(r)
    \/ LockExpires

Spec == Init /\ [][Next]_vars

-----------------------------------------------------------------------------
(* Properties *)

TypeOK ==
    /\ row \in [enabled : BOOLEAN, secret : 0..secrets, fails : Nat,
                lock : {"none", "timed", "over", "admin"}]
    /\ DOMAIN codes \subseteq 1..minted
    /\ \A c \in DOMAIN codes : codes[c] \in BOOLEAN
    /\ proved \subseteq 1..secrets

\* An account that asks for a second factor asks for one whose owner has
\* shown a code of it, unless setup requests overtook one another.
EnabledSecretIsProved ==
    row.enabled /\ ~stale => row.secret \in proved

\* A recovery code lets in no more logins than can look it up at the same
\* time: once it is marked nobody finds it again, not even after the set was
\* replaced while logins were on their way.
CodeSpendsBounded ==
    \A c \in 1..MaxCodes : spent[c] <= Cardinality(Requests)

\* How the overlapping logins stand: for each count below the limit, how many
\* requests can still put the counter back to at most that count.
Ladders ==
    {v \in [0..(LockAfter - 1) -> 0..Cardinality(Requests)] :
       \A i, j \in DOMAIN v : i <= j => v[i] <= v[j]}

\* However failing logins overlap, fewer of them get an answer before the
\* account is locked for good than there are ladders, LockAfter + n over n for
\* n requests: a login that read the row early puts the counter back, but never
\* below what it read plus one, and can do so once.
GuessesBounded == guesses < Cardinality(Ladders)

\* An administrator's lock is lifted by an administrator only, or by a login
\* that had read the row before it was locked.
AdminLockHolds ==
    [][row.lock = "admin" /\ row'.lock # "admin" =>
         \/ load'.requests < load.requests
         \/ \E r \in Requests : /\ reqs[r].pc \in {"fail", "succeed"}
                                /\ ~Locked(reqs[r].row)
                                /\ reqs'[r] = Idle]_vars
===============================================================================
