------------------------------ MODULE Accounts ------------------------------
(***************************************************************************)
(* The account behind one email address: its row in users, the session     *)
(* cookies and API tokens out in the world, the password-reset tokens, and *)
(* the requests that are under way.                                        *)
(*                                                                         *)
(* A session cookie names the account and its session_version; raising the *)
(* version is how every session but the caller's is ended.  The handlers   *)
(* read the row, verify or hash a password on another thread, and then     *)
(* store the columns that they change, computed from the row they read.    *)
(*                                                                         *)
(* A password is known by its hash, which is fresh each time one is set.   *)
(* Whether a caller knows the password, and passes the second factor, is   *)
(* the caller's choice.  Left out: email verification, the profile, roles, *)
(* enrolling the second factor and its recovery codes.                     *)
(***************************************************************************)
EXTENDS Integers, FiniteSets

CONSTANTS
    Requests,      \* requests that can be under way together
    Resets,        \* password-reset tokens; fewer than the limit of 3 in 10 min
    LockAt,        \* failed logins that lock the account (5 in the code)
    BumpsOverlap,  \* may two requests that raise session_version overlap?
    MaxAccounts,   \* bound: accounts created for the address
    MaxHashes,     \* bound: passwords set
    MaxVersion     \* bound: no request raises session_version above it

ASSUME AccountsAssumption ==
    /\ LockAt \in Nat \ {0}
    /\ BumpsOverlap \in BOOLEAN
    /\ MaxAccounts \in Nat /\ MaxHashes \in Nat /\ MaxVersion \in Nat

VARIABLES
    acct,      \* the row of users with this address, or NoRow
    cookies,   \* the session cookies issued; signing out drops the caller's copy
               \* of its cookie and changes nothing here
    tokens,    \* the accounts that have an API token not revoked
    resets,    \* the state of each reset token; used or expired, it is "spent"
    procs,     \* the requests
    nextId,    \* the next account id
    nextHash   \* the next password hash

vars == <<acct, cookies, tokens, resets, procs, nextId, nextHash>>

NoRow == [id |-> 0, deleted |-> FALSE, hash |-> 0, version |-> 0,
          failed |-> 0, lock |-> "none"]

\* An account as signup and OAuth insert it.
NewRow == [NoRow EXCEPT !.id = nextId, !.hash = nextHash]

Exists == acct.id # 0

\* A cookie also remembers, for the properties, the password in force when its
\* row was read, and whether a request has since ended the open sessions.
Cookie(row) ==
    [uid |-> row.id, version |-> row.version, hash |-> row.hash, ended |-> FALSE]

Accepted(c) ==
    /\ c.uid = acct.id
    /\ c.version = acct.version
    /\ ~acct.deleted

Authenticated == acct.id \in tokens \/ \E c \in cookies : Accepted(c)

Ended == {[c EXCEPT !.ended = TRUE] : c \in cookies}

Idle == [op |-> "idle", uid |-> 0, row |-> NoRow, reset |-> {}]

\* Requests that raise session_version to one more than they read.
Bumps == {"change", "logout_all", "delete_me", "lock", "reset"}

BumpAllowed ==
    /\ BumpsOverlap \/ \A q \in Requests : procs[q].op \notin Bumps
    /\ acct.version < MaxVersion

-----------------------------------------------------------------------------
(* The steps that requests share *)

Start(r, op, uid, row, reset) ==
    /\ procs[r] = Idle
    /\ procs' = [procs EXCEPT ![r] =
                   [op |-> op, uid |-> uid, row |-> row, reset |-> reset]]

Finish(r) == procs' = [procs EXCEPT ![r] = Idle]

HasRead(r, op) == procs[r].op = op /\ procs[r].row # NoRow

\* The UPDATE finds the row that the request read.
Finds(r) == acct.id = procs[r].row.id

\* authenticate
BeginOwn(r, op) ==
    /\ op \in {"change", "logout_all", "delete_me"} /\ BumpAllowed
    /\ Exists /\ Authenticated
    /\ Start(r, op, acct.id, NoRow, {})
    /\ UNCHANGED <<acct, cookies, tokens, resets, nextId, nextHash>>

\* require_admin: the caller is another account.
BeginAdmin(r, op) ==
    /\ op \in {"lock", "unlock", "impersonate"} /\ (op = "lock" => BumpAllowed)
    /\ Exists
    /\ Start(r, op, acct.id, NoRow, {})
    /\ UNCHANGED <<acct, cookies, tokens, resets, nextId, nextHash>>

\* find_by_id
ReadRow(r) ==
    /\ procs[r].op \in Bumps \cup {"unlock", "impersonate"}
    /\ procs[r].row = NoRow
    /\ IF acct.id = procs[r].uid
       THEN procs' = [procs EXCEPT ![r].row = acct, ![r].uid = 0]
       ELSE Finish(r)
    /\ UNCHANGED <<acct, cookies, tokens, resets, nextId, nextHash>>

\* A request ends early: a check fails, its row is gone, a call fails, or the
\* client leaves and the handler is dropped where it waits.
Abort(r) ==
    /\ procs[r] # Idle
    /\ Finish(r)
    /\ UNCHANGED <<acct, cookies, tokens, resets, nextId, nextHash>>

-----------------------------------------------------------------------------
(* Signing up and signing in *)

\* The address is free if no account that is not deleted has it.
SignupRead(r) ==
    /\ ~Exists \/ acct.deleted
    /\ Start(r, "signup", 0, NoRow, {})
    /\ UNCHANGED <<acct, cookies, tokens, resets, nextId, nextHash>>

\* The unique index on the address refuses a second row, deleted or not.
Insert(r) ==
    /\ ~Exists /\ nextId <= MaxAccounts /\ nextHash <= MaxHashes
    /\ acct' = NewRow
    /\ cookies' = cookies \cup {Cookie(NewRow)}
    /\ nextId' = nextId + 1
    /\ nextHash' = nextHash + 1
    /\ Finish(r)
    /\ UNCHANGED <<tokens, resets>>

Signup(r) == procs[r].op = "signup" /\ Insert(r)

OAuthRead(r) ==
    /\ Start(r, "oauth", 0, acct, {})
    /\ UNCHANGED <<acct, cookies, tokens, resets, nextId, nextHash>>

\* A provider's account signs in whatever the row says, or gets a new one.
OAuthCallback(r) ==
    /\ procs[r].op = "oauth"
    /\ \/ /\ procs[r].row # NoRow
          /\ cookies' = cookies \cup {Cookie(procs[r].row)}
          /\ Finish(r)
          /\ UNCHANGED <<acct, tokens, resets, nextId, nextHash>>
       \/ procs[r].row = NoRow /\ Insert(r)

\* Mutant: the lock is not looked at.
LoginReadLocked(r) ==
    /\ Exists /\ ~acct.deleted
    /\ Start(r, "login", 0, acct, {})
    /\ UNCHANGED <<acct, cookies, tokens, resets, nextId, nextHash>>

LoginRead(r) ==
    /\ Exists /\ ~acct.deleted
    /\ acct.lock \notin {"timed", "admin"}
    /\ Start(r, "login", 0, acct, {})
    /\ UNCHANGED <<acct, cookies, tokens, resets, nextId, nextHash>>

\* Counts above LockAt act alike and are not told apart.
Failures(row) == IF row.failed < LockAt THEN row.failed + 1 ELSE LockAt

\* A wrong password or code.  The count and the lock come from the row read.
LoginFails(r) ==
    /\ HasRead(r, "login")
    /\ LET row == procs[r].row IN
       acct' = IF Finds(r)
               THEN [acct EXCEPT
                       !.failed = Failures(row),
                       !.lock = IF Failures(row) = LockAt THEN "timed" ELSE row.lock]
               ELSE acct
    /\ Finish(r)
    /\ UNCHANGED <<cookies, tokens, resets, nextId, nextHash>>

\* Mutant: every column that was read is written back.
ClearedWholeRow(row) ==
    IF acct.id = row.id /\ (row.failed # 0 \/ row.lock # "none")
    THEN [row EXCEPT !.failed = 0, !.lock = "none"] ELSE acct

\* The update of the row, when there is something to reset.
Cleared(row) ==
    IF acct.id = row.id /\ (row.failed # 0 \/ row.lock # "none")
    THEN [acct EXCEPT !.failed = 0, !.lock = "none"] ELSE acct

\* An update that fails is ignored: the cookie is granted all the same.
LoginSucceeds(r) ==
    /\ HasRead(r, "login")
    /\ acct' \in {Cleared(procs[r].row), acct}
    /\ cookies' = cookies \cup {Cookie(procs[r].row)}
    /\ Finish(r)
    /\ UNCHANGED <<tokens, resets, nextId, nextHash>>

-----------------------------------------------------------------------------
(* Requests that end sessions *)

Bumped(r) == [acct EXCEPT !.version = procs[r].row.version + 1]

\* Mutant: the sessions are not ended.
ChangePasswordOnly(r) ==
    /\ HasRead(r, "change") /\ Finds(r) /\ nextHash <= MaxHashes
    /\ acct' = [acct EXCEPT !.hash = nextHash]
    /\ cookies' = Ended \cup {Cookie(acct')}
    /\ nextHash' = nextHash + 1
    /\ Finish(r)
    /\ UNCHANGED <<tokens, resets, nextId>>

ChangePassword(r) ==
    /\ HasRead(r, "change") /\ Finds(r) /\ nextHash <= MaxHashes
    /\ acct' = [Bumped(r) EXCEPT !.hash = nextHash]
    /\ cookies' = Ended \cup {Cookie(acct')}
    /\ nextHash' = nextHash + 1
    /\ Finish(r)
    /\ UNCHANGED <<tokens, resets, nextId>>

LogoutAll(r) ==
    /\ HasRead(r, "logout_all") /\ Finds(r)
    /\ acct' = Bumped(r)
    /\ cookies' = Ended
    /\ Finish(r)
    /\ UNCHANGED <<tokens, resets, nextId, nextHash>>

DeleteMe(r) ==
    /\ HasRead(r, "delete_me") /\ Finds(r)
    /\ acct' = [Bumped(r) EXCEPT !.deleted = TRUE]
    /\ cookies' = Ended
    /\ Finish(r)
    /\ UNCHANGED <<tokens, resets, nextId, nextHash>>

LockUser(r) ==
    /\ HasRead(r, "lock") /\ Finds(r)
    /\ acct' = [Bumped(r) EXCEPT !.lock = "admin"]
    /\ cookies' = Ended
    /\ Finish(r)
    /\ UNCHANGED <<tokens, resets, nextId, nextHash>>

\* forgot_password
Forgot(t) ==
    /\ Exists /\ ~acct.deleted
    /\ resets[t] = "new"
    /\ resets' = [resets EXCEPT ![t] = "live"]
    /\ UNCHANGED <<acct, cookies, tokens, procs, nextId, nextHash>>

\* The token is looked up and checked; then the new password is hashed.
ResetRead(r, t) ==
    /\ BumpAllowed
    /\ resets[t] = "live"
    /\ Start(r, "reset", acct.id, NoRow, {t})
    /\ UNCHANGED <<acct, cookies, tokens, resets, nextId, nextHash>>

ResetPassword(r) ==
    /\ HasRead(r, "reset") /\ Finds(r) /\ nextHash <= MaxHashes
    /\ acct' = [Bumped(r) EXCEPT !.hash = nextHash]
    /\ cookies' = Ended
    /\ nextHash' = nextHash + 1
    /\ procs' = [procs EXCEPT ![r].op = "mark", ![r].row = acct']
    /\ UNCHANGED <<tokens, resets, nextId>>

\* The token is marked as used, unless it has been deleted, and the caller gets
\* a session.
ResetMark(r) ==
    /\ procs[r].op = "mark"
    /\ \A t \in procs[r].reset : resets[t] # "gone"
    /\ resets' = [t \in Resets |->
                    IF t \in procs[r].reset THEN "spent" ELSE resets[t]]
    /\ cookies' = cookies \cup {Cookie(procs[r].row)}
    /\ Finish(r)
    /\ UNCHANGED <<acct, tokens, nextId, nextHash>>

-----------------------------------------------------------------------------
(* Administration, API tokens, time and housekeeping *)

\* Mutant: every column that was read is written back.
UnlockUserWholeRow(r) ==
    /\ HasRead(r, "unlock") /\ Finds(r)
    /\ acct' = [procs[r].row EXCEPT !.lock = "none", !.failed = 0]
    /\ Finish(r)
    /\ UNCHANGED <<cookies, tokens, resets, nextId, nextHash>>

UnlockUser(r) ==
    /\ HasRead(r, "unlock") /\ Finds(r)
    /\ acct' = [acct EXCEPT !.lock = "none", !.failed = 0]
    /\ Finish(r)
    /\ UNCHANGED <<cookies, tokens, resets, nextId, nextHash>>

Impersonate(r) ==
    /\ HasRead(r, "impersonate")
    /\ cookies' = cookies \cup {Cookie(procs[r].row)}
    /\ Finish(r)
    /\ UNCHANGED <<acct, tokens, resets, nextId, nextHash>>

CreateToken ==
    /\ Exists /\ Authenticated
    /\ tokens' = tokens \cup {acct.id}
    /\ UNCHANGED <<acct, cookies, resets, procs, nextId, nextHash>>

RevokeToken ==
    /\ Exists /\ Authenticated
    /\ tokens' = tokens \ {acct.id}
    /\ UNCHANGED <<acct, cookies, resets, procs, nextId, nextHash>>

\* The row goes, and by the foreign keys its tokens with it.
Remove ==
    /\ acct' = NoRow
    /\ cookies' = Ended
    /\ tokens' = tokens \ {acct.id}
    /\ resets' = [t \in Resets |->
                    IF resets[t] = "new" THEN "new" ELSE "gone"]
    /\ UNCHANGED <<procs, nextId, nextHash>>

\* An administrator's delete_user.
DeleteUser == Exists /\ Remove

\* Housekeeping, USER_PURGE_GRACE_DAYS after the deletion.
PurgeUser == acct.deleted /\ Remove

\* 15 minutes pass.
LockPasses ==
    /\ acct.lock = "timed"
    /\ acct' = [acct EXCEPT !.lock = "past"]
    /\ UNCHANGED <<cookies, tokens, resets, procs, nextId, nextHash>>

\* 60 minutes pass.
ResetExpires(t) ==
    /\ resets[t] = "live"
    /\ resets' = [resets EXCEPT ![t] = "spent"]
    /\ UNCHANGED <<acct, cookies, tokens, procs, nextId, nextHash>>

\* Housekeeping deletes the tokens that are spent.
SweepResets ==
    /\ resets' = [t \in Resets |->
                    IF resets[t] = "spent" THEN "gone" ELSE resets[t]]
    /\ UNCHANGED <<acct, cookies, tokens, procs, nextId, nextHash>>

-----------------------------------------------------------------------------
Init ==
    /\ acct = NoRow
    /\ cookies = {}
    /\ tokens = {}
    /\ resets = [t \in Resets |-> "new"]
    /\ procs = [r \in Requests |-> Idle]
    /\ nextId = 1
    /\ nextHash = 1

Step(r) ==
    \/ \E op \in {"change", "logout_all", "delete_me"} : BeginOwn(r, op)
    \/ \E op \in {"lock", "unlock", "impersonate"} : BeginAdmin(r, op)
    \/ ReadRow(r) \/ Abort(r)
    \/ SignupRead(r) \/ Signup(r) \/ OAuthRead(r) \/ OAuthCallback(r)
    \/ LoginRead(r) \/ LoginFails(r) \/ LoginSucceeds(r)
    \/ ChangePassword(r) \/ LogoutAll(r) \/ DeleteMe(r)
    \/ LockUser(r) \/ UnlockUser(r) \/ Impersonate(r)
    \/ \E t \in Resets : ResetRead(r, t)
    \/ ResetPassword(r) \/ ResetMark(r)

Next ==
    \/ \E r \in Requests : Step(r)
    \/ \E t \in Resets : Forgot(t) \/ ResetExpires(t)
    \/ CreateToken \/ RevokeToken
    \/ DeleteUser \/ PurgeUser \/ LockPasses \/ SweepResets

Spec == Init /\ [][Next]_vars

-----------------------------------------------------------------------------
(* Properties *)

RowSet ==
    [id : Nat, deleted : BOOLEAN, hash : Nat, version : Nat, failed : 0..LockAt,
     lock : {"none", "past", "timed", "admin"}]

CookieSet == [uid : Nat, version : Nat, hash : Nat, ended : BOOLEAN]

ProcSet ==
    [op : Bumps \cup {"idle", "signup", "oauth", "login", "mark", "unlock",
                      "impersonate"},
     uid : Nat, row : RowSet, reset : SUBSET Resets]

\* The state keeps its shape, and a login that goes on read a row whose lock,
\* if any, had passed.
TypeOK ==
    /\ acct \in RowSet
    /\ cookies \subseteq CookieSet
    /\ tokens \subseteq Nat
    /\ resets \in [Resets -> {"new", "live", "spent", "gone"}]
    /\ procs \in [Requests -> ProcSet]
    /\ nextId \in Nat \ {0} /\ nextHash \in Nat \ {0}
    /\ \A r \in Requests :
         procs[r].op = "login" => procs[r].row.lock \in {"none", "past"}

\* Once a password change, a reset, a sign-out everywhere, a lock or a removal
\* has ended the sessions that were open, none of them is accepted again, even
\* in a later account with the same address.
EndedStaysEnded == \A c \in cookies : c.ended => ~Accepted(c)

\* A session is accepted only if it was granted while the password now in force
\* was: a sign-in that verified the old password and answers after the change
\* does not open a session.
SessionIsCurrent == \A c \in cookies : Accepted(c) => c.hash = acct.hash

\* A deleted account does not come back: it stays deleted until it is removed,
\* whatever requests that read it before the deletion store after it.
DeletedStaysDeleted ==
    [][acct.deleted => acct'.deleted \/ acct' = NoRow]_vars
==============================================================================
