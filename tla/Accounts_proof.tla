-------------------------- MODULE Accounts_proof --------------------------
(***************************************************************************)
(* Ended sessions stay ended, and a session belongs to the password in     *)
(* force, for any number of requests, accounts, passwords and versions, if *)
(* requests that raise session_version do not overlap.                     *)
(*                                                                         *)
(* The argument: session_version, as requests and cookies know it, is that *)
(* of the row or older (RowsInv, CookiesInv); the request about to raise it *)
(* knows the present one (BumpInv), so that it does grow; and a cookie of  *)
(* the present version was granted under the present password, and was not *)
(* there when sessions were last ended.                                    *)
(***************************************************************************)
EXTENDS Accounts, TLAPS

\* Ids are handed out in order.
IdsInv ==
    /\ acct.id < nextId
    /\ acct = NoRow \/ acct.id # 0
    /\ \A c \in cookies : c.uid # 0 /\ c.uid < nextId
    /\ \A r \in Requests : procs[r].row.id < nextId

\* A row that was read is not ahead of the present one of the same account, and
\* has its password if it has its version.
Behind(row) ==
    row.id = acct.id =>
      /\ row.version <= acct.version
      /\ row.version = acct.version => row.hash = acct.hash

RowsInv ==
    \A r \in Requests :
      /\ procs[r].row # NoRow => procs[r].row.id # 0 /\ Behind(procs[r].row)
      /\ procs[r].op = "mark" => procs[r].row # NoRow

CookiesInv ==
    \A c \in cookies :
      c.uid = acct.id =>
        /\ c.version <= acct.version
        /\ c.version = acct.version => c.hash = acct.hash
        /\ c.ended => c.version < acct.version

\* Only one request is about to raise the version, and it knows the version.
BumpInv ==
    /\ \A q, r \in Requests :
         procs[q].op \in Bumps /\ procs[r].op \in Bumps => q = r
    /\ \A r \in Requests :
         procs[r].op \in Bumps /\ procs[r].row # NoRow /\ procs[r].row.id = acct.id
           => procs[r].row.version = acct.version

Inv == IdsInv /\ RowsInv /\ CookiesInv /\ BumpInv

IInv == TypeOK /\ Inv

-----------------------------------------------------------------------------
\* The requests keep their shape.
ProcsOK ==
    /\ procs \in [Requests -> ProcSet]
    /\ \A r \in Requests :
         procs[r].op = "login" => procs[r].row.lock \in {"none", "past"}

\* The empty row, and what is built from a row.
LEMMA RowTypes ==
    ASSUME TypeOK
    PROVE  /\ NoRow \in RowSet /\ NoRow.id = 0 /\ NewRow \in RowSet
           /\ Idle \in ProcSet /\ Idle.row = NoRow /\ Idle.op = "idle"
           /\ Ended \subseteq CookieSet
           /\ \A row \in RowSet : Cookie(row) \in CookieSet
           /\ \A r \in Requests : procs[r].row \in RowSet
           /\ acct.id \in Nat
<1> USE AccountsAssumption DEF RowSet
<1>1. NoRow \in RowSet /\ NoRow.id = 0
  BY DEF NoRow
<1>2. NewRow \in RowSet
  BY <1>1 DEF TypeOK, NewRow
<1>3. Idle \in ProcSet /\ Idle.row = NoRow /\ Idle.op = "idle"
  BY <1>1 DEF Idle, ProcSet
<1>4. Ended \subseteq CookieSet
  <2>1. \A c \in CookieSet : [c EXCEPT !.ended = TRUE] \in CookieSet
    BY DEF CookieSet
  <2>2. QED
    BY <2>1 DEF TypeOK, Ended
<1>5. \A row \in RowSet : Cookie(row) \in CookieSet
  BY DEF Cookie, CookieSet
<1>6. /\ \A r \in Requests : procs[r].row \in RowSet
      /\ acct.id \in Nat
  BY DEF TypeOK, ProcSet
<1>7. QED
  BY <1>1, <1>2, <1>3, <1>4, <1>5, <1>6

\* A request starts, or ends.
LEMMA StartTypes ==
    ASSUME TypeOK, NEW r \in Requests,
           NEW op, op \in {"change", "logout_all", "delete_me", "lock", "reset",
                           "signup", "oauth", "login", "unlock", "impersonate"},
           NEW uid \in Nat, NEW row \in RowSet, NEW reset \in SUBSET Resets,
           op = "login" => row.lock \in {"none", "past"},
           Start(r, op, uid, row, reset)
    PROVE  ProcsOK'
<1> DEFINE p == [op |-> op, uid |-> uid, row |-> row, reset |-> reset]
<1>1. p \in ProcSet /\ p.op = op /\ p.row = row
  BY DEF ProcSet, Bumps
<1>2. procs' = [procs EXCEPT ![r] = p]
  BY DEF Start
<1> HIDE DEF p
<1>3. QED
  BY <1>1, <1>2 DEF TypeOK, ProcsOK

\* A request ends: the processes keep their shape.
LEMMA FinishTypes ==
    ASSUME TypeOK, NEW r \in Requests, Finish(r)
    PROVE  ProcsOK'
  BY RowTypes DEF Finish, TypeOK, ProcsOK

\* A row stays one when its columns are changed as the handlers do.
LEMMA RowUpdates ==
    ASSUME NEW row \in RowSet
    PROVE  /\ \A f \in 0..LockAt, l \in {"none", "past", "timed", "admin"} :
                /\ [row EXCEPT !.failed = f, !.lock = l] \in RowSet
                /\ [row EXCEPT !.lock = l] \in RowSet
           /\ \A v \in Nat : [row EXCEPT !.version = v] \in RowSet
           /\ \A h \in Nat : [row EXCEPT !.hash = h] \in RowSet
           /\ [row EXCEPT !.deleted = TRUE] \in RowSet
  BY DEF RowSet

\* What a request stores that raises the version is a row.
LEMMA BumpedType ==
    ASSUME TypeOK, NEW r \in Requests
    PROVE  Bumped(r) \in RowSet
<1>1. acct \in RowSet
  BY DEF TypeOK
<1>2. procs[r].row.version + 1 \in Nat
  BY RowTypes DEF RowSet
<1>3. QED
  BY <1>1, <1>2, RowUpdates DEF Bumped

\* The state keeps its shape.
THEOREM TypeCorrect == Spec => []TypeOK
<1>1. Init => TypeOK
  BY AccountsAssumption
  DEF Init, TypeOK, NoRow, RowSet, Idle, ProcSet, CookieSet
<1>2. TypeOK /\ [Next]_vars => TypeOK'
  <2> SUFFICES ASSUME TypeOK, [Next]_vars PROVE TypeOK'
    OBVIOUS
  <2>R. /\ NoRow \in RowSet /\ NewRow \in RowSet /\ acct \in RowSet
        /\ Ended \subseteq CookieSet /\ cookies \subseteq CookieSet
        /\ \A row \in RowSet : Cookie(row) \in CookieSet
        /\ \A r \in Requests : procs[r].row \in RowSet
        /\ acct.id \in Nat /\ nextHash \in Nat /\ 0 \in 0..LockAt
        /\ 0 \in Nat /\ {} \in SUBSET Resets
    BY RowTypes, AccountsAssumption DEF TypeOK
  <2>1. ASSUME NEW r \in Requests, Step(r) PROVE TypeOK'
    <3> USE <2>R
    <3>1. CASE \E op \in {"change", "logout_all", "delete_me"} : BeginOwn(r, op)
      <4>1. PICK op \in {"change", "logout_all", "delete_me"} : BeginOwn(r, op)
        BY <3>1
      <4>2. Start(r, op, acct.id, NoRow, {})
        BY <4>1 DEF BeginOwn
      <4>3. ProcsOK'
        BY <4>2, StartTypes
      <4>4. QED
        BY <4>1, <4>3 DEF BeginOwn, TypeOK, ProcsOK
    <3>2. CASE \E op \in {"lock", "unlock", "impersonate"} : BeginAdmin(r, op)
      <4>1. PICK op \in {"lock", "unlock", "impersonate"} : BeginAdmin(r, op)
        BY <3>2
      <4>2. Start(r, op, acct.id, NoRow, {})
        BY <4>1 DEF BeginAdmin
      <4>3. ProcsOK'
        BY <4>2, StartTypes
      <4>4. QED
        BY <4>1, <4>3 DEF BeginAdmin, TypeOK, ProcsOK
    <3>3. CASE ReadRow(r)
      <4>1. CASE Finish(r)
        BY <3>3, <4>1, FinishTypes DEF ReadRow, TypeOK, ProcsOK
      <4>2. CASE procs' = [procs EXCEPT ![r].row = acct, ![r].uid = 0]
        BY <3>3, <4>2 DEF ReadRow, TypeOK, ProcSet, Bumps
      <4>3. QED
        BY <3>3, <4>1, <4>2 DEF ReadRow
    <3>4. CASE Abort(r)
      BY <3>4, FinishTypes DEF Abort, TypeOK, ProcsOK
    <3>5. CASE SignupRead(r)
      BY <3>5, StartTypes DEF SignupRead, TypeOK, ProcsOK
    <3>6. CASE Insert(r)
      BY <3>6, FinishTypes DEF Insert, TypeOK, ProcsOK
    <3>7. CASE OAuthRead(r)
      <4>1. Start(r, "oauth", 0, acct, {})
        BY <3>7 DEF OAuthRead
      <4>2. ProcsOK'
        BY <4>1, StartTypes
      <4>3. QED
        BY <3>7, <4>2 DEF OAuthRead, TypeOK, ProcsOK
    <3>8. CASE OAuthCallback(r) /\ ~Insert(r)
      BY <3>8, FinishTypes DEF OAuthCallback, TypeOK, ProcsOK
    <3>9. CASE LoginRead(r)
      <4>1. acct.lock \in {"none", "past"}
        BY <3>9 DEF LoginRead, RowSet
      <4>2. Start(r, "login", 0, acct, {})
        BY <3>9 DEF LoginRead
      <4>3. ProcsOK'
        BY <4>1, <4>2, StartTypes
      <4>4. QED
        BY <3>9, <4>3 DEF LoginRead, TypeOK, ProcsOK
    <3>10. CASE LoginFails(r)
      <4>1. /\ Failures(procs[r].row) \in 0..LockAt
            /\ procs[r].row.lock \in {"none", "past", "timed", "admin"}
        BY AccountsAssumption DEF Failures, RowSet
      <4>2. acct' \in RowSet
        BY <3>10, <4>1, RowUpdates DEF LoginFails
      <4>3. QED
        BY <3>10, <4>2, FinishTypes DEF LoginFails, TypeOK, ProcsOK
    <3>11. CASE LoginSucceeds(r)
      <4>1. acct' \in RowSet
        BY <3>11, RowUpdates DEF LoginSucceeds, Cleared
      <4>2. QED
        BY <3>11, <4>1, FinishTypes DEF LoginSucceeds, TypeOK, ProcsOK
    <3>12. CASE ChangePassword(r)
      <4>1. acct' \in RowSet
        BY <3>12, BumpedType, RowUpdates DEF ChangePassword
      <4>2. QED
        BY <3>12, <4>1, FinishTypes DEF ChangePassword, TypeOK, ProcsOK
    <3>13. CASE LogoutAll(r)
      BY <3>13, BumpedType, FinishTypes DEF LogoutAll, TypeOK, ProcsOK
    <3>14. CASE DeleteMe(r)
      BY <3>14, BumpedType, RowUpdates, FinishTypes DEF DeleteMe, TypeOK, ProcsOK
    <3>15. CASE LockUser(r)
      BY <3>15, BumpedType, RowUpdates, FinishTypes DEF LockUser, TypeOK, ProcsOK
    <3>16. CASE UnlockUser(r)
      <4>1. acct' \in RowSet
        BY <3>16 DEF UnlockUser, RowSet
      <4>2. QED
        BY <3>16, <4>1, FinishTypes DEF UnlockUser, TypeOK, ProcsOK
    <3>17. CASE Impersonate(r)
      BY <3>17, FinishTypes DEF Impersonate, TypeOK, ProcsOK
    <3>18. CASE \E t \in Resets : ResetRead(r, t)
      <4>1. PICK t \in Resets : ResetRead(r, t)
        BY <3>18
      <4>2. Start(r, "reset", acct.id, NoRow, {t})
        BY <4>1 DEF ResetRead
      <4>3. ProcsOK'
        BY <4>2, StartTypes
      <4>4. QED
        BY <4>1, <4>3 DEF ResetRead, TypeOK, ProcsOK
    <3>19. CASE ResetPassword(r)
      <4>1. acct' \in RowSet
        BY <3>19, BumpedType, RowUpdates DEF ResetPassword
      <4>2. procs' \in [Requests -> ProcSet]
        <5>1. [procs[r] EXCEPT !.op = "mark", !.row = acct'] \in ProcSet
          BY <4>1 DEF TypeOK, ProcSet
        <5>2. QED
          BY <3>19, <5>1 DEF ResetPassword, TypeOK
      <4>3. \A q \in Requests :
              procs'[q].op = "login" => procs'[q].row.lock \in {"none", "past"}
        BY <3>19 DEF ResetPassword, TypeOK, ProcSet
      <4>4. QED
        BY <3>19, <4>1, <4>2, <4>3 DEF ResetPassword, TypeOK
    <3>20. CASE ResetMark(r)
      BY <3>20, FinishTypes DEF ResetMark, TypeOK, ProcsOK
    <3>21. QED
      BY <2>1, <3>1, <3>2, <3>3, <3>4, <3>5, <3>6, <3>7, <3>8, <3>9, <3>10,
         <3>11, <3>12, <3>13, <3>14, <3>15, <3>16, <3>17, <3>18, <3>19, <3>20
      DEF Step, Signup, OAuthCallback
  <2>2. CASE \E t \in Resets : Forgot(t) \/ ResetExpires(t)
    BY <2>2 DEF Forgot, ResetExpires, TypeOK
  <2>3. CASE CreateToken \/ RevokeToken
    BY <2>3, <2>R DEF CreateToken, RevokeToken, TypeOK
  <2>4. CASE DeleteUser \/ PurgeUser
    BY <2>4, <2>R DEF DeleteUser, PurgeUser, Remove, TypeOK
  <2>5. CASE LockPasses
    BY <2>5, <2>R, RowUpdates DEF LockPasses, TypeOK
  <2>6. CASE SweepResets
    BY <2>6 DEF SweepResets, TypeOK
  <2>7. CASE UNCHANGED vars
    BY <2>7 DEF vars, TypeOK
  <2>8. QED
    BY <2>1, <2>2, <2>3, <2>4, <2>5, <2>6, <2>7 DEF Next
<1>3. QED
  BY <1>1, <1>2, PTL DEF Spec

-----------------------------------------------------------------------------
\* What sessions depend on in the row is as it was.
SameCore ==
    /\ acct'.id = acct.id /\ acct'.version = acct.version /\ acct'.hash = acct.hash
    /\ acct' = acct \/ acct.id # 0
    /\ nextId' = nextId

\* Types of the parts that the invariant compares.
LEMMA Comparable ==
    ASSUME TypeOK
    PROVE  /\ acct.id \in Nat /\ acct.version \in Nat /\ nextId \in Nat
           /\ \A c \in cookies : c.uid \in Nat /\ c.version \in Nat
           /\ \A r \in Requests :
                procs[r].row.id \in Nat /\ procs[r].row.version \in Nat
  BY DEF TypeOK, CookieSet, ProcSet, RowSet

\* The columns of the empty row, and of an idle request.
LEMMA NoRowFacts == NoRow.id = 0 /\ Idle.row = NoRow /\ Idle.op = "idle"
  BY DEF NoRow, Idle

\* What a cookie takes from the row it is granted for.
LEMMA CookieFacts ==
    ASSUME NEW row
    PROVE  /\ Cookie(row).uid = row.id /\ Cookie(row).version = row.version
           /\ Cookie(row).hash = row.hash /\ Cookie(row).ended = FALSE
  BY DEF Cookie

\* No request goes on, and nothing that matters changes.
LEMMA SameInv ==
    ASSUME Inv, SameCore, UNCHANGED <<cookies, procs>>
    PROVE  Inv'
  BY DEF Inv, SameCore, IdsInv, RowsInv, Behind, CookiesInv, BumpInv

\* A request starts; one that reads the row reads the present one.
LEMMA StartInv ==
    ASSUME TypeOK, Inv, NEW r \in Requests, NEW op, NEW uid, NEW row, NEW reset,
           Start(r, op, uid, row, reset), UNCHANGED <<acct, cookies, nextId>>,
           row \in {NoRow, acct}, op # "mark",
           op \in Bumps => row = NoRow /\ \A q \in Requests : procs[q].op \notin Bumps
    PROVE  Inv'
<1> DEFINE p == [op |-> op, uid |-> uid, row |-> row, reset |-> reset]
<1>1. p.op = op /\ p.row = row
  OBVIOUS
<1>2. /\ procs' = [procs EXCEPT ![r] = p]
      /\ procs \in [Requests -> ProcSet]
  BY DEF Start, TypeOK
<1> HIDE DEF p
<1>3. \A q \in Requests : procs'[q] = IF q = r THEN p ELSE procs[q]
  BY <1>2
<1>4. row # NoRow => row = acct /\ row.id # 0
  BY DEF Inv, IdsInv
<1>5. IdsInv'
  BY <1>1, <1>3, <1>4, NoRowFacts, Comparable DEF Inv, IdsInv
<1>6. RowsInv'
  BY <1>1, <1>3, <1>4, Comparable DEF Inv, RowsInv, Behind
<1>7. CookiesInv'
  BY DEF Inv, CookiesInv
<1>8. BumpInv'
  BY <1>1, <1>3 DEF Inv, BumpInv
<1>9. QED
  BY <1>5, <1>6, <1>7, <1>8 DEF Inv

\* A request ends and leaves what matters in the row; it may have granted a
\* session from the row it had read.
LEMMA FinishInv ==
    ASSUME TypeOK, Inv, NEW r \in Requests, Finish(r), SameCore,
           \/ cookies' = cookies
           \/ /\ procs[r].row # NoRow
              /\ cookies' = cookies \cup {Cookie(procs[r].row)}
    PROVE  Inv'
<1>1. \A q \in Requests : procs'[q] = IF q = r THEN Idle ELSE procs[q]
  BY DEF Finish, TypeOK
<1> DEFINE row == procs[r].row
           k == Cookie(row)
<1>c. k.uid = row.id /\ k.version = row.version /\ k.hash = row.hash /\ ~k.ended
  BY CookieFacts
<1>d. cookies' = cookies \/ (row # NoRow /\ cookies' = cookies \cup {k})
  OBVIOUS
<1> HIDE DEF k
<1>2. IdsInv'
  BY <1>1, <1>c, <1>d, NoRowFacts, Comparable DEF Inv, IdsInv, RowsInv, SameCore
<1>3. RowsInv'
  BY <1>1, NoRowFacts DEF Inv, RowsInv, Behind, SameCore
<1>4. CookiesInv'
  BY <1>c, <1>d DEF Inv, CookiesInv, RowsInv, Behind, SameCore
<1>5. BumpInv'
  BY <1>1, NoRowFacts DEF Inv, BumpInv, Bumps, SameCore
<1>6. QED
  BY <1>2, <1>3, <1>4, <1>5 DEF Inv

\* A request raises the version, and ends the sessions; it may have granted
\* one from the row it stored, or keep that row.
LEMMA BumpInvLemma ==
    ASSUME TypeOK, TypeOK', Inv, NEW r \in Requests,
           procs[r].op \in Bumps, procs[r].row # NoRow, Finds(r),
           acct'.id = acct.id, acct'.version = procs[r].row.version + 1,
           nextId' = nextId,
           cookies' \in {Ended, Ended \cup {Cookie(acct')}},
           \A q \in Requests : q # r => procs'[q] = procs[q],
           procs'[r] = Idle \/ (procs'[r].op = "mark" /\ procs'[r].row = acct')
    PROVE  Inv'
<1>1. /\ acct.id # 0
      /\ acct'.version = acct.version + 1
      /\ \A q \in Requests : q # r => procs[q].op \notin Bumps
  BY Comparable DEF Inv, RowsInv, BumpInv, Finds
<1>2. acct' # NoRow
  BY <1>1, NoRowFacts
<1> DEFINE k == Cookie(acct')
<1>k. /\ k.uid = acct'.id /\ k.version = acct'.version
      /\ k.hash = acct'.hash /\ ~k.ended
  BY CookieFacts
<1>n. acct'.version \in Nat /\ acct.version \in Nat /\ acct.id \in Nat
  BY Comparable DEF TypeOK, RowSet
<1>3. \A c \in cookies' :
        \/ \E d \in cookies : c.uid = d.uid /\ c.version = d.version
        \/ c = k
  BY DEF Ended, TypeOK, CookieSet
<1> HIDE DEF k
<1>4. IdsInv'
  <2>1. \A c \in cookies' : c.uid # 0 /\ c.uid < nextId
    BY <1>1, <1>3, <1>k DEF Inv, IdsInv
  <2>2. \A q \in Requests : procs'[q].row.id < nextId
    BY <1>1, NoRowFacts, Comparable DEF Inv, IdsInv
  <2>3. QED
    BY <1>1, <2>1, <2>2 DEF Inv, IdsInv
<1>5. RowsInv'
  <2> SUFFICES ASSUME NEW q \in Requests
               PROVE  /\ procs'[q].row # NoRow =>
                           /\ procs'[q].row.id # 0
                           /\ procs'[q].row.id = acct'.id =>
                                /\ procs'[q].row.version <= acct'.version
                                /\ procs'[q].row.version = acct'.version =>
                                     procs'[q].row.hash = acct'.hash
                      /\ procs'[q].op = "mark" => procs'[q].row # NoRow
    BY DEF RowsInv, Behind
  <2>1. CASE q = r
    BY <1>1, <1>2, <1>n, <2>1, NoRowFacts
  <2>2. CASE q # r
    BY <1>1, <1>n, <2>2, Comparable DEF Inv, RowsInv, Behind
  <2>3. QED
    BY <2>1, <2>2
<1>6. CookiesInv'
  <2> SUFFICES ASSUME NEW c \in cookies', c.uid = acct'.id
               PROVE  /\ c.version <= acct'.version
                      /\ c.version = acct'.version => c.hash = acct'.hash
                      /\ c.ended => c.version < acct'.version
    BY DEF CookiesInv
  <2>1. CASE c = k
    BY <1>k, <1>n, <2>1
  <2>2. CASE \E d \in cookies : c.uid = d.uid /\ c.version = d.version
    BY <1>1, <2>2, Comparable DEF Inv, CookiesInv
  <2>3. QED
    BY <1>3, <2>1, <2>2
<1>7. BumpInv'
  BY <1>1, NoRowFacts DEF BumpInv, Bumps
<1>8. QED
  BY <1>4, <1>5, <1>6, <1>7 DEF Inv

\* A new account: what is out in the world is of earlier ones.
LEMMA InsertInv ==
    ASSUME TypeOK, Inv, NEW r \in Requests, Insert(r)
    PROVE  Inv'
<1>1. \A q \in Requests : procs'[q] = IF q = r THEN Idle ELSE procs[q]
  BY DEF Insert, Finish, TypeOK
<1>2. /\ acct' = NewRow /\ nextId' = nextId + 1
      /\ cookies' = cookies \cup {Cookie(NewRow)}
  BY DEF Insert
<1>3. NewRow.id = nextId /\ nextId \in Nat \ {0} /\ NewRow.version \in Nat
  BY RowTypes DEF NewRow, NoRow, TypeOK, RowSet
<1> DEFINE k == Cookie(NewRow)
<1>k. /\ k.uid = nextId /\ k.version = NewRow.version /\ k.hash = NewRow.hash
      /\ ~k.ended /\ cookies' = cookies \cup {k}
  BY <1>2, <1>3, CookieFacts
<1> HIDE DEF k
<1>4. IdsInv'
  BY <1>1, <1>2, <1>3, <1>k, NoRowFacts, Comparable DEF Inv, IdsInv
<1>5. RowsInv'
  BY <1>1, <1>2, <1>3, NoRowFacts, Comparable DEF Inv, IdsInv, RowsInv, Behind
<1>6. CookiesInv'
  BY <1>2, <1>3, <1>k, Comparable DEF Inv, IdsInv, CookiesInv
<1>7. BumpInv'
  BY <1>1, <1>2, <1>3, NoRowFacts, Comparable DEF Inv, IdsInv, BumpInv, Bumps
<1>8. QED
  BY <1>4, <1>5, <1>6, <1>7 DEF Inv

\* A removed account: nothing out in the world is of the account 0.
LEMMA RemoveInv ==
    ASSUME TypeOK, Inv, Remove
    PROVE  Inv'
<1>1. acct' = NoRow /\ UNCHANGED <<procs, nextId>>
  BY DEF Remove
<1>2. \A c \in cookies' : \E d \in cookies : c.uid = d.uid
  BY DEF Remove, Ended, TypeOK, CookieSet
<1>3. IdsInv'
  BY <1>1, <1>2, NoRowFacts, Comparable DEF Inv, IdsInv, TypeOK
<1>4. RowsInv'
  BY <1>1, NoRowFacts DEF Inv, RowsInv, Behind
<1>5. CookiesInv'
  BY <1>1, <1>2, NoRowFacts DEF Inv, IdsInv, CookiesInv
<1>6. BumpInv'
  BY <1>1, NoRowFacts DEF Inv, BumpInv, RowsInv
<1>7. QED
  BY <1>3, <1>4, <1>5, <1>6 DEF Inv

\* Every step keeps the invariant.
LEMMA StepInv ==
    ASSUME ~BumpsOverlap, TypeOK, TypeOK', Inv, [Next]_vars
    PROVE  Inv'
<1>1. ASSUME NEW r \in Requests, Step(r) PROVE Inv'
  <2>1. CASE \E op \in {"change", "logout_all", "delete_me"} : BeginOwn(r, op)
    <3>1. PICK op \in {"change", "logout_all", "delete_me"} : BeginOwn(r, op)
      BY <2>1
    <3>2. /\ Start(r, op, acct.id, NoRow, {}) /\ UNCHANGED <<acct, cookies, nextId>>
          /\ \A q \in Requests : procs[q].op \notin Bumps
      BY <3>1 DEF BeginOwn, BumpAllowed
    <3>3. QED
      BY <3>2, StartInv
  <2>2. CASE \E op \in {"lock", "unlock", "impersonate"} : BeginAdmin(r, op)
    <3>1. PICK op \in {"lock", "unlock", "impersonate"} : BeginAdmin(r, op)
      BY <2>2
    <3>2. /\ Start(r, op, acct.id, NoRow, {}) /\ UNCHANGED <<acct, cookies, nextId>>
          /\ op \in Bumps => \A q \in Requests : procs[q].op \notin Bumps
      BY <3>1 DEF BeginAdmin, BumpAllowed, Bumps
    <3>3. QED
      BY <3>2, StartInv
  <2>3. CASE ReadRow(r)
    <3>1. CASE Finish(r)
      BY <2>3, <3>1, FinishInv DEF ReadRow, SameCore
    <3>2. CASE procs' = [procs EXCEPT ![r].row = acct, ![r].uid = 0]
      <4>1. \A q \in Requests :
              /\ procs'[q].op = procs[q].op
              /\ procs'[q].row = IF q = r THEN acct ELSE procs[q].row
        BY <3>2 DEF TypeOK, ProcSet
      <4>2. UNCHANGED <<acct, cookies, nextId>> /\ procs[r].row = NoRow
        BY <2>3 DEF ReadRow
      <4>3. procs[r].op # "mark"
        BY <2>3 DEF ReadRow, Bumps
      <4>4. QED
        BY <4>1, <4>2, <4>3, Comparable
        DEF Inv, IdsInv, RowsInv, Behind, CookiesInv, BumpInv
    <3>3. QED
      BY <2>3, <3>1, <3>2 DEF ReadRow
  <2>4. CASE Abort(r)
    BY <2>4, FinishInv DEF Abort, SameCore
  <2>5. CASE SignupRead(r)
    <3>1. Start(r, "signup", 0, NoRow, {}) /\ UNCHANGED <<acct, cookies, nextId>>
      BY <2>5 DEF SignupRead
    <3>2. QED
      BY <3>1, StartInv DEF Bumps
  <2>6. CASE Insert(r)
    BY <2>6, InsertInv
  <2>7. CASE OAuthRead(r)
    <3>1. Start(r, "oauth", 0, acct, {}) /\ UNCHANGED <<acct, cookies, nextId>>
      BY <2>7 DEF OAuthRead
    <3>2. QED
      BY <3>1, StartInv DEF Bumps
  <2>8. CASE OAuthCallback(r) /\ ~Insert(r)
    BY <2>8, FinishInv DEF OAuthCallback, SameCore
  <2>9. CASE LoginRead(r)
    <3>1. Start(r, "login", 0, acct, {}) /\ UNCHANGED <<acct, cookies, nextId>>
      BY <2>9 DEF LoginRead
    <3>2. QED
      BY <3>1, StartInv DEF Bumps
  <2>10. CASE LoginFails(r)
    <3>1. acct.id = procs[r].row.id => acct.id # 0
      BY <2>10 DEF LoginFails, HasRead, Inv, RowsInv
    <3>2. SameCore
      BY <2>10, <3>1 DEF LoginFails, Finds, SameCore, TypeOK, RowSet
    <3>3. QED
      BY <2>10, <3>2, FinishInv DEF LoginFails
  <2>11. CASE LoginSucceeds(r)
    <3>1. acct.id = procs[r].row.id => acct.id # 0
      BY <2>11 DEF LoginSucceeds, HasRead, Inv, RowsInv
    <3>2. SameCore
      <4>1. UNCHANGED nextId
        BY <2>11 DEF LoginSucceeds
      <4>2. CASE acct' = acct
        BY <4>1, <4>2 DEF SameCore
      <4>3. CASE acct' = Cleared(procs[r].row)
        BY <3>1, <4>1, <4>3 DEF Cleared, SameCore, TypeOK, RowSet
      <4>4. QED
        BY <2>11, <4>2, <4>3 DEF LoginSucceeds
    <3>3. QED
      BY <2>11, <3>2, FinishInv DEF LoginSucceeds, HasRead
  <2>12. CASE ChangePassword(r)
    <3>1. acct'.id = acct.id /\ acct'.version = procs[r].row.version + 1
      BY <2>12 DEF ChangePassword, Bumped, TypeOK, RowSet
    <3>2. QED
      BY <2>12, <3>1, BumpInvLemma
      DEF ChangePassword, HasRead, Bumps, Finish, TypeOK
  <2>13. CASE LogoutAll(r)
    <3>1. acct'.id = acct.id /\ acct'.version = procs[r].row.version + 1
      BY <2>13 DEF LogoutAll, Bumped, TypeOK, RowSet
    <3>2. QED
      BY <2>13, <3>1, BumpInvLemma DEF LogoutAll, HasRead, Bumps, Finish, TypeOK
  <2>14. CASE DeleteMe(r)
    <3>1. acct'.id = acct.id /\ acct'.version = procs[r].row.version + 1
      BY <2>14 DEF DeleteMe, Bumped, TypeOK, RowSet
    <3>2. QED
      BY <2>14, <3>1, BumpInvLemma DEF DeleteMe, HasRead, Bumps, Finish, TypeOK
  <2>15. CASE LockUser(r)
    <3>1. acct'.id = acct.id /\ acct'.version = procs[r].row.version + 1
      BY <2>15 DEF LockUser, Bumped, TypeOK, RowSet
    <3>2. QED
      BY <2>15, <3>1, BumpInvLemma DEF LockUser, HasRead, Bumps, Finish, TypeOK
  <2>16. CASE UnlockUser(r)
    <3>1. acct.id # 0
      BY <2>16 DEF UnlockUser, HasRead, Finds, Inv, RowsInv
    <3>2. SameCore
      BY <2>16, <3>1 DEF UnlockUser, SameCore, TypeOK, RowSet
    <3>3. QED
      BY <2>16, <3>2, FinishInv DEF UnlockUser
  <2>17. CASE Impersonate(r)
    BY <2>17, FinishInv DEF Impersonate, HasRead, SameCore
  <2>18. CASE \E t \in Resets : ResetRead(r, t)
    <3>1. PICK t \in Resets : ResetRead(r, t)
      BY <2>18
    <3>2. /\ Start(r, "reset", acct.id, NoRow, {t})
          /\ UNCHANGED <<acct, cookies, nextId>>
          /\ \A q \in Requests : procs[q].op \notin Bumps
      BY <3>1 DEF ResetRead, BumpAllowed
    <3>3. QED
      BY <3>2, StartInv
  <2>19. CASE ResetPassword(r)
    <3>1. acct'.id = acct.id /\ acct'.version = procs[r].row.version + 1
      BY <2>19 DEF ResetPassword, Bumped, TypeOK, RowSet
    <3>2. /\ procs'[r].op = "mark" /\ procs'[r].row = acct'
          /\ \A q \in Requests : q # r => procs'[q] = procs[q]
      BY <2>19 DEF ResetPassword, TypeOK, ProcSet
    <3>3. QED
      BY <2>19, <3>1, <3>2, BumpInvLemma DEF ResetPassword, HasRead, Bumps
  <2>20. CASE ResetMark(r)
    BY <2>20, FinishInv DEF ResetMark, SameCore, Inv, RowsInv
  <2>21. QED
    BY <1>1, <2>1, <2>2, <2>3, <2>4, <2>5, <2>6, <2>7, <2>8, <2>9, <2>10,
       <2>11, <2>12, <2>13, <2>14, <2>15, <2>16, <2>17, <2>18, <2>19, <2>20
    DEF Step, Signup, OAuthCallback
<1>2. CASE \E t \in Resets : Forgot(t) \/ ResetExpires(t)
  BY <1>2, SameInv DEF Forgot, ResetExpires, SameCore
<1>3. CASE CreateToken \/ RevokeToken
  BY <1>3, SameInv DEF CreateToken, RevokeToken, SameCore
<1>4. CASE DeleteUser \/ PurgeUser
  BY <1>4, RemoveInv DEF DeleteUser, PurgeUser
<1>5. CASE LockPasses
  <2>1. acct.id # 0
    BY <1>5 DEF LockPasses, Inv, IdsInv, NoRow
  <2>2. SameCore
    BY <1>5, <2>1 DEF LockPasses, SameCore, TypeOK, RowSet
  <2>3. QED
    BY <1>5, <2>2, SameInv DEF LockPasses
<1>6. CASE SweepResets
  BY <1>6, SameInv DEF SweepResets, SameCore
<1>7. CASE UNCHANGED vars
  BY <1>7, SameInv DEF vars, SameCore
<1>8. QED
  BY <1>1, <1>2, <1>3, <1>4, <1>5, <1>6, <1>7 DEF Next

\* Sessions that have been ended stay ended, and a session that is accepted was
\* granted under the password in force, as long as requests that raise
\* session_version do not overlap.
THEOREM SessionsEnd ==
    ASSUME ~BumpsOverlap
    PROVE  Spec => [](EndedStaysEnded /\ SessionIsCurrent)
<1>1. Init => Inv
  BY NoRowFacts
  DEF Init, Inv, IdsInv, RowsInv, CookiesInv, BumpInv, Bumps
<1>2. TypeOK /\ TypeOK' /\ Inv /\ [Next]_vars => Inv'
  BY StepInv
<1>3. TypeOK /\ Inv => EndedStaysEnded /\ SessionIsCurrent
  <2> SUFFICES ASSUME TypeOK, Inv, NEW c \in cookies, Accepted(c)
               PROVE  ~c.ended /\ c.hash = acct.hash
    BY DEF EndedStaysEnded, SessionIsCurrent
  <2>1. QED
    BY Comparable DEF Accepted, Inv, CookiesInv
<1>4. QED
  BY <1>1, <1>2, <1>3, TypeCorrect, PTL DEF Spec

\* A session that is accepted was granted under the password in force, as long
\* as requests that raise session_version do not overlap.
THEOREM SessionsCurrent ==
    ASSUME ~BumpsOverlap
    PROVE  Spec => []SessionIsCurrent
<1>1. EndedStaysEnded /\ SessionIsCurrent => SessionIsCurrent
  OBVIOUS
<1>2. QED
  BY <1>1, SessionsEnd, PTL

\* There is an account where one is deleted, and where one is to be.
DeletedInv ==
    /\ acct.deleted => acct.id # 0
    /\ \A r \in Requests :
         procs[r].op = "delete_me" =>
           IF procs[r].row = NoRow THEN procs[r].uid # 0 ELSE procs[r].row.id # 0

\* Every step but a removal keeps a deleted account deleted.
LEMMA DeletedStep ==
    ASSUME TypeOK, DeletedInv, Next
    PROVE  DeletedInv' /\ (acct.deleted => acct'.deleted \/ acct' = NoRow)
<1>0. /\ acct \in RowSet /\ procs \in [Requests -> ProcSet]
      /\ NoRow.id = 0 /\ ~NoRow.deleted /\ Idle.op # "delete_me"
  BY DEF TypeOK, NoRow, Idle
<1>1. ASSUME NEW r \in Requests, Step(r)
      PROVE  DeletedInv' /\ (acct.deleted => acct'.deleted)
  <2>1. CASE /\ \E op : procs' = [procs EXCEPT ![r] = op] /\ op.op # "delete_me"
             /\ acct'.id = acct.id /\ acct'.deleted = acct.deleted
    BY <1>0, <2>1 DEF DeletedInv
  <2>2. CASE DeleteMe(r)
    <3>1. acct'.id = acct.id /\ acct'.deleted /\ acct.id # 0
      BY <1>0, <2>2 DEF DeleteMe, HasRead, Finds, Bumped, DeletedInv, RowSet
    <3>2. QED
      BY <1>0, <2>2, <3>1 DEF DeleteMe, Finish, DeletedInv
  <2>3. CASE \E op \in {"change", "logout_all", "delete_me"} : BeginOwn(r, op)
    BY <1>0, <2>3 DEF BeginOwn, Exists, Start, DeletedInv
  <2>4. CASE ReadRow(r)
    <3>1. CASE Finish(r)
      BY <1>0, <2>4, <3>1 DEF ReadRow, Finish, DeletedInv
    <3>2. CASE /\ acct.id = procs[r].uid
               /\ procs' = [procs EXCEPT ![r].row = acct, ![r].uid = 0]
      <4>1. \A q \in Requests :
              /\ procs'[q].op = procs[q].op
              /\ procs'[q].row = IF q = r THEN acct ELSE procs[q].row
              /\ q # r => procs'[q].uid = procs[q].uid
        BY <1>0, <3>2 DEF ProcSet
      <4>2. procs[r].row = NoRow /\ acct' = acct
        BY <2>4 DEF ReadRow
      <4>3. QED
        BY <1>0, <3>2, <4>1, <4>2 DEF DeletedInv
    <3>3. QED
      BY <2>4, <3>1, <3>2 DEF ReadRow
  <2>5. CASE Insert(r)
    <3>1. acct'.id # 0 /\ ~acct.deleted
      BY <1>0, <2>5 DEF Insert, Exists, NewRow, NoRow, TypeOK, DeletedInv
    <3>2. QED
      BY <1>0, <2>5, <3>1 DEF Insert, Finish, DeletedInv
  <2>6. CASE \/ ChangePassword(r) \/ LogoutAll(r) \/ LockUser(r)
             \/ LoginFails(r) \/ LoginSucceeds(r) \/ UnlockUser(r)
    <3>1. acct'.id = acct.id /\ acct'.deleted = acct.deleted
      BY <1>0, <2>6
      DEF ChangePassword, LogoutAll, LockUser, Bumped, LoginFails, LoginSucceeds,
          Cleared, UnlockUser, RowSet
    <3>2. procs' = [procs EXCEPT ![r] = Idle]
      BY <2>6
      DEF ChangePassword, LogoutAll, LockUser, LoginFails, LoginSucceeds, UnlockUser,
          Finish
    <3>3. QED
      BY <1>0, <2>1, <3>1, <3>2
  <2>7. CASE ResetPassword(r)
    <3>1. acct'.id = acct.id /\ acct'.deleted = acct.deleted
      BY <1>0, <2>7 DEF ResetPassword, Bumped, RowSet
    <3>2. \A q \in Requests : q # r => procs'[q] = procs[q]
      BY <1>0, <2>7 DEF ResetPassword
    <3>3. procs'[r].op = "mark"
      BY <1>0, <2>7 DEF ResetPassword, ProcSet
    <3>4. QED
      BY <3>1, <3>2, <3>3 DEF DeletedInv
  <2>8. CASE \/ Abort(r) \/ ResetMark(r) \/ Impersonate(r)
             \/ (OAuthCallback(r) /\ ~Insert(r))
    BY <1>0, <2>1, <2>8 DEF Abort, ResetMark, Impersonate, OAuthCallback, Finish
  <2>9. CASE \/ \E op \in {"lock", "unlock", "impersonate"} : BeginAdmin(r, op)
             \/ SignupRead(r) \/ OAuthRead(r) \/ LoginRead(r)
             \/ \E t \in Resets : ResetRead(r, t)
    BY <1>0, <2>9
    DEF BeginAdmin, SignupRead, OAuthRead, LoginRead, ResetRead, Start, DeletedInv
  <2>10. QED
    BY <1>1, <2>2, <2>3, <2>4, <2>5, <2>6, <2>7, <2>8, <2>9
    DEF Step, Signup, OAuthCallback
<1>2. CASE \/ \E t \in Resets : Forgot(t) \/ ResetExpires(t)
           \/ CreateToken \/ RevokeToken \/ SweepResets
  BY <1>2 DEF Forgot, ResetExpires, CreateToken, RevokeToken, SweepResets, DeletedInv
<1>3. CASE DeleteUser \/ PurgeUser
  BY <1>0, <1>3 DEF DeleteUser, PurgeUser, Remove, DeletedInv
<1>4. CASE LockPasses
  <2>1. acct'.id = acct.id /\ acct'.deleted = acct.deleted
    BY <1>0, <1>4 DEF LockPasses, RowSet
  <2>2. QED
    BY <1>4, <2>1 DEF LockPasses, DeletedInv
<1>5. QED
  BY <1>1, <1>2, <1>3, <1>4 DEF Next

\* A deleted account stays deleted until it is removed, whatever requests that
\* read it before store afterwards, and however they overlap.
THEOREM NeverRevived == Spec => DeletedStaysDeleted
<1>1. Init => DeletedInv
  BY DEF Init, DeletedInv, NoRow, Idle
<1>2. TypeOK /\ DeletedInv /\ [Next]_vars
        => DeletedInv' /\ [acct.deleted => acct'.deleted \/ acct' = NoRow]_vars
  <2>1. TypeOK /\ DeletedInv /\ UNCHANGED vars => DeletedInv'
    BY DEF vars, DeletedInv
  <2>2. QED
    BY <2>1, DeletedStep
<1>3. QED
  BY <1>1, <1>2, TypeCorrect, PTL DEF Spec, DeletedStaysDeleted
==============================================================================
