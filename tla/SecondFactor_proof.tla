-------------------------- MODULE SecondFactor_proof --------------------------
(* Proofs about SecondFactor, for any number of concurrent requests. *)
EXTENDS SecondFactor, FiniteSetTheorems, TLAPS

-----------------------------------------------------------------------------
(* Type correctness *)

Row == [enabled : BOOLEAN, secret : 0..secrets, fails : Nat,
        lock : {"none", "timed", "over", "admin"}]

ReqType ==
    {Idle}
    \cup [pc : {"enroll"}, row : Row, secret : 1..secrets]
    \cup [pc : {"activate", "disable", "verify", "fail", "succeed"}, row : Row]
    \cup [pc : {"insert_codes"}, todo : Nat \ {0}]
    \cup [pc : {"mark"}, row : Row, code : 1..minted]

LoadType == [ops : SUBSET STRING, requests : Nat, enrolled : BOOLEAN]

\* TypeOK needs the types of what requests hold as well.
TypeInv ==
    /\ TypeOK
    /\ secrets \in Nat /\ minted \in 0..MaxCodes
    /\ load \in LoadType
    /\ reqs \in [Requests -> ReqType]
    /\ spent \in [1..MaxCodes -> Nat]

\* What the locals of a request may hold grows with the counters.
LEMMA ReqTypeGrows ==
    ASSUME TypeInv, secrets' \in Nat, minted' \in Nat,
           secrets <= secrets', minted <= minted'
    PROVE  Row \subseteq Row' /\ ReqType \subseteq ReqType'
<1>1. 0..secrets \subseteq 0..secrets' /\ 1..secrets \subseteq 1..secrets'
      /\ 1..minted \subseteq 1..minted'
  BY DEF TypeInv
<1>2. Row \subseteq Row'
  BY <1>1 DEF Row
<1> QED
  BY <1>1, <1>2 DEF ReqType

\* Every step that generates nothing keeps the types of what it leaves alone.
LEMMA RowTypeSame ==
    ASSUME UNCHANGED <<secrets, minted>>
    PROVE  Row' = Row /\ ReqType' = ReqType
BY DEF Row, ReqType, Idle

\* Storing some columns of a well-formed row leaves a well-formed row.
LEMMA Stored ==
    ASSUME NEW u \in Row
    PROVE  /\ \A e \in BOOLEAN : [u EXCEPT !.enabled = e] \in Row
           /\ \A s \in 0..secrets :
                [u EXCEPT !.enabled = FALSE, !.secret = s] \in Row
           /\ \A n \in Nat, l \in {"none", "timed", "over", "admin"} :
                /\ [u EXCEPT !.fails = n, !.lock = l] \in Row
                /\ [u EXCEPT !.lock = l, !.fails = n] \in Row
           /\ \A l \in {"none", "timed", "over", "admin"} : [u EXCEPT !.lock = l] \in Row
<1>1. ASSUME NEW e \in BOOLEAN PROVE [u EXCEPT !.enabled = e] \in Row
  BY DEF Row
<1>2. ASSUME NEW s \in 0..secrets
      PROVE  [u EXCEPT !.enabled = FALSE, !.secret = s] \in Row
  BY DEF Row
<1>3. ASSUME NEW n \in Nat, NEW l \in {"none", "timed", "over", "admin"}
      PROVE  /\ [u EXCEPT !.fails = n, !.lock = l] \in Row
             /\ [u EXCEPT !.lock = l, !.fails = n] \in Row
             /\ [u EXCEPT !.lock = l] \in Row
  BY DEF Row
<1> QED
  BY <1>1, <1>2, <1>3

\* The shape of the account, its codes and the requests is preserved by every
\* handler, for any number of requests at the same time.
THEOREM TypesKept == Spec => []TypeInv
<1>1. Init => TypeInv
  <2> SUFFICES ASSUME Init PROVE TypeInv
    OBVIOUS
  <2>1. load \in LoadType
    BY SecondFactorAssumption DEF Init, LoadType
  <2>2. reqs \in [Requests -> ReqType]
    BY DEF Init, ReqType
  <2>3. secrets \in Nat /\ minted \in 0..MaxCodes
    BY SecondFactorAssumption DEF Init, NoSecret
  <2>4. row \in [enabled : BOOLEAN, secret : 0..secrets, fails : Nat,
                 lock : {"none", "timed", "over", "admin"}]
    BY <2>1, <2>3 DEF Init, NoSecret, LoadType
  <2>5. proved \subseteq 1..secrets
    BY DEF Init, NoSecret
  <2> QED
    BY <2>1, <2>2, <2>3, <2>4, <2>5 DEF Init, TypeInv, TypeOK
<1>2. TypeInv /\ [Next]_vars => TypeInv'
  <2> SUFFICES ASSUME TypeInv, [Next]_vars PROVE TypeInv'
    OBVIOUS
  <2>1. ASSUME NEW r \in Requests, EnrollRead(r) PROVE TypeInv'
    <3>1. /\ secrets' = secrets + 1 /\ minted' = minted /\ row' = row
          /\ codes' = codes /\ proved' = proved /\ spent' = spent
      BY <2>1 DEF EnrollRead
    <3>2. secrets' \in Nat /\ secrets' \in 1..secrets'
      BY <3>1 DEF TypeInv
    <3>3. Row \subseteq Row' /\ ReqType \subseteq ReqType'
      BY <3>1, <3>2, ReqTypeGrows DEF TypeInv
    <3>4. row \in Row
      BY DEF TypeInv, TypeOK, Row
    <3>5. [pc |-> "enroll", row |-> row, secret |-> secrets'] \in ReqType'
      BY <3>2, <3>3, <3>4 DEF ReqType
    <3>6. reqs' \in [Requests -> ReqType']
      BY <2>1, <3>3, <3>5 DEF EnrollRead, Goto, TypeInv
    <3>7. load' \in LoadType
      BY <2>1 DEF EnrollRead, Start, TypeInv, LoadType
    <3>8. row' \in Row'
      BY <3>1, <3>3, <3>4
    <3>9. proved' \subseteq 1..secrets'
      BY <3>1 DEF TypeInv, TypeOK
    <3> QED
      BY <3>1, <3>2, <3>6, <3>7, <3>8, <3>9
      DEF TypeInv, TypeOK, Row, LoadType
  <2>2. ASSUME NEW r \in Requests, Enroll(r) PROVE TypeInv'
    <3>1. reqs[r].row \in Row /\ reqs[r].secret \in 1..secrets
      BY <2>2 DEF Enroll, TypeInv, ReqType, Idle
    <3> QED
      BY <2>2, <3>1, RowTypeSame
      DEF Enroll, Finish, Goto, TypeInv, TypeOK, ReqType
  <2>3. ASSUME NEW r \in Requests, ActivateRead(r) PROVE TypeInv'
    <3>1. row \in Row /\ row.secret \in 1..secrets
      BY <2>3 DEF ActivateRead, NoSecret, TypeInv, TypeOK, Row
    <3>2. [pc |-> "activate", row |-> row] \in ReqType
      BY <3>1 DEF ReqType
    <3>3. load' \in LoadType
      BY <2>3 DEF ActivateRead, Start, TypeInv, LoadType
    <3> QED
      BY <2>3, <3>1, <3>2, <3>3, RowTypeSame
      DEF ActivateRead, Goto, TypeInv, TypeOK
  <2>4. ASSUME NEW r \in Requests, DisableRead(r) PROVE TypeInv'
    <3>1. [pc |-> "disable", row |-> row] \in ReqType
      BY DEF TypeInv, TypeOK, Row, ReqType
    <3>2. load' \in LoadType
      BY <2>4 DEF DisableRead, Start, TypeInv, LoadType
    <3> QED
      BY <2>4, <3>1, <3>2, RowTypeSame
      DEF DisableRead, Goto, TypeInv, TypeOK
  <2>5. ASSUME NEW r \in Requests, Switch(r) PROVE TypeInv'
    <3>1. row \in Row /\ 0 \in 0..secrets
      BY DEF TypeInv, TypeOK, Row
    <3>2. row' \in Row
      BY <2>5, <3>1, Stored DEF Switch, NoSecret
    <3> QED
      BY <2>5, <3>2, RowTypeSame
      DEF Switch, Finish, Goto, TypeInv, TypeOK, ReqType, Row
  <2>6. ASSUME NEW r \in Requests, DeleteCodes(r) PROVE TypeInv'
    <3>1. [pc |-> "insert_codes", todo |-> Batch] \in ReqType
      BY SecondFactorAssumption DEF ReqType
    <3>2. load' \in LoadType
      BY <2>6 DEF DeleteCodes, Start, TypeInv, LoadType
    <3> QED
      BY <2>6, <3>1, <3>2, RowTypeSame
      DEF DeleteCodes, Goto, TypeInv, TypeOK
  <2>7. ASSUME NEW r \in Requests, InsertCode(r) PROVE TypeInv'
    <3>1. /\ minted' = minted + 1 /\ secrets' = secrets /\ row' = row
          /\ load' = load /\ proved' = proved /\ spent' = spent
      BY <2>7 DEF InsertCode
    <3>2. Row \subseteq Row' /\ ReqType \subseteq ReqType'
      BY <3>1, ReqTypeGrows DEF TypeInv
    <3>3. reqs' \in [Requests -> ReqType']
      <4>1. CASE reqs[r].todo = 1
        BY <2>7, <3>2, <4>1 DEF InsertCode, Finish, Goto, TypeInv, ReqType
      <4>2. CASE reqs[r].todo # 1
        <5>1. [reqs[r] EXCEPT !.todo = @ - 1] \in ReqType
          BY <2>7, <4>2 DEF InsertCode, TypeInv, ReqType, Idle
        <5> QED
          BY <2>7, <3>2, <4>2, <5>1 DEF InsertCode, Goto, TypeInv
      <4> QED
        BY <4>1, <4>2
    <3>4. /\ DOMAIN codes' \subseteq 1..minted'
          /\ \A c \in DOMAIN codes' : codes'[c] \in BOOLEAN
      <4>1. codes' = [c \in DOMAIN codes \cup {minted'} |->
                        c # minted' /\ codes[c]]
        BY <2>7 DEF InsertCode
      <4>2. DOMAIN codes \subseteq 1..minted /\ minted \in Nat
        BY DEF TypeInv, TypeOK
      <4>3. DOMAIN codes' = DOMAIN codes \cup {minted'}
        BY <4>1
      <4>4. \A c \in DOMAIN codes' : codes'[c] \in BOOLEAN
        BY <4>1
      <4> QED
        BY <3>1, <4>2, <4>3, <4>4
    <3>5. minted' \in 0..MaxCodes
      BY <2>7, SecondFactorAssumption DEF InsertCode, TypeInv
    <3> QED
      BY <3>1, <3>2, <3>3, <3>4, <3>5 DEF TypeInv, TypeOK
  <2>8. ASSUME NEW r \in Requests, LoginRead(r) PROVE TypeInv'
    <3>1. [pc |-> "verify", row |-> row] \in ReqType
      BY DEF TypeInv, TypeOK, Row, ReqType
    <3>2. load' \in LoadType
      BY <2>8 DEF LoginRead, Start, TypeInv, LoadType
    <3> QED
      BY <2>8, <3>1, <3>2, RowTypeSame DEF LoginRead, Goto, TypeInv, TypeOK
  <2>9. ASSUME NEW r \in Requests, VerifyFails(r) PROVE TypeInv'
    <3>1. [reqs[r] EXCEPT !.pc = "fail"] \in ReqType
      BY <2>9 DEF VerifyFails, TypeInv, ReqType, Idle
    <3> QED
      BY <2>9, <3>1, RowTypeSame DEF VerifyFails, Verdict, Goto, TypeInv, TypeOK
  <2>10. ASSUME NEW r \in Requests, VerifyTotp(r) PROVE TypeInv'
    <3>1. [reqs[r] EXCEPT !.pc = "succeed"] \in ReqType
      BY <2>10 DEF VerifyTotp, TypeInv, ReqType, Idle
    <3> QED
      BY <2>10, <3>1, RowTypeSame DEF VerifyTotp, Verdict, Goto, TypeInv, TypeOK
  <2>11. ASSUME NEW r \in Requests, FindCode(r) PROVE TypeInv'
    <3>1. reqs[r].row \in Row
      BY <2>11 DEF FindCode, TypeInv, ReqType, Idle
    <3>2. PICK c \in DOMAIN codes :
            reqs' = [reqs EXCEPT ![r] =
                       [pc |-> "mark", row |-> reqs[r].row, code |-> c]]
      BY <2>11 DEF FindCode, Goto
    <3>3. [pc |-> "mark", row |-> reqs[r].row, code |-> c] \in ReqType
      BY <3>1 DEF TypeInv, TypeOK, ReqType
    <3> QED
      BY <2>11, <3>2, <3>3, RowTypeSame DEF FindCode, TypeInv, TypeOK
  <2>12. ASSUME NEW r \in Requests, MarkCode(r) PROVE TypeInv'
    <3>1. [pc |-> "succeed", row |-> reqs[r].row] \in ReqType
      BY <2>12 DEF MarkCode, TypeInv, ReqType, Idle
    <3>2. DOMAIN codes' = DOMAIN codes /\ \A c \in DOMAIN codes' : codes'[c] \in BOOLEAN
      BY <2>12 DEF MarkCode, TypeInv, TypeOK
    <3>3. spent' \in [1..MaxCodes -> Nat]
      <4>1. spent' = [spent EXCEPT ![reqs[r].code] = @ + 1]
        BY <2>12 DEF MarkCode
      <4>2. reqs[r].code \in 1..MaxCodes
        BY <2>12, SecondFactorAssumption DEF MarkCode, TypeInv, TypeOK
      <4> QED
        BY <4>1, <4>2 DEF TypeInv
    <3> QED
      BY <2>12, <3>1, <3>2, <3>3, RowTypeSame DEF MarkCode, Goto, TypeInv, TypeOK
  <2>13. ASSUME NEW r \in Requests, Fail(r) PROVE TypeInv'
    <3>1. reqs[r].row \in Row
      BY <2>13 DEF Fail, TypeInv, ReqType, Idle
    <3>2. row \in Row /\ reqs[r].row.fails + 1 \in Nat
          /\ reqs[r].row.lock \in {"none", "timed", "over", "admin"}
      BY <3>1 DEF TypeInv, TypeOK, Row
    <3>3. row' \in Row
      <4>1. CASE reqs[r].row.fails + 1 >= LockAfter
        BY <2>13, <4>1, <3>2, Stored DEF Fail
      <4>2. CASE ~(reqs[r].row.fails + 1 >= LockAfter)
        BY <2>13, <4>2, <3>2, Stored DEF Fail
      <4> QED
        BY <4>1, <4>2
    <3> QED
      BY <2>13, <3>3, RowTypeSame
      DEF Fail, Finish, Goto, TypeInv, TypeOK, ReqType, Row
  <2>14. ASSUME NEW r \in Requests, Succeed(r) PROVE TypeInv'
    <3>1. row' \in Row
      <4>1. row \in Row
        BY DEF TypeInv, TypeOK, Row
      <4> QED
        BY <2>14, <4>1, Stored DEF Succeed
    <3> QED
      BY <2>14, <3>1, RowTypeSame
      DEF Succeed, Finish, Goto, TypeInv, TypeOK, ReqType, Row
  <2>15. ASSUME NEW r \in Requests, AdminLock(r) \/ AdminUnlock(r) PROVE TypeInv'
    <3>1. load' \in LoadType
      BY <2>15 DEF AdminLock, AdminUnlock, Start, TypeInv, LoadType
    <3>2. row' \in Row
      <4>1. row \in Row
        BY DEF TypeInv, TypeOK, Row
      <4> QED
        BY <2>15, <4>1, Stored DEF AdminLock, AdminUnlock
    <3>3. UNCHANGED <<codes, reqs, secrets, minted, proved, spent>>
      BY <2>15 DEF AdminLock, AdminUnlock
    <3> QED
      BY <3>1, <3>2, <3>3, RowTypeSame DEF TypeInv, TypeOK, Row
  <2>16. ASSUME NEW r \in Requests, Abort(r) PROVE TypeInv'
    BY <2>16, RowTypeSame DEF Abort, Finish, Goto, TypeInv, TypeOK, ReqType
  <2>17. CASE LockExpires
    BY <2>17, RowTypeSame DEF LockExpires, TypeInv, TypeOK
  <2>18. CASE UNCHANGED vars
    BY <2>18, RowTypeSame DEF vars, TypeInv, TypeOK
  <2> QED
    BY <2>1, <2>2, <2>3, <2>4, <2>5, <2>6, <2>7, <2>8, <2>9, <2>10, <2>11,
       <2>12, <2>13, <2>14, <2>15, <2>16, <2>17, <2>18 DEF Next
<1> QED
  BY <1>1, <1>2, PTL DEF Spec

\* The account keeps its shape: the instance of the above that the runs check.
THEOREM TypeCorrect == Spec => []TypeOK
<1>1. TypeInv => TypeOK
  BY DEF TypeInv
<1> QED
  BY <1>1, TypesKept, PTL

-----------------------------------------------------------------------------
(* The enabled secret was proved *)

\* A request to enroll read an account without a second factor, and a request
\* to activate has seen a code of the secret it read.
SetupInv ==
    \A r \in Requests :
      /\ reqs[r].pc = "enroll" => ~reqs[r].row.enabled
      /\ reqs[r].pc = "activate" => reqs[r].row.secret \in proved

\* Any number of setup requests and logins may run; the account only asks for
\* a second factor whose owner has shown a code of it, unless setup requests
\* overtook one another.
THEOREM EnabledIsProved == Spec => []EnabledSecretIsProved
<1>1. Init => SetupInv /\ EnabledSecretIsProved
  BY SecondFactorAssumption
  DEF Init, SetupInv, EnabledSecretIsProved, Idle, NoSecret
<1>2. TypeInv /\ SetupInv /\ EnabledSecretIsProved /\ [Next]_vars
        => (SetupInv /\ EnabledSecretIsProved)'
  <2> SUFFICES ASSUME TypeInv, SetupInv, EnabledSecretIsProved, [Next]_vars
               PROVE  SetupInv' /\ EnabledSecretIsProved'
    OBVIOUS
  <2>1. ASSUME NEW r \in Requests, EnrollRead(r)
        PROVE  SetupInv' /\ EnabledSecretIsProved'
    BY <2>1 DEF EnrollRead, Goto, SetupInv, EnabledSecretIsProved, TypeInv
  <2>2. ASSUME NEW r \in Requests, Enroll(r)
        PROVE  SetupInv' /\ EnabledSecretIsProved'
    <3>1. SetupInv'
      BY <2>2 DEF Enroll, Finish, Goto, Idle, SetupInv, TypeInv
    <3>2. ~stale' => ~row'.enabled
      <4>1. ~stale' => row.enabled = reqs[r].row.enabled
        BY <2>2 DEF Enroll, Overtaken
      <4>2. row'.enabled = row.enabled
        BY <2>2 DEF Enroll, TypeInv, TypeOK
      <4> QED
        BY <2>2, <4>1, <4>2 DEF Enroll, SetupInv
    <3> QED
      BY <3>1, <3>2 DEF EnabledSecretIsProved
  <2>3. ASSUME NEW r \in Requests, ActivateRead(r)
        PROVE  SetupInv' /\ EnabledSecretIsProved'
    BY <2>3 DEF ActivateRead, Goto, SetupInv, EnabledSecretIsProved, TypeInv
  <2>4. ASSUME NEW r \in Requests, Switch(r)
        PROVE  SetupInv' /\ EnabledSecretIsProved'
    <3>1. SetupInv'
      BY <2>4 DEF Switch, Finish, Goto, Idle, SetupInv, TypeInv
    <3>2. CASE reqs[r].pc = "disable"
      <4>1. ~row'.enabled
        BY <2>4, <3>2 DEF Switch, TypeInv, TypeOK
      <4> QED
        BY <3>1, <4>1 DEF EnabledSecretIsProved
    <3>3. CASE reqs[r].pc = "activate"
      <4>1. row'.secret = row.secret
        BY <2>4, <3>3 DEF Switch, TypeInv, TypeOK
      <4>2. ~stale' => row.secret = reqs[r].row.secret
        BY <2>4 DEF Switch, Overtaken
      <4>3. proved' = proved
        BY <2>4 DEF Switch
      <4> QED
        BY <3>1, <3>3, <4>1, <4>2, <4>3 DEF EnabledSecretIsProved, SetupInv
    <3> QED
      BY <2>4, <3>2, <3>3 DEF Switch
  <2>5. ASSUME NEW r \in Requests,
               DisableRead(r) \/ DeleteCodes(r) \/ LoginRead(r)
        PROVE  SetupInv' /\ EnabledSecretIsProved'
    BY <2>5 DEF DisableRead, DeleteCodes, LoginRead, Goto, SetupInv,
                EnabledSecretIsProved, TypeInv
  <2>6. ASSUME NEW r \in Requests, InsertCode(r)
        PROVE  SetupInv' /\ EnabledSecretIsProved'
    <3>1. /\ row' = row /\ stale' = stale /\ proved' = proved
          /\ \A x \in Requests \ {r} : reqs'[x] = reqs[x]
          /\ reqs'[r].pc \in {"idle", "insert_codes"}
      BY <2>6 DEF InsertCode, Finish, Goto, Idle, TypeInv, ReqType
    <3> QED
      BY <3>1 DEF SetupInv, EnabledSecretIsProved
  <2>7. ASSUME NEW r \in Requests,
               VerifyFails(r) \/ VerifyTotp(r) \/ FindCode(r) \/ MarkCode(r)
        PROVE  SetupInv' /\ EnabledSecretIsProved'
    <3>1. /\ row' = row /\ stale' = stale /\ proved' = proved
          /\ \A x \in Requests \ {r} : reqs'[x] = reqs[x]
          /\ reqs'[r].pc \in {"fail", "succeed", "mark"}
      BY <2>7 DEF VerifyFails, VerifyTotp, FindCode, MarkCode, Verdict, Goto,
                  Idle, TypeInv, ReqType
    <3> QED
      BY <3>1 DEF SetupInv, EnabledSecretIsProved
  <2>8. ASSUME NEW r \in Requests, Fail(r) \/ Succeed(r) \/ Abort(r)
        PROVE  SetupInv' /\ EnabledSecretIsProved'
    <3>1. /\ stale' = stale /\ proved' = proved /\ row'.enabled = row.enabled
          /\ row'.secret = row.secret
      BY <2>8 DEF Fail, Succeed, Abort, TypeInv, TypeOK
    <3>2. /\ \A x \in Requests \ {r} : reqs'[x] = reqs[x]
          /\ reqs'[r].pc = "idle"
      BY <2>8 DEF Fail, Succeed, Abort, Finish, Goto, Idle, TypeInv
    <3> QED
      BY <3>1, <3>2 DEF SetupInv, EnabledSecretIsProved
  <2>9. ASSUME (\E r \in Requests : AdminLock(r) \/ AdminUnlock(r)) \/ LockExpires
        PROVE  SetupInv' /\ EnabledSecretIsProved'
    <3>1. /\ stale' = stale /\ proved' = proved /\ row'.enabled = row.enabled
          /\ row'.secret = row.secret /\ reqs' = reqs
      BY <2>9 DEF AdminLock, AdminUnlock, LockExpires, TypeInv, TypeOK
    <3> QED
      BY <3>1 DEF SetupInv, EnabledSecretIsProved
  <2>10. CASE UNCHANGED vars
    BY <2>10 DEF vars, SetupInv, EnabledSecretIsProved
  <2> QED
    BY <2>1, <2>2, <2>3, <2>4, <2>5, <2>6, <2>7, <2>8, <2>9, <2>10 DEF Next
<1> QED
  BY <1>1, <1>2, TypesKept, PTL DEF Spec

-----------------------------------------------------------------------------
(* An administrator's lock *)

\* A login that is under way read an account that was not locked.
LoginInv ==
    \A r \in Requests :
      reqs[r].pc \in {"verify", "mark", "fail", "succeed"} => ~Locked(reqs[r].row)

\* Who may lift an administrator's lock.
Lifted ==
    row.lock = "admin" /\ row'.lock # "admin" =>
      \/ load'.requests < load.requests
      \/ \E r \in Requests : /\ reqs[r].pc \in {"fail", "succeed"}
                             /\ ~Locked(reqs[r].row)
                             /\ reqs'[r] = Idle

\* No handler lets a login on that read a locked account, and none but those
\* two lifts an administrator's lock.
LEMMA LoginStep ==
    TypeInv /\ LoginInv /\ [Next]_vars => LoginInv' /\ [Lifted]_vars
<1> SUFFICES ASSUME TypeInv, LoginInv, [Next]_vars
             PROVE  LoginInv' /\ [Lifted]_vars
  OBVIOUS
<1>1. ASSUME NEW r \in Requests,
             \/ EnrollRead(r) \/ ActivateRead(r) \/ DisableRead(r)
             \/ DeleteCodes(r)
      PROVE  LoginInv' /\ [Lifted]_vars
  BY <1>1 DEF EnrollRead, ActivateRead, DisableRead, DeleteCodes, Goto,
              LoginInv, Lifted, TypeInv
<1>2. ASSUME NEW r \in Requests, LoginRead(r)
      PROVE  LoginInv' /\ [Lifted]_vars
  BY <1>2 DEF LoginRead, Goto, LoginInv, Lifted, TypeInv
<1>3. ASSUME NEW r \in Requests, Enroll(r) \/ Switch(r) \/ InsertCode(r) \/ Abort(r)
      PROVE  LoginInv' /\ [Lifted]_vars
  <2>1. row'.lock = row.lock
    BY <1>3 DEF Enroll, Switch, InsertCode, Abort, TypeInv, TypeOK
  <2>2. /\ \A x \in Requests \ {r} : reqs'[x] = reqs[x]
        /\ reqs'[r].pc \in {"idle", "insert_codes"}
    BY <1>3 DEF Enroll, Switch, InsertCode, Abort, Finish, Goto, Idle,
                TypeInv, ReqType
  <2> QED
    BY <2>1, <2>2 DEF LoginInv, Lifted
<1>4. ASSUME NEW r \in Requests,
             VerifyFails(r) \/ VerifyTotp(r) \/ FindCode(r) \/ MarkCode(r)
      PROVE  LoginInv' /\ [Lifted]_vars
  <2>1. row' = row
    BY <1>4 DEF VerifyFails, VerifyTotp, FindCode, MarkCode
  <2>2. /\ \A x \in Requests \ {r} : reqs'[x] = reqs[x]
        /\ reqs'[r].row = reqs[r].row
        /\ reqs[r].pc \in {"verify", "mark"}
    BY <1>4 DEF VerifyFails, VerifyTotp, FindCode, MarkCode, Verdict, Goto,
                Idle, TypeInv, ReqType
  <2> QED
    BY <2>1, <2>2 DEF LoginInv, Lifted
<1>5. ASSUME NEW r \in Requests, Fail(r) \/ Succeed(r)
      PROVE  LoginInv' /\ [Lifted]_vars
  <2>1. /\ \A x \in Requests \ {r} : reqs'[x] = reqs[x]
        /\ reqs'[r] = Idle /\ Idle.pc = "idle"
        /\ reqs[r].pc \in {"fail", "succeed"}
    BY <1>5 DEF Fail, Succeed, Finish, Goto, Idle, TypeInv
  <2>2. ~Locked(reqs[r].row)
    BY <2>1 DEF LoginInv, Lifted
  <2> QED
    BY <2>1, <2>2 DEF LoginInv, Lifted
<1>6. ASSUME NEW r \in Requests, AdminLock(r) \/ AdminUnlock(r)
      PROVE  LoginInv' /\ [Lifted]_vars
  <2>1. reqs' = reqs
    BY <1>6 DEF AdminLock, AdminUnlock
  <2>2. load'.requests < load.requests
    BY <1>6 DEF AdminLock, AdminUnlock, Start, TypeInv, LoadType
  <2> QED
    BY <2>1, <2>2 DEF LoginInv, Lifted
<1>7. CASE LockExpires
  BY <1>7 DEF LockExpires, LoginInv, Lifted
<1>8. CASE UNCHANGED vars
  BY <1>8 DEF vars, LoginInv, Lifted
<1> QED
  BY <1>1, <1>2, <1>3, <1>4, <1>5, <1>6, <1>7, <1>8 DEF Next

\* Nothing else than an administrator, or a login that had read the row
\* before, lifts an administrator's lock, for any number of requests.
THEOREM AdminLockLifted == Spec => AdminLockHolds
<1>1. Init => LoginInv
  BY DEF Init, LoginInv, Idle
<1>2. TypeInv /\ LoginInv /\ [Next]_vars => LoginInv' /\ [Lifted]_vars
  BY LoginStep
<1> QED
  BY <1>1, <1>2, TypesKept, PTL DEF Spec, AdminLockHolds, Lifted

-----------------------------------------------------------------------------
(* Recovery codes *)

\* The logins that have found a code and not marked it yet.
Lookers(c) == {r \in Requests : reqs[r].pc = "mark" /\ reqs[r].code = c}

\* A code nobody marked was accepted for nobody; from then on it is accepted
\* at most for those who found it before.
CodeInv ==
    /\ \A c \in 1..MaxCodes : c > minted => spent[c] = 0
    /\ \A c \in DOMAIN codes : ~codes[c] => spent[c] = 0
    /\ \A c \in 1..MaxCodes :
         spent[c] + Cardinality(Lookers(c)) <= Cardinality(Requests)

\* The requests that have found a code are finitely many.
LEMMA LookersFinite ==
    ASSUME NEW c
    PROVE  /\ IsFiniteSet(Lookers(c)) /\ Cardinality(Lookers(c)) \in Nat
           /\ Cardinality(Requests) \in Nat
           /\ Cardinality(Lookers(c)) <= Cardinality(Requests)
<1>1. IsFiniteSet(Requests)
  BY SecondFactorAssumption
<1>2. Lookers(c) \in SUBSET Requests
  BY DEF Lookers
<1> QED
  BY <1>1, <1>2, FS_Subset, FS_CardinalityType

\* Fewer or as many logins hold the code after a step that lets nobody find one.
LEMMA NobodyFinds ==
    ASSUME TypeInv, CodeInv, NEW c \in 1..MaxCodes,
           Lookers(c)' \subseteq Lookers(c), spent'[c] = spent[c]
    PROVE  spent'[c] + Cardinality(Lookers(c)') <= Cardinality(Requests)
<1>1. /\ IsFiniteSet(Lookers(c)) /\ Cardinality(Lookers(c)) \in Nat
      /\ Cardinality(Requests) \in Nat
  BY LookersFinite
<1>2. Lookers(c)' \in SUBSET Lookers(c)
  OBVIOUS
<1>3. /\ Cardinality(Lookers(c)') <= Cardinality(Lookers(c))
      /\ IsFiniteSet(Lookers(c)')
  BY <1>1, <1>2, FS_Subset
<1>4. Cardinality(Lookers(c)') \in Nat
  BY <1>3, FS_CardinalityType
<1>5. spent[c] + Cardinality(Lookers(c)) <= Cardinality(Requests)
  BY DEF CodeInv
<1>6. spent[c] \in Nat
  BY DEF TypeInv
<1> QED
  BY <1>1, <1>3, <1>4, <1>5, <1>6

\* A recovery code is accepted for no more logins than run at the same time,
\* however many there are and however often the set is replaced.
THEOREM CodesAreSpent == Spec => []CodeSpendsBounded
<1>1. Init => CodeInv
  <2> SUFFICES ASSUME Init PROVE CodeInv
    OBVIOUS
  <2>1. \A c \in 1..MaxCodes : spent[c] = 0
    BY DEF Init
  <2>2. DOMAIN codes \subseteq 1..MaxCodes
    BY SecondFactorAssumption DEF Init
  <2>3. \A c : Cardinality(Lookers(c)) <= Cardinality(Requests)
               /\ Cardinality(Lookers(c)) \in Nat
    BY LookersFinite
  <2> QED
    BY <2>1, <2>2, <2>3 DEF CodeInv
<1>2. TypeInv /\ CodeInv /\ [Next]_vars => CodeInv'
  <2> SUFFICES ASSUME TypeInv, CodeInv, [Next]_vars PROVE CodeInv'
    OBVIOUS
  <2>1. ASSUME \A c : Lookers(c)' \subseteq Lookers(c),
               UNCHANGED <<codes, minted, spent>>
        PROVE  CodeInv'
    <3>1. \A c \in 1..MaxCodes :
            spent'[c] + Cardinality(Lookers(c)') <= Cardinality(Requests)
      BY <2>1, NobodyFinds
    <3> QED
      BY <2>1, <3>1 DEF CodeInv
  <2>2. ASSUME NEW r \in Requests,
               \/ EnrollRead(r) \/ Enroll(r) \/ ActivateRead(r) \/ DisableRead(r)
               \/ Switch(r) \/ LoginRead(r) \/ VerifyFails(r) \/ VerifyTotp(r)
               \/ Fail(r) \/ Succeed(r) \/ Abort(r)
        PROVE  CodeInv'
    <3>1. UNCHANGED <<codes, minted, spent>>
      BY <2>2 DEF EnrollRead, Enroll, ActivateRead, DisableRead, Switch,
                  LoginRead, VerifyFails, VerifyTotp, Fail, Succeed, Abort
    <3>2. /\ \A x \in Requests \ {r} : reqs'[x] = reqs[x]
          /\ reqs'[r].pc # "mark"
      BY <2>2 DEF EnrollRead, Enroll, ActivateRead, DisableRead, Switch,
                  LoginRead, VerifyFails, VerifyTotp, Fail, Succeed, Abort,
                  Finish, Goto, Verdict, Idle, TypeInv, ReqType
    <3>3. \A c : Lookers(c)' \subseteq Lookers(c)
      BY <3>2 DEF Lookers
    <3> QED
      BY <2>1, <3>1, <3>3
  <2>3. ASSUME (\E r \in Requests : AdminLock(r) \/ AdminUnlock(r))
               \/ LockExpires \/ UNCHANGED vars
        PROVE  CodeInv'
    <3>1. UNCHANGED <<codes, minted, spent, reqs>>
      BY <2>3 DEF AdminLock, AdminUnlock, LockExpires, vars
    <3>2. \A c : Lookers(c)' \subseteq Lookers(c)
      BY <3>1 DEF Lookers
    <3> QED
      BY <2>1, <3>1, <3>2
  <2>4. ASSUME NEW r \in Requests, DeleteCodes(r) PROVE CodeInv'
    <3>1. /\ \A x \in Requests \ {r} : reqs'[x] = reqs[x]
          /\ reqs'[r].pc # "mark"
      BY <2>4 DEF DeleteCodes, Goto, TypeInv
    <3>2. \A c : Lookers(c)' \subseteq Lookers(c)
      BY <3>1 DEF Lookers
    <3>3. DOMAIN codes' = {} /\ minted' = minted /\ spent' = spent
      BY <2>4 DEF DeleteCodes
    <3>4. \A c \in 1..MaxCodes :
            spent'[c] + Cardinality(Lookers(c)') <= Cardinality(Requests)
      BY <3>2, <3>3, NobodyFinds
    <3> QED
      BY <3>3, <3>4 DEF CodeInv
  <2>5. ASSUME NEW r \in Requests, InsertCode(r) PROVE CodeInv'
    <3>1. /\ \A x \in Requests \ {r} : reqs'[x] = reqs[x]
          /\ reqs'[r].pc # "mark"
      BY <2>5 DEF InsertCode, Finish, Goto, Idle, TypeInv, ReqType
    <3>2. \A c : Lookers(c)' \subseteq Lookers(c)
      BY <3>1 DEF Lookers
    <3>3. minted' = minted + 1 /\ spent' = spent /\ minted' \in 1..MaxCodes
      BY <2>5, SecondFactorAssumption DEF InsertCode, TypeInv
    <3>4. \A c \in 1..MaxCodes :
            spent'[c] + Cardinality(Lookers(c)') <= Cardinality(Requests)
      BY <3>2, <3>3, NobodyFinds
    <3>5. spent[minted'] = 0
      BY <3>3 DEF CodeInv, TypeInv
    <3>6. \A c \in DOMAIN codes' : c # minted' => c \in DOMAIN codes
                                                  /\ codes'[c] = codes[c]
      <4>1. codes' = [c \in DOMAIN codes \cup {minted'} |->
                        c # minted' /\ codes[c]]
        BY <2>5 DEF InsertCode
      <4>2. \A c \in DOMAIN codes : codes[c] \in BOOLEAN
        BY DEF TypeInv, TypeOK
      <4>3. DOMAIN codes' = DOMAIN codes \cup {minted'}
        BY <4>1
      <4> QED
        BY <4>1, <4>2, <4>3
    <3> QED
      BY <3>3, <3>4, <3>5, <3>6 DEF CodeInv, TypeInv
  <2>6. ASSUME NEW r \in Requests, FindCode(r) PROVE CodeInv'
    <3>1. UNCHANGED <<codes, minted, spent>>
      BY <2>6 DEF FindCode
    <3>2. PICK d \in DOMAIN codes :
            /\ ~codes[d]
            /\ reqs' = [reqs EXCEPT ![r] =
                          [pc |-> "mark", row |-> reqs[r].row, code |-> d]]
      BY <2>6 DEF FindCode, Goto
    <3>3. spent[d] = 0
      BY <3>2 DEF CodeInv
    <3>4. \A c : c # d => Lookers(c)' \subseteq Lookers(c)
      BY <3>2 DEF Lookers, TypeInv
    <3>5. Lookers(d)' \in SUBSET Requests
      BY DEF Lookers
    <3>6. /\ Cardinality(Lookers(d)') <= Cardinality(Requests)
          /\ Cardinality(Lookers(d)') \in Nat
      BY <3>5, SecondFactorAssumption, FS_Subset, FS_CardinalityType
    <3>7. ASSUME NEW c \in 1..MaxCodes
          PROVE  spent'[c] + Cardinality(Lookers(c)') <= Cardinality(Requests)
      <4>1. CASE c = d
        BY <4>1, <3>1, <3>3, <3>6
      <4>2. CASE c # d
        BY <4>2, <3>1, <3>4, NobodyFinds
      <4> QED
        BY <4>1, <4>2
    <3> QED
      BY <3>1, <3>7 DEF CodeInv
  <2>7. ASSUME NEW r \in Requests, MarkCode(r) PROVE CodeInv'
    <3>1. PICK d \in 1..MaxCodes :
            /\ d = reqs[r].code /\ d \in DOMAIN codes /\ d <= minted
            /\ reqs[r].pc = "mark"
      BY <2>7, SecondFactorAssumption DEF MarkCode, TypeInv, TypeOK
    <3>2. /\ codes' = [codes EXCEPT ![d] = TRUE]
          /\ spent' = [spent EXCEPT ![d] = @ + 1]
          /\ minted' = minted
          /\ reqs' = [reqs EXCEPT ![r] = [pc |-> "succeed", row |-> reqs[r].row]]
      BY <2>7, <3>1 DEF MarkCode, Goto
    <3>3. /\ spent'[d] = spent[d] + 1
          /\ \A c \in 1..MaxCodes : c # d => spent'[c] = spent[c]
      BY <3>1, <3>2 DEF TypeInv
    <3>4. /\ \A x \in Requests \ {r} : reqs'[x] = reqs[x]
          /\ reqs'[r].pc = "succeed"
      BY <3>2 DEF TypeInv
    <3>5. \A c : Lookers(c)' \subseteq Lookers(c)
      BY <3>4 DEF Lookers
    <3>6. Lookers(d)' = Lookers(d) \ {r} /\ r \in Lookers(d)
      BY <3>1, <3>4 DEF Lookers
    <3>7. spent'[d] + Cardinality(Lookers(d)') <= Cardinality(Requests)
      <4>1. Cardinality(Lookers(d)') = Cardinality(Lookers(d)) - 1
        BY <3>6, LookersFinite, FS_RemoveElement
      <4>2. spent[d] + Cardinality(Lookers(d)) <= Cardinality(Requests)
        BY <3>1 DEF CodeInv
      <4>3. /\ spent[d] \in Nat /\ Cardinality(Lookers(d)) \in Nat
            /\ Cardinality(Requests) \in Nat
        BY <3>1, LookersFinite DEF TypeInv
      <4> QED
        BY <3>3, <4>1, <4>2, <4>3
    <3>8. ASSUME NEW c \in 1..MaxCodes
          PROVE  spent'[c] + Cardinality(Lookers(c)') <= Cardinality(Requests)
      <4>1. CASE c = d
        BY <4>1, <3>7
      <4>2. CASE c # d
        BY <4>2, <3>3, <3>5, NobodyFinds
      <4> QED
        BY <4>1, <4>2
    <3>9. \A c \in DOMAIN codes' : /\ c \in DOMAIN codes
                                   /\ ~codes'[c] => c # d /\ ~codes[c]
      BY <3>1, <3>2
    <3>10. \A c \in 1..MaxCodes : c > minted' => spent'[c] = 0
      BY <3>1, <3>2, <3>3 DEF CodeInv, TypeInv
    <3>11. \A c \in DOMAIN codes' : ~codes'[c] => spent'[c] = 0
      <4>1. DOMAIN codes \subseteq 1..MaxCodes
        BY SecondFactorAssumption DEF TypeInv, TypeOK
      <4> QED
        BY <4>1, <3>3, <3>9 DEF CodeInv
    <3> QED
      BY <3>8, <3>10, <3>11 DEF CodeInv
  <2> QED
    BY <2>2, <2>3, <2>4, <2>5, <2>6, <2>7 DEF Next
<1>3. TypeInv /\ CodeInv => CodeSpendsBounded
  <2> SUFFICES ASSUME TypeInv, CodeInv, NEW c \in 1..MaxCodes
               PROVE  spent[c] <= Cardinality(Requests)
    BY DEF CodeSpendsBounded
  <2>1. spent[c] + Cardinality(Lookers(c)) <= Cardinality(Requests)
    BY DEF CodeInv
  <2>2. spent[c] \in Nat
    BY DEF TypeInv
  <2> QED
    BY <2>1, <2>2, LookersFinite
<1> QED
  BY <1>1, <1>2, <1>3, TypesKept, PTL DEF Spec

-----------------------------------------------------------------------------
(* Guesses *)

Levels == 0..(LockAfter - 1)

\* The ladder v stands above c: at the first level where they differ.
Above(v, c) ==
    \E j \in Levels : c[j] < v[j] /\ \A i \in Levels : i < j => c[i] = v[i]

\* The ladders the account has come down from, or might have.
Before(c) == {v \in Ladders : Above(v, c)}

\* Counts of requests are natural numbers, and a part of them is no larger.
LEMMA Crowd ==
    ASSUME NEW S \in SUBSET Requests
    PROVE  /\ IsFiniteSet(S) /\ Cardinality(S) \in 0..Cardinality(Requests)
           /\ Cardinality(Requests) \in Nat
           /\ \A T \in SUBSET S : Cardinality(T) <= Cardinality(S)
           /\ \A T \in SUBSET S : T # S => Cardinality(T) < Cardinality(S)
           /\ \A T \in SUBSET S :
                Cardinality(S \ T) = Cardinality(S) - Cardinality(T)
<1>1. IsFiniteSet(Requests)
  BY SecondFactorAssumption
<1>2. IsFiniteSet(S) /\ Cardinality(S) <= Cardinality(Requests)
  BY <1>1, FS_Subset
<1>3. Cardinality(S) \in Nat /\ Cardinality(Requests) \in Nat
  BY <1>1, <1>2, FS_CardinalityType
<1>4. ASSUME NEW T \in SUBSET S
      PROVE  /\ Cardinality(T) <= Cardinality(S)
             /\ T # S => Cardinality(T) < Cardinality(S)
             /\ Cardinality(S \ T) = Cardinality(S) - Cardinality(T)
  <2>1. /\ IsFiniteSet(T) /\ Cardinality(T) <= Cardinality(S)
        /\ Cardinality(S) = Cardinality(T) => S = T
    BY <1>2, FS_Subset
  <2>2. Cardinality(T) \in Nat
    BY <2>1, FS_CardinalityType
  <2>3. S \cap T = T
    OBVIOUS
  <2>4. Cardinality(S \ T) = Cardinality(S) - Cardinality(T)
    BY <1>2, <2>3, FS_Difference
  <2> QED
    BY <1>3, <2>1, <2>2, <2>4
<1>5. Cardinality(S) \in 0..Cardinality(Requests)
  BY <1>2, <1>3
<1> QED
  BY <1>2, <1>3, <1>4, <1>5

\* There are finitely many ladders: a ladder is a set of pairs.
LEMMA LaddersFinite == IsFiniteSet(Ladders) /\ Cardinality(Ladders) \in Nat
<1> DEFINE Pairs == Levels \X (0..Cardinality(Requests))
           graph == [v \in Ladders |-> {<<i, v[i]>> : i \in Levels}]
<1>1. IsFiniteSet(Levels) /\ IsFiniteSet(0..Cardinality(Requests))
  BY SecondFactorAssumption, FS_Interval, Crowd, Requests \in SUBSET Requests
  DEF Levels
<1>2. IsFiniteSet(SUBSET Pairs)
  BY <1>1, FS_Product, FS_SUBSET
<1>3. graph \in Injection(Ladders, SUBSET Pairs)
  <2>1. ASSUME NEW v \in Ladders PROVE graph[v] \in SUBSET Pairs
    BY DEF Ladders, Levels
  <2>2. ASSUME NEW v \in Ladders, NEW w \in Ladders, graph[v] = graph[w]
        PROVE  v = w
    <3>1. ASSUME NEW i \in Levels PROVE v[i] = w[i]
      <4>1. <<i, v[i]>> \in graph[w]
        BY <2>2
      <4> QED
        BY <4>1
    <3>2. /\ v \in [Levels -> 0..Cardinality(Requests)]
          /\ w \in [Levels -> 0..Cardinality(Requests)]
      BY DEF Ladders, Levels
    <3> QED
      BY <3>1, <3>2
  <2> QED
    BY <2>1, <2>2 DEF Injection, IsInjective
<1>4. IsFiniteSet(Ladders)
  BY <1>2, <1>3, FS_Injection
<1> QED
  BY <1>4, FS_CardinalityType

\* A ladder whose first lower level lost m requests has at least m more ladders
\* above it: the old one with one up to m - 1 requests taken from that level.
LEMMA ComesDown ==
    ASSUME NEW c \in Ladders, NEW d \in Ladders, NEW m \in Nat \ {0},
           NEW j \in Levels, d[j] <= c[j] - m,
           \A i \in Levels : i < j => d[i] = c[i]
    PROVE  Cardinality(Before(c)) + m <= Cardinality(Before(d))
<1> DEFINE taken(i) == [c EXCEPT ![j] = c[j] - i]
           Between == {taken(i) : i \in 0..(m - 1)}
           pick == [i \in 0..(m - 1) |-> taken(i)]
<1>1. /\ Levels \subseteq Nat /\ Cardinality(Requests) \in Nat
      /\ c \in [Levels -> 0..Cardinality(Requests)]
      /\ d \in [Levels -> 0..Cardinality(Requests)]
      /\ \A i, k \in Levels : i <= k => c[i] <= c[k] /\ d[i] <= d[k]
  BY SecondFactorAssumption, Crowd, Requests \in SUBSET Requests
  DEF Ladders, Levels
<1>2. ASSUME NEW i \in 0..(m - 1)
      PROVE  taken(i) \in Before(d) \ Before(c)
  <2>1. c[j] - i \in 0..Cardinality(Requests) /\ d[j] < c[j] - i
    BY <1>1
  <2>2. taken(i) \in [Levels -> 0..Cardinality(Requests)]
    BY <1>1, <2>1
  <2>3. ASSUME NEW a \in Levels, NEW b \in Levels, a <= b
        PROVE  taken(i)[a] <= taken(i)[b]
    <3>1. CASE a = j /\ b # j
      BY <1>1, <2>1, <2>3, <3>1
    <3>2. CASE a # j /\ b = j
      <4>1. c[a] = d[a] /\ d[a] <= d[j]
        BY <1>1, <2>3, <3>2
      <4> QED
        BY <1>1, <2>1, <3>2, <4>1
    <3>3. CASE (a = j) = (b = j)
      BY <1>1, <2>1, <2>3, <3>3
    <3> QED
      BY <3>1, <3>2, <3>3
  <2>4. taken(i) \in Ladders
    BY <2>2, <2>3 DEF Ladders, Levels
  <2>5. Above(taken(i), d)
    BY <1>1, <2>1 DEF Above
  <2>6. ~Above(taken(i), c)
    BY <1>1, <2>1 DEF Above
  <2> QED
    BY <2>4, <2>5, <2>6 DEF Before
<1>3. Cardinality(Between) = m /\ IsFiniteSet(Between)
  <2>1. IsFiniteSet(0..(m - 1)) /\ Cardinality(0..(m - 1)) = m
    BY FS_Interval
  <2>2. pick \in Bijection(0..(m - 1), Between)
    <3>1. ASSUME NEW a \in 0..(m - 1), NEW b \in 0..(m - 1), pick[a] = pick[b]
          PROVE  a = b
      <4>1. pick[a][j] = c[j] - a /\ pick[b][j] = c[j] - b
        BY <1>1
      <4> QED
        BY <1>1, <3>1, <4>1
    <3>2. \A x \in Between : \E i \in 0..(m - 1) : pick[i] = x
      OBVIOUS
    <3>3. \A i \in 0..(m - 1) : pick[i] \in Between
      OBVIOUS
    <3> HIDE DEF pick, Between, taken
    <3>4. pick \in [0..(m - 1) -> Between]
      BY <3>3 DEF pick
    <3> QED
      BY <3>1, <3>2, <3>4
      DEF Bijection, Injection, Surjection, IsInjective
  <2> QED
    BY <2>1, <2>2, FS_Bijection DEF ExistsBijection
<1>4. Before(c) \cap Between = {}
  BY <1>2
<1>5. Before(c) \cup Between \subseteq Before(d)
  <2>1. ASSUME NEW v \in Ladders, Above(v, c) PROVE Above(v, d)
    <3>1. PICK k \in Levels : /\ c[k] < v[k]
                              /\ \A i \in Levels : i < k => c[i] = v[i]
      BY <2>1 DEF Above
    <3>2. v \in [Levels -> 0..Cardinality(Requests)]
      BY DEF Ladders, Levels
    <3>3. CASE k < j
      BY <1>1, <3>1, <3>2, <3>3 DEF Above
    <3>4. CASE k = j
      <4>1. d[j] < v[j]
        BY <1>1, <3>1, <3>2, <3>4
      <4> QED
        BY <1>1, <3>1, <3>4, <4>1 DEF Above
    <3>5. CASE k > j
      <4>1. d[j] < v[j]
        BY <1>1, <3>1, <3>2, <3>5
      <4>2. \A i \in Levels : i < j => d[i] = v[i]
        BY <1>1, <3>1, <3>5
      <4> QED
        BY <4>1, <4>2 DEF Above
    <3> QED
      BY <1>1, <3>3, <3>4, <3>5
  <2> QED
    BY <1>2, <2>1 DEF Before
<1>6. /\ IsFiniteSet(Before(c)) /\ IsFiniteSet(Before(d))
      /\ Cardinality(Before(c)) \in Nat /\ Cardinality(Before(d)) \in Nat
  <2>1. Before(c) \in SUBSET Ladders /\ Before(d) \in SUBSET Ladders
    BY DEF Before
  <2> QED
    BY <2>1, LaddersFinite, FS_Subset, FS_CardinalityType
<1> HIDE DEF Between
<1>7. Cardinality(Before(c) \cup Between) = Cardinality(Before(c)) + m
  <2>1. Cardinality(Before(c) \cap Between) = 0
    BY <1>4, FS_EmptySet
  <2>2. Cardinality(Before(c) \cup Between)
          = Cardinality(Before(c)) + Cardinality(Between)
            - Cardinality(Before(c) \cap Between)
    BY <1>3, <1>6, FS_Union
  <2> QED
    BY <1>3, <1>6, <2>1, <2>2
<1>8. Cardinality(Before(c) \cup Between) <= Cardinality(Before(d))
  BY <1>5, <1>6, FS_Subset
<1> QED
  BY <1>7, <1>8

\* The count as the next failure can find it; a locked account has reached the
\* limit, and so has one whose lock is over.
Reached == IF Locked(row) \/ row.fails >= LockAfter THEN LockAfter ELSE row.fails

\* A login is under way, and has read the row.
UnderWay(r) == reqs[r].pc \in {"verify", "mark", "fail", "succeed"}

\* The count that a failure of r can put the counter back to, and then one on.
Back(r) ==
    IF UnderWay(r) /\ reqs[r].row.fails < Reached
    THEN reqs[r].row.fails ELSE Reached

AtMost(j) == {r \in Requests : Back(r) <= j}

Ladder == [j \in Levels |-> Cardinality(AtMost(j))]

\* The requests that may still get an answer though the limit is reached: they
\* read the row after a lock was over, or can still read it.
Late ==
    {r \in Requests :
       /\ Reached = LockAfter
       /\ IF UnderWay(r) THEN reqs[r].row.fails >= LockAfter ELSE ~Locked(row)}

\* Every failure so far has brought the ladder down, and every late request has
\* room for one more.
GuessInv ==
    /\ guesses \in Nat
    /\ guesses + Cardinality(Late) <= Cardinality(Before(Ladder))

\* What a login holds, and the places of the requests on the ladder.
Placed ==
    /\ Reached \in 0..LockAfter /\ row.fails \in Nat
    /\ \A r \in Requests : UnderWay(r) => reqs[r].row.fails \in Nat
    /\ \A r \in Requests : Back(r) \in 0..Reached
    /\ \A r \in Late : Back(r) = LockAfter
    /\ Ladder \in Ladders
    /\ Late \in SUBSET Requests /\ \A j \in Levels : AtMost(j) \in SUBSET Requests

\* Every request has a place, in every state the types allow.
LEMMA Places == TypeInv => Placed
<1> SUFFICES ASSUME TypeInv PROVE Placed
  OBVIOUS
<1>1. Reached \in 0..LockAfter /\ row.fails \in Nat
  BY SecondFactorAssumption DEF Reached, TypeInv, TypeOK
<1>2. ASSUME NEW r \in Requests, UnderWay(r) PROVE reqs[r].row.fails \in Nat
  BY <1>2 DEF UnderWay, TypeInv, ReqType, Row, Idle
<1>3. \A r \in Requests : Back(r) \in 0..Reached
  BY <1>1, <1>2 DEF Back
<1>4. ASSUME NEW r \in Late PROVE Back(r) = LockAfter
  BY <1>1, <1>2 DEF Late, Back
<1>5. Ladder \in Ladders
  <2>1. ASSUME NEW j \in Levels
        PROVE  Cardinality(AtMost(j)) \in 0..Cardinality(Requests)
    <3>1. AtMost(j) \in SUBSET Requests
      BY DEF AtMost
    <3> QED
      BY <3>1, Crowd
  <2>2. ASSUME NEW i \in Levels, NEW j \in Levels, i <= j
        PROVE  Cardinality(AtMost(i)) <= Cardinality(AtMost(j))
    <3>1. \A r \in Requests : Back(r) \in Nat
      BY <1>1, <1>3
    <3>2. i \in Nat /\ j \in Nat
      BY SecondFactorAssumption DEF Levels
    <3>3. AtMost(i) \in SUBSET AtMost(j) /\ AtMost(j) \in SUBSET Requests
      BY <2>2, <3>1, <3>2 DEF AtMost
    <3> QED
      BY <3>3, Crowd
  <2> QED
    BY <2>1, <2>2 DEF Ladders, Ladder, Levels
<1> QED
  BY <1>1, <1>2, <1>3, <1>4, <1>5 DEF Placed, Late, AtMost

\* The same after a step.
LEMMA PlacesNext == TypeInv' => Placed'
BY Places, PTL

\* Late requests have room even if there was no failure yet: each of them is
\* missing on every level.
LEMMA LateFits == TypeInv => Cardinality(Late) <= Cardinality(Before(Ladder))
<1> SUFFICES ASSUME TypeInv
             PROVE  Cardinality(Late) <= Cardinality(Before(Ladder))
  OBVIOUS
<1> DEFINE n == Cardinality(Requests)
           top == [j \in Levels |-> n]
<1>1. /\ Ladder \in Ladders /\ Late \in SUBSET Requests
      /\ AtMost(0) \in SUBSET Requests
      /\ 0 \in Levels /\ \A j \in Levels : j < LockAfter /\ ~(j < 0)
  BY Places, SecondFactorAssumption DEF Placed, Levels
<1>2. /\ n \in Nat /\ Cardinality(Late) \in 0..n
      /\ Cardinality(Requests \ Late) = n - Cardinality(Late)
      /\ Requests \ Late \in SUBSET Requests
  BY <1>1, Crowd, Requests \in SUBSET Requests
<1>3. top \in Ladders
  BY <1>2 DEF Ladders, Levels
<1>4. Cardinality(AtMost(0)) <= n - Cardinality(Late)
  <2>1. AtMost(0) \in SUBSET (Requests \ Late)
    BY <1>1, Places DEF Placed, AtMost
  <2> QED
    BY <1>2, <2>1, Crowd
<1>5. CASE Late = {}
  <2>1. IsFiniteSet(Before(Ladder))
    BY LaddersFinite, FS_Subset, Before(Ladder) \in SUBSET Ladders DEF Before
  <2> QED
    BY <1>5, <2>1, FS_EmptySet, FS_CardinalityType
<1>6. CASE Late # {}
  <2>1. Cardinality(Late) \in Nat \ {0}
    BY <1>1, <1>2, <1>6, Crowd, FS_EmptySet
  <2>2. Ladder[0] <= top[0] - Cardinality(Late)
    BY <1>1, <1>4 DEF Ladder
  <2>3. Cardinality(Before(top)) + Cardinality(Late) <= Cardinality(Before(Ladder))
    BY <1>1, <1>3, <2>1, <2>2, ComesDown
  <2>4. Cardinality(Before(top)) \in Nat
    BY LaddersFinite, FS_Subset, FS_CardinalityType,
       Before(top) \in SUBSET Ladders DEF Before
  <2>5. Cardinality(Before(Ladder)) \in Nat
    BY LaddersFinite, FS_Subset, FS_CardinalityType,
       Before(Ladder) \in SUBSET Ladders DEF Before
  <2> QED
    BY <1>2, <2>3, <2>4, <2>5
<1> QED
  BY <1>5, <1>6

\* A step that starts the count anew.
LEMMA Restarts == TypeInv' /\ guesses' = 0 => GuessInv'
<1>1. TypeInv' => (Cardinality(Late) <= Cardinality(Before(Ladder)))'
  BY LateFits, PTL
<1>2. TypeInv' => Cardinality(Late') \in Nat
  BY PlacesNext, Crowd DEF Placed
<1> QED
  BY <1>1, <1>2 DEF GuessInv

\* A step that takes m requests off a level, and leaves the lower levels alone,
\* pays for m failures or late requests.
LEMMA LevelFalls ==
    ASSUME TypeInv, TypeInv', GuessInv, guesses' \in Nat,
           NEW m \in Nat \ {0}, NEW j \in Levels,
           \A i \in Levels : i < j => AtMost(i)' = AtMost(i),
           Cardinality(AtMost(j)') <= Cardinality(AtMost(j)) - m,
           guesses' + Cardinality(Late') <= guesses + Cardinality(Late) + m
    PROVE  GuessInv'
<1>1. Ladder \in Ladders /\ Ladder' \in Ladders
  BY Places, PlacesNext DEF Placed
<1>2. /\ Ladder'[j] <= Ladder[j] - m
      /\ \A i \in Levels : i < j => Ladder'[i] = Ladder[i]
  BY DEF Ladder
<1>3. Cardinality(Before(Ladder)) + m <= Cardinality(Before(Ladder'))
  BY <1>1, <1>2, ComesDown
<1>4. /\ guesses \in Nat
      /\ guesses + Cardinality(Late) <= Cardinality(Before(Ladder))
  BY DEF GuessInv
<1>5. /\ Cardinality(Late) \in Nat /\ Cardinality(Late') \in Nat
      /\ Cardinality(Before(Ladder)) \in Nat
      /\ Cardinality(Before(Ladder')) \in Nat
  <2>1. /\ Late \in SUBSET Requests /\ Late' \in SUBSET Requests
        /\ Before(Ladder) \in SUBSET Ladders /\ Before(Ladder') \in SUBSET Ladders
    BY Places, PlacesNext DEF Placed, Before
  <2> QED
    BY <2>1, Crowd, LaddersFinite, FS_Subset, FS_CardinalityType
<1>6. guesses' + Cardinality(Late') <= Cardinality(Before(Ladder'))
  BY <1>3, <1>4, <1>5
<1> QED
  BY <1>6 DEF GuessInv

\* A step that takes no request off a level lets no more failures happen.
LEMMA LevelsStay ==
    ASSUME TypeInv, TypeInv', GuessInv, guesses' \in Nat,
           \A i \in Levels : AtMost(i)' = AtMost(i),
           guesses' + Cardinality(Late') <= guesses + Cardinality(Late)
    PROVE  GuessInv'
<1>1. Ladder' = Ladder
  BY DEF Ladder
<1>2. /\ guesses \in Nat
      /\ guesses + Cardinality(Late) <= Cardinality(Before(Ladder))
  BY DEF GuessInv
<1>3. /\ Cardinality(Late) \in Nat /\ Cardinality(Late') \in Nat
      /\ Cardinality(Before(Ladder)) \in Nat
  <2>1. /\ Late \in SUBSET Requests /\ Late' \in SUBSET Requests
        /\ Before(Ladder) \in SUBSET Ladders
    BY Places, PlacesNext DEF Placed, Before
  <2> QED
    BY <2>1, Crowd, LaddersFinite, FS_Subset, FS_CardinalityType
<1>4. guesses' + Cardinality(Late') <= Cardinality(Before(Ladder'))
  BY <1>1, <1>2, <1>3
<1> QED
  BY <1>4 DEF GuessInv

\* One request reads the row, goes on, or gives up what it read, and the count
\* and the lock stay: it may go up a level, never down.
LEMMA OneMovesOn ==
    ASSUME TypeInv, TypeInv', GuessInv, NEW r \in Requests,
           \A x \in Requests \ {r} : reqs'[x] = reqs[x],
           row'.fails = row.fails, row'.lock = row.lock, guesses' = guesses,
           UnderWay(r)' =>
             IF UnderWay(r) THEN reqs'[r].row.fails = reqs[r].row.fails
             ELSE reqs'[r].row.fails = row.fails /\ ~Locked(row)
    PROVE  GuessInv'
<1>1. Reached' = Reached /\ Locked(row') = Locked(row)
  BY DEF Reached, Locked
<1>2. \A x \in Requests \ {r} : /\ Back(x)' = Back(x)
                                /\ x \in Late' <=> x \in Late
  BY <1>1 DEF Back, UnderWay, Late
<1>3. /\ Reached \in 0..LockAfter /\ row.fails \in Nat
      /\ Back(r) \in 0..Reached /\ Back(r)' \in 0..Reached
      /\ \A x \in Requests : Back(x) \in Nat /\ Back(x)' \in Nat
      /\ UnderWay(r) => reqs[r].row.fails \in Nat
  BY <1>1, Places, PlacesNext, SecondFactorAssumption DEF Placed
<1>4. Back(r) <= Back(r)'
  BY <1>1, <1>3, SecondFactorAssumption DEF Back, Reached
<1>5. /\ Late \in SUBSET Requests /\ Late' \in SUBSET Requests
      /\ \A i \in Levels : AtMost(i) \in SUBSET Requests
      /\ guesses \in Nat /\ Levels \subseteq Nat
  BY Places, PlacesNext, SecondFactorAssumption DEF Placed, GuessInv, Levels
<1>6. CASE Back(r)' = Back(r)
  <2>1. \A i \in Levels : AtMost(i)' = AtMost(i)
    BY <1>2, <1>6 DEF AtMost
  <2>2. r \in Late' => r \in Late
    BY <1>1, <1>3, <1>6, SecondFactorAssumption DEF Late, Back, Reached
  <2>3. Late' \in SUBSET Late
    BY <1>2, <1>5, <2>2
  <2>4. Cardinality(Late') <= Cardinality(Late)
    BY <1>5, <2>3, Crowd
  <2>5. Cardinality(Late) \in Nat /\ Cardinality(Late') \in Nat
    BY <1>5, Crowd
  <2> QED
    BY <1>5, <2>1, <2>4, <2>5, LevelsStay
<1>7. CASE Back(r)' > Back(r)
  <2>1. PICK j \in Levels : j = Back(r)
    BY <1>3, <1>7, SecondFactorAssumption DEF Levels
  <2>2. \A i \in Levels : i < j => AtMost(i)' = AtMost(i)
    BY <1>2, <1>3, <1>4, <1>5, <2>1 DEF AtMost
  <2>3. AtMost(j)' = AtMost(j) \ {r} /\ r \in AtMost(j)
    BY <1>2, <1>3, <1>5, <1>7, <2>1 DEF AtMost
  <2>4. Cardinality(AtMost(j)') <= Cardinality(AtMost(j)) - 1
    BY <1>5, <2>1, <2>3, Crowd, FS_RemoveElement
  <2>5. Late' \in SUBSET (Late \cup {r})
    BY <1>2, <1>5
  <2>6. Cardinality(Late') <= Cardinality(Late) + 1
    <3>1. /\ IsFiniteSet(Late \cup {r}) /\ IsFiniteSet(Late)
          /\ Cardinality(Late \cup {r}) <= Cardinality(Late) + 1
      BY <1>5, Crowd, FS_AddElement
    <3>2. Cardinality(Late') <= Cardinality(Late \cup {r})
      BY <2>5, <3>1, FS_Subset
    <3> QED
      BY <1>5, <3>1, <3>2, Crowd, FS_CardinalityType
  <2>7. guesses' + Cardinality(Late') <= guesses + Cardinality(Late) + 1
    BY <1>5, <2>6, Crowd
  <2> QED
    BY <1>5, <2>1, <2>2, <2>4, <2>7, LevelFalls
<1> QED
  BY <1>3, <1>4, <1>6, <1>7

\* A failure is paid for: by the request itself if it puts the counter on or
\* back, together with those that are late because of it; by its own lateness
\* if the limit was reached anyway.
LEMMA FailurePaid ==
    ASSUME TypeInv, TypeInv', LoginInv, GuessInv, NEW r \in Requests, Fail(r)
    PROVE  GuessInv'
<1>1. PICK k \in Nat : k = reqs[r].row.fails
  BY Places DEF Placed, Fail, UnderWay
<1>2. /\ UnderWay(r) /\ guesses \in Nat /\ guesses' = guesses + 1
      /\ \A x \in Requests \ {r} : reqs'[x] = reqs[x]
      /\ ~UnderWay(r)' /\ LockAfter \in Nat \ {0}
  BY SecondFactorAssumption
  DEF Fail, Finish, Goto, Idle, UnderWay, TypeInv, GuessInv
<1>3. row'.fails = k + 1 /\ (Locked(row') <=> k + 1 >= LockAfter)
  <2>1. ~Locked(reqs[r].row)
    BY <1>2 DEF LoginInv, UnderWay
  <2> QED
    BY <1>1, <2>1 DEF Fail, Locked, TypeInv, TypeOK
<1>4. Reached' = IF k + 1 >= LockAfter THEN LockAfter ELSE k + 1
  BY <1>1, <1>2, <1>3 DEF Reached
<1>5. /\ Reached \in 0..LockAfter /\ Back(r)' = Reached'
      /\ Back(r) = IF k < Reached THEN k ELSE Reached
      /\ \A x \in Requests : Back(x) \in Nat /\ Back(x)' \in Nat
      /\ \A x \in Requests : UnderWay(x) => reqs[x].row.fails \in Nat
  BY <1>1, <1>2, <1>4, Places, PlacesNext DEF Placed, Back
<1>6. /\ Late \in SUBSET Requests /\ Late' \in SUBSET Requests
      /\ \A i \in Levels : /\ AtMost(i) \in SUBSET Requests
                           /\ AtMost(i)' \in SUBSET Requests
      /\ Levels \subseteq Nat
  BY Places, PlacesNext, SecondFactorAssumption DEF Placed, Levels
<1>7. ASSUME NEW x \in Requests \ {r}
      PROVE  /\ Back(x)' = IF UnderWay(x) /\ reqs[x].row.fails < Reached'
                           THEN reqs[x].row.fails ELSE Reached'
             /\ x \in Late' <=> /\ Reached' = LockAfter /\ UnderWay(x)
                                /\ reqs[x].row.fails >= LockAfter
  BY <1>2, <1>3, <1>4 DEF Back, UnderWay, Late
<1>8. r \notin Late'
  BY <1>2, <1>3, <1>4 DEF Late
<1>9. CASE k < Reached
  <2>1. PICK j \in Levels : j = k
    BY <1>1, <1>5, <1>9, SecondFactorAssumption DEF Levels
  <2>2. \A i \in Levels : i < j => AtMost(i)' = AtMost(i)
    <3>1. ASSUME NEW i \in Levels, i < j, NEW x \in Requests
          PROVE  Back(x)' <= i <=> Back(x) <= i
      BY <1>2, <1>4, <1>5, <1>6, <1>7, <1>9, <2>1, <3>1 DEF Back
    <3> QED
      BY <3>1 DEF AtMost
  <2>3. AtMost(j)' = AtMost(j) \ {r} /\ r \in AtMost(j)
    <3>1. ASSUME NEW x \in Requests
          PROVE  Back(x)' <= j <=> Back(x) <= j /\ x # r
      BY <1>2, <1>4, <1>5, <1>6, <1>7, <1>9, <2>1 DEF Back
    <3> QED
      BY <3>1, <1>5, <1>9, <2>1 DEF AtMost
  <2>4. Cardinality(AtMost(j)') <= Cardinality(AtMost(j)) - 1
    BY <1>6, <2>1, <2>3, Crowd, FS_RemoveElement
  <2>5. Late' \in SUBSET Late
    <3>1. ASSUME NEW x \in Late' PROVE x \in Late
      BY <1>4, <1>5, <1>6, <1>7, <1>8, <1>9 DEF Late
    <3> QED
      BY <3>1
  <2>6. guesses' + Cardinality(Late') <= guesses + Cardinality(Late) + 1
    BY <1>2, <1>6, <2>5, Crowd
  <2> QED
    BY <1>2, <2>1, <2>2, <2>4, <2>6, LevelFalls
<1>10. CASE k >= Reached /\ Reached < LockAfter
  <2>1. PICK j \in Levels : j = Reached
    BY <1>5, <1>10, SecondFactorAssumption DEF Levels
  <2>2. \A i \in Levels : i < j => AtMost(i)' = AtMost(i)
    <3>1. ASSUME NEW i \in Levels, i < j, NEW x \in Requests
          PROVE  Back(x)' <= i <=> Back(x) <= i
      BY <1>2, <1>4, <1>5, <1>6, <1>7, <1>10, <2>1, <3>1 DEF Back
    <3> QED
      BY <3>1 DEF AtMost
  <2>3. /\ AtMost(j)' \in SUBSET (AtMost(j) \ (Late' \cup {r}))
        /\ Late' \cup {r} \in SUBSET AtMost(j)
    <3>1. AtMost(j)' = {x \in Requests : Back(x)' <= j}
      BY DEF AtMost
    <3>2. \A x \in Requests : Back(x) <= j
      BY <1>5, <2>1, Places DEF Placed
    <3>3. AtMost(j) = Requests
      BY <3>2 DEF AtMost
    <3>4. ASSUME NEW x \in Late' PROVE ~(Back(x)' <= j)
      BY <1>4, <1>5, <1>10, <2>1, PlacesNext DEF Placed
    <3>5. ~(Back(r)' <= j)
      BY <1>1, <1>2, <1>4, <1>5, <1>10, <2>1
    <3> QED
      BY <1>6, <3>1, <3>3, <3>4, <3>5
  <2>4. Cardinality(Late' \cup {r}) = Cardinality(Late') + 1
    BY <1>6, <1>8, Crowd, FS_AddElement
  <2>5. /\ Cardinality(AtMost(j)')
             <= Cardinality(AtMost(j) \ (Late' \cup {r}))
        /\ Cardinality(AtMost(j) \ (Late' \cup {r}))
             = Cardinality(AtMost(j)) - Cardinality(Late' \cup {r})
    <3>1. AtMost(j) \in SUBSET Requests
          /\ AtMost(j) \ (Late' \cup {r}) \in SUBSET Requests
      BY <1>6
    <3> QED
      BY <2>3, <3>1, Crowd
  <2>6. /\ Cardinality(Late') \in Nat /\ Cardinality(Late) \in Nat
        /\ Cardinality(AtMost(j)) \in Nat /\ Cardinality(AtMost(j)') \in Nat
    BY <1>6, Crowd
  <2> DEFINE m == Cardinality(Late') + 1
  <2>7. Cardinality(AtMost(j)') <= Cardinality(AtMost(j)) - m
    BY <2>4, <2>5, <2>6
  <2>8. guesses' + Cardinality(Late') <= guesses + Cardinality(Late) + m
    BY <1>2, <2>6
  <2>9. m \in Nat \ {0}
    BY <2>6
  <2> HIDE DEF m
  <2> QED
    BY <1>2, <2>2, <2>7, <2>8, <2>9, LevelFalls
<1>11. CASE k >= Reached /\ Reached = LockAfter
  <2>1. Reached' = Reached
    BY <1>1, <1>2, <1>4, <1>11
  <2>2. \A x \in Requests : Back(x)' = Back(x)
    BY <1>5, <1>7, <1>11, <2>1 DEF Back
  <2>3. \A i \in Levels : AtMost(i)' = AtMost(i)
    BY <2>2 DEF AtMost
  <2>4. Late' \in SUBSET (Late \ {r}) /\ r \in Late
    <3>1. r \in Late
      BY <1>1, <1>2, <1>11 DEF Late
    <3>2. ASSUME NEW x \in Late' PROVE x \in Late \ {r}
      BY <1>6, <1>7, <1>8, <1>11 DEF Late
    <3> QED
      BY <3>1, <3>2
  <2>5. /\ Cardinality(Late \ {r}) = Cardinality(Late) - 1
        /\ Cardinality(Late') <= Cardinality(Late \ {r})
    <3>1. Late \ {r} \in SUBSET Requests
      BY <1>6
    <3> QED
      BY <1>6, <2>4, <3>1, Crowd, FS_RemoveElement
  <2>6. Cardinality(Late') \in Nat /\ Cardinality(Late) \in Nat
    BY <1>6, Crowd
  <2>7. guesses' + Cardinality(Late') <= guesses + Cardinality(Late)
    BY <1>2, <2>5, <2>6
  <2> QED
    BY <1>2, <2>3, <2>7, LevelsStay
<1> QED
  BY <1>1, <1>2, <1>5, <1>9, <1>10, <1>11

\* An administrator's lock leaves only those that read the row after a lock was
\* over; they are off every level that the others leave.
LEMMA LockPaid ==
    ASSUME TypeInv, TypeInv', GuessInv, NEW r \in Requests, AdminLock(r)
    PROVE  GuessInv'
<1>1. /\ reqs' = reqs /\ guesses' = guesses /\ Locked(row')
      /\ Reached' = LockAfter /\ LockAfter \in Nat \ {0}
  BY SecondFactorAssumption
  DEF AdminLock, Locked, Reached, TypeInv, TypeOK
<1>2. /\ Late \in SUBSET Requests /\ Late' \in SUBSET Requests
      /\ \A i \in Levels : /\ AtMost(i) \in SUBSET Requests
                           /\ AtMost(i)' \in SUBSET Requests
      /\ Levels \subseteq Nat /\ guesses \in Nat /\ Reached \in 0..LockAfter
      /\ \A x \in Requests : Back(x) \in 0..Reached
  BY Places, PlacesNext, SecondFactorAssumption DEF Placed, Levels, GuessInv
<1>3. \A x \in Requests :
        UnderWay(x) => reqs[x].row.fails \in Nat
  BY Places DEF Placed
<1>4. \A x \in Requests :
        /\ Back(x)' = IF UnderWay(x) /\ reqs[x].row.fails < LockAfter
                      THEN reqs[x].row.fails ELSE LockAfter
        /\ x \in Late' <=> UnderWay(x) /\ reqs[x].row.fails >= LockAfter
  BY <1>1 DEF Back, UnderWay, Late
<1>5. /\ Cardinality(Late) \in Nat /\ Cardinality(Late') \in Nat
  BY <1>2, Crowd
<1>6. CASE Reached = LockAfter
  <2>1. \A x \in Requests : Back(x)' = Back(x)
    BY <1>4, <1>6 DEF Back
  <2>2. \A i \in Levels : AtMost(i)' = AtMost(i)
    BY <2>1 DEF AtMost
  <2>3. Late' \in SUBSET Late
    BY <1>2, <1>4, <1>6 DEF Late
  <2>4. Cardinality(Late') <= Cardinality(Late)
    BY <1>2, <2>3, Crowd
  <2> QED
    BY <1>1, <1>2, <1>5, <2>2, <2>4, LevelsStay
<1>7. CASE Reached < LockAfter
  <2>1. PICK j \in Levels : j = Reached
    BY <1>1, <1>2, <1>7 DEF Levels
  <2>2. \A i \in Levels : i < j => AtMost(i)' = AtMost(i)
    <3>1. ASSUME NEW i \in Levels, i < j, NEW x \in Requests
          PROVE  Back(x)' <= i <=> Back(x) <= i
      BY <1>1, <1>2, <1>3, <1>4, <1>7, <2>1, <3>1 DEF Back
    <3> QED
      BY <3>1 DEF AtMost
  <2>3. AtMost(j) = Requests
    BY <1>2, <2>1 DEF AtMost
  <2>4. AtMost(j)' \in SUBSET (Requests \ Late')
    BY <1>1, <1>2, <1>7, <2>1, PlacesNext DEF Placed, AtMost
  <2>5. /\ Cardinality(AtMost(j)') <= Cardinality(Requests \ Late')
        /\ Cardinality(Requests \ Late')
             = Cardinality(Requests) - Cardinality(Late')
        /\ Cardinality(Requests) \in Nat /\ Cardinality(AtMost(j)') \in Nat
    <3>1. Requests \ Late' \in SUBSET Requests /\ Requests \in SUBSET Requests
      OBVIOUS
    <3> QED
      BY <1>2, <2>4, <3>1, Crowd
  <2>6. CASE Late' = {}
    <3>1. Cardinality(Late') = 0
      BY <2>6, FS_EmptySet
    <3>2. CASE AtMost(j)' = Requests
      <4>1. ASSUME NEW i \in Levels, ~(i < j) PROVE AtMost(i)' = AtMost(i)
        <5>1. \A x \in Requests : Back(x) <= i /\ Back(x)' <= i
          <6>1. \A x \in Requests : Back(x)' <= j /\ Back(x)' \in Nat
            BY <1>1, <3>2, PlacesNext DEF AtMost, Placed
          <6> QED
            BY <1>2, <2>1, <4>1, <6>1
        <5> QED
          BY <5>1 DEF AtMost
      <4>2. \A i \in Levels : AtMost(i)' = AtMost(i)
        BY <2>2, <4>1
      <4> QED
        BY <1>1, <1>2, <1>5, <3>1, <4>2, LevelsStay
    <3>3. CASE AtMost(j)' # Requests
      <4>1. Cardinality(AtMost(j)') <= Cardinality(AtMost(j)) - 1
        BY <1>2, <2>1, <2>3, <2>5, <3>3, Crowd, Requests \in SUBSET Requests
      <4>2. guesses' + Cardinality(Late') <= guesses + Cardinality(Late) + 1
        BY <1>1, <1>2, <1>5, <3>1
      <4> QED
        BY <1>1, <1>2, <2>2, <4>1, <4>2, LevelFalls
    <3> QED
      BY <3>2, <3>3
  <2>7. CASE Late' # {}
    <3> DEFINE m == Cardinality(Late')
    <3>1. m \in Nat \ {0}
      BY <1>2, <1>5, <2>7, Crowd, FS_EmptySet
    <3>2. Cardinality(AtMost(j)') <= Cardinality(AtMost(j)) - m
      BY <2>3, <2>5
    <3>3. guesses' + Cardinality(Late') <= guesses + Cardinality(Late) + m
      BY <1>1, <1>2, <1>5
    <3>4. guesses' \in Nat
      BY <1>1, <1>2
    <3> HIDE DEF m
    <3> QED
      BY <2>2, <3>1, <3>2, <3>3, <3>4, LevelFalls
  <2> QED
    BY <2>6, <2>7
<1> QED
  BY <1>1, <1>2, <1>6, <1>7

\* However many logins overlap with whatever else goes on, the failures that
\* get an answer before the account is locked for good are fewer than there
\* are ladders.
THEOREM GuessesAreFew == Spec => []GuessesBounded
<1>1. Init /\ TypeInv => GuessInv /\ LoginInv
  <2> SUFFICES ASSUME Init, TypeInv PROVE GuessInv /\ LoginInv
    OBVIOUS
  <2>1. guesses = 0 /\ LoginInv
    BY DEF Init, LoginInv, Idle
  <2>2. Cardinality(Late) <= Cardinality(Before(Ladder))
    BY LateFits
  <2>3. Cardinality(Late) \in Nat
    BY Places, Crowd DEF Placed
  <2> QED
    BY <2>1, <2>2, <2>3 DEF GuessInv
<1>2. TypeInv /\ TypeInv' /\ LoginInv /\ GuessInv /\ [Next]_vars => GuessInv'
  <2> SUFFICES ASSUME TypeInv, TypeInv', LoginInv, GuessInv, [Next]_vars
               PROVE  GuessInv'
    OBVIOUS
  <2>1. ASSUME NEW r \in Requests,
               \/ EnrollRead(r) \/ ActivateRead(r) \/ DisableRead(r)
               \/ DeleteCodes(r) \/ LoginRead(r)
        PROVE  GuessInv'
    <3>1. /\ row' = row /\ guesses' = guesses
          /\ \A x \in Requests \ {r} : reqs'[x] = reqs[x]
      BY <2>1 DEF EnrollRead, ActivateRead, DisableRead, DeleteCodes, LoginRead,
                  Goto, TypeInv
    <3>2. reqs[r] = Idle
      BY <2>1 DEF EnrollRead, ActivateRead, DisableRead, DeleteCodes, LoginRead,
                  Start
    <3>3. UnderWay(r)' => reqs'[r].row.fails = row.fails /\ ~Locked(row)
      BY <2>1 DEF EnrollRead, ActivateRead, DisableRead, DeleteCodes, LoginRead,
                  Goto, UnderWay, TypeInv
    <3>4. ~UnderWay(r)
      BY <3>2 DEF UnderWay, Idle
    <3> QED
      BY <3>1, <3>3, <3>4, OneMovesOn
  <2>2. ASSUME NEW r \in Requests,
               \/ VerifyFails(r) \/ VerifyTotp(r) \/ FindCode(r) \/ MarkCode(r)
        PROVE  GuessInv'
    <3>1. /\ row' = row /\ guesses' = guesses
          /\ \A x \in Requests \ {r} : reqs'[x] = reqs[x]
          /\ reqs'[r].row = reqs[r].row
          /\ reqs[r].pc \in {"verify", "mark"}
      BY <2>2 DEF VerifyFails, VerifyTotp, FindCode, MarkCode, Verdict, Goto,
                  Idle, TypeInv, ReqType
    <3> QED
      BY <3>1, OneMovesOn DEF UnderWay
  <2>3. ASSUME NEW r \in Requests,
               \/ Enroll(r) \/ Switch(r) \/ InsertCode(r) \/ Abort(r)
        PROVE  GuessInv'
    <3>1. /\ row'.fails = row.fails /\ row'.lock = row.lock
          /\ guesses' = guesses
      BY <2>3 DEF Enroll, Switch, InsertCode, Abort, TypeInv, TypeOK
    <3>2. /\ \A x \in Requests \ {r} : reqs'[x] = reqs[x]
          /\ reqs'[r].pc \in {"idle", "insert_codes"}
      BY <2>3 DEF Enroll, Switch, InsertCode, Abort, Finish, Goto, Idle,
                  TypeInv, ReqType
    <3> QED
      BY <3>1, <3>2, OneMovesOn DEF UnderWay
  <2>4. ASSUME NEW r \in Requests, Fail(r) PROVE GuessInv'
    BY <2>4, FailurePaid
  <2>5. ASSUME NEW r \in Requests, Succeed(r) PROVE GuessInv'
    <3>1. CASE reqs[r].row.fails # 0 \/ reqs[r].row.lock # "none"
      <4>1. guesses' = 0
        BY <2>5, <3>1 DEF Succeed
      <4> QED
        BY <4>1, Restarts
    <3>2. CASE reqs[r].row.fails = 0 /\ reqs[r].row.lock = "none"
      <4>1. /\ row' = row /\ guesses' = guesses
            /\ \A x \in Requests \ {r} : reqs'[x] = reqs[x]
            /\ reqs'[r].pc = "idle"
        BY <2>5, <3>2 DEF Succeed, Finish, Goto, Idle, TypeInv
      <4> QED
        BY <4>1, OneMovesOn DEF UnderWay
    <3> QED
      BY <3>1, <3>2
  <2>6. ASSUME NEW r \in Requests, AdminLock(r) PROVE GuessInv'
    BY <2>6, LockPaid
  <2>7. ASSUME (\E r \in Requests : AdminUnlock(r)) \/ LockExpires
        PROVE  GuessInv'
    BY <2>7, Restarts DEF AdminUnlock, LockExpires
  <2>8. CASE UNCHANGED vars
    <3>1. /\ row' = row /\ guesses' = guesses /\ reqs' = reqs
      BY <2>8 DEF vars
    <3>2. Late' = Late /\ \A i \in Levels : AtMost(i)' = AtMost(i)
      BY <3>1 DEF Late, AtMost, Back, UnderWay, Reached, Locked
    <3>3. guesses' \in Nat /\ Cardinality(Late) \in Nat
      BY <3>1, Places, Crowd DEF GuessInv, Placed
    <3> QED
      BY <3>1, <3>2, <3>3, LevelsStay
  <2> QED
    BY <2>1, <2>2, <2>3, <2>4, <2>5, <2>6, <2>7, <2>8 DEF Next
<1>3. TypeInv /\ GuessInv => GuessesBounded
  <2> SUFFICES ASSUME TypeInv, GuessInv PROVE guesses < Cardinality(Ladders)
    BY DEF GuessesBounded
  <2>1. Ladder \in Ladders /\ Late \in SUBSET Requests
    BY Places DEF Placed
  <2>2. ~Above(Ladder, Ladder)
    <3>1. \A j \in Levels : Ladder[j] \in Nat
      BY <2>1, Crowd, Requests \in SUBSET Requests DEF Ladders, Levels
    <3> QED
      BY <3>1 DEF Above
  <2>3. Before(Ladder) \in SUBSET Ladders /\ Before(Ladder) # Ladders
    BY <2>1, <2>2 DEF Before
  <2>4. /\ Cardinality(Before(Ladder)) \in Nat
        /\ Cardinality(Before(Ladder)) < Cardinality(Ladders)
    BY <2>3, LaddersFinite, FS_Subset, FS_CardinalityType
  <2>5. Cardinality(Late) \in Nat
    BY <2>1, Crowd
  <2> QED
    BY <2>4, <2>5, LaddersFinite DEF GuessInv
<1>4. TypeInv /\ LoginInv /\ [Next]_vars => LoginInv'
  BY LoginStep
<1> QED
  BY <1>1, <1>2, <1>3, <1>4, TypesKept, PTL DEF Spec
===============================================================================
