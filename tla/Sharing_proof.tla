---------------------------- MODULE Sharing_proof ----------------------------
(* Proofs about Organizations and Sharing, for any number of users,        *)
(* organizations and concurrent requests.                                  *)
EXTENDS Sharing, SequenceTheorems, FiniteSetTheorems, WellFoundedInduction, TLAPS

-----------------------------------------------------------------------------
(* Type correctness *)

LoadType ==
    [ops : SUBSET STRING, requests : Nat, orgs : SUBSET Orgs,
     roles : SUBSET Roles, sizes : SUBSET (1..MaxSize)]

MemberType == [org : orgs, user : Users, role : Roles, via : 0..Len(invites)]

InviteType ==
    [org : orgs, email : Users, role : Roles, accepted : BOOLEAN,
     expired : BOOLEAN]

LinkType ==
    [file : DOMAIN files, revoked : BOOLEAN, expired : BOOLEAN, count : Nat]

OrgTypes ==
    /\ orgs \subseteq Orgs
    /\ members \subseteq MemberType
    /\ invites \in Seq(InviteType)

FileTypes ==
    /\ files \in Seq(FileSet)
    /\ links \in Seq(LinkType)
    /\ entered \in [Accounts -> Nat] /\ unchecked \in [Accounts -> Nat]

\* A request of Organizations.
OrgReqOK(q) ==
    /\ q.pc = "insert_org" => q.user \in Users /\ q.org \in Orgs
    /\ q.pc = "insert_member" => q.row \in MemberType /\ q.via = q.row.via
    /\ q.pc = "insert_invite" => q.row \in InviteType
    /\ q.pc = "mark_invite" => q.via \in DOMAIN invites

\* A request that checks quotas: what it will do is known when it starts.
JobOK(q) ==
    q.pc \in {"check_user", "check_org", "insert", "insert_entry", "resize",
              "move"} =>
      /\ {"pc", "do", "user", "org", "size", "passed"} \subseteq DOMAIN q
      /\ q.do \in {"insert", "insert_entry", "resize", "move"}
      /\ q.pc \in {"check_user", "check_org", q.do}
      /\ q.user \in Users /\ q.org \in Orgs \cup {NoOrg} /\ q.size \in Sizes
      /\ q.do \in {"insert", "insert_entry"} => q.state \in {"live", "trashed"}
      /\ q.do \in {"resize", "move"} => q.file \in DOMAIN files
      /\ "left" \in DOMAIN q => q.do = "insert_entry"

\* A request that trashes a file, makes a link or uses one.
LinkReqOK(q) ==
    /\ q.pc = "trash" => q.file \in DOMAIN files
    /\ q.pc \in {"cascade", "deleted"} =>
         /\ {"pc", "cascaded"} \subseteq DOMAIN q
         /\ q.file \in DOMAIN files /\ q.open \subseteq DOMAIN links
    /\ q.pc = "insert_link" => q.file \in DOMAIN files
    /\ q.pc = "count" => q.link \in DOMAIN links /\ q.row \in LinkType

ReqOK(q) == OrgReqOK(q) /\ JobOK(q) /\ LinkReqOK(q)

ReqTypes ==
    /\ DOMAIN reqs = Requests
    /\ \A r \in Requests : ReqOK(reqs[r])

\* TypeOK needs the types of what requests hold as well.
TypeInv == OrgTypes /\ FileTypes /\ load \in LoadType /\ ReqTypes

\* The tables only gain rows, so that what a request holds keeps its type.
Grown ==
    /\ orgs \subseteq orgs' /\ Len(invites) <= Len(invites')
    /\ DOMAIN files \subseteq DOMAIN files'
    /\ DOMAIN links \subseteq DOMAIN links'
    /\ load'.sizes = load.sizes

\* The tables are sequences.
LEMMA Lengths ==
    ASSUME TypeInv
    PROVE  /\ Len(invites) \in Nat /\ DOMAIN invites = 1..Len(invites)
           /\ Len(files) \in Nat /\ DOMAIN files = 1..Len(files)
           /\ Len(links) \in Nat /\ DOMAIN links = 1..Len(links)
BY LenProperties DEF TypeInv, OrgTypes, FileTypes

\* What a request holds keeps its type while the tables grow.
LEMMA ReqGrows ==
    ASSUME TypeInv, Grown, Len(invites') \in Nat,
           DOMAIN invites' = 1..Len(invites'), NEW q, ReqOK(q)
    PROVE  ReqOK(q)'
<1>1. MemberType \subseteq MemberType' /\ InviteType \subseteq InviteType'
      /\ LinkType \subseteq LinkType' /\ DOMAIN invites \subseteq DOMAIN invites'
  BY Lengths DEF Grown, MemberType, InviteType, LinkType
<1>2. OrgReqOK(q)'
  BY <1>1 DEF ReqOK, OrgReqOK
<1>3. JobOK(q)'
  BY DEF ReqOK, JobOK, Grown, Sizes
<1>4. LinkReqOK(q)'
  BY <1>1 DEF ReqOK, LinkReqOK, Grown
<1> QED
  BY <1>2, <1>3, <1>4 DEF ReqOK

\* One request goes on; the others keep what they hold.
LEMMA GotoTypes ==
    ASSUME TypeInv, Grown, Len(invites') \in Nat,
           DOMAIN invites' = 1..Len(invites'),
           NEW r \in Requests, NEW q, Goto(r, q), ReqOK(q)'
    PROVE  ReqTypes'
<1>1. reqs' = [reqs EXCEPT ![r] = q] /\ DOMAIN reqs = Requests
  BY DEF Goto, TypeInv, ReqTypes
<1>2. ASSUME NEW s \in Requests PROVE ReqOK(reqs[s])'
  <2>1. CASE s = r
    <3>1. reqs'[s] = q
      BY <1>1, <2>1
    <3> QED
      BY <3>1 DEF ReqOK, OrgReqOK, JobOK, LinkReqOK
  <2>2. CASE s # r
    <3> DEFINE p == reqs[s]
    <3>1. reqs'[s] = reqs[s]
      BY <1>1, <2>2
    <3>2. PICK x : x = reqs[s]
      OBVIOUS
    <3>3. ReqOK(x)
      BY <3>2 DEF TypeInv, ReqTypes
    <3>4. ReqOK(x)'
      BY <3>3, ReqGrows
    <3> QED
      BY <3>1, <3>2, <3>4 DEF ReqOK, OrgReqOK, JobOK, LinkReqOK
  <2> QED
    BY <2>1, <2>2
<1> QED
  BY <1>1, <1>2 DEF ReqTypes

\* An idle request holds nothing.
LEMMA IdleOK == ReqOK(Idle) /\ ReqOK(Idle)'
BY DEF Idle, ReqOK, OrgReqOK, JobOK, LinkReqOK

\* Starting takes one of the requests of the workload, and nothing else.
LEMMA Started ==
    ASSUME TypeInv, NEW r \in Requests, NEW op, Start(r, op)
    PROVE  load' \in LoadType /\ load'.sizes = load.sizes
<1>1. load.requests \in Nat /\ load.requests > 0
      /\ load' = [load EXCEPT !.requests = load.requests - 1]
  BY DEF Start, TypeInv, LoadType
<1>2. load \in LoadType
  BY DEF TypeInv
<1> QED
  BY <1>1, <1>2 DEF LoadType

\* A step of a request that leaves the tables alone.
LEMMA QuietStep ==
    ASSUME TypeInv, NEW r \in Requests, NEW q, ReqOK(q), Goto(r, q),
           UNCHANGED <<orgs, members, invites, shareVars>>,
           load' \in LoadType, load'.sizes = load.sizes
    PROVE  TypeInv'
<1>1. Grown /\ Len(invites') \in Nat /\ DOMAIN invites' = 1..Len(invites')
  BY Lengths DEF Grown, shareVars
<1>2. ReqOK(q)'
  BY <1>1, ReqGrows
<1>3. ReqTypes'
  BY <1>1, <1>2, GotoTypes
<1>4. FileSet' = FileSet /\ LinkType' = LinkType
  BY DEF FileSet, Sizes, LinkType, shareVars
<1>5. FileTypes'
  BY <1>4 DEF TypeInv, FileTypes, shareVars
<1>6. OrgTypes'
  BY DEF TypeInv, OrgTypes, MemberType, InviteType
<1> QED
  BY <1>3, <1>5, <1>6 DEF TypeInv

\* A step of a request that changes organizations, members or invites.
LEMMA OrgWrites ==
    ASSUME TypeInv, NEW r \in Requests, NEW q, Goto(r, q), ReqOK(q)',
           UNCHANGED <<shareVars, load>>, OrgTypes',
           orgs \subseteq orgs', Len(invites) <= Len(invites')
    PROVE  TypeInv'
<1>1. Grown /\ Len(invites') \in Nat /\ DOMAIN invites' = 1..Len(invites')
  BY LenProperties DEF Grown, shareVars, OrgTypes
<1>2. ReqTypes'
  BY <1>1, GotoTypes
<1>3. FileSet' = FileSet /\ LinkType' = LinkType
  BY DEF FileSet, Sizes, LinkType, shareVars
<1>4. FileTypes'
  BY <1>3 DEF TypeInv, FileTypes, shareVars
<1> QED
  BY <1>2, <1>4 DEF TypeInv

\* Organizations keeps its tables and requests in shape.
LEMMA OrgStepTypes ==
    ASSUME TypeInv, NEW r \in Requests, OrgStep(r) \/ Abort(r),
           UNCHANGED shareVars
    PROVE  TypeInv'
<1> DEFINE q == reqs[r]
<1>0. /\ ReqOK(q) /\ load \in LoadType /\ load.roles \subseteq Roles
      /\ orgs \subseteq Orgs /\ members \subseteq MemberType
      /\ invites \in Seq(InviteType)
      /\ Len(invites) \in Nat /\ DOMAIN invites = 1..Len(invites)
  BY Lengths DEF TypeInv, ReqTypes, LoadType, OrgTypes
<1>1. CASE CreateOrg(r)
  <2>1. PICK u \in Users, o \in Orgs \ orgs :
          Goto(r, [pc |-> "insert_org", user |-> u, org |-> o])
    BY <1>1 DEF CreateOrg
  <2>2. ReqOK([pc |-> "insert_org", user |-> u, org |-> o])
    BY DEF ReqOK, OrgReqOK, JobOK, LinkReqOK
  <2> QED
    BY <1>1, <2>1, <2>2, QuietStep, Started DEF CreateOrg
<1>2. CASE InsertOrg(r)
  <2>1. q.user \in Users /\ q.org \in Orgs /\ UNCHANGED <<members, invites, load>>
    BY <1>0, <1>2 DEF InsertOrg, ReqOK, OrgReqOK
  <2>2. CASE q.org \in orgs
    <3>1. Finish(r) /\ orgs' = orgs
      BY <1>2, <2>2 DEF InsertOrg
    <3> QED
      BY <1>0, <2>1, <3>1, QuietStep, IdleOK DEF Finish
  <2>3. CASE q.org \notin orgs
    <3>1. PICK x : x = [pc |-> "insert_member", via |-> 0,
                        row |-> Member(q.org, q.user, "owner", 0)]
      OBVIOUS
    <3>2. Goto(r, x) /\ orgs' = orgs \cup {q.org}
      BY <1>2, <2>3, <3>1 DEF InsertOrg
    <3>3. MemberType \subseteq MemberType' /\ InviteType \subseteq InviteType'
      BY <2>1, <3>2 DEF MemberType, InviteType
    <3>4. OrgTypes'
      BY <1>0, <2>1, <3>2, <3>3 DEF OrgTypes
    <3>5. x.row \in MemberType' /\ x.via = x.row.via /\ x.pc = "insert_member"
      BY <1>0, <2>1, <3>1, <3>2 DEF Member, MemberType, Roles
    <3>6. ReqOK(x)'
      BY <3>5 DEF ReqOK, OrgReqOK, JobOK, LinkReqOK
    <3> QED
      BY <1>0, <2>1, <3>2, <3>4, <3>6, OrgWrites
  <2> QED
    BY <2>2, <2>3
<1>3. CASE AuthorizeAdd(r)
  <2>1. PICK u \in Users, o \in orgs, role \in load.roles :
          Goto(r, [pc |-> "insert_member", via |-> 0,
                   row |-> Member(o, u, role, 0)])
    BY <1>3 DEF AuthorizeAdd
  <2>2. Member(o, u, role, 0) \in MemberType /\ Member(o, u, role, 0).via = 0
    BY <1>0, <2>1 DEF Member, MemberType
  <2>3. ReqOK([pc |-> "insert_member", via |-> 0, row |-> Member(o, u, role, 0)])
    BY <2>2 DEF ReqOK, OrgReqOK, JobOK, LinkReqOK
  <2> QED
    BY <1>3, <2>1, <2>3, QuietStep, Started DEF AuthorizeAdd
<1>4. CASE AuthorizeInvite(r)
  <2>1. PICK u \in Users, o \in orgs, role \in load.roles :
          Goto(r, [pc |-> "insert_invite", row |->
                    [org |-> o, email |-> u, role |-> role,
                     accepted |-> FALSE, expired |-> FALSE]])
    BY <1>4 DEF AuthorizeInvite
  <2>2. [org |-> o, email |-> u, role |-> role,
         accepted |-> FALSE, expired |-> FALSE] \in InviteType
    BY <1>0, <2>1 DEF InviteType
  <2>3. ReqOK([pc |-> "insert_invite", row |->
                    [org |-> o, email |-> u, role |-> role,
                     accepted |-> FALSE, expired |-> FALSE]])
    BY <2>2 DEF ReqOK, OrgReqOK, JobOK, LinkReqOK
  <2> QED
    BY <1>4, <2>1, <2>3, QuietStep, Started DEF AuthorizeInvite
<1>5. CASE InsertInvite(r)
  <2>1. q.row \in InviteType /\ UNCHANGED <<orgs, members, load>>
    BY <1>0, <1>5 DEF InsertInvite, ReqOK, OrgReqOK
  <2>2. /\ invites' = Append(invites, q.row)
        /\ invites' \in Seq(InviteType) /\ Len(invites') = Len(invites) + 1
    BY <1>0, <1>5, <2>1, AppendProperties DEF InsertInvite
  <2>3. MemberType \subseteq MemberType' /\ InviteType' = InviteType
    BY <1>0, <2>1, <2>2 DEF MemberType, InviteType
  <2>4. OrgTypes'
    BY <1>0, <2>1, <2>2, <2>3 DEF OrgTypes
  <2> QED
    BY <1>0, <1>5, <2>1, <2>2, <2>4, OrgWrites, IdleOK DEF InsertInvite, Finish
<1>6. CASE InsertMember(r)
  <2>1. /\ q.row \in MemberType /\ q.via = q.row.via
        /\ UNCHANGED <<orgs, invites, load>>
    BY <1>0, <1>6 DEF InsertMember, ReqOK, OrgReqOK
  <2>2. q.via \in 0..Len(invites)
    BY <2>1 DEF MemberType
  <2>3. members' \in {members, members \cup {q.row}}
    BY <1>6 DEF InsertMember
  <2>4. OrgTypes'
    BY <1>0, <2>1, <2>3 DEF OrgTypes, MemberType, InviteType
  <2>5. CASE Finish(r)
    BY <1>0, <2>1, <2>4, <2>5, OrgWrites, IdleOK DEF Finish
  <2>6. CASE q.via # 0 /\ Goto(r, [pc |-> "mark_invite", via |-> q.via])
    <3>1. PICK x : x = [pc |-> "mark_invite", via |-> q.via]
      OBVIOUS
    <3>2. x.pc = "mark_invite" /\ x.via \in DOMAIN invites
      BY <1>0, <2>2, <2>6, <3>1
    <3>3. ReqOK(x)'
      BY <2>1, <3>2 DEF ReqOK, OrgReqOK, JobOK, LinkReqOK
    <3> QED
      BY <1>0, <2>1, <2>4, <2>6, <3>1, <3>3, OrgWrites
  <2> QED
    BY <1>6, <2>5, <2>6 DEF InsertMember
<1>7. CASE Accept(r)
  <2>1. PICK i \in DOMAIN invites :
          Goto(r, [pc |-> "insert_member", via |-> i,
                   row |-> Member(invites[i].org, invites[i].email,
                                  invites[i].role, i)])
    BY <1>7 DEF Accept
  <2>2. PICK x : x = [pc |-> "insert_member", via |-> i,
                      row |-> Member(invites[i].org, invites[i].email,
                                     invites[i].role, i)]
    OBVIOUS
  <2>3. invites[i] \in InviteType /\ i \in 0..Len(invites)
    BY <1>0, ElementOfSeq
  <2>4. x.row \in MemberType /\ x.row.via = x.via /\ x.pc = "insert_member"
    BY <2>2, <2>3 DEF Member, MemberType, InviteType
  <2>5. ReqOK(x)
    BY <2>4 DEF ReqOK, OrgReqOK, JobOK, LinkReqOK
  <2> QED
    BY <1>7, <2>1, <2>2, <2>5, QuietStep, Started DEF Accept
<1>8. CASE MarkInvite(r)
  <2>1. q.via \in DOMAIN invites /\ UNCHANGED <<orgs, members, load>>
        /\ invites' = [invites EXCEPT ![q.via].accepted = TRUE]
    BY <1>0, <1>8 DEF MarkInvite, ReqOK, OrgReqOK
  <2>2. [invites[q.via] EXCEPT !.accepted = TRUE] \in InviteType
    <3>1. invites[q.via] \in InviteType
      BY <1>0, <2>1, ElementOfSeq
    <3> QED
      BY <3>1 DEF InviteType
  <2>3. invites' = [invites EXCEPT ![q.via] = [invites[q.via] EXCEPT !.accepted = TRUE]]
    BY <2>1
  <2>4. invites' \in Seq(InviteType) /\ Len(invites') = Len(invites)
    BY <1>0, <2>1, <2>2, <2>3, ExceptSeq
  <2>5. OrgTypes'
    BY <1>0, <2>1, <2>4 DEF OrgTypes, MemberType, InviteType
  <2> QED
    BY <1>0, <1>8, <2>1, <2>4, <2>5, OrgWrites, IdleOK DEF MarkInvite, Finish
<1>9. CASE AuthorizeRemove(r)
  <2>1. PICK u \in Users, o \in orgs :
          Goto(r, [pc |-> "remove", user |-> u, org |-> o])
    BY <1>9 DEF AuthorizeRemove
  <2>2. ReqOK([pc |-> "remove", user |-> u, org |-> o])
    BY DEF ReqOK, OrgReqOK, JobOK, LinkReqOK
  <2> QED
    BY <1>9, <2>1, <2>2, QuietStep, Started DEF AuthorizeRemove
<1>10. CASE RemoveMember(r)
  <2>1. members' \subseteq members /\ UNCHANGED <<orgs, invites, load>>
    BY <1>10 DEF RemoveMember
  <2>2. OrgTypes'
    BY <1>0, <2>1 DEF OrgTypes, MemberType, InviteType
  <2> QED
    BY <1>0, <1>10, <2>1, <2>2, OrgWrites, IdleOK DEF RemoveMember, Finish
<1>11. CASE Abort(r)
  BY <1>0, <1>11, QuietStep, IdleOK DEF Abort, Finish
<1> QED
  BY <1>1, <1>2, <1>3, <1>4, <1>5, <1>6, <1>7, <1>8, <1>9, <1>10, <1>11
  DEF OrgStep

\* A write to a file's row, or a new row, keeps the accounts' books in shape.
LEMMA AccountTypes ==
    ASSUME TypeInv, NEW old, NEW new, NEW passed, Account(old, new, passed),
           old.size \in Nat, new.size \in Nat
    PROVE  entered' \in [Accounts -> Nat] /\ unchecked' \in [Accounts -> Nat]
<1>1. \A a : Grows(old, new, a) \in Nat
  BY DEF Grows, CountedBytes
<1>2. entered \in [Accounts -> Nat] /\ unchecked \in [Accounts -> Nat]
  BY DEF TypeInv, FileTypes
<1> QED
  BY <1>1, <1>2 DEF Account

\* The sizes of the workload, and of every file, are numbers.
LEMMA SizesAreNat ==
    ASSUME TypeInv
    PROVE  Sizes \subseteq Nat /\ \A f \in DOMAIN files :
             files[f] \in FileSet /\ files[f].size \in Nat
<1>1. Sizes \subseteq Nat
  BY SharingAssumption DEF TypeInv, LoadType, Sizes
<1>2. \A f \in DOMAIN files : files[f] \in FileSet
  BY Lengths, ElementOfSeq DEF TypeInv, FileTypes
<1> QED
  BY <1>1, <1>2 DEF FileSet

\* A step that changes files or links.
LEMMA FileWrites ==
    ASSUME TypeInv, NEW r \in Requests, NEW q, reqs' = [reqs EXCEPT ![r] = q],
           ReqOK(q), UNCHANGED <<orgs, members, invites>>,
           load' \in LoadType, load'.sizes = load.sizes, FileTypes',
           DOMAIN files \subseteq DOMAIN files',
           DOMAIN links \subseteq DOMAIN links'
    PROVE  TypeInv'
<1>1. Grown /\ Len(invites') \in Nat /\ DOMAIN invites' = 1..Len(invites')
  BY Lengths DEF Grown
<1>2. ReqOK(q)'
  BY <1>1, ReqGrows
<1>3. ReqTypes'
  BY <1>1, <1>2, GotoTypes DEF Goto
<1>4. OrgTypes'
  BY DEF TypeInv, OrgTypes, MemberType, InviteType
<1> QED
  BY <1>3, <1>4 DEF TypeInv

\* The files' part of a step that writes the row of a file.
LEMMA WriteTypes ==
    ASSUME TypeInv, NEW f \in DOMAIN files, NEW file \in FileSet, NEW passed,
           Write(f, file, passed), load'.sizes = load.sizes
    PROVE  /\ DOMAIN files' = DOMAIN files
           /\ UNCHANGED links => FileTypes'
<1>1. files \in Seq(FileSet) /\ f \in 1..Len(files)
  BY Lengths DEF TypeInv, FileTypes
<1>2. files' \in Seq(FileSet) /\ Len(files') = Len(files)
  BY <1>1, ExceptSeq DEF Write
<1>3. DOMAIN files' = DOMAIN files
  BY <1>1, <1>2, LenProperties
<1>4. entered' \in [Accounts -> Nat] /\ unchecked' \in [Accounts -> Nat]
  BY AccountTypes, SizesAreNat DEF Write, FileSet
<1>5. FileSet' = FileSet
  BY DEF FileSet, Sizes
<1>6. ASSUME UNCHANGED links PROVE LinkType' = LinkType
  BY <1>3 DEF LinkType
<1> QED
  BY <1>2, <1>3, <1>4, <1>5, <1>6 DEF TypeInv, FileTypes

\* The files' part of a step that inserts a row.
LEMMA InsertTypes ==
    ASSUME TypeInv, NEW file \in FileSet, NEW passed, Insert(file, passed),
           load'.sizes = load.sizes, UNCHANGED links
    PROVE  DOMAIN files \subseteq DOMAIN files' /\ FileTypes'
<1>1. files \in Seq(FileSet)
  BY DEF TypeInv, FileTypes
<1>2. files' \in Seq(FileSet) /\ Len(files') = Len(files) + 1
  BY <1>1, AppendProperties DEF Insert
<1>3. DOMAIN files \subseteq DOMAIN files'
  BY <1>1, <1>2, LenProperties
<1>4. file.size \in Nat /\ Nothing.size \in Nat
  BY SizesAreNat DEF FileSet, Nothing
<1>5. entered' \in [Accounts -> Nat] /\ unchecked' \in [Accounts -> Nat]
  BY <1>4, AccountTypes DEF Insert
<1>6. FileSet' = FileSet /\ LinkType \subseteq LinkType'
  BY <1>3 DEF FileSet, Sizes, LinkType
<1> QED
  BY <1>2, <1>3, <1>5, <1>6 DEF TypeInv, FileTypes

\* The files' part of a step that writes links.
LEMMA LinkTypes ==
    ASSUME TypeInv, UNCHANGED <<files, entered, unchecked>>,
           load'.sizes = load.sizes, links' \in Seq(LinkType)
    PROVE  FileTypes'
BY DEF TypeInv, FileTypes, FileSet, Sizes, LinkType

\* Revoking links keeps them links.
LEMMA RevokeTypes ==
    ASSUME TypeInv, NEW S, Revoke(S)
    PROVE  links' \in Seq(LinkType) /\ DOMAIN links' = DOMAIN links
<1>1. links \in Seq(LinkType) /\ Len(links) \in Nat /\ DOMAIN links = 1..Len(links)
  BY Lengths DEF TypeInv, FileTypes
<1>2. \A l \in DOMAIN links : links[l] \in LinkType
  BY <1>1, ElementOfSeq
<1>3. \A l \in DOMAIN links :
        (IF l \in S THEN [links[l] EXCEPT !.revoked = TRUE] ELSE links[l]) \in LinkType
  BY <1>2 DEF LinkType
<1>4. links' \in [1..Len(links) -> LinkType]
  BY <1>1, <1>3 DEF Revoke
<1> QED
  BY <1>1, <1>4, SeqDef

\* A request that will check quotas begins, with a job of the right shape.
LEMMA BeginTypes ==
    ASSUME TypeInv, NEW r \in Requests, NEW op, NEW job, ReqOK(job),
           Begin(r, op, job)
    PROVE  TypeInv'
BY QuietStep, Started DEF Begin, Unchanged

\* What the checks leave in a job.
LEMMA JobGoesOn ==
    ASSUME NEW q, ReqOK(q), q.pc \in {"check_user", "check_org"}, NEW p
    PROVE  /\ ReqOK([q EXCEPT !.pc = "check_org", !.passed = p])
           /\ ReqOK([q EXCEPT !.pc = q.do])
           /\ ReqOK([q EXCEPT !.pc = q.do, !.passed = p])
BY DEF ReqOK, OrgReqOK, JobOK, LinkReqOK

\* An import goes on with its next entry.
LEMMA NextEntryTypes ==
    ASSUME TypeInv, NEW r \in Requests, NextEntry(r),
           reqs[r].pc \in {"check_user", "insert_entry"},
           "left" \in DOMAIN reqs[r] \/ reqs[r].do = "insert_entry"
    PROVE  \E q : ReqOK(q) /\ reqs' = [reqs EXCEPT ![r] = q]
<1>1. ReqOK(reqs[r])
  BY DEF TypeInv, ReqTypes
<1>2. CASE reqs' = [reqs EXCEPT ![r] = Idle]
  BY <1>2, IdleOK
<1>3. CASE \E size \in Sizes :
             reqs' = [reqs EXCEPT ![r] =
                        [reqs[r] EXCEPT !.pc = "check_user", !.size = size,
                                        !.left = @ - 1, !.passed = <<>>]]
  <2>1. PICK size \in Sizes :
             reqs' = [reqs EXCEPT ![r] =
                        [reqs[r] EXCEPT !.pc = "check_user", !.size = size,
                                        !.left = @ - 1, !.passed = <<>>]]
    BY <1>3
  <2>2. ReqOK([reqs[r] EXCEPT !.pc = "check_user", !.size = size,
                              !.left = @ - 1, !.passed = <<>>])
    BY <1>1 DEF ReqOK, OrgReqOK, JobOK, LinkReqOK
  <2> QED
    BY <2>1, <2>2
<1> QED
  BY <1>2, <1>3 DEF NextEntry, Finish, Goto

\* Uploads, versions and moves keep the tables in shape.
LEMMA JobTypes ==
    ASSUME TypeInv, NEW r \in Requests,
           \/ Upload(r) \/ UploadJson(r) \/ Import(r) \/ Presign(r)
           \/ NewVersion(r) \/ Move(r) \/ CheckUser(r) \/ CheckOrg(r)
           \/ InsertFile(r) \/ InsertEntry(r) \/ SkipEntry(r)
           \/ Resize(r) \/ MoveFile(r)
    PROVE  TypeInv'
<1> DEFINE q == reqs[r]
<1>0. ReqOK(q) /\ load \in LoadType /\ orgs \subseteq Orgs
  BY DEF TypeInv, ReqTypes, OrgTypes
<1>1. ASSUME NEW op, NEW spaces, spaces \subseteq {NoOrg} \cup Orgs,
             UploadInto(r, op, spaces)
      PROVE  TypeInv'
  <2>1. PICK u \in Users, org \in spaces, size \in Sizes :
          Begin(r, op, [pc |-> "check_user", do |-> "insert", user |-> u,
                        org |-> org, size |-> size, state |-> "live",
                        passed |-> <<>>])
    BY <1>1 DEF UploadInto
  <2>2. ReqOK([pc |-> "check_user", do |-> "insert", user |-> u,
               org |-> org, size |-> size, state |-> "live",
               passed |-> <<>>])
    BY <1>1 DEF ReqOK, OrgReqOK, JobOK, LinkReqOK
  <2> QED
    BY <2>1, <2>2, BeginTypes
<1>2. CASE Upload(r) \/ UploadJson(r)
  BY <1>0, <1>1, <1>2 DEF Upload, UploadJson
<1>3. CASE Import(r)
  <2>1. PICK u \in Users, size \in Sizes :
          Begin(r, "import",
                [pc |-> "check_user", do |-> "insert_entry", user |-> u,
                 org |-> NoOrg, size |-> size, state |-> "live", left |-> 1,
                 passed |-> <<>>])
    BY <1>3 DEF Import
  <2>2. ReqOK([pc |-> "check_user", do |-> "insert_entry", user |-> u,
               org |-> NoOrg, size |-> size, state |-> "live", left |-> 1,
               passed |-> <<>>])
    BY DEF ReqOK, OrgReqOK, JobOK, LinkReqOK
  <2> QED
    BY <2>1, <2>2, BeginTypes
<1>4. CASE Presign(r)
  <2>1. PICK u \in Users, size \in Sizes :
          Begin(r, "presign",
                [pc |-> "check_user", do |-> "insert", user |-> u,
                 org |-> NoOrg, size |-> size, state |-> "trashed",
                 passed |-> <<>>])
    BY <1>4 DEF Presign
  <2>2. ReqOK([pc |-> "check_user", do |-> "insert", user |-> u,
               org |-> NoOrg, size |-> size, state |-> "trashed",
               passed |-> <<>>])
    BY DEF ReqOK, OrgReqOK, JobOK, LinkReqOK
  <2> QED
    BY <2>1, <2>2, BeginTypes
<1>5. CASE NewVersion(r)
  <2>1. PICK f \in DOMAIN files, u \in Users, size \in Sizes :
          Begin(r, "new_version",
                [pc |-> "check_user", do |-> "resize", user |-> u, file |-> f,
                 org |-> files[f].org, size |-> size, passed |-> <<>>])
    BY <1>5 DEF NewVersion
  <2>2. files[f].org \in Orgs \cup {NoOrg}
    BY SizesAreNat DEF FileSet
  <2>3. ReqOK([pc |-> "check_user", do |-> "resize", user |-> u, file |-> f,
               org |-> files[f].org, size |-> size, passed |-> <<>>])
    BY <2>2 DEF ReqOK, OrgReqOK, JobOK, LinkReqOK
  <2> QED
    BY <2>1, <2>3, BeginTypes
<1>6. CASE Move(r)
  <2>1. PICK f \in DOMAIN files, org \in {NoOrg} \cup orgs :
          Begin(r, "move",
                [pc |-> "check_org", do |-> "move", user |-> files[f].owner,
                 file |-> f, org |-> org, size |-> files[f].size,
                 passed |-> <<>>])
    BY <1>6 DEF Move
  <2>2. files[f].owner \in Users /\ files[f].size \in Sizes
    BY SizesAreNat DEF FileSet
  <2>3. ReqOK([pc |-> "check_org", do |-> "move", user |-> files[f].owner,
               file |-> f, org |-> org, size |-> files[f].size,
               passed |-> <<>>])
    BY <1>0, <2>2 DEF ReqOK, OrgReqOK, JobOK, LinkReqOK
  <2> QED
    BY <2>1, <2>3, BeginTypes
<1>7. CASE CheckUser(r)
  BY <1>0, <1>7, JobGoesOn, QuietStep DEF CheckUser, Unchanged
<1>8. CASE CheckOrg(r)
  BY <1>0, <1>8, JobGoesOn, QuietStep DEF CheckOrg, Unchanged
<1>9. CASE InsertFile(r)
  <2>1. FileOf(q) \in FileSet
    BY <1>0, <1>9 DEF InsertFile, FileOf, FileSet, ReqOK, JobOK
  <2>2. DOMAIN files \subseteq DOMAIN files' /\ FileTypes'
    BY <1>9, <2>1, InsertTypes DEF InsertFile
  <2> QED
    BY <1>0, <1>9, <2>2, IdleOK, FileWrites DEF InsertFile, Unchanged, Finish, Goto
<1>10. CASE InsertEntry(r)
  <2>1. FileOf(q) \in FileSet /\ q.pc = "insert_entry" /\ q.do = "insert_entry"
    BY <1>0, <1>10 DEF InsertEntry, FileOf, FileSet, ReqOK, JobOK
  <2>2. DOMAIN files \subseteq DOMAIN files' /\ FileTypes'
    BY <1>10, <2>1, InsertTypes DEF InsertEntry
  <2>3. PICK x : ReqOK(x) /\ reqs' = [reqs EXCEPT ![r] = x]
    BY <1>10, <2>1, NextEntryTypes DEF InsertEntry
  <2> QED
    BY <1>0, <1>10, <2>2, <2>3, FileWrites DEF InsertEntry, Unchanged
<1>11. CASE SkipEntry(r)
  <2>1. PICK x : ReqOK(x) /\ reqs' = [reqs EXCEPT ![r] = x]
    BY <1>11, NextEntryTypes DEF SkipEntry
  <2> QED
    BY <1>0, <1>11, <2>1, QuietStep DEF SkipEntry, Unchanged, Goto
<1>12. CASE Resize(r)
  <2>1. q.file \in DOMAIN files /\ q.size \in Sizes
    BY <1>0, <1>12 DEF Resize, ReqOK, JobOK
  <2>2. [files[q.file] EXCEPT !.size = q.size] \in FileSet
    BY <2>1, SizesAreNat DEF FileSet
  <2>3. DOMAIN files' = DOMAIN files /\ FileTypes'
    BY <1>12, <2>1, <2>2, WriteTypes DEF Resize
  <2> QED
    BY <1>0, <1>12, <2>3, IdleOK, FileWrites DEF Resize, Unchanged, Finish, Goto
<1>13. CASE MoveFile(r)
  <2>1. q.file \in DOMAIN files /\ q.org \in Orgs \cup {NoOrg}
    BY <1>0, <1>13 DEF MoveFile, ReqOK, JobOK
  <2>2. [files[q.file] EXCEPT !.org = q.org] \in FileSet
    BY <2>1, SizesAreNat DEF FileSet
  <2>3. DOMAIN files' = DOMAIN files /\ FileTypes'
    BY <1>13, <2>1, <2>2, WriteTypes DEF MoveFile
  <2> QED
    BY <1>0, <1>13, <2>3, IdleOK, FileWrites DEF MoveFile, Unchanged, Finish, Goto
<1> QED
  BY <1>2, <1>3, <1>4, <1>5, <1>6, <1>7, <1>8, <1>9, <1>10, <1>11, <1>12, <1>13

\* The columns that are written to a file's row are of the right type.
LEMMA RowWrites ==
    ASSUME TypeInv, NEW f \in DOMAIN files
    PROVE  /\ \A st \in {"live", "trashed", "purged"} :
                /\ [files[f] EXCEPT !.state = st] \in FileSet
                /\ \A size \in Sizes :
                     [files[f] EXCEPT !.size = size, !.state = st] \in FileSet
BY SizesAreNat DEF FileSet

\* A step that changes files or links, and ends the request that it began.
LEMMA WholeRequest ==
    ASSUME TypeInv, UNCHANGED <<reqs, orgs, members, invites>>,
           load' \in LoadType, load'.sizes = load.sizes, FileTypes',
           DOMAIN files \subseteq DOMAIN files',
           DOMAIN links \subseteq DOMAIN links'
    PROVE  TypeInv'
<1>1. Grown /\ Len(invites') \in Nat /\ DOMAIN invites' = 1..Len(invites')
  BY Lengths DEF Grown
<1>2. ASSUME NEW s \in Requests PROVE ReqOK(reqs[s])'
  <2>1. PICK x : x = reqs[s]
    OBVIOUS
  <2>2. ReqOK(x)'
    BY <1>1, <2>1, ReqGrows DEF TypeInv, ReqTypes
  <2> QED
    BY <2>1, <2>2 DEF ReqOK, OrgReqOK, JobOK, LinkReqOK
<1>3. OrgTypes'
  BY DEF TypeInv, OrgTypes, MemberType, InviteType
<1> QED
  BY <1>2, <1>3 DEF TypeInv, ReqTypes

\* A request that begins and ends with one write to a file's row.
LEMMA OneWrite ==
    ASSUME TypeInv, NEW r \in Requests, NEW op, Start(r, op),
           NEW f \in DOMAIN files, NEW file \in FileSet, Write(f, file, <<>>),
           Unchanged, UNCHANGED <<reqs, links>>
    PROVE  TypeInv'
<1>1. load' \in LoadType /\ load'.sizes = load.sizes
  BY Started
<1>2. DOMAIN files' = DOMAIN files /\ FileTypes'
  BY <1>1, WriteTypes
<1> QED
  BY <1>1, <1>2, WholeRequest DEF Unchanged

\* The trash and the links keep the tables in shape.
LEMMA LinkStepTypes ==
    ASSUME TypeInv, NEW r \in Requests,
           \/ Confirm(r) \/ Restore(r) \/ Delete(r) \/ BulkDelete(r)
           \/ TrashFile(r) \/ Cascade(r) \/ Deleted(r) \/ Purge(r) \/ ShareRead(r) \/ InsertLink(r)
           \/ RevokeLink(r) \/ DownloadRead(r) \/ Count(r)
    PROVE  TypeInv'
<1> DEFINE q == reqs[r]
<1>0. /\ ReqOK(q) /\ load \in LoadType /\ links \in Seq(LinkType)
      /\ DOMAIN links = 1..Len(links)
      /\ \A l \in DOMAIN links : links[l] \in LinkType
  BY Lengths, ElementOfSeq DEF TypeInv, ReqTypes, FileTypes
<1>1. CASE Confirm(r) \/ Restore(r) \/ Purge(r)
  BY <1>1, OneWrite, RowWrites DEF Confirm, Restore, Purge
<1>2. CASE TrashFile(r)
  <2>1. q.file \in DOMAIN files
    BY <1>0, <1>2 DEF TrashFile, ReqOK, LinkReqOK
  <2>2. PICK x : /\ x = [pc |-> "cascade", file |-> q.file,
                         open |-> OpenLinks(q.file), cascaded |-> FALSE]
                    \/ x = Idle
                 /\ Goto(r, x)
    BY <1>2 DEF TrashFile, Finish
  <2>3. ReqOK(x)
    BY <2>1, <2>2, IdleOK DEF OpenLinks, ReqOK, OrgReqOK, JobOK, LinkReqOK
  <2>4. DOMAIN files' = DOMAIN files /\ FileTypes'
    BY <1>0, <1>2, <2>1, WriteTypes, RowWrites DEF TrashFile
  <2> QED
    BY <1>0, <1>2, <2>2, <2>3, <2>4, FileWrites DEF TrashFile, Unchanged, Goto
<1>3. CASE Cascade(r)
  <2>1. /\ ReqOK([q EXCEPT !.pc = "deleted", !.cascaded = TRUE])
        /\ ReqOK([q EXCEPT !.pc = "deleted"])
    BY <1>0, <1>3 DEF Cascade, ReqOK, OrgReqOK, JobOK, LinkReqOK
  <2>2. links' \in Seq(LinkType) /\ DOMAIN links' = DOMAIN links
    BY <1>0, <1>3, RevokeTypes DEF Cascade
  <2>3. FileTypes'
    BY <1>3, <2>2, LinkTypes DEF Cascade
  <2> QED
    BY <1>0, <1>3, <2>1, <2>2, <2>3, FileWrites DEF Cascade, Unchanged, Goto
<1>4. CASE Deleted(r)
  BY <1>0, <1>4, QuietStep, IdleOK DEF Deleted, Unchanged, Finish
<1>5. CASE ShareRead(r)
  <2>1. PICK f \in DOMAIN files : Goto(r, [pc |-> "insert_link", file |-> f])
    BY <1>5 DEF ShareRead
  <2>2. ReqOK([pc |-> "insert_link", file |-> f])
    BY DEF ReqOK, OrgReqOK, JobOK, LinkReqOK
  <2> QED
    BY <1>5, <2>1, <2>2, QuietStep, Started DEF ShareRead, Unchanged
<1>6. CASE InsertLink(r)
  <2>1. PICK x : x = [file |-> q.file, revoked |-> FALSE, expired |-> FALSE,
                      count |-> 0]
    OBVIOUS
  <2>2. x \in LinkType /\ links' = Append(links, x)
    BY <1>0, <1>6, <2>1 DEF InsertLink, LinkType, ReqOK, LinkReqOK
  <2>3. links' \in Seq(LinkType) /\ Len(links') = Len(links) + 1
    BY <1>0, <2>2, AppendProperties
  <2>4. DOMAIN links \subseteq DOMAIN links'
    BY <1>0, <2>3, LenProperties
  <2>5. FileTypes'
    BY <1>6, <2>3, LinkTypes DEF InsertLink
  <2> QED
    BY <1>0, <1>6, <2>4, <2>5, IdleOK, FileWrites
    DEF InsertLink, Unchanged, Finish, Goto
<1>7. CASE RevokeLink(r)
  <2>1. PICK l \in DOMAIN links : Revoke({l})
    BY <1>7 DEF RevokeLink
  <2>2. links' \in Seq(LinkType) /\ DOMAIN links' = DOMAIN links
    BY <2>1, RevokeTypes
  <2>3. load' \in LoadType /\ load'.sizes = load.sizes
    BY <1>7, Started DEF RevokeLink
  <2>4. FileTypes'
    BY <1>7, <2>2, <2>3, LinkTypes DEF RevokeLink
  <2> QED
    BY <1>7, <2>2, <2>3, <2>4, WholeRequest DEF RevokeLink, Unchanged
<1>8. CASE DownloadRead(r)
  <2>1. PICK l \in DOMAIN links :
          Goto(r, [pc |-> "count", link |-> l, row |-> links[l]])
    BY <1>8 DEF DownloadRead
  <2>2. ReqOK([pc |-> "count", link |-> l, row |-> links[l]])
    BY <1>0 DEF ReqOK, OrgReqOK, JobOK, LinkReqOK
  <2> QED
    BY <1>8, <2>1, <2>2, QuietStep, Started DEF DownloadRead, Unchanged
<1>10. CASE Delete(r) \/ BulkDelete(r)
  <2>1. PICK op \in {"delete", "bulk_delete"}, next \in {"cascade", "idle"},
             f \in DOMAIN files :
          Start(r, op) /\ Goto(r, [pc |-> "trash", file |-> f, next |-> next])
    BY <1>10 DEF Delete, BulkDelete, DeleteRead
  <2>2. ReqOK([pc |-> "trash", file |-> f, next |-> next])
    BY DEF ReqOK, OrgReqOK, JobOK, LinkReqOK
  <2> QED
    BY <1>10, <2>1, <2>2, QuietStep, Started
    DEF Delete, BulkDelete, DeleteRead, Unchanged
<1>9. CASE Count(r)
  <2>1. q.link \in DOMAIN links /\ q.row.count + 1 \in Nat
    BY <1>0, <1>9 DEF Count, ReqOK, LinkReqOK, LinkType
  <2>2. [links[q.link] EXCEPT !.count = q.row.count + 1] \in LinkType
    BY <1>0, <2>1 DEF LinkType
  <2>3. \/ links' = links
        \/ links' = [links EXCEPT ![q.link] =
                       [links[q.link] EXCEPT !.count = q.row.count + 1]]
    BY <1>9 DEF Count
  <2>4. links' \in Seq(LinkType) /\ Len(links') = Len(links)
    BY <1>0, <2>1, <2>2, <2>3, ExceptSeq
  <2>5. DOMAIN links' = DOMAIN links
    BY <1>0, <2>4, LenProperties
  <2>6. FileTypes'
    BY <1>9, <2>4, LinkTypes DEF Count
  <2> QED
    BY <1>0, <1>9, <2>5, <2>6, IdleOK, FileWrites DEF Count, Unchanged, Finish, Goto
<1> QED
  BY <1>1, <1>2, <1>3, <1>4, <1>5, <1>6, <1>7, <1>8, <1>9, <1>10

\* Time leaves the tables in shape.
LEMMA ExpiryTypes ==
    ASSUME TypeInv, (InviteExpires /\ UNCHANGED shareVars) \/ LinkExpires
    PROVE  TypeInv'
<1>0. /\ invites \in Seq(InviteType) /\ links \in Seq(LinkType)
      /\ Len(invites) \in Nat /\ DOMAIN invites = 1..Len(invites)
      /\ Len(links) \in Nat /\ DOMAIN links = 1..Len(links)
  BY Lengths DEF TypeInv, OrgTypes, FileTypes
<1>1. CASE InviteExpires /\ UNCHANGED shareVars
  <2>1. PICK i \in DOMAIN invites :
          invites' = [invites EXCEPT ![i].expired = TRUE]
    BY <1>1 DEF InviteExpires
  <2>2. invites[i] \in InviteType
    BY <1>0, ElementOfSeq
  <2>3. [invites[i] EXCEPT !.expired = TRUE] \in InviteType
    BY <2>2 DEF InviteType
  <2>4. invites' \in Seq(InviteType) /\ Len(invites') = Len(invites)
    BY <1>0, <2>1, <2>3, ExceptSeq
  <2>5. DOMAIN invites' = DOMAIN invites
    BY <1>0, <2>4, LenProperties
  <2>6. UNCHANGED <<orgs, members, reqs, load, shareVars>>
    BY <1>1 DEF InviteExpires
  <2>7. OrgTypes'
    BY <2>4, <2>6 DEF TypeInv, OrgTypes, MemberType, InviteType
  <2>8. FileTypes'
    BY <2>6 DEF TypeInv, FileTypes, FileSet, Sizes, LinkType, shareVars
  <2>9. ReqTypes'
    BY <2>4, <2>5, <2>6
    DEF TypeInv, ReqTypes, ReqOK, OrgReqOK, JobOK, LinkReqOK, MemberType,
        InviteType, LinkType, Sizes, shareVars
  <2> QED
    BY <2>6, <2>7, <2>8, <2>9 DEF TypeInv
<1>2. CASE LinkExpires
  <2>1. PICK l \in DOMAIN links : links' = [links EXCEPT ![l].expired = TRUE]
    BY <1>2 DEF LinkExpires
  <2>2. links[l] \in LinkType
    BY <1>0, ElementOfSeq
  <2>3. [links[l] EXCEPT !.expired = TRUE] \in LinkType
    BY <2>2 DEF LinkType
  <2>4. links' \in Seq(LinkType) /\ Len(links') = Len(links)
    BY <1>0, <2>1, <2>3, ExceptSeq
  <2>5. DOMAIN links' = DOMAIN links
    BY <1>0, <2>4, LenProperties
  <2>6. UNCHANGED <<orgs, members, invites, reqs, load, files, entered, unchecked>>
    BY <1>2 DEF LinkExpires, orgVars
  <2>7. OrgTypes'
    BY <2>6 DEF TypeInv, OrgTypes, MemberType, InviteType
  <2>8. FileTypes'
    BY <2>4, <2>6, LinkTypes
  <2>9. ReqTypes'
    BY <2>5, <2>6
    DEF TypeInv, ReqTypes, ReqOK, OrgReqOK, JobOK, LinkReqOK, MemberType,
        InviteType, LinkType, Sizes
  <2> QED
    BY <2>6, <2>7, <2>8, <2>9 DEF TypeInv
<1> QED
  BY <1>1, <1>2

\* The shape of all tables and of what every request holds is preserved.
THEOREM TypesKept == Spec => []TypeInv
<1>1. Init => TypeInv
  <2> SUFFICES ASSUME Init PROVE TypeInv
    OBVIOUS
  <2>1. /\ load \in LoadType /\ load.orgs \subseteq Orgs
        /\ invites = <<>> /\ files = <<>> /\ links = <<>>
        /\ reqs = [r \in Requests |-> Idle] /\ orgs = load.orgs
    BY OrganizationsAssumption, SharingAssumption DEF Init, OrgInit, LoadType
  <2>2. PICK founder \in Users :
          members = {Member(o, founder, "owner", 0) : o \in load.orgs}
    BY DEF Init, OrgInit
  <2>3. \A S : <<>> \in Seq(S) /\ Len(<<>>) = 0
    BY EmptySeq
  <2>4. 0 \in 0..Len(invites)
    BY <2>1, <2>3
  <2>5. members \subseteq MemberType
    BY <2>1, <2>2, <2>4 DEF Member, MemberType, Roles
  <2>6. OrgTypes
    BY <2>1, <2>3, <2>5 DEF OrgTypes
  <2>7. entered \in [Accounts -> Nat] /\ unchecked \in [Accounts -> Nat]
    BY DEF Init
  <2>8. FileTypes
    BY <2>1, <2>3, <2>7 DEF FileTypes
  <2>9. ReqTypes
    BY <2>1, IdleOK DEF ReqTypes
  <2> QED
    BY <2>1, <2>6, <2>8, <2>9 DEF TypeInv
<1>2. TypeInv /\ [Next]_vars => TypeInv'
  <2> SUFFICES ASSUME TypeInv, [Next]_vars PROVE TypeInv'
    OBVIOUS
  <2>1. CASE UNCHANGED vars
    BY <2>1
    DEF vars, orgVars, shareVars, TypeInv, OrgTypes, FileTypes, ReqTypes,
        FileSet, Sizes, ReqOK, OrgReqOK, JobOK, LinkReqOK, MemberType,
        InviteType, LinkType
  <2>2. CASE \E r \in Requests : (OrgStep(r) \/ Abort(r)) /\ UNCHANGED shareVars
    BY <2>2, OrgStepTypes
  <2>3. ASSUME NEW r \in Requests, FileStep(r) PROVE TypeInv'
    BY <2>3, JobTypes, LinkStepTypes DEF FileStep
  <2>4. CASE (InviteExpires /\ UNCHANGED shareVars) \/ LinkExpires
    BY <2>4, ExpiryTypes
  <2> QED
    BY <2>1, <2>2, <2>3, <2>4 DEF Next
<1> QED
  BY <1>1, <1>2, PTL DEF Spec

\* The tables keep the shape their schema gives them, foreign keys included,
\* whatever requests run side by side.
THEOREM TypeCorrect == Spec => []TypeOK
<1>1. TypeInv => TypeOK
  <2> SUFFICES ASSUME TypeInv PROVE TypeOK
    OBVIOUS
  <2>1. /\ \A i \in DOMAIN invites : invites[i] \in InviteType
        /\ \A f \in DOMAIN files : files[f] \in FileSet
        /\ \A l \in DOMAIN links : links[l] \in LinkType
    BY Lengths, ElementOfSeq DEF TypeInv, OrgTypes, FileTypes
  <2> QED
    BY <2>1
    DEF TypeInv, TypeOK, OrgTypes, FileTypes, MemberType, InviteType, LinkType,
        LinkSet
<1> QED
  BY <1>1, TypesKept, PTL

-----------------------------------------------------------------------------
(* Members and invites *)

\* No step makes two rows of one membership.
LEMMA OneEachStep ==
    ASSUME TypeInv, OneMembershipEach, [Next]_vars
    PROVE  OneMembershipEach'
<1>1. ASSUME NEW r \in Requests, InsertMember(r) PROVE OneMembershipEach'
  BY <1>1 DEF InsertMember, IsMember, OneMembershipEach
<1>2. ASSUME NEW r \in Requests, RemoveMember(r) PROVE OneMembershipEach'
  BY <1>2 DEF RemoveMember, OneMembershipEach
<1>3. ASSUME UNCHANGED members PROVE OneMembershipEach'
  BY <1>3 DEF OneMembershipEach
<1>4. ASSUME NEW r \in Requests, OrgStep(r) PROVE OneMembershipEach'
  BY <1>1, <1>2, <1>3, <1>4
  DEF OrgStep, CreateOrg, InsertOrg, AuthorizeAdd, AuthorizeInvite,
      InsertInvite, Accept, MarkInvite, AuthorizeRemove
<1>5. ASSUME NEW r \in Requests, FileStep(r) PROVE UNCHANGED members
  BY <1>5
  DEF FileStep, Unchanged, Upload, UploadJson, UploadInto, Import, Presign,
      NewVersion, Move, Begin, CheckUser, CheckOrg, InsertFile, InsertEntry,
      SkipEntry, Resize, MoveFile, Confirm, Restore, Delete, BulkDelete,
      DeleteRead, TrashFile, Cascade, Deleted, Purge, ShareRead, InsertLink, RevokeLink, DownloadRead, Count
<1> QED
  BY <1>3, <1>4, <1>5
  DEF Next, Abort, InviteExpires, LinkExpires, vars, orgVars

\* A user has at most one membership of an organization, however many requests
\* add, invite and accept at once.
THEOREM OneMembership == Spec => []OneMembershipEach
<1>1. Init => OneMembershipEach
  BY DEF Init, OrgInit, Member, OneMembershipEach
<1> QED
  BY <1>1, OneEachStep, TypesKept, PTL DEF Spec

\* Whoever is, or is about to become, a member was let in: the invites and the
\* requests carry what an officer granted.
LetInInv ==
    /\ MembersWereLetIn
    /\ \A i \in DOMAIN invites :
         <<invites[i].email, invites[i].org, invites[i].role>> \in named
    /\ \A r \in Requests :
         /\ reqs[r].pc = "insert_member" =>
              <<reqs[r].row.user, reqs[r].row.org, reqs[r].row.role>> \in named
         /\ reqs[r].pc = "insert_invite" =>
              <<reqs[r].row.email, reqs[r].row.org, reqs[r].row.role>> \in named

\* A step that grants nothing, and takes up nobody.
LEMMA NobodyNew ==
    ASSUME TypeInv, LetInInv, NEW r \in Requests, NEW q, Goto(r, q),
           q.pc \notin {"insert_member", "insert_invite"},
           named \subseteq named', members' \subseteq members, UNCHANGED invites
    PROVE  LetInInv'
<1>1. \A s \in Requests : reqs'[s] = IF s = r THEN q ELSE reqs[s]
  BY DEF Goto, TypeInv, ReqTypes
<1> QED
  BY <1>1 DEF LetInInv, MembersWereLetIn

\* The steps of files and links take up nobody.
LEMMA FilesLetNobodyIn ==
    ASSUME TypeInv, NEW r \in Requests, FileStep(r)
    PROVE  /\ UNCHANGED <<orgs, members, invites, named>>
           /\ \A s \in Requests :
                \/ reqs'[s] = reqs[s]
                \/ reqs'[s].pc \notin {"insert_member", "insert_invite", "mark_invite"}
<1> DEFINE q == reqs[r]
           Other == \A s \in Requests :
                      \/ reqs'[s] = reqs[s]
                      \/ reqs'[s].pc \notin {"insert_member", "insert_invite",
                                             "mark_invite"}
<1>0. DOMAIN reqs = Requests /\ ReqOK(q)
  BY DEF TypeInv, ReqTypes
<1>1. UNCHANGED <<orgs, members, invites, named>>
  BY DEF FileStep, Unchanged, Upload, UploadJson, UploadInto, Import, Presign,
      NewVersion, Move, Begin, CheckUser, CheckOrg, InsertFile, InsertEntry,
      SkipEntry, Resize, MoveFile, Confirm, Restore, Delete, BulkDelete,
      DeleteRead, TrashFile, Cascade, Deleted, Purge, ShareRead, InsertLink, RevokeLink, DownloadRead, Count
<1>2. ASSUME NEW x, Goto(r, x),
             x.pc \notin {"insert_member", "insert_invite", "mark_invite"}
      PROVE  Other
  BY <1>0, <1>2 DEF Goto
<1>3. CASE \/ Upload(r) \/ UploadJson(r) \/ Import(r) \/ Presign(r)
           \/ NewVersion(r) \/ Move(r)
  BY <1>1, <1>2, <1>3
  DEF Upload, UploadJson, UploadInto, Import, Presign, NewVersion, Move, Begin
<1>4. CASE CheckUser(r)
  <2>1. Goto(r, [q EXCEPT !.pc = "check_org", !.passed = Passed(q, q.user)])
        /\ "pc" \in DOMAIN q
    BY <1>0, <1>4 DEF CheckUser, ReqOK, JobOK
  <2> QED
    BY <1>1, <1>2, <2>1
<1>5. CASE CheckOrg(r)
  <2>1. \/ Goto(r, [q EXCEPT !.pc = q.do])
        \/ Goto(r, [q EXCEPT !.pc = q.do, !.passed = Passed(q, q.org)])
    BY <1>5 DEF CheckOrg
  <2>2. "pc" \in DOMAIN q /\ q.do \in {"insert", "insert_entry", "resize", "move"}
    BY <1>0, <1>5 DEF CheckOrg, ReqOK, JobOK
  <2> QED
    BY <1>1, <1>2, <2>1, <2>2
<1>6. ASSUME NextEntry(r), q.pc \in {"check_user", "insert_entry"} PROVE Other
  <2>1. CASE Finish(r)
    BY <1>2, <2>1 DEF Finish, Idle
  <2>2. CASE \E size \in Sizes :
               Goto(r, [q EXCEPT !.pc = "check_user", !.size = size,
                                 !.left = @ - 1, !.passed = <<>>])
    <3>1. "pc" \in DOMAIN q
      BY <1>0, <1>6 DEF ReqOK, JobOK
    <3> QED
      BY <1>2, <2>2, <3>1
  <2> QED
    BY <1>6, <2>1, <2>2 DEF NextEntry
<1>7. CASE InsertEntry(r) \/ SkipEntry(r)
  BY <1>1, <1>6, <1>7 DEF InsertEntry, SkipEntry
<1>8. CASE \/ InsertFile(r) \/ Resize(r) \/ MoveFile(r) \/ Deleted(r)
           \/ InsertLink(r) \/ Count(r)
  BY <1>1, <1>2, <1>8
  DEF InsertFile, Resize, MoveFile, Deleted, InsertLink, Count, Finish, Idle
<1>9. CASE Confirm(r) \/ Restore(r) \/ Purge(r) \/ RevokeLink(r)
  BY <1>1, <1>9 DEF Confirm, Restore, Purge, RevokeLink
<1>10. CASE \/ Delete(r) \/ BulkDelete(r) \/ TrashFile(r) \/ ShareRead(r)
            \/ DownloadRead(r)
  BY <1>1, <1>2, <1>10
  DEF Delete, BulkDelete, DeleteRead, TrashFile, ShareRead, DownloadRead,
      Finish, Idle
<1>11. CASE Cascade(r)
  <2>1. \/ Goto(r, [q EXCEPT !.pc = "deleted", !.cascaded = TRUE])
        \/ Goto(r, [q EXCEPT !.pc = "deleted"])
    BY <1>11 DEF Cascade
  <2>2. "pc" \in DOMAIN q
    BY <1>0, <1>11 DEF Cascade, ReqOK, LinkReqOK
  <2> QED
    BY <1>1, <1>2, <2>1, <2>2
<1> QED
  BY <1>3, <1>4, <1>5, <1>7, <1>8, <1>9, <1>10, <1>11 DEF FileStep

\* Every member, invited or added or founding, was let in.
LEMMA LetInStep ==
    ASSUME TypeInv, LetInInv, [Next]_vars
    PROVE  LetInInv'
<1>0. DOMAIN reqs = Requests
  BY DEF TypeInv, ReqTypes
<1>1. ASSUME NEW r \in Requests, OrgStep(r) \/ Abort(r) PROVE LetInInv'
  <2> DEFINE q == reqs[r]
  <2>1. CASE CreateOrg(r) \/ MarkInvite(r) \/ AuthorizeRemove(r) \/ RemoveMember(r)
             \/ Abort(r)
    <3>1. CASE MarkInvite(r)
      <4>1. invites' = [invites EXCEPT ![q.via].accepted = TRUE]
            /\ named' = named /\ members' = members /\ Goto(r, Idle)
        BY <3>1 DEF MarkInvite, Finish
      <4>2. \A i \in DOMAIN invites :
              invites[i] \in InviteType
        BY Lengths, ElementOfSeq DEF TypeInv, OrgTypes
      <4>3. DOMAIN invites' = DOMAIN invites
            /\ \A i \in DOMAIN invites : /\ invites'[i].email = invites[i].email
                                         /\ invites'[i].org = invites[i].org
                                         /\ invites'[i].role = invites[i].role
        BY <4>1, <4>2 DEF InviteType
      <4>4. \A s \in Requests : reqs'[s] = IF s = r THEN Idle ELSE reqs[s]
        BY <1>0, <4>1 DEF Goto
      <4> QED
        BY <4>1, <4>3, <4>4 DEF LetInInv, MembersWereLetIn, Idle
    <3>2. CASE CreateOrg(r) \/ AuthorizeRemove(r)
      BY <3>2, NobodyNew DEF CreateOrg, AuthorizeRemove
    <3>3. CASE RemoveMember(r) \/ Abort(r)
      BY <3>3, NobodyNew DEF RemoveMember, Abort, Finish, Idle
    <3> QED
      BY <2>1, <3>1, <3>2, <3>3
  <2>2. CASE InsertOrg(r)
    <3>1. CASE Finish(r) /\ UNCHANGED named
      BY <2>2, <3>1, NobodyNew DEF InsertOrg, Finish, Idle
    <3>2. CASE /\ named' = named \cup {<<q.user, q.org, "owner">>}
               /\ Goto(r, [pc |-> "insert_member", via |-> 0,
                           row |-> Member(q.org, q.user, "owner", 0)])
      <4>1. \A s \in Requests \ {r} : reqs'[s] = reqs[s]
        BY <1>0, <3>2 DEF Goto
      <4>2. /\ reqs'[r].pc = "insert_member" /\ reqs'[r].row.user = q.user
            /\ reqs'[r].row.org = q.org /\ reqs'[r].row.role = "owner"
        BY <1>0, <3>2 DEF Goto, Member
      <4>3. UNCHANGED <<members, invites>>
        BY <2>2 DEF InsertOrg
      <4> QED
        BY <3>2, <4>1, <4>2, <4>3 DEF LetInInv, MembersWereLetIn
    <3> QED
      BY <2>2, <3>1, <3>2 DEF InsertOrg
  <2>3. CASE AuthorizeAdd(r) \/ AuthorizeInvite(r)
    <3>1. PICK u \in Users, o \in orgs, role \in load.roles :
            /\ named' = named \cup {<<u, o, role>>}
            /\ \/ Goto(r, [pc |-> "insert_member", via |-> 0,
                           row |-> Member(o, u, role, 0)])
               \/ Goto(r, [pc |-> "insert_invite", row |->
                       [org |-> o, email |-> u, role |-> role,
                        accepted |-> FALSE, expired |-> FALSE]])
      BY <2>3 DEF AuthorizeAdd, AuthorizeInvite, LetIn, MayInvite, IsOfficer
    <3>2. \A s \in Requests \ {r} : reqs'[s] = reqs[s]
      BY <1>0, <3>1 DEF Goto
    <3>3. \/ /\ reqs'[r].pc = "insert_member" /\ reqs'[r].row.user = u
             /\ reqs'[r].row.org = o /\ reqs'[r].row.role = role
          \/ /\ reqs'[r].pc = "insert_invite" /\ reqs'[r].row.email = u
             /\ reqs'[r].row.org = o /\ reqs'[r].row.role = role
      BY <1>0, <3>1 DEF Goto, Member
    <3>4. UNCHANGED <<members, invites>>
      BY <2>3 DEF AuthorizeAdd, AuthorizeInvite
    <3> QED
      BY <3>1, <3>2, <3>3, <3>4 DEF LetInInv, MembersWereLetIn
  <2>4. CASE InsertInvite(r)
    <3>1. q.row \in InviteType /\ invites' = Append(invites, q.row)
          /\ invites \in Seq(InviteType)
      BY <2>4 DEF InsertInvite, TypeInv, ReqTypes, ReqOK, OrgReqOK, OrgTypes
    <3>2. /\ Len(invites) \in Nat /\ DOMAIN invites = 1..Len(invites)
          /\ DOMAIN invites' = 1..(Len(invites) + 1)
          /\ \A i \in 1..Len(invites) : invites'[i] = invites[i]
          /\ invites'[Len(invites) + 1] = q.row
      BY <3>1, AppendProperties, LenProperties
    <3>3. \A s \in Requests : reqs'[s] = IF s = r THEN Idle ELSE reqs[s]
      BY <1>0, <2>4 DEF InsertInvite, Finish, Goto
    <3>4. UNCHANGED <<members, named>> /\ q.pc = "insert_invite"
      BY <2>4 DEF InsertInvite
    <3>5. <<q.row.email, q.row.org, q.row.role>> \in named
      BY <3>4 DEF LetInInv
    <3>6. ASSUME NEW i \in DOMAIN invites'
          PROVE  <<invites'[i].email, invites'[i].org, invites'[i].role>> \in named
      <4>1. CASE i \in DOMAIN invites
        BY <3>2, <4>1 DEF LetInInv
      <4>2. CASE i = Len(invites) + 1
        BY <3>2, <3>5, <4>2
      <4> QED
        BY <3>2, <4>1, <4>2
    <3> QED
      BY <3>3, <3>4, <3>6 DEF LetInInv, MembersWereLetIn, Idle
  <2>5. CASE InsertMember(r)
    <3>1. /\ members' \subseteq members \cup {q.row} /\ UNCHANGED <<invites, named>>
          /\ q.pc = "insert_member"
      BY <2>5 DEF InsertMember
    <3>2. \A s \in Requests \ {r} : reqs'[s] = reqs[s]
      BY <1>0, <2>5 DEF InsertMember, Finish, Goto
    <3>3. reqs'[r].pc \in {"idle", "mark_invite"}
      BY <1>0, <2>5 DEF InsertMember, Finish, Goto, Idle
    <3> QED
      BY <3>1, <3>2, <3>3 DEF LetInInv, MembersWereLetIn
  <2>6. CASE Accept(r)
    <3>1. PICK i \in DOMAIN invites :
            Goto(r, [pc |-> "insert_member", via |-> i,
                     row |-> Member(invites[i].org, invites[i].email,
                                    invites[i].role, i)])
      BY <2>6 DEF Accept
    <3>2. \A s \in Requests \ {r} : reqs'[s] = reqs[s]
      BY <1>0, <3>1 DEF Goto
    <3>3. /\ reqs'[r].pc = "insert_member" /\ reqs'[r].row.user = invites[i].email
          /\ reqs'[r].row.org = invites[i].org
          /\ reqs'[r].row.role = invites[i].role
      BY <1>0, <3>1 DEF Goto, Member
    <3>4. UNCHANGED <<members, invites, named>>
      BY <2>6 DEF Accept
    <3> QED
      BY <3>2, <3>3, <3>4 DEF LetInInv, MembersWereLetIn
  <2> QED
    BY <1>1, <2>1, <2>2, <2>3, <2>4, <2>5, <2>6 DEF OrgStep
<1>2. ASSUME NEW r \in Requests, FileStep(r) PROVE LetInInv'
  BY <1>2, FilesLetNobodyIn DEF LetInInv, MembersWereLetIn
<1>3. CASE InviteExpires
  <2>1. PICK i \in DOMAIN invites : invites' = [invites EXCEPT ![i].expired = TRUE]
    BY <1>3 DEF InviteExpires
  <2>2. \A j \in DOMAIN invites : invites[j] \in InviteType
    BY Lengths, ElementOfSeq DEF TypeInv, OrgTypes
  <2>3. DOMAIN invites' = DOMAIN invites
        /\ \A j \in DOMAIN invites : /\ invites'[j].email = invites[j].email
                                     /\ invites'[j].org = invites[j].org
                                     /\ invites'[j].role = invites[j].role
    BY <2>1, <2>2 DEF InviteType
  <2> QED
    BY <1>3, <2>3 DEF InviteExpires, LetInInv, MembersWereLetIn
<1>4. CASE LinkExpires \/ UNCHANGED vars
  BY <1>4 DEF LinkExpires, vars, orgVars, LetInInv, MembersWereLetIn
<1> QED
  BY <1>1, <1>2, <1>3, <1>4 DEF Next

\* Nobody becomes a member, by whatever interleaving of invites, additions and
\* removals, whom no owner or administrator let in, in that role.
THEOREM MembersLetIn == Spec => []MembersWereLetIn
<1>1. Init => LetInInv
  BY DEF Init, OrgInit, LetInInv, MembersWereLetIn, Idle
<1>2. LetInInv => MembersWereLetIn
  BY DEF LetInInv
<1> QED
  BY <1>1, <1>2, LetInStep, TypesKept, PTL DEF Spec

\* A request takes an invite up only while it is open.
LEMMA OnlyOpenInvites ==
    ASSUME TypeInv, Next, NEW i \in DOMAIN invites, invites[i].accepted,
           NEW s \in UnderWay(i)'
    PROVE  s \in UnderWay(i)
<1>0. /\ DOMAIN reqs = Requests /\ i # 0
      /\ \A r \in Requests : ReqOK(reqs[r])
  BY Lengths DEF TypeInv, ReqTypes
<1>1. CASE reqs'[s] = reqs[s]
  BY <1>1 DEF UnderWay
<1>2. ASSUME NEW r \in Requests, FileStep(r), reqs'[s] # reqs[s] PROVE FALSE
  BY <1>2, FilesLetNobodyIn DEF UnderWay
<1>3. ASSUME NEW r \in Requests, NEW x, Goto(r, x), reqs'[s] # reqs[s],
             x.pc = "insert_member" => x.via # i
      PROVE  FALSE
  BY <1>0, <1>3 DEF Goto, UnderWay
<1>4. ASSUME NEW r \in Requests, OrgStep(r) \/ Abort(r), reqs'[s] # reqs[s]
      PROVE  FALSE
  <2>1. CASE Accept(r)
    BY <1>3, <1>4, <2>1 DEF Accept
  <2>2. CASE ~Accept(r)
    BY <1>0, <1>3, <1>4, <2>2
    DEF OrgStep, Abort, CreateOrg, InsertOrg, AuthorizeAdd, AuthorizeInvite,
        InsertInvite, InsertMember, MarkInvite, AuthorizeRemove, RemoveMember,
        Finish, Idle
  <2> QED
    BY <2>1, <2>2
<1>5. CASE InviteExpires \/ LinkExpires
  BY <1>1, <1>5 DEF InviteExpires, LinkExpires, orgVars
<1> QED
  BY <1>1, <1>2, <1>4, <1>5 DEF Next

\* An accepted invite keeps accepted_at.
LEMMA AcceptedForGood ==
    ASSUME TypeInv, Next, NEW i \in DOMAIN invites, invites[i].accepted
    PROVE  invites'[i].accepted
<1>1. /\ invites \in Seq(InviteType) /\ DOMAIN invites = 1..Len(invites)
      /\ \A j \in DOMAIN invites : invites[j] \in InviteType
  BY Lengths, ElementOfSeq DEF TypeInv, OrgTypes
<1>2. ASSUME NEW r \in Requests, InsertInvite(r) PROVE invites'[i] = invites[i]
  <2>1. reqs[r].row \in InviteType
    BY <1>2 DEF InsertInvite, TypeInv, ReqTypes, ReqOK, OrgReqOK
  <2> QED
    BY <1>1, <1>2, <2>1, AppendProperties DEF InsertInvite
<1>3. ASSUME NEW r \in Requests, MarkInvite(r) PROVE invites'[i].accepted
  BY <1>1, <1>3 DEF MarkInvite, InviteType
<1>4. ASSUME InviteExpires PROVE invites'[i].accepted
  BY <1>1, <1>4 DEF InviteExpires, InviteType
<1>5. ASSUME NEW r \in Requests, OrgStep(r), ~InsertInvite(r), ~MarkInvite(r)
      PROVE  UNCHANGED invites
  BY <1>5
  DEF OrgStep, CreateOrg, InsertOrg, AuthorizeAdd, AuthorizeInvite,
      InsertMember, Accept, AuthorizeRemove, RemoveMember
<1> QED
  BY <1>2, <1>3, <1>4, <1>5, FilesLetNobodyIn
  DEF Next, Abort, LinkExpires, orgVars

\* A membership that comes from an invite uses up a request that was under way.
LEMMA EntryUsesARequest ==
    ASSUME TypeInv, Next, NEW i \in DOMAIN invites,
           ~(CameThrough(i)' \subseteq CameThrough(i))
    PROVE  UnderWay(i)' # UnderWay(i)
<1>0. /\ DOMAIN reqs = Requests
      /\ \A r \in Requests : ReqOK(reqs[r])
  BY DEF TypeInv, ReqTypes
<1>1. ASSUME members' \subseteq members PROVE FALSE
  BY <1>1 DEF CameThrough
<1>2. ASSUME NEW r \in Requests, OrgStep(r) PROVE InsertMember(r)
  BY <1>1, <1>2
  DEF OrgStep, CreateOrg, InsertOrg, AuthorizeAdd, AuthorizeInvite,
      InsertInvite, Accept, MarkInvite, AuthorizeRemove, RemoveMember
<1>3. PICK r \in Requests : InsertMember(r)
  BY <1>1, <1>2, FilesLetNobodyIn
  DEF Next, Abort, InviteExpires, LinkExpires, orgVars
<1>4. reqs[r].via = i
  <2>1. reqs[r].via = reqs[r].row.via
    BY <1>0, <1>3 DEF InsertMember, ReqOK, OrgReqOK
  <2> QED
    BY <1>1, <1>3, <2>1 DEF InsertMember, CameThrough
<1>5. r \in UnderWay(i)
  BY <1>3, <1>4 DEF InsertMember, UnderWay
<1>6. reqs'[r].pc # "insert_member"
  BY <1>0, <1>3 DEF InsertMember, Finish, Goto, Idle
<1> QED
  BY <1>5, <1>6 DEF UnderWay

\* Once accepted, an invite admits nobody but through the requests that had
\* read it before, each of them once, whatever happens to memberships.
THEOREM InvitesAreSpent == Spec => SpentInviteAdmitsNobodyNew
<1>1. TypeInv /\ [Next]_vars
        => [\A i \in DOMAIN invites : invites[i].accepted =>
              /\ invites'[i].accepted
              /\ UnderWay(i)' \subseteq UnderWay(i)
              /\ CameThrough(i)' \subseteq CameThrough(i) \/ UnderWay(i)' # UnderWay(i)
           ]_orgVars
  BY OnlyOpenInvites, AcceptedForGood, EntryUsesARequest DEF vars
<1> QED
  BY <1>1, TypesKept, PTL DEF Spec, SpentInviteAdmitsNobodyNew

-----------------------------------------------------------------------------
(* Links *)

\* No write to a file's row brings a purged file back.
LEMMA FilesStep ==
    ASSUME TypeInv, [Next]_vars, NEW f \in DOMAIN files
    PROVE  f \in DOMAIN files' /\ (files[f].state = "purged" => files'[f].state = "purged")
<1>0. /\ files \in Seq(FileSet) /\ DOMAIN files = 1..Len(files) /\ Len(files) \in Nat
      /\ \A g \in DOMAIN files : files[g] \in FileSet
      /\ \A r \in Requests : ReqOK(reqs[r])
  BY Lengths, SizesAreNat DEF TypeInv, FileTypes, ReqTypes
<1>1. ASSUME NEW g \in DOMAIN files, NEW file, NEW passed, Write(g, file, passed),
             files[g].state = "purged" => file.state = "purged"
      PROVE  f \in DOMAIN files'
             /\ (files[f].state = "purged" => files'[f].state = "purged")
  BY <1>0, <1>1 DEF Write
<1>2. ASSUME NEW file \in FileSet, NEW passed, Insert(file, passed)
      PROVE  f \in DOMAIN files' /\ files'[f] = files[f]
  <2>1. files' \in Seq(FileSet) /\ Len(files') = Len(files) + 1
        /\ files'[f] = files[f]
    BY <1>0, <1>2, AppendProperties DEF Insert
  <2> QED
    BY <1>0, <2>1, LenProperties
<1>3. ASSUME NEW r \in Requests, FileStep(r)
      PROVE  f \in DOMAIN files'
             /\ (files[f].state = "purged" => files'[f].state = "purged")
  <2>1. CASE InsertFile(r) \/ InsertEntry(r)
    <3>1. FileOf(reqs[r]) \in FileSet
      BY <1>0, <2>1 DEF InsertFile, InsertEntry, FileOf, FileSet, ReqOK, JobOK
    <3> QED
      BY <1>2, <2>1, <3>1 DEF InsertFile, InsertEntry
  <2>2. CASE Resize(r) \/ MoveFile(r)
    <3>1. reqs[r].file \in DOMAIN files
      BY <1>0, <2>2 DEF Resize, MoveFile, ReqOK, JobOK
    <3>2. \/ Write(reqs[r].file, [files[reqs[r].file] EXCEPT !.size = reqs[r].size],
                   reqs[r].passed)
          \/ Write(reqs[r].file, [files[reqs[r].file] EXCEPT !.org = reqs[r].org],
                   reqs[r].passed)
      BY <2>2 DEF Resize, MoveFile
    <3>3. files[reqs[r].file] \in FileSet
      BY <1>0, <3>1
    <3> QED
      BY <1>1, <3>1, <3>2, <3>3 DEF FileSet
  <2>3. CASE Confirm(r) \/ Restore(r) \/ TrashFile(r) \/ Purge(r)
    <3>1. PICK g \in DOMAIN files :
            \/ files[g].state # "purged" /\ \E file : Write(g, file, <<>>)
            \/ Write(g, [files[g] EXCEPT !.state = "purged"], <<>>)
      BY <2>3 DEF Confirm, Restore, TrashFile, Purge, Exists
    <3>2. files[g] \in FileSet
      BY <1>0
    <3>3. CASE files[g].state # "purged" /\ \E file : Write(g, file, <<>>)
      BY <1>1, <3>3
    <3>4. CASE Write(g, [files[g] EXCEPT !.state = "purged"], <<>>)
      BY <1>1, <3>2, <3>4 DEF FileSet
    <3> QED
      BY <3>1, <3>3, <3>4
  <2>4. CASE \/ Upload(r) \/ UploadJson(r) \/ Import(r) \/ Presign(r)
             \/ NewVersion(r) \/ Move(r) \/ CheckUser(r) \/ CheckOrg(r)
             \/ SkipEntry(r) \/ Delete(r) \/ BulkDelete(r) \/ Cascade(r)
             \/ Deleted(r) \/ ShareRead(r) \/ InsertLink(r) \/ RevokeLink(r)
             \/ DownloadRead(r) \/ Count(r)
    BY <2>4
    DEF Upload, UploadJson, UploadInto, Import, Presign, NewVersion, Move, Begin,
        CheckUser, CheckOrg, SkipEntry, Delete, BulkDelete, DeleteRead, Cascade,
        Deleted, ShareRead, InsertLink, RevokeLink, DownloadRead, Count, shareVars
  <2> QED
    BY <1>3, <2>1, <2>2, <2>3, <2>4 DEF FileStep
<1> QED
  BY <1>3 DEF Next, LinkExpires, vars, shareVars

\* No write to a link's row opens a link again or gives it another file.
LEMMA LinksStep ==
    ASSUME TypeInv, [Next]_vars, NEW l \in DOMAIN links
    PROVE  /\ l \in DOMAIN links' /\ links'[l].file = links[l].file
           /\ links[l].revoked => links'[l].revoked
           /\ links[l].expired => links'[l].expired
<1> DEFINE Kept == /\ l \in DOMAIN links' /\ links'[l].file = links[l].file
                   /\ links[l].revoked => links'[l].revoked
                   /\ links[l].expired => links'[l].expired
<1>0. /\ links \in Seq(LinkType) /\ DOMAIN links = 1..Len(links)
      /\ Len(links) \in Nat /\ \A k \in DOMAIN links : links[k] \in LinkType
      /\ \A r \in Requests : ReqOK(reqs[r])
  BY Lengths, ElementOfSeq DEF TypeInv, FileTypes, ReqTypes
<1>1. ASSUME NEW S, Revoke(S) PROVE Kept
  BY <1>0, <1>1 DEF Revoke, LinkType
<1>2. ASSUME NEW r \in Requests, InsertLink(r) PROVE Kept
  <2>1. PICK x : x = [file |-> reqs[r].file, revoked |-> FALSE,
                      expired |-> FALSE, count |-> 0]
    OBVIOUS
  <2>2. x \in LinkType /\ links' = Append(links, x)
    BY <1>0, <1>2, <2>1 DEF InsertLink, LinkType, ReqOK, LinkReqOK
  <2>3. /\ links' \in Seq(LinkType) /\ Len(links') = Len(links) + 1
        /\ links'[l] = links[l]
    BY <1>0, <2>2, AppendProperties
  <2> QED
    BY <1>0, <2>3, LenProperties
<1>3. ASSUME NEW r \in Requests, Count(r) PROVE Kept
  <2>1. \/ links' = links
        \/ links' = [links EXCEPT ![reqs[r].link].count = reqs[r].row.count + 1]
    BY <1>3 DEF Count
  <2> QED
    BY <1>0, <2>1 DEF LinkType
<1>4. CASE LinkExpires
  <2>1. PICK k \in DOMAIN links : links' = [links EXCEPT ![k].expired = TRUE]
    BY <1>4 DEF LinkExpires
  <2> QED
    BY <1>0, <2>1 DEF LinkType
<1>5. ASSUME UNCHANGED links PROVE Kept
  BY <1>5
<1>6. ASSUME NEW r \in Requests, FileStep(r) PROVE Kept
  <2>1. CASE Cascade(r) \/ RevokeLink(r)
    BY <1>1, <1>5, <2>1 DEF Cascade, RevokeLink
  <2>2. CASE \/ Upload(r) \/ UploadJson(r) \/ Import(r) \/ Presign(r)
             \/ NewVersion(r) \/ Move(r) \/ CheckUser(r) \/ CheckOrg(r)
             \/ InsertFile(r) \/ InsertEntry(r) \/ SkipEntry(r)
             \/ Resize(r) \/ MoveFile(r) \/ Confirm(r) \/ Restore(r)
             \/ Delete(r) \/ BulkDelete(r) \/ TrashFile(r) \/ Deleted(r)
             \/ Purge(r) \/ ShareRead(r) \/ DownloadRead(r)
    BY <1>5, <2>2
    DEF Upload, UploadJson, UploadInto, Import, Presign, NewVersion, Move, Begin,
        CheckUser, CheckOrg, InsertFile, InsertEntry, SkipEntry, Resize,
        MoveFile, Confirm, Restore, Delete, BulkDelete, DeleteRead, TrashFile,
        Deleted, Purge, ShareRead, DownloadRead, shareVars
  <2> QED
    BY <1>2, <1>3, <1>6, <2>1, <2>2 DEF FileStep
<1> QED
  BY <1>4, <1>5, <1>6 DEF Next, vars, shareVars

\* What no longer works never works again.
LEMMA DeadStep ==
    ASSUME TypeInv, [Next]_vars, NEW l \in DOMAIN links, ~Works(l)
    PROVE  ~Works(l)'
<1>1. links[l] \in LinkType
  BY Lengths, ElementOfSeq DEF TypeInv, FileTypes
<1>2. links[l].file \in DOMAIN files
  BY <1>1 DEF LinkType
<1> QED
  BY <1>2, FilesStep, LinksStep DEF Works, Exists

\* A link that was revoked or has expired or whose file was purged never works
\* again, although downloads that had read it before write to its row later.
THEOREM DeadLinks == Spec => DeadLinkStaysDead
<1>1. TypeInv /\ [Next]_vars
        => [\A l \in DOMAIN links : ~Works(l) => ~Works(l)']_vars
  BY DeadStep
<1> QED
  BY <1>1, TypesKept, PTL DEF Spec, DeadLinkStaysDead

\* A deletion remembers links of its own file; those it has cascaded to are dead.
CascadeInv ==
    \A r \in Requests :
      /\ reqs[r].pc = "cascade" =>
           /\ ~reqs[r].cascaded
           /\ \A l \in reqs[r].open : links[l].file = reqs[r].file
      /\ reqs[r].pc = "deleted" /\ reqs[r].cascaded =>
           \A l \in reqs[r].open : ~Works(l)

\* What a request remembers of links that are open stays true.
LEMMA CascadeKept ==
    ASSUME TypeInv, CascadeInv, [Next]_vars, NEW s \in Requests,
           reqs'[s] = reqs[s]
    PROVE  /\ reqs'[s].pc = "cascade" =>
                /\ ~reqs'[s].cascaded
                /\ \A l \in reqs'[s].open : links'[l].file = reqs'[s].file
           /\ reqs'[s].pc = "deleted" /\ reqs'[s].cascaded =>
                \A l \in reqs'[s].open : ~Works(l)'
<1>1. reqs[s].pc \in {"cascade", "deleted"} => reqs[s].open \subseteq DOMAIN links
  BY DEF TypeInv, ReqTypes, ReqOK, LinkReqOK
<1> QED
  BY <1>1, LinksStep, DeadStep DEF CascadeInv

\* Who takes the steps of a deletion.
LEMMA WhoDeletes ==
    ASSUME TypeInv, Next, NEW s \in Requests, reqs'[s] # reqs[s],
           reqs'[s].pc \in {"cascade", "deleted"}
    PROVE  TrashFile(s) \/ Cascade(s)
<1>0. /\ DOMAIN reqs = Requests
      /\ \A r \in Requests : ReqOK(reqs[r])
  BY DEF TypeInv, ReqTypes
<1>1. ASSUME NEW r \in Requests, NEW x, Goto(r, x), x.pc \notin {"cascade", "deleted"}
      PROVE  FALSE
  BY <1>0, <1>1 DEF Goto
<1>2. ASSUME NEW r \in Requests, OrgStep(r) \/ Abort(r) PROVE FALSE
  BY <1>1, <1>2
  DEF OrgStep, Abort, CreateOrg, InsertOrg, AuthorizeAdd, AuthorizeInvite,
      InsertInvite, InsertMember, Accept, MarkInvite, AuthorizeRemove,
      RemoveMember, Finish, Idle
<1>3. ASSUME NEW r \in Requests, FileStep(r), ~TrashFile(r), ~Cascade(r) PROVE FALSE
  <2>1. CASE \/ Upload(r) \/ UploadJson(r) \/ Import(r) \/ Presign(r)
             \/ NewVersion(r) \/ Move(r)
    BY <1>1, <2>1
    DEF Upload, UploadJson, UploadInto, Import, Presign, NewVersion, Move, Begin
  <2>2. CASE CheckUser(r)
    <3>1. Goto(r, [reqs[r] EXCEPT !.pc = "check_org",
                                  !.passed = Passed(reqs[r], reqs[r].user)])
          /\ "pc" \in DOMAIN reqs[r]
      BY <1>0, <2>2 DEF CheckUser, ReqOK, JobOK
    <3> QED
      BY <1>1, <3>1
  <2>3. CASE CheckOrg(r)
    <3>1. /\ "pc" \in DOMAIN reqs[r]
          /\ reqs[r].do \in {"insert", "insert_entry", "resize", "move"}
      BY <1>0, <2>3 DEF CheckOrg, ReqOK, JobOK
    <3> QED
      BY <1>1, <2>3, <3>1 DEF CheckOrg
  <2>4. CASE InsertEntry(r) \/ SkipEntry(r)
    <3>1. "pc" \in DOMAIN reqs[r] /\ NextEntry(r)
      BY <1>0, <2>4 DEF InsertEntry, SkipEntry, ReqOK, JobOK
    <3> QED
      BY <1>1, <3>1 DEF NextEntry, Finish, Idle
  <2>5. CASE \/ InsertFile(r) \/ Resize(r) \/ MoveFile(r) \/ Deleted(r)
             \/ InsertLink(r) \/ Count(r) \/ ShareRead(r) \/ DownloadRead(r)
             \/ Delete(r) \/ BulkDelete(r)
    BY <1>1, <2>5
    DEF InsertFile, Resize, MoveFile, Deleted, InsertLink, Count, ShareRead,
        DownloadRead, Delete, BulkDelete, DeleteRead, Finish, Idle
  <2>6. CASE Confirm(r) \/ Restore(r) \/ Purge(r) \/ RevokeLink(r)
    BY <2>6 DEF Confirm, Restore, Purge, RevokeLink
  <2> QED
    BY <1>3, <2>1, <2>2, <2>3, <2>4, <2>5, <2>6 DEF FileStep
<1>4. ASSUME NEW r \in Requests, TrashFile(r) \/ Cascade(r) PROVE r = s
  BY <1>0, <1>4 DEF TrashFile, Cascade, Finish, Goto
<1>5. CASE InviteExpires \/ LinkExpires
  BY <1>5 DEF InviteExpires, LinkExpires, orgVars
<1> QED
  BY <1>2, <1>3, <1>4, <1>5 DEF Next

\* Every step keeps what deletions remember.
LEMMA CascadeStep ==
    ASSUME TypeInv, CascadeInv, [Next]_vars
    PROVE  CascadeInv'
<1> SUFFICES ASSUME NEW s \in Requests
             PROVE  /\ reqs'[s].pc = "cascade" =>
                         /\ ~reqs'[s].cascaded
                         /\ \A l \in reqs'[s].open :
                              links'[l].file = reqs'[s].file
                    /\ reqs'[s].pc = "deleted" /\ reqs'[s].cascaded =>
                         \A l \in reqs'[s].open : ~Works(l)'
  BY DEF CascadeInv
<1>0. DOMAIN reqs = Requests /\ ReqOK(reqs[s])
  BY DEF TypeInv, ReqTypes
<1>1. CASE reqs'[s] = reqs[s]
  BY <1>1, CascadeKept
<1>2. CASE TrashFile(s)
  <2>1. PICK f : f = reqs[s].file
    OBVIOUS
  <2>2. CASE Goto(s, [pc |-> "cascade", file |-> f, open |-> OpenLinks(f),
                      cascaded |-> FALSE])
    <3>1. /\ reqs'[s].pc = "cascade" /\ reqs'[s].file = f
          /\ reqs'[s].open = OpenLinks(f) /\ UNCHANGED links
          /\ ~reqs'[s].cascaded
      BY <1>0, <1>2, <2>2 DEF Goto, TrashFile
    <3> QED
      BY <3>1 DEF OpenLinks
  <2>3. CASE Finish(s)
    BY <1>0, <2>3 DEF Finish, Goto, Idle
  <2> QED
    BY <1>2, <2>1, <2>2, <2>3 DEF TrashFile
<1>3. CASE Cascade(s)
  <2> DEFINE q == reqs[s]
  <2>1. /\ q.pc = "cascade" /\ {"pc", "cascaded"} \subseteq DOMAIN q
        /\ q.open \subseteq DOMAIN links
    BY <1>0, <1>3 DEF Cascade, ReqOK, LinkReqOK
  <2>2. CASE /\ Revoke(OpenLinks(q.file))
             /\ Goto(s, [q EXCEPT !.pc = "deleted", !.cascaded = TRUE])
    <3>1. reqs'[s].pc = "deleted" /\ reqs'[s].open = q.open
      BY <1>0, <2>1, <2>2 DEF Goto
    <3>2. \A l \in q.open : links[l] \in LinkType /\ links[l].file = q.file
      BY <2>1, Lengths, ElementOfSeq DEF TypeInv, FileTypes, CascadeInv
    <3>3. ASSUME NEW l \in q.open PROVE links'[l].revoked
      BY <2>1, <2>2, <3>2, <3>3 DEF Revoke, OpenLinks, LinkType
    <3> QED
      BY <3>1, <3>3 DEF Works
  <2>3. CASE Goto(s, [q EXCEPT !.pc = "deleted"])
    <3>1. ~q.cascaded
      BY <2>1 DEF CascadeInv
    <3> QED
      BY <1>0, <2>1, <2>3, <3>1 DEF Goto
  <2> QED
    BY <1>3, <2>2, <2>3 DEF Cascade
<1>4. CASE UNCHANGED vars
  BY <1>1, <1>4 DEF vars, orgVars
<1> QED
  BY <1>1, <1>2, <1>3, <1>4, WhoDeletes

\* When a deletion has answered, and the UPDATE of the links did not fail, none
\* of the links that were open when it trashed the row works any more, for any
\* number of files, links and requests.
THEOREM LinksDie == Spec => []LinksDieWithFile
<1>1. Init => CascadeInv
  BY DEF Init, OrgInit, CascadeInv, Idle
<1>2. CascadeInv => LinksDieWithFile
  BY DEF CascadeInv, LinksDieWithFile
<1> QED
  BY <1>1, <1>2, CascadeStep, TypesKept, PTL DEF Spec

-----------------------------------------------------------------------------
(* Sums of sizes *)

\* The bytes of the files S of a table t, each with the file it belongs to.
BytesOf(t, S) == {b \in S \X Nat : 1 <= b[2] /\ b[2] <= t[b[1]].size}

\* The sizes of a finite set of files.
Sized(t, S, n) == IsFiniteSet(S) /\ \A f \in S : t[f].size \in 0..n

\* The bytes of finitely many files are finitely many, and those of one of them
\* can be counted apart.
LEMMA BytesApart ==
    ASSUME NEW t, NEW S, NEW n \in Nat, Sized(t, S, n)
    PROVE  /\ IsFiniteSet(BytesOf(t, S)) /\ Cardinality(BytesOf(t, S)) \in Nat
           /\ BytesOf(t, {}) = {}
           /\ \A f \in S :
                Cardinality(BytesOf(t, S))
                  = t[f].size + Cardinality(BytesOf(t, S \ {f}))
<1>1. IsFiniteSet(S \X (1..n))
  <2>1. IsFiniteSet(1..n)
    BY FS_Interval
  <2> QED
    BY <2>1, FS_Product DEF Sized
<1>2. BytesOf(t, S) \in SUBSET (S \X (1..n))
  BY DEF BytesOf, Sized
<1>3. IsFiniteSet(BytesOf(t, S)) /\ Cardinality(BytesOf(t, S)) \in Nat
  BY <1>1, <1>2, FS_Subset, FS_CardinalityType
<1>4. ASSUME NEW f \in S
      PROVE  Cardinality(BytesOf(t, S))
               = t[f].size + Cardinality(BytesOf(t, S \ {f}))
  <2> DEFINE own == {f} \X (1..t[f].size)
             rest == BytesOf(t, S \ {f})
  <2>1. t[f].size \in Nat
    BY DEF Sized
  <2>2. IsFiniteSet(own) /\ Cardinality(own) = t[f].size
    <3>1. IsFiniteSet({f}) /\ Cardinality({f}) = 1
      BY FS_Singleton
    <3>2. /\ IsFiniteSet(1..t[f].size)
          /\ Cardinality(1..t[f].size) = t[f].size
      <4>1. PICK k \in Nat : k = t[f].size
        BY <2>1
      <4>2. /\ IsFiniteSet(1..k)
            /\ Cardinality(1..k) = IF 1 > k THEN 0 ELSE k - 1 + 1
        BY FS_Interval
      <4> QED
        BY <4>1, <4>2
    <3>3. IsFiniteSet(own) /\ Cardinality(own) = 1 * t[f].size
      BY <3>1, <3>2, FS_Product
    <3> QED
      BY <2>1, <3>3
  <2>3. BytesOf(t, S) = own \cup rest
    <3>1. \A b \in S \X Nat :
            b \in own <=> b[1] = f /\ 1 <= b[2] /\ b[2] <= t[f].size
      BY <2>1
    <3>2. own \subseteq S \X Nat
      BY <2>1
    <3> QED
      BY <3>1, <3>2 DEF BytesOf
  <2>4. own \cap rest = {}
    BY DEF BytesOf
  <2>5. rest \in SUBSET BytesOf(t, S)
    BY <2>3
  <2>6. IsFiniteSet(rest) /\ Cardinality(rest) \in Nat
    BY <1>3, <2>5, FS_Subset, FS_CardinalityType
  <2> HIDE DEF own, rest
  <2>7. Cardinality(own \cap rest) = 0
    BY <2>4, FS_EmptySet
  <2>8. Cardinality(own \cup rest)
          = Cardinality(own) + Cardinality(rest) - Cardinality(own \cap rest)
    BY <2>2, <2>6, FS_Union
  <2>9. Cardinality(BytesOf(t, S)) = t[f].size + Cardinality(rest)
    BY <2>1, <2>2, <2>3, <2>6, <2>7, <2>8
  <2> QED
    BY <2>9 DEF rest
<1> QED
  BY <1>3, <1>4 DEF BytesOf

\* A sum of sizes is the number of bytes there are.
LEMMA SumCounts ==
    ASSUME NEW t, NEW S, NEW n \in Nat, Sized(t, S, n)
    PROVE  MapThenSumSet(LAMBDA f : t[f].size, S) = Cardinality(BytesOf(t, S))
<1> DEFINE first(s) == CHOOSE x \in s : TRUE
           count == [s \in SUBSET S |-> Cardinality(BytesOf(t, s))]
           step(h) == [s \in SUBSET S |->
                         IF s = {} THEN 0
                         ELSE t[first(s)].size + h[s \ {first(s)}]]
           sum == CHOOSE h : h = step(h)
<1>1. MapThenSumSet(LAMBDA f : t[f].size, S) = sum[S]
  BY DEF MapThenSumSet, MapThenFoldSet
<1>2. \A s \in SUBSET S : Sized(t, s, n)
  BY FS_Subset DEF Sized
<1>3. \A s \in SUBSET S : s # {} => first(s) \in s
  OBVIOUS
<1>4. ASSUME NEW s \in SUBSET S
      PROVE  count[s] = IF s = {} THEN 0
                        ELSE t[first(s)].size + count[s \ {first(s)}]
  <2>1. CASE s = {}
    <3>1. BytesOf(t, s) = {}
      BY <2>1 DEF BytesOf
    <3> QED
      BY <2>1, <3>1, FS_EmptySet
  <2>2. CASE s # {}
    <3>1. PICK x \in s : x = first(s)
      BY <1>3, <2>2
    <3>2. Cardinality(BytesOf(t, s))
            = t[x].size + Cardinality(BytesOf(t, s \ {x}))
      <4>1. Sized(t, s, n)
        BY <1>2
      <4> QED
        BY <4>1, BytesApart
    <3>3. s \ {x} \in SUBSET S
      OBVIOUS
    <3> QED
      BY <2>2, <3>1, <3>2, <3>3
  <2> QED
    BY <2>1, <2>2
<1> HIDE DEF first
<1>5. count = step(count)
  BY <1>4
<1> HIDE DEF count
<1>6. sum = step(sum)
  BY <1>5
<1> HIDE DEF sum
<1>7. ASSUME NEW s \in SUBSET S
      PROVE  /\ sum[s] = IF s = {} THEN 0
                         ELSE t[first(s)].size + sum[s \ {first(s)}]
             /\ count[s] = IF s = {} THEN 0
                           ELSE t[first(s)].size + count[s \ {first(s)}]
  BY <1>5, <1>6
<1>8. sum[S] = count[S]
  <2> DEFINE wrong == {s \in SUBSET S : sum[s] # count[s]}
  <2> SUFFICES wrong = {}
    BY DEF wrong
  <2>1. wrong \subseteq FiniteSubsetsOf(S)
    BY FS_Subset DEF FiniteSubsetsOf, Sized
  <2>2. ASSUME wrong # {} PROVE FALSE
    <3> HIDE DEF wrong
    <3>1. PICK s \in wrong :
            \A u \in wrong : ~(<<u, s>> \in StrictSubsetOrdering(S))
      BY <2>1, <2>2, WFMin, FS_StrictSubsetOrderingWellFounded
    <3> USE DEF wrong
    <3>2. s \in SUBSET S /\ sum[s] # count[s] /\ s # {}
      BY <3>1, <1>7
    <3>3. PICK x \in s : x = first(s)
      BY <1>3, <3>2
    <3>4. <<s \ {x}, s>> \in StrictSubsetOrdering(S)
      BY <3>2, <3>3 DEF StrictSubsetOrdering
    <3>5. sum[s \ {x}] = count[s \ {x}]
      BY <3>1, <3>2, <3>4
    <3> QED
      BY <1>7, <3>2, <3>3, <3>5
  <2> QED
    BY <2>2
<1> QED
  BY <1>1, <1>8 DEF count

-----------------------------------------------------------------------------
(* Quotas *)

\* The files that count for an account.
Counted(a) == {f \in DOMAIN files : Counts(files[f], a)}

\* What an account uses is the number of bytes of its files.
Summed ==
    /\ DOMAIN files \subseteq Nat
    /\ \A f \in DOMAIN files : files[f].size \in 0..MaxSize
    /\ \A a \in Accounts :
         /\ Sized(files, Counted(a), MaxSize)
         /\ Used(a) = Cardinality(BytesOf(files, Counted(a)))
         /\ Used(a) \in Nat

\* Sums of sizes can be counted, in every state the types allow.
LEMMA Sums == TypeInv => Summed
<1> SUFFICES ASSUME TypeInv PROVE Summed
  OBVIOUS
<1>1. \A f \in DOMAIN files : files[f].size \in 0..MaxSize
  BY SizesAreNat, SharingAssumption DEF TypeInv, LoadType, Sizes, FileSet
<1>2. DOMAIN files \subseteq Nat /\ IsFiniteSet(DOMAIN files)
  <2>1. PICK n \in Nat : DOMAIN files = 1..n
    BY Lengths
  <2> QED
    BY <2>1, FS_Interval
<1>3. ASSUME NEW a \in Accounts
      PROVE  /\ Sized(files, Counted(a), MaxSize)
             /\ Used(a) = Cardinality(BytesOf(files, Counted(a)))
             /\ Used(a) \in Nat
  <2>1. Counted(a) \in SUBSET DOMAIN files
    BY DEF Counted
  <2>2. Sized(files, Counted(a), MaxSize)
    BY <1>1, <1>2, <2>1, FS_Subset DEF Sized
  <2>3. MapThenSumSet(LAMBDA f : files[f].size, Counted(a))
          = Cardinality(BytesOf(files, Counted(a)))
    BY <2>2, SumCounts, SharingAssumption
  <2>4. Used(a) = Cardinality(BytesOf(files, Counted(a)))
    BY <2>3 DEF Used, Counted
  <2> QED
    BY <2>2, <2>4, BytesApart, SharingAssumption
<1> QED
  BY <1>1, <1>2, <1>3 DEF Summed

\* The same after a step.
LEMMA SumsNext == TypeInv' => Summed'
BY Sums, PTL

\* What counts of one file, and of the others.
LEMMA OneFileApart ==
    ASSUME NEW t, NEW S, Sized(t, S, MaxSize), NEW f,
           f \in S => t[f].size \in Nat
    PROVE  Cardinality(BytesOf(t, S))
             = (IF f \in S THEN t[f].size ELSE 0)
               + Cardinality(BytesOf(t, S \ {f}))
<1>1. CASE f \in S
  BY <1>1, BytesApart, SharingAssumption
<1>2. CASE f \notin S
  <2>1. S \ {f} = S
    BY <1>2
  <2>2. Cardinality(BytesOf(t, S)) \in Nat
    BY BytesApart, SharingAssumption
  <2> QED
    BY <1>2, <2>1, <2>2
<1> QED
  BY <1>1, <1>2

\* A write to one row of the table, or a new row, raises what an account uses
\* by no more than the bytes by which that row grows.
LEMMA UsedGrows ==
    ASSUME TypeInv, TypeInv', NEW a \in Accounts, NEW f, NEW old, NEW new,
           DOMAIN files' = DOMAIN files \cup {f}, files'[f] = new,
           old = IF f \in DOMAIN files THEN files[f] ELSE Nothing,
           \A g \in DOMAIN files \ {f} : files'[g] = files[g]
    PROVE  Used(a)' <= Used(a) + Grows(old, new, a)
<1> DEFINE S == Counted(a)
           S1 == {g \in DOMAIN files' : Counts(files'[g], a)}
<1>1. /\ \A g \in DOMAIN files : files[g].size \in 0..MaxSize
      /\ Sized(files, S, MaxSize) /\ Used(a) = Cardinality(BytesOf(files, S))
  BY Sums DEF Summed
<1>2. /\ \A g \in DOMAIN files' : files'[g].size \in 0..MaxSize
      /\ Sized(files', S1, MaxSize) /\ Used(a)' = Cardinality(BytesOf(files', S1))
  BY SumsNext DEF Summed, Counted
<1>3. S \ {f} = S1 \ {f}
  BY DEF Counted
<1>4. BytesOf(files, S \ {f}) = BytesOf(files', S1 \ {f})
  BY <1>3 DEF BytesOf, Counted
<1>5. PICK n : n = Cardinality(BytesOf(files, S \ {f}))
  OBVIOUS
<1>6. n \in Nat
  <2>1. Sized(files, S \ {f}, MaxSize)
    BY <1>1, FS_RemoveElement DEF Sized
  <2> QED
    BY <1>5, <2>1, BytesApart, SharingAssumption
<1>7. Used(a) = CountedBytes(old, a) + n /\ CountedBytes(old, a) \in Nat
  <2>1. (IF f \in S THEN files[f].size ELSE 0) = CountedBytes(old, a)
    BY DEF CountedBytes, Counted, Counts, Nothing
  <2>2. CountedBytes(old, a) \in Nat
    BY <1>1, SharingAssumption, <2>1 DEF Counted
  <2>3. Cardinality(BytesOf(files, S))
          = (IF f \in S THEN files[f].size ELSE 0)
            + Cardinality(BytesOf(files, S \ {f}))
    BY <1>1, <2>1, <2>2, OneFileApart
  <2> QED
    BY <1>1, <1>5, <2>1, <2>2, <2>3
<1>8. Used(a)' = CountedBytes(new, a) + n /\ CountedBytes(new, a) \in Nat
  <2>1. (IF f \in S1 THEN files'[f].size ELSE 0) = CountedBytes(new, a)
    BY DEF CountedBytes, Counts
  <2>2. CountedBytes(new, a) \in Nat
    BY <1>2, SharingAssumption, <2>1
  <2>3. Cardinality(BytesOf(files', S1))
          = (IF f \in S1 THEN files'[f].size ELSE 0)
            + Cardinality(BytesOf(files', S1 \ {f}))
    BY <1>2, <2>1, <2>2, OneFileApart
  <2> QED
    BY <1>2, <1>4, <1>5, <2>1, <2>2, <2>3
<1> QED
  BY <1>6, <1>7, <1>8 DEF Grows

\* A request that checks quotas, or will write by what it checked.
JobSteps == {"check_user", "check_org", "insert", "insert_entry", "resize", "move"}

\* A check of an account is out of date, or the bytes it made room for still fit.
Fits(p, a) ==
    /\ p[a].at \in Nat /\ p[a].at <= entered[a] /\ p[a].size \in Nat
    /\ p[a].at = entered[a] => Used(a) + p[a].size <= Quota(a) + unchecked[a]

ChecksFit(p) == \A a \in Accounts \cap DOMAIN p : Fits(p, a)

\* QuotaExceededOnlyBy needs what the requests have checked.
QuotaInv ==
    /\ QuotaExceededOnlyBy
    /\ \A r \in Requests : reqs[r].pc \in JobSteps => ChecksFit(reqs[r].passed)

\* A request that has checked nothing yet.
LEMMA NothingChecked == ChecksFit(<<>>) /\ ChecksFit(<<>>)'
BY DEF ChecksFit

\* Checks stay as good as they are while no file's row is written.
LEMMA ChecksStay ==
    ASSUME UNCHANGED <<files, entered, unchecked>>
    PROVE  /\ \A a : Used(a)' = Used(a)
           /\ \A p : ChecksFit(p) => ChecksFit(p)'
<1>1. \A a : Used(a)' = Used(a)
  BY DEF Used, Counts, MapThenSumSet, MapThenFoldSet
<1>2. \A p, a : Fits(p, a)' <=> Fits(p, a)
  BY <1>1 DEF Fits
<1> QED
  BY <1>1, <1>2 DEF ChecksFit

\* A write to a file's row, by a request whose checks are out of date or still
\* fit, leaves every account within its quota and the bytes that were unchecked,
\* and spoils no check that is not out of date after it.
LEMMA BooksBalance ==
    ASSUME TypeInv, TypeInv', QuotaInv, NEW f, NEW old, NEW new, NEW passed,
           Account(old, new, passed), ChecksFit(passed),
           DOMAIN files' = DOMAIN files \cup {f}, files'[f] = new,
           old = IF f \in DOMAIN files THEN files[f] ELSE Nothing,
           \A g \in DOMAIN files \ {f} : files'[g] = files[g]
    PROVE  /\ QuotaExceededOnlyBy'
           /\ \A p : ChecksFit(p) => ChecksFit(p)'
<1>1. ASSUME NEW a \in Accounts
      PROVE  /\ Used(a)' <= Quota(a) + unchecked'[a]
             /\ \A p : Fits(p, a) => Fits(p, a)'
  <2>1. /\ Used(a) \in Nat /\ Used(a)' \in Nat
        /\ Used(a) <= Quota(a) + unchecked[a] /\ Quota(a) \in Nat
    BY Sums, SumsNext, SharingAssumption
    DEF Summed, QuotaInv, QuotaExceededOnlyBy, Quota
  <2>2. PICK n : n = Grows(old, new, a)
    OBVIOUS
  <2>3. Used(a)' <= Used(a) + n
    BY <2>2, UsedGrows
  <2>4. n \in Nat
    <3>1. old.size \in Nat /\ new.size \in Nat
      BY Sums, SumsNext, SharingAssumption DEF Summed, Nothing
    <3> QED
      BY <2>2, <3>1 DEF Grows, CountedBytes
  <2>5. /\ entered[a] \in Nat /\ entered'[a] = entered[a] + n
        /\ unchecked[a] \in Nat
        /\ unchecked'[a] = IF Covered(a, n, passed) THEN unchecked[a]
                           ELSE unchecked[a] + n
    BY <2>2 DEF Account, TypeInv, FileTypes
  <2>6. Used(a)' <= Quota(a) + unchecked'[a]
    <3>1. CASE Covered(a, n, passed)
      <4>1. Fits(passed, a) /\ passed[a].at = entered[a] /\ n <= passed[a].size
        BY <3>1 DEF Covered, ChecksFit
      <4> QED
        BY <2>1, <2>3, <2>4, <2>5, <3>1, <4>1 DEF Fits
    <3>2. CASE ~Covered(a, n, passed)
      BY <2>1, <2>3, <2>4, <2>5, <3>2
    <3> QED
      BY <3>1, <3>2
  <2>7. ASSUME NEW p, Fits(p, a) PROVE Fits(p, a)'
    <3>1. p[a].at <= entered'[a] /\ p[a].at \in Nat /\ p[a].size \in Nat
      BY <2>4, <2>5, <2>7 DEF Fits
    <3>2. ASSUME p[a].at = entered'[a]
          PROVE  Used(a)' + p[a].size <= Quota(a) + unchecked'[a]
      <4>1. n = 0 /\ p[a].at = entered[a]
        BY <2>4, <2>5, <2>7, <3>2 DEF Fits
      <4> QED
        BY <2>1, <2>3, <2>5, <2>7, <3>1, <4>1 DEF Fits
    <3> QED
      BY <3>1, <3>2 DEF Fits, Quota
  <2> QED
    BY <2>6, <2>7
<1> QED
  BY <1>1 DEF QuotaExceededOnlyBy, Quota, ChecksFit

\* A step that writes no file's row.
LEMMA NoWrite ==
    ASSUME TypeInv, QuotaInv, UNCHANGED <<files, entered, unchecked>>,
           NEW r \in Requests, NEW q, reqs' = [reqs EXCEPT ![r] = q],
           q.pc \in JobSteps => ChecksFit(q.passed)
    PROVE  QuotaInv'
<1>1. QuotaExceededOnlyBy'
  BY ChecksStay DEF QuotaInv, QuotaExceededOnlyBy, Quota
<1>2. ASSUME NEW s \in Requests, reqs'[s].pc \in JobSteps
      PROVE  ChecksFit(reqs[s].passed)'
  <2>1. PICK p : p = reqs'[s].passed
    OBVIOUS
  <2>2. ChecksFit(p)
    BY <1>2, <2>1 DEF QuotaInv, TypeInv, ReqTypes
  <2>3. ChecksFit(p)'
    BY <2>2, ChecksStay
  <2> QED
    BY <2>1, <2>3 DEF ChecksFit, Fits
<1> QED
  BY <1>1, <1>2 DEF QuotaInv

\* A step that writes a file's row, or a new one, and leaves nothing checked.
LEMMA OneRowWritten ==
    ASSUME TypeInv, TypeInv', QuotaInv,
           \A s \in Requests :
             reqs'[s] # reqs[s] /\ reqs'[s].pc \in JobSteps
               => reqs'[s].passed = <<>>,
           NEW passed, ChecksFit(passed), NEW file \in FileSet,
           \/ Insert(file, passed)
           \/ \E f \in DOMAIN files : Write(f, file, passed)
    PROVE  QuotaInv'
<1>1. files \in Seq(FileSet) /\ DOMAIN files = 1..Len(files) /\ Len(files) \in Nat
  BY Lengths DEF TypeInv, FileTypes
<1>2. QuotaExceededOnlyBy' /\ \A p : ChecksFit(p) => ChecksFit(p)'
  <2>1. CASE Insert(file, passed)
    <3>1. PICK f : f = Len(files) + 1
      OBVIOUS
    <3>2. /\ DOMAIN files' = DOMAIN files \cup {f} /\ files'[f] = file
          /\ f \notin DOMAIN files
          /\ \A g \in DOMAIN files \ {f} : files'[g] = files[g]
      <4>1. /\ files' \in Seq(FileSet) /\ Len(files') = Len(files) + 1
            /\ files'[f] = file
            /\ \A g \in 1..Len(files) : files'[g] = files[g]
        BY <1>1, <2>1, <3>1, AppendProperties DEF Insert
      <4>2. DOMAIN files' = 1..(Len(files) + 1)
        BY <4>1, LenProperties
      <4> QED
        BY <1>1, <3>1, <4>1, <4>2
    <3> QED
      BY <2>1, <3>2, BooksBalance DEF Insert
  <2>2. ASSUME NEW f \in DOMAIN files, Write(f, file, passed)
        PROVE  QuotaExceededOnlyBy' /\ \A p : ChecksFit(p) => ChecksFit(p)'
    <3>1. /\ DOMAIN files' = DOMAIN files \cup {f} /\ files'[f] = file
          /\ \A g \in DOMAIN files \ {f} : files'[g] = files[g]
      BY <2>2 DEF Write
    <3> QED
      BY <2>2, <3>1, BooksBalance DEF Write
  <2> QED
    BY <2>1, <2>2
<1>3. ASSUME NEW s \in Requests, reqs'[s].pc \in JobSteps
      PROVE  ChecksFit(reqs[s].passed)'
  <2>1. PICK p : p = reqs'[s].passed
    OBVIOUS
  <2>2. p = <<>> \/ ChecksFit(p)
    BY <1>3, <2>1 DEF QuotaInv, TypeInv, ReqTypes
  <2>3. ChecksFit(p)'
    BY <1>2, <2>2, NothingChecked
  <2> QED
    BY <2>1, <2>3 DEF ChecksFit, Fits
<1> QED
  BY <1>2, <1>3 DEF QuotaInv

\* Every step leaves the accounts within their quotas and the bytes that came in
\* unchecked, and every check out of date or as good as it was.
LEMMA QuotaStep ==
    ASSUME TypeInv, TypeInv', QuotaInv, [Next]_vars
    PROVE  QuotaInv'
<1>0. /\ DOMAIN reqs = Requests
      /\ \A r \in Requests : ReqOK(reqs[r])
      /\ \A r \in Requests : reqs[r].pc \in JobSteps => ChecksFit(reqs[r].passed)
      /\ \A f \in DOMAIN files : files[f] \in FileSet
  BY SizesAreNat DEF TypeInv, ReqTypes, QuotaInv
<1>1. ASSUME NEW r \in Requests, NEW x, Goto(r, x),
             UNCHANGED <<files, entered, unchecked>>,
             x.pc \in JobSteps => x.passed = <<>>
      PROVE  QuotaInv'
  BY <1>1, NoWrite, NothingChecked DEF Goto
<1>2. ASSUME UNCHANGED <<files, entered, unchecked, reqs>> PROVE QuotaInv'
  <2>1. QuotaExceededOnlyBy'
    BY <1>2, ChecksStay DEF QuotaInv, QuotaExceededOnlyBy, Quota
  <2>2. ASSUME NEW s \in Requests, reqs[s].pc \in JobSteps
        PROVE  ChecksFit(reqs[s].passed)'
    <3>1. PICK p : p = reqs[s].passed
      OBVIOUS
    <3>2. ChecksFit(p)'
      BY <1>0, <1>2, <2>2, <3>1, ChecksStay
    <3> QED
      BY <1>2, <3>1, <3>2 DEF ChecksFit, Fits
  <2> QED
    BY <1>2, <2>1, <2>2 DEF QuotaInv
<1>3. ASSUME NEW r \in Requests, OrgStep(r) \/ Abort(r), UNCHANGED shareVars
      PROVE  QuotaInv'
  BY <1>1, <1>3
  DEF OrgStep, Abort, CreateOrg, InsertOrg, AuthorizeAdd, AuthorizeInvite,
      InsertInvite, InsertMember, Accept, MarkInvite, AuthorizeRemove,
      RemoveMember, Finish, Idle, JobSteps, shareVars
<1>4. ASSUME NEW r \in Requests,
             \/ Upload(r) \/ UploadJson(r) \/ Import(r) \/ Presign(r)
             \/ NewVersion(r) \/ Move(r)
      PROVE  QuotaInv'
  BY <1>1, <1>4
  DEF Upload, UploadJson, UploadInto, Import, Presign, NewVersion, Move, Begin,
      shareVars
<1>5. ASSUME NEW r \in Requests, NEW a \in Accounts, NEW pc,
             reqs[r].pc \in JobSteps, Room(a, reqs[r].size),
             Goto(r, [reqs[r] EXCEPT !.pc = pc, !.passed = Passed(reqs[r], a)]),
             UNCHANGED shareVars
      PROVE  QuotaInv'
  <2>1. PICK p : p = Passed(reqs[r], a)
    OBVIOUS
  <2>2. {"pc", "passed"} \subseteq DOMAIN reqs[r] /\ reqs[r].size \in Nat
    BY <1>0, <1>5, SizesAreNat DEF ReqOK, JobOK, JobSteps
  <2>3. entered[a] \in Nat /\ unchecked[a] \in Nat
    BY DEF TypeInv, FileTypes
  <2>4. ChecksFit(p)
    <3>1. ASSUME NEW b \in Accounts \cap DOMAIN p PROVE Fits(p, b)
      <4>1. CASE b = a
        <5>1. p[a] = [at |-> entered[a], size |-> reqs[r].size]
          BY <2>1 DEF Passed
        <5>2. Used(a) + reqs[r].size <= Quota(a) /\ Quota(a) \in Nat
              /\ Used(a) \in Nat
          BY <1>5, Sums, SharingAssumption DEF Room, Quota, Summed
        <5> QED
          BY <2>2, <2>3, <4>1, <5>1, <5>2 DEF Fits
      <4>2. CASE b # a
        <5>1. b \in DOMAIN reqs[r].passed /\ p[b] = reqs[r].passed[b]
          BY <2>1, <3>1, <4>2 DEF Passed
        <5>2. Fits(reqs[r].passed, b)
          BY <1>0, <1>5, <3>1, <5>1 DEF ChecksFit
        <5> QED
          BY <5>1, <5>2 DEF Fits
      <4> QED
        BY <4>1, <4>2
    <3> QED
      BY <3>1 DEF ChecksFit
  <2>5. PICK x : x = [reqs[r] EXCEPT !.pc = pc, !.passed = Passed(reqs[r], a)]
    OBVIOUS
  <2>6. x.passed = p /\ reqs' = [reqs EXCEPT ![r] = x]
    BY <1>5, <2>1, <2>2, <2>5 DEF Goto
  <2> QED
    BY <1>5, <2>4, <2>6, NoWrite DEF shareVars
<1>6. ASSUME NEW r \in Requests, CheckUser(r) PROVE QuotaInv'
  <2>1. reqs[r].user \in Accounts /\ reqs[r].pc \in JobSteps
    BY <1>0, <1>6 DEF CheckUser, ReqOK, JobOK, JobSteps, Accounts
  <2> QED
    BY <1>5, <1>6, <2>1 DEF CheckUser
<1>7. ASSUME NEW r \in Requests, CheckOrg(r) PROVE QuotaInv'
  <2>1. /\ reqs[r].org \in Orgs \cup {NoOrg} /\ reqs[r].pc \in JobSteps
        /\ {"pc", "passed"} \subseteq DOMAIN reqs[r]
    BY <1>0, <1>7 DEF CheckOrg, ReqOK, JobOK, JobSteps
  <2>2. CASE reqs[r].org = NoOrg
    <3>1. PICK x : x = [reqs[r] EXCEPT !.pc = reqs[r].do]
      OBVIOUS
    <3>2. reqs' = [reqs EXCEPT ![r] = x] /\ x.passed = reqs[r].passed
      BY <1>7, <2>1, <2>2, <3>1 DEF CheckOrg, Goto
    <3> QED
      BY <1>0, <1>7, <2>1, <3>2, NoWrite DEF CheckOrg, shareVars
  <2>3. CASE reqs[r].org # NoOrg
    BY <1>5, <1>7, <2>1, <2>3 DEF CheckOrg, Accounts
  <2> QED
    BY <2>2, <2>3
<1>8. ASSUME NEW r \in Requests, NextEntry(r), reqs[r].pc \in JobSteps
      PROVE  \E q : /\ reqs' = [reqs EXCEPT ![r] = q]
                    /\ q.pc \in JobSteps => q.passed = <<>>
  <2>1. {"pc", "passed"} \subseteq DOMAIN reqs[r]
    BY <1>0, <1>8 DEF ReqOK, JobOK, JobSteps
  <2>2. CASE reqs[r].left = 0
    <3>1. reqs' = [reqs EXCEPT ![r] = Idle] /\ Idle.pc \notin JobSteps
      BY <1>8, <2>2 DEF NextEntry, Finish, Goto, Idle, JobSteps
    <3> QED
      BY <3>1
  <2>3. CASE reqs[r].left # 0
    <3>1. PICK size \in Sizes :
            Goto(r, [reqs[r] EXCEPT !.pc = "check_user", !.size = size,
                                    !.left = @ - 1, !.passed = <<>>])
      BY <1>8, <2>3 DEF NextEntry
    <3>2. PICK q : q = [reqs[r] EXCEPT !.pc = "check_user", !.size = size,
                                       !.left = @ - 1, !.passed = <<>>]
      OBVIOUS
    <3>3. q.passed = <<>>
      BY <2>1, <3>2
    <3> QED
      BY <3>1, <3>2, <3>3 DEF Goto
  <2> QED
    BY <2>2, <2>3
<1>9. ASSUME NEW r \in Requests, SkipEntry(r) PROVE QuotaInv'
  <2>1. PICK q : /\ reqs' = [reqs EXCEPT ![r] = q]
                 /\ q.pc \in JobSteps => q.passed = <<>>
    BY <1>8, <1>9 DEF SkipEntry, JobSteps
  <2> QED
    BY <1>1, <1>9, <2>1 DEF SkipEntry, shareVars, Goto
<1>10. ASSUME NEW r \in Requests, InsertFile(r) \/ InsertEntry(r)
       PROVE  QuotaInv'
  <2>1. reqs[r].pc \in JobSteps /\ FileOf(reqs[r]) \in FileSet
    BY <1>0, <1>10
    DEF InsertFile, InsertEntry, FileOf, FileSet, ReqOK, JobOK, JobSteps
  <2>2. ChecksFit(reqs[r].passed)
    BY <1>0, <2>1
  <2>3. PICK q : /\ reqs' = [reqs EXCEPT ![r] = q]
                 /\ q.pc \in JobSteps => q.passed = <<>>
    BY <1>8, <1>10, <2>1
    DEF InsertFile, InsertEntry, Finish, Goto, Idle, JobSteps
  <2>4. Insert(FileOf(reqs[r]), reqs[r].passed)
    BY <1>10 DEF InsertFile, InsertEntry
  <2> QED
    BY <1>0, <2>1, <2>2, <2>3, <2>4, OneRowWritten
<1>11. ASSUME NEW r \in Requests, Resize(r) \/ MoveFile(r)
       PROVE  QuotaInv'
  <2>1. /\ reqs[r].pc \in JobSteps /\ reqs[r].file \in DOMAIN files
        /\ reqs[r].size \in Sizes /\ reqs[r].org \in Orgs \cup {NoOrg}
    BY <1>0, <1>11 DEF Resize, MoveFile, ReqOK, JobOK, JobSteps
  <2>2. ChecksFit(reqs[r].passed)
    BY <1>0, <2>1
  <2>3. reqs' = [reqs EXCEPT ![r] = Idle] /\ Idle.pc \notin JobSteps
    BY <1>11 DEF Resize, MoveFile, Finish, Goto, Idle, JobSteps
  <2>4. PICK file \in FileSet : Write(reqs[r].file, file, reqs[r].passed)
    <3>1. /\ [files[reqs[r].file] EXCEPT !.size = reqs[r].size] \in FileSet
          /\ [files[reqs[r].file] EXCEPT !.org = reqs[r].org] \in FileSet
      BY <1>0, <2>1 DEF FileSet
    <3> QED
      BY <1>11, <3>1 DEF Resize, MoveFile
  <2> QED
    BY <1>0, <2>1, <2>2, <2>3, <2>4, OneRowWritten
<1>12. ASSUME NEW r \in Requests,
              Confirm(r) \/ Restore(r) \/ Purge(r)
       PROVE  QuotaInv'
  <2>1. reqs' = reqs
    BY <1>12 DEF Confirm, Restore, Purge
  <2>2. PICK f \in DOMAIN files, file \in FileSet : Write(f, file, <<>>)
    BY <1>12, RowWrites DEF Confirm, Restore, Purge
  <2> QED
    BY <2>1, <2>2, NothingChecked, OneRowWritten
<1>13. ASSUME NEW r \in Requests, TrashFile(r) PROVE QuotaInv'
  <2>1. PICK f : f = reqs[r].file
    OBVIOUS
  <2>2. f \in DOMAIN files
    BY <1>0, <1>13, <2>1 DEF TrashFile, ReqOK, LinkReqOK
  <2>3. PICK q : /\ reqs' = [reqs EXCEPT ![r] = q]
                 /\ q.pc \notin JobSteps
    BY <1>13 DEF TrashFile, Finish, Goto, Idle, JobSteps
  <2>4. /\ [files[f] EXCEPT !.state = "trashed"] \in FileSet
        /\ Write(f, [files[f] EXCEPT !.state = "trashed"], <<>>)
    BY <1>13, <2>1, <2>2, RowWrites DEF TrashFile
  <2> QED
    BY <1>0, <2>2, <2>3, <2>4, NothingChecked, OneRowWritten
<1>14. ASSUME NEW r \in Requests, Cascade(r) PROVE QuotaInv'
  <2>1. {"pc", "cascaded"} \subseteq DOMAIN reqs[r]
    BY <1>0, <1>14 DEF Cascade, ReqOK, LinkReqOK
  <2> QED
    BY <1>1, <1>14, <2>1 DEF Cascade, JobSteps
<1>15. ASSUME NEW r \in Requests,
              \/ Deleted(r) \/ ShareRead(r) \/ InsertLink(r) \/ DownloadRead(r)
              \/ Count(r) \/ Delete(r) \/ BulkDelete(r)
       PROVE  QuotaInv'
  BY <1>1, <1>15
  DEF Delete, BulkDelete, DeleteRead, Deleted, ShareRead, InsertLink, DownloadRead, Count, Finish, Idle,
      JobSteps, shareVars
<1>16. ASSUME (\E r \in Requests : RevokeLink(r)) \/ LinkExpires
              \/ (InviteExpires /\ UNCHANGED shareVars) \/ UNCHANGED vars
       PROVE  QuotaInv'
  BY <1>2, <1>16
  DEF RevokeLink, LinkExpires, InviteExpires, orgVars, shareVars, vars
<1> QED
  BY <1>3, <1>4, <1>6, <1>7, <1>9, <1>10, <1>11, <1>12, <1>13, <1>14, <1>15,
     <1>16 DEF Next, FileStep

\* However uploads, versions, moves, restores and deletions overlap, an account
\* exceeds its quota by no more than the bytes that no current check made room
\* for, for any number of files of any sizes.
THEOREM QuotasHold == Spec => []QuotaExceededOnlyBy
<1>1. Init /\ TypeInv => QuotaInv
  <2> SUFFICES ASSUME Init, TypeInv PROVE QuotaInv
    OBVIOUS
  <2>1. ASSUME NEW a \in Accounts PROVE Used(a) <= Quota(a) + unchecked[a]
    <3>1. BytesOf(files, Counted(a)) = {}
      BY DEF Init, BytesOf, Counted
    <3>2. Used(a) = 0
      BY <3>1, Sums, FS_EmptySet DEF Summed
    <3> QED
      BY <3>2, SharingAssumption DEF Init, Quota
  <2>2. \A r \in Requests : reqs[r].pc \notin JobSteps
    BY DEF Init, OrgInit, Idle, JobSteps
  <2> QED
    BY <2>1, <2>2 DEF QuotaInv, QuotaExceededOnlyBy
<1>2. TypeInv /\ TypeInv' /\ QuotaInv /\ [Next]_vars => QuotaInv'
  BY QuotaStep
<1>3. QuotaInv => QuotaExceededOnlyBy
  BY DEF QuotaInv
<1> QED
  BY <1>1, <1>2, <1>3, TypesKept, PTL DEF Spec
==============================================================================
