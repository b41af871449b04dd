---------------------------- MODULE Organizations ----------------------------
(***************************************************************************)
(* Organizations, their members and their invites (orgs.rs), as requests   *)
(* that run side by side.  No handler opens a transaction: what it reads   *)
(* may be out of date when it writes.  An e-mail address stands for the    *)
(* user who has it (addresses are unique and never change), a slug for the *)
(* organization that has it, an invite's number for its secret token.      *)
(*                                                                         *)
(* A check whose negative outcome ends the request early, and which the    *)
(* later write repeats (the unique index on members), is an Abort.         *)
(***************************************************************************)
EXTENDS Naturals, Sequences, FiniteSets

CONSTANTS
    Users,
    Orgs,        \* slugs
    Requests,    \* requests that may run at the same time
    Workloads    \* the workloads, one of which a behaviour takes

Roles == {"owner", "admin", "member"}

ASSUME OrganizationsAssumption ==
    /\ "nobody" \notin Users /\ "none" \notin Orgs /\ Users \cap Orgs = {}
    /\ Workloads \subseteq
         [ops : SUBSET STRING, requests : Nat, orgs : SUBSET Orgs,
          roles : SUBSET Roles, sizes : SUBSET Nat]

VARIABLES
    orgs,     \* the organizations that exist
    members,  \* memberships
    invites,  \* org_invites, in the order of their creation
    reqs,     \* local state of each request
    load,     \* the workload: operations, requests that may still start, ...
    named     \* whom an owner or administrator has let in (history)

orgVars == <<orgs, members, invites, reqs, load, named>>

Idle == [pc |-> "idle"]

\* A membership; via is the invite it came from, 0 for none (history).
Member(o, u, role, via) == [org |-> o, user |-> u, role |-> role, via |-> via]

IsMember(u, o) == \E m \in members : m.org = o /\ m.user = u

\* Mutant: any member may add and invite.
MayInviteMember(u, o) == IsMember(u, o)

MayInvite(u, o) ==
    \E m \in members : m.org = o /\ m.user = u /\ m.role \in {"owner", "admin"}

-----------------------------------------------------------------------------
(* Requests *)

Start(r, op) ==
    /\ op \in load.ops
    /\ reqs[r] = Idle
    /\ load.requests > 0
    /\ load' = [load EXCEPT !.requests = @ - 1]

Goto(r, state) == reqs' = [reqs EXCEPT ![r] = state]

Finish(r) == Goto(r, Idle)

\* An early return, an error, a client that left or a server that stopped.
Abort(r) ==
    /\ reqs[r] # Idle
    /\ Finish(r)
    /\ UNCHANGED <<orgs, members, invites, load, named>>

-----------------------------------------------------------------------------
(* POST /orgs: two inserts, with nothing around them. *)

CreateOrg(r) ==
    /\ Start(r, "create_org")
    /\ \E u \in Users, o \in Orgs \ orgs :
         Goto(r, [pc |-> "insert_org", user |-> u, org |-> o])
    /\ UNCHANGED <<orgs, members, invites, named>>

\* Mutant: the organization's row is not stored.
InsertOrgLost(r) ==
    LET q == reqs[r] IN
    /\ q.pc = "insert_org"
    /\ named' = named \cup {<<q.user, q.org, "owner">>}
    /\ Goto(r, [pc |-> "insert_member", via |-> 0,
                row |-> Member(q.org, q.user, "owner", 0)])
    /\ UNCHANGED <<orgs, members, invites, load>>

\* The slug is unique; the loser of a race gets an error.
InsertOrg(r) ==
    LET q == reqs[r] IN
    /\ q.pc = "insert_org"
    /\ IF q.org \in orgs
       THEN Finish(r) /\ UNCHANGED <<orgs, named>>
       ELSE /\ orgs' = orgs \cup {q.org}
            /\ named' = named \cup {<<q.user, q.org, "owner">>}
            /\ Goto(r, [pc |-> "insert_member", via |-> 0,
                        row |-> Member(q.org, q.user, "owner", 0)])
    /\ UNCHANGED <<members, invites, load>>

-----------------------------------------------------------------------------
(* POST /orgs/{id}/members and /orgs/{id}/invites *)

IsOfficer(u, o) ==
    \E m \in members : m.org = o /\ m.user = u /\ m.role # "member"

\* require_member reads the caller's role; nothing looks at it again.
LetIn(caller, u, o, role) ==
    /\ MayInvite(caller, o)
    /\ named' = IF IsOfficer(caller, o)
                THEN named \cup {<<u, o, role>>} ELSE named

AuthorizeAdd(r) ==
    /\ Start(r, "add_member")
    /\ \E caller, u \in Users, o \in orgs, role \in load.roles :
         /\ LetIn(caller, u, o, role)
         /\ Goto(r, [pc |-> "insert_member", via |-> 0,
                     row |-> Member(o, u, role, 0)])
    /\ UNCHANGED <<orgs, members, invites>>

AuthorizeInvite(r) ==
    /\ Start(r, "create_invite")
    /\ \E caller, u \in Users, o \in orgs, role \in load.roles :
         /\ LetIn(caller, u, o, role)
         /\ Goto(r, [pc |-> "insert_invite", row |->
                       [org |-> o, email |-> u, role |-> role,
                        accepted |-> FALSE, expired |-> FALSE]])
    /\ UNCHANGED <<orgs, members, invites>>

InsertInvite(r) ==
    /\ reqs[r].pc = "insert_invite"
    /\ invites' = Append(invites, reqs[r].row)
    /\ Finish(r)
    /\ UNCHANGED <<orgs, members, load, named>>

\* Mutant: the index on (org, user) is not unique.
InsertMemberTwice(r) ==
    LET q == reqs[r] IN
    /\ q.pc = "insert_member"
    /\ members' = members \cup {q.row}
    /\ IF q.via = 0 THEN Finish(r)
                    ELSE Goto(r, [pc |-> "mark_invite", via |-> q.via])
    /\ UNCHANGED <<orgs, invites, load, named>>

\* idx_mbr_org_user_unique refuses a second membership: an error, and an
\* invite stays open.
InsertMember(r) ==
    LET q == reqs[r] IN
    /\ q.pc = "insert_member"
    /\ IF IsMember(q.row.user, q.row.org)
       THEN Finish(r) /\ UNCHANGED members
       ELSE /\ members' = members \cup {q.row}
            /\ IF q.via = 0 THEN Finish(r)
                            ELSE Goto(r, [pc |-> "mark_invite", via |-> q.via])
    /\ UNCHANGED <<orgs, invites, load, named>>

-----------------------------------------------------------------------------
(* POST /invites/{token}/accept *)

\* Mutant: an invite that was accepted is still found.
AcceptAgain(r) ==
    /\ Start(r, "accept_invite")
    /\ \E i \in DOMAIN invites :
         LET v == invites[i] IN
         /\ ~v.expired
         /\ Goto(r, [pc |-> "insert_member", via |-> i,
                     row |-> Member(v.org, v.email, v.role, i)])
    /\ UNCHANGED <<orgs, members, invites, named>>

\* The invite must be open when it is read, and the caller have its address.
Accept(r) ==
    /\ Start(r, "accept_invite")
    /\ \E i \in DOMAIN invites, u \in Users :
         /\ ~invites[i].accepted /\ ~invites[i].expired
         /\ u = invites[i].email
         /\ Goto(r, [pc |-> "insert_member", via |-> i,
                     row |-> Member(invites[i].org, u, invites[i].role, i)])
    /\ UNCHANGED <<orgs, members, invites, named>>

\* accepted_at is stored after the membership, whatever happened meanwhile.
MarkInvite(r) ==
    LET q == reqs[r] IN
    /\ q.pc = "mark_invite"
    /\ invites' = [invites EXCEPT ![q.via].accepted = TRUE]
    /\ Finish(r)
    /\ UNCHANGED <<orgs, members, load, named>>

-----------------------------------------------------------------------------
(* DELETE /orgs/{id}/members/{user}: anyone may leave, and nothing keeps   *)
(* the last owner.                                                         *)

AuthorizeRemove(r) ==
    /\ Start(r, "remove_member")
    /\ \E caller, u \in Users, o \in orgs :
         /\ IsMember(caller, o)
         /\ caller = u \/ MayInvite(caller, o)
         /\ Goto(r, [pc |-> "remove", user |-> u, org |-> o])
    /\ UNCHANGED <<orgs, members, invites, named>>

\* The row is found and deleted by its id; when it went away in between the
\* DELETE has no effect, which is an Abort.
RemoveMember(r) ==
    LET q == reqs[r]
        rows == {m \in members : m.user = q.user /\ m.org = q.org} IN
    /\ q.pc = "remove"
    /\ \E m \in rows : members' = members \ {m}
    /\ Finish(r)
    /\ UNCHANGED <<orgs, invites, load, named>>

-----------------------------------------------------------------------------
\* Fourteen days after its creation an invite is refused.
InviteExpires ==
    /\ \E i \in DOMAIN invites :
         /\ ~invites[i].expired
         /\ invites' = [invites EXCEPT ![i].expired = TRUE]
    /\ UNCHANGED <<orgs, members, reqs, load, named>>

OrgStep(r) ==
    \/ CreateOrg(r) \/ InsertOrg(r)
    \/ AuthorizeAdd(r) \/ AuthorizeInvite(r) \/ InsertInvite(r)
    \/ InsertMember(r) \/ Accept(r) \/ MarkInvite(r)
    \/ AuthorizeRemove(r) \/ RemoveMember(r)

\* A workload may begin with organizations that someone has founded.
OrgInit ==
    /\ load \in Workloads
    /\ orgs = load.orgs
    /\ \E founder \in Users :
         members = {Member(o, founder, "owner", 0) : o \in load.orgs}
    /\ invites = <<>>
    /\ reqs = [r \in Requests |-> Idle]
    /\ named = {<<m.user, m.org, m.role>> : m \in members}

-----------------------------------------------------------------------------
(* Properties *)

\* A user has at most one membership of an organization, however many
\* requests add, invite and accept at once: require_member and the removal
\* look at one row only.
OneMembershipEach ==
    \A m, n \in members : m.org = n.org /\ m.user = n.user => m = n

\* Every member was added or invited, in that role, by somebody who was an
\* owner or administrator when the handler looked; or founded the
\* organization.
MembersWereLetIn ==
    \A m \in members : <<m.user, m.org, m.role>> \in named

\* Requests that have found invite i open and will insert its membership.
UnderWay(i) == {r \in Requests : reqs[r].pc = "insert_member" /\ reqs[r].via = i}

CameThrough(i) == {m \in members : m.via = i}

\* Once accepted, an invite is never open again, no request takes it up again,
\* and every membership that still comes from it uses up one of the requests
\* that were under way: whoever is removed comes back through an invite only
\* by a request that had read it before it was accepted.
SpentInviteAdmitsNobodyNew ==
    [][\A i \in DOMAIN invites : invites[i].accepted =>
         /\ invites'[i].accepted
         /\ UnderWay(i)' \subseteq UnderWay(i)
         /\ CameThrough(i)' \subseteq CameThrough(i) \/ UnderWay(i)' # UnderWay(i)
      ]_orgVars
==============================================================================
