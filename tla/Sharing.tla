------------------------------- MODULE Sharing -------------------------------
(***************************************************************************)
(* Files seen from outside the object store: who may reach them, through   *)
(* membership of an organization or a public link, and how many bytes they *)
(* count for (files/mod.rs, files/shares.rs, files/bulk.rs, files/trash.rs *)
(* and the checks of the upload handlers).  It composes with the members   *)
(* and invites of Organizations.                                           *)
(*                                                                         *)
(* A file counts against two accounts, its owner's and its organization's, *)
(* and only while it is not deleted.  A quota is checked by reading a sum; *)
(* the write that raises the sum comes some calls later.                   *)
(***************************************************************************)
EXTENDS Organizations, FiniteSetsExt

CONSTANTS
    UserQuota, OrgQuota,  \* in units of bytes
    MaxSize               \* MAX_FILE_BYTES

ASSUME SharingAssumption ==
    /\ UserQuota \in Nat /\ OrgQuota \in Nat /\ MaxSize \in Nat
    /\ \A w \in Workloads : w.sizes \subseteq 1..MaxSize

VARIABLES
    files,      \* file_objects, in the order of their insertion
    links,      \* file_shares, in the order of their insertion
    entered,    \* account -> bytes by which it ever grew (history)
    unchecked   \* account -> those for which no current check made room (history)

shareVars == <<files, links, entered, unchecked>>
vars == <<orgVars, shareVars>>

NoOrg == "none"
Accounts == Users \cup Orgs
Sizes == load.sizes

\* A purged file stays as a tombstone, so that numbers are not reused.
Exists(f) == f \in DOMAIN files /\ files[f].state # "purged"

Counts(file, a) ==
    file.state = "live" /\ (a = file.owner \/ a = file.org)

Used(a) ==
    MapThenSumSet(LAMBDA f : files[f].size,
                  {f \in DOMAIN files : Counts(files[f], a)})

Quota(a) == IF a \in Users THEN UserQuota ELSE OrgQuota

\* Mutant: the incoming bytes are left out of the comparison.
RoomLeft(a, size) == Used(a) <= Quota(a)

\* enforce_quota and enforce_org_quota.
Room(a, size) == Used(a) + size <= Quota(a)

\* can_access: the owner, or a member of the file's organization.
CanAccess(u, file) == u = file.owner \/ IsMember(u, file.org)

-----------------------------------------------------------------------------
(* Writes to a file's row.  For QuotaExceededOnlyBy they remember how much *)
(* the accounts grew without a check that was still current: passed maps   *)
(* each account that the request checked to what it checked and when.      *)

CountedBytes(file, a) ==
    IF (a = file.owner \/ a = file.org) /\ file.state = "live"
    THEN file.size ELSE 0

Grows(old, new, a) ==
    IF CountedBytes(new, a) > CountedBytes(old, a)
    THEN CountedBytes(new, a) - CountedBytes(old, a) ELSE 0

Covered(a, size, passed) ==
    /\ a \in DOMAIN passed
    /\ passed[a].at = entered[a] /\ size <= passed[a].size

Account(old, new, passed) ==
    /\ entered' = [a \in Accounts |-> entered[a] + Grows(old, new, a)]
    /\ unchecked' = [a \in Accounts |->
         LET size == Grows(old, new, a) IN
         IF Covered(a, size, passed) THEN unchecked[a] ELSE unchecked[a] + size]

Nothing == [owner |-> "nobody", org |-> NoOrg, size |-> 0, state |-> "purged"]

Insert(file, passed) ==
    /\ files' = Append(files, file)
    /\ Account(Nothing, file, passed)

Write(f, file, passed) ==
    /\ files' = [files EXCEPT ![f] = file]
    /\ Account(files[f], file, passed)

Unchanged == UNCHANGED <<orgs, members, invites, named>>

-----------------------------------------------------------------------------
(* Everything that checks a quota: uploads into a space (an import's       *)
(* entries among them), presigned uploads, new versions, moves.            *)

Begin(r, op, job) ==
    /\ Start(r, op)
    /\ Goto(r, job)
    /\ Unchanged /\ UNCHANGED shareVars

UploadInto(r, op, spaces) ==
    \E u \in Users, org \in spaces, size \in Sizes :
      Begin(r, op,
            [pc |-> "check_user", do |-> "insert", user |-> u, org |-> org,
             size |-> size, state |-> "live", passed |-> <<>>])

\* POST /files knows no organization, ...
Upload(r) == UploadInto(r, "upload", {NoOrg})

\* ... POST /files/json does.
UploadJson(r) == UploadInto(r, "upload_json", {NoOrg} \cup orgs)

\* POST /me/import: a list of files (here two), each checked and inserted on
\* its own.
Import(r) ==
    \E u \in Users, size \in Sizes :
      Begin(r, "import",
            [pc |-> "check_user", do |-> "insert_entry", user |-> u,
             org |-> NoOrg, size |-> size, state |-> "live", left |-> 1,
             passed |-> <<>>])

\* The row of a presigned upload is deleted and has the declared size.
Presign(r) ==
    \E u \in Users, size \in Sizes :
      Begin(r, "presign",
            [pc |-> "check_user", do |-> "insert", user |-> u, org |-> NoOrg,
             size |-> size, state |-> "trashed", passed |-> <<>>])

\* The bytes are charged to the caller, who need not be the owner.
NewVersion(r) ==
    \E f \in DOMAIN files, u \in Users, size \in Sizes :
      /\ files[f].state = "live" /\ CanAccess(u, files[f])
      /\ Begin(r, "new_version",
               [pc |-> "check_user", do |-> "resize", user |-> u, file |-> f,
                org |-> files[f].org, size |-> size, passed |-> <<>>])

\* A move changes nothing for the owner, so only the target is checked.
Move(r) ==
    \E f \in DOMAIN files, org \in {NoOrg} \cup orgs :
      /\ Exists(f)
      /\ Begin(r, "move",
               [pc |-> "check_org", do |-> "move", user |-> files[f].owner,
                file |-> f, org |-> org, size |-> files[f].size, passed |-> <<>>])

Passed(q, a) ==
    [b \in DOMAIN q.passed \cup {a} |->
       IF b = a THEN [at |-> entered[a], size |-> q.size] ELSE q.passed[b]]

\* A refusal by a check is an Abort.
CheckUser(r) ==
    LET q == reqs[r] IN
    /\ q.pc = "check_user"
    /\ Room(q.user, q.size)
    /\ Goto(r, [q EXCEPT !.pc = "check_org", !.passed = Passed(q, q.user)])
    /\ Unchanged /\ UNCHANGED <<shareVars, load>>

\* Membership (which a version's access test covers) and the organization's
\* sum; a personal space has neither.
CheckOrg(r) ==
    LET q == reqs[r] IN
    /\ q.pc = "check_org"
    /\ IF q.org = NoOrg THEN Goto(r, [q EXCEPT !.pc = q.do])
       ELSE /\ q.do = "resize" \/ IsMember(q.user, q.org)
            /\ Room(q.org, q.size)
            /\ Goto(r, [q EXCEPT !.pc = q.do, !.passed = Passed(q, q.org)])
    /\ Unchanged /\ UNCHANGED <<shareVars, load>>

FileOf(q) ==
    [owner |-> q.user, org |-> q.org, size |-> q.size, state |-> q.state]

InsertFile(r) ==
    LET q == reqs[r] IN
    /\ q.pc = "insert"
    /\ Insert(FileOf(q), q.passed)
    /\ Finish(r)
    /\ Unchanged /\ UNCHANGED <<links, load>>

NextEntry(r) ==
    LET q == reqs[r] IN
    IF q.left = 0 THEN Finish(r)
    ELSE \E size \in Sizes :
           Goto(r, [q EXCEPT !.pc = "check_user", !.size = size,
                             !.left = @ - 1, !.passed = <<>>])

InsertEntry(r) ==
    /\ reqs[r].pc = "insert_entry"
    /\ Insert(FileOf(reqs[r]), reqs[r].passed)
    /\ NextEntry(r)
    /\ Unchanged /\ UNCHANGED <<links, load>>

\* An entry that is refused, or whose put or INSERT fails, is skipped.
SkipEntry(r) ==
    /\ reqs[r].pc \in {"check_user", "insert_entry"}
    /\ "left" \in DOMAIN reqs[r]
    /\ NextEntry(r)
    /\ Unchanged /\ UNCHANGED <<shareVars, load>>

\* The UPDATE of a row that was purged fails: an Abort.
Resize(r) ==
    LET q == reqs[r] IN
    /\ q.pc = "resize" /\ Exists(q.file)
    /\ Write(q.file, [files[q.file] EXCEPT !.size = q.size], q.passed)
    /\ Finish(r)
    /\ Unchanged /\ UNCHANGED <<links, load>>

MoveFile(r) ==
    LET q == reqs[r] IN
    /\ q.pc = "move" /\ Exists(q.file)
    /\ Write(q.file, [files[q.file] EXCEPT !.org = q.org], q.passed)
    /\ Finish(r)
    /\ Unchanged /\ UNCHANGED <<links, load>>

\* POST /files/{id}/confirm-upload stores the object's real size, whatever
\* was declared and checked.
Confirm(r) ==
    /\ Start(r, "confirm")
    /\ \E f \in DOMAIN files, size \in Sizes :
         /\ Exists(f)
         /\ Write(f, [files[f] EXCEPT !.size = size, !.state = "live"], <<>>)
    /\ Unchanged /\ UNCHANGED <<reqs, links>>

-----------------------------------------------------------------------------
(* Trash *)

\* POST /trash/{id}/restore, which checks no quota.
Restore(r) ==
    /\ Start(r, "restore")
    /\ \E f \in DOMAIN files :
         /\ files[f].state = "trashed"
         /\ Write(f, [files[f] EXCEPT !.state = "live"], <<>>)
    /\ Unchanged /\ UNCHANGED <<reqs, links>>

OpenLinks(f) == {l \in DOMAIN links : links[l].file = f /\ ~links[l].revoked}

DeleteRead(r, op, next) ==
    /\ Start(r, op)
    /\ \E f \in DOMAIN files, u \in Users :
         /\ Exists(f) /\ CanAccess(u, files[f])
         /\ op = "bulk_delete" => files[f].state = "live"
         /\ Goto(r, [pc |-> "trash", file |-> f, next |-> next])
    /\ Unchanged /\ UNCHANGED shareVars

\* DELETE /files/{id} reads the row and looks at the caller's access, ...
Delete(r) == DeleteRead(r, "delete", "cascade")

\* (POST /files/bulk Delete does too, and its second half is missing)
BulkDelete(r) == DeleteRead(r, "bulk_delete", "idle")

\* ... stores deleted_at, whatever the row and the access are by now, ...
TrashFile(r) ==
    LET q == reqs[r] IN
    /\ q.pc = "trash" /\ Exists(q.file)
    /\ Write(q.file, [files[q.file] EXCEPT !.state = "trashed"], <<>>)
    /\ \/ /\ q.next = "cascade"
          /\ Goto(r, [pc |-> "cascade", file |-> q.file,
                      open |-> OpenLinks(q.file), cascaded |-> FALSE])
       \/ q.next = "idle" /\ Finish(r)
    /\ Unchanged /\ UNCHANGED <<links, load>>

Revoke(S) ==
    links' = [l \in DOMAIN links |->
                IF l \in S THEN [links[l] EXCEPT !.revoked = TRUE] ELSE links[l]]

\* Mutant: links that were downloaded already are spared.
CascadeUnused(r) ==
    LET q == reqs[r] IN
    /\ q.pc = "cascade"
    /\ Revoke({l \in OpenLinks(q.file) : links[l].count = 0})
    /\ Goto(r, [q EXCEPT !.pc = "deleted", !.cascaded = TRUE])
    /\ Unchanged /\ UNCHANGED <<files, entered, unchecked, load>>

\* ... then revoke every link that is open by now; an error is ignored.
Cascade(r) ==
    LET q == reqs[r] IN
    /\ q.pc = "cascade"
    /\ \/ /\ Revoke(OpenLinks(q.file))
          /\ Goto(r, [q EXCEPT !.pc = "deleted", !.cascaded = TRUE])
       \/ Goto(r, [q EXCEPT !.pc = "deleted"]) /\ UNCHANGED links
    /\ Unchanged /\ UNCHANGED <<files, entered, unchecked, load>>

\* The event is sent and the caller told that the file is gone.
Deleted(r) ==
    /\ reqs[r].pc = "deleted"
    /\ Finish(r)
    /\ Unchanged /\ UNCHANGED <<shareVars, load>>

\* Every purge: the row goes, and its links with it (ON DELETE CASCADE).
Purge(r) ==
    /\ Start(r, "purge")
    /\ \E f \in DOMAIN files :
         /\ files[f].state = "trashed"
         /\ Write(f, [files[f] EXCEPT !.state = "purged"], <<>>)
    /\ Unchanged /\ UNCHANGED <<reqs, links>>

-----------------------------------------------------------------------------
(* Links *)

Works(l) ==
    l \in DOMAIN links /\ ~links[l].revoked /\ ~links[l].expired
    /\ Exists(links[l].file)

\* POST /files/{id}/shares, by the owner, of a file deleted or not.
ShareRead(r) ==
    /\ Start(r, "share")
    /\ \E f \in DOMAIN files :
         /\ Exists(f)
         /\ Goto(r, [pc |-> "insert_link", file |-> f])
    /\ Unchanged /\ UNCHANGED shareVars

\* The foreign key refuses a link to a file that is gone: an Abort.
InsertLink(r) ==
    LET q == reqs[r] IN
    /\ q.pc = "insert_link" /\ Exists(q.file)
    /\ links' = Append(links, [file |-> q.file, revoked |-> FALSE,
                               expired |-> FALSE, count |-> 0])
    /\ Finish(r)
    /\ Unchanged /\ UNCHANGED <<files, entered, unchecked, load>>

\* DELETE /files/shares/{id}, by the owner of the file.
RevokeLink(r) ==
    /\ Start(r, "revoke")
    /\ \E l \in DOMAIN links :
         /\ Exists(links[l].file)
         /\ Revoke({l})
    /\ Unchanged /\ UNCHANGED <<reqs, files, entered, unchecked>>

\* GET /shares/{token}: a public download looks at the link, not at whether
\* its file is deleted.  A wrong password or a missing object is an Abort.
DownloadRead(r) ==
    /\ Start(r, "download")
    /\ \E l \in DOMAIN links :
         /\ Works(l)
         /\ Goto(r, [pc |-> "count", link |-> l, row |-> links[l]])
    /\ Unchanged /\ UNCHANGED shareVars

\* Mutant: the whole row is written back, as it was read.
CountWholeRow(r) ==
    LET q == reqs[r] IN
    /\ q.pc = "count"
    /\ links' = IF Exists(q.row.file)
                THEN [links EXCEPT ![q.link] = [q.row EXCEPT !.count = @ + 1]]
                ELSE links
    /\ Finish(r)
    /\ Unchanged /\ UNCHANGED <<files, entered, unchecked, load>>

\* download_count is written from the row that was read: one column of a row
\* that may have been revoked since; an error is ignored.
Count(r) ==
    LET q == reqs[r] IN
    /\ q.pc = "count"
    /\ links' = IF Exists(q.row.file)
                THEN [links EXCEPT ![q.link].count = q.row.count + 1]
                ELSE links
    /\ Finish(r)
    /\ Unchanged /\ UNCHANGED <<files, entered, unchecked, load>>

LinkExpires ==
    /\ \E l \in DOMAIN links :
         /\ ~links[l].expired
         /\ links' = [links EXCEPT ![l].expired = TRUE]
    /\ UNCHANGED <<orgVars, files, entered, unchecked>>

-----------------------------------------------------------------------------
FileStep(r) ==
    \/ Upload(r) \/ UploadJson(r) \/ Import(r) \/ Presign(r)
    \/ NewVersion(r) \/ Move(r) \/ CheckUser(r) \/ CheckOrg(r)
    \/ InsertFile(r) \/ InsertEntry(r) \/ SkipEntry(r)
    \/ Resize(r) \/ MoveFile(r) \/ Confirm(r)
    \/ Restore(r) \/ Delete(r) \/ BulkDelete(r) \/ TrashFile(r)
    \/ Cascade(r) \/ Deleted(r)
    \/ Purge(r)
    \/ ShareRead(r) \/ InsertLink(r) \/ RevokeLink(r)
    \/ DownloadRead(r) \/ Count(r)

Init ==
    /\ OrgInit
    /\ files = <<>>
    /\ links = <<>>
    /\ entered = [a \in Accounts |-> 0]
    /\ unchecked = [a \in Accounts |-> 0]

Next ==
    \/ \E r \in Requests : OrgStep(r) /\ UNCHANGED shareVars
    \/ \E r \in Requests : Abort(r) /\ UNCHANGED shareVars
    \/ InviteExpires /\ UNCHANGED shareVars
    \/ \E r \in Requests : FileStep(r)
    \/ LinkExpires

Spec == Init /\ [][Next]_vars

-----------------------------------------------------------------------------
(* Properties *)

FileSet ==
    [owner : Users, org : Orgs \cup {NoOrg}, size : Sizes,
     state : {"live", "trashed", "purged"}]

LinkSet ==
    [file : DOMAIN files, revoked : BOOLEAN, expired : BOOLEAN, count : Nat]

\* The tables keep the shape their schema gives them, foreign keys included.
TypeOK ==
    /\ orgs \subseteq Orgs
    /\ \A m \in members : /\ m.user \in Users /\ m.org \in orgs
                          /\ m.role \in Roles
                          /\ m.via \in 0..Len(invites)
    /\ \A i \in DOMAIN invites : /\ invites[i].org \in orgs
                                 /\ invites[i].email \in Users
                                 /\ invites[i].role \in Roles
    /\ \A f \in DOMAIN files : files[f] \in FileSet
    /\ \A l \in DOMAIN links : links[l] \in LinkSet
    /\ entered \in [Accounts -> Nat] /\ unchecked \in [Accounts -> Nat]

\* A link that no longer works, because it was revoked or has expired or its
\* file was purged, never works again, although downloads that had read it
\* before write to its row afterwards.
DeadLinkStaysDead ==
    [][\A l \in DOMAIN links : ~Works(l) => ~Works(l)']_vars

\* When DELETE /files/{id} answers that the file is deleted, no link that was
\* open when it trashed the row works any more ("file delete -> revoke shares"), even if
\* the file has been restored since; unless the UPDATE of the links failed.
LinksDieWithFile ==
    \A r \in Requests :
      reqs[r].pc = "deleted" /\ reqs[r].cascaded
        => \A l \in reqs[r].open : ~Works(l)

\* An account exceeds its quota by no more than the bytes that came in without
\* a check (a restore, the real size of a presigned upload) or after a check
\* that another request had meanwhile overtaken.
QuotaExceededOnlyBy ==
    \A a \in Accounts : Used(a) <= Quota(a) + unchecked[a]
==============================================================================
