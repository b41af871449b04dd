# Verification of simu (lynxrs)

TLA+ specifications of the backend of *simu*, the file, chat and account service
in `src/backend` (Rust, axum, Postgres through SeaORM, an S3-like object store,
optional NATS), model-checked with TLC and in part proved with TLAPS.

The modules are translated from the source. Line numbers below refer to
`src/backend/src`; `PROJECT.json` maps every definition to its lines.

## 1. Inventory

No handler opens a transaction, except `audit::record`: each database call and
each storage call stands alone, handlers on one server or on several interleave
at every `.await`, and axum drops a handler's future when its client goes away.
That is where almost everything hard in this code comes from, and it sets the
grain of the models: **one action per call that other requests can observe**, and
an `Abort` (an error returned by `?`, a client that left, a server that stopped)
possible between any two of them.

| Component | State it keeps | Operations | Correct when |
|---|---|---|---|
| File store (`files/`) | `file_objects`, `file_versions`, objects under `u/…` and `o/…`, presigned URLs | multipart, JSON and presigned upload, trash, restore, purge (single, all, bulk), new version, restore version, move between spaces | every row and every version names an object with the bytes its checksum was taken of; an edit loses no content; what no row names is reclaimed |
| Housekeeping (`housekeeping.rs`) | nothing of its own; one task per server, every 300 s (`main.rs:67`) | purge trash after 30 days, archive and delete audit rows after 90 days, delete spent tokens and old deliveries, sweep orphaned objects, purge deleted users | it deletes only what nobody needs any more |
| Audit log (`audit.rs`) | `audit_events`, an advisory lock, archives in the object store | `record`, `verify_chain`, the retention | rows form one hash chain; replaced and removed rows are noticed; no row is deleted before it is archived |
| Event bus (`events.rs`) | a tokio broadcast channel per server, its receivers' positions, a NATS subject | send, forward to a WebSocket or SSE client, publish to and receive from NATS | a slow client keeps its forwarder; an event is broadcast once |
| Webhooks (`webhooks.rs`) | `webhooks`, `webhook_deliveries`, a dispatcher task, delivery tasks with retries | create, revoke, enable, deliver, disable after ten failures | a hook at its limit is disabled; one that is off is left alone |
| Accounts and sessions (`auth.rs`, `oauth.rs`, `tokens.rs`, part of `admin.rs`) | `users`, `password_resets`, `api_tokens`; session cookies held by browsers | sign up, sign in (password, OAuth, impersonation), lockout, change and reset of the password, sign out everywhere, delete, lock, unlock, purge | an ended session stays ended; a session was granted under the current password; a deleted account does not come back |
| Second factor (`mfa.rs`, login in `auth.rs`) | `users.totp_*`, `users.failed_login_count`, `mfa_recovery` | enroll, activate, disable, recovery codes, login with a code, both locks | a recovery code is used up; the active secret is one the user has; guessing locks the account |
| Organizations (`orgs.rs`) | `orgs`, `memberships`, `org_invites` | create, add, invite, accept, remove | nobody is a member whom no owner or administrator let in; a spent invite admits nobody new |
| Sharing and quotas (`files/shares.rs`, `files/mod.rs`) | `file_shares`, sums over `file_objects` | create, revoke, download, `can_access`, `enforce_quota` | a deleted file has no working link and a dead link stays dead; usage exceeds a quota by no more than came in unchecked |
| Chat (`chat.rs`) | `conversations`, `messages` | create, update, send and stream, share, unshare, public view, delete | the model is shown everything said before its question; a stored question is settled; a withdrawn link stays dead |
| File metadata, HTTP layer, mailer, command line, client, deployment | – | – | not modelled, see section 8 |

How they interact: handlers `authenticate` against accounts, write rows and
objects, append to the audit log and send to the event bus. The bus feeds
WebSockets, the NATS bridge and the webhook dispatcher. Housekeeping works on
the tables and objects of all the others, without coordination with them. Access to
an organization's files is decided by its memberships at the time of each request.

The hazards, each at its line, are listed in `PROJECT.json`.

## 2. Plan

Written in this order, because loss of user data comes first:

1. `FileStore` – handlers, housekeeping and time over rows and objects; `Catalogue`, what
   they implement
2. `AuditChain` – the hash chain and its retention; `LinkedLog`, what it implements
3. `EventBus`, then `Webhooks`, which extends it: the composition of the bus with
   the dispatcher and the deliveries
4. `Accounts` – one account, its sessions, its requests
5. `Organizations`, then `Sharing`, which extends it: members and invites composed
   with the files they reach, their public links and their quotas
6. `Chat` – conversations, streamed answers, public links
7. `SecondFactor` – TOTP, recovery codes and the lockout of one account
8. a `_proof` module for each of them (`Webhooks_proof` and `Sharing_proof` cover the
   modules that theirs extend), seven in all

Left for later: in `Sharing` the passwords of links and the size that a restored version
brings back; in `Catalogue` the history of a file.

## 3. Modules and how they correspond to the code

**FileStore.** `rows`, `versions` and `objs` are the two tables and the bucket;
`urls` the presigned PUT URLs still valid; `procs` a program counter and the
local variables of each handler; `known` the sweep's `known` set
(`housekeeping.rs:130`). A uuid also stands for the bytes stored with it and their
SHA-256, so "the row's checksum matches its object" is an equation. A key is
`<<space, id>>`, as `storage_key_for` builds it. The handlers' steps are named after
what they do: `UploadPut` → `CheckMagic` → `InsertRow`; `ConfirmRead` → `ConfirmHead` →
`ConfirmCommit`; `…Read` → `SnapshotCurrent` → `PutVersion` → `CommitVersion`;
`MoveRead` → `MoveGet` → `MovePut` → `MoveCommit` → `MoveDropOld`/`MoveDropNew`; all four
purges share `PurgeRow` → `PurgeObject`. `TryDelete` is `let _ = storage.delete(..)`;
`Fail` a call that returns an error, "reply" an UPDATE that took effect although
its reply was lost. Time has two steps, an hour (the sweep's grace, a URL's 15
minutes) and a month (the trash), and passes only when no request runs. Two things are left
out: the purge of a user (`housekeeping.rs:169`), whose cascade removes the user's rows and
so leaves objects to the sweep, is in Accounts only; and a client that PUTs twice to one
presigned URL is taken to send the same bytes, although a second PUT after the confirmation
can change them under the checksum.
**Catalogue** is what all of it promises someone who downloads: a set of files, each with
its content, in the list or not, under a checksum (`sealed`) or not. A file comes with its
whole content, or unlisted and empty; one file changes at a time; new content is never
another file's; a file that stays loses none, unless a version without a checksum (a
presigned file that was never uploaded) is restored over it. `ImplementsCatalogue` maps a file to
the object its row names at the moment (`Shelf`); puts of unnamed objects, the sweep, the
copies of a move and all reads are stutters.

**AuditChain.** The hash is collision-free: a hash is the sequence of the canonical
rows it covers. `lock` is `pg_advisory_xact_lock`; `Insert` draws `chain_seq`, which a
rollback does not give back; `Commit` makes the row visible and releases the lock.
`Skew` lets writers' clocks lag. `Scan`, `Archive` and `Expunge` are the retention of one
run: archives are keyed by the second and overwrite each other.
`VerifyOk` is `verify_chain`'s loop.
**LinkedLog** is what all of it promises a reader of the log: it grows at its end by
rows linked to the row before, and shrinks at its beginning by rows of which a copy is
safe. `ImplementsLinkedLog` maps `log` to the visible rows and `safe` to the union of the
archives.

**EventBus, Webhooks.** A bus is the sequence of what was broadcast since the
server started, a receiver a position in it; a receiver more than `Capacity`
behind gets `Lagged`. The WebSocket forwarder skips the gap (`events.rs:147`), the
dispatcher and the outbound bridge end (`while let Ok`). A delivery keeps the row
that the dispatcher read and stores `count + 1` or 0 in the end.

**Accounts.** One email address: its row in `users` (`acct`), every cookie issued
(`cookies`), the reset tokens, and the requests under way. SeaORM writes only the
columns that a handler `Set`s, computed from the row it read; the model does the
same, so that stale reads and lost updates are in it. A cookie remembers, for the
properties only, the password in force when its row was read and whether a request
has since ended the open sessions. Hashing a password takes a good fraction of a
second on another thread: it lies between `…Read` and the action that stores. A login
is answered whether or not its UPDATE of the counter succeeds (`auth.rs:459`).
Whether the caller knows the password or passes the second factor is a free
choice; so is everything about an OAuth provider.

**Organizations, Sharing.** An e-mail address stands for its user, a slug for its
organization, the position of an invite or a link for its secret token. `AuthorizeAdd`
and `AuthorizeInvite` are `require_member` and the checks after it, `InsertMember` the
INSERT that the unique index may refuse, `MarkInvite` the UPDATE that follows an accepted
invite. In Sharing a file has an owner, perhaps an organization, a size and a state;
purged files stay as tombstones, so that numbers are not reused. `CheckUser` and
`CheckOrg` are `enforce_quota` and `enforce_org_quota`, sums over the rows that are not
deleted; the write they make room for is a later action (`InsertFile`, `Resize`,
`MoveFile`), and `Import` repeats the pair for each entry. `Delete` reads the row and the
caller's access, `TrashFile` stores `deleted_at` and `Cascade` is the UPDATE of the links;
`BulkDelete` goes through `TrashFile` too and has no cascade; `DownloadRead` →
`Count` reads a link and later stores its count. `entered` and `unchecked` are
history: by how much an account grew, and how much of it no check covered that was
still current when the bytes came in. Whose upload is charged is a parameter
of each path, as in the handlers.

**Chat.** `convs` and `msgs` are the two tables, messages with their `chain_seq`; a
question and its answer are the number of the question. `chain_seq` is a BIGSERIAL and no
lock is held across the INSERT, unlike in the audit log: `InsertQuestion` and `InsertAnswer`
draw the number, `CommitQuestion` and `CommitAnswer` make the row visible, and other requests
run in between, so a lower number can appear after a higher one was read. `Send` →
`InsertQuestion` → `CommitQuestion` → `ReadHistory` → `Respond` … `Close`/`Timeout` →
`InsertAnswer` → `CommitAnswer` is one streamed request,
with the model as an environment that may refuse, stream, break off or say
nothing. A request that ends early (`Abort`) drops its stream where it stands. `seen` and
`at` of a message, how many were visible when its number was drawn and when it appeared, are
history.

**SecondFactor.** One row of `users`, its recovery codes and the requests that work on
copies of it. `row.fails` and `row.lock` are `failed_login_count` and `locked_until` (a timed
lock, one that is over, or an administrator's); a login that fails with a count that the
database does not store is an `Abort`, and not among the guesses. A login reads the row, looks a recovery code up, marks
it, and stores success or failure: four actions with other requests between
them. `stale`, `spent`, `proved` and `guesses` are history.

## 4. Runs

| Run | Shows |
|---|---|
| `files_safety` | two requests over three workloads (all upload paths and the trash beside the sweep; editors of versions beside the trash; a mover beside presigned uploads), one failing call: no row names a missing or different object, a listed file has an object, versions keep their bytes where nothing is moved or swept, the whole implements `Catalogue`, and what an edit replaces stays in the history, two editors included, but for an edit that had read the row before |
| `files_reclaim` | liveness: every orphan is swept or named again |
| `files_sweep_versions` | **violated**: the sweep deletes the objects of old versions |
| `audit_log` | two writers, a retention task, a row older than the hashing: the chain never forks, the verification accepts a whole log and notices replaced rows (other than the last) and removals, the retention loses nothing, and the whole implements `LinkedLog` |
| `audit_verify_after_purge` | **violated**: `verify_chain` rejects an untouched log after the first retention |
| `webhooks` | a server, a NATS peer, a client and a hook: failure counter, end of retries, service of slow clients |
| `events_echo` | **violated**: two servers on one NATS subject broadcast each other's events for ever |
| `accounts` | two requests on one address: three properties of sessions and deletion |
| `accounts_overlap` | **violated**: two overlapping requests store the same `session_version` |
| `sharing` | two users, an organization, two requests, four workloads: memberships, invites, links, both quotas |
| `chat` | two requests, two conversations, an unreliable model and numbers drawn before rows appear: prompts and their order, links, and that every question is settled |
| `second_factor` | two requests on one account, four workloads: enrolment, recovery codes, guesses, both locks |

### Bounds, and why they are enough

- Two concurrent requests, plus housekeeping: every race found or excluded here is
  between two actors over one file, account or organization; a third repeats one of
  the two. Where a theorem covers the property (section 6) the number is arbitrary.
- A workload is a set of operations with a number of requests and of uuids, and a
  behaviour takes one (`load`). Splitting the operations keeps each space small enough to be
  explored completely; which operations meet is chosen so that each pair that touches
  the same state is in one workload, but for those that section 5 excludes.
  The versions workload draws four uuids, so that a file can have two new
  versions beside its first. Five or six requests in a row let a file be uploaded,
  trashed, restored, edited and purged in one behaviour; six let a member
  be invited, admitted, removed and invited again.
- One failing call per behaviour (`MaxFaults`); an interrupted request (`Abort`) is not
  bounded.
- `IterLimit` = 9 is above the number of objects, so the sweep sees all of them. With a
  bucket above 10 000 objects it always looks at the same first ones
  (`housekeeping.rs:145`), and OrphanReclaimed is not claimed there.
- `MaxMovers = 1`: see the next section. The workloads with versions and with moves
  leave out the sweep for the same reason.
- Audit: four rows over five ticks with a retention of one, so that rows are archived and
  deleted while others are written; `Skew = 0` there (the proofs cover more).
  `TicksPerSecond = 1`: scans at different instants write to different archives, as
  runs 300 s apart do. Same-second archives are therefore not in the run (section 5).
- Bus: `Capacity` 1 and two messages make every receiver lag; two attempts and two
  failures stand for four and ten.
- Accounts: two accounts in a row for one address, three passwords, a lock after two
  failures, one reset token, `session_version` up to 1. `BumpsOverlap = FALSE` in
  `accounts`: requests that raise the version exclude each other; `accounts_overlap`
  drops that.
- Sharing: a personal quota of 3, an organization's of 2, files of size 1 or 2: a quota can be
  met exactly, exceeded by one and exceeded by a whole file.
- Second factor: a lock after two failures (five in the code), sets of two codes (ten),
  so that a code of an old set and one of a new set coexist. GuessesBounded is
  stated for any limit and any number of requests, as the number of `Ladders`: a rung
  for each count a request can have read, C(LockAfter + requests, LockAfter) ladders
  in all, as TLC checks in `LaddersCounted`.
- Chat: four requests, two conversations: a second question in the same conversation
  before the first is answered, beside a deletion or a change of the link.

`sharing`, `chat` and `second_factor` run with `CHECK_DEADLOCK FALSE`: their workloads
end, and nothing is left to do when all requests have been made and answered.

### Fairness

A request either goes on or is dropped, since tokio polls every ready task
(`WF` on `Continue \/ Abort`); housekeeping is a loop that `main.rs` spawns (`WF` on its
steps); an hour in which no request runs recurs (`SF` on `HourPasses`, the one
assumption about the load). Nothing makes a client start a request. A forwarder
and a delivery task run while their connection or timer is alive (`WF`); the 10 s
timeout of the HTTP client ends every attempt. No fairness is assumed of NATS, of
restarts or of the dispatcher.

In Chat every step that the handler takes by itself is fair, the 120 s timeout of its
HTTP client included (`chat.rs:535`), which ends a stream of a model that has fallen
silent; the model's own steps are not.

## 5. Divergences met

With a run (`PROJECT.json`, findings): the sweep and old versions
(`housekeeping.rs:130`), verification after the retention (`audit.rs:136`), NATS echo
(`events.rs:102`), lost increments of `session_version` (`auth.rs:632`).

Seen while modelling, without a run of their own:

- A move within the same space after `create_version` takes the key of the file's first
  version for a new location and overwrites it (`files/mod.rs:408`).
- Two moves of one file in opposite directions each delete the key that the other
  made current (`files/mod.rs:443`); with `MaxMovers = 2` TLC violates RowIsBacked. A sweep
  that listed a leftover of an earlier move deletes it after a new move wrote there.
- A presigned upload that is still pending is a trashed row: it can be restored
  without bytes (`trash.rs:52`), for which reason LiveRowIsBacked excludes workloads that
  restore the trash.
- Two servers that archive in the same second overwrite each other's export
  (`housekeeping.rs:96`), against "exports to S3 ndjson before purge" (README.md:69).
- `chain_seq` is drawn before the commit, but the advisory lock is held across both,
  so the order of the numbers is the order of the commits; `created_at` is not, where
  servers' clocks differ.
- Of two editors that replace the same content, the one whose UPDATE comes first is
  in neither the row nor the history (`files/versions.rs:138`). HistoryKeepsContent, which is
  checked with two editors, excepts exactly this: a commit by a request that had read the row
  before the content it replaces was there.
- A move whose UPDATE takes effect but is not answered deletes the copy that the row now
  names (`files/mod.rs:435`): with "reply" among the faults of `files_safety` TLC violates
  RowIsBacked, so that run leaves the fault out.
- Two requests that insert messages of one conversation draw their `chain_seq` in one order
  and can become visible in the other (`chat.rs:452`, migration 35 line 48). A question can
  then get a lower number than a message its prompt already held, and prompts of different
  requests disagree about what came last. That each prompt holds all lower numbers than its
  question's is therefore false; PromptIsComplete and TurnsInOrder are what remains.
- A member who was removed comes back through an accepted invite if the request had read it
  before it was marked (`orgs.rs:417`), and a failure between the INSERT and the mark leaves
  the invite open; SpentInviteAdmitsNobodyNew allows each such request one membership.
- An administrator who is removed between the check of the role and the INSERT
  (`orgs.rs:201`) still adds the member.
- The last row of the audit log is vouched for by nothing: replaced under a new hash it passes
  the verification, for which reason ForgeryDetected leaves it out.
- A bucket with more than `ITER_LIMIT` objects before an orphan hides it from every
  sweep (`housekeeping.rs:145`).
- A thumbnail's key has the viewer's id in it (`files/thumb.rs:74`), so members of an
  organization never see each other's; and no thumbnail is ever deleted, since the
  sweep passes over them (`housekeeping.rs:155`).
- The dispatcher and the outbound bridge end for good after `Lagged`
  (`webhooks.rs:276`, `events.rs:75`).
- docs/WEBHOOKS.md differs from the code in the number of attempts and the back-off
  and says that retries reuse the delivery's uuid (line 56); each attempt draws one.
- OAuth and impersonation sign in to accounts that are locked or have a second
  factor; API tokens of deleted accounts work until the purge.
- README.md:64 says "file delete → revoke shares"; a bulk deletion (`files/bulk.rs:61`)
  leaves the links and sends no event, and an ignored error leaves them after a single
  deletion (`files/mod.rs:316`).
- README.md:65 lists the paths that enforce the quotas. `confirm-upload` stores the
  real size of what was presigned under a declared one (`files/presign.rs:116`), a
  restore counts a file again without a check (`files/trash.rs:56`), and uploads
  that overlap each see room for themselves. QuotaExceededOnlyBy does not forbid any of
  these: `unchecked` counts every byte that came in without a check still current, and the
  property bounds the excess by that count. What it does exclude is an excess where every
  check was current when its bytes came in.
- A failure between the two inserts of `POST /orgs` leaves an organization that nobody
  can enter (`orgs.rs:87`); the last owner can leave one (`orgs.rs:487`).
- The public view of a conversation reads the messages of the moment, not the
  "frozen-at-share state" of its comment (`chat.rs:669`).
- The question is stored before the "prior turns" are read (`chat.rs:368`), so the model
  is shown it twice.
- `ChatEvent::Error`, with which "real LLMs report errors" (`chat.rs:409`), is never
  sent; a refusal is answered by the stub, and a stream that breaks off or times out is
  stored like a complete answer.
- A recovery code that two logins look up at once lets both in (`mfa.rs:238`):
  CodeSpendsBounded is what remains of "works once". Two regenerations at once
  leave both sets valid, and the codes survive `disable`.
- Failing logins that overlap lose counts (`auth.rs:422`). With n at a time and a
  limit of L an account takes up to C(L + n, n) - 1 guesses before it locks, which is
  twenty for two at a time and the limit of five (GuessesBounded); a failing login that read the row before a lock stores the old one
  back, and a succeeding one clears even an administrator's (`auth.rs:457`).
- `activate` and `disable` that overlap can leave the second factor enabled
  without a secret, and `enroll` can replace the secret of an enabled one (`mfa.rs:59`).

## 6. What is proved

TLAPS checks these for every value of the constants, with the stated assumptions
only. No theorem takes a bound of the runs for granted: requests, uuids, failures,
rows, users and servers are as many as one likes.

**FileStore_proof.** `TypeCorrect`: `Spec => []TypeOK`. `RowsAreBacked` and
`LiveRowsAreBacked`: `Spec => []RowIsBacked` and `Spec => []LiveRowIsBacked`, provided no
workload moves files, nor restores versions beside a sweep. `VersionsAreBacked`:
`Spec => []VersionIsBackedAtRest`, without a condition. RowIsBacked is not inductive:
nothing in it says that a purge deletes the object of a file that is gone, or
that the sweep spares an upload whose row is not inserted yet. `SafeInv` adds

- `DrawnInv`: every uuid in use was drawn, so a new one is new everywhere;
- `KeyInv`: a key belongs to one file, wherever it is mentioned (rows, versions, locals
  of any request), a purged file's key is used by nobody, and a file whose row is
  still to be inserted is known to its own request alone;
- `ShaInv`: a checksum is that of the bytes put under the key beside it;
- `HistoryInv`: where nothing is swept, versions and what editors hold have objects;
- `ObjectInv`: rows, and what requests will store in rows, have the objects they need;
- `SweepInv`: what is pending is younger than the sweep's grace or not on its list, and
  every row's key was known to the sweep or is young.

The two conditions are the ones under which the code is right. A move reuses a key
it has computed, not drawn, which `KeyInv` excludes (section 5); a restored version has an
old object again, which a sweep may already have on its list.

Moves have theorems of their own. `MovedRowsAreBacked`: the same two invariants where files are
moved beside uploads, presigned uploads, the trash and the purges, on two conditions,
each of which a race of section 5 or a fault makes necessary. No two moves of one
file overlap (`MovesApart`), and no UPDATE takes effect without an answer (`"reply" \notin
Faults`), after which the move would delete the copy that the row names. The
inductive invariant is `PlainInv`: keys carry the uuid of their file, and a purged file
stays away (`OwnInv`); the row of a file that is being moved has the move's old key until
the UPDATE and the new one after it, and the copy is there when the UPDATE comes (`MoveInv`); rows,
and requests that will insert or complete one, have their objects (`KeptInv`).
`OneMoverLosesNothing` needs no condition on the behaviour: with `MaxMovers <= 1` it covers every workload of
`files_safety`, with any number of requests.

`KeepsCatalogue` and `OneMoverKeepsCatalogue`: `ImplementsCatalogue` on the conditions of
`MovedRowsAreBacked` and of `OneMoverLosesNothing`. A step touches one row or one object, or
none that is named (`Effects`); that it maps to a step of the catalogue follows from two facts
(`ShelfStep`). No two rows have one uuid in their keys (`Shelved`): with moves it is the
file's own, and without them `IdsKept` shows that a uuid is in one key and that
key with one file, wherever it is mentioned (`IdInv`). And a row that had its object has
one after the step (`LosesNothing`), unless it gives a checksum up: rows without one are
under the key that was signed for their file (`OriginInv`).

`HistoryIsKept`: `Spec => HistoryKeepsContent`, without an assumption: any number of
overlapping editors, in every workload, moves, purges, the sweep and failing calls included.
From its second step on an edit has put the checksum that it read into a version
(`SnapshotInv`), so that a commit that finds this checksum still in the row loses nothing;
the row of a new file is inserted after everything that could edit it was read
(`FreshInv`).

**AuditChain_proof.** `TypeCorrect`: `Spec => []TypeOK`. `ChainNeverForks`: for any
number of writers `Spec => []ChainLinked`, provided `Skew = 0` or `Keepers = {}`. The
inductive invariant is `ChainInv`. ChainLinked alone is not inductive: that a new row
links to the tip needs that the hash read is still the tip's when the row
becomes visible (`TipInv`), which needs that nobody else inserts meanwhile
(`LockInv`) and that the new row's `chain_seq` is above every other (`SeqInv`).
Deleting rows must not make two unlinked rows adjacent: with clocks that agree
`created_at` grows along the chain, so that the retention cuts a prefix (`TimeInv`). With
skew and retention together it does not hold, and neither does the code.
`WholeLogAccepted`, `ForgeriesDetected` and `RemovalsDetected` prove the three properties of
the verification for any skew: `chain_seq` orders all that was ever logged
(`OrderInv`), and until the first deletion each row is linked to the one before and the
first to GENESIS (`WholeInv`). `NothingIsLost`: `Spec => []NothingLost` if
`Skew <= Retention` and runs at different instants write to different archives
(`TicksPerSecond = 1`); a row that is still
to be written is then too young for any cutoff (`OpenInv`), what a retention task is about to
delete is in an archive that nobody will overwrite (`KeepInv`), and so is what was
deleted (`GoneInv`). `Implements`: with clocks that agree `Spec => ImplementsLinkedLog`; the
step that needs work is that a deletion cuts a prefix that was exported (`ArchivedInv`).

**Webhooks_proof.** `TypeCorrect`, and `LimitDisables`: `Spec => []EnabledBelowLimit`. A
delivery writes `enabled` and the count in one UPDATE, both from the row it read:
`CountInv` says that every delivery carries the count of a hook below its limit, so that
one more reaches the limit exactly where it disables the hook.

**Accounts_proof.** `TypeCorrect`: `Spec => []TypeOK`. `SessionsEnd` and `SessionsCurrent`: if
bumps do not overlap, `Spec => [](EndedStaysEnded /\ SessionIsCurrent)`. `NeverRevived`:
`Spec => DeletedStaysDeleted`, overlaps included. The invariant: account ids are
never reused, and cookies and requests carry ids already drawn (`IdsInv`); a row held
by a request is an earlier state of the row it will update, with no higher version and
the same password at the same version (`RowsInv`); the same for cookies, and
an ended cookie of the current account has a lower version (`CookiesInv`); at most one
request is between reading and storing a version, and what it read is current (`BumpInv`).
The last is what the code does not ensure, and its only use is in these two.

**SecondFactor_proof.** `TypeCorrect`. `EnabledIsProved`: an `enroll` under way read an
account without a second factor, an `activate` has seen a code of the secret it read
(`SetupInv`). `CodesAreSpent`: nobody was let in by a code that is not marked, and the
logins it let in and those that have found it are together no more than there are
requests (`CodeInv`). `GuessesAreFew`: `Spec => []GuessesBounded`, for any limit and any
number of requests. The counter may go back as often as a stale login stores it, so no
function of it alone bounds the guesses. What goes down with every guess, in lexicographic order,
is the ladder: how far the counter has come and, for each level below, how many requests
still hold a count so low. `GuessInv` says that the guesses made so far, and those a late
login may still make, are no more than the ladders above the present one. `AdminLockLifted`: a login under way read an account that was not
locked (`LoginInv`).

**Sharing_proof.** `TypeCorrect`, foreign keys included. `OneMembership` rests on the unique
index alone. `MembersLetIn`: whoever is a member, is about to be inserted or
has an invite, was named by an officer (`LetInInv`). `InvitesAreSpent` and `DeadLinks` are action
properties: stale requests may write to the rows of spent invites and dead links, but only
columns that do not revive them. For an accepted invite no step adds to the requests that
have read it open (`OnlyOpenInvites`), and a membership that comes through it ends one of
them (`EntryUsesARequest`). `LinksDie` is about the single deletion alone, since the bulk
deletion has no cascade: when its UPDATE took effect, the links that were open when it
trashed the row are dead, and stay so (`CascadeInv`). `QuotasHold`: `Spec =>
[]QuotaExceededOnlyBy`, for any number of accounts, files and requests. `QuotaInv` adds what a
request may rely on: if nothing was charged to the account since its check, the bytes
it made room for still fit. Sums are handled by `SumCounts`: the sum over a
finite set of files is the number of pairs of a file and one of its bytes, proved by
a smallest counterexample, since induction over sets is out of reach; what adding,
removing and resizing a file does to a sum then follows from the library's lemmas on
cardinalities.

**Chat_proof.** `TypeCorrect`. `DeadTokens`: a token that a request is about to store is in no
row's past and in no other request (`TokenInv`), so that storing it revives nothing.
`PromptsComplete` and `PromptsInOrder`: a message that appears after a prompt was built
appeared after the prompt's question, and what a message had seen has a lower number than it
and was read together with it, although numbers are not drawn in the order of appearance
(`NumberInv`, `SaidInv`).

## 7. What is only model-checked

The liveness properties (OrphanReclaimed, OffHookGoesQuiet, OpenSocketIsServed,
QuestionSettled): TLAPS does not handle fairness and ENABLED.

Every invariant and every action property of the passing runs is proved, under the
conditions that section 6 names.

## 8. What is not modelled

Names, tags, stars, descriptions, comments and thumbnails are columns, rows or
objects that nothing else reads. In the modelled parts: listings, searches, exports and
downloads that only read; passwords of links; scopes of API tokens; the log of webhook
attempts. Routing, headers, CSRF, rate limits, validation and error
texts have no lasting state. The mailer's result is ignored by its callers. The
command line is run by hand. The client keeps view state only. Email verification and the
profile touch columns that no other handler tests. The migrations fix the tables'
columns, indexes and cascades, which the modules assume from `Init` on.
