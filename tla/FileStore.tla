------------------------------ MODULE FileStore ------------------------------
(***************************************************************************)
(* The file subsystem of the backend: rows of file_objects and             *)
(* file_versions in Postgres, bytes in the object store, the HTTP handlers *)
(* that change both, and the housekeeping task that purges old trash and   *)
(* sweeps objects no row points to.                                        *)
(*                                                                         *)
(* No handler runs in a transaction: each database or storage call is a    *)
(* step of its own, and a handler may be cut between any two of them (an   *)
(* error returned by `?`, a client that went away, a server that stopped). *)
(* A read whose result the handler only tests, and whose later UPDATE      *)
(* fails anyway when the row is gone, is one step with that UPDATE.        *)
(*                                                                         *)
(* Uuids are version 7, drawn in increasing order: 1, 2, ..., MaxId.  The  *)
(* uuid that an upload or a new version draws also stands for the bytes it *)
(* stores and for their SHA-256; 0 is a NULL checksum.                     *)
(***************************************************************************)
EXTENDS Naturals, FiniteSets, Functions

CONSTANTS
    Workers,      \* the requests that may run at the same time
    NOrgs,        \* organisations; the file's owner is a member of each
    Faults,       \* calls that may fail: subset of {"db", "storage", "reply"}
    Workloads,    \* the workloads, one of which a behaviour takes
    MaxId,        \* bound: uuids that any of them may draw
    MaxFaults,    \* bound: failed calls
    MaxMovers,    \* bound: move requests running at the same time
    IterLimit     \* ITER_LIMIT: objects one sweep looks at

AllOps == {"upload", "upload_json", "presign_upload", "confirm_upload",
           "delete", "restore", "purge", "empty_trash", "bulk_purge",
           "create_version", "restore_version", "move", "housekeeping"}

ASSUME FileStoreAssumption ==
    /\ "housekeeping" \notin Workers
    /\ NOrgs \in Nat /\ MaxId \in Nat
    /\ MaxFaults \in Nat /\ MaxMovers \in Nat /\ IterLimit \in Nat
    /\ Workloads \subseteq [ops : SUBSET AllOps, ids : 0..MaxId, requests : Nat]
    /\ Faults \subseteq {"db", "storage", "reply"}

VARIABLES
    rows,      \* file_objects: file id -> row, for the rows that exist
    versions,  \* file_versions
    objs,      \* the object store: key -> object, for the objects that exist
    urls,      \* presigned PUT urls still valid, each for one key
    procs,     \* local state of each request and of the housekeeping task
    known,     \* the storage keys the running sweep read from file_objects
    nextId,    \* the next uuid
    load,      \* the workload: its operations, the uuids it may draw and the
               \* requests it may still start
    faults     \* calls that failed so far

vars == <<rows, versions, objs, urls, procs, known, nextId, load, faults>>

Personal == 0
Spaces == 0..NOrgs
Ids == 1..MaxId
Shas == 0..MaxId
Hk == "housekeeping"
Procs == Workers \cup {Hk}

\* storage_key_for: o/{org}/{id}, or u/{uid}/{id} for the one owner.
StorageKey(space, id) == <<space, id>>
Keys == Spaces \X Ids

\* trash: not deleted, deleted, deleted more than 30 days ago.
RowSet == [key : Keys, org : Spaces, trash : {"live", "trashed", "expired"},
           sha : Shas]
VersionSet == [file : Ids, no : Nat \ {0}, key : Keys, sha : Shas]
ObjectSet == [data : Ids, old : BOOLEAN]

Idle == [pc |-> "idle"]

With(f, x, y) == [z \in DOMAIN f \cup {x} |-> IF z = x THEN y ELSE f[z]]
Without(f, S) == Restrict(f, DOMAIN f \ S)
Put(key, data) == With(objs, key, [data |-> data, old |-> FALSE])
VersionsOf(f) == {v \in versions : v.file = f}

Referenced == {rows[f].key : f \in DOMAIN rows} \cup {v.key : v \in versions}

-----------------------------------------------------------------------------
(* Requests *)

Busy == {p \in Workers : procs[p].pc # "idle"}

Start(p, op) ==
    /\ op \in load.ops
    /\ procs[p] = Idle
    /\ load.requests > 0
    /\ load' = [load EXCEPT !.requests = @ - 1]

Goto(p, state) == procs' = [procs EXCEPT ![p] = state]

Finish(p) == Goto(p, Idle)

Fail(kind) ==
    /\ kind \in Faults
    /\ faults < MaxFaults
    /\ faults' = faults + 1

\* A best-effort storage.delete: `let _ = storage.delete(..)`.
TryDelete(S) ==
    \/ objs' = Without(objs, S) /\ UNCHANGED faults
    \/ Fail("storage") /\ UNCHANGED objs

\* An early return, an error propagated by `?`, or a handler future dropped:
\* the request stops where it is and nothing it did is undone.
Abort(p) ==
    /\ procs[p].pc # "idle"
    /\ Finish(p)
    /\ UNCHANGED <<rows, versions, objs, urls, known, nextId, load, faults>>

-----------------------------------------------------------------------------
(* Uploads *)

\* POST /files streams the bytes to their key before anything else is checked.
UploadPut(p) ==
    LET key == StorageKey(Personal, nextId) IN
    /\ Start(p, "upload")
    /\ nextId <= load.ids
    /\ nextId' = nextId + 1
    /\ objs' = Put(key, nextId)
    /\ Goto(p, [pc |-> "check", file |-> nextId, org |-> Personal])
    /\ UNCHANGED <<rows, versions, urls, known, faults>>

\* An image whose bytes are not the claimed format is dropped again.
CheckMagic(p) ==
    LET w == procs[p] IN
    /\ w.pc = "check"
    /\ \/ Goto(p, [w EXCEPT !.pc = "insert"]) /\ UNCHANGED <<objs, faults>>
       \/ Finish(p) /\ TryDelete({StorageKey(w.org, w.file)})
    /\ UNCHANGED <<rows, versions, urls, known, nextId, load>>

\* POST /files/json, and each entry of POST /me/import, checks before the put.
UploadJsonPut(p) ==
    /\ Start(p, "upload_json")
    /\ nextId <= load.ids
    /\ nextId' = nextId + 1
    /\ \E org \in Spaces :
         /\ objs' = Put(StorageKey(org, nextId), nextId)
         /\ Goto(p, [pc |-> "insert", file |-> nextId, org |-> org])
    /\ UNCHANGED <<rows, versions, urls, known, faults>>

\* The row is inserted last (a quota refused here is an Abort).
InsertRow(p) ==
    LET w == procs[p]
        row == [key |-> StorageKey(w.org, w.file), org |-> w.org,
                trash |-> "live", sha |-> w.file] IN
    /\ w.pc = "insert"
    /\ rows' = With(rows, w.file, row)
    /\ Finish(p)
    /\ UNCHANGED <<versions, objs, urls, known, nextId, load, faults>>

\* POST /files/presign-upload inserts a row that is already deleted, with no
\* checksum, then signs a PUT url; the signing may fail.
PresignUpload(p) ==
    LET key == StorageKey(Personal, nextId)
        row == [key |-> key, org |-> Personal, trash |-> "trashed", sha |-> 0] IN
    /\ Start(p, "presign_upload")
    /\ nextId <= load.ids
    /\ nextId' = nextId + 1
    /\ rows' = With(rows, nextId, row)
    /\ urls' \in {urls, urls \cup {key}}
    /\ UNCHANGED <<versions, objs, procs, known, faults>>

\* The client uses its url, any number of times while it is valid.
ClientPut ==
    /\ \E key \in urls : objs' = Put(key, key[2])
    /\ UNCHANGED <<rows, versions, urls, procs, known, nextId, load, faults>>

\* POST /files/{id}/confirm-upload: read the row, ...
ConfirmRead(p) ==
    /\ Start(p, "confirm_upload")
    /\ \E f \in DOMAIN rows :
         Goto(p, [pc |-> "head", file |-> f, key |-> rows[f].key])
    /\ UNCHANGED <<rows, versions, objs, urls, known, nextId, faults>>

\* Mutant: confirm without looking at the object.
ConfirmHeadUnchecked(p) ==
    LET w == procs[p] IN
    /\ w.pc = "head"
    /\ Goto(p, [w EXCEPT !.pc = "confirm"])
    /\ UNCHANGED <<rows, versions, objs, urls, known, nextId, load, faults>>

\* ... HEAD the object, refuse when it is missing, ...
ConfirmHead(p) ==
    LET w == procs[p] IN
    /\ w.pc = "head"
    /\ IF w.key \in DOMAIN objs
       THEN Goto(p, [w EXCEPT !.pc = "confirm"])
       ELSE Finish(p)
    /\ UNCHANGED <<rows, versions, objs, urls, known, nextId, load, faults>>

\* Mutant: an upsert, which brings back a row purged since it was read.
ConfirmCommitUpsert(p) ==
    LET w == procs[p] IN
    /\ w.pc = "confirm"
    /\ rows' = With(rows, w.file, [trash |-> "live"])
    /\ Finish(p)
    /\ UNCHANGED <<versions, objs, urls, known, nextId, load, faults>>

\* ... and clear deleted_at; the UPDATE fails when the row is gone.
ConfirmCommit(p) ==
    LET w == procs[p] IN
    /\ w.pc = "confirm"
    /\ rows' = IF w.file \in DOMAIN rows
               THEN [rows EXCEPT ![w.file].trash = "live"] ELSE rows
    /\ Finish(p)
    /\ UNCHANGED <<versions, objs, urls, known, nextId, load, faults>>

-----------------------------------------------------------------------------
(* Trash *)

\* DELETE /files/{id}, and each row of POST /files/bulk Delete.
Delete(p) ==
    /\ Start(p, "delete")
    /\ \E f \in DOMAIN rows : rows' = [rows EXCEPT ![f].trash = "trashed"]
    /\ UNCHANGED <<versions, objs, urls, procs, known, nextId, faults>>

\* POST /trash/{id}/restore.
Restore(p) ==
    /\ Start(p, "restore")
    /\ \E f \in DOMAIN rows :
         /\ rows[f].trash # "live"
         /\ rows' = [rows EXCEPT ![f].trash = "live"]
    /\ UNCHANGED <<versions, objs, urls, procs, known, nextId, faults>>

Trashed == {f \in DOMAIN rows : rows[f].trash # "live"}

\* A purge works on the rows it read: file id and storage key.
PurgeOf(S) ==
    [pc |-> "purge_row", todo |-> {<<f, rows[f].key>> : f \in S}]

\* DELETE /trash/{id}.
Purge(p) ==
    /\ Start(p, "purge")
    /\ \E f \in Trashed : Goto(p, PurgeOf({f}))
    /\ UNCHANGED <<rows, versions, objs, urls, known, nextId, faults>>

\* DELETE /trash.
EmptyTrash(p) ==
    /\ Start(p, "empty_trash")
    /\ Goto(p, PurgeOf(Trashed))
    /\ UNCHANGED <<rows, versions, objs, urls, known, nextId, faults>>

\* POST /files/bulk Purge, for the ids named by the caller.
BulkPurge(p) ==
    /\ Start(p, "bulk_purge")
    /\ \E S \in SUBSET Trashed : Goto(p, PurgeOf(S))
    /\ UNCHANGED <<rows, versions, objs, urls, known, nextId, faults>>

\* The loop of every purge, housekeeping's too.  The row goes first, and with
\* it its versions (ON DELETE CASCADE); deleting a row that is already gone
\* succeeds.  When the DELETE fails the loop skips the row.
PurgeRow(p) ==
    LET w == procs[p] IN
    /\ w.pc = "purge_row"
    /\ \E t \in w.todo :
         \/ /\ rows' = Without(rows, {t[1]})
            /\ versions' = versions \ VersionsOf(t[1])
            /\ Goto(p, [pc |-> "purge_object", todo |-> w.todo \ {t},
                        key |-> t[2]])
            /\ UNCHANGED faults
         \/ /\ Fail("db")
            /\ Goto(p, [w EXCEPT !.todo = @ \ {t}])
            /\ UNCHANGED <<rows, versions>>
    /\ UNCHANGED <<objs, urls, known, nextId, load>>

\* Then the object, best effort, under the key the row had when it was read.
PurgeObject(p) ==
    LET w == procs[p] IN
    /\ w.pc = "purge_object"
    /\ TryDelete({w.key})
    /\ Goto(p, [pc |-> "purge_row", todo |-> w.todo])
    /\ UNCHANGED <<rows, versions, urls, known, nextId, load>>

\* A request is over after its last row; housekeeping goes on to the sweep.
PurgeDone(p) ==
    /\ procs[p].pc = "purge_row"
    /\ procs[p].todo = {}
    /\ IF p = Hk THEN Goto(p, [pc |-> "known"]) ELSE Finish(p)
    /\ UNCHANGED <<rows, versions, objs, urls, known, nextId, load, faults>>

-----------------------------------------------------------------------------
(* Versions *)

\* POST /files/{id}/versions: read a row that is not deleted, ...
CreateVersionRead(p) ==
    /\ Start(p, "create_version")
    /\ \E f \in DOMAIN rows :
         /\ rows[f].trash = "live"
         /\ Goto(p, [pc |-> "snapshot", op |-> "create", file |-> f,
                     row |-> rows[f]])
    /\ UNCHANGED <<rows, versions, objs, urls, known, nextId, faults>>

\* POST /files/{id}/versions/{n}/restore: read the row and the version.
RestoreVersionRead(p) ==
    /\ Start(p, "restore_version")
    /\ \E f \in DOMAIN rows : \E v \in VersionsOf(f) :
         /\ rows[f].trash = "live"
         /\ Goto(p, [pc |-> "snapshot", op |-> "restore", file |-> f,
                     row |-> rows[f], key |-> v.key, sha |-> v.sha])
    /\ UNCHANGED <<rows, versions, objs, urls, known, nextId, faults>>

\* Mutant: restoring a version forgets to snapshot what it replaces.
SnapshotCreateOnly(p) ==
    LET w == procs[p]
        v == [file |-> w.file, no |-> Cardinality(VersionsOf(w.file)) + 1,
              key |-> w.row.key, sha |-> w.row.sha] IN
    /\ w.pc = "snapshot"
    /\ w.file \in DOMAIN rows
    /\ IF w.op = "create"
       THEN /\ versions' = versions \cup {v}
            /\ Goto(p, [pc |-> "put_version", file |-> w.file,
                        org |-> w.row.org, read |-> w.row.sha])
       ELSE /\ Goto(p, [pc |-> "commit", file |-> w.file, key |-> w.key,
                        sha |-> w.sha, read |-> w.row.sha])
            /\ UNCHANGED versions
    /\ UNCHANGED <<rows, objs, urls, known, nextId, load, faults>>

\* snapshot_current keeps what the row held when it was read as one more
\* version.  A concurrent snapshot with the same number (unique index) and a
\* file that is gone (foreign key) make the INSERT fail, which is an Abort.  Of
\* the row, the handler's rest needs org, and HistoryKeepsContent the checksum.
SnapshotCurrent(p) ==
    LET w == procs[p]
        v == [file |-> w.file, no |-> Cardinality(VersionsOf(w.file)) + 1,
              key |-> w.row.key, sha |-> w.row.sha] IN
    /\ w.pc = "snapshot"
    /\ w.file \in DOMAIN rows
    /\ versions' = versions \cup {v}
    /\ Goto(p, IF w.op = "create"
               THEN [pc |-> "put_version", file |-> w.file, org |-> w.row.org,
                     read |-> w.row.sha]
               ELSE [pc |-> "commit", file |-> w.file, key |-> w.key,
                     sha |-> w.sha, read |-> w.row.sha])
    /\ UNCHANGED <<rows, objs, urls, known, nextId, load, faults>>

\* Mutant: the new bytes go under the file's own key.
PutVersionInPlace(p) ==
    LET w == procs[p]
        key == StorageKey(w.org, w.file) IN
    /\ w.pc = "put_version"
    /\ nextId <= load.ids
    /\ nextId' = nextId + 1
    /\ objs' = Put(key, nextId)
    /\ Goto(p, [pc |-> "commit", file |-> w.file, key |-> key, sha |-> nextId,
                read |-> w.read])
    /\ UNCHANGED <<rows, versions, urls, known, load, faults>>

\* A new version's bytes go under a key of their own.
PutVersion(p) ==
    LET w == procs[p]
        key == StorageKey(w.org, nextId) IN
    /\ w.pc = "put_version"
    /\ nextId <= load.ids
    /\ nextId' = nextId + 1
    /\ objs' = Put(key, nextId)
    /\ Goto(p, [pc |-> "commit", file |-> w.file, key |-> key, sha |-> nextId,
                read |-> w.read])
    /\ UNCHANGED <<rows, versions, urls, known, load, faults>>

\* The row then names the new key and its checksum.
CommitVersion(p) ==
    LET w == procs[p] IN
    /\ w.pc = "commit"
    /\ rows' = IF w.file \in DOMAIN rows
               THEN [rows EXCEPT ![w.file].key = w.key, ![w.file].sha = w.sha]
               ELSE rows
    /\ Finish(p)
    /\ UNCHANGED <<versions, objs, urls, known, nextId, load, faults>>

-----------------------------------------------------------------------------
(* PATCH /files/{id}/move: copy the bytes under the key of the new space,  *)
(* commit the row, delete the old key.                                     *)

MovePcs == {"move_get", "move_put", "move_commit", "drop_old", "drop_new"}

MoveRead(p) ==
    /\ Start(p, "move")
    /\ Cardinality({q \in Workers : procs[q].pc \in MovePcs}) < MaxMovers
    /\ \E f \in DOMAIN rows, org \in Spaces :
         LET old == rows[f].key
             new == StorageKey(org, f) IN
         Goto(p, [pc |-> IF new = old THEN "move_commit" ELSE "move_get",
                  file |-> f, org |-> org, old |-> old, new |-> new])
    /\ UNCHANGED <<rows, versions, objs, urls, known, nextId, faults>>

MoveGet(p) ==
    LET w == procs[p] IN
    /\ w.pc = "move_get"
    /\ IF w.old \in DOMAIN objs
       THEN Goto(p, [pc |-> "move_put", file |-> w.file, org |-> w.org,
                     old |-> w.old, new |-> w.new, data |-> objs[w.old].data])
       ELSE Finish(p)
    /\ UNCHANGED <<rows, versions, objs, urls, known, nextId, load, faults>>

MovePut(p) ==
    LET w == procs[p] IN
    /\ w.pc = "move_put"
    /\ objs' = Put(w.new, w.data)
    /\ Goto(p, [pc |-> "move_commit", file |-> w.file, org |-> w.org,
                old |-> w.old, new |-> w.new])
    /\ UNCHANGED <<rows, versions, urls, known, nextId, load, faults>>

\* storage_key is written only when it changed.
MovedRow(row, w) ==
    [row EXCEPT !.org = w.org, !.key = IF w.new = w.old THEN @ ELSE w.new]

MoveCommit(p) ==
    LET w == procs[p]
        next(pc) == IF w.new = w.old THEN Idle ELSE [w EXCEPT !.pc = pc] IN
    /\ w.pc = "move_commit"
    /\ \/ /\ w.file \in DOMAIN rows
          /\ rows' = [rows EXCEPT ![w.file] = MovedRow(@, w)]
          /\ \/ Goto(p, next("drop_old")) /\ UNCHANGED faults
             \/ Fail("reply") /\ Goto(p, next("drop_new"))
       \/ /\ w.file \notin DOMAIN rows
          /\ Goto(p, next("drop_new"))
          /\ UNCHANGED <<rows, faults>>
       \/ /\ Fail("db")
          /\ Goto(p, next("drop_new"))
          /\ UNCHANGED rows
    /\ UNCHANGED <<versions, objs, urls, known, nextId, load>>

MoveDropOld(p) ==
    /\ procs[p].pc = "drop_old"
    /\ TryDelete({procs[p].old})
    /\ Finish(p)
    /\ UNCHANGED <<rows, versions, urls, known, nextId, load>>

MoveDropNew(p) ==
    /\ procs[p].pc = "drop_new"
    /\ TryDelete({procs[p].new})
    /\ Finish(p)
    /\ UNCHANGED <<rows, versions, urls, known, nextId, load>>

-----------------------------------------------------------------------------
(* Housekeeping.  A run fixes `now` when it starts, so no object and no    *)
(* trashed row grows old during a run.                                     *)

HkStart ==
    /\ "housekeeping" \in load.ops
    /\ procs[Hk] = Idle
    /\ Goto(Hk, PurgeOf({f \in DOMAIN rows : rows[f].trash = "expired"}))
    /\ UNCHANGED <<rows, versions, objs, urls, known, nextId, load, faults>>

\* Mutant: the query leaves out the files in the trash.
KnownKeysListed ==
    {rows[f].key : f \in {g \in DOMAIN rows : rows[g].trash = "live"}}

\* The keys the sweep spares: those of file_objects.
KnownKeys == {rows[f].key : f \in DOMAIN rows}

HkKnown ==
    /\ procs[Hk].pc = "known"
    /\ known' = KnownKeys
    /\ Goto(Hk, [pc |-> "list"])
    /\ UNCHANGED <<rows, versions, objs, urls, nextId, load, faults>>

\* Each prefix, u/ and o/, is listed in key order.
Before(j, k) ==
    /\ (j[1] = Personal) <=> (k[1] = Personal)
    /\ j[1] < k[1] \/ (j[1] = k[1] /\ j[2] < k[2])

\* Mutant: only the u/ prefix is listed.
ListingsPersonal ==
    {{k \in DOMAIN objs : k[1] = Personal}}

\* What a sweep looks at: both listings interleaved, cut after IterLimit.
Listings ==
    LET size == Cardinality(DOMAIN objs) IN
    {L \in SUBSET DOMAIN objs :
        /\ Cardinality(L) = IF size < IterLimit THEN size ELSE IterLimit
        /\ \A k \in L : \A j \in DOMAIN objs : Before(j, k) => j \in L}

\* Mutant: no grace period for objects whose row is not inserted yet.
OrphansAnyAge(L) == {k \in L : k \notin known}

\* Objects of the listing at least an hour old that no known row names.
Orphans(L) == {k \in L : objs[k].old /\ k \notin known}

HkList ==
    /\ procs[Hk].pc = "list"
    /\ \E L \in Listings : Goto(Hk, [pc |-> "sweep", todo |-> Orphans(L)])
    /\ UNCHANGED <<rows, versions, objs, urls, known, nextId, load, faults>>

HkSweep ==
    LET w == procs[Hk] IN
    /\ w.pc = "sweep"
    /\ \E k \in w.todo :
         /\ TryDelete({k})
         /\ Goto(Hk, [w EXCEPT !.todo = @ \ {k}])
    /\ UNCHANGED <<rows, versions, urls, known, nextId, load>>

HkDone ==
    /\ procs[Hk].pc = "sweep"
    /\ procs[Hk].todo = {}
    /\ Finish(Hk)
    /\ known' = {}
    /\ UNCHANGED <<rows, versions, objs, urls, nextId, load, faults>>

\* A failed query or listing ends the run; the next one starts over.
HkFail ==
    /\ procs[Hk].pc # "idle"
    /\ Fail("db")
    /\ Finish(Hk)
    /\ known' = {}
    /\ UNCHANGED <<rows, versions, objs, urls, nextId, load>>

-----------------------------------------------------------------------------
(* Time.  Requests are short beside an hour, so none is running when an    *)
(* object passes the sweep's age limit or a url its 15 minutes.            *)

Quiet == \A p \in Procs : procs[p] = Idle

Aged == [k \in DOMAIN objs |-> [objs[k] EXCEPT !.old = TRUE]]

HourPasses ==
    /\ Quiet
    /\ objs' = Aged
    /\ urls' = {}
    /\ UNCHANGED <<rows, versions, procs, known, nextId, load, faults>>

MonthPasses ==
    /\ Quiet
    /\ objs' = Aged
    /\ urls' = {}
    /\ rows' = [f \in DOMAIN rows |->
                  IF rows[f].trash = "trashed"
                  THEN [rows[f] EXCEPT !.trash = "expired"] ELSE rows[f]]
    /\ UNCHANGED <<versions, procs, known, nextId, load, faults>>

-----------------------------------------------------------------------------
Init ==
    /\ rows = <<>>
    /\ versions = {}
    /\ objs = <<>>
    /\ urls = {}
    /\ procs = [p \in Procs |-> Idle]
    /\ known = {}
    /\ nextId = 1
    /\ load \in Workloads
    /\ faults = 0

Begin(p) ==
    \/ UploadPut(p) \/ UploadJsonPut(p) \/ PresignUpload(p) \/ ConfirmRead(p)
    \/ Delete(p) \/ Restore(p) \/ Purge(p) \/ EmptyTrash(p) \/ BulkPurge(p)
    \/ CreateVersionRead(p) \/ RestoreVersionRead(p) \/ MoveRead(p)

Continue(p) ==
    \/ CheckMagic(p) \/ InsertRow(p) \/ ConfirmHead(p) \/ ConfirmCommit(p)
    \/ PurgeRow(p) \/ PurgeObject(p) \/ PurgeDone(p)
    \/ SnapshotCurrent(p) \/ PutVersion(p) \/ CommitVersion(p)
    \/ MoveGet(p) \/ MovePut(p) \/ MoveCommit(p)
    \/ MoveDropOld(p) \/ MoveDropNew(p)

HkStep ==
    \/ HkStart \/ PurgeRow(Hk) \/ PurgeObject(Hk) \/ PurgeDone(Hk)
    \/ HkKnown \/ HkList \/ HkSweep \/ HkDone

Next ==
    \/ \E p \in Workers : Begin(p) \/ Continue(p) \/ Abort(p)
    \/ HkStep \/ HkFail
    \/ ClientPut \/ HourPasses \/ MonthPasses

Spec == Init /\ [][Next]_vars

\* A request that runs either completes or is dropped; the housekeeping task
\* loops forever; between its runs, time passes.
Fairness ==
    /\ \A p \in Workers : WF_vars(Continue(p) \/ Abort(p))
    /\ WF_vars(HkStep)
    /\ SF_vars(HourPasses)

FairSpec == Spec /\ Fairness

-----------------------------------------------------------------------------
(* Properties *)

MoveState ==
    [pc : MovePcs \ {"move_put"}, file : Ids, org : Spaces, old : Keys,
     new : Keys]

ProcState ==
    {Idle} \cup MoveState
    \cup [pc : {"check", "insert"}, file : Ids, org : Spaces]
    \cup [pc : {"head", "confirm"}, file : Ids, key : Keys]
    \cup [pc : {"purge_row"}, todo : SUBSET (Ids \X Keys)]
    \cup [pc : {"purge_object"}, todo : SUBSET (Ids \X Keys), key : Keys]
    \cup [pc : {"snapshot"}, op : {"create"}, file : Ids, row : RowSet]
    \cup [pc : {"snapshot"}, op : {"restore"}, file : Ids, row : RowSet,
          key : Keys, sha : Shas]
    \cup [pc : {"put_version"}, file : Ids, org : Spaces, read : Shas]
    \cup [pc : {"commit"}, file : Ids, key : Keys, sha : Shas, read : Shas]
    \cup [pc : {"move_put"}, file : Ids, org : Spaces, old : Keys, new : Keys,
          data : Ids]
    \cup [pc : {"known", "list"}]
    \cup [pc : {"sweep"}, todo : SUBSET Keys]

\* The state keeps its shape: no row, version, object or local state of a
\* handler is ever anything the schema and the handlers' types do not allow.
TypeOK ==
    /\ DOMAIN rows \subseteq Ids /\ \A f \in DOMAIN rows : rows[f] \in RowSet
    /\ versions \subseteq VersionSet
    /\ DOMAIN objs \subseteq Keys /\ \A k \in DOMAIN objs : objs[k] \in ObjectSet
    /\ urls \subseteq Keys
    /\ DOMAIN procs = Procs /\ \A p \in Procs : procs[p] \in ProcState
    /\ known \subseteq Keys
    /\ nextId \in 1..(MaxId + 1)
    /\ load \in [ops : SUBSET AllOps, ids : 0..MaxId, requests : Nat]
    /\ faults \in 0..MaxFaults

Backed(key, sha) == key \in DOMAIN objs /\ objs[key].data = sha

\* A row with a checksum, deleted or not, names an object that exists and has
\* the bytes the checksum was taken of: what GET /files/{id} serves and what
\* GET /files/{id}/verify recomputes.  trash.rs orders its deletes so that no
\* row is left "pointing to a missing object".
RowIsBacked ==
    \A f \in DOMAIN rows : rows[f].sha # 0 => Backed(rows[f].key, rows[f].sha)

\* A row that is not deleted names an object that exists, presigned uploads
\* included: a file the user sees in the list can be downloaded.  Not where the
\* trash can be restored, which brings back presigned rows never uploaded.
LiveRowIsBacked ==
    "restore" \notin load.ops =>
      \A f \in DOMAIN rows : rows[f].trash = "live" => rows[f].key \in DOMAIN objs

\* Every version of a file still has the bytes it was snapshotted with, so
\* POST /files/{id}/versions/{n}/restore brings back what it promises.
VersionIsBacked ==
    \A v \in versions : v.sha # 0 => Backed(v.key, v.sha)

\* It does so as long as no sweep runs and no file is moved, whatever the
\* interleaving of edits, restores and purges.
VersionIsBackedAtRest ==
    {"move", "housekeeping"} \cap load.ops = {} => VersionIsBacked

\* Is this step the commit of an edit that had read another content of f?
LostUpdate(f) ==
    \E p \in Workers :
      /\ procs[p].pc = "commit" /\ procs[p].file = f
      /\ procs[p].read # rows[f].sha
      /\ procs'[p] = Idle

\* However edits and restored versions of a file overlap, with each other and
\* with its purge, a step that changes the checksum of a row leaves the content
\* that it replaces in some version, unless the request that commits had read
\* the row before that content was there (nothing compares it again).
HistoryKeepsContent ==
    [][\A f \in DOMAIN rows \cap DOMAIN rows' :
         rows'[f].sha # rows[f].sha =>
           \/ \E v \in versions' : v.file = f /\ v.sha = rows[f].sha
           \/ LostUpdate(f)]_vars

\* An object that no row and no version names, whatever left it behind (a
\* refused upload, a move or a purge cut short, a delete that failed), is
\* reclaimed by some later sweep or named again.
OrphanReclaimed ==
    \A k \in Keys :
      (k \in DOMAIN objs \ Referenced) ~> (k \notin DOMAIN objs \ Referenced)

\* Files as GET /files/{id} serves them: while the row is not deleted, the
\* object under its key, if there is one.
Shelf ==
    [f \in DOMAIN rows |->
       [content |-> IF rows[f].key \in DOMAIN objs
                    THEN objs[rows[f].key].data ELSE 0,
        listed |-> rows[f].trash = "live",
        sealed |-> rows[f].sha # 0]]

Cat == INSTANCE Catalogue
       WITH shelf <- Shelf, Files <- Ids, Contents <- Ids, Nothing <- 0

\* Whatever uploads, edits, moves, purges, the sweep and failing
\* calls do to rows and objects, a download sees a catalogue: one file changes
\* at a time, from one whole content to another that no other file has, and no
\* file that stays loses its content.
ImplementsCatalogue == Cat!CatSpec
==============================================================================
