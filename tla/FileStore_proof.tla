--------------------------- MODULE FileStore_proof ---------------------------
(* Proofs about FileStore, for any number of concurrent requests, files,   *)
(* versions and failing calls.                                             *)
EXTENDS FileStore, FiniteSetTheorems, TLAPS

-----------------------------------------------------------------------------
(* Type correctness *)

LoadType == [ops : SUBSET AllOps, ids : 0..MaxId, requests : Nat]

\* TypeOK, and that the versions of a file can be counted.
TypeInv == TypeOK /\ IsFiniteSet(versions)

\* The next uuid, when the workload still has one.
LEMMA FreshId ==
    ASSUME TypeInv, nextId <= load.ids
    PROVE  /\ nextId \in Ids /\ nextId \in Shas
           /\ nextId + 1 \in 1..(MaxId + 1)
BY FileStoreAssumption DEF TypeInv, TypeOK, Ids, Shas

\* A stored object, under whatever key, leaves the store in shape.
LEMMA PutTypes ==
    ASSUME TypeInv, NEW k \in Keys, NEW d \in Ids, objs' = Put(k, d)
    PROVE  /\ DOMAIN objs' = DOMAIN objs \cup {k}
           /\ DOMAIN objs' \subseteq Keys
           /\ \A j \in DOMAIN objs' : objs'[j] \in ObjectSet
BY DEF TypeInv, TypeOK, Put, With, ObjectSet

\* So does a deletion, best effort or not.
LEMMA DeleteTypes ==
    ASSUME TypeInv, NEW S, TryDelete(S)
    PROVE  /\ DOMAIN objs' \subseteq DOMAIN objs
           /\ DOMAIN objs \ S \subseteq DOMAIN objs'
           /\ \A j \in DOMAIN objs' : objs'[j] = objs[j]
           /\ DOMAIN objs' \subseteq Keys
           /\ \A j \in DOMAIN objs' : objs'[j] \in ObjectSet
           /\ faults' \in 0..MaxFaults
BY FileStoreAssumption
DEF TypeInv, TypeOK, TryDelete, Fail, Without, Restrict

\* A call that fails.
LEMMA FailTypes ==
    ASSUME TypeInv, NEW kind, Fail(kind)
    PROVE  faults' \in 0..MaxFaults
BY FileStoreAssumption DEF TypeInv, TypeOK, Fail

\* A process goes on with a well-formed local state.
LEMMA GotoTypes ==
    ASSUME TypeInv, NEW p \in Procs, NEW q \in ProcState, Goto(p, q)
    PROVE  DOMAIN procs' = Procs /\ \A r \in Procs : procs'[r] \in ProcState
BY DEF TypeInv, TypeOK, Goto

\* A row that is inserted, and columns that are written, leave rows.
LEMMA RowTypes ==
    ASSUME TypeInv
    PROVE  /\ \A f \in Ids, row \in RowSet : rows' = With(rows, f, row) =>
                /\ DOMAIN rows' \subseteq Ids
                /\ \A g \in DOMAIN rows' : rows'[g] \in RowSet
           /\ \A f \in DOMAIN rows, row \in RowSet :
                rows' = [rows EXCEPT ![f] = row] =>
                  /\ DOMAIN rows' \subseteq Ids
                  /\ \A g \in DOMAIN rows' : rows'[g] \in RowSet
BY DEF TypeInv, TypeOK, With

\* Starting takes one of the requests of the workload, and nothing else.
LEMMA Started ==
    ASSUME TypeInv, NEW p, NEW op, Start(p, op)
    PROVE  /\ load' \in LoadType /\ load'.ops = load.ops
           /\ load'.ids = load.ids
<1>1. load \in LoadType /\ load.requests > 0
      /\ load' = [load EXCEPT !.requests = load.requests - 1]
  BY DEF Start, TypeInv, TypeOK, LoadType
<1>2. load.requests - 1 \in Nat
  BY <1>1 DEF LoadType
<1> QED
  BY <1>1, <1>2 DEF LoadType

\* Uploads and confirmations keep the state in shape.
LEMMA UploadTypes ==
    ASSUME TypeInv, NEW p \in Workers,
           \/ UploadPut(p) \/ CheckMagic(p) \/ UploadJsonPut(p) \/ InsertRow(p)
           \/ PresignUpload(p) \/ ConfirmRead(p) \/ ConfirmHead(p)
           \/ ConfirmCommit(p)
    PROVE  TypeInv'
<1> DEFINE w == procs[p]
<1>0. /\ p \in Procs /\ w \in ProcState /\ Idle \in ProcState
      /\ Personal \in Spaces
      /\ \A o \in Spaces, i \in Ids : StorageKey(o, i) \in Keys
  BY FileStoreAssumption
  DEF Procs, TypeInv, TypeOK, ProcState, Personal, Spaces, StorageKey, Keys
<1>1. CASE UploadPut(p)
  <2>1. [pc |-> "check", file |-> nextId, org |-> Personal] \in ProcState
    BY <1>0, <1>1, FreshId DEF UploadPut, ProcState
  <2> QED
    BY <1>0, <1>1, <2>1, FreshId, PutTypes, GotoTypes, Started
    DEF UploadPut, TypeInv, TypeOK, LoadType
<1>2. CASE CheckMagic(p)
  <2>1. [w EXCEPT !.pc = "insert"] \in ProcState
    BY <1>0, <1>2 DEF CheckMagic, ProcState, Idle, MoveState, MovePcs
  <2>2. CASE Goto(p, [w EXCEPT !.pc = "insert"]) /\ UNCHANGED <<objs, faults>>
    BY <1>0, <1>2, <2>1, <2>2, GotoTypes DEF CheckMagic, TypeInv, TypeOK
  <2>3. CASE Finish(p) /\ TryDelete({StorageKey(w.org, w.file)})
    BY <1>0, <1>2, <2>3, GotoTypes, DeleteTypes
    DEF CheckMagic, Finish, TypeInv, TypeOK
  <2> QED
    BY <1>2, <2>2, <2>3 DEF CheckMagic
<1>3. CASE UploadJsonPut(p)
  <2>1. PICK org \in Spaces :
          /\ objs' = Put(StorageKey(org, nextId), nextId)
          /\ Goto(p, [pc |-> "insert", file |-> nextId, org |-> org])
    BY <1>3 DEF UploadJsonPut
  <2>2. [pc |-> "insert", file |-> nextId, org |-> org] \in ProcState
    BY <1>3, FreshId DEF UploadJsonPut, ProcState
  <2> QED
    BY <1>0, <1>3, <2>1, <2>2, FreshId, PutTypes, GotoTypes, Started
    DEF UploadJsonPut, TypeInv, TypeOK, LoadType
<1>4. CASE InsertRow(p)
  <2>1. w.file \in Ids /\ w.org \in Spaces
    BY <1>0, <1>4 DEF InsertRow, ProcState, Idle, MoveState, MovePcs
  <2>2. [key |-> StorageKey(w.org, w.file), org |-> w.org,
         trash |-> "live", sha |-> w.file] \in RowSet
    BY <1>0, <2>1, FileStoreAssumption DEF RowSet, Ids, Shas
  <2> QED
    BY <1>0, <1>4, <2>1, <2>2, RowTypes, GotoTypes
    DEF InsertRow, Finish, TypeInv, TypeOK
<1>5. CASE PresignUpload(p)
  <2>1. StorageKey(Personal, nextId) \in Keys
    BY <1>0, <1>5, FreshId DEF PresignUpload
  <2>2. [key |-> StorageKey(Personal, nextId), org |-> Personal,
         trash |-> "trashed", sha |-> 0] \in RowSet
    BY <1>0, <2>1, FileStoreAssumption DEF RowSet, Shas
  <2>3. DOMAIN rows' \subseteq Ids /\ \A g \in DOMAIN rows' : rows'[g] \in RowSet
    BY <1>5, <2>2, FreshId, RowTypes DEF PresignUpload
  <2> QED
    BY <1>5, <2>1, <2>3, FreshId, Started
    DEF PresignUpload, TypeInv, TypeOK, LoadType
<1>6. CASE ConfirmRead(p)
  <2>1. PICK f \in DOMAIN rows :
          Goto(p, [pc |-> "head", file |-> f, key |-> rows[f].key])
    BY <1>6 DEF ConfirmRead
  <2>2. [pc |-> "head", file |-> f, key |-> rows[f].key] \in ProcState
    BY DEF TypeInv, TypeOK, RowSet, ProcState
  <2> QED
    BY <1>0, <1>6, <2>1, <2>2, GotoTypes, Started
    DEF ConfirmRead, TypeInv, TypeOK, LoadType
<1>7. CASE ConfirmHead(p)
  <2>1. [w EXCEPT !.pc = "confirm"] \in ProcState
    BY <1>0, <1>7 DEF ConfirmHead, ProcState, Idle, MoveState, MovePcs
  <2> QED
    BY <1>0, <1>7, <2>1, GotoTypes DEF ConfirmHead, Finish, TypeInv, TypeOK
<1>8. CASE ConfirmCommit(p)
  <2>1. DOMAIN rows' = DOMAIN rows /\ \A f \in DOMAIN rows' : rows'[f] \in RowSet
    BY <1>8 DEF ConfirmCommit, TypeInv, TypeOK, RowSet
  <2> QED
    BY <1>0, <1>8, <2>1, GotoTypes DEF ConfirmCommit, Finish, TypeInv, TypeOK
<1> QED
  BY <1>1, <1>2, <1>3, <1>4, <1>5, <1>6, <1>7, <1>8

\* So do the steps of the trash and of every purge, housekeeping's too.
LEMMA TrashTypes ==
    ASSUME TypeInv, NEW p \in Procs,
           \/ Delete(p) \/ Restore(p) \/ Purge(p) \/ EmptyTrash(p)
           \/ BulkPurge(p) \/ PurgeRow(p) \/ PurgeObject(p) \/ PurgeDone(p)
    PROVE  TypeInv'
<1> DEFINE w == procs[p]
<1>0. /\ w \in ProcState /\ Idle \in ProcState
      /\ DOMAIN rows \subseteq Ids /\ \A f \in DOMAIN rows : rows[f] \in RowSet
  BY DEF TypeInv, TypeOK, ProcState
<1>1. ASSUME NEW S, S \subseteq DOMAIN rows PROVE PurgeOf(S) \in ProcState
  <2>1. {<<f, rows[f].key>> : f \in S} \subseteq Ids \X Keys
    BY <1>0, <1>1 DEF RowSet
  <2> QED
    BY <2>1 DEF PurgeOf, ProcState
<1>2. CASE Delete(p) \/ Restore(p)
  <2>1. DOMAIN rows' = DOMAIN rows /\ \A f \in DOMAIN rows' : rows'[f] \in RowSet
    BY <1>0, <1>2 DEF Delete, Restore, RowSet
  <2> QED
    BY <1>2, <2>1, Started DEF Delete, Restore, TypeInv, TypeOK, LoadType
<1>3. CASE Purge(p) \/ EmptyTrash(p) \/ BulkPurge(p)
  <2>1. PICK S : S \subseteq DOMAIN rows /\ Goto(p, PurgeOf(S))
    BY <1>3 DEF Purge, EmptyTrash, BulkPurge, Trashed
  <2>2. PurgeOf(S) \in ProcState
    BY <1>1, <2>1
  <2> QED
    BY <1>3, <2>1, <2>2, Started, GotoTypes
    DEF Purge, EmptyTrash, BulkPurge, TypeInv, TypeOK, LoadType
<1>4. CASE PurgeRow(p)
  <2>0. w.pc = "purge_row" /\ w.todo \subseteq Ids \X Keys
    BY <1>0, <1>4 DEF PurgeRow, ProcState, Idle, MoveState, MovePcs
  <2>1. PICK t \in w.todo :
         \/ /\ rows' = Without(rows, {t[1]})
            /\ versions' = versions \ VersionsOf(t[1])
            /\ Goto(p, [pc |-> "purge_object", todo |-> w.todo \ {t},
                        key |-> t[2]])
            /\ UNCHANGED faults
         \/ /\ Fail("db")
            /\ Goto(p, [w EXCEPT !.todo = @ \ {t}])
            /\ UNCHANGED <<rows, versions>>
    BY <1>4 DEF PurgeRow
  <2>2. /\ [pc |-> "purge_object", todo |-> w.todo \ {t}, key |-> t[2]] \in ProcState
        /\ [w EXCEPT !.todo = @ \ {t}] \in ProcState
    <3>1. w \in [pc : {"purge_row"}, todo : SUBSET (Ids \X Keys)]
      BY <1>0, <2>0 DEF ProcState, Idle, MoveState, MovePcs
    <3>2. t[2] \in Keys
      BY <2>0
    <3> QED
      BY <2>0, <3>1, <3>2 DEF ProcState
  <2>3. /\ DOMAIN rows' \subseteq DOMAIN rows
        /\ \A f \in DOMAIN rows' : rows'[f] = rows[f]
    BY <2>1 DEF Without, Restrict
  <2>4. versions' \subseteq versions /\ IsFiniteSet(versions')
    BY <2>1, FS_Subset DEF TypeInv
  <2>5. DOMAIN procs' = Procs /\ \A r \in Procs : procs'[r] \in ProcState
    BY <2>1, <2>2, GotoTypes
  <2>6. faults' \in 0..MaxFaults
    BY <2>1, FailTypes DEF TypeInv, TypeOK
  <2> QED
    BY <1>0, <1>4, <2>3, <2>4, <2>5, <2>6 DEF PurgeRow, TypeInv, TypeOK
<1>5. CASE PurgeObject(p)
  <2>1. [pc |-> "purge_row", todo |-> w.todo] \in ProcState
    BY <1>0, <1>5 DEF PurgeObject, ProcState, Idle, MoveState, MovePcs
  <2> QED
    BY <1>5, <2>1, DeleteTypes, GotoTypes DEF PurgeObject, TypeInv, TypeOK
<1>6. CASE PurgeDone(p)
  <2>1. [pc |-> "known"] \in ProcState
    BY DEF ProcState
  <2> QED
    BY <1>0, <1>6, <2>1, GotoTypes DEF PurgeDone, Finish, TypeInv, TypeOK
<1> QED
  BY <1>2, <1>3, <1>4, <1>5, <1>6

\* So do new and restored versions.
LEMMA VersionTypes ==
    ASSUME TypeInv, NEW p \in Workers,
           \/ CreateVersionRead(p) \/ RestoreVersionRead(p) \/ SnapshotCurrent(p)
           \/ PutVersion(p) \/ CommitVersion(p)
    PROVE  TypeInv'
<1> DEFINE w == procs[p]
<1>0. /\ p \in Procs /\ w \in ProcState /\ Idle \in ProcState
      /\ DOMAIN rows \subseteq Ids /\ \A f \in DOMAIN rows : rows[f] \in RowSet
      /\ versions \subseteq VersionSet /\ IsFiniteSet(versions)
  BY DEF Procs, TypeInv, TypeOK, ProcState
<1>1. CASE CreateVersionRead(p)
  <2>1. PICK f \in DOMAIN rows :
          Goto(p, [pc |-> "snapshot", op |-> "create", file |-> f, row |-> rows[f]])
    BY <1>1 DEF CreateVersionRead
  <2>2. [pc |-> "snapshot", op |-> "create", file |-> f, row |-> rows[f]] \in ProcState
    BY <1>0 DEF ProcState
  <2> QED
    BY <1>0, <1>1, <2>1, <2>2, Started, GotoTypes
    DEF CreateVersionRead, TypeInv, TypeOK, LoadType
<1>2. CASE RestoreVersionRead(p)
  <2>0. PICK f \in DOMAIN rows : \E v \in VersionsOf(f) :
          Goto(p, [pc |-> "snapshot", op |-> "restore", file |-> f,
                   row |-> rows[f], key |-> v.key, sha |-> v.sha])
    BY <1>2 DEF RestoreVersionRead
  <2>1. PICK v \in VersionsOf(f) :
          Goto(p, [pc |-> "snapshot", op |-> "restore", file |-> f,
                   row |-> rows[f], key |-> v.key, sha |-> v.sha])
    BY <2>0
  <2>2. v.key \in Keys /\ v.sha \in Shas
    BY <1>0, <2>1 DEF VersionsOf, VersionSet
  <2>3. [pc |-> "snapshot", op |-> "restore", file |-> f,
         row |-> rows[f], key |-> v.key, sha |-> v.sha] \in ProcState
    BY <1>0, <2>2 DEF ProcState
  <2> QED
    BY <1>0, <1>2, <2>1, <2>3, Started, GotoTypes
    DEF RestoreVersionRead, TypeInv, TypeOK, LoadType
<1>3. CASE SnapshotCurrent(p)
  <2>1. PICK v : v = [file |-> w.file, no |-> Cardinality(VersionsOf(w.file)) + 1,
                      key |-> w.row.key, sha |-> w.row.sha]
    OBVIOUS
  <2>2. /\ versions' = versions \cup {v} /\ w.pc = "snapshot"
        /\ Goto(p, IF w.op = "create"
               THEN [pc |-> "put_version", file |-> w.file, org |-> w.row.org,
                     read |-> w.row.sha]
               ELSE [pc |-> "commit", file |-> w.file, key |-> w.key,
                     sha |-> w.sha, read |-> w.row.sha])
    BY <1>3, <2>1 DEF SnapshotCurrent
  <2>3. /\ w.file \in Ids /\ w.row \in RowSet /\ w.op \in {"create", "restore"}
        /\ w.op = "restore" => w.key \in Keys /\ w.sha \in Shas
    BY <1>0, <2>2 DEF ProcState, Idle, MoveState, MovePcs
  <2>4. Cardinality(VersionsOf(w.file)) \in Nat
    <3>1. IsFiniteSet(VersionsOf(w.file))
      BY <1>0, FS_Subset DEF VersionsOf
    <3> QED
      BY <3>1, FS_CardinalityType
  <2>5. v \in VersionSet
    BY <2>1, <2>3, <2>4 DEF VersionSet, RowSet
  <2>6. versions' \subseteq VersionSet /\ IsFiniteSet(versions')
    BY <1>0, <2>2, <2>5, FS_AddElement
  <2>7. (IF w.op = "create"
         THEN [pc |-> "put_version", file |-> w.file, org |-> w.row.org,
               read |-> w.row.sha]
         ELSE [pc |-> "commit", file |-> w.file, key |-> w.key,
               sha |-> w.sha, read |-> w.row.sha]) \in ProcState
    BY <2>3 DEF ProcState, RowSet
  <2> QED
    BY <1>0, <1>3, <2>2, <2>6, <2>7, GotoTypes DEF SnapshotCurrent, TypeInv, TypeOK
<1>4. CASE PutVersion(p)
  <2>1. /\ w.pc = "put_version" /\ w.file \in Ids /\ w.org \in Spaces
        /\ w.read \in Shas
    BY <1>0, <1>4 DEF PutVersion, ProcState, Idle, MoveState, MovePcs
  <2>2. nextId \in Ids /\ nextId \in Shas /\ nextId + 1 \in 1..(MaxId + 1)
    BY <1>4, FreshId DEF PutVersion
  <2>3. StorageKey(w.org, nextId) \in Keys
    BY <2>1, <2>2 DEF StorageKey, Keys
  <2>4. [pc |-> "commit", file |-> w.file, key |-> StorageKey(w.org, nextId),
         sha |-> nextId, read |-> w.read] \in ProcState
    BY <2>1, <2>2, <2>3 DEF ProcState
  <2> QED
    BY <1>0, <1>4, <2>2, <2>3, <2>4, PutTypes, GotoTypes
    DEF PutVersion, TypeInv, TypeOK
<1>5. CASE CommitVersion(p)
  <2>1. w.key \in Keys /\ w.sha \in Shas
    BY <1>0, <1>5 DEF CommitVersion, ProcState, Idle, MoveState, MovePcs
  <2>2. DOMAIN rows' = DOMAIN rows /\ \A f \in DOMAIN rows' : rows'[f] \in RowSet
    BY <1>0, <1>5, <2>1 DEF CommitVersion, RowSet
  <2> QED
    BY <1>0, <1>5, <2>2, GotoTypes DEF CommitVersion, Finish, TypeInv, TypeOK
<1> QED
  BY <1>1, <1>2, <1>3, <1>4, <1>5

\* So do moves.
LEMMA MoveTypes ==
    ASSUME TypeInv, NEW p \in Workers,
           \/ MoveRead(p) \/ MoveGet(p) \/ MovePut(p) \/ MoveCommit(p)
           \/ MoveDropOld(p) \/ MoveDropNew(p)
    PROVE  TypeInv'
<1> DEFINE w == procs[p]
<1>0. /\ p \in Procs /\ w \in ProcState /\ Idle \in ProcState
      /\ DOMAIN rows \subseteq Ids /\ \A f \in DOMAIN rows : rows[f] \in RowSet
      /\ \A o \in Spaces, i \in Ids : StorageKey(o, i) \in Keys
  BY DEF Procs, TypeInv, TypeOK, ProcState, StorageKey, Keys
<1>1. CASE MoveRead(p)
  <2>1. PICK f \in DOMAIN rows, org \in Spaces :
         Goto(p, [pc |-> IF StorageKey(org, f) = rows[f].key
                         THEN "move_commit" ELSE "move_get",
                  file |-> f, org |-> org, old |-> rows[f].key,
                  new |-> StorageKey(org, f)])
    BY <1>1 DEF MoveRead
  <2>2. [pc |-> IF StorageKey(org, f) = rows[f].key
                THEN "move_commit" ELSE "move_get",
         file |-> f, org |-> org, old |-> rows[f].key,
         new |-> StorageKey(org, f)] \in MoveState
    BY <1>0, <2>1 DEF MoveState, MovePcs, RowSet
  <2>3. MoveState \subseteq ProcState
    BY DEF ProcState
  <2> QED
    BY <1>0, <1>1, <2>1, <2>2, <2>3, Started, GotoTypes
    DEF MoveRead, TypeInv, TypeOK, LoadType
<1>2. CASE MoveGet(p)
  <2>1. w \in MoveState
    BY <1>0, <1>2 DEF MoveGet, ProcState, Idle, MoveState, MovePcs
  <2>2. CASE w.old \in DOMAIN objs
    <3>1. [pc |-> "move_put", file |-> w.file, org |-> w.org, old |-> w.old,
           new |-> w.new, data |-> objs[w.old].data] \in ProcState
      BY <2>1, <2>2 DEF TypeInv, TypeOK, ObjectSet, ProcState, MoveState
    <3> QED
      BY <1>0, <1>2, <2>2, <3>1, GotoTypes DEF MoveGet, TypeInv, TypeOK
  <2>3. CASE w.old \notin DOMAIN objs
    BY <1>0, <1>2, <2>3, GotoTypes DEF MoveGet, Finish, TypeInv, TypeOK
  <2> QED
    BY <2>2, <2>3
<1>3. CASE MovePut(p)
  <2>1. w \in [pc : {"move_put"}, file : Ids, org : Spaces, old : Keys,
               new : Keys, data : Ids]
    BY <1>0, <1>3 DEF MovePut, ProcState, Idle, MoveState, MovePcs
  <2>2. [pc |-> "move_commit", file |-> w.file, org |-> w.org,
         old |-> w.old, new |-> w.new] \in MoveState
    BY <2>1 DEF MoveState, MovePcs
  <2>3. MoveState \subseteq ProcState
    BY DEF ProcState
  <2> QED
    BY <1>0, <1>3, <2>1, <2>2, <2>3, PutTypes, GotoTypes
    DEF MovePut, TypeInv, TypeOK
<1>4. CASE MoveCommit(p)
  <2>1. w \in MoveState
    BY <1>0, <1>4 DEF MoveCommit, ProcState, Idle, MoveState, MovePcs
  <2>2. MoveState \subseteq ProcState
    BY DEF ProcState
  <2>3. /\ [w EXCEPT !.pc = "drop_old"] \in MoveState
        /\ [w EXCEPT !.pc = "drop_new"] \in MoveState
    BY <2>1 DEF MoveState, MovePcs
  <2>4. \E x \in ProcState : Goto(p, x)
    BY <1>0, <1>4, <2>2, <2>3 DEF MoveCommit
  <2>5. DOMAIN procs' = Procs /\ \A r \in Procs : procs'[r] \in ProcState
    BY <1>0, <2>4, GotoTypes
  <2>6. \A f \in DOMAIN rows : MovedRow(rows[f], w) \in RowSet
    BY <1>0, <2>1 DEF MovedRow, MoveState, RowSet
  <2>7. \/ rows' = rows
        \/ w.file \in DOMAIN rows
           /\ rows' = [rows EXCEPT ![w.file] = MovedRow(rows[w.file], w)]
    BY <1>4 DEF MoveCommit
  <2>8. DOMAIN rows' = DOMAIN rows /\ \A f \in DOMAIN rows' : rows'[f] \in RowSet
    BY <1>0, <2>6, <2>7
  <2>9. faults' \in 0..MaxFaults
    BY <1>4, FailTypes DEF MoveCommit, TypeInv, TypeOK
  <2> QED
    BY <1>0, <1>4, <2>5, <2>8, <2>9 DEF MoveCommit, TypeInv, TypeOK
<1>5. CASE MoveDropOld(p) \/ MoveDropNew(p)
  <2>1. PICK S : TryDelete(S)
    BY <1>5 DEF MoveDropOld, MoveDropNew
  <2>2. Goto(p, Idle) /\ UNCHANGED <<rows, versions, urls, known, nextId, load>>
    BY <1>5 DEF MoveDropOld, MoveDropNew, Finish
  <2> QED
    BY <1>0, <2>1, <2>2, DeleteTypes, GotoTypes DEF TypeInv, TypeOK
<1> QED
  BY <1>1, <1>2, <1>3, <1>4, <1>5

\* So do housekeeping, time, and clients with presigned URLs.
LEMMA OtherTypes ==
    ASSUME TypeInv,
           \/ HkStart \/ HkKnown \/ HkList \/ HkSweep \/ HkDone \/ HkFail
           \/ ClientPut \/ HourPasses \/ MonthPasses
           \/ \E p \in Workers : Abort(p)
    PROVE  TypeInv'
<1>0. /\ Hk \in Procs /\ procs[Hk] \in ProcState /\ Idle \in ProcState
      /\ DOMAIN rows \subseteq Ids /\ \A f \in DOMAIN rows : rows[f] \in RowSet
      /\ DOMAIN objs \subseteq Keys /\ \A k \in DOMAIN objs : objs[k] \in ObjectSet
  BY DEF Procs, TypeInv, TypeOK, ProcState
<1>1. CASE HkStart
  <2>1. PICK S : S \subseteq DOMAIN rows /\ Goto(Hk, PurgeOf(S))
    BY <1>1 DEF HkStart
  <2>2. {<<f, rows[f].key>> : f \in S} \subseteq Ids \X Keys
    BY <1>0, <2>1 DEF RowSet
  <2>3. PurgeOf(S) \in ProcState
    BY <2>2 DEF PurgeOf, ProcState
  <2> QED
    BY <1>0, <1>1, <2>1, <2>3, GotoTypes DEF HkStart, TypeInv, TypeOK
<1>2. CASE HkKnown
  <2>1. [pc |-> "list"] \in ProcState
    BY DEF ProcState
  <2>2. KnownKeys \subseteq Keys
    BY <1>0 DEF KnownKeys, RowSet
  <2> QED
    BY <1>0, <1>2, <2>1, <2>2, GotoTypes DEF HkKnown, TypeInv, TypeOK
<1>3. CASE HkList
  <2>1. PICK L : L \subseteq DOMAIN objs
                 /\ Goto(Hk, [pc |-> "sweep", todo |-> Orphans(L)])
    BY <1>3 DEF HkList, Listings
  <2>2. Orphans(L) \subseteq Keys
    BY <1>0, <2>1 DEF Orphans
  <2>3. [pc |-> "sweep", todo |-> Orphans(L)] \in ProcState
    BY <2>2 DEF ProcState
  <2> QED
    BY <1>0, <1>3, <2>1, <2>3, GotoTypes DEF HkList, TypeInv, TypeOK
<1>4. CASE HkSweep
  <2>1. PICK k \in procs[Hk].todo :
          TryDelete({k}) /\ Goto(Hk, [procs[Hk] EXCEPT !.todo = @ \ {k}])
    BY <1>4 DEF HkSweep
  <2>2. [procs[Hk] EXCEPT !.todo = @ \ {k}] \in ProcState
    <3>1. procs[Hk] \in [pc : {"sweep"}, todo : SUBSET Keys]
      BY <1>0, <1>4 DEF HkSweep, ProcState, Idle, MoveState, MovePcs
    <3> QED
      BY <3>1 DEF ProcState
  <2> QED
    BY <1>0, <1>4, <2>1, <2>2, GotoTypes, DeleteTypes
    DEF HkSweep, TypeInv, TypeOK
<1>5. CASE HkDone \/ HkFail
  BY <1>0, <1>5, GotoTypes, FailTypes DEF HkDone, HkFail, Finish, TypeInv, TypeOK
<1>6. CASE ClientPut
  <2>1. PICK k \in urls : objs' = Put(k, k[2])
    BY <1>6 DEF ClientPut
  <2>2. k \in Keys /\ k[2] \in Ids
    BY <2>1 DEF TypeInv, TypeOK, Keys
  <2> QED
    BY <1>6, <2>1, <2>2, PutTypes DEF ClientPut, TypeInv, TypeOK
<1>7. CASE HourPasses \/ MonthPasses
  <2>1. /\ DOMAIN objs' = DOMAIN objs /\ urls' = {}
        /\ \A k \in DOMAIN objs' : objs'[k] \in ObjectSet
    BY <1>0, <1>7 DEF HourPasses, MonthPasses, Aged, ObjectSet
  <2>2. DOMAIN rows' = DOMAIN rows /\ \A f \in DOMAIN rows' : rows'[f] \in RowSet
    BY <1>0, <1>7 DEF HourPasses, MonthPasses, RowSet
  <2> QED
    BY <1>0, <1>7, <2>1, <2>2 DEF HourPasses, MonthPasses, TypeInv, TypeOK
<1>8. ASSUME NEW p \in Workers, Abort(p) PROVE TypeInv'
  BY <1>0, <1>8, GotoTypes DEF Abort, Finish, Procs, TypeInv, TypeOK
<1> QED
  BY <1>1, <1>2, <1>3, <1>4, <1>5, <1>6, <1>7, <1>8

\* The shape of rows, versions, objects and requests is preserved by every
\* handler, by housekeeping and by time.
THEOREM TypesKept == Spec => []TypeInv
<1>1. Init => TypeInv
  <2> SUFFICES ASSUME Init PROVE TypeInv
    OBVIOUS
  <2>1. /\ DOMAIN rows = {} /\ DOMAIN objs = {} /\ versions = {} /\ urls = {}
        /\ known = {} /\ procs = [p \in Procs |-> Idle]
    BY DEF Init
  <2>2. load \in LoadType /\ nextId = 1 /\ faults = 0
    BY FileStoreAssumption DEF Init, LoadType
  <2>3. nextId \in 1..(MaxId + 1) /\ faults \in 0..MaxFaults
    BY <2>2, FileStoreAssumption
  <2> QED
    BY <2>1, <2>2, <2>3, FS_EmptySet DEF TypeInv, TypeOK, LoadType, ProcState
<1>2. TypeInv /\ [Next]_vars => TypeInv'
  <2> SUFFICES ASSUME TypeInv, [Next]_vars PROVE TypeInv'
    OBVIOUS
  <2>1. CASE UNCHANGED vars
    BY <2>1 DEF vars, TypeInv, TypeOK
  <2>2. ASSUME NEW p \in Workers, Begin(p) \/ Continue(p) PROVE TypeInv'
    BY <2>2, UploadTypes, TrashTypes, VersionTypes, MoveTypes
    DEF Begin, Continue, Procs
  <2>3. CASE HkStep \/ HkFail \/ ClientPut \/ HourPasses \/ MonthPasses
    BY <2>3, TrashTypes, OtherTypes DEF HkStep, Procs
  <2>4. ASSUME NEW p \in Workers, Abort(p) PROVE TypeInv'
    BY <2>4, OtherTypes
  <2> QED
    BY <2>1, <2>2, <2>3, <2>4 DEF Next
<1> QED
  BY <1>1, <1>2, PTL DEF Spec

\* The state keeps its shape, whatever the workload and however many requests,
\* uuids and failing calls.
THEOREM TypeCorrect == Spec => []TypeOK
<1>1. TypeInv => TypeOK
  BY DEF TypeInv
<1> QED
  BY <1>1, TypesKept, PTL

-----------------------------------------------------------------------------
(* No file loses its object.  The argument has two parts: a key belongs to  *)
(* one file at most, wherever it is mentioned; and what deletes objects     *)
(* deletes none that a row, or a request that will store one, needs.        *)

\* The key that a request which still has to insert its row has put.
Pending(p) == procs[p].pc \in {"check", "insert"}
PendingKey(p) == StorageKey(procs[p].org, procs[p].file)

\* A request that works on file f has key k among its locals.
Holds(w, f, k) ==
    \/ w.pc = "commit" /\ w.file = f /\ w.key = k
    \/ w.pc = "snapshot" /\ w.file = f
         /\ (w.row.key = k \/ (w.op = "restore" /\ w.key = k))
    \/ w.pc \in {"purge_row", "purge_object"} /\ <<f, k>> \in w.todo

Uses(f, k) ==
    \/ f \in DOMAIN rows /\ rows[f].key = k
    \/ \E v \in versions : v.file = f /\ v.key = k
    \/ \E p \in Procs : Holds(procs[p], f, k)

Knows(f) ==
    \/ \E k \in Keys : Uses(f, k)
    \/ \E p \in Procs : procs[p].pc = "put_version" /\ procs[p].file = f

\* Uuids that are in use have been drawn.
DrawnInv ==
    /\ \A f \in Ids : Knows(f) => f < nextId
    /\ \A f \in Ids, k \in Keys : Uses(f, k) => k[2] < nextId
    /\ \A k \in DOMAIN objs \cup urls : k[2] < nextId
    /\ \A p \in Procs :
         /\ procs[p].pc \in {"head", "confirm"} => procs[p].file < nextId
         /\ procs[p].pc = "purge_object" => procs[p].key[2] < nextId
         /\ procs[p].pc = "sweep" => \A k \in procs[p].todo : k[2] < nextId

\* No two files use one key; a purged file's key is not used any more; a file
\* whose row is not inserted yet is known to its own request alone.
KeyInv ==
    /\ \A f, g \in Ids, k \in Keys : Uses(f, k) /\ Uses(g, k) => f = g
    /\ \A v \in versions : v.file \in DOMAIN rows
    /\ \A p \in Procs : procs[p].pc = "purge_object" =>
         \A f \in DOMAIN rows : ~Uses(f, procs[p].key)
    /\ \A p \in Procs : Pending(p) =>
         /\ procs[p].file < nextId /\ procs[p].file \notin DOMAIN rows
         /\ ~Knows(procs[p].file)
         /\ \A f \in Ids : ~Uses(f, PendingKey(p))
         /\ \A q \in Procs \ {p} : Pending(q) => procs[q].file # procs[p].file
         /\ \A q \in Procs :
              procs[q].pc = "purge_object" => procs[q].key # PendingKey(p)

\* What a request does is among the operations of the workload, and moves are
\* not.
OpsInv ==
    /\ \A p \in Procs : procs[p].pc \notin MovePcs
    /\ "housekeeping" \notin load.ops => procs[Hk] = Idle
    /\ \A p \in Workers :
         procs[p].pc \notin {"known", "list", "sweep"}
         /\ ("restore_version" \notin load.ops /\ procs[p].pc = "snapshot"
               => procs[p].op = "create")

\* A checksum is that of the bytes put under the key beside it.
ShaInv ==
    /\ \A k \in DOMAIN objs : objs[k].data = k[2]
    /\ \A f \in DOMAIN rows : rows[f].sha \in {0, rows[f].key[2]}
    /\ \A v \in versions : v.sha \in {0, v.key[2]}
    /\ \A p \in Procs :
         /\ procs[p].pc = "commit" => procs[p].sha \in {0, procs[p].key[2]}
         /\ procs[p].pc = "snapshot" =>
              /\ procs[p].row.sha \in {0, procs[p].row.key[2]}
              /\ procs[p].op = "restore" => procs[p].sha \in {0, procs[p].key[2]}

\* What has a checksum needs its object; where the trash is not restored, a
\* presigned upload needs it too, once it is confirmed.
Solid(sha) == sha # 0 \/ "restore" \notin load.ops
Needs(row) == row.sha # 0 \/ (row.trash = "live" /\ "restore" \notin load.ops)

\* Versions keep their objects while nothing is swept.
HistoryInv ==
    "housekeeping" \notin load.ops =>
      /\ \A v \in versions : Solid(v.sha) => v.key \in DOMAIN objs
      /\ \A p \in Procs :
           procs[p].pc = "snapshot" /\ procs[p].file \in DOMAIN rows =>
             /\ Solid(procs[p].row.sha) => procs[p].row.key \in DOMAIN objs
             /\ procs[p].op = "restore" /\ Solid(procs[p].sha)
                  => procs[p].key \in DOMAIN objs

\* Rows have the objects they need, and requests what they will store in rows.
ObjectInv ==
    /\ \A f \in DOMAIN rows : Needs(rows[f]) => rows[f].key \in DOMAIN objs
    /\ \A p \in Procs : Pending(p) => PendingKey(p) \in DOMAIN objs
    /\ \A p \in Procs :
         procs[p].pc = "commit" /\ procs[p].file \in DOMAIN rows
           /\ Solid(procs[p].sha) => procs[p].key \in DOMAIN objs
    /\ "restore" \notin load.ops => \A p \in Procs :
         /\ procs[p].pc = "head" /\ procs[p].file \in DOMAIN rows =>
              rows[procs[p].file].key \in DOMAIN objs \cup {procs[p].key}
         /\ procs[p].pc = "confirm" /\ procs[p].file \in DOMAIN rows =>
              rows[procs[p].file].key \in DOMAIN objs

\* The sweep spares the keys of rows, and what requests have just put.
Young(k) == k \in DOMAIN objs => ~objs[k].old

SweepInv ==
    /\ \A p \in Procs : Pending(p) => Young(PendingKey(p))
    /\ "restore_version" \notin load.ops =>
         \A p \in Procs : procs[p].pc = "commit" => Young(procs[p].key)
    /\ procs[Hk].pc \in {"list", "sweep"} =>
         \A f \in DOMAIN rows : rows[f].key \in known \/ Young(rows[f].key)
    /\ procs[Hk].pc = "sweep" => \A k \in procs[Hk].todo :
         /\ \A f \in DOMAIN rows : rows[f].key # k
         /\ \A p \in Procs : Pending(p) => PendingKey(p) # k
         /\ \A p \in Procs : procs[p].pc = "commit" => procs[p].key # k

\* Files are not moved, and versions are not restored beside a sweep.
Calm ==
    /\ "move" \notin load.ops
    /\ ~({"restore_version", "housekeeping"} \subseteq load.ops)

SafeInv ==
    Calm => /\ OpsInv /\ DrawnInv /\ KeyInv /\ ShaInv
            /\ HistoryInv /\ ObjectInv /\ SweepInv

-----------------------------------------------------------------------------
(* Facts the steps share *)

\* Only the process that takes a step changes its locals.
LEMMA Moved ==
    ASSUME TypeInv, NEW p \in Procs, NEW x, Goto(p, x)
    PROVE  /\ DOMAIN procs' = Procs /\ procs'[p] = x
           /\ \A q \in Procs \ {p} : procs'[q] = procs[q]
BY DEF TypeInv, TypeOK, Goto

\* What a process holds at each point of its handler.
LEMMA Locals ==
    ASSUME TypeInv, NEW p \in Procs
    PROVE  /\ Pending(p) =>
                /\ procs[p].file \in Ids /\ procs[p].org \in Spaces
                /\ PendingKey(p) \in Keys
                /\ PendingKey(p)[2] = procs[p].file
           /\ procs[p].pc \in {"head", "confirm"} =>
                procs[p].file \in Ids /\ procs[p].key \in Keys
           /\ procs[p].pc \in {"purge_row", "purge_object"} =>
                procs[p].todo \subseteq Ids \X Keys
           /\ procs[p].pc = "purge_object" => procs[p].key \in Keys
           /\ procs[p].pc = "snapshot" =>
                /\ procs[p].file \in Ids /\ procs[p].row \in RowSet
                /\ procs[p].op \in {"create", "restore"}
                /\ procs[p].op = "restore" =>
                     procs[p].key \in Keys /\ procs[p].sha \in Shas
           /\ procs[p].pc = "put_version" =>
                procs[p].file \in Ids /\ procs[p].org \in Spaces
           /\ procs[p].pc = "commit" =>
                /\ procs[p].file \in Ids /\ procs[p].key \in Keys
                /\ procs[p].sha \in Shas
           /\ procs[p].pc = "sweep" => procs[p].todo \subseteq Keys
<1>0. procs[p] \in ProcState
  BY DEF TypeInv, TypeOK
<1>1. ASSUME Pending(p)
      PROVE  /\ procs[p].file \in Ids /\ procs[p].org \in Spaces
             /\ PendingKey(p) \in Keys /\ PendingKey(p)[2] = procs[p].file
  <2>1. procs[p] \in [pc : {"check", "insert"}, file : Ids, org : Spaces]
    BY <1>0, <1>1 DEF Pending, ProcState, Idle, MoveState, MovePcs
  <2> QED
    BY <2>1 DEF PendingKey, StorageKey, Keys
<1>2. procs[p].pc \in {"head", "confirm"} =>
        procs[p].file \in Ids /\ procs[p].key \in Keys
  BY <1>0 DEF ProcState, Idle, MoveState, MovePcs
<1>3. procs[p].pc \in {"purge_row", "purge_object"} =>
        procs[p].todo \subseteq Ids \X Keys
  BY <1>0 DEF ProcState, Idle, MoveState, MovePcs
<1>4. procs[p].pc = "purge_object" => procs[p].key \in Keys
  BY <1>0 DEF ProcState, Idle, MoveState, MovePcs
<1>5. procs[p].pc = "snapshot" =>
        /\ procs[p].file \in Ids /\ procs[p].row \in RowSet
        /\ procs[p].op \in {"create", "restore"}
        /\ procs[p].op = "restore" =>
             procs[p].key \in Keys /\ procs[p].sha \in Shas
  BY <1>0 DEF ProcState, Idle, MoveState, MovePcs
<1>6. procs[p].pc = "put_version" =>
        procs[p].file \in Ids /\ procs[p].org \in Spaces
  BY <1>0 DEF ProcState, Idle, MoveState, MovePcs
<1>7. procs[p].pc = "commit" =>
        /\ procs[p].file \in Ids /\ procs[p].key \in Keys
        /\ procs[p].sha \in Shas
  BY <1>0 DEF ProcState, Idle, MoveState, MovePcs
<1>8. procs[p].pc = "sweep" => procs[p].todo \subseteq Keys
  BY <1>0 DEF ProcState, Idle, MoveState, MovePcs
<1> QED
  BY <1>1, <1>2, <1>3, <1>4, <1>5, <1>6, <1>7, <1>8

\* No use of a key, and no file, appears from nowhere, but for the pair (g, j).
Grows(g, j) ==
    /\ \A f \in Ids, k \in Keys : Uses(f, k)' => Uses(f, k) \/ (f = g /\ k = j)
    /\ \A f \in Ids : Knows(f)' => Knows(f) \/ f = g

UsesKept ==
    /\ \A f \in Ids, k \in Keys : Uses(f, k)' => Uses(f, k)
    /\ \A f \in Ids : Knows(f)' => Knows(f)

\* It is so when each row, version and local that a step writes is copied from
\* one that was there, or is that pair.
LEMMA UsesGrow ==
    ASSUME TypeInv, NEW g, NEW j,
           \A f \in DOMAIN rows' :
             Uses(f, rows'[f].key) \/ (f = g /\ rows'[f].key = j),
           \A v \in versions' :
             Uses(v.file, v.key) \/ (v.file = g /\ v.key = j),
           \A q \in Procs :
             \/ procs'[q] = procs[q]
             \/ /\ \A f \in Ids, k \in Keys :
                     Holds(procs'[q], f, k) => Uses(f, k) \/ (f = g /\ k = j)
                /\ procs'[q].pc = "put_version" => Knows(procs'[q].file)
    PROVE  Grows(g, j)
<1>1. ASSUME NEW f \in Ids, NEW k \in Keys, Uses(f, k)'
      PROVE  Uses(f, k) \/ (f = g /\ k = j)
  <2>1. CASE f \in DOMAIN rows' /\ rows'[f].key = k
    BY <2>1
  <2>2. CASE \E v \in versions' : v.file = f /\ v.key = k
    BY <2>2
  <2>3. ASSUME NEW q \in Procs, Holds(procs'[q], f, k)
        PROVE  Uses(f, k) \/ (f = g /\ k = j)
    <3>1. CASE procs'[q] = procs[q]
      BY <2>3, <3>1 DEF Uses
    <3> QED
      BY <2>3, <3>1
  <2> QED
    BY <1>1, <2>1, <2>2, <2>3 DEF Uses
<1>2. ASSUME NEW f \in Ids, Knows(f)' PROVE Knows(f) \/ f = g
  <2>1. ASSUME NEW k \in Keys, Uses(f, k)' PROVE Knows(f) \/ f = g
    BY <1>1, <2>1 DEF Knows
  <2>2. ASSUME NEW q \in Procs, procs'[q].pc = "put_version", procs'[q].file = f
        PROVE  Knows(f) \/ f = g
    BY <2>2 DEF Knows
  <2> QED
    BY <1>2, <2>1, <2>2 DEF Knows
<1> QED
  BY <1>1, <1>2 DEF Grows

\* The same when all is copied.
LEMMA UsesShrink ==
    ASSUME TypeInv,
           \A f \in DOMAIN rows' : Uses(f, rows'[f].key),
           \A v \in versions' : Uses(v.file, v.key),
           \A q \in Procs :
             \/ procs'[q] = procs[q]
             \/ /\ \A f \in Ids, k \in Keys :
                     Holds(procs'[q], f, k) => Uses(f, k)
                /\ procs'[q].pc = "put_version" => Knows(procs'[q].file)
    PROVE  UsesKept
<1>1. Grows(0, 0)
  BY UsesGrow
<1>2. 0 \notin Ids
  BY DEF Ids
<1> QED
  BY <1>1, <1>2 DEF Grows, UsesKept

\* Rows and versions that stay, and the process that steps.
LEMMA UsesSame ==
    ASSUME TypeInv, NEW p \in Procs, NEW x, Goto(p, x),
           \A f \in DOMAIN rows' : f \in DOMAIN rows /\ rows'[f].key = rows[f].key,
           versions' \subseteq versions,
           \A f \in Ids, k \in Keys : Holds(x, f, k) => Uses(f, k),
           x.pc # "put_version"
    PROVE  UsesKept
<1>1. \A f \in DOMAIN rows' : Uses(f, rows'[f].key)
  BY DEF Uses
<1>2. \A v \in versions' : Uses(v.file, v.key)
  BY DEF Uses
<1> QED
  BY <1>1, <1>2, Moved, UsesShrink

\* Uploads that have no row yet, confirmations and the trash use no new key.
LEMMA UploadUses ==
    ASSUME TypeInv, NEW p \in Procs,
           \/ UploadPut(p) \/ CheckMagic(p) \/ UploadJsonPut(p)
           \/ ConfirmRead(p) \/ ConfirmHead(p) \/ ConfirmCommit(p)
           \/ Delete(p) \/ Restore(p)
    PROVE  UsesKept
<1> DEFINE w == procs[p]
<1>1. CASE UploadPut(p)
  BY <1>1, UsesSame DEF UploadPut, Holds
<1>2. CASE CheckMagic(p)
  <2>1. w \in [pc : {"check"}, file : Ids, org : Spaces]
    BY <1>2 DEF CheckMagic, TypeInv, TypeOK, ProcState, Idle, MoveState, MovePcs
  <2>2. \A f \in Ids, k \in Keys :
          ~Holds([w EXCEPT !.pc = "insert"], f, k) /\ ~Holds(Idle, f, k)
    BY <2>1 DEF Holds, Idle
  <2>3. [w EXCEPT !.pc = "insert"].pc = "insert" /\ Idle.pc = "idle"
    BY <2>1 DEF Idle
  <2> QED
    BY <1>2, <2>2, <2>3, UsesSame DEF CheckMagic, Finish
<1>3. CASE UploadJsonPut(p)
  BY <1>3, UsesSame DEF UploadJsonPut, Holds
<1>4. CASE ConfirmRead(p)
  BY <1>4, UsesSame DEF ConfirmRead, Holds
<1>5. CASE ConfirmHead(p)
  <2>1. w \in [pc : {"head", "confirm"}, file : Ids, key : Keys]
    BY <1>5 DEF ConfirmHead, TypeInv, TypeOK, ProcState, Idle, MoveState, MovePcs
  <2>2. \A f \in Ids, k \in Keys :
          ~Holds([w EXCEPT !.pc = "confirm"], f, k) /\ ~Holds(Idle, f, k)
    BY <2>1 DEF Holds, Idle
  <2>3. [w EXCEPT !.pc = "confirm"].pc = "confirm" /\ Idle.pc = "idle"
    BY <2>1 DEF Idle
  <2> QED
    BY <1>5, <2>2, <2>3, UsesSame DEF ConfirmHead, Finish
<1>6. CASE ConfirmCommit(p)
  <2>1. \A f \in DOMAIN rows' : f \in DOMAIN rows /\ rows'[f].key = rows[f].key
    BY <1>6 DEF ConfirmCommit, TypeInv, TypeOK, RowSet
  <2>2. Idle.pc = "idle" /\ \A f \in Ids, k \in Keys : ~Holds(Idle, f, k)
    BY DEF Idle, Holds
  <2> QED
    BY <1>6, <2>1, <2>2, UsesSame DEF ConfirmCommit, Finish
<1>7. CASE Delete(p) \/ Restore(p)
  <2>1. \A f \in DOMAIN rows' : f \in DOMAIN rows /\ rows'[f].key = rows[f].key
    BY <1>7 DEF Delete, Restore, TypeInv, TypeOK, RowSet
  <2>2. versions' = versions /\ procs' = procs
    BY <1>7 DEF Delete, Restore
  <2>3. \A f \in DOMAIN rows' : Uses(f, rows'[f].key)
    BY <2>1 DEF Uses
  <2>4. \A v \in versions' : Uses(v.file, v.key)
    BY <2>2 DEF Uses
  <2> QED
    BY <2>2, <2>3, <2>4, UsesShrink
<1> QED
  BY <1>1, <1>2, <1>3, <1>4, <1>5, <1>6, <1>7

\* A purge works on files and keys that it read in rows.
LEMMA PurgeUses ==
    ASSUME TypeInv, NEW p \in Procs,
           \/ Purge(p) \/ EmptyTrash(p) \/ BulkPurge(p) \/ PurgeRow(p)
           \/ PurgeObject(p) \/ PurgeDone(p) \/ (p = Hk /\ HkStart)
    PROVE  UsesKept
<1> DEFINE w == procs[p]
<1>1. CASE Purge(p) \/ EmptyTrash(p) \/ BulkPurge(p) \/ (p = Hk /\ HkStart)
  <2>1. PICK S : S \subseteq DOMAIN rows /\ Goto(p, PurgeOf(S))
    BY <1>1 DEF Purge, EmptyTrash, BulkPurge, HkStart, Trashed
  <2>2. \A f \in Ids, k \in Keys : Holds(PurgeOf(S), f, k) => Uses(f, k)
    BY <2>1 DEF Holds, PurgeOf, Uses
  <2>3. PurgeOf(S).pc # "put_version" /\ rows' = rows /\ versions' = versions
    BY <1>1 DEF PurgeOf, Purge, EmptyTrash, BulkPurge, HkStart
  <2> QED
    BY <2>1, <2>2, <2>3, UsesSame
<1>2. CASE PurgeRow(p)
  <2>0. w \in [pc : {"purge_row"}, todo : SUBSET (Ids \X Keys)]
    BY <1>2 DEF PurgeRow, TypeInv, TypeOK, ProcState, Idle, MoveState, MovePcs
  <2>1. PICK t \in w.todo :
         \/ /\ rows' = Without(rows, {t[1]})
            /\ versions' = versions \ VersionsOf(t[1])
            /\ Goto(p, [pc |-> "purge_object", todo |-> w.todo \ {t},
                        key |-> t[2]])
            /\ UNCHANGED faults
         \/ /\ Fail("db")
            /\ Goto(p, [w EXCEPT !.todo = @ \ {t}])
            /\ UNCHANGED <<rows, versions>>
    BY <1>2 DEF PurgeRow
  <2>2. /\ \A f \in DOMAIN rows' : f \in DOMAIN rows /\ rows'[f].key = rows[f].key
        /\ versions' \subseteq versions
    BY <2>1 DEF Without, Restrict
  <2>3. \A f \in Ids, k \in Keys :
          /\ Holds([pc |-> "purge_object", todo |-> w.todo \ {t}, key |-> t[2]],
                   f, k) => Holds(w, f, k)
          /\ Holds([w EXCEPT !.todo = @ \ {t}], f, k) => Holds(w, f, k)
    BY <2>0 DEF Holds
  <2>4. \A f \in Ids, k \in Keys : Holds(w, f, k) => Uses(f, k)
    BY DEF Uses
  <2>5. [w EXCEPT !.todo = @ \ {t}].pc # "put_version"
    BY <2>0
  <2> QED
    BY <2>1, <2>2, <2>3, <2>4, <2>5, UsesSame
<1>3. CASE PurgeObject(p)
  <2>1. \A f \in Ids, k \in Keys :
          Holds([pc |-> "purge_row", todo |-> w.todo], f, k) => Uses(f, k)
    BY <1>3 DEF PurgeObject, Holds, Uses
  <2> QED
    BY <1>3, <2>1, UsesSame DEF PurgeObject
<1>4. CASE PurgeDone(p)
  <2>1. \A f \in Ids, k \in Keys :
          ~Holds([pc |-> "known"], f, k) /\ ~Holds(Idle, f, k)
    BY DEF Holds, Idle
  <2>2. Idle.pc # "put_version"
    BY DEF Idle
  <2> QED
    BY <1>4, <2>1, <2>2, UsesSame DEF PurgeDone, Finish
<1> QED
  BY <1>1, <1>2, <1>3, <1>4

\* An edit works on keys that it read in the row and its versions.
LEMMA EditUses ==
    ASSUME TypeInv, NEW p \in Procs,
           \/ CreateVersionRead(p) \/ RestoreVersionRead(p)
           \/ SnapshotCurrent(p) \/ CommitVersion(p) \/ Abort(p)
    PROVE  UsesKept
<1> DEFINE w == procs[p]
<1>1. CASE CreateVersionRead(p)
  <2>1. PICK f \in DOMAIN rows :
          Goto(p, [pc |-> "snapshot", op |-> "create", file |-> f, row |-> rows[f]])
    BY <1>1 DEF CreateVersionRead
  <2>2. \A g \in Ids, k \in Keys :
          Holds([pc |-> "snapshot", op |-> "create", file |-> f, row |-> rows[f]],
                g, k) => Uses(g, k)
    BY <2>1 DEF Holds, Uses
  <2> QED
    BY <1>1, <2>1, <2>2, UsesSame DEF CreateVersionRead
<1>2. CASE RestoreVersionRead(p)
  <2>0. PICK f \in DOMAIN rows : \E v \in VersionsOf(f) :
          Goto(p, [pc |-> "snapshot", op |-> "restore", file |-> f,
                   row |-> rows[f], key |-> v.key, sha |-> v.sha])
    BY <1>2 DEF RestoreVersionRead
  <2>1. PICK v \in VersionsOf(f) :
          Goto(p, [pc |-> "snapshot", op |-> "restore", file |-> f,
                   row |-> rows[f], key |-> v.key, sha |-> v.sha])
    BY <2>0
  <2>2. \A g \in Ids, k \in Keys :
          Holds([pc |-> "snapshot", op |-> "restore", file |-> f,
                   row |-> rows[f], key |-> v.key, sha |-> v.sha],
                g, k) => Uses(g, k)
    BY <2>0, <2>1 DEF Holds, Uses, VersionsOf
  <2> QED
    BY <1>2, <2>1, <2>2, UsesSame DEF RestoreVersionRead
<1>3. CASE SnapshotCurrent(p)
  <2>1. PICK v : v = [file |-> w.file, no |-> Cardinality(VersionsOf(w.file)) + 1,
                      key |-> w.row.key, sha |-> w.row.sha]
    OBVIOUS
  <2>2. PICK x : x = IF w.op = "create"
               THEN [pc |-> "put_version", file |-> w.file, org |-> w.row.org,
                     read |-> w.row.sha]
               ELSE [pc |-> "commit", file |-> w.file, key |-> w.key,
                     sha |-> w.sha, read |-> w.row.sha]
    OBVIOUS
  <2>3. /\ w.pc = "snapshot" /\ versions' = versions \cup {v} /\ rows' = rows
        /\ Goto(p, x)
    BY <1>3, <2>1, <2>2 DEF SnapshotCurrent
  <2>4. w.file \in Ids /\ w.row.key \in Keys /\ w.op \in {"create", "restore"}
    BY <2>3, Locals DEF RowSet
  <2>5. Uses(w.file, w.row.key)
    BY <2>3 DEF Uses, Holds
  <2>6. \A f \in Ids, k \in Keys : Holds(x, f, k) => Uses(f, k)
    BY <2>2, <2>3, <2>4 DEF Holds, Uses
  <2>7. x.pc = "put_version" => x.file = w.file /\ Knows(w.file)
    BY <2>2, <2>4, <2>5 DEF Knows
  <2>8. \A f \in DOMAIN rows' : Uses(f, rows'[f].key)
    BY <2>3 DEF Uses
  <2>9. \A u \in versions' : Uses(u.file, u.key)
    BY <2>1, <2>3, <2>5 DEF Uses
  <2> QED
    BY <2>3, <2>6, <2>7, <2>8, <2>9, Moved, UsesShrink
<1>4. CASE CommitVersion(p)
  <2>1. w.pc = "commit" /\ w.file \in Ids /\ w.key \in Keys
    BY <1>4, Locals DEF CommitVersion
  <2>2. Uses(w.file, w.key)
    BY <2>1 DEF Uses, Holds
  <2>3. \A f \in DOMAIN rows' : f \in DOMAIN rows /\ rows'[f].key =
          IF f = w.file THEN w.key ELSE rows[f].key
    BY <1>4 DEF CommitVersion, TypeInv, TypeOK, RowSet
  <2>4. \A f \in DOMAIN rows' : Uses(f, rows'[f].key)
    BY <2>2, <2>3 DEF Uses
  <2>5. Goto(p, Idle) /\ versions' = versions
    BY <1>4 DEF CommitVersion, Finish
  <2>6. \A v \in versions' : Uses(v.file, v.key)
    BY <2>5 DEF Uses
  <2>7. Idle.pc = "idle" /\ \A f \in Ids, k \in Keys : ~Holds(Idle, f, k)
    BY DEF Idle, Holds
  <2> QED
    BY <2>4, <2>5, <2>6, <2>7, Moved, UsesShrink
<1>5. CASE Abort(p)
  <2>1. Idle.pc = "idle" /\ \A f \in Ids, k \in Keys : ~Holds(Idle, f, k)
    BY DEF Idle, Holds
  <2> QED
    BY <1>5, <2>1, UsesSame DEF Abort, Finish
<1> QED
  BY <1>1, <1>2, <1>3, <1>4, <1>5

\* The sweep, time and clients with presigned URLs use no new key.
LEMMA OtherUses ==
    ASSUME TypeInv,
           \/ HkKnown \/ HkList \/ HkSweep \/ HkDone \/ HkFail
           \/ ClientPut \/ HourPasses \/ MonthPasses
    PROVE  UsesKept
<1>0. Hk \in Procs
  BY DEF Procs
<1>1. CASE HkKnown \/ HkDone \/ HkFail
  <2>1. /\ Idle.pc = "idle" /\ \A f \in Ids, k \in Keys : ~Holds(Idle, f, k)
        /\ \A f \in Ids, k \in Keys : ~Holds([pc |-> "list"], f, k)
    BY DEF Idle, Holds
  <2> QED
    BY <1>0, <1>1, <2>1, UsesSame DEF HkKnown, HkDone, HkFail, Finish
<1>2. CASE HkList
  <2>1. PICK L : Goto(Hk, [pc |-> "sweep", todo |-> Orphans(L)])
    BY <1>2 DEF HkList
  <2>2. \A f \in Ids, k \in Keys :
          ~Holds([pc |-> "sweep", todo |-> Orphans(L)], f, k)
    BY DEF Holds
  <2> QED
    BY <1>0, <1>2, <2>1, <2>2, UsesSame DEF HkList
<1>3. CASE HkSweep
  <2>1. PICK k : Goto(Hk, [procs[Hk] EXCEPT !.todo = @ \ {k}])
    BY <1>3 DEF HkSweep
  <2>2. procs[Hk] \in [pc : {"sweep"}, todo : SUBSET Keys]
    BY <1>0, <1>3 DEF HkSweep, TypeInv, TypeOK, ProcState, Idle, MoveState, MovePcs
  <2>3. /\ [procs[Hk] EXCEPT !.todo = @ \ {k}].pc = "sweep"
        /\ \A f \in Ids, j \in Keys :
             ~Holds([procs[Hk] EXCEPT !.todo = @ \ {k}], f, j)
    BY <2>2 DEF Holds
  <2> QED
    BY <1>0, <1>3, <2>1, <2>3, UsesSame DEF HkSweep
<1>4. CASE ClientPut \/ HourPasses \/ MonthPasses
  <2>1. /\ \A f \in DOMAIN rows' : f \in DOMAIN rows /\ rows'[f].key = rows[f].key
        /\ versions' = versions /\ procs' = procs
    BY <1>4 DEF ClientPut, HourPasses, MonthPasses, TypeInv, TypeOK, RowSet
  <2>2. \A f \in DOMAIN rows' : Uses(f, rows'[f].key)
    BY <2>1 DEF Uses
  <2>3. \A v \in versions' : Uses(v.file, v.key)
    BY <2>1 DEF Uses
  <2> QED
    BY <2>1, <2>2, <2>3, UsesShrink
<1> QED
  BY <1>1, <1>2, <1>3, <1>4

\* A row inserted, a presigned row and the object of a new version each bring
\* one use of one key.
LEMMA NewUses ==
    ASSUME TypeInv, NEW p \in Workers
    PROVE  /\ InsertRow(p) => Grows(procs[p].file, PendingKey(p))
           /\ PresignUpload(p) => Grows(nextId, StorageKey(Personal, nextId))
           /\ PutVersion(p) =>
                Grows(procs[p].file, StorageKey(procs[p].org, nextId))
<1>0. p \in Procs
  BY DEF Procs
<1>1. ASSUME InsertRow(p) PROVE Grows(procs[p].file, PendingKey(p))
  <2>1. /\ versions' = versions /\ Goto(p, Idle)
        /\ \A f \in DOMAIN rows' :
             \/ f \in DOMAIN rows /\ rows'[f].key = rows[f].key
             \/ f = procs[p].file /\ rows'[f].key = PendingKey(p)
    BY <1>1 DEF InsertRow, Finish, With, PendingKey
  <2>2. Idle.pc = "idle" /\ \A f \in Ids, k \in Keys : ~Holds(Idle, f, k)
    BY DEF Idle, Holds
  <2>3. \A f \in DOMAIN rows' : Uses(f, rows'[f].key)
                      \/ (f = procs[p].file /\ rows'[f].key = PendingKey(p))
    BY <2>1 DEF Uses
  <2>4. \A v \in versions' : Uses(v.file, v.key)
    BY <2>1 DEF Uses
  <2> QED
    BY <1>0, <2>1, <2>2, <2>3, <2>4, Moved, UsesGrow
<1>2. ASSUME PresignUpload(p) PROVE Grows(nextId, StorageKey(Personal, nextId))
  <2>1. /\ versions' = versions /\ procs' = procs
        /\ \A f \in DOMAIN rows' :
             \/ f \in DOMAIN rows /\ rows'[f].key = rows[f].key
             \/ f = nextId /\ rows'[f].key = StorageKey(Personal, nextId)
    BY <1>2 DEF PresignUpload, With
  <2>2. \A f \in DOMAIN rows' : Uses(f, rows'[f].key)
              \/ (f = nextId /\ rows'[f].key = StorageKey(Personal, nextId))
    BY <2>1 DEF Uses
  <2>3. \A v \in versions' : Uses(v.file, v.key)
    BY <2>1 DEF Uses
  <2> QED
    BY <2>1, <2>2, <2>3, UsesGrow
<1>3. ASSUME PutVersion(p)
      PROVE  Grows(procs[p].file, StorageKey(procs[p].org, nextId))
  <2> DEFINE x == [pc |-> "commit", file |-> procs[p].file,
                   key |-> StorageKey(procs[p].org, nextId), sha |-> nextId,
                   read |-> procs[p].read]
  <2>1. rows' = rows /\ versions' = versions /\ Goto(p, x)
    BY <1>3 DEF PutVersion
  <2>2. \A f \in Ids, k \in Keys : Holds(x, f, k) =>
          f = procs[p].file /\ k = StorageKey(procs[p].org, nextId)
    BY DEF Holds
  <2>3. \A f \in DOMAIN rows' : Uses(f, rows'[f].key)
    BY <2>1 DEF Uses
  <2>4. \A v \in versions' : Uses(v.file, v.key)
    BY <2>1 DEF Uses
  <2>5. procs'[p] = x /\ \A q \in Procs \ {p} : procs'[q] = procs[q]
    BY <1>0, <2>1, Moved
  <2>6. x.pc # "put_version"
    OBVIOUS
  <2> HIDE DEF x
  <2> QED
    BY <2>2, <2>3, <2>4, <2>5, <2>6, UsesGrow
<1> QED
  BY <1>1, <1>2, <1>3

-----------------------------------------------------------------------------
(* The steps of a calm workload, by what they are about *)

Uploading(p) ==
    \/ UploadPut(p) \/ CheckMagic(p) \/ UploadJsonPut(p) \/ InsertRow(p)
    \/ PresignUpload(p) \/ ConfirmRead(p) \/ ConfirmHead(p) \/ ConfirmCommit(p)

Trashing(p) ==
    Delete(p) \/ Restore(p) \/ Purge(p) \/ EmptyTrash(p) \/ BulkPurge(p)

Purging(p) == PurgeRow(p) \/ PurgeObject(p) \/ PurgeDone(p)

Editing(p) ==
    \/ CreateVersionRead(p) \/ RestoreVersionRead(p) \/ SnapshotCurrent(p)
    \/ PutVersion(p) \/ CommitVersion(p)

Sweeping == HkStart \/ HkKnown \/ HkList \/ HkSweep \/ HkDone \/ HkFail

Passing == ClientPut \/ HourPasses \/ MonthPasses

CalmNext ==
    \/ \E p \in Workers : Uploading(p) \/ Trashing(p) \/ Editing(p) \/ Abort(p)
    \/ \E p \in Procs : Purging(p)
    \/ Sweeping
    \/ Passing

\* Where no file is moved these are all the steps there are.
LEMMA CalmSteps ==
    ASSUME TypeInv, Calm, OpsInv, Next
    PROVE  CalmNext
<1>1. ASSUME NEW p \in Workers
      PROVE  /\ ~MoveRead(p) /\ ~MoveGet(p) /\ ~MovePut(p) /\ ~MoveCommit(p)
             /\ ~MoveDropOld(p) /\ ~MoveDropNew(p)
  <2>1. procs[p].pc \notin MovePcs /\ "move" \notin load.ops
    BY DEF OpsInv, Calm, Procs
  <2> QED
    BY <2>1 DEF MoveRead, Start, MoveGet, MovePut, MoveCommit, MoveDropOld,
                MoveDropNew, MovePcs
<1>2. ASSUME NEW p \in Workers, Begin(p)
      PROVE  Uploading(p) \/ Trashing(p) \/ Editing(p)
  BY <1>1, <1>2 DEF Begin, Uploading, Trashing, Editing
<1>3. ASSUME NEW p \in Workers, Continue(p)
      PROVE  Uploading(p) \/ Editing(p) \/ Purging(p)
  BY <1>1, <1>3 DEF Continue, Uploading, Editing, Purging
<1>4. ASSUME HkStep \/ HkFail PROVE Sweeping \/ Purging(Hk)
  BY <1>4 DEF HkStep, Sweeping, Purging
<1> QED
  BY <1>2, <1>3, <1>4 DEF Next, CalmNext, Passing, Procs

\* The operations of the workload are fixed.
LEMMA OpsFixed ==
    ASSUME TypeInv, Next
    PROVE  load'.ops = load.ops
<1>1. ASSUME NEW p \in Workers, Begin(p) PROVE load'.ops = load.ops
  <2>1. \E op : Start(p, op)
    BY <1>1 DEF Begin, UploadPut, UploadJsonPut, PresignUpload, ConfirmRead,
                Delete, Restore, Purge, EmptyTrash, BulkPurge,
                CreateVersionRead, RestoreVersionRead, MoveRead
  <2> QED
    BY <2>1, Started
<1>2. ASSUME NEW p \in Procs, Continue(p) PROVE load'.ops = load.ops
  BY <1>2 DEF Continue, CheckMagic, InsertRow, ConfirmHead, ConfirmCommit,
              PurgeRow, PurgeObject, PurgeDone, SnapshotCurrent, PutVersion,
              CommitVersion, MoveGet, MovePut, MoveCommit, MoveDropOld,
              MoveDropNew
<1>3. ASSUME HkStep \/ HkFail \/ ClientPut \/ HourPasses \/ MonthPasses
             \/ \E p \in Workers : Abort(p)
      PROVE load'.ops = load.ops
  BY <1>3 DEF HkStep, HkFail, ClientPut, HourPasses, MonthPasses, Abort,
              HkStart, PurgeRow, PurgeObject, PurgeDone, HkKnown, HkList,
              HkSweep, HkDone
<1> QED
  BY <1>1, <1>2, <1>3 DEF Next, Procs

\* Where each step takes its process.
LEMMA Pcs ==
    ASSUME TypeInv, NEW p \in Procs
    PROVE  /\ Uploading(p) => procs' = procs \/ procs'[p].pc \in
                {"check", "insert", "head", "confirm", "idle"}
           /\ Trashing(p) => procs' = procs \/ procs'[p].pc = "purge_row"
           /\ Purging(p) =>
                /\ procs[p].pc \in {"purge_row", "purge_object"}
                /\ \/ procs'[p].pc \in {"purge_row", "purge_object", "idle"}
                   \/ p = Hk /\ procs'[p].pc = "known"
           /\ Editing(p) => procs'[p].pc \in
                {"snapshot", "put_version", "commit", "idle"}
           /\ Abort(p) => procs'[p] = Idle
           /\ Uploading(p) \/ Trashing(p) \/ Purging(p) \/ Editing(p) \/ Abort(p)
                => \A q \in Procs \ {p} : procs'[q] = procs[q]
<1> DEFINE w == procs[p]
<1>0. DOMAIN procs = Procs /\ w \in ProcState /\ Idle.pc = "idle"
  BY DEF TypeInv, TypeOK, Idle
<1>1. Uploading(p) => procs' = procs \/ procs'[p].pc \in
                {"check", "insert", "head", "confirm", "idle"}
  BY <1>0 DEF Uploading, UploadPut, CheckMagic, UploadJsonPut, InsertRow,
     PresignUpload, ConfirmRead, ConfirmHead, ConfirmCommit, Finish, Goto,
     ProcState, MoveState, MovePcs
<1>2. Trashing(p) => procs' = procs \/ procs'[p].pc = "purge_row"
  BY <1>0 DEF Trashing, Delete, Restore, Purge, EmptyTrash, BulkPurge, Goto,
     PurgeOf
<1>3. ASSUME Purging(p)
      PROVE  /\ procs[p].pc \in {"purge_row", "purge_object"}
             /\ \/ procs'[p].pc \in {"purge_row", "purge_object", "idle"}
                \/ p = Hk /\ procs'[p].pc = "known"
  <2>1. CASE PurgeRow(p)
    <3>1. w \in [pc : {"purge_row"}, todo : SUBSET (Ids \X Keys)]
      BY <1>0, <2>1 DEF PurgeRow, ProcState, Idle, MoveState, MovePcs
    <3>2. \E t : \/ procs'[p] = [pc |-> "purge_object", todo |-> w.todo \ {t},
                                 key |-> t[2]]
                 \/ procs'[p] = [w EXCEPT !.todo = @ \ {t}]
      BY <1>0, <2>1 DEF PurgeRow, Goto
    <3> QED
      BY <3>1, <3>2
  <2>2. CASE PurgeObject(p) \/ PurgeDone(p)
    BY <1>0, <2>2 DEF PurgeObject, PurgeDone, Finish, Goto
  <2> QED
    BY <1>3, <2>1, <2>2 DEF Purging
<1>4. Editing(p) => procs'[p].pc \in
                {"snapshot", "put_version", "commit", "idle"}
  BY <1>0 DEF Editing, CreateVersionRead, RestoreVersionRead, SnapshotCurrent,
     PutVersion, CommitVersion, Finish, Goto
<1>5. Abort(p) => procs'[p] = Idle
  BY <1>0 DEF Abort, Finish, Goto
<1>6. Uploading(p) \/ Trashing(p) \/ Purging(p) \/ Editing(p) \/ Abort(p)
        => procs' = procs \/ \E x : Goto(p, x)
  BY DEF Uploading, UploadPut, CheckMagic, UploadJsonPut, InsertRow,
     PresignUpload, ConfirmRead, ConfirmHead, ConfirmCommit, Trashing, Delete,
     Restore, Purge, EmptyTrash, BulkPurge, Purging, PurgeRow, PurgeObject,
     PurgeDone, Editing, CreateVersionRead, RestoreVersionRead,
     SnapshotCurrent, PutVersion, CommitVersion, Abort, Finish
<1> QED
  BY <1>1, <1>2, <1>3, <1>4, <1>5, <1>6, Moved

\* Moves stay away, and requests stay within the operations of the workload.
LEMMA OpsStep ==
    ASSUME TypeInv, Calm, OpsInv, CalmNext, load'.ops = load.ops
    PROVE  OpsInv'
<1>0. Hk \in Procs /\ Hk \notin Workers /\ Idle.pc = "idle"
  BY FileStoreAssumption DEF Procs, Hk, Idle
<1>1. ASSUME NEW p \in Workers,
             Uploading(p) \/ Trashing(p) \/ Editing(p) \/ Abort(p)
      PROVE  OpsInv'
  <2>1. p \in Procs /\ p # Hk /\ procs'[Hk] = procs[Hk]
    BY <1>0, <1>1, Pcs DEF Procs
  <2>2. procs'[p].pc \notin MovePcs \cup {"known", "list", "sweep"}
    BY <1>0, <1>1, <2>1, Pcs DEF MovePcs, OpsInv
  <2>3. "restore_version" \notin load.ops /\ procs'[p].pc = "snapshot"
          => procs'[p].op = "create"
    <3>1. CASE Editing(p)
      <4>1. ~RestoreVersionRead(p) \/ "restore_version" \in load.ops
        BY DEF RestoreVersionRead, Start
      <4>2. DOMAIN procs = Procs
        BY DEF TypeInv, TypeOK
      <4> QED
        BY <1>0, <2>1, <3>1, <4>1, <4>2 DEF Editing, CreateVersionRead,
           SnapshotCurrent, PutVersion, CommitVersion, Finish, Goto
    <3>2. CASE Uploading(p) \/ Trashing(p) \/ Abort(p)
      BY <1>0, <1>1, <2>1, <3>2, Pcs DEF OpsInv
    <3> QED
      BY <1>1, <3>1, <3>2
  <2>4. \A q \in Procs \ {p} : procs'[q] = procs[q]
    BY <1>1, <2>1, Pcs
  <2> QED
    BY <2>1, <2>2, <2>3, <2>4 DEF OpsInv, Procs
<1>2. ASSUME NEW p \in Procs, Purging(p) PROVE OpsInv'
  <2>1. procs'[p].pc \notin MovePcs \cup {"snapshot", "list", "sweep"}
    BY <1>2, Pcs DEF MovePcs
  <2>2. procs'[p].pc = "known" => p = Hk
    BY <1>2, Pcs
  <2>3. \A q \in Procs \ {p} : procs'[q] = procs[q]
    BY <1>2, Pcs
  <2>4. "housekeeping" \notin load.ops => p # Hk
    BY <1>0, <1>2, Pcs DEF OpsInv
  <2> QED
    BY <1>0, <2>1, <2>2, <2>3, <2>4 DEF OpsInv, Procs
<1>3. CASE Sweeping
  <2>1. "housekeeping" \in load.ops
    BY <1>0, <1>3 DEF OpsInv, Sweeping, HkStart, HkKnown, HkList, HkSweep,
       HkDone, HkFail
  <2>2. \A q \in Procs \ {Hk} : procs'[q] = procs[q]
    BY <1>0, <1>3, Moved DEF Sweeping, HkStart, HkKnown, HkList, HkSweep,
       HkDone, HkFail, Finish
  <2>3. procs'[Hk].pc \notin MovePcs
    <3>1. CASE HkSweep
      <4>1. procs[Hk] \in [pc : {"sweep"}, todo : SUBSET Keys]
        BY <1>0, <3>1 DEF HkSweep, TypeInv, TypeOK, ProcState, Idle, MoveState,
           MovePcs
      <4>2. \E k : procs'[Hk] = [procs[Hk] EXCEPT !.todo = @ \ {k}]
        BY <1>0, <3>1, Moved DEF HkSweep
      <4> QED
        BY <4>1, <4>2 DEF MovePcs
    <3>2. CASE HkStart \/ HkKnown \/ HkList \/ HkDone \/ HkFail
      <4>1. procs'[Hk].pc \in {"purge_row", "list", "sweep", "idle"}
        BY <1>0, <3>2 DEF HkStart, HkKnown, HkList, HkDone, HkFail, Finish,
           Goto, PurgeOf, TypeInv, TypeOK
      <4> QED
        BY <4>1 DEF MovePcs
    <3> QED
      BY <1>3, <3>1, <3>2 DEF Sweeping
  <2> QED
    BY <1>0, <2>1, <2>2, <2>3 DEF OpsInv, Procs
<1>4. CASE Passing
  BY <1>4 DEF Passing, ClientPut, HourPasses, MonthPasses, OpsInv
<1> QED
  BY <1>1, <1>2, <1>3, <1>4 DEF CalmNext

\* What a step that draws no uuid and inserts no row does to keys and files.
LEMMA CalmUses ==
    ASSUME TypeInv, CalmNext
    PROVE  \/ UsesKept
           \/ \E p \in Workers : InsertRow(p) \/ PresignUpload(p) \/ PutVersion(p)
<1>1. ASSUME NEW p \in Workers,
             Uploading(p) \/ Trashing(p) \/ Editing(p) \/ Abort(p),
             ~InsertRow(p), ~PresignUpload(p), ~PutVersion(p)
      PROVE  UsesKept
  BY <1>1, UploadUses, PurgeUses, EditUses
  DEF Procs, Uploading, Trashing, Editing
<1>2. ASSUME NEW p \in Procs, Purging(p) PROVE UsesKept
  BY <1>2, PurgeUses DEF Purging
<1>3. CASE Sweeping \/ Passing
  BY <1>3, PurgeUses, OtherUses DEF Sweeping, Passing, Procs
<1> QED
  BY <1>1, <1>2, <1>3 DEF CalmNext

-----------------------------------------------------------------------------
(* Keys *)

\* Objects and URLs are put under keys that are in use by the store already,
\* or under a uuid drawn in the step.
LEMMA Draws ==
    ASSUME TypeInv, CalmNext
    PROVE  /\ nextId' \in Nat /\ nextId' \in {nextId, nextId + 1}
           /\ \A k \in DOMAIN objs' \cup urls' :
                \/ k \in DOMAIN objs \cup urls
                \/ k[2] = nextId /\ nextId' = nextId + 1
<1> DEFINE Drawn ==
      /\ nextId' \in {nextId, nextId + 1}
      /\ \A k \in DOMAIN objs' \cup urls' :
           \/ k \in DOMAIN objs \cup urls
           \/ k[2] = nextId /\ nextId' = nextId + 1
<1>0. nextId \in Nat
  BY DEF TypeInv, TypeOK
<1>2. ASSUME NEW S, TryDelete(S) PROVE DOMAIN objs' \subseteq DOMAIN objs
  BY <1>2, DeleteTypes
<1>3. ASSUME NEW p \in Workers, Uploading(p) PROVE Drawn
  <2>1. CASE UploadPut(p) \/ UploadJsonPut(p)
    <3>1. PICK o : objs' = Put(<<o, nextId>>, nextId)
      BY <2>1 DEF UploadPut, UploadJsonPut, StorageKey
    <3>2. nextId' = nextId + 1 /\ urls' = urls
      BY <2>1 DEF UploadPut, UploadJsonPut
    <3>3. DOMAIN objs' = DOMAIN objs \cup {<<o, nextId>>}
      BY <3>1 DEF Put, With
    <3> QED
      BY <3>2, <3>3
  <2>2. CASE CheckMagic(p)
    BY <1>2, <2>2 DEF CheckMagic
  <2>3. CASE PresignUpload(p)
    BY <2>3 DEF PresignUpload, StorageKey
  <2>4. CASE InsertRow(p) \/ ConfirmRead(p) \/ ConfirmHead(p) \/ ConfirmCommit(p)
    BY <2>4 DEF InsertRow, ConfirmRead, ConfirmHead, ConfirmCommit
  <2> QED
    BY <1>3, <2>1, <2>2, <2>3, <2>4 DEF Uploading
<1>4. ASSUME NEW p \in Workers, Trashing(p) \/ Abort(p) PROVE Drawn
  BY <1>4 DEF Trashing, Delete, Restore, Purge, EmptyTrash, BulkPurge, Abort
<1>5. ASSUME NEW p \in Procs, Purging(p) PROVE Drawn
  BY <1>2, <1>5 DEF Purging, PurgeRow, PurgeObject, PurgeDone
<1>6. ASSUME NEW p \in Workers, Editing(p) PROVE Drawn
  <2>1. CASE PutVersion(p)
    <3>1. PICK o : objs' = Put(<<o, nextId>>, nextId)
      BY <2>1 DEF PutVersion, StorageKey
    <3>2. nextId' = nextId + 1 /\ urls' = urls
      BY <2>1 DEF PutVersion
    <3>3. DOMAIN objs' = DOMAIN objs \cup {<<o, nextId>>}
      BY <3>1 DEF Put, With
    <3> QED
      BY <3>2, <3>3
  <2>2. CASE ~PutVersion(p)
    BY <1>6, <2>2 DEF Editing, CreateVersionRead, RestoreVersionRead,
       SnapshotCurrent, CommitVersion
  <2> QED
    BY <2>1, <2>2
<1>7. CASE Sweeping
  BY <1>0, <1>2, <1>7 DEF Sweeping, HkStart, HkKnown, HkList, HkSweep, HkDone, HkFail
<1>8. CASE Passing
  <2>1. CASE ClientPut
    BY <1>0, <2>1 DEF ClientPut, Put, With
  <2>2. CASE HourPasses \/ MonthPasses
    BY <1>0, <2>2 DEF HourPasses, MonthPasses, Aged
  <2> QED
    BY <1>8, <2>1, <2>2 DEF Passing
<1>9. Drawn
  BY <1>3, <1>4, <1>5, <1>6, <1>7, <1>8 DEF CalmNext
<1> QED
  BY <1>0, <1>9

\* Where a process that confirms, deletes an object or sweeps has its file and
\* its keys from.
LEMMA Sources ==
    ASSUME TypeInv, CalmNext, NEW q \in Procs
    PROVE  /\ procs'[q].pc \in {"head", "confirm"} =>
                \/ procs[q].pc \in {"head", "confirm"}
                     /\ procs'[q].file = procs[q].file
                \/ procs'[q].file \in DOMAIN rows
           /\ procs'[q].pc = "purge_object" =>
                \/ procs'[q] = procs[q]
                \/ /\ procs[q].pc = "purge_row"
                   /\ \E f \in Ids : /\ <<f, procs'[q].key>> \in procs[q].todo
                                     /\ rows' = Without(rows, {f})
                                     /\ versions' = versions \ VersionsOf(f)
           /\ procs'[q].pc = "sweep" =>
                \/ procs[q].pc = "sweep" /\ procs'[q].todo \subseteq procs[q].todo
                \/ procs'[q].todo \subseteq DOMAIN objs
<1> DEFINE From(x) ==
      /\ x.pc \in {"head", "confirm"} =>
                \/ procs[q].pc \in {"head", "confirm"}
                     /\ x.file = procs[q].file
                \/ x.file \in DOMAIN rows
      /\ x.pc = "purge_object" =>
                \/ x = procs[q]
                \/ /\ procs[q].pc = "purge_row"
                   /\ \E f \in Ids : /\ <<f, x.key>> \in procs[q].todo
                                     /\ rows' = Without(rows, {f})
                                     /\ versions' = versions \ VersionsOf(f)
      /\ x.pc = "sweep" =>
                \/ procs[q].pc = "sweep" /\ x.todo \subseteq procs[q].todo
                \/ x.todo \subseteq DOMAIN objs
<1>0. From(procs[q])
  OBVIOUS
<1>1. ASSUME NEW p \in Procs, procs'[p].pc \notin
                {"head", "confirm", "purge_object", "sweep"},
             \A r \in Procs \ {p} : procs'[r] = procs[r]
      PROVE  From(procs'[q])
  BY <1>0, <1>1
<1>2. ASSUME NEW p \in Workers,
             Uploading(p) \/ Trashing(p) \/ Editing(p) \/ Abort(p)
      PROVE  From(procs'[q])
  <2>1. p \in Procs
    BY DEF Procs
  <2>2. CASE ConfirmRead(p)
    BY <2>1, <1>0, <2>2, Moved DEF ConfirmRead
  <2>3. CASE ConfirmHead(p)
    <3>1. procs[p] \in [pc : {"head"}, file : Ids, key : Keys]
      BY <2>1, <2>3 DEF ConfirmHead, TypeInv, TypeOK, ProcState, Idle,
         MoveState, MovePcs
    <3>2. \/ procs'[p] = [procs[p] EXCEPT !.pc = "confirm"]
          \/ procs'[p].pc = "idle"
      BY <2>1, <2>3, Moved DEF ConfirmHead, Finish, Idle
    <3>3. \/ procs'[p].pc = "idle"
          \/ procs'[p].pc = "confirm" /\ procs'[p].file = procs[p].file
      <4>1. /\ [procs[p] EXCEPT !.pc = "confirm"].pc = "confirm"
            /\ [procs[p] EXCEPT !.pc = "confirm"].file = procs[p].file
        BY <3>1
      <4> QED
        BY <3>2, <4>1
    <3>4. \A r \in Procs \ {p} : procs'[r] = procs[r]
      BY <1>2, <2>1, Pcs
    <3> QED
      BY <1>0, <2>3, <3>3, <3>4 DEF ConfirmHead
  <2>4. CASE ~ConfirmRead(p) /\ ~ConfirmHead(p)
    <3>1. procs' = procs \/ procs'[p].pc \notin
                              {"head", "confirm", "purge_object", "sweep"}
      <4>1. CASE Uploading(p)
        <5>1. DOMAIN procs = Procs
          BY DEF TypeInv, TypeOK
        <5>2. CASE CheckMagic(p)
          <6>1. procs[p] \in [pc : {"check"}, file : Ids, org : Spaces]
            BY <2>1, <5>2 DEF CheckMagic, TypeInv, TypeOK, ProcState, Idle,
               MoveState, MovePcs
          <6> QED
            BY <2>1, <5>1, <5>2, <6>1 DEF CheckMagic, Finish, Goto, Idle
        <5>3. CASE ~CheckMagic(p)
          BY <2>1, <2>4, <4>1, <5>1, <5>3 DEF Uploading, UploadPut,
             UploadJsonPut, InsertRow, PresignUpload, ConfirmCommit, Finish,
             Goto, Idle
        <5> QED
          BY <5>2, <5>3
      <4>2. CASE Trashing(p) \/ Editing(p) \/ Abort(p)
        BY <2>1, <4>2, Pcs DEF Idle
      <4> QED
        BY <1>2, <4>1, <4>2
    <3>2. \A r \in Procs \ {p} : procs'[r] = procs[r]
      BY <1>2, <2>1, Pcs
    <3> QED
      BY <1>0, <1>1, <2>1, <3>1, <3>2
  <2> QED
    BY <2>2, <2>3, <2>4
<1>3. ASSUME NEW p \in Procs, Purging(p) PROVE From(procs'[q])
  <2>1. CASE PurgeRow(p)
    <3>1. procs[p] \in [pc : {"purge_row"}, todo : SUBSET (Ids \X Keys)]
      BY <2>1 DEF PurgeRow, TypeInv, TypeOK, ProcState, Idle, MoveState, MovePcs
    <3>2. PICK t \in procs[p].todo :
         \/ /\ rows' = Without(rows, {t[1]})
            /\ versions' = versions \ VersionsOf(t[1])
            /\ Goto(p, [pc |-> "purge_object", todo |-> procs[p].todo \ {t},
                        key |-> t[2]])
         \/ Goto(p, [procs[p] EXCEPT !.todo = @ \ {t}])
      BY <2>1 DEF PurgeRow
    <3>3. t[1] \in Ids /\ <<t[1], t[2]>> \in procs[p].todo
      BY <3>1, <3>2
    <3>4. CASE Goto(p, [procs[p] EXCEPT !.todo = @ \ {t}])
      <4>1. procs'[p].pc = "purge_row"
        BY <3>1, <3>4, Moved
      <4> QED
        BY <1>1, <3>4, <4>1, Moved
    <3>5. CASE /\ rows' = Without(rows, {t[1]})
               /\ versions' = versions \ VersionsOf(t[1])
               /\ Goto(p, [pc |-> "purge_object", todo |-> procs[p].todo \ {t},
                           key |-> t[2]])
      <4>1. procs'[p].pc = "purge_object" /\ procs'[p].key = t[2]
        BY <3>5, Moved
      <4>2. \A r \in Procs \ {p} : procs'[r] = procs[r]
        BY <3>5, Moved
      <4> QED
        BY <1>0, <3>1, <3>3, <3>5, <4>1, <4>2
    <3> QED
      BY <3>2, <3>4, <3>5
  <2>2. CASE PurgeObject(p) \/ PurgeDone(p)
    <3>1. procs'[p].pc \in {"purge_row", "known", "idle"}
      BY <2>2, Moved DEF PurgeObject, PurgeDone, Finish, Idle
    <3>2. \A r \in Procs \ {p} : procs'[r] = procs[r]
      BY <1>3, Pcs
    <3> QED
      BY <1>1, <3>1, <3>2
  <2> QED
    BY <1>3, <2>1, <2>2 DEF Purging
<1>4. CASE Sweeping
  <2>0. Hk \in Procs /\ DOMAIN procs = Procs
    BY DEF Procs, TypeInv, TypeOK
  <2>1. CASE HkStart \/ HkKnown \/ HkDone \/ HkFail
    <3>1. procs'[Hk].pc \in {"purge_row", "list", "idle"}
      BY <2>0, <2>1 DEF HkStart, HkKnown, HkDone, HkFail, Finish, Goto,
         PurgeOf, Idle
    <3>2. \A r \in Procs \ {Hk} : procs'[r] = procs[r]
      BY <2>0, <2>1 DEF HkStart, HkKnown, HkDone, HkFail, Finish, Goto
    <3> QED
      BY <1>1, <2>0, <3>1, <3>2
  <2>2. CASE HkList
    <3>1. PICK L : /\ L \subseteq DOMAIN objs
                   /\ Goto(Hk, [pc |-> "sweep", todo |-> Orphans(L)])
      BY <2>2 DEF HkList, Listings
    <3>2. Orphans(L) \subseteq DOMAIN objs
      BY <3>1 DEF Orphans
    <3>3. procs'[Hk].pc = "sweep" /\ procs'[Hk].todo = Orphans(L)
          /\ \A r \in Procs \ {Hk} : procs'[r] = procs[r]
      BY <2>0, <3>1, Moved
    <3> QED
      BY <1>0, <3>2, <3>3
  <2>3. CASE HkSweep
    <3>1. procs[Hk] \in [pc : {"sweep"}, todo : SUBSET Keys]
      BY <2>0, <2>3 DEF HkSweep, TypeInv, TypeOK, ProcState, Idle, MoveState,
         MovePcs
    <3>2. PICK k : Goto(Hk, [procs[Hk] EXCEPT !.todo = @ \ {k}])
      BY <2>3 DEF HkSweep
    <3>3. procs'[Hk].pc = "sweep" /\ procs'[Hk].todo \subseteq procs[Hk].todo
          /\ procs[Hk].pc = "sweep"
          /\ \A r \in Procs \ {Hk} : procs'[r] = procs[r]
      BY <2>0, <3>1, <3>2, Moved
    <3> QED
      BY <1>0, <3>3
  <2> QED
    BY <1>4, <2>1, <2>2, <2>3 DEF Sweeping
<1>5. CASE Passing
  BY <1>0, <1>5 DEF Passing, ClientPut, HourPasses, MonthPasses
<1>6. From(procs'[q])
  BY <1>2, <1>3, <1>4, <1>5 DEF CalmNext
<1> QED
  BY <1>6

\* Uuids that are in use have been drawn.
LEMMA DrawnStep ==
    ASSUME TypeInv, TypeInv', OpsInv, DrawnInv, KeyInv, CalmNext
    PROVE  DrawnInv'
<1>0. /\ nextId \in Nat /\ \A f \in Ids : f \in Nat
      /\ \A k \in Keys : k[2] \in Nat
      /\ \A k \in DOMAIN objs' \cup urls' : k \in Keys
      /\ DOMAIN rows \subseteq Ids /\ \A f \in DOMAIN rows : rows[f].key \in Keys
      /\ \A n \in Nat : n < nextId => n < nextId'
  <2>1. nextId' \in Nat /\ nextId <= nextId' /\ nextId \in Nat
    BY Draws DEF TypeInv, TypeOK
  <2>2. \A n \in Nat : n < nextId => n < nextId'
    BY <2>1
  <2> QED
    BY <2>1, <2>2, TypeInv' DEF TypeInv, TypeOK, Ids, Keys, RowSet
<1>1. ASSUME NEW f \in Ids, Knows(f)' PROVE f < nextId'
  <2>1. CASE UsesKept
    BY <1>0, <1>1, <2>1 DEF UsesKept, DrawnInv
  <2>2. ASSUME NEW p \in Workers, InsertRow(p) PROVE f < nextId'
    <3>1. p \in Procs /\ Pending(p)
      BY <2>2 DEF InsertRow, Pending, Procs
    <3>2. Knows(f) \/ f = procs[p].file
      BY <1>1, <2>2, NewUses DEF Grows
    <3> QED
      BY <1>0, <3>1, <3>2 DEF DrawnInv, KeyInv
  <2>3. ASSUME NEW p \in Workers, PresignUpload(p) PROVE f < nextId'
    <3>1. Knows(f) \/ f = nextId
      BY <1>1, <2>3, NewUses DEF Grows
    <3>2. nextId' = nextId + 1
      BY <2>3 DEF PresignUpload
    <3> QED
      BY <1>0, <3>1, <3>2 DEF DrawnInv
  <2>4. ASSUME NEW p \in Workers, PutVersion(p) PROVE f < nextId'
    <3>1. Knows(f) \/ f = procs[p].file
      BY <1>1, <2>4, NewUses DEF Grows
    <3>2. Knows(procs[p].file)
      BY <2>4 DEF PutVersion, Knows, Procs
    <3> QED
      BY <1>0, <3>1, <3>2 DEF DrawnInv
  <2> QED
    BY <2>1, <2>2, <2>3, <2>4, CalmUses
<1>2. ASSUME NEW f \in Ids, NEW k \in Keys, Uses(f, k)' PROVE k[2] < nextId'
  <2>1. CASE UsesKept
    BY <1>0, <1>2, <2>1 DEF UsesKept, DrawnInv
  <2>2. ASSUME NEW p \in Workers, InsertRow(p) PROVE k[2] < nextId'
    <3>1. p \in Procs /\ Pending(p)
      BY <2>2 DEF InsertRow, Pending, Procs
    <3>2. Uses(f, k) \/ k = PendingKey(p)
      BY <1>2, <2>2, NewUses DEF Grows
    <3>3. PendingKey(p)[2] = procs[p].file /\ procs[p].file < nextId
      BY <3>1, Locals DEF KeyInv
    <3> QED
      BY <1>0, <3>2, <3>3 DEF DrawnInv
  <2>3. ASSUME NEW p \in Workers, PresignUpload(p) \/ PutVersion(p)
        PROVE  k[2] < nextId'
    <3>1. Uses(f, k) \/ k[2] = nextId
      BY <1>2, <2>3, NewUses DEF Grows, StorageKey
    <3>2. nextId' = nextId + 1
      BY <2>3 DEF PresignUpload, PutVersion
    <3> QED
      BY <1>0, <3>1, <3>2 DEF DrawnInv
  <2> QED
    BY <2>1, <2>2, <2>3, CalmUses
<1>3. ASSUME NEW k \in DOMAIN objs' \cup urls' PROVE k[2] < nextId'
  <2>1. \/ k \in DOMAIN objs \cup urls
        \/ k[2] = nextId /\ nextId' = nextId + 1
    BY Draws
  <2> QED
    BY <1>0, <2>1 DEF DrawnInv
<1>4. \A f \in DOMAIN rows : f < nextId
  BY <1>0 DEF DrawnInv, Knows, Uses
<1>5. ASSUME NEW q \in Procs, procs'[q].pc \in {"head", "confirm"}
      PROVE  procs'[q].file < nextId'
  <2>1. procs'[q].file \in Ids
    BY <1>5, TypeInv' DEF TypeInv, TypeOK, ProcState, Idle, MoveState, MovePcs
  <2>2. \/ procs[q].pc \in {"head", "confirm"} /\ procs'[q].file = procs[q].file
        \/ procs'[q].file \in DOMAIN rows
    BY <1>5, Sources
  <2>3. procs'[q].file < nextId
    BY <1>4, <2>2 DEF DrawnInv
  <2> QED
    BY <1>0, <2>1, <2>3
<1>6. ASSUME NEW q \in Procs, procs'[q].pc = "purge_object"
      PROVE  procs'[q].key[2] < nextId'
  <2>1. procs'[q].key \in Keys
    BY <1>6, TypeInv' DEF TypeInv, TypeOK, ProcState, Idle, MoveState, MovePcs
  <2>2. CASE procs'[q] = procs[q]
    BY <1>0, <1>6, <2>1, <2>2 DEF DrawnInv
  <2>3. ASSUME procs[q].pc = "purge_row", NEW f \in Ids,
               <<f, procs'[q].key>> \in procs[q].todo
        PROVE  procs'[q].key[2] < nextId'
    <3>1. Uses(f, procs'[q].key)
      BY <2>3 DEF Uses, Holds
    <3> QED
      BY <1>0, <2>1, <3>1 DEF DrawnInv
  <2> QED
    BY <1>6, <2>2, <2>3, Sources
<1>7. ASSUME NEW q \in Procs, procs'[q].pc = "sweep", NEW k \in procs'[q].todo
      PROVE  k[2] < nextId'
  <2>1. k \in Keys
    BY <1>7, TypeInv' DEF TypeInv, TypeOK, ProcState, Idle, MoveState, MovePcs
  <2>2. \/ procs[q].pc = "sweep" /\ k \in procs[q].todo
        \/ k \in DOMAIN objs
    BY <1>7, Sources
  <2>3. k[2] < nextId
    BY <2>2 DEF DrawnInv
  <2> QED
    BY <1>0, <2>1, <2>3
<1> QED
  BY <1>1, <1>2, <1>3, <1>5, <1>6, <1>7 DEF DrawnInv

\* Which rows a step adds, and what it removes.
LEMMA RowsStep ==
    ASSUME TypeInv, CalmNext
    PROVE  /\ \A f \in DOMAIN rows' : \/ f \in DOMAIN rows
                \/ \E p \in Workers : \/ InsertRow(p) /\ f = procs[p].file
                                      \/ PresignUpload(p) /\ f = nextId
           /\ \/ \E f \in Ids : /\ rows' = Without(rows, {f})
                                /\ versions' = versions \ VersionsOf(f)
              \/ /\ DOMAIN rows \subseteq DOMAIN rows'
                 /\ versions' = versions \/ \E p \in Workers : SnapshotCurrent(p)
<1> DEFINE Added == \A f \in DOMAIN rows' : \/ f \in DOMAIN rows
                \/ \E p \in Workers : \/ InsertRow(p) /\ f = procs[p].file
                                      \/ PresignUpload(p) /\ f = nextId
           Removed == \/ \E f \in Ids : /\ rows' = Without(rows, {f})
                                        /\ versions' = versions \ VersionsOf(f)
                      \/ /\ DOMAIN rows \subseteq DOMAIN rows'
                         /\ versions' = versions
                              \/ \E p \in Workers : SnapshotCurrent(p)
<1>1. ASSUME DOMAIN rows' = DOMAIN rows, versions' = versions
      PROVE  Added /\ Removed
  BY <1>1
<1>2. ASSUME NEW p \in Workers, Uploading(p) PROVE Added /\ Removed
  <2>1. CASE InsertRow(p)
    BY <2>1 DEF InsertRow, With
  <2>2. CASE PresignUpload(p)
    BY <2>2 DEF PresignUpload, With
  <2>3. CASE ConfirmCommit(p)
    BY <1>1, <2>3 DEF ConfirmCommit
  <2>4. CASE \/ UploadPut(p) \/ CheckMagic(p) \/ UploadJsonPut(p)
             \/ ConfirmRead(p) \/ ConfirmHead(p)
    BY <1>1, <2>4 DEF UploadPut, CheckMagic, UploadJsonPut, ConfirmRead,
       ConfirmHead
  <2> QED
    BY <1>2, <2>1, <2>2, <2>3, <2>4 DEF Uploading
<1>3. ASSUME NEW p \in Workers, Trashing(p) \/ Abort(p) PROVE Added /\ Removed
  BY <1>1, <1>3 DEF Trashing, Delete, Restore, Purge, EmptyTrash, BulkPurge,
     Abort
<1>4. ASSUME NEW p \in Procs, Purging(p) PROVE Added /\ Removed
  <2>1. CASE PurgeRow(p)
    <3>1. procs[p].pc = "purge_row"
      BY <2>1 DEF PurgeRow
    <3>2. procs[p].todo \subseteq Ids \X Keys
      BY <3>1, Locals
    <3>3. PICK t \in procs[p].todo :
         \/ /\ rows' = Without(rows, {t[1]})
            /\ versions' = versions \ VersionsOf(t[1])
         \/ UNCHANGED <<rows, versions>>
      BY <2>1 DEF PurgeRow
    <3>4. t[1] \in Ids
      BY <3>2, <3>3
    <3>5. CASE /\ rows' = Without(rows, {t[1]})
               /\ versions' = versions \ VersionsOf(t[1])
      <4>1. DOMAIN rows' \subseteq DOMAIN rows
        BY <3>5 DEF Without, Restrict
      <4> QED
        BY <3>4, <3>5, <4>1
    <3> QED
      BY <1>1, <3>3, <3>5
  <2>2. CASE PurgeObject(p) \/ PurgeDone(p)
    BY <1>1, <2>2 DEF PurgeObject, PurgeDone
  <2> QED
    BY <1>4, <2>1, <2>2 DEF Purging
<1>5. ASSUME NEW p \in Workers, Editing(p) PROVE Added /\ Removed
  <2>1. CASE SnapshotCurrent(p)
    <3>1. rows' = rows
      BY <2>1 DEF SnapshotCurrent
    <3> QED
      BY <2>1, <3>1
  <2>2. CASE ~SnapshotCurrent(p)
    BY <1>1, <1>5, <2>2 DEF Editing, CreateVersionRead, RestoreVersionRead,
       PutVersion, CommitVersion
  <2> QED
    BY <2>1, <2>2
<1>6. ASSUME Sweeping \/ Passing PROVE Added /\ Removed
  BY <1>1, <1>6 DEF Sweeping, HkStart, HkKnown, HkList, HkSweep, HkDone, HkFail,
     Passing, ClientPut, HourPasses, MonthPasses
<1>7. Added /\ Removed
  BY <1>2, <1>3, <1>4, <1>5, <1>6 DEF CalmNext
<1> QED
  BY <1>7

\* A request that has its row to insert had it, or starts with a fresh uuid.
LEMMA PendingStep ==
    ASSUME TypeInv, CalmNext, NEW q \in Procs, Pending(q)'
    PROVE  \/ /\ Pending(q)
              /\ procs'[q].file = procs[q].file /\ procs'[q].org = procs[q].org
           \/ /\ q \in Workers /\ (UploadPut(q) \/ UploadJsonPut(q))
              /\ procs'[q].file = nextId
<1> DEFINE Was == /\ Pending(q)
                  /\ procs'[q].file = procs[q].file
                  /\ procs'[q].org = procs[q].org
           Starts == /\ q \in Workers /\ (UploadPut(q) \/ UploadJsonPut(q))
                     /\ procs'[q].file = nextId
<1>0. DOMAIN procs = Procs /\ procs'[q].pc \in {"check", "insert"}
  BY DEF Pending, TypeInv, TypeOK
<1>1. CASE procs'[q] = procs[q]
  BY <1>0, <1>1 DEF Pending
<1>2. ASSUME NEW p \in Workers, procs'[q] # procs[q],
             Uploading(p) \/ Trashing(p) \/ Editing(p) \/ Abort(p)
      PROVE  Was \/ Starts
  <2>1. p = q
    BY <1>2, Pcs DEF Procs
  <2>2. Uploading(p)
    BY <1>0, <1>2, <2>1, Pcs DEF Procs, Idle
  <2>3. CASE UploadPut(p) \/ UploadJsonPut(p)
    BY <1>0, <2>1, <2>3 DEF UploadPut, UploadJsonPut, Goto
  <2>4. CASE CheckMagic(p)
    <3>1. procs[q] \in [pc : {"check"}, file : Ids, org : Spaces]
      BY <2>1, <2>4 DEF CheckMagic, TypeInv, TypeOK, ProcState, Idle,
         MoveState, MovePcs
    <3>2. \/ procs'[q] = [procs[q] EXCEPT !.pc = "insert"]
          \/ procs'[q].pc = "idle"
      BY <1>0, <2>1, <2>4 DEF CheckMagic, Finish, Goto, Idle
    <3>3. /\ [procs[q] EXCEPT !.pc = "insert"].file = procs[q].file
          /\ [procs[q] EXCEPT !.pc = "insert"].org = procs[q].org
      BY <3>1
    <3> QED
      BY <1>0, <3>1, <3>2, <3>3 DEF Pending
  <2>5. CASE \/ InsertRow(p) \/ ConfirmCommit(p) \/ ConfirmRead(p)
             \/ PresignUpload(p)
    BY <1>0, <1>2, <2>1, <2>5 DEF InsertRow, ConfirmCommit, ConfirmRead,
       PresignUpload, Finish, Goto, Idle
  <2>6. CASE ConfirmHead(p)
    <3>1. procs[q] \in [pc : {"head"}, file : Ids, key : Keys]
      BY <2>1, <2>6 DEF ConfirmHead, TypeInv, TypeOK, ProcState, Idle,
         MoveState, MovePcs
    <3>2. \/ procs'[q] = [procs[q] EXCEPT !.pc = "confirm"]
          \/ procs'[q].pc = "idle"
      BY <1>0, <2>1, <2>6 DEF ConfirmHead, Finish, Goto, Idle
    <3> QED
      BY <1>0, <3>1, <3>2
  <2> QED
    BY <2>2, <2>3, <2>4, <2>5, <2>6 DEF Uploading
<1>3. ASSUME NEW p \in Procs, Purging(p), procs'[q] # procs[q] PROVE FALSE
  BY <1>0, <1>3, Pcs
<1>4. ASSUME Sweeping, procs'[q] # procs[q] PROVE FALSE
  <2>1. procs[Hk] \in ProcState /\ Hk \in Procs /\ q = Hk
    BY <1>0, <1>4, Moved DEF TypeInv, TypeOK, Procs, Sweeping, HkStart,
       HkKnown, HkList, HkSweep, HkDone, HkFail, Finish
  <2>2. CASE HkSweep
    <3>1. procs[Hk] \in [pc : {"sweep"}, todo : SUBSET Keys]
      BY <2>1, <2>2 DEF HkSweep, ProcState, Idle, MoveState, MovePcs
    <3>2. \E k : procs'[Hk] = [procs[Hk] EXCEPT !.todo = @ \ {k}]
      BY <1>0, <2>1, <2>2 DEF HkSweep, Goto
    <3> QED
      BY <1>0, <2>1, <3>1, <3>2
  <2>3. CASE HkStart \/ HkKnown \/ HkList \/ HkDone \/ HkFail
    BY <1>0, <2>1, <2>3 DEF HkStart, HkKnown, HkList, HkDone, HkFail, Finish,
       Goto, PurgeOf, Idle
  <2> QED
    BY <1>4, <2>2, <2>3 DEF Sweeping
<1>5. Passing => procs'[q] = procs[q]
  BY DEF Passing, ClientPut, HourPasses, MonthPasses
<1> QED
  BY <1>1, <1>2, <1>3, <1>4, <1>5 DEF CalmNext

\* A key stays with one file, and a purged file's key with none.
LEMMA KeyStep ==
    ASSUME TypeInv, TypeInv', OpsInv, DrawnInv, KeyInv, CalmNext
    PROVE  KeyInv'
<1>0. /\ nextId \in Nat /\ \A f \in Ids : f \in Nat
      /\ \A k \in Keys : k[2] \in Nat
      /\ DOMAIN rows \subseteq Ids /\ DOMAIN rows' \subseteq Ids
      /\ \A n \in Nat : n < nextId => n < nextId'
      /\ nextId' = nextId + 1 => nextId < nextId'
      /\ \A p \in Workers : p \in Procs
  <2>1. nextId' \in Nat /\ nextId <= nextId' /\ nextId \in Nat
    BY Draws DEF TypeInv, TypeOK
  <2>2. \A n \in Nat : n < nextId => n < nextId'
    BY <2>1
  <2>3. nextId' = nextId + 1 => nextId < nextId'
    BY <2>1
  <2> QED
    BY <2>1, <2>2, <2>3, TypeInv' DEF TypeInv, TypeOK, Ids, Keys, Procs
<1>1. \A f \in DOMAIN rows : Knows(f) /\ f < nextId
  <2>1. \A f \in DOMAIN rows : rows[f].key \in Keys
    BY DEF TypeInv, TypeOK, RowSet
  <2> QED
    BY <1>0, <2>1 DEF DrawnInv, Knows, Uses
<1>2. ASSUME NEW f \in Ids, ~Knows(f), NEW k \in Keys PROVE ~Uses(f, k)
  BY <1>2 DEF Knows
\* The new uses of a key that is not new are those of a row inserted.
<1>3. ASSUME NEW f \in Ids, NEW k \in Keys, Uses(f, k)', ~Uses(f, k)
      PROVE  \/ \E p \in Workers :
                  InsertRow(p) /\ f = procs[p].file /\ k = PendingKey(p)
             \/ \E p \in Workers :
                  PresignUpload(p) /\ f = nextId /\ k[2] = nextId
             \/ \E p \in Workers :
                  PutVersion(p) /\ f = procs[p].file /\ k[2] = nextId
  <2>1. ~UsesKept
    BY <1>3 DEF UsesKept
  <2>2. PICK p \in Workers : InsertRow(p) \/ PresignUpload(p) \/ PutVersion(p)
    BY <2>1, CalmUses
  <2> QED
    BY <1>3, <2>2, NewUses DEF Grows, StorageKey
<1>4. ASSUME NEW f \in Ids, Knows(f)', ~Knows(f)
      PROVE  \/ \E p \in Workers : InsertRow(p) /\ f = procs[p].file
             \/ \E p \in Workers : PresignUpload(p) /\ f = nextId
  <2>1. ~UsesKept
    BY <1>4 DEF UsesKept
  <2>2. PICK p \in Workers : InsertRow(p) \/ PresignUpload(p) \/ PutVersion(p)
    BY <2>1, CalmUses
  <2>3. CASE PutVersion(p)
    <3>1. Knows(procs[p].file)
      BY <1>0, <2>3 DEF PutVersion, Knows
    <3> QED
      BY <1>4, <2>3, <3>1, NewUses DEF Grows
  <2> QED
    BY <1>4, <2>2, <2>3, NewUses DEF Grows
<1>5. ASSUME NEW p \in Workers, InsertRow(p)
      PROVE  /\ Pending(p) /\ procs[p].file < nextId
             /\ procs[p].file \in Ids /\ PendingKey(p) \in Keys
             /\ PendingKey(p)[2] = procs[p].file
             /\ procs'[p] = Idle
             /\ \A q \in Procs \ {p} : procs'[q] = procs[q]
  <2>1. Pending(p) /\ Goto(p, Idle)
    BY <1>5 DEF InsertRow, Pending, Finish
  <2> QED
    BY <1>0, <2>1, Locals, Moved DEF KeyInv
<1>6. ASSUME NEW f \in Ids, NEW g \in Ids, NEW k \in Keys, Uses(f, k)', Uses(g, k)'
      PROVE  f = g
  <2>1. ASSUME NEW e \in Ids, NEW h \in Ids, Uses(e, k)', ~Uses(e, k), Uses(h, k)
        PROVE  FALSE
    <3>1. CASE \E p \in Workers : InsertRow(p) /\ k = PendingKey(p)
      BY <1>0, <1>5, <2>1, <3>1 DEF KeyInv
    <3>2. CASE k[2] = nextId
      BY <1>0, <2>1, <3>2 DEF DrawnInv
    <3> QED
      BY <1>3, <2>1, <3>1, <3>2
  <2>2. CASE Uses(f, k) /\ Uses(g, k)
    BY <2>2 DEF KeyInv
  <2>3. CASE ~Uses(f, k) /\ ~Uses(g, k)
    <3>1. UsesKept => FALSE
      BY <1>6, <2>3 DEF UsesKept
    <3>2. PICK p \in Workers : InsertRow(p) \/ PresignUpload(p) \/ PutVersion(p)
      BY <3>1, CalmUses
    <3> QED
      BY <1>6, <2>3, <3>2, NewUses DEF Grows
  <2> QED
    BY <1>6, <2>1, <2>2, <2>3
<1>7. ASSUME NEW v \in versions' PROVE v.file \in DOMAIN rows'
  <2>1. CASE \E f \in Ids : /\ rows' = Without(rows, {f})
                            /\ versions' = versions \ VersionsOf(f)
    BY <1>7, <2>1 DEF Without, Restrict, VersionsOf, KeyInv
  <2>2. CASE DOMAIN rows \subseteq DOMAIN rows' /\ versions' = versions
    BY <1>7, <2>2 DEF KeyInv
  <2>3. ASSUME NEW p \in Workers, SnapshotCurrent(p)
        PROVE  v.file \in DOMAIN rows'
    BY <1>7, <2>3 DEF SnapshotCurrent, KeyInv
  <2> QED
    BY <2>1, <2>2, <2>3, RowsStep
<1>8. ASSUME NEW q \in Procs, procs'[q].pc = "purge_object",
             NEW f \in DOMAIN rows', NEW k \in Keys, k = procs'[q].key,
             Uses(f, k)'
      PROVE  FALSE
  <2>1. f \in Ids
    BY <1>0
  <2>2. CASE procs'[q] = procs[q]
    <3>1. k[2] < nextId /\ \A g \in DOMAIN rows : ~Uses(g, k)
      BY <1>8, <2>2 DEF DrawnInv, KeyInv
    <3>2. CASE Uses(f, k)
      <4>1. f \notin DOMAIN rows
        BY <3>1, <3>2
      <4>2. CASE \E p \in Workers : InsertRow(p) /\ f = procs[p].file
        BY <1>0, <1>2, <1>5, <2>1, <3>2, <4>2 DEF KeyInv
      <4>3. CASE f = nextId
        <5>1. Knows(f)
          BY <2>1, <3>2 DEF Knows
        <5> QED
          BY <1>0, <2>1, <4>3, <5>1 DEF DrawnInv
      <4> QED
        BY <4>1, <4>2, <4>3, RowsStep
    <3>3. CASE ~Uses(f, k)
      <4>1. CASE \E p \in Workers : InsertRow(p) /\ k = PendingKey(p)
        <5>1. PICK p \in Workers : InsertRow(p) /\ k = PendingKey(p)
          BY <4>1
        <5>2. procs[q].pc = "purge_object" /\ procs[q].key = k
          BY <1>8, <2>2
        <5> QED
          BY <1>0, <1>5, <5>1, <5>2 DEF KeyInv
      <4>2. CASE k[2] = nextId
        BY <1>0, <3>1, <4>2
      <4> QED
        BY <1>3, <1>8, <2>1, <3>3, <4>1, <4>2
    <3> QED
      BY <3>2, <3>3
  <2>3. ASSUME procs'[q] # procs[q], procs[q].pc = "purge_row", NEW g \in Ids,
               <<g, k>> \in procs[q].todo, rows' = Without(rows, {g})
        PROVE  FALSE
    <3>1. Uses(g, k) /\ f # g /\ f \in DOMAIN rows
      BY <2>3 DEF Uses, Holds, Without, Restrict
    <3>2. UsesKept
      <4>1. ASSUME NEW p \in Workers,
                   InsertRow(p) \/ PresignUpload(p) \/ PutVersion(p)
            PROVE  FALSE
        <5>1. q = p
          BY <1>0, <2>3, <4>1, Pcs DEF Uploading, Editing
        <5> QED
          BY <1>8, <2>3, <4>1, <5>1 DEF InsertRow, PutVersion, PresignUpload
      <4> QED
        BY <4>1, CalmUses
    <3>3. Uses(f, k)
      BY <1>8, <2>1, <3>2 DEF UsesKept
    <3> QED
      BY <2>1, <3>1, <3>3 DEF KeyInv
  <2> QED
    BY <1>8, <2>2, <2>3, Sources
<1>9. ASSUME NEW p \in Procs, Pending(p)'
      PROVE  /\ procs'[p].file \in Ids
             /\ PendingKey(p)' \in Keys /\ PendingKey(p)'[2] = procs'[p].file
             /\ \/ /\ Pending(p) /\ procs'[p].file = procs[p].file
                   /\ PendingKey(p)' = PendingKey(p)
                \/ /\ procs'[p].file = nextId /\ p \in Workers
                   /\ (UploadPut(p) \/ UploadJsonPut(p))
  <2>1. procs'[p] \in [pc : {"check", "insert"}, file : Ids, org : Spaces]
    BY <1>9, TypeInv' DEF Pending, TypeInv, TypeOK, ProcState, Idle, MoveState,
       MovePcs
  <2>2. /\ PendingKey(p)' = <<procs'[p].org, procs'[p].file>>
        /\ PendingKey(p) = <<procs[p].org, procs[p].file>>
    BY DEF PendingKey, StorageKey
  <2> QED
    BY <1>9, <2>1, <2>2, PendingStep DEF Keys
<1>10. ASSUME NEW p \in Workers, UploadPut(p) \/ UploadJsonPut(p)
       PROVE  UsesKept /\ rows' = rows /\ nextId' = nextId + 1
              /\ \A q \in Procs \ {p} : procs'[q] = procs[q]
  BY <1>0, <1>10, UploadUses, Pcs DEF UploadPut, UploadJsonPut, Uploading
\* What is true of a request that was pending when the step began.
<1>11. ASSUME NEW p \in Procs, Pending(p)', Pending(p),
              NEW n \in Ids, n = procs[p].file, n = procs'[p].file,
              NEW k \in Keys, k = PendingKey(p)
       PROVE  /\ n < nextId' /\ n \notin DOMAIN rows' /\ ~Knows(n)'
              /\ \A f \in Ids : ~Uses(f, k)'
  <2>1. /\ n \in Ids /\ n < nextId /\ n \notin DOMAIN rows /\ ~Knows(n)
        /\ k[2] = n /\ \A f \in Ids : ~Uses(f, k)
        /\ \A q \in Procs \ {p} : Pending(q) => procs[q].file # n
    BY <1>11, Locals DEF KeyInv
  <2>2. ASSUME NEW q \in Workers, InsertRow(q) PROVE procs[q].file # n
    <3>1. q # p
      BY <1>5, <1>11, <2>2 DEF Pending, Idle
    <3> QED
      BY <1>0, <1>5, <2>1, <2>2, <3>1
  <2>3. n # nextId
    BY <1>0, <2>1
  <2>4. n \notin DOMAIN rows'
    BY <2>1, <2>2, <2>3, RowsStep
  <2>5. ASSUME Knows(n)' PROVE FALSE
    BY <1>4, <2>1, <2>2, <2>3, <2>5
  <2>6. ASSUME NEW f \in Ids, Uses(f, k)' PROVE FALSE
    <3>1. ASSUME NEW q \in Workers, InsertRow(q), k = PendingKey(q) PROVE FALSE
      BY <1>5, <2>1, <2>2, <3>1
    <3> QED
      BY <1>3, <2>1, <2>3, <2>6, <3>1
  <2> QED
    BY <1>0, <2>1, <2>4, <2>5, <2>6
\* What is true of one that starts.
<1>12. ASSUME NEW p \in Workers, UploadPut(p) \/ UploadJsonPut(p),
              NEW n \in Ids, n = nextId, NEW k \in Keys, k[2] = n
       PROVE  /\ n < nextId' /\ n \notin DOMAIN rows' /\ ~Knows(n)'
              /\ \A f \in Ids : ~Uses(f, k)'
  <2>1. n < nextId' /\ n \notin DOMAIN rows'
    BY <1>0, <1>1, <1>10, <1>12
  <2>2. ASSUME Knows(n)' PROVE FALSE
    BY <1>0, <1>10, <1>12, <2>2 DEF UsesKept, DrawnInv
  <2>3. ASSUME NEW f \in Ids, Uses(f, k)' PROVE FALSE
    BY <1>0, <1>10, <1>12, <2>3 DEF UsesKept, DrawnInv
  <2> QED
    BY <2>1, <2>2, <2>3
<1>13. ASSUME NEW p \in Procs, Pending(p)'
       PROVE  /\ (procs[p].file < nextId)' /\ (procs[p].file \notin DOMAIN rows)'
              /\ ~Knows(procs[p].file)'
              /\ \A f \in Ids : ~Uses(f, PendingKey(p))'
  <2>1. PICK n \in Ids : n = procs'[p].file
    BY <1>9, <1>13
  <2>2. PICK k \in Keys : k = PendingKey(p)' /\ k[2] = n
    BY <1>9, <1>13, <2>1
  <2>3. /\ n < nextId' /\ n \notin DOMAIN rows' /\ ~Knows(n)'
        /\ \A f \in Ids : ~Uses(f, k)'
    BY <1>9, <1>11, <1>12, <1>13, <2>1, <2>2
  <2> QED
    BY <2>1, <2>2, <2>3
<1>14. ASSUME NEW p \in Procs, Pending(p)', NEW q \in Procs \ {p}, Pending(q)',
              procs'[q].file = procs'[p].file
       PROVE  FALSE
  <2>1. \A r \in Procs : Pending(r) => procs[r].file < nextId
    BY DEF KeyInv
  <2>2. CASE Pending(p) /\ procs'[p].file = procs[p].file
    <3>1. CASE Pending(q) /\ procs'[q].file = procs[q].file
      BY <1>14, <2>2, <3>1 DEF KeyInv
    <3>2. CASE procs'[q].file = nextId
      BY <1>0, <1>9, <1>14, <2>1, <2>2, <3>2
    <3> QED
      BY <1>9, <1>14, <3>1, <3>2
  <2>3. CASE procs'[p].file = nextId /\ p \in Workers
             /\ (UploadPut(p) \/ UploadJsonPut(p))
    <3>1. procs'[q] = procs[q]
      BY <1>10, <1>14, <2>3
    <3>2. Pending(q) /\ procs[q].file < nextId
      BY <1>14, <2>1, <3>1 DEF Pending
    <3> QED
      BY <1>0, <1>9, <1>14, <2>3, <3>1, <3>2
  <2> QED
    BY <1>9, <1>14, <2>2, <2>3
<1>15. ASSUME NEW p \in Procs, Pending(p)', NEW q \in Procs,
              procs'[q].pc = "purge_object", procs'[q].key = PendingKey(p)'
       PROVE  FALSE
  <2>1. PICK k \in Keys : k = PendingKey(p)'
    BY <1>9, <1>15
  <2>2. CASE procs'[q] = procs[q]
    <3>1. k[2] < nextId
      BY <1>15, <2>1, <2>2 DEF DrawnInv
    <3>2. CASE procs'[p].file = nextId
      BY <1>0, <1>9, <1>15, <2>1, <3>1, <3>2
    <3>3. CASE Pending(p) /\ PendingKey(p)' = PendingKey(p)
      BY <1>15, <2>1, <2>2, <3>3 DEF KeyInv
    <3> QED
      BY <1>9, <1>15, <3>2, <3>3
  <2>3. ASSUME procs[q].pc = "purge_row", NEW g \in Ids, <<g, k>> \in procs[q].todo
        PROVE  FALSE
    <3>1. Uses(g, k)
      BY <2>3 DEF Uses, Holds
    <3>2. k[2] < nextId
      BY <3>1 DEF DrawnInv
    <3>3. CASE procs'[p].file = nextId
      BY <1>0, <1>9, <1>15, <2>1, <3>2, <3>3
    <3>4. CASE Pending(p) /\ PendingKey(p)' = PendingKey(p)
      BY <1>15, <2>1, <3>1, <3>4 DEF KeyInv
    <3> QED
      BY <1>9, <1>15, <3>3, <3>4
  <2> QED
    BY <1>15, <2>1, <2>2, <2>3, Sources
<1>16. ASSUME NEW p \in Procs, procs'[p].pc = "purge_object", NEW f \in DOMAIN rows'
       PROVE  ~Uses(f, procs[p].key)'
  <2>1. procs'[p].key \in Keys
    BY <1>16, TypeInv' DEF TypeInv, TypeOK, ProcState, Idle, MoveState, MovePcs
  <2>2. PICK k \in Keys : k = procs'[p].key
    BY <2>1
  <2>3. ~Uses(f, k)'
    BY <1>8, <1>16, <2>2
  <2> QED
    BY <2>2, <2>3
<1> QED
  BY <1>6, <1>7, <1>13, <1>14, <1>15, <1>16 DEF KeyInv

-----------------------------------------------------------------------------
(* Bytes *)

\* What a step does to the store: it puts the bytes of a key under it, deletes,
\* or lets all objects age.
LEMMA Stores ==
    ASSUME TypeInv, CalmNext
    PROVE  \A k \in DOMAIN objs' :
             \/ objs'[k] = [data |-> k[2], old |-> FALSE]
             \/ k \in DOMAIN objs /\ objs'[k].data = objs[k].data
<1> DEFINE Stored == \A k \in DOMAIN objs' :
             \/ objs'[k] = [data |-> k[2], old |-> FALSE]
             \/ k \in DOMAIN objs /\ objs'[k].data = objs[k].data
<1>1. ASSUME NEW k, objs' = Put(k, k[2]) PROVE Stored
  BY <1>1 DEF Put, With
<1>2. ASSUME NEW S, TryDelete(S) PROVE Stored
  BY <1>2, DeleteTypes
<1>3. ASSUME objs' = objs PROVE Stored
  BY <1>3
<1>4. ASSUME NEW p \in Workers, Uploading(p) PROVE Stored
  <2>1. CASE UploadPut(p) \/ UploadJsonPut(p)
    <3>1. PICK o : objs' = Put(<<o, nextId>>, nextId)
      BY <2>1 DEF UploadPut, UploadJsonPut, StorageKey
    <3>2. PICK k : k = <<o, nextId>>
      OBVIOUS
    <3>3. objs' = Put(k, k[2])
      BY <3>1, <3>2
    <3> QED
      BY <3>3 DEF Put, With
  <2>2. CASE CheckMagic(p)
    BY <1>2, <1>3, <2>2 DEF CheckMagic
  <2>3. CASE ~UploadPut(p) /\ ~UploadJsonPut(p) /\ ~CheckMagic(p)
    BY <1>3, <1>4, <2>3 DEF Uploading, InsertRow, PresignUpload, ConfirmRead,
       ConfirmHead, ConfirmCommit
  <2> QED
    BY <2>1, <2>2, <2>3
<1>5. ASSUME NEW p \in Workers, Trashing(p) \/ Abort(p) PROVE Stored
  BY <1>3, <1>5 DEF Trashing, Delete, Restore, Purge, EmptyTrash, BulkPurge,
     Abort
<1>6. ASSUME NEW p \in Procs, Purging(p) PROVE Stored
  BY <1>2, <1>3, <1>6 DEF Purging, PurgeRow, PurgeObject, PurgeDone
<1>7. ASSUME NEW p \in Workers, Editing(p) PROVE Stored
  <2>1. CASE PutVersion(p)
    <3>1. PICK o : objs' = Put(<<o, nextId>>, nextId)
      BY <2>1 DEF PutVersion, StorageKey
    <3>2. PICK k : k = <<o, nextId>>
      OBVIOUS
    <3>3. objs' = Put(k, k[2])
      BY <3>1, <3>2
    <3> QED
      BY <3>3 DEF Put, With
  <2>2. CASE ~PutVersion(p)
    BY <1>3, <1>7, <2>2 DEF Editing, CreateVersionRead, RestoreVersionRead,
       SnapshotCurrent, CommitVersion
  <2> QED
    BY <2>1, <2>2
<1>8. ASSUME Sweeping PROVE Stored
  BY <1>2, <1>3, <1>8 DEF Sweeping, HkStart, HkKnown, HkList, HkSweep, HkDone,
     HkFail
<1>9. ASSUME Passing PROVE Stored
  <2>1. CASE ClientPut
    BY <2>1 DEF ClientPut, Put, With
  <2>2. CASE HourPasses \/ MonthPasses
    BY <2>2 DEF HourPasses, MonthPasses, Aged, TypeInv, TypeOK, ObjectSet
  <2> QED
    BY <1>9, <2>1, <2>2 DEF Passing
<1>10. Stored
  BY <1>4, <1>5, <1>6, <1>7, <1>8, <1>9 DEF CalmNext
<1> QED
  BY <1>10

\* Where a row, a version or an edit has its key and checksum from.
LEMMA Checksums ==
    ASSUME TypeInv, CalmNext
    PROVE  /\ \A f \in DOMAIN rows' :
                \/ /\ f \in DOMAIN rows /\ rows'[f].key = rows[f].key
                   /\ rows'[f].sha = rows[f].sha
                \/ \E p \in Workers :
                     \/ /\ CommitVersion(p) /\ f = procs[p].file
                        /\ rows'[f].key = procs[p].key
                        /\ rows'[f].sha = procs[p].sha
                     \/ /\ InsertRow(p) /\ f = procs[p].file
                        /\ rows'[f].key = PendingKey(p) /\ rows'[f].sha = f
                     \/ /\ PresignUpload(p) /\ f = nextId
                        /\ rows'[f].sha = 0 /\ rows'[f].trash = "trashed"
           /\ \A v \in versions' : \/ v \in versions
                \/ \E p \in Workers : /\ SnapshotCurrent(p) /\ v.file = procs[p].file
                     /\ v.key = procs[p].row.key /\ v.sha = procs[p].row.sha
           /\ \A q \in Procs :
                /\ procs'[q].pc = "commit" => \/ procs'[q] = procs[q]
                     \/ /\ PutVersion(q) /\ q \in Workers
                        /\ procs'[q].file = procs[q].file
                        /\ procs'[q].key = StorageKey(procs[q].org, nextId)
                        /\ procs'[q].sha = nextId
                     \/ /\ SnapshotCurrent(q) /\ q \in Workers
                        /\ procs[q].op = "restore"
                        /\ procs'[q].file = procs[q].file
                        /\ procs'[q].key = procs[q].key
                        /\ procs'[q].sha = procs[q].sha
                /\ procs'[q].pc = "snapshot" => \/ procs'[q] = procs[q]
                     \/ /\ CreateVersionRead(q) /\ q \in Workers
                        /\ procs'[q].op = "create"
                        /\ procs'[q].file \in DOMAIN rows
                        /\ procs'[q].row = rows[procs'[q].file]
                     \/ /\ RestoreVersionRead(q) /\ q \in Workers
                        /\ procs'[q].file \in DOMAIN rows
                        /\ procs'[q].row = rows[procs'[q].file]
                        /\ \E v \in versions : /\ v.file = procs'[q].file
                             /\ procs'[q].key = v.key /\ procs'[q].sha = v.sha
<1> DEFINE R == \A f \in DOMAIN rows' :
                \/ /\ f \in DOMAIN rows /\ rows'[f].key = rows[f].key
                   /\ rows'[f].sha = rows[f].sha
                \/ \E p \in Workers :
                     \/ /\ CommitVersion(p) /\ f = procs[p].file
                        /\ rows'[f].key = procs[p].key
                        /\ rows'[f].sha = procs[p].sha
                     \/ /\ InsertRow(p) /\ f = procs[p].file
                        /\ rows'[f].key = PendingKey(p) /\ rows'[f].sha = f
                     \/ /\ PresignUpload(p) /\ f = nextId
                        /\ rows'[f].sha = 0 /\ rows'[f].trash = "trashed"
           V == \A v \in versions' : \/ v \in versions
                \/ \E p \in Workers : /\ SnapshotCurrent(p) /\ v.file = procs[p].file
                     /\ v.key = procs[p].row.key /\ v.sha = procs[p].row.sha
<1>0. \A f \in DOMAIN rows : rows[f] \in RowSet
  BY DEF TypeInv, TypeOK
<1>1. R
  <2>1. ASSUME rows' = rows PROVE R
    BY <2>1
  <2>2. ASSUME NEW p \in Workers, Uploading(p) PROVE R
    <3>1. CASE InsertRow(p)
      <4>1. \A f \in DOMAIN rows' :
              \/ f \in DOMAIN rows /\ rows'[f] = rows[f]
              \/ f = procs[p].file /\ rows'[f].key = PendingKey(p) /\ rows'[f].sha = f
        BY <3>1 DEF InsertRow, With, PendingKey
      <4> QED
        BY <3>1, <4>1
    <3>2. CASE PresignUpload(p)
      <4>1. \A f \in DOMAIN rows' :
              \/ f \in DOMAIN rows /\ rows'[f] = rows[f]
              \/ f = nextId /\ rows'[f].sha = 0 /\ rows'[f].trash = "trashed"
        BY <3>2 DEF PresignUpload, With
      <4> QED
        BY <3>2, <4>1
    <3>3. CASE ConfirmCommit(p)
      BY <1>0, <3>3 DEF ConfirmCommit, RowSet
    <3>4. CASE \/ UploadPut(p) \/ UploadJsonPut(p) \/ CheckMagic(p)
               \/ ConfirmRead(p) \/ ConfirmHead(p)
      BY <2>1, <3>4 DEF UploadPut, UploadJsonPut, CheckMagic, ConfirmRead,
         ConfirmHead
    <3> QED
      BY <2>2, <3>1, <3>2, <3>3, <3>4 DEF Uploading
  <2>3. ASSUME NEW p \in Workers, Delete(p) \/ Restore(p) PROVE R
    BY <1>0, <2>3 DEF Delete, Restore, RowSet
  <2>4. ASSUME NEW p \in Workers,
               Purge(p) \/ EmptyTrash(p) \/ BulkPurge(p) \/ Abort(p)
        PROVE  R
    BY <2>1, <2>4 DEF Purge, EmptyTrash, BulkPurge, Abort
  <2>5. ASSUME NEW p \in Procs, Purging(p) PROVE R
    BY <2>1, <2>5 DEF Purging, PurgeRow, PurgeObject, PurgeDone, Without, Restrict
  <2>6. ASSUME NEW p \in Workers, Editing(p) PROVE R
    <3>1. CASE CommitVersion(p)
      <4>1. \A f \in DOMAIN rows' : f \in DOMAIN rows /\
              \/ rows'[f] = rows[f]
              \/ /\ f = procs[p].file /\ rows'[f].key = procs[p].key
                 /\ rows'[f].sha = procs[p].sha
        BY <1>0, <3>1 DEF CommitVersion, RowSet
      <4> QED
        BY <3>1, <4>1
    <3>2. CASE ~CommitVersion(p)
      BY <2>1, <2>6, <3>2 DEF Editing, CreateVersionRead, RestoreVersionRead,
         SnapshotCurrent, PutVersion
    <3> QED
      BY <3>1, <3>2
  <2>7. ASSUME Sweeping \/ ClientPut \/ HourPasses PROVE R
    BY <2>1, <2>7 DEF Sweeping, HkStart, HkKnown, HkList, HkSweep, HkDone,
       HkFail, ClientPut, HourPasses
  <2>8. ASSUME MonthPasses PROVE R
    BY <1>0, <2>8 DEF MonthPasses, RowSet
  <2> QED
    BY <2>2, <2>3, <2>4, <2>5, <2>6, <2>7, <2>8 DEF CalmNext, Trashing, Passing
<1>2. V
  <2>1. ASSUME NEW v \in versions', v \notin versions
        PROVE  \E p \in Workers : /\ SnapshotCurrent(p) /\ v.file = procs[p].file
                  /\ v.key = procs[p].row.key /\ v.sha = procs[p].row.sha
    <3>1. PICK p \in Workers : SnapshotCurrent(p)
      BY <2>1, RowsStep
    <3>2. v.file = procs[p].file /\ v.key = procs[p].row.key
            /\ v.sha = procs[p].row.sha
      BY <2>1, <3>1 DEF SnapshotCurrent
    <3> QED
      BY <3>1, <3>2
  <2> QED
    BY <2>1
<1>3. ASSUME NEW q \in Procs, procs'[q] # procs[q],
             procs'[q].pc \in {"commit", "snapshot"}
      PROVE  q \in Workers /\ Editing(q)
  <2>1. ASSUME NEW p \in Workers,
               Uploading(p) \/ Trashing(p) \/ Editing(p) \/ Abort(p)
        PROVE  q \in Workers /\ Editing(q)
    <3>1. p = q
      BY <1>3, <2>1, Pcs DEF Procs
    <3> QED
      BY <1>3, <2>1, <3>1, Pcs DEF Procs, Idle
  <2>2. ASSUME NEW p \in Procs, Purging(p) PROVE FALSE
    BY <1>3, <2>2, Pcs
  <2>3. ASSUME Sweeping PROVE FALSE
    <3>1. procs[Hk] \in ProcState /\ Hk \in Procs /\ q = Hk /\ DOMAIN procs = Procs
      BY <1>3, <2>3, Moved DEF TypeInv, TypeOK, Procs, Sweeping, HkStart,
         HkKnown, HkList, HkSweep, HkDone, HkFail, Finish
    <3>2. CASE HkSweep
      <4>1. procs[Hk] \in [pc : {"sweep"}, todo : SUBSET Keys]
        BY <3>1, <3>2 DEF HkSweep, ProcState, Idle, MoveState, MovePcs
      <4>2. \E k : procs'[Hk] = [procs[Hk] EXCEPT !.todo = @ \ {k}]
        BY <3>1, <3>2 DEF HkSweep, Goto
      <4> QED
        BY <1>3, <3>1, <4>1, <4>2
    <3>3. CASE HkStart \/ HkKnown \/ HkList \/ HkDone \/ HkFail
      BY <1>3, <3>1, <3>3 DEF HkStart, HkKnown, HkList, HkDone, HkFail, Finish,
         Goto, PurgeOf, Idle
    <3> QED
      BY <2>3, <3>2, <3>3 DEF Sweeping
  <2>4. ASSUME Passing PROVE FALSE
    BY <1>3, <2>4 DEF Passing, ClientPut, HourPasses, MonthPasses
  <2> QED
    BY <2>1, <2>2, <2>3, <2>4 DEF CalmNext
<1>4. ASSUME NEW q \in Workers, Editing(q), procs'[q].pc = "commit"
      PROVE  \/ /\ PutVersion(q)
                /\ procs'[q].file = procs[q].file
                /\ procs'[q].key = StorageKey(procs[q].org, nextId)
                /\ procs'[q].sha = nextId
             \/ /\ SnapshotCurrent(q) /\ procs[q].op = "restore"
                /\ procs'[q].file = procs[q].file
                /\ procs'[q].key = procs[q].key
                /\ procs'[q].sha = procs[q].sha
  <2>0. q \in Procs
    BY DEF Procs
  <2>1. CASE PutVersion(q)
    BY <2>0, <2>1, Moved DEF PutVersion
  <2>2. CASE SnapshotCurrent(q)
    <3>1. procs[q].op \in {"create", "restore"}
      BY <2>0, <2>2, Locals DEF SnapshotCurrent
    <3> QED
      BY <1>4, <2>0, <2>2, <3>1, Moved DEF SnapshotCurrent
  <2>3. CASE CreateVersionRead(q) \/ RestoreVersionRead(q) \/ CommitVersion(q)
    <3>1. DOMAIN procs = Procs
      BY DEF TypeInv, TypeOK
    <3> QED
      BY <1>4, <2>0, <2>3, <3>1 DEF CreateVersionRead, RestoreVersionRead,
         CommitVersion, Finish, Goto, Idle
  <2> QED
    BY <1>4, <2>1, <2>2, <2>3 DEF Editing
<1>5. ASSUME NEW q \in Workers, Editing(q), procs'[q].pc = "snapshot"
      PROVE  /\ procs'[q].file \in DOMAIN rows
             /\ procs'[q].row = rows[procs'[q].file]
             /\ \/ CreateVersionRead(q) /\ procs'[q].op = "create"
                \/ /\ RestoreVersionRead(q)
                   /\ \E v \in versions : /\ v.file = procs'[q].file
                        /\ procs'[q].key = v.key /\ procs'[q].sha = v.sha
  <2>0. q \in Procs
    BY DEF Procs
  <2>1. CASE CreateVersionRead(q)
    BY <2>0, <2>1, Moved DEF CreateVersionRead
  <2>2. CASE RestoreVersionRead(q)
    BY <2>0, <2>2, Moved DEF RestoreVersionRead, VersionsOf
  <2>3. CASE SnapshotCurrent(q) \/ PutVersion(q) \/ CommitVersion(q)
    BY <1>5, <2>0, <2>3, Moved DEF SnapshotCurrent, PutVersion, CommitVersion,
       Finish, Idle
  <2> QED
    BY <1>5, <2>1, <2>2, <2>3 DEF Editing
<1> HIDE DEF R, V
<1>6. R /\ V
  BY <1>1, <1>2
<1> USE DEF R, V
<1> QED
  BY <1>3, <1>4, <1>5, <1>6

\* A checksum is that of the bytes put under the key beside it.
LEMMA ShaStep ==
    ASSUME TypeInv, OpsInv, ShaInv, CalmNext
    PROVE  ShaInv'
<1>1. \A k \in DOMAIN objs' : objs'[k].data = k[2]
  BY Stores DEF ShaInv
<1>2. ASSUME NEW f \in DOMAIN rows' PROVE rows'[f].sha \in {0, rows'[f].key[2]}
  <2>1. ASSUME NEW p \in Workers, CommitVersion(p),
               rows'[f].key = procs[p].key, rows'[f].sha = procs[p].sha
        PROVE  rows'[f].sha \in {0, rows'[f].key[2]}
    BY <2>1 DEF CommitVersion, ShaInv, Procs
  <2>2. ASSUME NEW p \in Workers, InsertRow(p), f = procs[p].file,
               rows'[f].key = PendingKey(p), rows'[f].sha = f
        PROVE  rows'[f].sha \in {0, rows'[f].key[2]}
    BY <2>2, Locals DEF InsertRow, Pending, Procs
  <2> QED
    BY <2>1, <2>2, Checksums DEF ShaInv
<1>3. ASSUME NEW v \in versions' PROVE v.sha \in {0, v.key[2]}
  <2>1. ASSUME NEW p \in Workers, SnapshotCurrent(p),
               v.key = procs[p].row.key, v.sha = procs[p].row.sha
        PROVE  v.sha \in {0, v.key[2]}
    BY <2>1 DEF SnapshotCurrent, ShaInv, Procs
  <2> QED
    BY <2>1, Checksums DEF ShaInv
<1>4. ASSUME NEW p \in Procs, procs'[p].pc = "commit"
      PROVE  procs'[p].sha \in {0, procs'[p].key[2]}
  <2>1. CASE procs'[p] = procs[p]
    BY <1>4, <2>1 DEF ShaInv
  <2>2. CASE procs'[p].key = StorageKey(procs[p].org, nextId)
             /\ procs'[p].sha = nextId
    BY <2>2 DEF StorageKey
  <2>3. CASE /\ SnapshotCurrent(p) /\ procs[p].op = "restore"
             /\ procs'[p].key = procs[p].key /\ procs'[p].sha = procs[p].sha
    BY <2>3 DEF SnapshotCurrent, ShaInv
  <2> QED
    BY <1>4, <2>1, <2>2, <2>3, Checksums
<1>5. ASSUME NEW p \in Procs, procs'[p].pc = "snapshot"
      PROVE  /\ procs'[p].row.sha \in {0, procs'[p].row.key[2]}
             /\ procs'[p].op = "restore"
                  => procs'[p].sha \in {0, procs'[p].key[2]}
  <2>1. CASE procs'[p] = procs[p]
    BY <1>5, <2>1 DEF ShaInv
  <2>2. CASE /\ procs'[p].file \in DOMAIN rows
             /\ procs'[p].row = rows[procs'[p].file]
             /\ \/ procs'[p].op = "create"
                \/ \E v \in versions : procs'[p].key = v.key /\ procs'[p].sha = v.sha
    BY <2>2 DEF ShaInv
  <2> QED
    BY <1>5, <2>1, <2>2, Checksums
<1> QED
  BY <1>1, <1>2, <1>3, <1>4, <1>5 DEF ShaInv

\* What may lose its object in a step: a refused upload, a file whose row is
\* gone, and what the sweep has found.
LEMMA Deletes ==
    ASSUME TypeInv, CalmNext,
           NEW k \in DOMAIN objs, k \notin DOMAIN objs'
    PROVE  /\ rows' = rows /\ versions' = versions
           /\ \/ \E p \in Workers : /\ Pending(p) /\ k = PendingKey(p)
                                    /\ procs'[p] = Idle
              \/ \E p \in Procs : procs[p].pc = "purge_object" /\ k = procs[p].key
              \/ procs[Hk].pc = "sweep" /\ k \in procs[Hk].todo
<1> DEFINE Gone ==
      /\ rows' = rows /\ versions' = versions
      /\ \/ \E p \in Workers : /\ Pending(p) /\ k = PendingKey(p)
                               /\ procs'[p] = Idle
         \/ \E p \in Procs : procs[p].pc = "purge_object" /\ k = procs[p].key
         \/ procs[Hk].pc = "sweep" /\ k \in procs[Hk].todo
<1>1. ASSUME objs' = objs PROVE FALSE
  BY <1>1
<1>2. ASSUME NEW j, NEW d, DOMAIN objs' = DOMAIN objs \cup {j} PROVE FALSE
  BY <1>2
<1>3. ASSUME NEW S, TryDelete(S) PROVE k \in S
  BY <1>3, DeleteTypes
<1>4. ASSUME NEW p \in Workers, Uploading(p) PROVE Gone
  <2>0. p \in Procs
    BY DEF Procs
  <2>1. CASE UploadPut(p) \/ UploadJsonPut(p)
    <3>1. PICK o : objs' = Put(o, nextId)
      BY <2>1 DEF UploadPut, UploadJsonPut
    <3> QED
      BY <1>2, <3>1 DEF Put, With
  <2>2. CASE CheckMagic(p)
    <3>1. procs[p].pc = "check" /\ Finish(p)
          /\ TryDelete({StorageKey(procs[p].org, procs[p].file)})
      BY <1>1, <2>2 DEF CheckMagic
    <3>2. k = PendingKey(p)
      BY <1>3, <3>1 DEF PendingKey
    <3> QED
      BY <2>0, <2>2, <3>1, <3>2, Moved DEF CheckMagic, Finish, Pending
  <2>3. CASE ~UploadPut(p) /\ ~UploadJsonPut(p) /\ ~CheckMagic(p)
    BY <1>1, <1>4, <2>3 DEF Uploading, InsertRow, PresignUpload, ConfirmRead,
       ConfirmHead, ConfirmCommit
  <2> QED
    BY <2>1, <2>2, <2>3
<1>5. ASSUME NEW p \in Workers, Trashing(p) \/ Abort(p) PROVE Gone
  BY <1>1, <1>5 DEF Trashing, Delete, Restore, Purge, EmptyTrash, BulkPurge,
     Abort
<1>6. ASSUME NEW p \in Procs, Purging(p) PROVE Gone
  <2>1. CASE PurgeObject(p)
    BY <1>3, <2>1 DEF PurgeObject
  <2>2. CASE PurgeRow(p) \/ PurgeDone(p)
    BY <1>1, <2>2 DEF PurgeRow, PurgeDone
  <2> QED
    BY <1>6, <2>1, <2>2 DEF Purging
<1>7. ASSUME NEW p \in Workers, Editing(p) PROVE Gone
  <2>1. CASE PutVersion(p)
    <3>1. PICK o : objs' = Put(o, nextId)
      BY <2>1 DEF PutVersion
    <3> QED
      BY <1>2, <3>1 DEF Put, With
  <2>2. CASE ~PutVersion(p)
    BY <1>1, <1>7, <2>2 DEF Editing, CreateVersionRead, RestoreVersionRead,
       SnapshotCurrent, CommitVersion
  <2> QED
    BY <2>1, <2>2
<1>8. ASSUME Sweeping PROVE Gone
  <2>1. CASE HkSweep
    <3>1. PICK j \in procs[Hk].todo : TryDelete({j})
      BY <2>1 DEF HkSweep
    <3>2. k \in procs[Hk].todo
      BY <1>3, <3>1
    <3> QED
      BY <2>1, <3>2 DEF HkSweep
  <2>2. CASE ~HkSweep
    BY <1>1, <1>8, <2>2 DEF Sweeping, HkStart, HkKnown, HkList, HkDone, HkFail
  <2> QED
    BY <2>1, <2>2
<1>9. ASSUME Passing PROVE Gone
  <2>1. CASE ClientPut
    <3>1. PICK o : objs' = Put(o, o[2])
      BY <2>1 DEF ClientPut
    <3> QED
      BY <1>2, <3>1 DEF Put, With
  <2>2. CASE HourPasses \/ MonthPasses
    BY <2>2 DEF HourPasses, MonthPasses, Aged
  <2> QED
    BY <1>9, <2>1, <2>2 DEF Passing
<1>10. Gone
  BY <1>4, <1>5, <1>6, <1>7, <1>8, <1>9 DEF CalmNext
<1> QED
  BY <1>10

\* Nobody deletes what a row names, what a request that will insert a row has
\* put, or what an edit will store; and without a sweep nothing that is in use.
LEMMA NeededStays ==
    ASSUME TypeInv, OpsInv, KeyInv, SweepInv, CalmNext,
           NEW k \in DOMAIN objs, k \notin DOMAIN objs'
    PROVE  /\ \A f \in DOMAIN rows : rows[f].key # k
           /\ \A p \in Procs : Pending(p) /\ Pending(p)' => PendingKey(p) # k
           /\ \A p \in Procs :
                procs[p].pc = "commit" /\ procs[p].file \in DOMAIN rows
                  => procs[p].key # k
           /\ "housekeeping" \notin load.ops => \A f \in DOMAIN rows : ~Uses(f, k)
<1>0. /\ DOMAIN rows \subseteq Ids /\ k \in Keys /\ Hk \in Procs
      /\ \A p \in Workers : p \in Procs
  BY DEF TypeInv, TypeOK, Procs
<1>1. ASSUME NEW f \in DOMAIN rows, rows[f].key = k PROVE Uses(f, k)
  BY <1>1 DEF Uses
<1>2. ASSUME NEW p \in Procs, procs[p].pc = "commit", procs[p].key = k
      PROVE  Uses(procs[p].file, k)
  BY <1>2 DEF Uses, Holds
<1>3. CASE \E p \in Workers : Pending(p) /\ k = PendingKey(p) /\ procs'[p] = Idle
  <2>1. PICK p \in Workers : Pending(p) /\ k = PendingKey(p) /\ procs'[p] = Idle
    BY <1>3
  <2>2. \A f \in Ids : ~Uses(f, k)
    BY <1>0, <2>1 DEF KeyInv
  <2>3. ASSUME NEW q \in Procs, Pending(q), Pending(q)', PendingKey(q) = k
        PROVE  FALSE
    <3>1. q # p
      BY <2>1, <2>3 DEF Pending, Idle
    <3>2. procs[q].file # procs[p].file
      BY <1>0, <2>1, <2>3, <3>1 DEF KeyInv
    <3> QED
      BY <1>0, <2>1, <2>3, <3>2, Locals
  <2> QED
    BY <1>0, <1>1, <1>2, <2>2, <2>3
<1>4. CASE \E p \in Procs : procs[p].pc = "purge_object" /\ k = procs[p].key
  <2>1. \A f \in DOMAIN rows : ~Uses(f, k)
    BY <1>4 DEF KeyInv
  <2>2. \A q \in Procs : Pending(q) => PendingKey(q) # k
    BY <1>4 DEF KeyInv
  <2> QED
    BY <1>1, <1>2, <2>1, <2>2
<1>5. CASE procs[Hk].pc = "sweep" /\ k \in procs[Hk].todo
  <2>1. "housekeeping" \in load.ops
    BY <1>5 DEF OpsInv, Idle
  <2> QED
    BY <1>5, <2>1 DEF SweepInv
<1> QED
  BY <1>3, <1>4, <1>5, Deletes

\* A file that is in use gets no row that it had not.
LEMMA KnownStays ==
    ASSUME TypeInv, OpsInv, DrawnInv, KeyInv, CalmNext,
           NEW f \in Ids, Knows(f), f \in DOMAIN rows'
    PROVE  f \in DOMAIN rows
<1>1. ASSUME NEW p \in Workers, InsertRow(p), f = procs[p].file PROVE FALSE
  BY <1>1 DEF InsertRow, KeyInv, Pending, Procs
<1>2. f < nextId /\ nextId \in Nat /\ f \in Nat
  BY DEF DrawnInv, TypeInv, TypeOK, Ids
<1> QED
  BY <1>1, <1>2, RowsStep

\* A row becomes live when an upload is confirmed or the trash restored.
LEMMA BecomesLive ==
    ASSUME TypeInv, CalmNext, NEW f \in DOMAIN rows, f \in DOMAIN rows',
           rows[f].trash # "live", rows'[f].trash = "live"
    PROVE  \/ "restore" \in load.ops
           \/ \E p \in Workers : /\ procs[p].pc = "confirm" /\ procs[p].file = f
                                 /\ rows'[f].key = rows[f].key /\ objs' = objs
           \/ \E p \in Workers : InsertRow(p) /\ f = procs[p].file
<1>0. rows[f] \in RowSet
  BY DEF TypeInv, TypeOK
<1> DEFINE Why ==
      \/ "restore" \in load.ops
      \/ \E p \in Workers : /\ procs[p].pc = "confirm" /\ procs[p].file = f
                            /\ rows'[f].key = rows[f].key /\ objs' = objs
      \/ \E p \in Workers : InsertRow(p) /\ f = procs[p].file
<1>1. ASSUME rows'[f] = rows[f] PROVE FALSE
  BY <1>1
<1>2. ASSUME NEW p \in Workers, Uploading(p) PROVE Why
  <2>1. CASE InsertRow(p)
    BY <1>1, <2>1 DEF InsertRow, With
  <2>2. CASE PresignUpload(p)
    <3>1. rows'[f] = rows[f] \/ rows'[f].trash = "trashed"
      BY <2>2 DEF PresignUpload, With
    <3> QED
      BY <1>1, <3>1
  <2>3. CASE ConfirmCommit(p)
    <3>1. \/ rows'[f] = rows[f]
          \/ f = procs[p].file /\ rows'[f].key = rows[f].key
      BY <1>0, <2>3 DEF ConfirmCommit, RowSet
    <3> QED
      BY <1>1, <2>3, <3>1 DEF ConfirmCommit
  <2>4. CASE \/ UploadPut(p) \/ UploadJsonPut(p) \/ CheckMagic(p)
             \/ ConfirmRead(p) \/ ConfirmHead(p)
    BY <1>1, <2>4 DEF UploadPut, UploadJsonPut, CheckMagic, ConfirmRead,
       ConfirmHead
  <2> QED
    BY <1>2, <2>1, <2>2, <2>3, <2>4 DEF Uploading
<1>3. ASSUME NEW p \in Workers, Delete(p) PROVE Why
  <2>1. rows'[f] = rows[f] \/ rows'[f].trash = "trashed"
    BY <1>0, <1>3 DEF Delete, RowSet
  <2> QED
    BY <1>1, <2>1
<1>4. ASSUME NEW p \in Workers, Restore(p) PROVE Why
  BY <1>4 DEF Restore, Start
<1>5. ASSUME NEW p \in Workers,
             Purge(p) \/ EmptyTrash(p) \/ BulkPurge(p) \/ Abort(p)
      PROVE  Why
  BY <1>1, <1>5 DEF Purge, EmptyTrash, BulkPurge, Abort
<1>6. ASSUME NEW p \in Procs, Purging(p) PROVE Why
  BY <1>1, <1>6 DEF Purging, PurgeRow, PurgeObject, PurgeDone, Without, Restrict
<1>7. ASSUME NEW p \in Workers, Editing(p) PROVE Why
  <2>1. CASE CommitVersion(p)
    <3>1. rows'[f].trash = rows[f].trash
      BY <1>0, <2>1 DEF CommitVersion, RowSet
    <3> QED
      BY <3>1
  <2>2. CASE ~CommitVersion(p)
    BY <1>1, <1>7, <2>2 DEF Editing, CreateVersionRead, RestoreVersionRead,
       SnapshotCurrent, PutVersion
  <2> QED
    BY <2>1, <2>2
<1>8. ASSUME Sweeping \/ ClientPut \/ HourPasses PROVE Why
  BY <1>1, <1>8 DEF Sweeping, HkStart, HkKnown, HkList, HkSweep, HkDone,
     HkFail, ClientPut, HourPasses
<1>9. ASSUME MonthPasses PROVE Why
  <2>1. rows'[f] = rows[f] \/ rows'[f].trash = "expired"
    BY <1>0, <1>9 DEF MonthPasses, RowSet
  <2> QED
    BY <1>1, <2>1
<1>10. Why
  BY <1>2, <1>3, <1>4, <1>5, <1>6, <1>7, <1>8, <1>9 DEF CalmNext, Trashing, Passing
<1> QED
  BY <1>10

\* Versions keep their objects while nothing is swept.
LEMMA HistoryStep ==
    ASSUME TypeInv, TypeInv', OpsInv, DrawnInv, KeyInv, HistoryInv, ObjectInv,
           SweepInv, CalmNext, load'.ops = load.ops
    PROVE  HistoryInv'
<1> SUFFICES ASSUME "housekeeping" \notin load.ops
             PROVE  /\ \A v \in versions' : Solid(v.sha) => v.key \in DOMAIN objs'
                    /\ \A p \in Procs :
                         procs'[p].pc = "snapshot" /\ procs'[p].file \in DOMAIN rows' =>
                           /\ Solid(procs'[p].row.sha)
                                => procs'[p].row.key \in DOMAIN objs'
                           /\ procs'[p].op = "restore" /\ Solid(procs'[p].sha)
                                => procs'[p].key \in DOMAIN objs'
  BY DEF HistoryInv, Solid
<1>0. /\ DOMAIN rows \subseteq Ids /\ \A v \in versions : v.key \in Keys
      /\ \A f \in DOMAIN rows : rows[f] \in RowSet
      /\ \A p \in Workers : p \in Procs
  BY DEF TypeInv, TypeOK, VersionSet, Procs
<1>1. ASSUME NEW f \in DOMAIN rows, NEW k \in DOMAIN objs, Uses(f, k)
      PROVE  k \in DOMAIN objs'
  BY <1>1, NeededStays
<1>2. ASSUME NEW v \in versions', Solid(v.sha) PROVE v.key \in DOMAIN objs'
  <2>1. CASE v \in versions
    <3>1. v.file \in DOMAIN rows /\ Uses(v.file, v.key) /\ v.key \in DOMAIN objs
      BY <1>2, <2>1 DEF KeyInv, Uses, HistoryInv
    <3> QED
      BY <1>1, <3>1
  <2>2. ASSUME NEW p \in Workers, SnapshotCurrent(p),
               v.key = procs[p].row.key, v.sha = procs[p].row.sha
        PROVE  v.key \in DOMAIN objs'
    BY <1>0, <1>2, <2>2 DEF SnapshotCurrent, HistoryInv
  <2> QED
    BY <1>2, <2>1, <2>2, Checksums
<1>3. ASSUME NEW p \in Procs, procs'[p].pc = "snapshot",
             procs'[p].file \in DOMAIN rows'
      PROVE  /\ Solid(procs'[p].row.sha) => procs'[p].row.key \in DOMAIN objs'
             /\ procs'[p].op = "restore" /\ Solid(procs'[p].sha)
                  => procs'[p].key \in DOMAIN objs'
  <2>1. CASE procs'[p] = procs[p]
    <3>1. /\ procs[p].file \in Ids /\ procs[p].row.key \in Keys
          /\ procs[p].op = "restore" => procs[p].key \in Keys
      BY <1>3, <2>1, Locals DEF RowSet
    <3>2. /\ Uses(procs[p].file, procs[p].row.key)
          /\ procs[p].op = "restore" => Uses(procs[p].file, procs[p].key)
      BY <1>3, <2>1 DEF Uses, Holds
    <3>3. Knows(procs[p].file)
      BY <3>1, <3>2 DEF Knows
    <3>4. procs[p].file \in DOMAIN rows
      BY <1>3, <2>1, <3>1, <3>3, KnownStays
    <3>5. /\ Solid(procs[p].row.sha) => procs[p].row.key \in DOMAIN objs
          /\ procs[p].op = "restore" /\ Solid(procs[p].sha)
               => procs[p].key \in DOMAIN objs
      BY <1>3, <2>1, <3>4 DEF HistoryInv
    <3> QED
      BY <1>1, <2>1, <3>2, <3>4, <3>5
  <2>2. CASE /\ CreateVersionRead(p) /\ procs'[p].op = "create"
             /\ procs'[p].file \in DOMAIN rows
             /\ procs'[p].row = rows[procs'[p].file]
    <3>1. objs' = objs /\ rows[procs'[p].file].trash = "live"
      <4>1. PICK f \in DOMAIN rows : rows[f].trash = "live" /\
              Goto(p, [pc |-> "snapshot", op |-> "create", file |-> f,
                       row |-> rows[f]])
        BY <2>2 DEF CreateVersionRead
      <4>2. procs'[p].file = f
        BY <4>1, Moved
      <4> QED
        BY <2>2, <4>1, <4>2 DEF CreateVersionRead
    <3> QED
      BY <2>2, <3>1 DEF ObjectInv, Needs, Solid
  <2>3. CASE /\ RestoreVersionRead(p) /\ procs'[p].file \in DOMAIN rows
             /\ procs'[p].row = rows[procs'[p].file]
             /\ \E v \in versions : /\ v.file = procs'[p].file
                  /\ procs'[p].key = v.key /\ procs'[p].sha = v.sha
    <3>1. objs' = objs /\ rows[procs'[p].file].trash = "live"
      <4>1. PICK f \in DOMAIN rows : \E v \in VersionsOf(f) :
              /\ rows[f].trash = "live"
              /\ Goto(p, [pc |-> "snapshot", op |-> "restore", file |-> f,
                          row |-> rows[f], key |-> v.key, sha |-> v.sha])
        BY <2>3 DEF RestoreVersionRead
      <4>2. procs'[p].file = f
        BY <4>1, Moved
      <4> QED
        BY <2>3, <4>1, <4>2 DEF RestoreVersionRead
    <3> QED
      BY <2>3, <3>1 DEF ObjectInv, Needs, Solid, HistoryInv
  <2> QED
    BY <1>3, <2>1, <2>2, <2>3, Checksums
<1> QED
  BY <1>2, <1>3

\* Where a confirmation has its file and key from.
LEMMA Confirms ==
    ASSUME TypeInv, CalmNext, NEW q \in Procs,
           procs'[q].pc \in {"head", "confirm"}
    PROVE  \/ procs'[q] = procs[q]
           \/ /\ rows' = rows /\ objs' = objs /\ procs'[q].pc = "head"
              /\ procs'[q].file \in DOMAIN rows
              /\ procs'[q].key = rows[procs'[q].file].key
           \/ /\ rows' = rows /\ objs' = objs /\ procs'[q].pc = "confirm"
              /\ procs[q].pc = "head" /\ procs[q].key \in DOMAIN objs
              /\ procs'[q].file = procs[q].file
<1>0. DOMAIN procs = Procs
  BY DEF TypeInv, TypeOK
<1>1. ASSUME procs'[q] # procs[q] PROVE q \in Workers /\ Uploading(q)
  <2>1. ASSUME NEW p \in Workers,
               Uploading(p) \/ Trashing(p) \/ Editing(p) \/ Abort(p)
        PROVE  q \in Workers /\ Uploading(q)
    <3>1. p = q
      BY <1>1, <2>1, Pcs DEF Procs
    <3> QED
      BY <1>1, <2>1, <3>1, Pcs DEF Procs, Idle
  <2>2. ASSUME NEW p \in Procs, Purging(p) PROVE FALSE
    BY <1>1, <2>2, Pcs
  <2>3. ASSUME Sweeping PROVE FALSE
    <3>1. procs[Hk] \in ProcState /\ Hk \in Procs /\ q = Hk
      BY <1>1, <2>3, Moved DEF TypeInv, TypeOK, Procs, Sweeping, HkStart,
         HkKnown, HkList, HkSweep, HkDone, HkFail, Finish
    <3>2. CASE HkSweep
      <4>1. procs[Hk] \in [pc : {"sweep"}, todo : SUBSET Keys]
        BY <3>1, <3>2 DEF HkSweep, ProcState, Idle, MoveState, MovePcs
      <4>2. \E k : procs'[Hk] = [procs[Hk] EXCEPT !.todo = @ \ {k}]
        BY <1>0, <3>1, <3>2 DEF HkSweep, Goto
      <4> QED
        BY <3>1, <4>1, <4>2
    <3>3. CASE HkStart \/ HkKnown \/ HkList \/ HkDone \/ HkFail
      BY <1>0, <3>1, <3>3 DEF HkStart, HkKnown, HkList, HkDone, HkFail, Finish,
         Goto, PurgeOf, Idle
    <3> QED
      BY <2>3, <3>2, <3>3 DEF Sweeping
  <2>4. ASSUME Passing PROVE FALSE
    BY <1>1, <2>4 DEF Passing, ClientPut, HourPasses, MonthPasses
  <2> QED
    BY <2>1, <2>2, <2>3, <2>4 DEF CalmNext
<1>2. CASE ConfirmRead(q)
  <2>1. PICK f \in DOMAIN rows :
          Goto(q, [pc |-> "head", file |-> f, key |-> rows[f].key])
    BY <1>2 DEF ConfirmRead
  <2> QED
    BY <1>2, <2>1, Moved DEF ConfirmRead
<1>3. CASE ConfirmHead(q)
  <2>1. procs[q] \in [pc : {"head"}, file : Ids, key : Keys]
    BY <1>3 DEF ConfirmHead, TypeInv, TypeOK, ProcState, Idle, MoveState, MovePcs
  <2>2. /\ procs[q].key \in DOMAIN objs
        /\ procs'[q] = [procs[q] EXCEPT !.pc = "confirm"]
    BY <1>0, <1>3 DEF ConfirmHead, Finish, Goto, Idle
  <2>3. procs'[q].pc = "confirm" /\ procs'[q].file = procs[q].file
    BY <2>1, <2>2
  <2> QED
    BY <1>3, <2>1, <2>2, <2>3 DEF ConfirmHead
<1>4. CASE CheckMagic(q)
  <2>1. procs[q] \in [pc : {"check"}, file : Ids, org : Spaces]
    BY <1>4 DEF CheckMagic, TypeInv, TypeOK, ProcState, Idle, MoveState, MovePcs
  <2> QED
    BY <1>0, <1>4, <2>1 DEF CheckMagic, Finish, Goto, Idle
<1>5. CASE \/ UploadPut(q) \/ UploadJsonPut(q) \/ InsertRow(q)
           \/ PresignUpload(q) \/ ConfirmCommit(q)
  BY <1>0, <1>5 DEF UploadPut, UploadJsonPut, InsertRow, PresignUpload,
     ConfirmCommit, Finish, Goto, Idle
<1> QED
  BY <1>1, <1>2, <1>3, <1>4, <1>5 DEF Uploading

\* The rows have the objects they need.
LEMMA ObjectStep ==
    ASSUME TypeInv, TypeInv', Calm, OpsInv, DrawnInv, KeyInv, HistoryInv,
           ObjectInv, SweepInv, CalmNext, load'.ops = load.ops
    PROVE  ObjectInv'
<1>0. /\ DOMAIN rows \subseteq Ids /\ nextId \in Nat /\ \A f \in Ids : f \in Nat
      /\ \A p \in Workers : p \in Procs
      /\ \A f \in DOMAIN rows : f < nextId
  <2>1. \A f \in DOMAIN rows : Knows(f)
    BY DEF Knows, Uses, TypeInv, TypeOK, RowSet
  <2> QED
    BY <2>1 DEF DrawnInv, TypeInv, TypeOK, Ids, Procs
<1>1. ASSUME NEW f \in DOMAIN rows, rows[f].key \in DOMAIN objs
      PROVE  rows[f].key \in DOMAIN objs'
  BY <1>1, NeededStays
<1>2. ASSUME NEW p \in Workers, InsertRow(p)
      PROVE  PendingKey(p) \in DOMAIN objs' /\ procs[p].file \notin DOMAIN rows
  BY <1>0, <1>2 DEF InsertRow, ObjectInv, KeyInv, Pending
<1>3. ASSUME NEW p \in Workers, CommitVersion(p), procs[p].file \in DOMAIN rows,
             Solid(procs[p].sha)
      PROVE  procs[p].key \in DOMAIN objs'
  BY <1>0, <1>3 DEF CommitVersion, ObjectInv
<1>4. ASSUME NEW p \in Workers, CommitVersion(p), procs[p].file \in DOMAIN rows'
      PROVE  procs[p].file \in DOMAIN rows
  BY <1>4 DEF CommitVersion
<1>5. ASSUME NEW f \in DOMAIN rows', Needs(rows[f])'
      PROVE  rows'[f].key \in DOMAIN objs'
  <2>0. rows'[f].sha # 0 \/ (rows'[f].trash = "live" /\ "restore" \notin load.ops)
    BY <1>5 DEF Needs
  <2>1. CASE /\ f \in DOMAIN rows /\ rows'[f].key = rows[f].key
             /\ rows'[f].sha = rows[f].sha
    <3>1. CASE Needs(rows[f])
      BY <1>1, <2>1, <3>1 DEF ObjectInv
    <3>2. CASE ~Needs(rows[f])
      <4>1. rows[f].trash # "live" /\ rows'[f].trash = "live"
            /\ "restore" \notin load.ops
        BY <2>0, <2>1, <3>2 DEF Needs
      <4>2. PICK p \in Workers : /\ procs[p].pc = "confirm" /\ procs[p].file = f
                                 /\ objs' = objs
        BY <1>2, <2>1, <4>1, BecomesLive
      <4> QED
        BY <1>0, <2>1, <4>1, <4>2 DEF ObjectInv
    <3> QED
      BY <3>1, <3>2
  <2>2. ASSUME NEW p \in Workers, CommitVersion(p), f = procs[p].file,
               rows'[f].key = procs[p].key, rows'[f].sha = procs[p].sha
        PROVE  rows'[f].key \in DOMAIN objs'
    BY <1>3, <1>4, <2>0, <2>2 DEF Solid
  <2>3. ASSUME NEW p \in Workers, InsertRow(p), rows'[f].key = PendingKey(p)
        PROVE  rows'[f].key \in DOMAIN objs'
    BY <1>2, <2>3
  <2> QED
    BY <2>0, <2>1, <2>2, <2>3, Checksums
<1>6. ASSUME NEW p \in Procs, Pending(p)' PROVE PendingKey(p)' \in DOMAIN objs'
  <2>1. CASE /\ Pending(p) /\ procs'[p].file = procs[p].file
             /\ procs'[p].org = procs[p].org
    <3>1. PendingKey(p)' = PendingKey(p) /\ PendingKey(p) \in DOMAIN objs
      BY <2>1 DEF PendingKey, ObjectInv
    <3> QED
      BY <1>6, <2>1, <3>1, NeededStays
  <2>2. CASE UploadPut(p)
    <3>1. /\ procs'[p] = [pc |-> "check", file |-> nextId, org |-> Personal]
          /\ objs' = Put(StorageKey(Personal, nextId), nextId)
      BY <2>2, Moved DEF UploadPut
    <3> QED
      BY <3>1 DEF PendingKey, Put, With
  <2>3. CASE UploadJsonPut(p)
    <3>1. PICK o \in Spaces :
            /\ Goto(p, [pc |-> "insert", file |-> nextId, org |-> o])
            /\ objs' = Put(StorageKey(o, nextId), nextId)
      BY <2>3 DEF UploadJsonPut
    <3>2. procs'[p] = [pc |-> "insert", file |-> nextId, org |-> o]
      BY <3>1, Moved
    <3> QED
      BY <3>1, <3>2 DEF PendingKey, Put, With
  <2> QED
    BY <1>6, <2>1, <2>2, <2>3, PendingStep
<1>7. ASSUME NEW p \in Procs, procs'[p].pc = "commit",
             procs'[p].file \in DOMAIN rows', Solid(procs'[p].sha)
      PROVE  procs'[p].key \in DOMAIN objs'
  <2>1. CASE procs'[p] = procs[p]
    <3>1. /\ procs[p].file \in Ids /\ procs[p].key \in Keys
          /\ Uses(procs[p].file, procs[p].key)
      BY <1>7, <2>1, Locals DEF Uses, Holds
    <3>2. procs[p].file \in DOMAIN rows
      BY <1>7, <2>1, <3>1, KnownStays DEF Knows
    <3> QED
      BY <1>7, <2>1, <3>2, NeededStays DEF ObjectInv
  <2>2. CASE PutVersion(p) /\ procs'[p].key = StorageKey(procs[p].org, nextId)
    BY <2>2 DEF PutVersion, Put, With
  <2>3. CASE /\ SnapshotCurrent(p) /\ p \in Workers /\ procs[p].op = "restore"
             /\ procs'[p].key = procs[p].key /\ procs'[p].sha = procs[p].sha
    <3>1. "housekeeping" \notin load.ops
      BY <2>3 DEF SnapshotCurrent, OpsInv, Calm
    <3> QED
      BY <1>7, <2>3, <3>1 DEF SnapshotCurrent, HistoryInv
  <2> QED
    BY <1>7, <2>1, <2>2, <2>3, Checksums
\* Where nothing is restored, the key of a file that a confirmation works on.
<1>8. ASSUME "restore" \notin load.ops, NEW f \in DOMAIN rows', f < nextId,
             NEW k, f \in DOMAIN rows => rows[f].key \in DOMAIN objs \cup {k}
      PROVE  rows'[f].key \in DOMAIN objs' \cup {k}
  <2>1. CASE f \in DOMAIN rows /\ rows'[f].key = rows[f].key
    BY <1>1, <1>8, <2>1
  <2>2. ASSUME NEW p \in Workers, CommitVersion(p), f = procs[p].file,
               rows'[f].key = procs[p].key
        PROVE  rows'[f].key \in DOMAIN objs' \cup {k}
    BY <1>3, <1>4, <1>8, <2>2 DEF Solid
  <2>3. ASSUME NEW p \in Workers, InsertRow(p), rows'[f].key = PendingKey(p)
        PROVE  rows'[f].key \in DOMAIN objs' \cup {k}
    BY <1>2, <2>3
  <2> QED
    BY <1>0, <1>8, <2>1, <2>2, <2>3, Checksums
<1>9. ASSUME "restore" \notin load.ops, NEW p \in Procs, procs'[p].pc = "head",
             procs'[p].file \in DOMAIN rows'
      PROVE  rows'[procs'[p].file].key \in DOMAIN objs' \cup {procs'[p].key}
  <2>1. CASE procs'[p] = procs[p]
    <3>1. procs[p].file < nextId
      BY <1>9, <2>1 DEF DrawnInv
    <3>2. procs[p].file \in DOMAIN rows =>
            rows[procs[p].file].key \in DOMAIN objs \cup {procs[p].key}
      BY <1>9, <2>1 DEF ObjectInv
    <3> QED
      BY <1>8, <1>9, <2>1, <3>1, <3>2
  <2> QED
    BY <1>9, <2>1, Confirms
<1>10. ASSUME "restore" \notin load.ops, NEW p \in Procs, procs'[p].pc = "confirm",
              procs'[p].file \in DOMAIN rows'
       PROVE  rows'[procs'[p].file].key \in DOMAIN objs'
  <2>1. CASE procs'[p] = procs[p]
    <3>1. procs[p].file < nextId
      BY <1>10, <2>1 DEF DrawnInv
    <3>2. procs[p].file \in DOMAIN rows =>
            rows[procs[p].file].key \in DOMAIN objs
      BY <1>10, <2>1 DEF ObjectInv
    <3>3. CASE procs[p].file \in DOMAIN rows
      BY <1>8, <1>10, <2>1, <3>1, <3>2, <3>3
    <3>4. CASE procs[p].file \notin DOMAIN rows
      <4>1. PICK q \in Workers : InsertRow(q) /\ procs[p].file = procs[q].file
        BY <1>0, <1>10, <2>1, <3>1, <3>4, RowsStep
      <4>2. rows'[procs[p].file].key = PendingKey(q)
        BY <4>1 DEF InsertRow, With, PendingKey
      <4> QED
        BY <1>2, <2>1, <4>1, <4>2
    <3> QED
      BY <3>3, <3>4
  <2>2. CASE /\ rows' = rows /\ objs' = objs /\ procs[p].pc = "head"
             /\ procs[p].key \in DOMAIN objs /\ procs'[p].file = procs[p].file
    BY <1>10, <2>2 DEF ObjectInv
  <2> QED
    BY <1>10, <2>1, <2>2, Confirms
<1> QED
  BY <1>5, <1>6, <1>7, <1>9, <1>10 DEF ObjectInv, Solid

\* Objects grow old only while no request runs.
LEMMA StaysYoung ==
    ASSUME TypeInv, CalmNext
    PROVE  \/ \A k \in Keys : Young(k) => Young(k)'
           \/ Quiet /\ procs' = procs
<1> DEFINE Kept == \A k \in Keys : Young(k) => Young(k)'
<1>1. ASSUME objs' = objs PROVE Kept
  BY <1>1 DEF Young
<1>2. ASSUME NEW S, TryDelete(S) PROVE Kept
  BY <1>2, DeleteTypes DEF Young
<1>3. ASSUME NEW j, NEW d, objs' = Put(j, d) PROVE Kept
  BY <1>3 DEF Put, With, Young
<1>4. ASSUME NEW p \in Workers, Uploading(p) PROVE Kept
  <2>1. CASE UploadPut(p) \/ UploadJsonPut(p)
    <3>1. PICK o : objs' = Put(o, nextId)
      BY <2>1 DEF UploadPut, UploadJsonPut
    <3> QED
      BY <3>1 DEF Put, With, Young
  <2>2. CASE CheckMagic(p)
    BY <1>1, <1>2, <2>2 DEF CheckMagic
  <2>3. CASE ~UploadPut(p) /\ ~UploadJsonPut(p) /\ ~CheckMagic(p)
    BY <1>1, <1>4, <2>3 DEF Uploading, InsertRow, PresignUpload, ConfirmRead,
       ConfirmHead, ConfirmCommit
  <2> QED
    BY <2>1, <2>2, <2>3
<1>5. ASSUME NEW p \in Workers, Trashing(p) \/ Abort(p) PROVE Kept
  BY <1>1, <1>5 DEF Trashing, Delete, Restore, Purge, EmptyTrash, BulkPurge,
     Abort
<1>6. ASSUME NEW p \in Procs, Purging(p) PROVE Kept
  BY <1>1, <1>2, <1>6 DEF Purging, PurgeRow, PurgeObject, PurgeDone
<1>7. ASSUME NEW p \in Workers, Editing(p) PROVE Kept
  <2>1. CASE PutVersion(p)
    <3>1. PICK o : objs' = Put(o, nextId)
      BY <2>1 DEF PutVersion
    <3> QED
      BY <3>1 DEF Put, With, Young
  <2>2. CASE ~PutVersion(p)
    BY <1>1, <1>7, <2>2 DEF Editing, CreateVersionRead, RestoreVersionRead,
       SnapshotCurrent, CommitVersion
  <2> QED
    BY <2>1, <2>2
<1>8. ASSUME Sweeping PROVE Kept
  <2>1. objs' = objs \/ \E S : TryDelete(S)
    BY <1>8 DEF Sweeping, HkStart, HkKnown, HkList, HkSweep, HkDone, HkFail
  <2> QED
    BY <1>1, <1>2, <2>1
<1>9. ASSUME ClientPut PROVE Kept
  BY <1>9 DEF ClientPut, Put, With, Young
<1>10. ASSUME HourPasses \/ MonthPasses PROVE Quiet /\ procs' = procs
  BY <1>10 DEF HourPasses, MonthPasses
<1> QED
  BY <1>4, <1>5, <1>6, <1>7, <1>8, <1>9, <1>10 DEF CalmNext, Passing

\* What the sweep knows, and what it has still to do.
LEMMA SweepLocals ==
    ASSUME TypeInv, OpsInv, CalmNext, procs'[Hk].pc \in {"list", "sweep"}
    PROVE  \/ procs'[Hk] = procs[Hk] /\ known' = known
           \/ HkKnown /\ procs'[Hk].pc = "list"
           \/ /\ HkList /\ procs[Hk].pc = "list" /\ procs'[Hk].pc = "sweep"
              /\ \A k \in procs'[Hk].todo :
                   k \in DOMAIN objs /\ objs[k].old /\ k \notin known
           \/ /\ HkSweep /\ procs[Hk].pc = "sweep" /\ procs'[Hk].pc = "sweep"
              /\ procs'[Hk].todo \subseteq procs[Hk].todo
<1>0. Hk \in Procs /\ Hk \notin Workers /\ DOMAIN procs = Procs
  BY FileStoreAssumption DEF Procs, Hk, TypeInv, TypeOK
<1>1. ASSUME NEW p \in Workers,
             Uploading(p) \/ Trashing(p) \/ Editing(p) \/ Abort(p)
      PROVE  procs'[Hk] = procs[Hk] /\ known' = known
  <2>1. procs'[Hk] = procs[Hk]
    BY <1>0, <1>1, Pcs DEF Procs
  <2>2. known' = known
    BY <1>1 DEF Uploading, UploadPut, CheckMagic, UploadJsonPut, InsertRow,
       PresignUpload, ConfirmRead, ConfirmHead, ConfirmCommit, Trashing, Delete,
       Restore, Purge, EmptyTrash, BulkPurge, Editing, CreateVersionRead,
       RestoreVersionRead, SnapshotCurrent, PutVersion, CommitVersion, Abort
  <2> QED
    BY <2>1, <2>2
<1>2. ASSUME NEW p \in Procs, Purging(p)
      PROVE  procs'[Hk] = procs[Hk] /\ known' = known
  <2>1. p # Hk
    BY <1>2, Pcs
  <2> QED
    BY <1>0, <1>2, <2>1, Pcs DEF Purging, PurgeRow, PurgeObject, PurgeDone
<1>3. CASE HkStart \/ HkDone \/ HkFail
  BY <1>0, <1>3 DEF HkStart, HkDone, HkFail, Finish, Goto, PurgeOf, Idle
<1>4. CASE HkKnown
  BY <1>0, <1>4 DEF HkKnown, Goto
<1>5. CASE HkList
  <2>1. PICK L : /\ L \subseteq DOMAIN objs
                 /\ Goto(Hk, [pc |-> "sweep", todo |-> Orphans(L)])
    BY <1>5 DEF HkList, Listings
  <2>2. procs'[Hk].pc = "sweep" /\ procs'[Hk].todo = Orphans(L)
    BY <1>0, <2>1, Moved
  <2> QED
    BY <1>5, <2>1, <2>2 DEF HkList, Orphans
<1>6. CASE HkSweep
  <2>1. procs[Hk] \in [pc : {"sweep"}, todo : SUBSET Keys]
    BY <1>0, <1>6 DEF HkSweep, TypeInv, TypeOK, ProcState, Idle, MoveState,
       MovePcs
  <2>2. PICK k : Goto(Hk, [procs[Hk] EXCEPT !.todo = @ \ {k}])
    BY <1>6 DEF HkSweep
  <2>3. procs'[Hk].pc = "sweep" /\ procs'[Hk].todo \subseteq procs[Hk].todo
    BY <1>0, <2>1, <2>2, Moved
  <2> QED
    BY <1>6, <2>1, <2>3
<1>7. CASE Passing
  BY <1>7 DEF Passing, ClientPut, HourPasses, MonthPasses
<1> QED
  BY <1>1, <1>2, <1>3, <1>4, <1>5, <1>6, <1>7 DEF CalmNext, Sweeping

\* The sweep spares what rows name and what requests have just put.
LEMMA SweepStep ==
    ASSUME TypeInv, TypeInv', Calm, OpsInv, DrawnInv, KeyInv, SweepInv, CalmNext,
           load'.ops = load.ops
    PROVE  SweepInv'
<1>0. /\ nextId \in Nat /\ \A k \in Keys : k[2] \in Nat
      /\ \A p \in Workers : p \in Procs
      /\ \A f \in DOMAIN rows : rows[f].key \in Keys
      /\ \A f \in DOMAIN rows' : rows'[f].key \in Keys
      /\ DOMAIN objs \subseteq Keys /\ Hk \in Procs /\ Idle.pc = "idle"
  BY TypeInv' DEF TypeInv, TypeOK, RowSet, Keys, Ids, Procs, Idle
<1>1. ASSUME NEW p \in Procs, Pending(p)'
      PROVE  \/ /\ Pending(p) /\ PendingKey(p)' = PendingKey(p)
                /\ PendingKey(p) \in Keys
             \/ /\ PendingKey(p)'[2] = nextId
                /\ objs' = Put(PendingKey(p)', nextId)
                /\ procs'[Hk] = procs[Hk]
  <2>1. CASE /\ Pending(p) /\ procs'[p].file = procs[p].file
             /\ procs'[p].org = procs[p].org
    BY <2>1, Locals DEF PendingKey
  <2>2. CASE p \in Workers /\ UploadPut(p)
    <3>1. /\ procs'[p] = [pc |-> "check", file |-> nextId, org |-> Personal]
          /\ objs' = Put(StorageKey(Personal, nextId), nextId)
          /\ procs'[Hk] = procs[Hk]
      BY <1>0, <2>2, Moved, FileStoreAssumption DEF UploadPut, Hk
    <3> QED
      BY <3>1 DEF PendingKey, StorageKey
  <2>3. CASE p \in Workers /\ UploadJsonPut(p)
    <3>1. PICK o \in Spaces :
            /\ Goto(p, [pc |-> "insert", file |-> nextId, org |-> o])
            /\ objs' = Put(StorageKey(o, nextId), nextId)
      BY <2>3 DEF UploadJsonPut
    <3>2. /\ procs'[p] = [pc |-> "insert", file |-> nextId, org |-> o]
          /\ procs'[Hk] = procs[Hk]
      BY <1>0, <2>3, <3>1, Moved, FileStoreAssumption DEF Hk
    <3> QED
      BY <3>1, <3>2 DEF PendingKey, StorageKey
  <2> QED
    BY <1>1, <2>1, <2>2, <2>3, PendingStep
\* Nothing is at stake when time passes, for all are idle.
<1>2. ASSUME Quiet, procs' = procs PROVE SweepInv'
  BY <1>0, <1>2 DEF Quiet, SweepInv, Pending
<1>3. ASSUME \A k \in Keys : Young(k) => Young(k)' PROVE SweepInv'
  <2>1. ASSUME NEW p \in Procs, Pending(p)' PROVE Young(PendingKey(p))'
    <3>1. CASE /\ Pending(p) /\ PendingKey(p)' = PendingKey(p)
               /\ PendingKey(p) \in Keys
      <4>1. PICK k \in Keys : k = PendingKey(p)
        BY <3>1
      <4>2. Young(k)'
        BY <1>3, <3>1, <4>1 DEF SweepInv
      <4> QED
        BY <3>1, <4>1, <4>2
    <3>2. CASE objs' = Put(PendingKey(p)', nextId)
      BY <3>2 DEF Young, Put, With
    <3> QED
      BY <1>1, <2>1, <3>1, <3>2
  <2>2. ASSUME "restore_version" \notin load.ops, NEW p \in Procs,
               procs'[p].pc = "commit"
        PROVE  Young(procs[p].key)'
    <3>1. CASE procs'[p] = procs[p]
      <4>1. PICK k \in Keys : k = procs[p].key
        BY <2>2, <3>1, Locals
      <4>2. Young(k)'
        BY <1>3, <2>2, <3>1, <4>1 DEF SweepInv
      <4> QED
        BY <3>1, <4>1, <4>2
    <3>2. CASE PutVersion(p) /\ procs'[p].key = StorageKey(procs[p].org, nextId)
      BY <3>2 DEF PutVersion, Put, With, Young
    <3>3. CASE SnapshotCurrent(p) /\ p \in Workers /\ procs[p].op = "restore"
      BY <2>2, <3>3 DEF SnapshotCurrent, OpsInv
    <3> QED
      BY <2>2, <3>1, <3>2, <3>3, Checksums
  <2>3. procs'[Hk].pc \in {"list", "sweep"} => "restore_version" \notin load.ops
    <3>1. OpsInv'
      BY OpsStep
    <3> QED
      BY <1>0, <3>1 DEF OpsInv, Calm
  <2>4. ASSUME procs'[Hk].pc \in {"list", "sweep"}, NEW f \in DOMAIN rows'
        PROVE  rows'[f].key \in known' \/ Young(rows[f].key)'
    <3>1. PICK k \in Keys : k = rows'[f].key
      BY <1>0
    <3>2. CASE HkKnown
      BY <3>2 DEF HkKnown, KnownKeys
    <3>3. CASE ~HkKnown
      <4>1. procs[Hk].pc \in {"list", "sweep"} /\ known' = known
        BY <2>4, <3>3, SweepLocals DEF HkList, HkSweep
      <4>2. CASE f \in DOMAIN rows /\ k = rows[f].key
        BY <1>3, <3>1, <4>1, <4>2 DEF SweepInv
      <4>3. ASSUME NEW p \in Workers, CommitVersion(p), k = procs[p].key
            PROVE  Young(k)'
        BY <1>0, <1>3, <2>3, <2>4, <4>3 DEF SweepInv, CommitVersion
      <4>4. ASSUME NEW p \in Workers, InsertRow(p), k = PendingKey(p)
            PROVE  Young(k)'
        BY <1>0, <1>3, <4>4 DEF SweepInv, InsertRow, Pending
      <4>5. ASSUME NEW p \in Workers, PresignUpload(p), f = nextId
            PROVE  f \in DOMAIN rows \/ Young(k)'
        <5>1. f \in DOMAIN rows \/ k = StorageKey(Personal, nextId)
          BY <3>1, <4>5 DEF PresignUpload, With
        <5>2. k = StorageKey(Personal, nextId) => k \notin DOMAIN objs
          BY <1>0, <4>5 DEF DrawnInv, StorageKey
        <5> QED
          BY <4>5, <5>1, <5>2 DEF PresignUpload, Young
      <4>6. f \in DOMAIN rows => f # nextId
        <5>1. f \in DOMAIN rows => Knows(f) /\ f \in Ids
          BY <1>0 DEF Knows, Uses, TypeInv, TypeOK
        <5> QED
          BY <1>0, <5>1 DEF DrawnInv, Ids
      <4>7. k \in known' \/ Young(k)'
        BY <3>1, <4>2, <4>3, <4>4, <4>5, <4>6, Checksums
      <4> QED
        BY <3>1, <4>7
    <3> QED
      BY <3>2, <3>3
  <2>5. ASSUME procs'[Hk].pc = "sweep", NEW k \in procs'[Hk].todo
        PROVE  /\ \A f \in DOMAIN rows' : rows'[f].key # k
               /\ \A p \in Procs : Pending(p)' => PendingKey(p)' # k
               /\ \A p \in Procs : procs'[p].pc = "commit" => procs'[p].key # k
    <3>1. CASE HkList
      <4>1. k \in DOMAIN objs /\ objs[k].old /\ k \notin known
            /\ procs[Hk].pc = "list" /\ rows' = rows
        BY <2>5, <3>1, SweepLocals DEF HkList, HkKnown, HkSweep
      <4>2. \A f \in DOMAIN rows : rows[f].key # k
        BY <4>1 DEF SweepInv, Young
      <4>3. \A q \in Procs \ {Hk} : procs'[q] = procs[q]
        BY <1>0, <3>1, Moved DEF HkList
      <4>4. \A p \in Procs : Pending(p) => PendingKey(p) # k
        BY <4>1 DEF SweepInv, Young
      <4>5. \A p \in Procs : procs[p].pc = "commit" => procs[p].key # k
        BY <2>3, <2>5, <4>1 DEF SweepInv, Young
      <4> QED
        BY <2>5, <4>1, <4>2, <4>3, <4>4, <4>5 DEF Pending, PendingKey
    <3>2. CASE ~HkList
      <4>1. procs[Hk].pc = "sweep" /\ k \in procs[Hk].todo
        BY <2>5, <3>2, SweepLocals
      <4>2. /\ \A f \in DOMAIN rows : rows[f].key # k
            /\ \A p \in Procs : Pending(p) => PendingKey(p) # k
            /\ \A p \in Procs : procs[p].pc = "commit" => procs[p].key # k
            /\ k[2] < nextId /\ k \in Keys
        BY <1>0, <4>1, Locals DEF SweepInv, DrawnInv
      <4>3. ASSUME NEW f \in DOMAIN rows', rows'[f].key = k PROVE FALSE
        <5>1. ASSUME NEW p \in Workers, PresignUpload(p), f = nextId PROVE FALSE
          <6>1. f \in DOMAIN rows \/ k = StorageKey(Personal, nextId)
            BY <4>3, <5>1 DEF PresignUpload, With
          <6>2. CASE f \in DOMAIN rows
            <7>1. Knows(f) /\ f \in Ids
              BY <1>0, <6>2 DEF Knows, Uses, TypeInv, TypeOK
            <7> QED
              BY <1>0, <5>1, <7>1 DEF DrawnInv, Ids
          <6> QED
            BY <1>0, <4>2, <6>1, <6>2 DEF StorageKey
        <5>2. ASSUME NEW p \in Workers, CommitVersion(p), k = procs[p].key
              PROVE  FALSE
          BY <1>0, <4>2, <5>2 DEF CommitVersion
        <5>3. ASSUME NEW p \in Workers, InsertRow(p), k = PendingKey(p)
              PROVE  FALSE
          BY <1>0, <4>2, <5>3 DEF InsertRow, Pending
        <5> QED
          BY <4>2, <4>3, <5>1, <5>2, <5>3, Checksums
      <4>4. ASSUME NEW p \in Procs, Pending(p)', PendingKey(p)' = k PROVE FALSE
        BY <1>0, <1>1, <4>2, <4>4
      <4>5. ASSUME NEW p \in Procs, procs'[p].pc = "commit", procs'[p].key = k
            PROVE  FALSE
        <5>1. CASE procs'[p] = procs[p]
          BY <4>2, <4>5, <5>1
        <5>2. CASE procs'[p].key = StorageKey(procs[p].org, nextId)
          BY <1>0, <4>2, <4>5, <5>2 DEF StorageKey
        <5>3. CASE SnapshotCurrent(p) /\ p \in Workers /\ procs[p].op = "restore"
          BY <2>3, <2>5, <5>3 DEF SnapshotCurrent, OpsInv
        <5> QED
          BY <4>5, <5>1, <5>2, <5>3, Checksums
      <4> QED
        BY <4>3, <4>4, <4>5
    <3> QED
      BY <3>1, <3>2
  <2> QED
    BY <2>1, <2>2, <2>4, <2>5 DEF SweepInv
<1> QED
  BY <1>2, <1>3, StaysYoung

-----------------------------------------------------------------------------
(* The theorems *)

\* Keys, bytes and the deletions of a calm workload stay in order.
THEOREM SafeKept == Spec => []SafeInv
<1>1. Init => SafeInv
  <2> SUFFICES ASSUME Init PROVE SafeInv
    OBVIOUS
  <2>1. /\ DOMAIN rows = {} /\ DOMAIN objs = {} /\ versions = {} /\ urls = {}
        /\ \A p \in Procs : procs[p] = Idle
        /\ Hk \in Procs /\ Idle.pc = "idle"
        /\ \A p \in Workers : p \in Procs
    BY DEF Init, Procs, Idle
  <2>2. \A f, k : ~Uses(f, k)
    BY <2>1 DEF Uses, Holds
  <2>3. \A f : ~Knows(f)
    BY <2>1, <2>2 DEF Knows
  <2>4. \A p \in Procs : ~Pending(p)
    BY <2>1 DEF Pending
  <2>5. OpsInv
    BY <2>1 DEF OpsInv, MovePcs
  <2>6. DrawnInv /\ KeyInv /\ ShaInv
    BY <2>1, <2>2, <2>3, <2>4 DEF DrawnInv, KeyInv, ShaInv
  <2>7. HistoryInv /\ ObjectInv /\ SweepInv
    BY <2>1, <2>4 DEF HistoryInv, ObjectInv, SweepInv
  <2> QED
    BY <2>5, <2>6, <2>7 DEF SafeInv
<1>2. TypeInv /\ TypeInv' /\ SafeInv /\ [Next]_vars => SafeInv'
  <2> SUFFICES ASSUME TypeInv, TypeInv', SafeInv, [Next]_vars PROVE SafeInv'
    OBVIOUS
  <2>1. CASE UNCHANGED vars
    <3>1. /\ rows' = rows /\ versions' = versions /\ objs' = objs
          /\ urls' = urls /\ procs' = procs /\ known' = known
          /\ nextId' = nextId /\ load' = load
      BY <2>1 DEF vars
    <3>2. /\ \A f, k : Uses(f, k)' <=> Uses(f, k)
          /\ \A f : Knows(f)' <=> Knows(f)
      BY <3>1 DEF Uses, Knows
    <3> QED
      BY <3>1, <3>2 DEF SafeInv, Calm, OpsInv, DrawnInv, KeyInv, ShaInv,
         HistoryInv, ObjectInv, SweepInv, Pending, PendingKey, Solid, Needs, Young
  <2>2. CASE Next
    <3>1. load'.ops = load.ops
      BY <2>2, OpsFixed
    <3>2. CASE Calm
      <4>1. CalmNext
        BY <2>2, <3>2, CalmSteps DEF SafeInv
      <4> QED
        BY <3>1, <3>2, <4>1, OpsStep, DrawnStep, KeyStep, ShaStep, HistoryStep,
           ObjectStep, SweepStep DEF SafeInv
    <3>3. CASE ~Calm
      BY <3>1, <3>3 DEF SafeInv, Calm
    <3> QED
      BY <3>2, <3>3
  <2> QED
    BY <2>1, <2>2
<1> QED
  BY <1>1, <1>2, TypesKept, PTL DEF Spec

\* The operations are those of one of the workloads, throughout.
OpsOf == \E w \in Workloads : load.ops = w.ops

\* A behaviour keeps to the workload it took.
LEMMA WorkloadKept == Spec => []OpsOf
<1>1. Init => OpsOf
  BY DEF Init, OpsOf
<1>2. TypeInv /\ OpsOf /\ [Next]_vars => OpsOf'
  <2>1. ASSUME TypeInv, OpsOf, Next PROVE OpsOf'
    BY <2>1, OpsFixed DEF OpsOf
  <2>2. ASSUME OpsOf, UNCHANGED vars PROVE OpsOf'
    BY <2>2 DEF OpsOf, vars
  <2> QED
    BY <2>1, <2>2
<1> QED
  BY <1>1, <1>2, TypesKept, PTL DEF Spec

\* Where no workload moves files, nor restores versions beside a sweep, a row
\* with a checksum has the object, and the bytes, that it was taken of: no
\* interleaving of uploads, confirmations, deletions, restores, purges, edits
\* and sweeps leaves a file that cannot be downloaded or verified.
THEOREM RowsAreBacked ==
    ASSUME \A w \in Workloads :
             /\ "move" \notin w.ops
             /\ ~({"restore_version", "housekeeping"} \subseteq w.ops)
    PROVE  Spec => []RowIsBacked
<1>1. TypeInv /\ OpsOf /\ SafeInv => RowIsBacked
  <2> SUFFICES ASSUME TypeInv, OpsOf, SafeInv,
                      NEW f \in DOMAIN rows, rows[f].sha # 0
               PROVE  Backed(rows[f].key, rows[f].sha)
    BY DEF RowIsBacked
  <2>1. ShaInv /\ ObjectInv
    BY DEF OpsOf, SafeInv, Calm
  <2>2. rows[f].key \in DOMAIN objs
    BY <2>1 DEF ObjectInv, Needs
  <2>3. rows[f].sha = rows[f].key[2]
    BY <2>1 DEF ShaInv
  <2> QED
    BY <2>1, <2>2, <2>3 DEF ShaInv, Backed
<1> QED
  BY <1>1, TypesKept, WorkloadKept, SafeKept, PTL

\* In the same workloads every file in the list has its object, a presigned
\* upload included, as long as the trash is not restored.
THEOREM LiveRowsAreBacked ==
    ASSUME \A w \in Workloads :
             /\ "move" \notin w.ops
             /\ ~({"restore_version", "housekeeping"} \subseteq w.ops)
    PROVE  Spec => []LiveRowIsBacked
<1>1. OpsOf /\ SafeInv => LiveRowIsBacked
  <2> SUFFICES ASSUME OpsOf, SafeInv, "restore" \notin load.ops,
                      NEW f \in DOMAIN rows, rows[f].trash = "live"
               PROVE  rows[f].key \in DOMAIN objs
    BY DEF LiveRowIsBacked
  <2>1. ObjectInv
    BY DEF OpsOf, SafeInv, Calm
  <2> QED
    BY <2>1 DEF ObjectInv, Needs
<1> QED
  BY <1>1, WorkloadKept, SafeKept, PTL

\* Whatever the workloads: where a behaviour neither moves files nor sweeps,
\* every version with a checksum still has the bytes it was snapshotted with.
THEOREM VersionsAreBacked == Spec => []VersionIsBackedAtRest
<1>1. SafeInv => VersionIsBackedAtRest
  <2> SUFFICES ASSUME SafeInv, {"move", "housekeeping"} \cap load.ops = {},
                      NEW v \in versions, v.sha # 0
               PROVE  Backed(v.key, v.sha)
    BY DEF VersionIsBackedAtRest, VersionIsBacked
  <2>1. "move" \notin load.ops /\ "housekeeping" \notin load.ops
    OBVIOUS
  <2>2. ShaInv /\ HistoryInv
    BY <2>1 DEF SafeInv, Calm
  <2>3. v.key \in DOMAIN objs /\ v.sha = v.key[2]
    BY <2>1, <2>2 DEF ShaInv, HistoryInv, Solid
  <2> QED
    BY <2>2, <2>3 DEF ShaInv, Backed
<1> QED
  BY <1>1, SafeKept, PTL

-----------------------------------------------------------------------------
(* Moves, which a calm workload has not *)

Moving(p) ==
    \/ MoveRead(p) \/ MoveGet(p) \/ MovePut(p) \/ MoveCommit(p)
    \/ MoveDropOld(p) \/ MoveDropNew(p)

\* All the steps there are.
LEMMA Steps ==
    ASSUME Next
    PROVE  CalmNext \/ \E p \in Workers : Moving(p)
<1>1. ASSUME NEW p \in Workers, Begin(p)
      PROVE  Uploading(p) \/ Trashing(p) \/ Editing(p) \/ Moving(p)
  BY <1>1 DEF Begin, Uploading, Trashing, Editing, Moving
<1>2. ASSUME NEW p \in Workers, Continue(p)
      PROVE  Uploading(p) \/ Editing(p) \/ Purging(p) \/ Moving(p)
  BY <1>2 DEF Continue, Uploading, Editing, Purging, Moving
<1>3. ASSUME HkStep \/ HkFail PROVE Sweeping \/ Purging(Hk)
  BY <1>3 DEF HkStep, Sweeping, Purging
<1> QED
  BY <1>1, <1>2, <1>3 DEF Next, CalmNext, Passing, Procs

\* What a process that moves a file holds.
LEMMA MoveLocals ==
    ASSUME TypeInv, NEW p \in Procs, procs[p].pc \in MovePcs
    PROVE  /\ procs[p].file \in Ids /\ procs[p].org \in Spaces
           /\ procs[p].old \in Keys /\ procs[p].new \in Keys
           /\ procs[p].pc # "move_put" => procs[p] \in MoveState
           /\ procs[p].pc = "move_put" =>
                procs[p] \in [pc : {"move_put"}, file : Ids, org : Spaces,
                              old : Keys, new : Keys, data : Ids]
BY DEF TypeInv, TypeOK, ProcState, Idle, MoveState, MovePcs

\* A move changes the locals of its own process only, and stays a move until it
\* is over.
LEMMA MovingPcs ==
    ASSUME TypeInv, NEW p \in Workers, Moving(p)
    PROVE  /\ \A q \in Procs \ {p} : procs'[q] = procs[q]
           /\ procs'[p] = Idle \/ procs'[p].pc \in MovePcs
           /\ MoveRead(p) \/ procs[p].pc \in MovePcs
           /\ procs[p] = Idle \/ procs[p].pc \in MovePcs
           /\ nextId' = nextId /\ versions' = versions /\ urls' = urls
<1>0. p \in Procs /\ DOMAIN procs = Procs
  BY DEF Procs, TypeInv, TypeOK
<1>1. \E x : Goto(p, x)
  BY DEF Moving, MoveRead, MoveGet, MovePut, MoveCommit, MoveDropOld,
     MoveDropNew, Finish
<1>2. procs'[p] = Idle \/ procs'[p].pc \in MovePcs
  <2>1. CASE MoveCommit(p)
    <3>1. procs[p] \in MoveState
      BY <1>0, <2>1, MoveLocals DEF MoveCommit, MovePcs
    <3>2. \E x \in {"drop_old", "drop_new"} :
            procs'[p] = Idle \/ procs'[p] = [procs[p] EXCEPT !.pc = x]
      BY <1>0, <2>1 DEF MoveCommit, Goto
    <3> QED
      BY <3>1, <3>2 DEF MoveState, MovePcs
  <2>2. CASE ~MoveCommit(p)
    BY <1>0, <2>2 DEF Moving, MoveRead, MoveGet, MovePut, MoveDropOld,
       MoveDropNew, Finish, Goto, MovePcs
  <2> QED
    BY <2>1, <2>2
<1>3. /\ MoveRead(p) \/ procs[p].pc \in MovePcs
      /\ procs[p] = Idle \/ procs[p].pc \in MovePcs
  BY DEF Moving, MoveRead, MoveGet, MovePut, MoveCommit, MoveDropOld,
     MoveDropNew, Start, MovePcs
<1>4. nextId' = nextId /\ versions' = versions /\ urls' = urls
  BY DEF Moving, MoveRead, MoveGet, MovePut, MoveCommit, MoveDropOld,
     MoveDropNew
<1> QED
  BY <1>0, <1>1, <1>2, <1>3, <1>4, Moved

\* A move changes no more of the rows than the space and the key of one.
LEMMA MovingRows ==
    ASSUME TypeInv, NEW p \in Workers, Moving(p)
    PROVE  /\ DOMAIN rows' = DOMAIN rows
           /\ \A f \in DOMAIN rows :
                /\ rows'[f].sha = rows[f].sha /\ rows'[f].trash = rows[f].trash
                /\ \/ rows'[f].key = rows[f].key
                   \/ /\ MoveCommit(p) /\ f = procs[p].file
                      /\ rows'[f].key = procs[p].new
                      /\ procs[p].new # procs[p].old
<1>1. CASE rows' = rows
  BY <1>1
<1>2. CASE /\ MoveCommit(p) /\ procs[p].file \in DOMAIN rows
           /\ rows' = [rows EXCEPT ![procs[p].file] = MovedRow(@, procs[p])]
  BY <1>2 DEF MovedRow, TypeInv, TypeOK, RowSet
<1> QED
  BY <1>1, <1>2 DEF Moving, MoveRead, MoveGet, MovePut, MoveCommit, MoveDropOld,
     MoveDropNew

-----------------------------------------------------------------------------
(* What an edit replaces stays in the file's history, moves or not, if it is  *)
(* what the edit had read: its snapshot has it, and snapshots go only with    *)
(* the file, whose uuid is not used again.                                    *)

Edits(p) == procs[p].pc \in {"snapshot", "put_version", "commit"}

\* A file whose row is not inserted yet is neither another request's nor edited.
FreshInv ==
    /\ \A f \in DOMAIN rows : f < nextId
    /\ \A p \in Procs : Edits(p) => procs[p].file < nextId
    /\ \A p \in Procs : Pending(p) =>
         /\ procs[p].file < nextId /\ procs[p].file \notin DOMAIN rows
         /\ \A q \in Procs \ {p} :
              Pending(q) \/ Edits(q) => procs[q].file # procs[p].file

\* An edit that has taken its snapshot has what it read in a version.
SnapshotInv ==
    \A p \in Procs :
      Edits(p) /\ procs[p].pc # "snapshot" /\ procs[p].file \in DOMAIN rows =>
        \E v \in versions : v.file = procs[p].file /\ v.sha = procs[p].read

\* A row keeps its checksum unless an edit commits, and is new if it was not
\* there.
LEMMA ChecksumsKept ==
    ASSUME TypeInv, Next
    PROVE  /\ \A f \in DOMAIN rows' :
                \/ f \in DOMAIN rows /\ rows'[f].sha = rows[f].sha
                \/ \E p \in Workers :
                     \/ CommitVersion(p) /\ f = procs[p].file /\ f \in DOMAIN rows
                     \/ InsertRow(p) /\ f = procs[p].file
                     \/ PresignUpload(p) /\ f = nextId
           /\ \A v \in versions : v.file \in DOMAIN rows' => v \in versions'
           /\ nextId \in Nat /\ nextId' \in {nextId, nextId + 1}
<1>1. CASE CalmNext
  <2>1. \A f \in DOMAIN rows' :
                \/ f \in DOMAIN rows /\ rows'[f].sha = rows[f].sha
                \/ \E p \in Workers :
                     \/ CommitVersion(p) /\ f = procs[p].file /\ f \in DOMAIN rows
                     \/ InsertRow(p) /\ f = procs[p].file
                     \/ PresignUpload(p) /\ f = nextId
    <3>1. \A p \in Workers : CommitVersion(p) => DOMAIN rows' = DOMAIN rows
      BY DEF CommitVersion
    <3> QED
      BY <1>1, <3>1, Checksums
  <2>2. \A v \in versions : v.file \in DOMAIN rows' => v \in versions'
    <3>1. CASE \E f \in Ids : /\ rows' = Without(rows, {f})
                              /\ versions' = versions \ VersionsOf(f)
      BY <3>1 DEF Without, Restrict, VersionsOf
    <3>2. CASE versions' = versions \/ \E p \in Workers : SnapshotCurrent(p)
      BY <3>2 DEF SnapshotCurrent
    <3> QED
      BY <1>1, <3>1, <3>2, RowsStep
  <2> QED
    BY <1>1, <2>1, <2>2, Draws DEF TypeInv, TypeOK
<1>2. ASSUME NEW p \in Workers, Moving(p)
      PROVE  /\ \A f \in DOMAIN rows' :
                  f \in DOMAIN rows /\ rows'[f].sha = rows[f].sha
             /\ versions' = versions
             /\ nextId \in Nat /\ nextId' = nextId
  BY <1>2, MovingPcs, MovingRows DEF TypeInv, TypeOK
<1> QED
  BY <1>1, <1>2, Steps

\* A request that inserts a row had it to insert, or has just drawn its uuid.
LEMMA PendingKept ==
    ASSUME TypeInv, Next, NEW q \in Procs, Pending(q)'
    PROVE  /\ q \in Workers => ~InsertRow(q)
           /\ \/ Pending(q) /\ procs'[q].file = procs[q].file
                   /\ procs'[q].org = procs[q].org
              \/ /\ q \in Workers /\ (UploadPut(q) \/ UploadJsonPut(q))
                 /\ procs'[q].file = nextId /\ nextId' = nextId + 1
                 /\ rows' = rows
                 /\ \A r \in Procs \ {q} : procs'[r] = procs[r]
<1>0. DOMAIN procs = Procs /\ procs'[q].pc \in {"check", "insert"}
  BY DEF Pending, TypeInv, TypeOK
<1>1. q \in Workers => ~InsertRow(q)
  BY <1>0 DEF InsertRow, Finish, Goto, Idle
<1>2. ASSUME NEW p \in Workers, Moving(p) PROVE procs'[q] = procs[q]
  BY <1>0, <1>2, MovingPcs DEF Idle, MovePcs, Procs
<1>3. ASSUME q \in Workers, UploadPut(q) \/ UploadJsonPut(q)
      PROVE  /\ nextId' = nextId + 1 /\ rows' = rows
             /\ \A r \in Procs \ {q} : procs'[r] = procs[r]
  BY <1>0, <1>3, Moved DEF UploadPut, UploadJsonPut
<1>4. CASE procs'[q] = procs[q]
  BY <1>1, <1>4 DEF Pending
<1>5. CASE CalmNext
  BY <1>1, <1>3, <1>5, PendingStep
<1> QED
  BY <1>2, <1>4, <1>5, Steps

\* An edit starts by reading a row, snapshots it, and goes on with its file.
LEMMA EditsKept ==
    ASSUME TypeInv, Next, NEW q \in Procs, Edits(q)'
    PROVE  /\ q \in Workers => ~CommitVersion(q)
           /\ \/ procs'[q] = procs[q]
              \/ /\ q \in Workers /\ procs'[q].pc = "snapshot"
                 /\ procs'[q].file \in DOMAIN rows
                 /\ procs'[q].row = rows[procs'[q].file]
                 /\ rows' = rows
              \/ /\ q \in Workers /\ SnapshotCurrent(q)
                 /\ procs'[q].pc # "snapshot"
                 /\ procs'[q].file = procs[q].file
                 /\ procs'[q].read = procs[q].row.sha
              \/ /\ q \in Workers /\ PutVersion(q)
                 /\ procs'[q].pc # "snapshot"
                 /\ procs'[q].file = procs[q].file
                 /\ procs'[q].read = procs[q].read
<1>0. /\ DOMAIN procs = Procs
      /\ procs'[q].pc \in {"snapshot", "put_version", "commit"}
  BY DEF Edits, TypeInv, TypeOK
<1>1. q \in Workers => ~CommitVersion(q)
  BY <1>0 DEF CommitVersion, Finish, Goto, Idle
<1>2. ASSUME procs'[q] # procs[q] PROVE q \in Workers /\ Editing(q)
  <2>1. ASSUME NEW p \in Workers, Moving(p) PROVE FALSE
    BY <1>0, <1>2, <2>1, MovingPcs DEF Idle, MovePcs, Procs
  <2>2. ASSUME NEW p \in Workers,
               Uploading(p) \/ Trashing(p) \/ Editing(p) \/ Abort(p)
        PROVE  q \in Workers /\ Editing(q)
    <3>1. p = q
      BY <1>2, <2>2, Pcs DEF Procs
    <3> QED
      BY <1>0, <1>2, <2>2, <3>1, Pcs DEF Procs, Idle
  <2>3. ASSUME NEW p \in Procs, Purging(p) PROVE FALSE
    BY <1>0, <1>2, <2>3, Pcs
  <2>4. ASSUME Sweeping PROVE FALSE
    <3>1. /\ procs[Hk] \in ProcState /\ Hk \in Procs /\ q = Hk
      BY <1>0, <1>2, <2>4, Moved DEF TypeInv, TypeOK, Procs, Sweeping, HkStart,
         HkKnown, HkList, HkSweep, HkDone, HkFail, Finish
    <3>2. CASE HkSweep
      <4>1. procs[Hk] \in [pc : {"sweep"}, todo : SUBSET Keys]
        BY <3>1, <3>2 DEF HkSweep, ProcState, Idle, MoveState, MovePcs
      <4>2. \E k : procs'[Hk] = [procs[Hk] EXCEPT !.todo = @ \ {k}]
        BY <1>0, <3>1, <3>2 DEF HkSweep, Goto
      <4> QED
        BY <1>0, <3>1, <4>1, <4>2
    <3>3. CASE HkStart \/ HkKnown \/ HkList \/ HkDone \/ HkFail
      BY <1>0, <3>1, <3>3 DEF HkStart, HkKnown, HkList, HkDone, HkFail, Finish,
         Goto, PurgeOf, Idle
    <3> QED
      BY <2>4, <3>2, <3>3 DEF Sweeping
  <2>5. Passing => procs'[q] = procs[q]
    BY DEF Passing, ClientPut, HourPasses, MonthPasses
  <2> QED
    BY <1>2, <2>1, <2>2, <2>3, <2>4, <2>5, Steps DEF CalmNext
<1>3. CASE q \in Workers /\ CreateVersionRead(q)
  BY <1>0, <1>1, <1>3 DEF CreateVersionRead, Goto
<1>4. CASE q \in Workers /\ RestoreVersionRead(q)
  <2>1. PICK f \in DOMAIN rows : \E v :
          Goto(q, [pc |-> "snapshot", op |-> "restore", file |-> f,
                   row |-> rows[f], key |-> v.key, sha |-> v.sha])
    BY <1>4 DEF RestoreVersionRead
  <2> QED
    BY <1>0, <1>1, <1>4, <2>1 DEF RestoreVersionRead, Goto
<1>5. CASE q \in Workers /\ (SnapshotCurrent(q) \/ PutVersion(q))
  BY <1>0, <1>1, <1>5 DEF SnapshotCurrent, PutVersion, Goto
<1> QED
  BY <1>1, <1>2, <1>3, <1>4, <1>5 DEF Editing

\* Uuids are fresh when a request draws them, and a row is inserted once.
LEMMA FreshStep ==
    ASSUME TypeInv, TypeInv', FreshInv, Next
    PROVE  FreshInv'
<1>0. nextId \in Nat /\ nextId' \in {nextId, nextId + 1}
  BY ChecksumsKept
<1>1. ASSUME NEW f \in DOMAIN rows'
      PROVE  /\ f < nextId'
             /\ \/ f \in DOMAIN rows
                \/ nextId' = nextId + 1 /\ f = nextId
                \/ \E p \in Workers : InsertRow(p) /\ f = procs[p].file
  <2>1. f \in Ids
    BY DEF TypeInv, TypeOK
  <2>2. CASE f \in DOMAIN rows
    BY <1>0, <2>1, <2>2 DEF FreshInv, Ids
  <2>3. ASSUME NEW p \in Workers, InsertRow(p), f = procs[p].file
        PROVE  f < nextId'
    <3>1. Pending(p) /\ p \in Procs
      BY <2>3 DEF InsertRow, Pending, Procs
    <3> QED
      BY <1>0, <2>1, <2>3, <3>1 DEF FreshInv, Ids
  <2>4. ASSUME NEW p \in Workers, PresignUpload(p), f = nextId
        PROVE  f < nextId' /\ nextId' = nextId + 1
    BY <1>0, <2>4 DEF PresignUpload
  <2> QED
    BY <2>2, <2>3, <2>4, ChecksumsKept
<1>2. ASSUME NEW q \in Procs, Edits(q)'
      PROVE  /\ procs'[q].file \in Ids
             /\ \/ Edits(q) /\ procs'[q].file = procs[q].file
                \/ procs'[q].file \in DOMAIN rows
  <2>1. procs'[q].file \in Ids
    <3>1. procs'[q] \in ProcState
      BY DEF TypeInv, TypeOK
    <3> QED
      BY <1>2, <3>1 DEF ProcState, Idle, MoveState, MovePcs, Edits
  <2> QED
    BY <1>2, <2>1, EditsKept DEF Edits, SnapshotCurrent, PutVersion
<1>3. ASSUME NEW q \in Procs, Edits(q)' PROVE procs'[q].file < nextId'
  BY <1>0, <1>2, <1>3 DEF FreshInv, Ids
<1>4. ASSUME NEW p \in Procs, Pending(p)'
      PROVE  /\ procs'[p].file < nextId' /\ procs'[p].file \notin DOMAIN rows'
             /\ \A q \in Procs \ {p} :
                  Pending(q)' \/ Edits(q)' => procs'[q].file # procs'[p].file
  <2>1. CASE Pending(p) /\ procs'[p].file = procs[p].file
    <3>1. procs[p].file \in Ids /\ procs[p].file < nextId
          /\ procs[p].file \notin DOMAIN rows
      BY <2>1, Locals DEF FreshInv
    <3>2. procs[p].file \notin DOMAIN rows'
      <4>1. ASSUME NEW r \in Workers, InsertRow(r), procs[p].file = procs[r].file
            PROVE  FALSE
        <5>1. r = p
          BY <2>1, <4>1 DEF FreshInv, InsertRow, Pending, Procs
        <5> QED
          BY <1>4, <4>1, <5>1, PendingKept
      <4> QED
        BY <1>0, <1>1, <3>1, <4>1 DEF Ids
    <3>3. ASSUME NEW q \in Procs \ {p}, Pending(q)'
          PROVE  procs'[q].file # procs[p].file
      <4>1. CASE Pending(q) /\ procs'[q].file = procs[q].file
        BY <2>1, <4>1 DEF FreshInv
      <4>2. CASE procs'[q].file = nextId
        BY <1>0, <3>1, <4>2 DEF Ids
      <4> QED
        BY <3>3, <4>1, <4>2, PendingKept
    <3>4. ASSUME NEW q \in Procs \ {p}, Edits(q)'
          PROVE  procs'[q].file # procs[p].file
      BY <1>2, <2>1, <3>1, <3>4 DEF FreshInv
    <3> QED
      BY <1>0, <2>1, <3>1, <3>2, <3>3, <3>4 DEF Ids
  <2>2. CASE /\ procs'[p].file = nextId /\ nextId' = nextId + 1
             /\ rows' = rows
             /\ \A r \in Procs \ {p} : procs'[r] = procs[r]
    <3>1. nextId \notin DOMAIN rows
      BY <1>0 DEF FreshInv
    <3>2. ASSUME NEW q \in Procs \ {p}, Pending(q)' \/ Edits(q)'
          PROVE  procs'[q].file # nextId
      BY <1>0, <2>2, <3>2 DEF FreshInv, Pending, Edits
    <3> QED
      BY <1>0, <2>2, <3>1, <3>2
  <2> QED
    BY <1>4, <2>1, <2>2, PendingKept
<1> QED
  BY <1>1, <1>3, <1>4 DEF FreshInv

\* Snapshots last as long as their file does.
LEMMA SnapshotStep ==
    ASSUME TypeInv, FreshInv, SnapshotInv, Next
    PROVE  SnapshotInv'
<1>1. ASSUME NEW q \in Procs, Edits(q), Edits(q)',
             procs'[q].file = procs[q].file, procs[q].file \in DOMAIN rows'
      PROVE  procs[q].file \in DOMAIN rows
  <2>1. ASSUME NEW p \in Workers, InsertRow(p), procs[q].file = procs[p].file
        PROVE  FALSE
    <3>1. Pending(p) /\ p \in Procs /\ p # q
      BY <1>1, <2>1 DEF InsertRow, Pending, Edits, Procs
    <3> QED
      BY <1>1, <2>1, <3>1 DEF FreshInv
  <2>2. procs[q].file # nextId
    BY <1>1, ChecksumsKept DEF FreshInv
  <2> QED
    BY <1>1, <2>1, <2>2, ChecksumsKept
<1>2. ASSUME NEW q \in Procs, Edits(q)', procs'[q].pc # "snapshot",
             procs'[q].file \in DOMAIN rows'
      PROVE  \E v \in versions' : /\ v.file = procs'[q].file
                                  /\ v.sha = procs'[q].read
  <2>1. CASE procs'[q] = procs[q]
    <3>1. Edits(q) /\ procs[q].pc # "snapshot"
      BY <1>2, <2>1 DEF Edits
    <3>2. procs[q].file \in DOMAIN rows
      BY <1>1, <1>2, <2>1, <3>1
    <3>3. PICK v \in versions : v.file = procs[q].file /\ v.sha = procs[q].read
      BY <3>1, <3>2 DEF SnapshotInv
    <3>4. v \in versions'
      BY <1>2, <2>1, <3>3, ChecksumsKept
    <3> QED
      BY <2>1, <3>3, <3>4
  <2>2. CASE /\ q \in Workers /\ SnapshotCurrent(q)
             /\ procs'[q].file = procs[q].file
             /\ procs'[q].read = procs[q].row.sha
    <3>1. PICK v : /\ versions' = versions \cup {v}
                   /\ v = [file |-> procs[q].file,
                          no |-> Cardinality(VersionsOf(procs[q].file)) + 1,
                          key |-> procs[q].row.key, sha |-> procs[q].row.sha]
      BY <2>2 DEF SnapshotCurrent
    <3>2. v.file = procs[q].file /\ v.sha = procs[q].row.sha /\ v \in versions'
      BY <3>1
    <3> QED
      BY <2>2, <3>2
  <2>3. CASE /\ q \in Workers /\ PutVersion(q)
             /\ procs'[q].file = procs[q].file /\ procs'[q].read = procs[q].read
    <3>1. /\ Edits(q) /\ procs[q].pc = "put_version" /\ rows' = rows
          /\ versions' = versions
      BY <2>3 DEF PutVersion, Edits
    <3> QED
      BY <1>2, <2>3, <3>1 DEF SnapshotInv
  <2> QED
    BY <1>2, <2>1, <2>2, <2>3, EditsKept
<1> QED
  BY <1>2 DEF SnapshotInv, Edits

\* A row's checksum changes when an edit commits, and then a version has it,
\* or the edit had read another.
LEMMA HistoryWritten ==
    ASSUME TypeInv, FreshInv, SnapshotInv, Next,
           NEW f \in DOMAIN rows \cap DOMAIN rows', rows'[f].sha # rows[f].sha
    PROVE  \/ \E v \in versions' : v.file = f /\ v.sha = rows[f].sha
           \/ LostUpdate(f)
<1>1. ASSUME NEW p \in Workers, InsertRow(p), f = procs[p].file PROVE FALSE
  BY <1>1 DEF FreshInv, InsertRow, Pending, Procs
<1>2. f # nextId
  BY ChecksumsKept DEF FreshInv
<1>3. PICK p \in Workers : CommitVersion(p) /\ f = procs[p].file
  BY <1>1, <1>2, ChecksumsKept
<1>4. /\ p \in Procs /\ procs[p].pc = "commit" /\ versions' = versions
      /\ Goto(p, Idle)
  BY <1>3 DEF CommitVersion, Finish, Procs
<1>5. procs'[p] = Idle
  BY <1>4, Moved
<1>6. CASE procs[p].read = rows[f].sha
  BY <1>3, <1>4, <1>6 DEF SnapshotInv, Edits
<1>7. CASE procs[p].read # rows[f].sha
  BY <1>3, <1>4, <1>5, <1>7 DEF LostUpdate
<1> QED
  BY <1>6, <1>7

\* However requests overlap, an edit or the restoration of a version never
\* replaces content that the file's history does not have, unless it had read
\* the row before that content was there: for any number of requests, and
\* whatever else they do to the file, moves and purges included.
THEOREM HistoryIsKept == Spec => HistoryKeepsContent
<1> DEFINE Inv == FreshInv /\ SnapshotInv
           Kept == \A f \in DOMAIN rows \cap DOMAIN rows' :
                     rows'[f].sha # rows[f].sha =>
                       \/ \E v \in versions' : v.file = f /\ v.sha = rows[f].sha
                       \/ LostUpdate(f)
<1>1. Init => Inv
  BY DEF Init, FreshInv, SnapshotInv, Pending, Edits, Idle, Procs
<1>2. TypeInv /\ TypeInv' /\ Inv /\ [Next]_vars => Inv'
  <2>1. ASSUME TypeInv, TypeInv', Inv, Next PROVE Inv'
    BY <2>1, FreshStep, SnapshotStep
  <2>2. ASSUME Inv, UNCHANGED vars PROVE Inv'
    BY <2>2 DEF vars, FreshInv, SnapshotInv, Pending, Edits
  <2> QED
    BY <2>1, <2>2
<1>3. TypeInv /\ Inv /\ [Next]_vars => [Kept]_vars
  BY HistoryWritten
<1> QED
  BY <1>1, <1>2, <1>3, TypesKept, PTL DEF Spec, HistoryKeepsContent

-----------------------------------------------------------------------------
(* Moves keep the objects of rows, where a file has no versions and nothing is *)
(* swept, as long as the moves of one file do not overlap.  Then every key of  *)
(* a file ends in the file's own uuid, and a move that is under way knows      *)
(* which of its two keys the row has.                                          *)

Moves(p) == procs[p].pc \in MovePcs

\* No two requests move one file at the same time.
MovesApart ==
    \A p, q \in Procs :
      Moves(p) /\ Moves(q) /\ procs[p].file = procs[q].file => p = q

\* Files have no versions and nothing is swept.
Plain == {"create_version", "restore_version", "housekeeping"} \cap load.ops = {}

PlainOps ==
    /\ procs[Hk] = Idle
    /\ \A p \in Procs : ~Edits(p) /\ procs[p].pc \notin {"known", "list", "sweep"}

\* The files that a request has read the row of.
Seen(w) ==
    {f \in Ids :
       \/ w.pc \in MovePcs \cup {"head", "confirm"} /\ w.file = f
       \/ w.pc \in {"purge_row", "purge_object"} /\ \E k \in Keys : <<f, k>> \in w.todo
       \/ w.pc = "purge_object" /\ w.key[2] = f}

\* Keys and bytes carry the uuid of their file; a purged file stays away, and a
\* file whose row is not inserted yet has been seen by no other request.
OwnInv ==
    /\ \A k \in DOMAIN objs : objs[k].data = k[2]
    /\ \A k \in DOMAIN objs \cup urls : k[2] < nextId
    /\ \A f \in DOMAIN rows :
         f < nextId /\ rows[f].key[2] = f /\ rows[f].sha \in {0, f}
    /\ \A p \in Procs :
         /\ \A f \in Seen(procs[p]) : f < nextId
         /\ procs[p].pc \in {"purge_row", "purge_object"} =>
              \A t \in procs[p].todo : t[2][2] = t[1]
         /\ procs[p].pc = "purge_object" => procs[p].key[2] \notin DOMAIN rows
         /\ Pending(p) =>
              /\ procs[p].file < nextId /\ procs[p].file \notin DOMAIN rows
              /\ \A q \in Procs \ {p} :
                   /\ Pending(q) => procs[q].file # procs[p].file
                   /\ procs[p].file \notin Seen(procs[q])

\* Until a move commits the row has the old key, and then the new one.
MoveInv ==
    \A p \in Procs : Moves(p) =>
      /\ procs[p].old[2] = procs[p].file /\ procs[p].new[2] = procs[p].file
      /\ procs[p].pc # "move_commit" => procs[p].old # procs[p].new
      /\ procs[p].pc = "move_put" => procs[p].data = procs[p].file
      /\ procs[p].file \in DOMAIN rows =>
           /\ rows[procs[p].file].key =
                IF procs[p].pc = "drop_old" THEN procs[p].new ELSE procs[p].old
           /\ procs[p].pc = "move_commit" /\ procs[p].old # procs[p].new =>
                procs[p].new \in DOMAIN objs

\* Rows have the objects they need, and requests what they will store in rows.
KeptInv ==
    /\ \A f \in DOMAIN rows : Needs(rows[f]) => rows[f].key \in DOMAIN objs
    /\ \A p \in Procs : Pending(p) => PendingKey(p) \in DOMAIN objs
    /\ "restore" \notin load.ops => \A p \in Procs :
         /\ procs[p].pc = "head" /\ procs[p].file \in DOMAIN rows =>
              rows[procs[p].file].key \in DOMAIN objs \cup {procs[p].key}
         /\ procs[p].pc = "confirm" /\ procs[p].file \in DOMAIN rows =>
              rows[procs[p].file].key \in DOMAIN objs

PlainInv == Plain => PlainOps /\ OwnInv /\ MoveInv /\ KeptInv

PlainNext ==
    \/ \E p \in Workers : \/ Uploading(p) \/ Trashing(p) \/ Purging(p)
                          \/ Moving(p) \/ Abort(p)
    \/ Passing

\* The steps of a plain workload, none of which leaves it.
LEMMA PlainSteps ==
    ASSUME TypeInv, Plain, PlainOps, Next
    PROVE  PlainNext /\ PlainOps'
<1>0. /\ procs[Hk].pc = "idle" /\ Hk \in Procs /\ DOMAIN procs = Procs
      /\ "create_version" \notin load.ops /\ "restore_version" \notin load.ops
      /\ "housekeeping" \notin load.ops
      /\ \A p \in Workers : p \in Procs /\ p # Hk
  BY FileStoreAssumption DEF PlainOps, Plain, Idle, Procs, TypeInv, TypeOK, Hk
<1>1. \A p \in Workers : ~Editing(p)
  BY <1>0 DEF PlainOps, Edits, Editing, CreateVersionRead, RestoreVersionRead,
     Start, SnapshotCurrent, PutVersion, CommitVersion
<1>2. ~Sweeping
  BY <1>0 DEF Sweeping, HkStart, HkKnown, HkList, HkSweep, HkDone, HkFail
<1>3. \A p \in Procs : Purging(p) => p \in Workers
  BY <1>0 DEF Purging, PurgeRow, PurgeObject, PurgeDone, Procs
<1>4. PlainNext
  BY <1>1, <1>2, <1>3, Steps DEF CalmNext, PlainNext
<1>5. ASSUME NEW p \in Workers,
             Uploading(p) \/ Trashing(p) \/ Purging(p) \/ Moving(p) \/ Abort(p)
      PROVE  PlainOps'
  <2>1. \A q \in Procs \ {p} : procs'[q] = procs[q]
    BY <1>0, <1>5, Pcs, MovingPcs
  <2>2. \/ procs' = procs
        \/ procs'[p].pc \in MovePcs \cup {"check", "insert", "head", "confirm",
                              "idle", "purge_row", "purge_object"}
    BY <1>0, <1>5, Pcs, MovingPcs DEF Idle
  <2> QED
    BY <1>0, <2>1, <2>2 DEF PlainOps, Edits, MovePcs
<1>6. Passing => PlainOps'
  BY DEF Passing, ClientPut, HourPasses, MonthPasses, PlainOps, Edits
<1> QED
  BY <1>4, <1>5, <1>6 DEF PlainNext

\* Such steps are calm or moves.
LEMMA PlainIsCalm ==
    ASSUME PlainNext
    PROVE  CalmNext \/ \E p \in Workers : Moving(p)
BY DEF PlainNext, CalmNext, Procs

\* What a request has seen, it had seen, or reads from a row; what it purges it
\* has read; and the file whose object it is about to delete is gone.
LEMMA SeenStep ==
    ASSUME TypeInv, TypeInv', OwnInv, PlainOps, PlainNext, NEW q \in Procs
    PROVE  /\ Seen(procs'[q]) \subseteq Seen(procs[q]) \cup DOMAIN rows
           /\ procs'[q].pc \in {"purge_row", "purge_object"} =>
                \A t \in procs'[q].todo : t[2][2] = t[1]
           /\ procs'[q].pc = "purge_object" =>
                \/ procs'[q] = procs[q]
                \/ procs'[q].key[2] \notin DOMAIN rows'
<1> DEFINE Old == Seen(procs[q]) \cup DOMAIN rows
           Step(x) ==
             /\ Seen(x) \subseteq Old
             /\ x.pc \in {"purge_row", "purge_object"} =>
                  \A t \in x.todo : t[2][2] = t[1]
             /\ x.pc = "purge_object" =>
                  x = procs[q] \/ x.key[2] \notin DOMAIN rows'
<1>0. /\ DOMAIN procs = Procs /\ Seen(Idle) = {} /\ Idle.pc = "idle"
      /\ \A p \in Workers : p \in Procs
  BY DEF TypeInv, TypeOK, Seen, Idle, MovePcs, Procs
<1>1. CASE procs'[q] = procs[q]
  <2>1. Step(procs[q])
    BY DEF OwnInv
  <2> QED
    BY <1>1, <2>1
<1>2. ASSUME q \in Workers, Uploading(q), procs'[q] # procs[q]
      PROVE  Step(procs'[q])
  <2>1. procs'[q].pc \in {"check", "insert", "head", "confirm", "idle"}
    BY <1>0, <1>2, Pcs
  <2>2. CASE procs'[q].pc \in {"check", "insert", "idle"}
    BY <2>2 DEF Seen, MovePcs
  <2>3. CASE procs'[q].pc \in {"head", "confirm"}
    <3>1. CalmNext
      BY <1>2 DEF CalmNext
    <3>2. \/ procs[q].pc \in {"head", "confirm"} /\ procs'[q].file = procs[q].file
          \/ procs'[q].file \in DOMAIN rows
      BY <2>3, <3>1, Sources
    <3> QED
      BY <2>3, <3>2 DEF Seen, MovePcs
  <2> QED
    BY <2>1, <2>2, <2>3
<1>3. ASSUME q \in Workers, Trashing(q), procs'[q] # procs[q]
      PROVE  Step(procs'[q])
  <2>1. PICK S : S \subseteq DOMAIN rows /\ procs'[q] = PurgeOf(S)
    BY <1>0, <1>3 DEF Trashing, Delete, Restore, Purge, EmptyTrash, BulkPurge,
       Trashed, Goto
  <2>2. procs'[q].pc = "purge_row"
        /\ procs'[q].todo = {<<f, rows[f].key>> : f \in S}
    BY <2>1 DEF PurgeOf
  <2>3. \A f \in DOMAIN rows : rows[f].key[2] = f
    BY DEF OwnInv
  <2> QED
    BY <2>1, <2>2, <2>3 DEF Seen, MovePcs
<1>4. ASSUME q \in Workers, Purging(q) PROVE Step(procs'[q])
  <2>0. /\ procs[q].pc \in {"purge_row", "purge_object"}
        /\ procs[q].todo \subseteq Ids \X Keys
        /\ \A t \in procs[q].todo : t[2][2] = t[1]
    BY <1>4, <1>0, Pcs, Locals DEF OwnInv
  <2>1. CASE PurgeRow(q)
    <3>1. procs[q] \in [pc : {"purge_row"}, todo : SUBSET (Ids \X Keys)]
      BY <2>1 DEF PurgeRow, TypeInv, TypeOK, ProcState, Idle, MoveState, MovePcs
    <3>2. PICK t \in procs[q].todo :
            \/ /\ rows' = Without(rows, {t[1]})
               /\ procs'[q] = [pc |-> "purge_object",
                               todo |-> procs[q].todo \ {t}, key |-> t[2]]
            \/ procs'[q] = [procs[q] EXCEPT !.todo = @ \ {t}]
      BY <1>0, <2>1 DEF PurgeRow, Goto
    <3>3. t[1] \in Ids /\ t[2] \in Keys /\ t[2][2] = t[1] /\ t = <<t[1], t[2]>>
      BY <2>0, <3>2
    <3>4. CASE /\ rows' = Without(rows, {t[1]})
               /\ procs'[q] = [pc |-> "purge_object",
                               todo |-> procs[q].todo \ {t}, key |-> t[2]]
      <4>1. t[1] \notin DOMAIN rows'
        BY <3>4 DEF Without, Restrict
      <4>2. procs'[q].pc = "purge_object" /\ procs'[q].key = t[2]
            /\ procs'[q].todo = procs[q].todo \ {t}
        BY <3>4
      <4>3. t[1] \in Seen(procs[q])
        BY <3>2, <3>3, <2>0 DEF Seen
      <4> QED
        BY <2>0, <3>3, <4>1, <4>2, <4>3 DEF Seen, MovePcs
    <3>5. CASE procs'[q] = [procs[q] EXCEPT !.todo = @ \ {t}]
      <4>1. procs'[q].pc = "purge_row" /\ procs'[q].todo = procs[q].todo \ {t}
        BY <3>1, <3>5
      <4> QED
        BY <2>0, <3>1, <4>1 DEF Seen, MovePcs
    <3> QED
      BY <3>2, <3>4, <3>5
  <2>2. CASE PurgeObject(q)
    <3>1. /\ procs'[q].pc = "purge_row" /\ procs'[q].todo = procs[q].todo
          /\ procs[q].pc = "purge_object"
      BY <1>0, <2>2 DEF PurgeObject, Goto
    <3> QED
      BY <2>0, <3>1 DEF Seen, MovePcs
  <2>3. CASE PurgeDone(q)
    <3>1. q # Hk
      BY <1>4, FileStoreAssumption DEF Hk
    <3> QED
      BY <1>0, <2>3, <3>1 DEF PurgeDone, Finish, Goto
  <2> QED
    BY <1>4, <2>1, <2>2, <2>3 DEF Purging
<1>5. ASSUME q \in Workers, Moving(q) PROVE Step(procs'[q])
  <2>1. CASE MoveRead(q)
    <3>1. procs'[q].pc \in MovePcs /\ procs'[q].file \in DOMAIN rows
      BY <1>0, <2>1 DEF MoveRead, Goto, MovePcs
    <3> QED
      BY <3>1 DEF Seen, MovePcs
  <2>2. CASE procs'[q] = Idle
    BY <1>0, <2>2
  <2>3. CASE ~MoveRead(q) /\ procs'[q].pc \in MovePcs
    <3>1. procs[q].pc \in MovePcs
      BY <1>5, <2>3, MovingPcs
    <3>2. procs'[q].file = procs[q].file
      <4>1. CASE MoveCommit(q)
        <5>1. procs[q] \in MoveState
          BY <3>1, <4>1, MoveLocals DEF MoveCommit
        <5>2. \E x \in {"drop_old", "drop_new"} :
                procs'[q] = Idle \/ procs'[q] = [procs[q] EXCEPT !.pc = x]
          BY <1>0, <4>1 DEF MoveCommit, Goto
        <5> QED
          BY <1>0, <2>3, <5>1, <5>2 DEF MoveState, MovePcs
      <4>2. CASE MoveGet(q) \/ MovePut(q) \/ MoveDropOld(q) \/ MoveDropNew(q)
        BY <1>0, <2>3, <4>2 DEF MoveGet, MovePut, MoveDropOld, MoveDropNew,
           Finish, Goto, MovePcs
      <4> QED
        BY <1>5, <2>3, <4>1, <4>2 DEF Moving
    <3> QED
      BY <2>3, <3>1, <3>2 DEF Seen, MovePcs
  <2> QED
    BY <1>5, <2>1, <2>2, <2>3, MovingPcs
<1>6. q \in Workers /\ Abort(q) => Step(procs'[q])
  BY <1>0, Pcs
<1>7. \/ procs'[q] = procs[q]
      \/ /\ q \in Workers
         /\ Uploading(q) \/ Trashing(q) \/ Purging(q) \/ Moving(q) \/ Abort(q)
  <2>1. ASSUME NEW p \in Workers, q # p,
               \/ Uploading(p) \/ Trashing(p) \/ Purging(p)
               \/ Moving(p) \/ Abort(p)
        PROVE  procs'[q] = procs[q]
    BY <1>0, <2>1, Pcs, MovingPcs
  <2>2. Passing => procs' = procs
    BY DEF Passing, ClientPut, HourPasses, MonthPasses
  <2> QED
    BY <2>1, <2>2 DEF PlainNext
<1> QED
  BY <1>1, <1>2, <1>3, <1>4, <1>5, <1>6, <1>7

\* Objects hold their own bytes, and rows are added under fresh uuids.
LEMMA OwnStep ==
    ASSUME TypeInv, TypeInv', PlainOps, OwnInv, MoveInv, PlainNext
    PROVE  OwnInv'
<1>0. /\ nextId \in Nat /\ nextId' \in {nextId, nextId + 1}
      /\ \A k \in Keys : k[2] \in Nat
      /\ DOMAIN objs \cup urls \subseteq Keys
      /\ DOMAIN objs' \cup urls' \subseteq Keys
      /\ DOMAIN rows \subseteq Ids /\ DOMAIN rows' \subseteq Ids
      /\ \A p \in Workers : p \in Procs
  <2>1. nextId' \in {nextId, nextId + 1}
    BY PlainIsCalm, Draws, MovingPcs
  <2> QED
    BY <2>1, FileStoreAssumption DEF TypeInv, TypeOK, Keys, Ids, Procs
<1>1. \A k \in DOMAIN objs' \cup urls' :
        \/ k \in DOMAIN objs \cup urls
        \/ k[2] = nextId /\ nextId' = nextId + 1
        \/ k[2] < nextId
  <2>1. ASSUME NEW p \in Workers, Moving(p)
        PROVE  urls' = urls /\ \A k \in DOMAIN objs' : k \in DOMAIN objs
                                                      \/ k[2] < nextId
    <3>1. CASE MovePut(p)
      <4>1. procs[p].pc \in MovePcs
        BY <3>1 DEF MovePut, MovePcs
      <4>2. procs[p].new[2] = procs[p].file /\ procs[p].file \in Ids
        BY <1>0, <4>1, MoveLocals DEF MoveInv, Moves
      <4>3. procs[p].new[2] < nextId
        BY <1>0, <4>1, <4>2 DEF OwnInv, Seen
      <4> QED
        BY <3>1, <4>3 DEF MovePut, Put, With
    <3>2. CASE MoveDropOld(p) \/ MoveDropNew(p)
      BY <3>2, DeleteTypes DEF MoveDropOld, MoveDropNew
    <3>3. CASE MoveRead(p) \/ MoveGet(p) \/ MoveCommit(p)
      BY <3>3 DEF MoveRead, MoveGet, MoveCommit
    <3> QED
      BY <2>1, <3>1, <3>2, <3>3 DEF Moving
  <2> QED
    BY <2>1, PlainIsCalm, Draws
<1>2. \A k \in DOMAIN objs' \cup urls' : k[2] < nextId'
  BY <1>0, <1>1 DEF OwnInv
<1>3. \A k \in DOMAIN objs' : objs'[k].data = k[2]
  <2>1. ASSUME NEW p \in Workers, Moving(p), NEW k \in DOMAIN objs'
        PROVE  objs'[k].data = k[2]
    <3>1. CASE MovePut(p)
      <4>1. procs[p].pc = "move_put"
        BY <3>1 DEF MovePut
      <4>2. procs[p].data = procs[p].new[2]
        BY <1>0, <4>1 DEF MoveInv, Moves, MovePcs
      <4> QED
        BY <3>1, <4>2 DEF MovePut, Put, With, OwnInv
    <3>2. CASE MoveDropOld(p) \/ MoveDropNew(p)
      BY <3>2, DeleteTypes DEF MoveDropOld, MoveDropNew, OwnInv
    <3>3. CASE MoveRead(p) \/ MoveGet(p) \/ MoveCommit(p)
      BY <3>3 DEF MoveRead, MoveGet, MoveCommit, OwnInv
    <3> QED
      BY <2>1, <3>1, <3>2, <3>3 DEF Moving
  <2>2. CASE CalmNext
    BY <2>2, Stores DEF OwnInv
  <2> QED
    BY <2>1, <2>2, PlainIsCalm
<1>4. ASSUME NEW f \in DOMAIN rows'
      PROVE  \/ f \in DOMAIN rows
             \/ nextId' = nextId + 1 /\ f = nextId
             \/ \E p \in Workers : InsertRow(p) /\ f = procs[p].file
  <2>1. CASE CalmNext
    BY <1>0, <2>1, RowsStep DEF PresignUpload
  <2>2. ASSUME NEW p \in Workers, Moving(p) PROVE f \in DOMAIN rows
    BY <2>2, MovingRows
  <2> QED
    BY <2>1, <2>2, PlainIsCalm
<1>5. ASSUME NEW f \in DOMAIN rows'
      PROVE  f < nextId' /\ rows'[f].key[2] = f /\ rows'[f].sha \in {0, f}
  <2>1. ASSUME NEW p \in Workers, Moving(p)
        PROVE  /\ f < nextId /\ rows'[f].key[2] = f /\ rows'[f].sha \in {0, f}
    <3>1. CASE MoveCommit(p) /\ f = procs[p].file /\ rows'[f].key = procs[p].new
      <4>1. procs[p].new[2] = f
        BY <1>0, <3>1 DEF MoveCommit, MoveInv, Moves, MovePcs
      <4> QED
        BY <2>1, <3>1, <4>1, MovingRows DEF OwnInv
    <3>2. CASE f \in DOMAIN rows /\ rows'[f].key = rows[f].key
      BY <2>1, <3>2, MovingRows DEF OwnInv
    <3> QED
      BY <2>1, <3>1, <3>2, MovingRows
  <2>2. CASE CalmNext
    <3>1. ASSUME NEW p \in Workers, InsertRow(p), f = procs[p].file,
                 rows'[f].key = PendingKey(p), rows'[f].sha = f
          PROVE  f < nextId' /\ rows'[f].key[2] = f /\ rows'[f].sha \in {0, f}
      <4>1. Pending(p) /\ p \in Procs
        BY <1>0, <3>1 DEF InsertRow, Pending
      <4> QED
        BY <1>0, <3>1, <4>1, Locals DEF OwnInv
    <3>2. ASSUME NEW p \in Workers, PresignUpload(p), f = nextId
          PROVE  f < nextId' /\ rows'[f].key[2] = f /\ rows'[f].sha \in {0, f}
      <4>1. /\ nextId' = nextId + 1
            /\ rows'[f] = [key |-> StorageKey(Personal, nextId),
                           org |-> Personal, trash |-> "trashed", sha |-> 0]
        BY <3>2 DEF PresignUpload, With
      <4>2. rows'[f].key = <<Personal, nextId>> /\ rows'[f].sha = 0
        BY <4>1 DEF StorageKey
      <4> QED
        BY <1>0, <3>2, <4>1, <4>2
    <3>3. CASE f \in DOMAIN rows /\ rows'[f].key = rows[f].key
               /\ rows'[f].sha = rows[f].sha
      BY <1>0, <3>3 DEF OwnInv, Ids
    <3>4. \A p \in Workers : ~CommitVersion(p)
      BY <1>0 DEF PlainOps, Edits, CommitVersion
    <3> QED
      BY <2>2, <3>1, <3>2, <3>3, <3>4, Checksums
  <2> QED
    BY <1>0, <2>1, <2>2, PlainIsCalm DEF Ids
<1>6. ASSUME NEW q \in Procs, NEW f \in Seen(procs'[q])
      PROVE  /\ f \in Ids /\ f < nextId /\ f < nextId'
             /\ f \in Seen(procs[q]) \/ f \in DOMAIN rows
  <2>1. f \in Ids
    BY DEF Seen
  <2>2. f \in Seen(procs[q]) \/ f \in DOMAIN rows
    BY SeenStep
  <2> QED
    BY <1>0, <2>1, <2>2 DEF OwnInv, Ids
<1>7. ASSUME NEW p \in Workers, InsertRow(p), NEW q \in Procs,
             procs[p].file \in Seen(procs[q])
      PROVE  FALSE
  <2>1. Pending(p) /\ p \in Procs /\ ~(procs[p].pc \in MovePcs)
        /\ ~(procs[p].pc \in {"head", "confirm", "purge_row", "purge_object"})
    BY <1>0, <1>7 DEF InsertRow, Pending, MovePcs
  <2>2. CASE q = p
    BY <1>7, <2>1, <2>2 DEF Seen
  <2>3. CASE q # p
    BY <1>7, <2>1, <2>3 DEF OwnInv
  <2> QED
    BY <2>2, <2>3
<1>8. ASSUME NEW q \in Procs, procs'[q].pc = "purge_object"
      PROVE  procs'[q].key[2] \notin DOMAIN rows'
  <2>1. CASE procs'[q] = procs[q]
    <3>1. procs[q].key \in Keys /\ procs[q].key[2] \in Ids
      BY <1>8, <2>1, Locals DEF Keys
    <3>2. procs[q].key[2] \in Seen(procs[q])
      BY <1>8, <2>1, <3>1 DEF Seen
    <3>3. procs[q].key[2] \notin DOMAIN rows /\ procs[q].key[2] < nextId
      BY <1>8, <2>1, <3>2 DEF OwnInv
    <3> QED
      BY <1>0, <1>4, <1>7, <2>1, <3>1, <3>2, <3>3 DEF Ids
  <2> QED
    BY <1>8, <2>1, SeenStep
<1>9. ASSUME NEW p \in Procs, Pending(p)'
      PROVE  /\ procs'[p].file < nextId' /\ procs'[p].file \notin DOMAIN rows'
             /\ \A q \in Procs \ {p} :
                  /\ Pending(q)' => procs'[q].file # procs'[p].file
                  /\ procs'[p].file \notin Seen(procs'[q])
  <2>0. Next
    BY DEF PlainNext, Uploading, Trashing, Purging, Moving, Passing, Next, Begin,
       Continue
  <2>1. CASE Pending(p) /\ procs'[p].file = procs[p].file
    <3>1. procs[p].file \in Ids /\ procs[p].file < nextId
          /\ procs[p].file \notin DOMAIN rows
      BY <2>1, Locals DEF OwnInv
    <3>2. procs[p].file \notin DOMAIN rows'
      <4>1. ASSUME NEW r \in Workers, InsertRow(r), procs[p].file = procs[r].file
            PROVE  FALSE
        <5>1. r = p
          BY <2>1, <4>1 DEF OwnInv, InsertRow, Pending, Procs
        <5> QED
          BY <1>9, <2>0, <4>1, <5>1, PendingKept
      <4> QED
        BY <1>0, <1>4, <3>1, <4>1 DEF Ids
    <3>3. ASSUME NEW q \in Procs \ {p}, Pending(q)'
          PROVE  procs'[q].file # procs[p].file
      <4>1. CASE Pending(q) /\ procs'[q].file = procs[q].file
        BY <2>1, <4>1 DEF OwnInv
      <4>2. CASE procs'[q].file = nextId
        BY <1>0, <3>1, <4>2 DEF Ids
      <4> QED
        BY <2>0, <3>3, <4>1, <4>2, PendingKept
    <3>4. ASSUME NEW q \in Procs \ {p} PROVE procs[p].file \notin Seen(procs'[q])
      BY <1>6, <2>1, <3>1, <3>4 DEF OwnInv
    <3> QED
      BY <1>0, <2>1, <3>1, <3>2, <3>3, <3>4 DEF Ids
  <2>2. CASE /\ procs'[p].file = nextId /\ nextId' = nextId + 1
             /\ rows' = rows
             /\ \A r \in Procs \ {p} : procs'[r] = procs[r]
    <3>1. nextId \notin DOMAIN rows
      BY <1>0 DEF OwnInv
    <3>2. ASSUME NEW q \in Procs \ {p} PROVE nextId \notin Seen(procs'[q])
      BY <1>0, <1>6 DEF Ids
    <3>3. ASSUME NEW q \in Procs \ {p}, Pending(q)' PROVE procs'[q].file # nextId
      BY <1>0, <2>2, <3>3 DEF OwnInv, Pending
    <3> QED
      BY <1>0, <2>2, <3>1, <3>2, <3>3
  <2> QED
    BY <1>9, <2>0, <2>1, <2>2, PendingKept
<1>10. ASSUME NEW q \in Procs
       PROVE  procs'[q].pc \in {"purge_row", "purge_object"} =>
                \A t \in procs'[q].todo : t[2][2] = t[1]
  BY SeenStep
<1> QED
  BY <1>2, <1>3, <1>5, <1>6, <1>8, <1>9, <1>10 DEF OwnInv

\* What may lose its object in a step: a refused upload, a file whose row is
\* gone, and the key that a moved row has not.
LEMMA PlainDeletes ==
    ASSUME TypeInv, PlainOps, OwnInv, MoveInv, PlainNext,
           NEW k \in DOMAIN objs, k \notin DOMAIN objs'
    PROVE  /\ rows' = rows
           /\ \/ \E p \in Procs : /\ Pending(p) /\ k = PendingKey(p)
                                  /\ procs'[p] = Idle
              \/ k[2] \notin DOMAIN rows
                   /\ \A p \in Procs : Pending(p) => k # PendingKey(p)
              \/ \E p \in Procs : /\ Moves(p) /\ procs'[p] = Idle
                                  /\ k[2] = procs[p].file
                                  /\ k[2] \in DOMAIN rows => rows[k[2]].key # k
<1>0. /\ \A p \in Workers : p \in Procs
      /\ DOMAIN procs = Procs /\ k \in Keys
  BY DEF Procs, TypeInv, TypeOK
<1>1. ASSUME NEW p \in Workers, Moving(p)
      PROVE  /\ rows' = rows /\ Moves(p) /\ procs'[p] = Idle
             /\ k[2] = procs[p].file
             /\ k[2] \in DOMAIN rows => rows[k[2]].key # k
  <2>1. CASE MoveDropOld(p)
    <3>1. /\ procs[p].pc = "drop_old" /\ k = procs[p].old /\ rows' = rows
          /\ procs'[p] = Idle
      BY <1>0, <2>1, DeleteTypes DEF MoveDropOld, Finish, Goto
    <3> QED
      BY <1>0, <3>1 DEF MoveInv, Moves, MovePcs
  <2>2. CASE MoveDropNew(p)
    <3>1. /\ procs[p].pc = "drop_new" /\ k = procs[p].new /\ rows' = rows
          /\ procs'[p] = Idle
      BY <1>0, <2>2, DeleteTypes DEF MoveDropNew, Finish, Goto
    <3> QED
      BY <1>0, <3>1 DEF MoveInv, Moves, MovePcs
  <2>3. CASE MovePut(p)
    BY <2>3 DEF MovePut, Put, With
  <2>4. CASE MoveRead(p) \/ MoveGet(p) \/ MoveCommit(p)
    BY <2>4 DEF MoveRead, MoveGet, MoveCommit
  <2> QED
    BY <1>1, <2>1, <2>2, <2>3, <2>4 DEF Moving
<1>2. ASSUME NEW p \in Procs, procs[p].pc = "purge_object", k = procs[p].key
      PROVE  /\ k[2] \notin DOMAIN rows
             /\ \A q \in Procs : Pending(q) => k # PendingKey(q)
  <2>1. k[2] \in Seen(procs[p])
    BY <1>0, <1>2 DEF Seen, Keys
  <2>2. ASSUME NEW q \in Procs, Pending(q), k = PendingKey(q) PROVE FALSE
    <3>1. p # q /\ procs[q].file = k[2]
      BY <1>2, <2>2, Locals DEF Pending
    <3> QED
      BY <2>1, <2>2, <3>1 DEF OwnInv
  <2> QED
    BY <1>2, <2>2 DEF OwnInv
<1>3. CASE CalmNext
  <2>1. procs[Hk].pc = "idle"
    BY DEF PlainOps, Idle
  <2> QED
    BY <1>0, <1>2, <1>3, <2>1, Deletes
<1> QED
  BY <1>0, <1>1, <1>3, PlainIsCalm

\* A row that a plain step leaves was there, under its own key unless its move
\* commits, or is new.
LEMMA PlainRows ==
    ASSUME TypeInv, PlainOps, OwnInv, PlainNext, NEW f \in DOMAIN rows'
    PROVE  \/ f \in DOMAIN rows /\ rows'[f].key = rows[f].key
                /\ rows'[f].sha = rows[f].sha
           \/ \E p \in Workers :
                \/ /\ MoveCommit(p) /\ f = procs[p].file /\ f \in DOMAIN rows
                   /\ rows'[f].key = procs[p].new /\ rows'[f].sha = rows[f].sha
                   /\ rows'[f].trash = rows[f].trash
                   /\ procs[p].new # procs[p].old
                \/ InsertRow(p) /\ f = procs[p].file /\ rows'[f].key = PendingKey(p)
                \/ /\ PresignUpload(p) /\ f = nextId
                   /\ rows'[f].sha = 0 /\ rows'[f].trash = "trashed"
<1>1. ASSUME NEW p \in Workers, Moving(p)
      PROVE  \/ f \in DOMAIN rows /\ rows'[f].key = rows[f].key
                  /\ rows'[f].sha = rows[f].sha
             \/ /\ MoveCommit(p) /\ f = procs[p].file /\ f \in DOMAIN rows
                /\ rows'[f].key = procs[p].new /\ rows'[f].sha = rows[f].sha
                /\ rows'[f].trash = rows[f].trash
                /\ procs[p].new # procs[p].old
  BY <1>1, MovingRows
<1>2. CASE CalmNext
  <2>1. \A p \in Workers : ~CommitVersion(p)
    BY DEF PlainOps, Edits, CommitVersion, Procs
  <2> QED
    BY <1>2, <2>1, Checksums
<1> QED
  BY <1>1, <1>2, PlainIsCalm

\* A file that a request has seen and that has a row after a step had it before.
LEMMA SeenRows ==
    ASSUME TypeInv, PlainOps, OwnInv, PlainNext, NEW q \in Procs,
           NEW f \in Seen(procs[q]), f \in DOMAIN rows'
    PROVE  /\ f \in DOMAIN rows
           /\ \/ rows'[f].key = rows[f].key
              \/ \E p \in Workers : /\ MoveCommit(p) /\ f = procs[p].file
                                    /\ rows'[f].key = procs[p].new
<1>1. f # nextId
  BY DEF OwnInv, TypeInv, TypeOK
<1>2. ASSUME NEW p \in Workers, InsertRow(p), f = procs[p].file PROVE FALSE
  <2>1. Pending(p) /\ p \in Procs
    BY <1>2 DEF InsertRow, Pending, Procs
  <2>2. q # p
    BY <1>2 DEF InsertRow, Seen, MovePcs
  <2> QED
    BY <1>2, <2>1, <2>2 DEF OwnInv
<1> QED
  BY <1>1, <1>2, PlainRows

\* A commit whose answer arrives: the row has the new key exactly when the old
\* one is to be deleted.
LEMMA CommitTells ==
    ASSUME TypeInv, "reply" \notin Faults, NEW p \in Workers, MoveCommit(p),
           Moves(p)'
    PROVE  /\ procs'[p].file = procs[p].file
           /\ procs'[p].old = procs[p].old /\ procs'[p].new = procs[p].new
           /\ procs[p].new # procs[p].old
           /\ \/ /\ procs'[p].pc = "drop_old" /\ procs[p].file \in DOMAIN rows
                 /\ rows'[procs[p].file].key = procs[p].new
              \/ procs'[p].pc = "drop_new" /\ rows' = rows
<1>0. /\ p \in Procs /\ DOMAIN procs = Procs /\ procs'[p].pc \in MovePcs
      /\ procs[p].pc = "move_commit"
  BY DEF Procs, TypeInv, TypeOK, Moves, MoveCommit
<1>1. procs[p] \in MoveState
  BY <1>0, MoveLocals DEF MovePcs
<1>2. procs[p].new # procs[p].old
  BY <1>0 DEF MoveCommit, Goto, Idle, MovePcs
<1>3. \/ /\ procs'[p] = [procs[p] EXCEPT !.pc = "drop_old"]
         /\ procs[p].file \in DOMAIN rows
         /\ rows' = [rows EXCEPT ![procs[p].file] = MovedRow(@, procs[p])]
      \/ procs'[p] = [procs[p] EXCEPT !.pc = "drop_new"] /\ rows' = rows
  BY <1>0, <1>2 DEF MoveCommit, Goto, Fail
<1>4. procs[p].file \in DOMAIN rows =>
        MovedRow(rows[procs[p].file], procs[p]).key = procs[p].new
  BY <1>2 DEF MovedRow, TypeInv, TypeOK, RowSet
<1> QED
  BY <1>1, <1>2, <1>3, <1>4 DEF MoveState

\* A move under way knows which of its keys the row has.
LEMMA MoveStep ==
    ASSUME TypeInv, TypeInv', "reply" \notin Faults, PlainOps, OwnInv, MoveInv,
           MovesApart, PlainNext
    PROVE  MoveInv'
<1>0. DOMAIN procs = Procs /\ \A p \in Workers : p \in Procs
  BY DEF TypeInv, TypeOK, Procs
<1> DEFINE Knowing(q) ==
      /\ procs'[q].old[2] = procs'[q].file /\ procs'[q].new[2] = procs'[q].file
      /\ procs'[q].pc # "move_commit" => procs'[q].old # procs'[q].new
      /\ procs'[q].pc = "move_put" => procs'[q].data = procs'[q].file
      /\ procs'[q].file \in DOMAIN rows' =>
           /\ rows'[procs'[q].file].key =
                IF procs'[q].pc = "drop_old" THEN procs'[q].new
                                             ELSE procs'[q].old
           /\ procs'[q].pc = "move_commit" /\ procs'[q].old # procs'[q].new =>
                procs'[q].new \in DOMAIN objs'
<1>1. ASSUME NEW q \in Procs, Moves(q)'
      PROVE  procs'[q] = procs[q] \/ (q \in Workers /\ Moving(q))
  <2>1. ASSUME NEW p \in Workers,
               Uploading(p) \/ Trashing(p) \/ Purging(p) \/ Abort(p)
        PROVE  procs'[q] = procs[q]
    BY <1>0, <1>1, <2>1, Pcs DEF Moves, MovePcs, Idle
  <2>2. ASSUME NEW p \in Workers, Moving(p), p # q PROVE procs'[q] = procs[q]
    BY <1>1, <2>2, MovingPcs
  <2>3. Passing => procs' = procs
    BY DEF Passing, ClientPut, HourPasses, MonthPasses
  <2> QED
    BY <2>1, <2>2, <2>3 DEF PlainNext
<1>2. ASSUME NEW q \in Procs, Moves(q)', procs'[q] = procs[q] PROVE Knowing(q)
  <2> DEFINE f == procs[q].file
  <2>0. /\ Moves(q) /\ f \in Ids /\ f \in Seen(procs[q])
        /\ procs[q].old[2] = f /\ procs[q].new[2] = f
    BY <1>2, MoveLocals DEF Moves, Seen, MoveInv
  <2>1. ASSUME f \in DOMAIN rows'
        PROVE  f \in DOMAIN rows /\ rows'[f].key = rows[f].key
    <3>1. ASSUME NEW p \in Workers, MoveCommit(p), f = procs[p].file PROVE FALSE
      <4>1. p = q
        BY <1>0, <2>0, <3>1 DEF MovesApart, MoveCommit, Moves, MovePcs
      <4>2. procs[q].pc = "move_commit" /\ procs'[q].pc = "move_commit"
        BY <1>2, <3>1, <4>1 DEF MoveCommit
      <4> QED
        BY <1>2, <3>1, <4>1, <4>2, CommitTells
    <3> QED
      BY <2>0, <2>1, <3>1, SeenRows
  <2>2. ASSUME procs[q].new \in DOMAIN objs, f \in DOMAIN rows'
        PROVE  procs[q].new \in DOMAIN objs'
    <3>1. SUFFICES ASSUME procs[q].new \notin DOMAIN objs' PROVE FALSE
      OBVIOUS
    <3>2. ASSUME NEW p \in Procs, Pending(p), procs[q].new = PendingKey(p)
          PROVE  FALSE
      <4>1. procs[p].file = f /\ p # q
        BY <2>0, <3>2, Locals DEF Pending, Moves, MovePcs
      <4> QED
        BY <2>0, <3>2, <4>1 DEF OwnInv
    <3>3. ASSUME NEW p \in Procs, Moves(p), procs'[p] = Idle,
                 procs[q].new[2] = procs[p].file
          PROVE  FALSE
      <4>1. p = q
        BY <2>0, <3>3 DEF MovesApart
      <4> QED
        BY <1>2, <3>3, <4>1 DEF Moves, Idle, MovePcs
    <3> QED
      BY <2>0, <2>1, <2>2, <3>1, <3>2, <3>3, PlainDeletes
  <2> QED
    BY <1>2, <2>0, <2>1, <2>2 DEF MoveInv
<1>3. ASSUME NEW q \in Workers, Moving(q), Moves(q)' PROVE Knowing(q)
  <2>1. CASE MoveRead(q)
    <3>1. PICK f \in DOMAIN rows, org \in Spaces :
            Goto(q, [pc |-> IF StorageKey(org, f) = rows[f].key
                            THEN "move_commit" ELSE "move_get",
                     file |-> f, org |-> org, old |-> rows[f].key,
                     new |-> StorageKey(org, f)])
      BY <2>1 DEF MoveRead
    <3>2. /\ procs'[q].file = f /\ procs'[q].old = rows[f].key
          /\ procs'[q].new = StorageKey(org, f) /\ rows' = rows
          /\ procs'[q].pc \in {"move_commit", "move_get"}
          /\ procs'[q].pc = "move_commit" <=> StorageKey(org, f) = rows[f].key
      BY <1>0, <2>1, <3>1 DEF MoveRead, Goto
    <3>3. rows[f].key[2] = f /\ StorageKey(org, f)[2] = f
      BY DEF OwnInv, StorageKey
    <3> QED
      BY <3>2, <3>3
  <2>2. CASE MoveGet(q)
    <3>1. /\ procs[q].pc = "move_get" /\ procs[q].old \in DOMAIN objs
          /\ procs'[q] = [pc |-> "move_put", file |-> procs[q].file,
                          org |-> procs[q].org, old |-> procs[q].old,
                          new |-> procs[q].new, data |-> objs[procs[q].old].data]
          /\ rows' = rows
      BY <1>0, <1>3, <2>2 DEF MoveGet, Finish, Goto, Moves, Idle, MovePcs
    <3>2. /\ procs[q].old[2] = procs[q].file /\ procs[q].new[2] = procs[q].file
          /\ procs[q].old # procs[q].new
          /\ procs[q].file \in DOMAIN rows =>
               rows[procs[q].file].key = procs[q].old
          /\ objs[procs[q].old].data = procs[q].file
      BY <1>0, <3>1 DEF MoveInv, Moves, MovePcs, OwnInv
    <3> QED
      BY <3>1, <3>2
  <2>3. CASE MovePut(q)
    <3>1. /\ procs[q].pc = "move_put"
          /\ procs'[q] = [pc |-> "move_commit", file |-> procs[q].file,
                          org |-> procs[q].org, old |-> procs[q].old,
                          new |-> procs[q].new]
          /\ rows' = rows /\ procs[q].new \in DOMAIN objs'
      BY <1>0, <2>3 DEF MovePut, Goto, Put, With
    <3>2. /\ procs[q].old[2] = procs[q].file /\ procs[q].new[2] = procs[q].file
          /\ procs[q].file \in DOMAIN rows =>
               rows[procs[q].file].key = procs[q].old
      BY <1>0, <3>1 DEF MoveInv, Moves, MovePcs
    <3> QED
      BY <3>1, <3>2
  <2>4. CASE MoveCommit(q)
    <3>1. /\ procs[q].old[2] = procs[q].file /\ procs[q].new[2] = procs[q].file
          /\ procs[q].file \in DOMAIN rows =>
               rows[procs[q].file].key = procs[q].old
      BY <1>0, <2>4 DEF MoveCommit, MoveInv, Moves, MovePcs
    <3> QED
      BY <1>3, <2>4, <3>1, CommitTells
  <2>5. CASE MoveDropOld(q) \/ MoveDropNew(q)
    BY <1>0, <1>3, <2>5 DEF MoveDropOld, MoveDropNew, Finish, Goto, Moves, Idle,
       MovePcs
  <2> QED
    BY <1>3, <2>1, <2>2, <2>3, <2>4, <2>5 DEF Moving
<1>4. ASSUME NEW q \in Procs, Moves(q)' PROVE Knowing(q)
  BY <1>1, <1>2, <1>3, <1>4
<1> QED
  BY <1>4 DEF MoveInv, Moves

\* A row that has its object keeps it, under the new key if it is moved.
LEMMA RowStays ==
    ASSUME TypeInv, PlainOps, OwnInv, MoveInv, KeptInv, PlainNext,
           NEW f \in DOMAIN rows, f \in DOMAIN rows',
           \/ rows[f].key \in DOMAIN objs
           \/ rows'[f].key # rows[f].key
    PROVE  rows'[f].key \in DOMAIN objs'
<1>0. /\ \A p \in Workers : p \in Procs
      /\ f # nextId /\ rows[f].key[2] = f
  BY DEF Procs, OwnInv, TypeInv, TypeOK
<1>1. ASSUME rows'[f].key = rows[f].key, rows[f].key \in DOMAIN objs
      PROVE  rows'[f].key \in DOMAIN objs'
  <2>1. SUFFICES ASSUME rows[f].key \notin DOMAIN objs' PROVE FALSE
    BY <1>1
  <2>2. ASSUME NEW p \in Procs, Pending(p), rows[f].key = PendingKey(p)
        PROVE  FALSE
    BY <1>0, <2>2, Locals DEF OwnInv
  <2> QED
    BY <1>0, <1>1, <2>1, <2>2, PlainDeletes
<1>2. ASSUME NEW p \in Workers, MoveCommit(p), f = procs[p].file,
             rows'[f].key = procs[p].new, procs[p].new # procs[p].old
      PROVE  rows'[f].key \in DOMAIN objs'
  <2>1. procs[p].new \in DOMAIN objs
    BY <1>0, <1>2 DEF MoveInv, Moves, MovePcs, MoveCommit
  <2> QED
    BY <1>2, <2>1 DEF MoveCommit
<1>3. ASSUME NEW p \in Workers, InsertRow(p), f = procs[p].file PROVE FALSE
  BY <1>0, <1>3 DEF InsertRow, Pending, OwnInv
<1> QED
  BY <1>0, <1>1, <1>2, <1>3, PlainRows

\* No row, and no request that will store a row, loses the object it needs.
LEMMA KeptStep ==
    ASSUME TypeInv, TypeInv', PlainOps, OwnInv, MoveInv, KeptInv, PlainNext,
           load'.ops = load.ops
    PROVE  KeptInv'
<1>0. /\ \A p \in Workers : p \in Procs
      /\ DOMAIN procs = Procs /\ Next
  BY DEF Procs, TypeInv, TypeOK, PlainNext, Uploading, Trashing, Purging, Moving,
     Passing, Next, Begin, Continue
<1>1. ASSUME NEW f \in DOMAIN rows', Needs(rows'[f])
      PROVE  rows'[f].key \in DOMAIN objs'
  <2>1. CASE f \in DOMAIN rows /\ rows'[f].key # rows[f].key
    BY <1>1, <2>1, RowStays
  <2>2. CASE /\ f \in DOMAIN rows /\ rows'[f].key = rows[f].key
             /\ rows'[f].sha = rows[f].sha
    <3>1. CASE Needs(rows[f])
      BY <1>1, <2>2, <3>1, RowStays DEF KeptInv
    <3>2. CASE ~Needs(rows[f])
      <4>1. /\ rows[f].trash # "live" /\ rows'[f].trash = "live"
            /\ "restore" \notin load.ops
        BY <1>1, <2>2, <3>2 DEF Needs
      <4>2. CASE CalmNext
        <5>1. ASSUME NEW p \in Workers, procs[p].pc = "confirm",
                     procs[p].file = f
              PROVE  rows[f].key \in DOMAIN objs
          BY <1>0, <2>2, <4>1, <5>1 DEF KeptInv
        <5>2. ASSUME NEW p \in Workers, InsertRow(p), f = procs[p].file
              PROVE  FALSE
          BY <1>0, <2>2, <5>2 DEF InsertRow, Pending, OwnInv
        <5> QED
          BY <1>1, <2>2, <4>1, <4>2, <5>1, <5>2, BecomesLive, RowStays
      <4>3. CASE \E p \in Workers : Moving(p)
        BY <2>2, <4>1, <4>3, MovingRows
      <4> QED
        BY <4>2, <4>3, PlainIsCalm
    <3> QED
      BY <3>1, <3>2
  <2>3. ASSUME NEW p \in Workers, InsertRow(p), f = procs[p].file,
               rows'[f].key = PendingKey(p)
        PROVE  rows'[f].key \in DOMAIN objs'
    BY <1>0, <2>3 DEF InsertRow, Pending, KeptInv
  <2>4. ~(rows'[f].sha = 0 /\ rows'[f].trash = "trashed")
    BY <1>1 DEF Needs
  <2> QED
    BY <1>1, <2>1, <2>2, <2>3, <2>4, PlainRows
<1>2. ASSUME NEW q \in Procs, Pending(q)'
      PROVE  PendingKey(q)' \in DOMAIN objs'
  <2>1. CASE /\ Pending(q) /\ procs'[q].file = procs[q].file
             /\ procs'[q].org = procs[q].org
    <3>1. PICK k : k = PendingKey(q)
      OBVIOUS
    <3>2. PendingKey(q)' = k
      BY <2>1, <3>1 DEF PendingKey, StorageKey
    <3>3. k \in DOMAIN objs /\ k[2] = procs[q].file /\ procs[q].file \in Ids
      BY <2>1, <3>1, Locals DEF KeptInv
    <3>4. ASSUME NEW p \in Procs, Pending(p), k = PendingKey(p), procs'[p] = Idle
          PROVE  FALSE
      <4>1. procs[p].file = procs[q].file
        BY <3>3, <3>4, Locals
      <4>2. p = q
        BY <2>1, <3>4, <4>1 DEF OwnInv
      <4> QED
        BY <1>2, <3>4, <4>2 DEF Pending, Idle
    <3>5. ASSUME NEW p \in Procs, Moves(p), k[2] = procs[p].file PROVE FALSE
      <4>1. p # q
        BY <2>1, <3>5 DEF Moves, MovePcs, Pending
      <4>2. procs[q].file \in Seen(procs[p])
        BY <3>3, <3>5 DEF Seen, Moves
      <4> QED
        BY <2>1, <4>1, <4>2 DEF OwnInv
    <3>6. k \in DOMAIN objs'
      BY <2>1, <3>1, <3>3, <3>4, <3>5, PlainDeletes
    <3> QED
      BY <3>2, <3>6
  <2>2. CASE q \in Workers /\ UploadPut(q)
    <3>1. /\ procs'[q] = [pc |-> "check", file |-> nextId, org |-> Personal]
          /\ objs' = Put(StorageKey(Personal, nextId), nextId)
      BY <1>0, <2>2 DEF UploadPut, Goto
    <3> QED
      BY <3>1 DEF PendingKey, StorageKey, Put, With
  <2>3. CASE q \in Workers /\ UploadJsonPut(q)
    <3>1. PICK o \in Spaces :
            /\ Goto(q, [pc |-> "insert", file |-> nextId, org |-> o])
            /\ objs' = Put(StorageKey(o, nextId), nextId)
      BY <2>3 DEF UploadJsonPut
    <3>2. procs'[q] = [pc |-> "insert", file |-> nextId, org |-> o]
      BY <1>0, <3>1 DEF Goto
    <3> QED
      BY <3>1, <3>2 DEF PendingKey, StorageKey, Put, With
  <2> QED
    BY <1>2, <1>0, <2>1, <2>2, <2>3, PendingKept
<1>3. ASSUME "restore" \notin load.ops, NEW q \in Procs,
             procs'[q].pc \in {"head", "confirm"},
             procs'[q].file \in DOMAIN rows'
      PROVE  /\ procs'[q].pc = "head" =>
                  rows'[procs'[q].file].key \in DOMAIN objs' \cup {procs'[q].key}
             /\ procs'[q].pc = "confirm" =>
                  rows'[procs'[q].file].key \in DOMAIN objs'
  <2>1. CASE procs'[q] = procs[q]
    <3> DEFINE f == procs[q].file
    <3>1. f \in Ids /\ f \in Seen(procs[q])
      BY <1>3, <2>1, Locals DEF Seen
    <3>2. f \in DOMAIN rows
      BY <1>3, <2>1, <3>1, SeenRows
    <3>3. CASE rows[f].key \in DOMAIN objs \/ rows'[f].key # rows[f].key
      BY <1>3, <2>1, <3>2, <3>3, RowStays
    <3>4. CASE rows[f].key \notin DOMAIN objs /\ rows'[f].key = rows[f].key
      BY <1>3, <2>1, <3>2, <3>4 DEF KeptInv
    <3> QED
      BY <3>3, <3>4
  <2>2. CASE /\ rows' = rows /\ objs' = objs /\ procs'[q].pc = "head"
             /\ procs'[q].key = rows[procs'[q].file].key
    BY <2>2
  <2>3. CASE /\ rows' = rows /\ objs' = objs /\ procs'[q].pc = "confirm"
             /\ procs[q].pc = "head" /\ procs[q].key \in DOMAIN objs
             /\ procs'[q].file = procs[q].file
    BY <1>3, <2>3 DEF KeptInv
  <2>4. ASSUME NEW p \in Workers, Moving(p) PROVE procs'[q] = procs[q]
    BY <1>0, <1>3, <2>4, MovingPcs DEF Idle, MovePcs
  <2> QED
    BY <1>3, <2>1, <2>2, <2>3, <2>4, PlainIsCalm, Confirms
<1>4. \A f \in DOMAIN rows' : Needs(rows[f])' => rows'[f].key \in DOMAIN objs'
  BY <1>1 DEF Needs
<1> QED
  BY <1>2, <1>3, <1>4 DEF KeptInv

\* As long as the moves of one file do not overlap, a plain workload stays in
\* order.
THEOREM PlainKept ==
    ASSUME "reply" \notin Faults
    PROVE  Spec /\ []MovesApart => []PlainInv
<1>1. Init => PlainInv
  <2> SUFFICES ASSUME Init PROVE PlainInv
    OBVIOUS
  <2>1. /\ DOMAIN rows = {} /\ DOMAIN objs = {} /\ urls = {}
        /\ \A p \in Procs : procs[p] = Idle
        /\ Hk \in Procs /\ Idle.pc = "idle" /\ Seen(Idle) = {}
    BY DEF Init, Procs, Idle, Seen, MovePcs
  <2>2. PlainOps
    BY <2>1 DEF PlainOps, Edits
  <2>3. OwnInv
    BY <2>1 DEF OwnInv, Pending
  <2>4. MoveInv /\ KeptInv
    BY <2>1 DEF MoveInv, KeptInv, Moves, Pending, MovePcs
  <2> QED
    BY <2>2, <2>3, <2>4 DEF PlainInv
<1>2. TypeInv /\ TypeInv' /\ MovesApart /\ PlainInv /\ [Next]_vars => PlainInv'
  <2>1. ASSUME TypeInv, TypeInv', MovesApart, PlainInv, Next PROVE PlainInv'
    <3>1. load'.ops = load.ops
      BY <2>1, OpsFixed
    <3>2. CASE Plain
      <4>1. PlainOps /\ OwnInv /\ MoveInv /\ KeptInv
        BY <2>1, <3>2 DEF PlainInv
      <4>2. PlainNext /\ PlainOps'
        BY <2>1, <3>2, <4>1, PlainSteps
      <4>3. OwnInv' /\ MoveInv' /\ KeptInv'
        BY <2>1, <3>1, <4>1, <4>2, OwnStep, MoveStep, KeptStep
      <4> QED
        BY <4>2, <4>3 DEF PlainInv
    <3>3. CASE ~Plain
      BY <3>1, <3>3 DEF PlainInv, Plain
    <3> QED
      BY <3>2, <3>3
  <2>2. ASSUME PlainInv, UNCHANGED vars PROVE PlainInv'
    <3>1. /\ rows' = rows /\ objs' = objs /\ urls' = urls /\ procs' = procs
          /\ nextId' = nextId /\ load' = load
      BY <2>2 DEF vars
    <3>2. PlainOps => PlainOps'
      BY <3>1 DEF PlainOps, Edits
    <3>3. OwnInv => OwnInv'
      BY <3>1 DEF OwnInv, Pending
    <3>4. MoveInv => MoveInv'
      BY <3>1 DEF MoveInv, Moves
    <3>5. KeptInv => KeptInv'
      BY <3>1 DEF KeptInv, Needs, Pending, PendingKey
    <3> QED
      BY <2>2, <3>1, <3>2, <3>3, <3>4, <3>5 DEF PlainInv, Plain
  <2> QED
    BY <2>1, <2>2
<1> QED
  BY <1>1, <1>2, TypesKept, PTL DEF Spec

\* The workloads the two arguments cover: files are not moved, nor versions
\* restored beside a sweep; or files have no versions and nothing is swept.
Covered ==
    \A w \in Workloads :
      \/ "move" \notin w.ops /\ ~({"restore_version", "housekeeping"} \subseteq w.ops)
      \/ {"create_version", "restore_version", "housekeeping"} \cap w.ops = {}

\* In each of those workloads a row with a checksum has the object and the bytes
\* it was taken of, and, where the trash is not restored, every listed file has
\* its object: moves beside uploads, confirmations, deletions and purges lose
\* nothing, for any number of requests, as long as no two of them move one file
\* at the same time and an UPDATE that was committed is answered.
THEOREM MovedRowsAreBacked ==
    ASSUME Covered, "reply" \notin Faults
    PROVE  Spec /\ []MovesApart => [](RowIsBacked /\ LiveRowIsBacked)
<1>1. TypeInv /\ OpsOf /\ SafeInv /\ PlainInv => RowIsBacked /\ LiveRowIsBacked
  <2> SUFFICES ASSUME TypeInv, OpsOf, SafeInv, PlainInv
               PROVE  RowIsBacked /\ LiveRowIsBacked
    OBVIOUS
  <2>1. CASE Calm
    <3>1. ShaInv /\ ObjectInv
      BY <2>1 DEF SafeInv
    <3> QED
      BY <3>1 DEF ShaInv, ObjectInv, Needs, RowIsBacked, LiveRowIsBacked, Backed
  <2>2. CASE Plain
    <3>1. OwnInv /\ KeptInv
      BY <2>2 DEF PlainInv
    <3> QED
      BY <3>1 DEF OwnInv, KeptInv, Needs, RowIsBacked, LiveRowIsBacked, Backed
  <2>3. Calm \/ Plain
    BY DEF OpsOf, Covered, Calm, Plain
  <2> QED
    BY <2>1, <2>2, <2>3
<1> QED
  BY <1>1, TypesKept, WorkloadKept, SafeKept, PlainKept, PTL

\* No other step makes a process move files.
LEMMA CalmMoves ==
    ASSUME TypeInv, CalmNext, NEW q \in Procs, Moves(q)'
    PROVE  procs'[q] = procs[q]
<1>0. DOMAIN procs = Procs /\ procs'[q].pc \in MovePcs
  BY DEF TypeInv, TypeOK, Moves
<1>1. ASSUME NEW p \in Workers,
             Uploading(p) \/ Trashing(p) \/ Editing(p) \/ Abort(p)
      PROVE  procs'[q] = procs[q]
  BY <1>0, <1>1, Pcs DEF Procs, MovePcs, Idle
<1>2. ASSUME NEW p \in Procs, Purging(p) PROVE procs'[q] = procs[q]
  BY <1>0, <1>2, Pcs DEF MovePcs
<1>3. ASSUME Sweeping PROVE procs'[q] = procs[q]
  <2>1. /\ procs[Hk] \in ProcState /\ Hk \in Procs
        /\ \A r \in Procs \ {Hk} : procs'[r] = procs[r]
    BY <1>3, Moved DEF TypeInv, TypeOK, Procs, Sweeping, HkStart, HkKnown, HkList,
       HkSweep, HkDone, HkFail, Finish
  <2>2. CASE HkSweep
    <3>1. procs[Hk] \in [pc : {"sweep"}, todo : SUBSET Keys]
      BY <2>1, <2>2 DEF HkSweep, ProcState, Idle, MoveState, MovePcs
    <3>2. \E k : procs'[Hk] = [procs[Hk] EXCEPT !.todo = @ \ {k}]
      BY <1>0, <2>1, <2>2 DEF HkSweep, Goto
    <3> QED
      BY <1>0, <2>1, <3>1, <3>2 DEF MovePcs
  <2>3. CASE HkStart \/ HkKnown \/ HkList \/ HkDone \/ HkFail
    BY <1>0, <2>1, <2>3 DEF HkStart, HkKnown, HkList, HkDone, HkFail, Finish,
       Goto, PurgeOf, Idle, MovePcs
  <2> QED
    BY <1>3, <2>2, <2>3 DEF Sweeping
<1>4. Passing => procs'[q] = procs[q]
  BY DEF Passing, ClientPut, HourPasses, MonthPasses
<1> QED
  BY <1>1, <1>2, <1>3, <1>4 DEF CalmNext

\* Where one request at most moves files at a time, no file is moved twice at a
\* time.
LEMMA OneMover ==
    ASSUME MaxMovers <= 1, IsFiniteSet(Workers)
    PROVE  Spec => []MovesApart
<1> DEFINE Single == /\ ~Moves(Hk)
                     /\ \A p, q \in Workers : Moves(p) /\ Moves(q) => p = q
<1>0. /\ Procs = Workers \cup {Hk} /\ Hk \notin Workers
      /\ Hk \in Procs /\ \A p \in Workers : p \in Procs
  BY FileStoreAssumption DEF Procs, Hk
<1>1. Init => Single
  BY <1>0 DEF Init, Moves, Idle, MovePcs
<1>2. TypeInv /\ Single /\ [Next]_vars => Single'
  <2>1. ASSUME TypeInv, Single, NEW p \in Workers, Moving(p) PROVE Single'
    <3>1. \A q \in Procs \ {p} : procs'[q] = procs[q]
      BY <2>1, MovingPcs
    <3>2. \A q \in Workers \ {p} : ~Moves(q)
      <4>1. CASE Moves(p)
        BY <2>1, <4>1
      <4>2. CASE MoveRead(p)
        <5>1. PICK S : S = {q \in Workers : procs[q].pc \in MovePcs}
          OBVIOUS
        <5>2. IsFiniteSet(S) /\ Cardinality(S) < MaxMovers
          <6>1. S \subseteq Workers
            BY <5>1
          <6>2. Cardinality(S) < MaxMovers
            BY <4>2, <5>1 DEF MoveRead
          <6> QED
            BY <6>1, <6>2, FS_Subset
        <5>3. Cardinality(S) = 0
          BY <5>2, FS_CardinalityType, FileStoreAssumption
        <5>4. S = {}
          BY <5>2, <5>3, FS_EmptySet
        <5> QED
          BY <5>1, <5>4 DEF Moves
      <4> QED
        BY <2>1, <4>1, <4>2, MovingPcs DEF Moves
    <3> QED
      BY <1>0, <2>1, <3>1, <3>2 DEF Moves
  <2>2. ASSUME TypeInv, Single, CalmNext PROVE Single'
    <3>1. ASSUME NEW q \in Procs, Moves(q)' PROVE Moves(q)
      BY <2>2, <3>1, CalmMoves DEF Moves
    <3> QED
      BY <1>0, <2>2, <3>1
  <2>3. ASSUME Single, UNCHANGED vars PROVE Single'
    BY <2>3 DEF vars, Moves
  <2> QED
    BY <2>1, <2>2, <2>3, Steps
<1>3. Single => MovesApart
  BY <1>0 DEF MovesApart
<1> QED
  BY <1>1, <1>2, <1>3, TypesKept, PTL DEF Spec

\* So it is wherever one request moves files at a time, whatever the others do.
THEOREM OneMoverLosesNothing ==
    ASSUME Covered, "reply" \notin Faults, MaxMovers <= 1, IsFiniteSet(Workers)
    PROVE  Spec => [](RowIsBacked /\ LiveRowIsBacked)
BY MovedRowsAreBacked, OneMover, PTL

-----------------------------------------------------------------------------
(* What is seen from outside.  Whatever was drawn for one file and one key *)
(* stays with them, so that no two files ever serve the same bytes; and a  *)
(* step touches one file, or leaves what all of them serve as it is.       *)

\* A uuid is in one key, and that key with one file.
IdInv ==
    /\ \A f, g \in Ids, k, j \in Keys :
         Uses(f, k) /\ Uses(g, j) /\ k[2] = j[2] => f = g /\ k = j
    /\ \A p \in Procs : Pending(p) =>
         \A f \in Ids, k \in Keys : Uses(f, k) => k[2] # procs[p].file

\* What has no checksum is under the key that was signed for the file.
OriginInv ==
    /\ \A f \in DOMAIN rows : rows[f].sha = 0 => rows[f].key[2] = f
    /\ \A v \in versions : v.sha = 0 => v.key[2] = v.file
    /\ \A p \in Procs :
         /\ procs[p].pc = "commit" /\ procs[p].sha = 0
              => procs[p].key[2] = procs[p].file
         /\ procs[p].pc = "snapshot" =>
              /\ procs[p].row.sha = 0 => procs[p].row.key[2] = procs[p].file
              /\ procs[p].op = "restore" /\ procs[p].sha = 0
                   => procs[p].key[2] = procs[p].file

\* A key that a step brings into use has a uuid of its own.
LEMMA IdStep ==
    ASSUME TypeInv, TypeInv', DrawnInv, KeyInv, IdInv, CalmNext
    PROVE  IdInv'
<1>0. /\ nextId \in Nat /\ \A f \in Ids : f \in Nat
      /\ \A k \in Keys : k[2] \in Ids /\ k[2] \in Nat
      /\ \A p \in Workers : p \in Procs
  BY FileStoreAssumption DEF TypeInv, TypeOK, Ids, Keys, Procs
\* The new uses of keys are one file's, of one key.
<1>1. \/ UsesKept
      \/ \E g, j :
           /\ Grows(g, j)
           /\ \/ j[2] = nextId /\ nextId' = nextId + 1
              \/ \E p \in Workers : InsertRow(p) /\ g = procs[p].file
                                                 /\ j = PendingKey(p)
  <2>1. ASSUME NEW p \in Workers, InsertRow(p)
        PROVE  Grows(procs[p].file, PendingKey(p))
    BY <2>1, NewUses
  <2>2. ASSUME NEW p \in Workers, PresignUpload(p)
        PROVE  \E g, j : Grows(g, j) /\ j[2] = nextId /\ nextId' = nextId + 1
    <3>1. Grows(nextId, <<Personal, nextId>>)
      BY <2>2, NewUses DEF StorageKey
    <3> QED
      BY <2>2, <3>1 DEF PresignUpload
  <2>3. ASSUME NEW p \in Workers, PutVersion(p)
        PROVE  \E g, j : Grows(g, j) /\ j[2] = nextId /\ nextId' = nextId + 1
    <3>1. Grows(procs[p].file, <<procs[p].org, nextId>>)
      BY <2>3, NewUses DEF StorageKey
    <3> QED
      BY <2>3, <3>1 DEF PutVersion
  <2> QED
    BY <2>1, <2>2, <2>3, CalmUses
<1>2. ASSUME NEW p \in Workers, InsertRow(p)
      PROVE  /\ Pending(p) /\ PendingKey(p)[2] = procs[p].file
             /\ procs'[p] = Idle
  <2>1. Pending(p) /\ Goto(p, Idle)
    BY <1>2 DEF InsertRow, Pending, Finish
  <2> QED
    BY <1>0, <2>1, Locals, Moved
<1>3. ASSUME NEW f \in Ids, NEW g \in Ids, NEW k \in Keys, NEW j \in Keys,
             Uses(f, k)', Uses(g, j)', k[2] = j[2]
      PROVE  f = g /\ k = j
  <2>1. ASSUME NEW e \in Ids, NEW i \in Keys, NEW h \in Ids, NEW l \in Keys,
               Uses(e, i)', ~Uses(e, i), Uses(h, l), i[2] = l[2]
        PROVE  FALSE
    <3>1. PICK g1, j1 :
            /\ Grows(g1, j1)
            /\ \/ j1[2] = nextId /\ nextId' = nextId + 1
               \/ \E p \in Workers : InsertRow(p) /\ g1 = procs[p].file
                                                  /\ j1 = PendingKey(p)
      BY <1>1, <2>1 DEF UsesKept
    <3>2. i = j1
      BY <2>1, <3>1 DEF Grows
    <3>3. l[2] < nextId
      BY <2>1 DEF DrawnInv
    <3>4. CASE \E p \in Workers : InsertRow(p) /\ j1 = PendingKey(p)
      BY <1>0, <1>2, <2>1, <3>2, <3>4 DEF IdInv
    <3> QED
      BY <1>0, <2>1, <3>1, <3>2, <3>3, <3>4
  <2>2. CASE Uses(f, k) /\ Uses(g, j)
    BY <1>3, <2>2 DEF IdInv
  <2>3. CASE ~Uses(f, k) /\ ~Uses(g, j)
    BY <1>1, <1>3, <2>3 DEF UsesKept, Grows
  <2> QED
    BY <1>3, <2>1, <2>2, <2>3
<1>4. ASSUME NEW q \in Procs, Pending(q)', NEW f \in Ids, NEW k \in Keys,
             Uses(f, k)'
      PROVE  k[2] # procs'[q].file
  <2>1. CASE Pending(q) /\ procs'[q].file = procs[q].file
    <3>1. procs[q].file \in Ids /\ procs[q].file < nextId
      BY <2>1, Locals DEF KeyInv
    <3>2. CASE Uses(f, k)
      BY <2>1, <3>2 DEF IdInv
    <3>3. ASSUME ~Uses(f, k), k[2] = procs[q].file PROVE FALSE
      <4>1. PICK p \in Workers : InsertRow(p) /\ k = PendingKey(p)
        BY <1>0, <1>1, <1>4, <3>1, <3>3 DEF UsesKept, Grows
      <4>2. p # q
        BY <1>2, <1>4, <4>1 DEF Pending, Idle
      <4> QED
        BY <1>0, <1>2, <2>1, <3>3, <4>1, <4>2 DEF KeyInv
    <3> QED
      BY <2>1, <3>2, <3>3
  <2>2. CASE q \in Workers /\ (UploadPut(q) \/ UploadJsonPut(q))
             /\ procs'[q].file = nextId
    <3>1. UsesKept
      BY <1>0, <2>2, UploadUses
    <3>2. k[2] < nextId
      BY <1>4, <3>1 DEF UsesKept, DrawnInv
    <3> QED
      BY <1>0, <2>2, <3>2
  <2> QED
    BY <1>4, <2>1, <2>2, PendingStep
<1> QED
  BY <1>3, <1>4 DEF IdInv

\* A checksum that is missing was missing where the row, the version or the
\* edit comes from.
LEMMA OriginStep ==
    ASSUME TypeInv, OriginInv, CalmNext
    PROVE  OriginInv'
<1>0. \A p \in Workers : p \in Procs
  BY DEF Procs
<1>1. ASSUME NEW f \in DOMAIN rows', rows'[f].sha = 0 PROVE rows'[f].key[2] = f
  <2>1. ASSUME NEW p \in Workers, CommitVersion(p), f = procs[p].file,
               rows'[f].key = procs[p].key, rows'[f].sha = procs[p].sha
        PROVE  rows'[f].key[2] = f
    BY <1>0, <1>1, <2>1 DEF CommitVersion, OriginInv
  <2>2. ASSUME NEW p \in Workers, InsertRow(p), f = procs[p].file,
               rows'[f].sha = f
        PROVE  FALSE
    <3>1. f \in Ids
      BY <1>0, <2>2, Locals DEF InsertRow, Pending
    <3> QED
      BY <1>1, <2>2, <3>1 DEF Ids
  <2>3. ASSUME NEW p \in Workers, PresignUpload(p), f = nextId
        PROVE  rows'[f].key[2] = f
    BY <2>3 DEF PresignUpload, With, StorageKey
  <2> QED
    BY <1>1, <2>1, <2>2, <2>3, Checksums DEF OriginInv
<1>2. ASSUME NEW v \in versions', v.sha = 0 PROVE v.key[2] = v.file
  <2>1. ASSUME NEW p \in Workers, SnapshotCurrent(p), v.file = procs[p].file,
               v.key = procs[p].row.key, v.sha = procs[p].row.sha
        PROVE  v.key[2] = v.file
    BY <1>0, <1>2, <2>1 DEF SnapshotCurrent, OriginInv
  <2> QED
    BY <1>2, <2>1, Checksums DEF OriginInv
<1>3. ASSUME NEW q \in Procs, procs'[q].pc = "commit", procs'[q].sha = 0
      PROVE  procs'[q].key[2] = procs'[q].file
  <2>1. CASE procs'[q] = procs[q]
    BY <1>3, <2>1 DEF OriginInv
  <2>2. CASE PutVersion(q) /\ procs'[q].sha = nextId
    BY <1>3, <2>2 DEF TypeInv, TypeOK
  <2>3. CASE /\ SnapshotCurrent(q) /\ procs[q].op = "restore"
             /\ procs'[q].file = procs[q].file /\ procs'[q].key = procs[q].key
             /\ procs'[q].sha = procs[q].sha
    BY <1>3, <2>3 DEF SnapshotCurrent, OriginInv
  <2> QED
    BY <1>3, <2>1, <2>2, <2>3, Checksums
<1>4. ASSUME NEW q \in Procs, procs'[q].pc = "snapshot"
      PROVE  /\ procs'[q].row.sha = 0 => procs'[q].row.key[2] = procs'[q].file
             /\ procs'[q].op = "restore" /\ procs'[q].sha = 0
                  => procs'[q].key[2] = procs'[q].file
  <2>1. CASE procs'[q] = procs[q]
    BY <1>4, <2>1 DEF OriginInv
  <2>2. CASE /\ procs'[q].file \in DOMAIN rows
             /\ procs'[q].row = rows[procs'[q].file]
             /\ \/ procs'[q].op = "create"
                \/ \E v \in versions :
                     /\ v.file = procs'[q].file
                     /\ procs'[q].key = v.key /\ procs'[q].sha = v.sha
    BY <2>2 DEF OriginInv
  <2> QED
    BY <1>4, <2>1, <2>2, Checksums
<1> QED
  BY <1>1, <1>2, <1>3, <1>4 DEF OriginInv

\* In a workload without moves a uuid stays with one key and one file.
THEOREM IdsKept == Spec => [](Calm => IdInv /\ OriginInv)
<1> DEFINE Inv == Calm => IdInv /\ OriginInv
<1>1. Init => Inv
  <2> SUFFICES ASSUME Init PROVE IdInv /\ OriginInv
    OBVIOUS
  <2>1. /\ DOMAIN rows = {} /\ versions = {}
        /\ \A p \in Procs : procs[p] = Idle
        /\ Idle.pc = "idle"
    BY DEF Init, Idle
  <2>2. \A f, k : ~Uses(f, k)
    BY <2>1 DEF Uses, Holds
  <2> QED
    BY <2>1, <2>2 DEF IdInv, OriginInv, Pending
<1>2. TypeInv /\ TypeInv' /\ SafeInv /\ Inv /\ [Next]_vars => Inv'
  <2>1. ASSUME TypeInv, TypeInv', SafeInv, Inv, Next PROVE Inv'
    <3>1. load'.ops = load.ops
      BY <2>1, OpsFixed
    <3>2. CASE Calm
      <4>1. OpsInv /\ DrawnInv /\ KeyInv /\ CalmNext
        BY <2>1, <3>2, CalmSteps DEF SafeInv
      <4> QED
        BY <2>1, <3>2, <4>1, IdStep, OriginStep
    <3>3. CASE ~Calm
      BY <3>1, <3>3 DEF Calm
    <3> QED
      BY <3>2, <3>3
  <2>2. ASSUME Inv, UNCHANGED vars PROVE Inv'
    <3>1. /\ rows' = rows /\ versions' = versions /\ procs' = procs
          /\ load' = load
      BY <2>2 DEF vars
    <3>2. \A f, k : Uses(f, k)' <=> Uses(f, k)
      BY <3>1 DEF Uses
    <3> QED
      BY <2>2, <3>1, <3>2 DEF Calm, IdInv, OriginInv, Pending
  <2> QED
    BY <2>1, <2>2
<1> QED
  BY <1>1, <1>2, TypesKept, SafeKept, PTL DEF Spec

\* What a download serves is under the key of the row, and its own; rows that
\* are sealed have it.
Shelved ==
    /\ \A k \in DOMAIN objs : objs[k].data = k[2] /\ k[2] < nextId
    /\ \A f, g \in DOMAIN rows : rows[f].key[2] = rows[g].key[2] => f = g
    /\ \A f \in DOMAIN rows :
         f < nextId /\ (rows[f].sha # 0 => rows[f].key \in DOMAIN objs)
    /\ \A p \in Procs : Pending(p) => procs[p].file \notin DOMAIN rows

\* Only a version without a checksum may bring back the lack of an object.
LosesNothing ==
    \A f \in DOMAIN rows \cap DOMAIN rows' :
      rows[f].key \in DOMAIN objs =>
        \/ rows'[f].key \in DOMAIN objs'
        \/ rows[f].sha # 0 /\ rows'[f].sha = 0

\* A row inserted, presigned, removed, out of the trash or in it, or given
\* other bytes.
Touches(f) ==
    \/ f \in DOMAIN rows /\ f \notin DOMAIN rows'
    \/ /\ f \notin DOMAIN rows /\ f \in DOMAIN rows'
       /\ \/ rows'[f].trash = "live" /\ rows'[f].sha # 0
          \/ /\ rows'[f].trash # "live" /\ rows'[f].sha = 0
             /\ rows'[f].key[2] = nextId
    \/ /\ f \in DOMAIN rows /\ f \in DOMAIN rows'
       /\ \/ rows'[f].key = rows[f].key /\ rows'[f].sha = rows[f].sha
          \/ rows'[f].trash = rows[f].trash

\* A step puts one object, deletes some, touches one row, or ages them all.
Effect ==
    \/ rows' = rows /\ DOMAIN objs' \subseteq DOMAIN objs
    \/ rows' = rows /\ \E k : DOMAIN objs' = DOMAIN objs \cup {k}
    \/ /\ DOMAIN objs' = DOMAIN objs
       /\ \E f \in Ids :
            /\ Touches(f)
            /\ \A g \in (DOMAIN rows \cup DOMAIN rows') \ {f} :
                 g \in DOMAIN rows /\ g \in DOMAIN rows' /\ rows'[g] = rows[g]
    \/ /\ DOMAIN objs' = DOMAIN objs /\ DOMAIN rows' = DOMAIN rows
       /\ \A f \in DOMAIN rows :
            /\ rows'[f].key = rows[f].key /\ rows'[f].sha = rows[f].sha
            /\ (rows'[f].trash = "live") = (rows[f].trash = "live")

\* So a catalogue is what is seen.
LEMMA ShelfStep ==
    ASSUME TypeInv, TypeInv', Shelved, Shelved', Effect, LosesNothing
    PROVE  [Cat!CatNext]_Shelf
<1> DEFINE Now(f) == IF rows[f].key \in DOMAIN objs THEN rows[f].key[2] ELSE 0
           Then(f) == IF rows'[f].key \in DOMAIN objs' THEN rows'[f].key[2] ELSE 0
           Keeps(g) == /\ g \in DOMAIN rows /\ g \in DOMAIN rows'
                       /\ Shelf'[g] = Shelf[g] /\ rows'[g].key = rows[g].key
<1>0. /\ DOMAIN rows \subseteq Ids /\ DOMAIN rows' \subseteq Ids
      /\ \A f \in DOMAIN rows : rows[f] \in RowSet /\ rows[f].key[2] \in Ids
      /\ \A f \in DOMAIN rows' : rows'[f] \in RowSet /\ rows'[f].key[2] \in Ids
      /\ 0 \notin Ids
  BY DEF TypeInv, TypeOK, RowSet, Keys, Ids
<1>1. /\ DOMAIN Shelf = DOMAIN rows
      /\ \A f \in DOMAIN rows :
           Shelf[f] = [content |-> Now(f), listed |-> rows[f].trash = "live",
                       sealed |-> rows[f].sha # 0]
  BY DEF Shelf, Shelved
<1>2. /\ DOMAIN Shelf' = DOMAIN rows'
      /\ \A f \in DOMAIN rows' :
           Shelf'[f] = [content |-> Then(f), listed |-> rows'[f].trash = "live",
                        sealed |-> rows'[f].sha # 0]
  BY DEF Shelf, Shelved
<1>3. ASSUME DOMAIN rows' = DOMAIN rows,
             \A f \in DOMAIN rows : Shelf'[f] = Shelf[f]
      PROVE  Shelf' = Shelf
  <2>1. Shelf = [f \in DOMAIN rows |-> Shelf[f]]
    BY DEF Shelf
  <2>2. Shelf' = [f \in DOMAIN rows' |-> Shelf'[f]]
    BY DEF Shelf
  <2> QED
    BY <1>3, <2>1, <2>2
\* Nobody else has what a file gets.
<1>4. ASSUME NEW f \in DOMAIN rows', Then(f) # 0,
             \A g \in DOMAIN rows \ {f} : Keeps(g),
             f \in DOMAIN rows => Now(f) # Then(f)
      PROVE  Then(f) \in Ids /\ Cat!Unshared(Then(f))
  <2>1. Then(f) = rows'[f].key[2] /\ Then(f) \in Ids
    BY <1>0, <1>4
  <2>2. ASSUME NEW g \in DOMAIN rows PROVE Now(g) # Then(f)
    <3>1. CASE g = f
      BY <1>4, <3>1
    <3>2. CASE g # f
      <4>1. g \in DOMAIN rows' /\ rows'[g].key = rows[g].key
        BY <1>4, <3>2
      <4>2. rows'[g].key[2] # rows'[f].key[2]
        BY <3>2, <4>1 DEF Shelved
      <4> QED
        BY <1>0, <2>1, <4>1, <4>2
    <3> QED
      BY <3>1, <3>2
  <2> QED
    BY <1>1, <2>1, <2>2 DEF Cat!Unshared
<1>5. ASSUME NEW f \in Ids,
             \A g \in (DOMAIN rows \cup DOMAIN rows') \ {f} : Keeps(g)
      PROVE  Cat!Only(f)
  BY <1>1, <1>2, <1>5 DEF Cat!Only
\* One file gets other bytes, or none in the place of sealed ones.
<1>6. ASSUME NEW f \in DOMAIN rows, f \in DOMAIN rows',
             \A g \in (DOMAIN rows \cup DOMAIN rows') \ {f} : Keeps(g),
             rows'[f].trash = rows[f].trash
      PROVE  Cat!CatNext \/ Shelf' = Shelf
  <2>1. f \in Ids /\ Cat!Stays(f) /\ DOMAIN rows' = DOMAIN rows
    BY <1>0, <1>1, <1>2, <1>5, <1>6 DEF Cat!Stays
  <2>2. CASE Then(f) # 0
    <3>1. Then(f) = Shelf[f].content \/ Cat!Unshared(Then(f))
      BY <1>1, <1>4, <1>6, <2>2
    <3>2. Shelf'[f] = Cat!Entry(Then(f), Shelf[f].listed, rows'[f].sha # 0)
      BY <1>1, <1>2, <1>6 DEF Cat!Entry
    <3>3. Then(f) \in Ids
      BY <1>0, <1>6, <2>2
    <3>4. Cat!Replace(f)
      BY <2>1, <3>1, <3>2, <3>3 DEF Cat!Replace
    <3> QED
      BY <2>1, <3>4 DEF Cat!CatNext
  <2>3. CASE Then(f) = 0
    <3>1. rows'[f].key \notin DOMAIN objs'
      BY <1>0, <1>6, <2>3
    <3>2. rows'[f].sha = 0
      BY <1>6, <3>1 DEF Shelved
    <3>3. CASE rows[f].sha # 0
      <4>1. Shelf[f].sealed
        <5>1. Shelf[f].sealed = (rows[f].sha # 0)
          BY <1>1
        <5> QED
          BY <3>3, <5>1
      <4>2. Shelf'[f] = Cat!Entry(0, Shelf[f].listed, FALSE)
        <5>1. Shelf[f].listed = (rows[f].trash = "live")
          BY <1>1
        <5>2. (rows'[f].sha # 0) = FALSE
          BY <3>2
        <5> QED
          BY <1>2, <1>6, <2>3, <5>1, <5>2, Zenon DEF Cat!Entry
      <4>3. Cat!Blank(f)
        BY <2>1, <4>1, <4>2 DEF Cat!Blank
      <4> QED
        BY <2>1, <4>3 DEF Cat!CatNext
    <3>4. CASE rows[f].sha = 0
      <4>1. Now(f) = 0
        BY <1>6, <3>1, <3>4 DEF LosesNothing
      <4>2. Shelf'[f] = Shelf[f]
        BY <1>1, <1>2, <1>6, <2>3, <3>2, <3>4, <4>1
      <4> QED
        BY <1>3, <1>6, <2>1, <4>2
    <3> QED
      BY <3>3, <3>4
  <2> QED
    BY <2>2, <2>3
<1>7. CASE rows' = rows /\ DOMAIN objs' \subseteq DOMAIN objs
  <2>1. \A f \in DOMAIN rows : Shelf'[f] = Shelf[f]
    BY <1>1, <1>2, <1>7 DEF LosesNothing
  <2> QED
    BY <1>3, <1>7, <2>1
<1>8. ASSUME rows' = rows, NEW k, DOMAIN objs' = DOMAIN objs \cup {k}
      PROVE  Cat!CatNext \/ Shelf' = Shelf
  <2>1. ASSUME NEW g \in DOMAIN rows, rows[g].key # k PROVE Keeps(g)
    BY <1>1, <1>2, <1>8, <2>1
  <2>2. ASSUME NEW f \in DOMAIN rows, rows[f].key = k
        PROVE  Cat!CatNext \/ Shelf' = Shelf
    <3>1. \A g \in DOMAIN rows \ {f} : rows[g].key # k
      BY <2>2 DEF Shelved
    <3> QED
      BY <1>6, <1>8, <2>1, <2>2, <3>1
  <2> QED
    BY <1>3, <1>8, <2>1, <2>2
<1>9. ASSUME DOMAIN objs' = DOMAIN objs, NEW f \in Ids, Touches(f),
             \A g \in (DOMAIN rows \cup DOMAIN rows') \ {f} :
               g \in DOMAIN rows /\ g \in DOMAIN rows' /\ rows'[g] = rows[g]
      PROVE  Cat!CatNext \/ Shelf' = Shelf
  <2>1. \A g \in (DOMAIN rows \cup DOMAIN rows') \ {f} : Keeps(g)
    BY <1>1, <1>2, <1>9
  <2>2. CASE f \in DOMAIN rows /\ f \notin DOMAIN rows'
    <3>1. Cat!Remove(f)
      BY <1>1, <1>2, <1>5, <2>1, <2>2 DEF Cat!Remove
    <3> QED
      BY <3>1 DEF Cat!CatNext
  <2>3. CASE f \notin DOMAIN rows /\ f \in DOMAIN rows'
    <3>1. CASE rows'[f].trash = "live" /\ rows'[f].sha # 0
      <4>1. Then(f) # 0
        BY <1>0, <2>3, <3>1 DEF Shelved
      <4>4. Shelf'[f] = Cat!Entry(Then(f), TRUE, TRUE)
        <5>1. (rows'[f].trash = "live") = TRUE /\ (rows'[f].sha # 0) = TRUE
          BY <3>1
        <5> QED
          BY <1>2, <2>3, <5>1, Zenon DEF Cat!Entry
      <4>2. Then(f) \in Ids /\ Cat!Unshared(Then(f))
        BY <1>4, <2>1, <2>3, <4>1
      <4>3. Cat!Add(f)
        BY <1>1, <1>2, <1>5, <2>1, <2>3, <4>2, <4>4 DEF Cat!Add
      <4> QED
        BY <4>3 DEF Cat!CatNext
    <3>2. CASE /\ rows'[f].trash # "live" /\ rows'[f].sha = 0
               /\ rows'[f].key[2] = nextId
      <4>1. rows'[f].key \notin DOMAIN objs
        BY <3>2 DEF Shelved, TypeInv, TypeOK
      <4>2. Shelf'[f] = Cat!Entry(0, FALSE, FALSE)
        BY <1>2, <1>9, <2>3, <3>2, <4>1 DEF Cat!Entry
      <4>3. Cat!Add(f)
        BY <1>1, <1>2, <1>5, <2>1, <2>3, <4>2 DEF Cat!Add
      <4> QED
        BY <4>3 DEF Cat!CatNext
    <3> QED
      BY <1>9, <2>3, <3>1, <3>2 DEF Touches
  <2>4. CASE f \in DOMAIN rows /\ f \in DOMAIN rows'
    <3>1. CASE rows'[f].trash = rows[f].trash
      BY <1>6, <2>1, <2>4, <3>1
    <3>2. CASE rows'[f].key = rows[f].key /\ rows'[f].sha = rows[f].sha
      <4>1. Then(f) = Now(f)
        BY <1>9, <3>2
      <4>2. CASE (rows'[f].trash = "live") = (rows[f].trash = "live")
        <5>1. \A g \in DOMAIN rows : Shelf'[g] = Shelf[g]
          BY <1>1, <1>2, <2>1, <2>4, <3>2, <4>1, <4>2
        <5>2. DOMAIN rows' = DOMAIN rows
          BY <1>9, <2>4
        <5> QED
          BY <1>3, <5>1, <5>2
      <4>3. CASE (rows'[f].trash = "live") # (rows[f].trash = "live")
        <5>1. Shelf'[f] = Cat!Entry(Shelf[f].content, ~Shelf[f].listed,
                                    Shelf[f].sealed)
          <6>1. /\ Shelf[f].content = Now(f)
                /\ Shelf[f].listed = (rows[f].trash = "live")
                /\ Shelf[f].sealed = (rows[f].sha # 0)
            BY <1>1, <2>4
          <6>2. (rows'[f].trash = "live") = ~Shelf[f].listed
            BY <4>3, <6>1
          <6>3. (rows'[f].sha # 0) = Shelf[f].sealed
            BY <3>2, <6>1
          <6>4. Then(f) = Shelf[f].content
            BY <4>1, <6>1
          <6> QED
            BY <1>2, <2>4, <6>2, <6>3, <6>4, Zenon DEF Cat!Entry
        <5>2. Cat!Toggle(f)
          BY <1>1, <1>2, <1>5, <2>1, <2>4, <5>1 DEF Cat!Toggle, Cat!Stays
        <5> QED
          BY <5>2 DEF Cat!CatNext
      <4> QED
        BY <4>2, <4>3
    <3> QED
      BY <1>9, <2>4, <3>1, <3>2 DEF Touches
  <2> QED
    BY <1>9, <2>2, <2>3, <2>4 DEF Touches
<1>10. CASE /\ DOMAIN objs' = DOMAIN objs /\ DOMAIN rows' = DOMAIN rows
            /\ \A f \in DOMAIN rows :
                 /\ rows'[f].key = rows[f].key /\ rows'[f].sha = rows[f].sha
                 /\ (rows'[f].trash = "live") = (rows[f].trash = "live")
  <2>1. \A f \in DOMAIN rows : Shelf'[f] = Shelf[f]
    BY <1>1, <1>2, <1>10
  <2> QED
    BY <1>3, <1>10, <2>1
<1> QED
  BY <1>7, <1>8, <1>9, <1>10 DEF Effect

\* Every step has one of these effects.
LEMMA Effects ==
    ASSUME TypeInv, TypeInv', Shelved, Next
    PROVE  Effect
<1>0. /\ nextId \in Nat /\ DOMAIN rows \subseteq Ids /\ DOMAIN rows' \subseteq Ids
      /\ \A f \in DOMAIN rows : rows[f] \in RowSet
      /\ nextId \notin DOMAIN rows
      /\ \A p \in Workers : p \in Procs
  BY DEF TypeInv, TypeOK, Shelved, Procs
<1> DEFINE Alone(f) ==
      \A g \in (DOMAIN rows \cup DOMAIN rows') \ {f} :
        g \in DOMAIN rows /\ g \in DOMAIN rows' /\ rows'[g] = rows[g]
<1>1. ASSUME rows' = rows, NEW k, NEW d, objs' = Put(k, d) PROVE Effect
  BY <1>1 DEF Effect, Put, With
<1>2. ASSUME rows' = rows, NEW S, TryDelete(S) PROVE Effect
  BY <1>2, DeleteTypes DEF Effect
<1>3. ASSUME rows' = rows, DOMAIN objs' = DOMAIN objs PROVE Effect
  BY <1>3 DEF Effect
<1>4. ASSUME objs' = objs, NEW f \in DOMAIN rows \cup DOMAIN rows', Alone(f),
             Touches(f)
      PROVE  Effect
  <2>1. f \in Ids
    BY <1>0
  <2> QED
    BY <1>4, <2>1 DEF Effect
\* One field of one row.
<1>5. ASSUME objs' = objs, NEW f \in DOMAIN rows, NEW r,
             rows' = [rows EXCEPT ![f] = r],
             \/ r.key = rows[f].key /\ r.sha = rows[f].sha
             \/ r.trash = rows[f].trash
      PROVE  Effect
  <2>1. Alone(f) /\ Touches(f)
    BY <1>5 DEF Touches
  <2> QED
    BY <1>4, <1>5, <2>1
<1>6. ASSUME NEW p \in Workers, Uploading(p) PROVE Effect
  <2>1. CASE UploadPut(p)
    BY <1>1, <2>1 DEF UploadPut
  <2>2. CASE UploadJsonPut(p)
    BY <1>1, <2>2 DEF UploadJsonPut
  <2>3. CASE CheckMagic(p)
    BY <1>2, <1>3, <2>3 DEF CheckMagic
  <2>4. CASE ConfirmRead(p) \/ ConfirmHead(p)
    BY <1>3, <2>4 DEF ConfirmRead, ConfirmHead
  <2>5. CASE InsertRow(p)
    <3>1. Pending(p) /\ procs[p].file \in Ids
      BY <1>0, <2>5, Locals DEF InsertRow, Pending
    <3>2. procs[p].file \notin DOMAIN rows /\ procs[p].file # 0
      BY <1>0, <3>1 DEF Shelved, Ids
    <3>3. Alone(procs[p].file) /\ procs[p].file \in DOMAIN rows'
      BY <2>5 DEF InsertRow, With
    <3>4. rows'[procs[p].file].trash = "live"
          /\ rows'[procs[p].file].sha = procs[p].file
      BY <2>5 DEF InsertRow, With
    <3>5. Touches(procs[p].file)
      BY <3>2, <3>3, <3>4 DEF Touches
    <3> QED
      BY <1>4, <2>5, <3>3, <3>5 DEF InsertRow
  <2>6. CASE PresignUpload(p)
    <3>1. Alone(nextId) /\ nextId \in DOMAIN rows'
      BY <2>6 DEF PresignUpload, With
    <3>2. /\ rows'[nextId].trash = "trashed" /\ rows'[nextId].sha = 0
          /\ rows'[nextId].key[2] = nextId
      BY <2>6 DEF PresignUpload, With, StorageKey
    <3>3. Touches(nextId)
      BY <1>0, <3>1, <3>2 DEF Touches
    <3> QED
      BY <1>4, <2>6, <3>1, <3>3 DEF PresignUpload
  <2>7. CASE ConfirmCommit(p)
    <3>1. CASE procs[p].file \in DOMAIN rows
      <4>1. PICK f \in DOMAIN rows : f = procs[p].file
        BY <3>1
      <4>2. rows' = [rows EXCEPT ![f] = [rows[f] EXCEPT !.trash = "live"]]
        BY <2>7, <4>1 DEF ConfirmCommit
      <4> QED
        BY <1>0, <1>5, <2>7, <4>2 DEF ConfirmCommit, RowSet
    <3>2. CASE procs[p].file \notin DOMAIN rows
      BY <1>3, <2>7, <3>2 DEF ConfirmCommit
    <3> QED
      BY <3>1, <3>2
  <2> QED
    BY <1>6, <2>1, <2>2, <2>3, <2>4, <2>5, <2>6, <2>7 DEF Uploading
<1>7. ASSUME NEW p \in Workers, Trashing(p) PROVE Effect
  <2>1. CASE Delete(p)
    <3>1. PICK f \in DOMAIN rows : rows' = [rows EXCEPT ![f].trash = "trashed"]
      BY <2>1 DEF Delete
    <3>2. rows' = [rows EXCEPT ![f] = [rows[f] EXCEPT !.trash = "trashed"]]
      BY <3>1
    <3> QED
      BY <1>0, <1>5, <2>1, <3>2 DEF Delete, RowSet
  <2>2. CASE Restore(p)
    <3>1. PICK f \in DOMAIN rows : rows' = [rows EXCEPT ![f].trash = "live"]
      BY <2>2 DEF Restore
    <3>2. rows' = [rows EXCEPT ![f] = [rows[f] EXCEPT !.trash = "live"]]
      BY <3>1
    <3> QED
      BY <1>0, <1>5, <2>2, <3>2 DEF Restore, RowSet
  <2>3. CASE Purge(p) \/ EmptyTrash(p) \/ BulkPurge(p)
    BY <1>3, <2>3 DEF Purge, EmptyTrash, BulkPurge
  <2> QED
    BY <1>7, <2>1, <2>2, <2>3 DEF Trashing
<1>8. ASSUME NEW p \in Procs, Purging(p) PROVE Effect
  <2>1. CASE PurgeRow(p)
    <3>1. CASE rows' = rows
      BY <1>3, <2>1, <3>1 DEF PurgeRow
    <3>2. ASSUME NEW t, rows' = Without(rows, {t[1]}) PROVE Effect
      <4>1. CASE t[1] \in DOMAIN rows
        <5>1. Alone(t[1]) /\ t[1] \notin DOMAIN rows'
          BY <3>2 DEF Without, Restrict
        <5>2. Touches(t[1])
          BY <4>1, <5>1 DEF Touches
        <5> QED
          BY <1>4, <2>1, <4>1, <5>1, <5>2 DEF PurgeRow
      <4>2. CASE t[1] \notin DOMAIN rows
        <5>1. DOMAIN rows' = DOMAIN rows /\ \A g \in DOMAIN rows : rows'[g] = rows[g]
          BY <3>2, <4>2 DEF Without, Restrict
        <5>2. objs' = objs
          BY <2>1 DEF PurgeRow
        <5> QED
          BY <5>1, <5>2 DEF Effect
      <4> QED
        BY <4>1, <4>2
    <3> QED
      BY <2>1, <3>1, <3>2 DEF PurgeRow
  <2>2. CASE PurgeObject(p)
    BY <1>2, <2>2 DEF PurgeObject
  <2>3. CASE PurgeDone(p)
    BY <1>3, <2>3 DEF PurgeDone
  <2> QED
    BY <1>8, <2>1, <2>2, <2>3 DEF Purging
<1>9. ASSUME NEW p \in Workers, Editing(p) PROVE Effect
  <2>1. CASE CreateVersionRead(p) \/ RestoreVersionRead(p) \/ SnapshotCurrent(p)
    BY <1>3, <2>1 DEF CreateVersionRead, RestoreVersionRead, SnapshotCurrent
  <2>2. CASE PutVersion(p)
    BY <1>1, <2>2 DEF PutVersion
  <2>3. CASE CommitVersion(p)
    <3>1. CASE procs[p].file \in DOMAIN rows
      <4>1. PICK f \in DOMAIN rows : f = procs[p].file
        BY <3>1
      <4>2. rows' = [rows EXCEPT ![f].key = procs[p].key, ![f].sha = procs[p].sha]
        BY <2>3, <4>1 DEF CommitVersion
      <4>3. rows' = [rows EXCEPT ![f] = rows'[f]] /\ rows'[f].trash = rows[f].trash
        BY <1>0, <4>2 DEF RowSet
      <4> QED
        BY <1>5, <2>3, <4>3 DEF CommitVersion
    <3>2. CASE procs[p].file \notin DOMAIN rows
      BY <1>3, <2>3, <3>2 DEF CommitVersion
    <3> QED
      BY <3>1, <3>2
  <2> QED
    BY <1>9, <2>1, <2>2, <2>3 DEF Editing
<1>10. ASSUME NEW p \in Workers, Moving(p) PROVE Effect
  <2>1. CASE MoveRead(p) \/ MoveGet(p)
    BY <1>3, <2>1 DEF MoveRead, MoveGet
  <2>2. CASE MovePut(p)
    BY <1>1, <2>2 DEF MovePut
  <2>3. CASE MoveCommit(p)
    <3>1. CASE rows' = rows
      BY <1>3, <2>3, <3>1 DEF MoveCommit
    <3>2. ASSUME NEW f \in DOMAIN rows,
                 rows' = [rows EXCEPT ![f] = MovedRow(@, procs[p])]
          PROVE  Effect
      <4>1. PICK r : r = MovedRow(rows[f], procs[p])
        OBVIOUS
      <4>2. rows' = [rows EXCEPT ![f] = r]
        BY <3>2, <4>1
      <4>3. r.trash = rows[f].trash
        BY <1>0, <4>1 DEF MovedRow, RowSet
      <4> QED
        BY <1>5, <2>3, <4>2, <4>3 DEF MoveCommit
    <3> QED
      BY <2>3, <3>1, <3>2 DEF MoveCommit
  <2>4. CASE MoveDropOld(p) \/ MoveDropNew(p)
    BY <1>2, <2>4 DEF MoveDropOld, MoveDropNew
  <2> QED
    BY <1>10, <2>1, <2>2, <2>3, <2>4 DEF Moving
<1>11. ASSUME Sweeping PROVE Effect
  <2>1. CASE HkSweep
    BY <1>2, <2>1 DEF HkSweep
  <2> QED
    BY <1>3, <1>11, <2>1 DEF Sweeping, HkStart, HkKnown, HkList, HkDone, HkFail
<1>12. ASSUME Passing PROVE Effect
  <2>1. CASE ClientPut
    BY <1>1, <2>1 DEF ClientPut
  <2>2. CASE HourPasses
    BY <1>3, <2>2 DEF HourPasses, Aged
  <2>3. CASE MonthPasses
    <3>1. DOMAIN objs' = DOMAIN objs /\ DOMAIN rows' = DOMAIN rows
      BY <2>3 DEF MonthPasses, Aged
    <3>2. ASSUME NEW f \in DOMAIN rows
          PROVE  /\ rows'[f].key = rows[f].key /\ rows'[f].sha = rows[f].sha
                 /\ (rows'[f].trash = "live") = (rows[f].trash = "live")
      BY <1>0, <2>3 DEF MonthPasses, RowSet
    <3> QED
      BY <3>1, <3>2 DEF Effect
  <2> QED
    BY <1>12, <2>1, <2>2, <2>3 DEF Passing
<1>13. ASSUME NEW p \in Workers, Abort(p) PROVE Effect
  BY <1>3, <1>13 DEF Abort
<1> QED
  BY <1>6, <1>7, <1>8, <1>9, <1>10, <1>11, <1>12, <1>13, Steps DEF CalmNext

\* A workload without moves lets no two files share a uuid.
LEMMA CalmShelf ==
    ASSUME TypeInv, DrawnInv, KeyInv, ShaInv, ObjectInv, IdInv
    PROVE  Shelved
<1>1. /\ DOMAIN rows \subseteq Ids
      /\ \A f \in DOMAIN rows : rows[f].key \in Keys /\ Uses(f, rows[f].key)
  BY DEF TypeInv, TypeOK, RowSet, Uses
<1>2. \A f \in DOMAIN rows : f < nextId
  BY <1>1 DEF DrawnInv, Knows
<1>3. \A f, g \in DOMAIN rows : rows[f].key[2] = rows[g].key[2] => f = g
  BY <1>1 DEF IdInv
<1> QED
  BY <1>2, <1>3 DEF Shelved, DrawnInv, KeyInv, ShaInv, ObjectInv, Needs

\* What a row gets has its object, unless it lacks a checksum.
LEMMA CalmLosesNothing ==
    ASSUME TypeInv, OpsInv, DrawnInv, KeyInv, ObjectInv, SweepInv, IdInv,
           OriginInv, CalmNext
    PROVE  LosesNothing
<1>0. /\ \A p \in Workers : p \in Procs
      /\ \A f \in DOMAIN rows :
           /\ f \in Ids /\ f # nextId
           /\ rows[f].key \in Keys /\ Uses(f, rows[f].key)
  <2>1. \A f \in DOMAIN rows : f \in Ids /\ rows[f].key \in Keys
    BY DEF TypeInv, TypeOK, RowSet
  <2>2. \A f \in DOMAIN rows : Uses(f, rows[f].key)
    BY DEF Uses
  <2>3. \A f \in DOMAIN rows : f < nextId
    BY <2>1, <2>2 DEF DrawnInv, Knows
  <2> QED
    BY <2>1, <2>2, <2>3 DEF Procs, TypeInv, TypeOK
<1> SUFFICES ASSUME NEW f \in DOMAIN rows, f \in DOMAIN rows',
                    rows[f].key \in DOMAIN objs
             PROVE  \/ rows'[f].key \in DOMAIN objs'
                    \/ rows[f].sha # 0 /\ rows'[f].sha = 0
  BY DEF LosesNothing
<1>1. CASE rows'[f].key = rows[f].key
  BY <1>1, NeededStays
<1>2. ASSUME NEW p \in Workers, CommitVersion(p), f = procs[p].file,
             rows'[f].key = procs[p].key, rows'[f].sha = procs[p].sha
      PROVE  \/ rows'[f].key \in DOMAIN objs'
             \/ rows[f].sha # 0 /\ rows'[f].sha = 0
  <2>1. procs[p].pc = "commit" /\ objs' = objs
    BY <1>2 DEF CommitVersion
  <2>2. CASE procs[p].sha # 0
    BY <1>0, <1>2, <2>1, <2>2 DEF ObjectInv, Solid
  <2>3. CASE procs[p].sha = 0 /\ rows[f].sha = 0
    <3>1. rows[f].key[2] = f /\ procs[p].key[2] = f
      BY <1>0, <1>2, <2>1, <2>3 DEF OriginInv
    <3>2. procs[p].key \in Keys /\ Uses(f, procs[p].key)
      BY <1>0, <1>2, <2>1, Locals DEF Uses, Holds
    <3>3. procs[p].key = rows[f].key
      BY <1>0, <3>1, <3>2 DEF IdInv
    <3> QED
      BY <1>2, <2>1, <3>3
  <2> QED
    BY <1>2, <2>2, <2>3
<1>3. ASSUME NEW p \in Workers, InsertRow(p), f = procs[p].file PROVE FALSE
  BY <1>0, <1>3 DEF InsertRow, Pending, KeyInv
<1> QED
  BY <1>0, <1>1, <1>2, <1>3, Checksums

\* A plain workload keeps a file's own uuid in its key.
LEMMA PlainShelf ==
    ASSUME TypeInv, OwnInv, KeptInv
    PROVE  Shelved
BY DEF Shelved, OwnInv, KeptInv, Needs

\* A move takes the object along.
LEMMA PlainLosesNothing ==
    ASSUME TypeInv, PlainOps, OwnInv, MoveInv, KeptInv, PlainNext
    PROVE  LosesNothing
BY RowStays DEF LosesNothing

\* In the workloads of MovedRowsAreBacked, and under the same conditions, the
\* handlers, the purges, the sweep and the moves implement the catalogue: those
\* who keep files in the store see one file change at a time, at a stroke, to
\* content that no other file has, and lose no content of a file that stays.
THEOREM KeepsCatalogue ==
    ASSUME Covered, "reply" \notin Faults
    PROVE  Spec /\ []MovesApart => ImplementsCatalogue
<1> DEFINE Inv == /\ TypeInv /\ OpsOf /\ SafeInv /\ PlainInv
                  /\ (Calm => IdInv /\ OriginInv)
<1>1. Init => Cat!CatInit
  BY DEF Init, Cat!CatInit, Shelf
<1>2. Inv => Shelved
  <2> SUFFICES ASSUME Inv PROVE Shelved
    OBVIOUS
  <2>1. CASE Calm
    BY <2>1, CalmShelf DEF SafeInv
  <2>2. CASE Plain
    BY <2>2, PlainShelf DEF PlainInv
  <2> QED
    BY <2>1, <2>2 DEF OpsOf, Covered, Calm, Plain
<1>3. Inv /\ Inv' /\ Shelved /\ Shelved' /\ [Next]_vars => [Cat!CatNext]_Shelf
  <2>1. ASSUME Inv, Inv', Shelved, Shelved', Next PROVE [Cat!CatNext]_Shelf
    <3>1. Effect
      BY <2>1, Effects
    <3>2. CASE Calm
      <4>1. CalmNext
        BY <2>1, <3>2, CalmSteps DEF SafeInv
      <4>2. LosesNothing
        BY <2>1, <3>2, <4>1, CalmLosesNothing DEF SafeInv
      <4> QED
        BY <2>1, <3>1, <4>2, ShelfStep
    <3>3. CASE Plain
      <4>1. PlainOps /\ OwnInv /\ MoveInv /\ KeptInv
        BY <2>1, <3>3 DEF PlainInv
      <4>2. PlainNext
        BY <2>1, <3>3, <4>1, PlainSteps
      <4>3. LosesNothing
        BY <2>1, <4>1, <4>2, PlainLosesNothing
      <4> QED
        BY <2>1, <3>1, <4>3, ShelfStep
    <3> QED
      BY <2>1, <3>2, <3>3 DEF OpsOf, Covered, Calm, Plain
  <2>2. ASSUME UNCHANGED vars PROVE Shelf' = Shelf
    BY <2>2 DEF vars, Shelf
  <2> QED
    BY <2>1, <2>2
<1> QED
  BY <1>1, <1>2, <1>3, TypesKept, WorkloadKept, SafeKept, PlainKept, IdsKept, PTL
  DEF Spec, ImplementsCatalogue, Cat!CatSpec

\* With one mover at a time there is nothing to assume of the behaviour.
THEOREM OneMoverKeepsCatalogue ==
    ASSUME Covered, "reply" \notin Faults, MaxMovers <= 1, IsFiniteSet(Workers)
    PROVE  Spec => ImplementsCatalogue
BY KeepsCatalogue, OneMover, PTL
==============================================================================
