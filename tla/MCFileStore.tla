----------------------------- MODULE MCFileStore -----------------------------
(* Workloads of FileStore for TLC. *)
EXTENDS FileStore, TLC

CONSTANTS r1, r2

Workers1 == {r1}
Workers2 == {r1, r2}
Symmetry == Permutations(Workers2)

NoFaults == {}
CallFaults == {"db", "storage"}
AllFaults == {"db", "storage", "reply"}

\* Every upload path and every way into and out of the trash, with the sweep.
LifecycleOps ==
    {"upload", "upload_json", "presign_upload", "confirm_upload", "delete",
     "restore", "purge", "empty_trash", "bulk_purge", "housekeeping"}

\* New and restored versions beside the trash, without the sweep.
VersionOps ==
    {"upload_json", "create_version", "restore_version", "delete", "restore",
     "purge"}

\* Moves and presigned uploads beside the trash, without its restore.
MoveOps ==
    {"upload_json", "presign_upload", "confirm_upload", "move", "delete",
     "purge"}

\* Everything that can leave an object behind or change what a row holds.
OrphanOps ==
    {"upload", "create_version", "restore_version", "move", "delete",
     "restore", "purge", "housekeeping"}

\* New versions with the sweep.
VersionSweepOps == {"upload_json", "create_version", "housekeeping"}

\* The bounds that let each workload reach its interesting cases.
SafetyLoads ==
    {[ops |-> LifecycleOps, ids |-> 2, requests |-> 5],
     [ops |-> VersionOps, ids |-> 4, requests |-> 6],
     [ops |-> MoveOps, ids |-> 2, requests |-> 5]}

OrphanLoads == {[ops |-> OrphanOps, ids |-> 3, requests |-> 4]}
SweepLoads == {[ops |-> VersionSweepOps, ids |-> 2, requests |-> 3]}
==============================================================================
