------------------------------ MODULE MCSharing ------------------------------
(* Workloads of Organizations and Sharing for TLC. *)
EXTENDS Sharing, TLC

CONSTANTS alice, bob, acme, r1, r2

TheUsers == {alice, bob}
TheOrgs == {acme}
TheRequests == {r1, r2}
Symmetry == Permutations(TheRequests)

\* An organization is founded, and people come and go.
MembersLoad ==
    [ops |-> {"create_org", "add_member", "create_invite", "accept_invite",
              "remove_member"},
     requests |-> 6, orgs |-> {}, roles |-> {"admin", "member"},
     sizes |-> {}]

\* A file of an organization is shared, deleted and restored.
LinksLoad ==
    [ops |-> {"upload_json", "share", "download", "revoke", "delete",
              "bulk_delete", "restore", "purge"},
     requests |-> 5, orgs |-> {acme}, roles |-> {}, sizes |-> {1}]

\* Files come and go under both quotas.
QuotaLoad ==
    [ops |-> {"upload_json", "presign", "confirm", "new_version", "move",
              "delete", "restore", "add_member"},
     requests |-> 4, orgs |-> {acme}, roles |-> {"member"},
     sizes |-> 1..MaxSize]

\* Uploads and imports fill a personal quota.
ImportLoad ==
    [ops |-> {"upload", "import", "delete"},
     requests |-> 3, orgs |-> {}, roles |-> {}, sizes |-> 1..MaxSize]

SharingLoads == {MembersLoad, LinksLoad, QuotaLoad, ImportLoad}
==============================================================================
