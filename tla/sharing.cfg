SPECIFICATION Spec
CONSTANTS
    alice = alice
    bob = bob
    acme = acme
    r1 = r1
    r2 = r2
    Users <- TheUsers
    Orgs <- TheOrgs
    Requests <- TheRequests
    Workloads <- SharingLoads
    UserQuota = 3
    OrgQuota = 2
    MaxSize = 2
SYMMETRY Symmetry
CHECK_DEADLOCK FALSE
INVARIANTS
    TypeOK
    OneMembershipEach
    MembersWereLetIn
    LinksDieWithFile
    QuotaExceededOnlyBy
PROPERTIES
    SpentInviteAdmitsNobodyNew
    DeadLinkStaysDead
