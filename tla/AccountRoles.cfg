CONSTANTS
    a1 = a1
    a2 = a2
    p1 = p1
    p2 = p2
    admin = admin
    user = user
    Account = {a1, a2}
    Role = {admin, user}
    Admin = admin
    User = user
    SeedRoles <- MCSeedRoles
    Proc = {p1, p2}
    NoProc = NoProc
    MaxRevision = 4
SPECIFICATION Spec
SYMMETRY MCSymmetry
INVARIANTS
    TypeOK
    WaitsEnd
    ViewCurrent
    AuditComplete
    BootstrapOnce
PROPERTIES
    LastAdminKept
    ClearedStaysCleared
    LedgerSpec
