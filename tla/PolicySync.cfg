CONSTANTS
    a = a
    b = b
    x = x
    r1 = r1
    p1 = p1
    p2 = p2
    Role = {a, b}
    Permission = {x}
    Wildcard = {}
    Replica = {r1}
    SeedPolicies <- MCSeeds
    Proc = {p1, p2}
    NoActor = NoActor
    Required = {}
    Attempts = 1
    MaxVersion = 3
SPECIFICATION Spec
SYMMETRY MCSymmetry
INVARIANTS
    InheritanceAcyclic
    AuditTrail
PROPERTIES
    NeverBack
    NoLostUpdate
    CatalogRespected
    AnswersHeld
    ReadYourWrites
    LedgerSpec
