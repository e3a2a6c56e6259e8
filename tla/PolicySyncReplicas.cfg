CONSTANTS
    a = a
    r1 = r1
    p1 = p1
    Role = {a}
    Permission = {w}
    Wildcard = {w}
    w = w
    Replica = {r1, r2}
    r2 = r2
    SeedPolicies <- MCSeeds
    Proc = {p1}
    NoActor = NoActor
    Required = {}
    Attempts = 1
    MaxVersion = 3
SPECIFICATION Spec
SYMMETRY MCSymmetry
INVARIANT EnforcedHeld
PROPERTY LedgerSpec
