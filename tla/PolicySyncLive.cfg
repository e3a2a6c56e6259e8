CONSTANTS
    a = a
    x = x
    r1 = r1
    p1 = p1
    Role = {a}
    Permission = {x}
    Wildcard = {}
    Replica = {r1}
    SeedPolicies <- MCSeeds
    Proc = {p1}
    NoActor = NoActor
    Required = {x}
    Attempts = 2
    MaxVersion = 3
SPECIFICATION FairSpec
PROPERTIES
    KeepsUp
CHECK_DEADLOCK FALSE
