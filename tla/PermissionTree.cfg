CONSTANTS
    n1 = n1
    n2 = n2
    n3 = n3
    x = x
    c1 = c1
    c2 = c2
    Node = {n1, n2, n3}
    Root = Root
    Code = {x}
    NoCode = NoCode
    Client = {c1, c2}
    NoClient = NoClient
    SeedTrees <- MCSeeds
    MaxRevision = 3
SPECIFICATION Spec
SYMMETRY MCSymmetry
INVARIANT TreeSound
PROPERTIES
    NoLostUpdate
    TreeSpec
