CONSTANTS
    a = a
    b = b
    c = c
    d = d
    Node = {a, b, c, d}
    Root = Root
    Gone = Gone
    MaxEdges = 6
SPECIFICATION WalkSpec
SYMMETRY MCSymmetry
INVARIANT WalksAgree
