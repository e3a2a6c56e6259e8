CONSTANTS
    a = a
    b = b
    c = c
    Role = {a, b, c}
    Letter = {"a"}
    Digit = {"1"}
    Sep = ":"
    Star = "*"
    MaxCode = 7
    MaxSegment = 3
SPECIFICATION Spec
SYMMETRY MCSymmetry
INVARIANT DecisionsAgree
