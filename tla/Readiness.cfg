CONSTANTS
    p1 = p1
    p2 = p2
    Probe = {p1, p2}
    NoProbe = NoProbe
    Never = Never
    Grace = 3
    Timeout = 2
    MaxVersion = 3
    MaxTime = 6
SPECIFICATION Spec
SYMMETRY MCSymmetry
PROPERTIES
    LastingLagReported
    GraceHonoured
