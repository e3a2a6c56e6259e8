CONSTANTS
    p1 = p1
    p2 = p2
    Probe = {p1, p2}
SPECIFICATION FairSpec
INVARIANTS
    Orderly
    ReadyChecked
PROPERTIES
    CleanupEnds
