CONSTANTS
    r1 = r1
    r2 = r2
    c1 = c1
    s1 = s1
    x = x
    Replica = {r1, r2}
    Client = {c1}
    Session = {s1}
    Role = {x}
    NoToken = NoToken
    Malformed = Malformed
    TTL = 2
    Leeway = 1
    MaxTokens = 2
    MaxTime = 4
SPECIFICATION Spec
SYMMETRY MCSymmetry
INVARIANT AdmittedLawfully
PROPERTY TokensVerify
