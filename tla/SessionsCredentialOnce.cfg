CONSTANTS
    x1 = x1
    x2 = x2
    c0 = c0
    c1 = c1
    c2 = c2
    c3 = c3
    a1 = a1
    a2 = a2
    a3 = a3
    s1 = s1
    s2 = s2
    s3 = s3
    h1 = h1
    h2 = h2
    h3 = h3
    p1 = p1
    p2 = p2
    External = {x1, x2}
    Account = {a1, a2, a3}
    Session = {s1, s2, s3}
    Hash = {h1, h2, h3}
    Credential = {c0, c1, c2, c3}
    Bearer <- MCBearer
    Expiry <- MCExpiry
    Earlier <- MCEarlier
    RefreshTTL = 1
    None = None
    Proc = {p1, p2}
    NoProc = NoProc
    MaxTime = 1
SPECIFICATION Spec
SYMMETRY MCSymmetry
INVARIANT CredentialOnce
