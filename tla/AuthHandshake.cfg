\* Login and callback handlers interleaved over the session store.
CONSTANTS
    c1 = c1
    c2 = c2
    s1 = s1
    s2 = s2
    s3 = s3
    Callers <- MCCallers
    States <- MCStates
    TTL = 2
    HTTPTimeout = 1
    MaxTime = 4
SYMMETRY MCSymmetry
SPECIFICATION Spec
INVARIANTS
    HandshakeTypeOK
    TokensOnlyForIssuedLogins
PROPERTIES
    IssuedSessionAlive
