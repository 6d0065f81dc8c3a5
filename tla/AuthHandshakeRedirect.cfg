\* The redirect URI the client passes to /auth/login.
CONSTANTS
    c1 = c1
    c2 = c2
    s1 = s1
    s2 = s2
    s3 = s3
    Callers <- MCCallers
    States <- MCStates
    TTL = 2
    HTTPTimeout = 1
    MaxTime = 4
SPECIFICATION Spec
INVARIANTS
    RedirectHonoured
