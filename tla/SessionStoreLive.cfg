\* Liveness of the sweep, and the two-lock store keeping the session lifecycle
\* of SessionLifecycle (no symmetry: temporal properties).
CONSTANTS
    c1 = c1
    c2 = c2
    s1 = s1
    s2 = s2
    s3 = s3
    Callers <- MCCallers
    States <- MCStates
    TTL = 2
    MaxTime = 4
SPECIFICATION StoreSpec
PROPERTIES
    ExpiredEventuallyRemoved
    LifecycleRefinement
