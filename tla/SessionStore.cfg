\* Safety of the session store under concurrent consumers and the sweep.
CONSTANTS
    c1 = c1
    c2 = c2
    s1 = s1
    s2 = s2
    s3 = s3
    Callers <- MCCallers
    States <- MCStates
    TTL = 2
    MaxTime = 4
SYMMETRY MCSymmetry
SPECIFICATION StoreSpec
INVARIANTS
    StoreTypeOK
    SingleUse
    ValidatedNotSwept
