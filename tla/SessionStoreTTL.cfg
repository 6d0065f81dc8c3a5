\* The TTL bound of spec section 3 at the moment a consume succeeds.
CONSTANTS
    c1 = c1
    c2 = c2
    s1 = s1
    s2 = s2
    s3 = s3
    Callers <- MCCallers
    States <- MCStates
    TTL = 2
    MaxTime = 4
SPECIFICATION StoreSpec
PROPERTIES
    ConsumeWithinTTL
