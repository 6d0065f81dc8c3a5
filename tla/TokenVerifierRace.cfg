CONSTANTS
    c1 = c1
    c2 = c2
    k1 = k1
    k2 = k2
    NoKey = NoKey
    NoToken = NoToken
    Callers <- MCCallers
    Keys <- MCKeys
    Tokens <- MCTokens
    MaxTime = 3
SPECIFICATION VerifierSpec
PROPERTIES
    KeyStable
