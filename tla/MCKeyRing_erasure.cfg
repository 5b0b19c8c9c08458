SPECIFICATION FairSpec
CONSTANTS
    Kid = {k1, k2, k3, k4, k5}
    Algorithm = {EdDSA}
    Caller = {}
    Verifier = {}
    Ahead = 1
    Rotate = 3
    Retain = 3
    VerifyRetain = 4
    MaxAge = 0
    PassBound = 1
    SignBound = 0
    MaxTime = 7
    MaxFaults = 1
    None = None
PROPERTIES
    RetiredKeyIsErased
