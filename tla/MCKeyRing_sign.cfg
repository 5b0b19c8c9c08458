SPECIFICATION Spec
CONSTANTS
    Kid = {k1, k2, k3, k4}
    Algorithm = {EdDSA}
    Caller = {c1}
    Verifier = {}
    Ahead = 1
    Rotate = 2
    Retain = 3
    VerifyRetain = 4
    MaxAge = 0
    PassBound = 1
    SignBound = 1
    MaxTime = 6
    MaxFaults = 1
    None = None
SYMMETRY KidSymmetry
INVARIANTS
    TypeOK
    SigningKeyOnDisk
    PrivateHalfGone
    SignaturesStayVerifiable
