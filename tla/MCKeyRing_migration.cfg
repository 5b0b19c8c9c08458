SPECIFICATION Spec
CONSTANTS
    Kid = {k1, k2, k3, k4}
    Algorithm = {EdDSA, ES256}
    Caller = {}
    Verifier = {v1}
    Ahead = 2
    Rotate = 3
    Retain = 3
    VerifyRetain = 4
    MaxAge = 1
    PassBound = 1
    SignBound = 0
    MaxTime = 5
    MaxFaults = 2
    None = None
SYMMETRY KidSymmetry
INVARIANTS
    OneSigner
    OneWaiting
    CatchesUp
    CopiesKnowTheSigner
PROPERTIES
    ImplementsLifecycle
