SPECIFICATION Spec
CONSTANTS
    Kid = {k1, k2}
    Handler = {h1, h2}
    Scope = {s1, s2}
    Mapped = {s1}
    RejectUnmatched = FALSE
    RequireExpiration = FALSE
    Claim = {x1}
    Retain = 1
    Lifetime = 1
    MaxRequested = 2
    Policy = "later"
    Signatures = 2
    MaxTime = 1
    MaxExpiry = 4
    MaxLineages = 1
    MaxTokens = 3
    MaxFaults = 1
    None = None
SYMMETRY Symmetry
INVARIANTS
    TypeOK
    ReleasedIsRecorded
    LineageKeepsItsExpiry
    AuthorityNeverGrows
    ContractsBind
    OneKeySignsAToken
