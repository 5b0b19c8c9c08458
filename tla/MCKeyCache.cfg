SPECIFICATION Spec
CONSTANTS
    None = None
    Skew = 1
    MaxDisclosures = 2
    Attesters <- MCAttesters
    Profiles <- MCProfiles
    Plain = {"profile"}
    Bodies <- MCBodies
    Presentations <- MCPresentations
    AccessTokens <- MCAccessTokens
    RefreshEvery = 2
    RetryUntilReady = 1
    RequestTimeout = 1
    ServeStaleFor = 1
    ShutdownTimeout = 1
    Now = 10
INVARIANTS
    StaleIsBounded
    IssuerSpeaks
    ProviderSpeaks
PROPERTY CatchesUp
