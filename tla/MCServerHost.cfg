SPECIFICATION Spec
CONSTANTS
    None = None
    admin = admin
    public = public
    system = system
    realm = realm
    MaxVersion = 1
    Reload = TRUE
    Services <- MCServices
    Secured = public
    TrailOf <- MCTrailOf
    System = system
    Realms <- MCRealms
    MaxFaults = 1
INVARIANTS
    FirstUpLastDown
    CleanEndIsSealed
PROPERTIES
    FollowsTheFiles
    ShutdownEnds
