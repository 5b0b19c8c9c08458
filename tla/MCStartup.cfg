CONSTANTS
    Unset = Unset
    Empty = Empty
    Declared = {"extra"}
    Claimed = {"vendor"}
    Words = {"a", "b", "key"}
    MaxNumber = 2000000000
    Deployments <- MCDeployments
    Operated <- MCOperated
    Placed <- MCPlaced
    OwnFiles = {"own.pem", "own.key", "own_ca.pem", "own.crl"}
    RealmNames <- MCRealmNames
    MaxStarts = 4
    MaxCrashes = 2
    MaxReplaced = 1
SPECIFICATION Spec
INVARIANTS
    
    VersionNamesOneKey
    MaterialVerifies
CHECK_DEADLOCK FALSE
