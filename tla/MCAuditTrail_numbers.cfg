SPECIFICATION Spec
CONSTANTS
    Caller = {c1, c2}
    Retention = 1
    MaxDay = 3
    MaxRecords = 4
    MaxCrashes = 0
    MaxErrors = 0
    Nobody = Nobody
SYMMETRY CallerSymmetry
INVARIANT NumbersAreNotReused
