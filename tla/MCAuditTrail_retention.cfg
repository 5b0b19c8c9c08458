SPECIFICATION Spec
CONSTANTS
    Caller = {c1}
    Retention = 1
    MaxDay = 3
    MaxRecords = 5
    MaxCrashes = 0
    MaxErrors = 0
    Nobody = Nobody
INVARIANTS
    RetainedTrailVerifies
