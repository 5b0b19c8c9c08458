SPECIFICATION Spec
CONSTANTS
    Caller = {c1, c2}
    Retention = 1
    MaxDay = 3
    MaxRecords = 4
    MaxCrashes = 1
    MaxErrors = 1
    Nobody = Nobody
SYMMETRY CallerSymmetry
INVARIANTS
    TypeOK
    AckedStay
    SealsAreTrue
    UndamagedTrailVerifies
PROPERTIES
    FinishedLinesStand
