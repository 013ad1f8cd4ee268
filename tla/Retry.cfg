SPECIFICATION Spec
CONSTANTS
    BucketCount = 2
    PctNum = 1
    PctDen = 2
    Floor = 0
    Callers = {c1, c2}
    MaxAttempts = 3
    MaxCalls = 4
    LastSlot = 4
SYMMETRY Symmetry
INVARIANTS
    TypeOK
    TotalsMatchHistory
    NoRetryStorm
    RetriesPaid
PROPERTIES
    RefusedOnlyWhenSpent
