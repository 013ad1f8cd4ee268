SPECIFICATION Spec
CONSTANTS
    Tasks = {t1, t2}
    FailureThreshold = 2
    SuccessThreshold = 1
    ResetTimeout = 1
    EmitInterval = 2
    RateMode = TRUE
    RateNum = 1
    RateDen = 2
    MinimumCalls = 2
    BucketCount = 2
    BucketWidth = 1
    MaxCalls = 5
    Horizon = 3
SYMMETRY Symmetry
INVARIANTS
    TypeOK
    TripsOnRate
