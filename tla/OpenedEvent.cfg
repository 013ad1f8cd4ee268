SPECIFICATION Spec
CONSTANTS
    Tasks = {t1, t2}
    FailureThreshold = 2
    SuccessThreshold = 1
    ResetTimeout = 2
    EmitInterval = 2
    RateMode = FALSE
    RateNum = 1
    RateDen = 2
    MinimumCalls = 1
    BucketCount = 2
    BucketWidth = 1
    MaxCalls = 4
    Horizon = 4
SYMMETRY Symmetry
INVARIANTS
    OpenedOnlyFromClosed
