SPECIFICATION Spec
CONSTANTS
    Threads = {t1, t2, t3}
    FailureThreshold = 2
    SuccessThreshold = 1
    ResetTimeout = 1
    EmitInterval = 1
    RateMode = FALSE
    RateNum = 1
    RateDen = 2
    MinimumCalls = 1
    BucketCount = 2
    BucketWidth = 1
    EmitMayRaise = TRUE
    MaxBad = 4
    MaxRejections = 1
    Horizon = 2
SYMMETRY Symmetry
INVARIANTS
    TicketInv
CHECK_DEADLOCK FALSE
