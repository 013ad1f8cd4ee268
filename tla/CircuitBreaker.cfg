SPECIFICATION FairSpec
CONSTANTS
    Threads = {t1, t2, t3}
    FailureThreshold = 2
    SuccessThreshold = 2
    ResetTimeout = 2
    EmitInterval = 2
    RateMode = FALSE
    RateNum = 1
    RateDen = 2
    MinimumCalls = 1
    BucketCount = 2
    BucketWidth = 1
    EmitMayRaise = FALSE
    MaxBad = 4
    MaxRejections = 2
    Horizon = 3
INVARIANTS
    TypeOK
    ProbeSlotOwned
    EveryTransitionReported
PROPERTIES
    Recovery
    ImplementsContract
