SPECIFICATION StackSpec
CONSTANTS
    a1 = a1
    a2 = a2
    a3 = a3
    b1 = b1
    Tasks = {a1, a2, a3, b1}
    LoopOf <- TwoLoops
    MaxConcurrent = 2
    HasTimeout = TRUE
    FailureThreshold = 2
    SuccessThreshold = 2
INVARIANTS
    StackTypeOK
    PermitsConserved
    NoStrandedWaiter
    OneLoop
    BreakerKnowsCalls
PROPERTIES
    ImplementsPool
    CausesToldApart
    HangOpens
    EveryCallEnds
