SPECIFICATION Spec
CONSTANTS
    BucketCount = 3
    BucketWidth = 2
    MaxNow = 13
    MaxOutcomes = 3
INVARIANTS
    TotalsMatchHistory
    ForgetsByAge
