SPECIFICATION RateSpec
CONSTANTS
    Callers = {a1}
    Keys = {k1, k2}
    Bearers = {}
    Anonymous = none
    Limit <- Limits
    AddressLimit <- AddressLimits
    Window <- Windows
    IdleAfter = 2
    SweepEvery = 3
    SweepAt = 1
    MaxBuckets = 2
    MaxTime = 3
INVARIANTS GuessesBounded HeadersHonest
CHECK_DEADLOCK FALSE
